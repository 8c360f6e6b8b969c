--------------------------- MODULE MCUriResolve ----------------------------
(***************************************************************************)
(* Bases and references for UriResolveCheck.  RfcBases are absolute URIs *)
(* whose path has a directory part or is empty under an authority; the   *)
(* references are the normal and abnormal examples of RFC 3986 section   *)
(* 5.4.  RootlessBases adds a base whose path is a single rootless        *)
(* segment.  Lower-case letters only and no '%', so that neither          *)
(* lower-casing nor decoding changes a component.                         *)
(***************************************************************************)
EXTENDS UriResolveCheck

Ca == 97
Cb == 98
Cc == 99
Cd == 100
Cg == 103
Ch == 104
Cp == 112
Cq == 113
Cs == 115
Cu == 117
Cx == 120
Cy == 121
SEMI == 59
EQ == 61
C1 == 49
C8 == 56

\* the base of RFC 3986 5.4, a path-only base, an empty and a directory path,
\* and a base with user info, a port and a fragment (which Resolve drops)
RfcBases ==
    { <<Ch, COLON, SLASH, SLASH, Ca, SLASH, Cb, SLASH, Cc, SLASH, Cd, SEMI, Cp, QUESTION, Cq>>,  \* "h://a/b/c/d;p?q"
      <<Ch, COLON, SLASH, Cb, SLASH, Cc>>,                  \* "h:/b/c"
      <<Ch, COLON, SLASH, SLASH, Ca>>,                      \* "h://a"
      <<Ch, COLON, SLASH, SLASH, Ca, SLASH, Cb, SLASH>>,    \* "h://a/b/"
      <<Ch, COLON, SLASH, SLASH, Cu, AT, Ca, COLON, C8, SLASH, Cb, SLASH, Cc, HASH, Cx>> }
                                                            \* "h://u@a:8/b/c#x"

\* RFC 3986 5.4.1 and 5.4.2
RfcReferences ==
    { <<Cg, COLON, Ch>>,                                    \* "g:h"
      <<Cg>>,                                               \* "g"
      <<DOT, SLASH, Cg>>,                                   \* "./g"
      <<Cg, SLASH>>,                                        \* "g/"
      <<SLASH, Cg>>,                                        \* "/g"
      <<SLASH, SLASH, Cg>>,                                 \* "//g"
      <<QUESTION, Cy>>,                                     \* "?y"
      <<Cg, QUESTION, Cy>>,                                 \* "g?y"
      <<HASH, Cs>>,                                         \* "#s"
      <<Cg, HASH, Cs>>,                                     \* "g#s"
      <<Cg, QUESTION, Cy, HASH, Cs>>,                       \* "g?y#s"
      <<SEMI, Cx>>,                                         \* ";x"
      <<Cg, SEMI, Cx>>,                                     \* "g;x"
      <<Cg, SEMI, Cx, QUESTION, Cy, HASH, Cs>>,             \* "g;x?y#s"
      <<>>,                                                 \* ""
      <<DOT>>,                                              \* "."
      <<DOT, SLASH>>,                                       \* "./"
      <<DOT, DOT>>,                                         \* ".."
      <<DOT, DOT, SLASH>>,                                  \* "../"
      <<DOT, DOT, SLASH, Cg>>,                              \* "../g"
      <<DOT, DOT, SLASH, DOT, DOT>>,                        \* "../.."
      <<DOT, DOT, SLASH, DOT, DOT, SLASH>>,                 \* "../../"
      <<DOT, DOT, SLASH, DOT, DOT, SLASH, Cg>>,             \* "../../g"
      <<DOT, DOT, SLASH, DOT, DOT, SLASH, DOT, DOT, SLASH, Cg>>,  \* "../../../g"
      <<DOT, DOT, SLASH, DOT, DOT, SLASH, DOT, DOT, SLASH, DOT, DOT, SLASH, Cg>>,  \* "../../../../g"
      <<SLASH, DOT, SLASH, Cg>>,                            \* "/./g"
      <<SLASH, DOT, DOT, SLASH, Cg>>,                       \* "/../g"
      <<Cg, DOT>>,                                          \* "g."
      <<DOT, Cg>>,                                          \* ".g"
      <<Cg, DOT, DOT>>,                                     \* "g.."
      <<DOT, DOT, Cg>>,                                     \* "..g"
      <<DOT, SLASH, DOT, DOT, SLASH, Cg>>,                  \* "./../g"
      <<DOT, SLASH, Cg, SLASH, DOT>>,                       \* "./g/."
      <<Cg, SLASH, DOT, SLASH, Ch>>,                        \* "g/./h"
      <<Cg, SLASH, DOT, DOT, SLASH, Ch>>,                   \* "g/../h"
      <<Cg, SEMI, Cx, EQ, C1, SLASH, DOT, SLASH, Cy>>,      \* "g;x=1/./y"
      <<Cg, SEMI, Cx, EQ, C1, SLASH, DOT, DOT, SLASH, Cy>>, \* "g;x=1/../y"
      <<Cg, QUESTION, Cy, SLASH, DOT, SLASH, Cx>>,          \* "g?y/./x"
      <<Cg, QUESTION, Cy, SLASH, DOT, DOT, SLASH, Cx>>,     \* "g?y/../x"
      <<Cg, HASH, Cs, SLASH, DOT, SLASH, Cx>>,              \* "g#s/./x"
      <<Cg, HASH, Cs, SLASH, DOT, DOT, SLASH, Cx>> }        \* "g#s/../x"

\* a base whose path is a single rootless segment
RootlessBases ==
    { <<Ch, COLON, Cb>> }                                   \* "h:b"

\* a base with an authority but no host: a port only
HostlessAuthorityBases ==
    { <<Ch, COLON, SLASH, SLASH, COLON, C8>> }              \* "h://:8"

\* a relative-path reference
MergeReferences ==
    { <<Cg>> }                                              \* "g"

=============================================================================
