------------------------------- MODULE MCUri --------------------------------
(***************************************************************************)
(* Inputs and argument sets for Uri.  An input string is a scheme part,  *)
(* an authority part, a path part, a query part and a fragment part, each *)
(* from a small set of raw strings (written below in comments); the      *)
(* parts are concatenated, so a part can also run into its neighbour    *)
(* ("//h" then "a" is the host "ha").                                     *)
(***************************************************************************)
EXTENDS Uri

Ca == 97
Cb == 98
Cf == 102
Ch == 104
Cq == 113
Cu == 117
Cv == 118
Cx == 120
CA == 65
CH == 72
CX == 88
C0 == 48
C1 == 49
C8 == 56

SchemeParts == { <<>>, <<Ca, COLON>>, <<CA, COLON>> }            \* "", "a:", "A:"

\* "", "//h", "//H", "//u@h:8", "//:8", "//[::1]", "//[v1.x]"
AuthorityParts ==
    { <<>>, <<SLASH, SLASH, Ch>>, <<SLASH, SLASH, CH>>,
      <<SLASH, SLASH, Cu, AT, Ch, COLON, C8>>, <<SLASH, SLASH, COLON, C8>>,
      <<SLASH, SLASH, LBRACKET, COLON, COLON, C1, RBRACKET>>,
      <<SLASH, SLASH, LBRACKET, Cv, C1, DOT, Cx, RBRACKET>> }

\* "", "/", "/a", "a", "/a/../b", "/a//%62"
PathParts ==
    { <<>>, <<SLASH>>, <<SLASH, Ca>>, <<Ca>>,
      <<SLASH, Ca, SLASH, DOT, DOT, SLASH, Cb>>,
      <<SLASH, Ca, SLASH, SLASH, PERCENT, 54, 50>> }

QueryParts    == { <<>>, <<QUESTION, Cq, PLUS>> }               \* "", "?q+"
FragmentParts == { <<>>, <<HASH, Cf>> }                           \* "", "#f"

Compose(S, Au, P, Q, F) ==
    { s1 \o s2 \o s3 \o s4 \o s5 : s1 \in S, s2 \in Au, s3 \in P, s4 \in Q, s5 \in F }

\* Strings that parse and whose values the serializer renders faithfully.
ParseInputs == Compose(SchemeParts, AuthorityParts, PathParts, QueryParts, FragmentParts)

\* Values the serializer changes: "//[::A]/" (IPv6, upper case),
\* "//[v1.X]/" (IPvFuture, upper case), and "a%3Ab", a first path
\* segment that decodes to "a:b".
RoundTripInputs ==
    { <<SLASH, SLASH, LBRACKET, COLON, COLON, CA, RBRACKET, SLASH>>,
      <<SLASH, SLASH, LBRACKET, Cv, C1, DOT, CX, RBRACKET, SLASH>>,
      <<Ca, PERCENT, 51, CA, Cb>> }

\* Paths ending in '%', "%6" and "%62".
EscapeInputs ==
    Compose({<<>>}, {<<>>},
            { <<SLASH, PERCENT>>, <<SLASH, PERCENT, 54>>, <<SLASH, PERCENT, 54, 50>> },
            {<<>>}, {<<>>})

\* Port texts "8", "08", "8x", "+8", " 8".
PortInputs ==
    Compose({<<>>},
            { <<SLASH, SLASH, Ch, COLON>> \o p :
                p \in { <<C8>>, <<C0, C8>>, <<C8, Cx>>, <<PLUS, C8>>, <<32, C8>> } },
            {<<>>}, {<<>>}, {<<>>})

\* "//h:8" and then "//h": the second parse has no port text.
ReparseInputs == { <<SLASH, SLASH, Ch, COLON, C8>>, <<SLASH, SLASH, Ch>> }

\* Between objects: "h://a/b/../c?q#f", "/./a/", "..//g", "b/..", and
\* "//h:65536", one past the largest port.
ObjectInputs ==
    { <<Ch, COLON, SLASH, SLASH, Ca, SLASH, Cb, SLASH, DOT, DOT, SLASH, 99,
        QUESTION, Cq, HASH, Cf>>,
      <<SLASH, DOT, SLASH, Ca, SLASH>>,
      <<DOT, DOT, SLASH, SLASH, 103>>,
      <<Cb, SLASH, DOT, DOT>>,
      <<SLASH, SLASH, Ch, COLON, 54, 53, 53, 51, 54>> }

\* For the whole interface, also "//h:65535", the largest port.
ApiInputs == ObjectInputs \cup { <<SLASH, SLASH, Ch, COLON, 54, 53, 53, 51, 53>> }
ApiSchemes == { <<Cx>> }
ApiTexts   == { <<Cx>> }
ApiPorts   == { 8 }
ApiPaths   == { << <<>>, DotDotSegment, DotSegment >> }     \* "/.././"

\* Calls between objects only: parse, NormalizePath, Resolve, copy, and
\* the constructors, moves and destructor.
ObjectsNext ==
    \E h \in Handles :
        \/ \E s \in Inputs : ParseFromStringOn(h, s)
        \/ NormalizePathOn(h)
        \/ \E b, r \in Handles : ResolveInto(b, r, h)
        \/ \E o \in Handles : CopyAssign(o, h)
        \/ Lifecycle(h)
ObjectsSpec == Init /\ [][ObjectsNext]_vars

\* The objects are interchangeable: no call names a particular one.
HandleSymmetry == Permutations(Handles)

\* A base "h://a/b?x" and a reference "?q" whose query is then cleared.
ClearedQueryInputs ==
    { <<Ch, COLON, SLASH, SLASH, Ca, SLASH, Cb, QUESTION, Cx>>, <<QUESTION, Cq>> }

\* The calls between objects, and ClearQuery.
ClearedQueryNext == ObjectsNext \/ \E h \in Handles : ClearQuery(h)
ClearedQuerySpec == Init /\ [][ClearedQueryNext]_vars

\* Only ParseFromString, on the objects of Handles.
ParseNext == \E hd \in Handles, s \in Inputs : ParseFromStringOn(hd, s)
ParseSpec == Init /\ [][ParseNext]_vars

=============================================================================
