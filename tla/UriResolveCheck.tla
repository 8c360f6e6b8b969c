-------------------------- MODULE UriResolveCheck --------------------------
(***************************************************************************)
(* One call target = base.Resolve(reference) (src/src/Uri.cpp), both Uri  *)
(* objects produced by a successful ParseFromString, checked against the *)
(* reference resolution of RFC 3986 section 5 (Rfc3986) applied to the   *)
(* same two strings.                                                     *)
(***************************************************************************)
EXTENDS UriGenerate, UriResolve, Rfc3986

CONSTANTS
    BaseStrings,    \* strings the base Uri is parsed from
    RefStrings      \* strings the relative reference is parsed from

VARIABLES
    baseString,     \* the base's ParseFromString argument
    refString,      \* the reference's ParseFromString argument
    target,         \* the Uri Resolve returned, once done
    done

vars == <<baseString, refString, target, done>>

Parses(s) == ParseFromString(EmptyUri, s).ok
ParsedFrom(s) == ParseFromString(EmptyUri, s).u

Init ==
    /\ baseString \in {s \in BaseStrings : Parses(s)}
    /\ refString \in {s \in RefStrings : Parses(s)}
    /\ target = EmptyUri
    /\ done = FALSE

\* Uri::Resolve on the two parsed objects.
ResolveCall ==
    /\ ~done
    /\ target' = Resolve(ParsedFrom(baseString), ParsedFrom(refString))
    /\ done' = TRUE
    /\ UNCHANGED <<baseString, refString>>

Next == ResolveCall

Spec == Init /\ [][Next]_vars

TypeOK ==
    /\ baseString \in Seq(Byte) /\ refString \in Seq(Byte)
    /\ target.path \in Seq(Seq(Byte)) /\ target.hasQuery \in BOOLEAN
    /\ done \in BOOLEAN

\* The code gives a URI with an authority the path "/" when it would be
\* empty (SetDefaultPathIfAuthorityPresentAndPathEmpty); the reference
\* target is compared in that form.
WithRootPath(T) ==
    IF T.hasAuthority /\ T.path = <<>> THEN [T EXCEPT !.path = <<SLASH>>] ELSE T

\* spec.md 5 and the comment on Uri::Resolve: Resolve follows RFC 3986
\* section 5.2.2, so the string the resolved Uri renders as is the one the
\* RFC's algorithm (with remove_dot_segments) computes from the same base
\* and reference.  Covers the branch order of Resolve, the merge of the
\* base path, the query taken from the base, and NormalizePath.
ResolveMatchesRfc ==
    done =>
        GenerateString(target)
            = Recompose(WithRootPath(RfcResolve(RfcComponents(baseString),
                                                RfcComponents(refString))))

=============================================================================
