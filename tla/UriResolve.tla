----------------------------- MODULE UriResolve ------------------------------
(***************************************************************************)
(* Uri::Resolve (src/src/Uri.cpp) and the Uri::Impl copy helpers it uses. *)
(* target starts as a default-constructed Uri; the reference decides     *)
(* which of its parts come from the base and which from the reference.   *)
(***************************************************************************)
EXTENDS UriParse

CopyScheme(t, o)    == [t EXCEPT !.scheme = o.scheme]
CopyAuthority(t, o) == [t EXCEPT !.host = o.host, !.userInfo = o.userInfo,
                                 !.hasPort = o.hasPort, !.port = o.port]
CopyPath(t, o)      == [t EXCEPT !.path = o.path]
CopyAndNormalizePath(t, o) == [t EXCEPT !.path = NormalizePath(o.path)]
CopyQuery(t, o)     == [t EXCEPT !.hasQuery = o.hasQuery, !.query = o.query]
CopyFragment(t, o)  == [t EXCEPT !.hasFragment = o.hasFragment, !.fragment = o.fragment]

\* "T.path = merge(Base.path, R.path)": drop the base's last segment only
\* when it has more than one, append the reference's, normalize.
MergePath(base, ref) ==
    NormalizePath((IF Len(base.path) > 1 THEN Front(base.path) ELSE base.path) \o ref.path)

\* Mutation: an empty reference path takes the reference's query always.
RelativePathAndQueryNoBaseQuery(t, base, ref) ==
    CASE ref.path = <<>> -> CopyQuery(CopyPath(t, base), ref)
      [] IsPathAbsolute(ref.path) -> CopyQuery(CopyAndNormalizePath(t, ref), ref)
      [] OTHER -> CopyQuery([t EXCEPT !.path = MergePath(base, ref)], ref)

\* No scheme and no host in the reference: the path and query.
RelativePathAndQuery(t, base, ref) ==
    CASE ref.path = <<>> /\ ref.query # <<>> -> CopyQuery(CopyPath(t, base), ref)
      [] ref.path = <<>> -> CopyQuery(CopyPath(t, base), base)
      [] IsPathAbsolute(ref.path) -> CopyQuery(CopyAndNormalizePath(t, ref), ref)
      [] OTHER -> CopyQuery([t EXCEPT !.path = MergePath(base, ref)], ref)

Resolve(base, ref) ==
    LET t == CASE ref.scheme # <<>> ->
                    CopyQuery(CopyAndNormalizePath(CopyAuthority(CopyScheme(EmptyUri, ref), ref), ref), ref)
               [] ref.host # <<>> ->
                    CopyScheme(CopyQuery(CopyAndNormalizePath(CopyAuthority(EmptyUri, ref), ref), ref), base)
               [] OTHER ->
                    CopyScheme(CopyAuthority(RelativePathAndQuery(EmptyUri, base, ref), base), base)
    IN  CopyFragment(t, ref)

=============================================================================
