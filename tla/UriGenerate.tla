----------------------------- MODULE UriGenerate -----------------------------
(***************************************************************************)
(* Uri::GenerateString and Uri::Impl::HasAuthority (src/src/Uri.cpp): the *)
(* string a URI value is rendered as.                                    *)
(***************************************************************************)
EXTENDS UriParse

\* Mutation: a port alone is not an authority.
HasAuthorityWithoutPort(u) == u.host # <<>> \/ u.userInfo # <<>>

HasAuthority(u) == u.host # <<>> \/ u.userInfo # <<>> \/ u.hasPort

\* A host that passes the IPv6 validator is bracketed and lower-cased;
\* any other host is percent-encoded as a reg-name.
HostString(u) ==
    IF ValidateIpv6Address(u.host)
    THEN <<LBRACKET>> \o LowerAll(u.host) \o <<RBRACKET>>
    ELSE EncodeElement(u.host, REG_NAME_NOT_PCT_ENCODED)

AuthorityString(u) ==
    <<SLASH, SLASH>>
    \o (IF u.userInfo # <<>>
        THEN EncodeElement(u.userInfo, USER_INFO_NOT_PCT_ENCODED) \o <<AT>> ELSE <<>>)
    \o (IF u.host # <<>> THEN HostString(u) ELSE <<>>)
    \o (IF u.hasPort THEN <<COLON>> \o DecimalString(u.port) ELSE <<>>)

\* The segments joined by '/', each percent-encoded; the path that is only
\* the absolute marker renders as "/".
RECURSIVE JoinSegments(_)
JoinSegments(path) ==
    CASE path = <<>> -> <<>>
      [] Len(path) = 1 -> EncodeElement(path[1], PCHAR_NOT_PCT_ENCODED)
      [] OTHER -> EncodeElement(path[1], PCHAR_NOT_PCT_ENCODED) \o <<SLASH>>
                  \o JoinSegments(Tail(path))

PathString(u) ==
    (IF IsPathAbsolute(u.path) /\ Len(u.path) = 1 THEN <<SLASH>> ELSE <<>>)
    \o JoinSegments(u.path)

GenerateString(u) ==
    (IF u.scheme # <<>> THEN u.scheme \o <<COLON>> ELSE <<>>)
    \o (IF HasAuthority(u) THEN AuthorityString(u) ELSE <<>>)
    \o PathString(u)
    \o (IF u.hasQuery
        THEN <<QUESTION>> \o EncodeElement(u.query, QUERY_NOT_PCT_ENCODED_WITHOUT_PLUS)
        ELSE <<>>)
    \o (IF u.hasFragment
        THEN <<HASH>> \o EncodeElement(u.fragment, QUERY_OR_FRAGMENT_NOT_PCT_ENCODED)
        ELSE <<>>)

=============================================================================
