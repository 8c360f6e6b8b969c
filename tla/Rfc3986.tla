------------------------------ MODULE Rfc3986 -------------------------------
(***************************************************************************)
(* Reference definitions the code is checked against: the IPv6address    *)
(* grammar of RFC 3986 section 3.2.2 and the IPv4 rule of spec.md 4.4    *)
(* (four all-digit groups, each numerically at most 255, leading zeros   *)
(* and long runs allowed).  They are written from the grammar, not from *)
(* the code, and say nothing about how the code scans.                   *)
(***************************************************************************)
EXTENDS UriChars, Integers, SequencesExt

\* The pieces of s between occurrences of sep (empty pieces kept).
RECURSIVE SplitOn(_, _)
SplitOn(s, sep) ==
    LET i == SelectInSeq(s, LAMBDA x : x = sep)
    IN  IF i = 0 THEN <<s>>
        ELSE <<SubSeq(s, 1, i - 1)>> \o SplitOn(SubSeq(s, i + 1, Len(s)), sep)

\* A digit string longer than 3 characters exceeds 255 unless it has
\* leading zeros; its value is computed only when it is short enough for
\* TLC's integers.
OctetValueAtMost255(p) ==
    LET nz == SelectInSeq(p, LAMBDA x : x # 48)
        sig == IF nz = 0 THEN <<>> ELSE SubSeq(p, nz, Len(p))
    IN  Len(sig) <= 3 /\ DecimalValue(sig) <= 255

\* spec.md 4.4: exactly four groups of decimal digits, each <= 255.
Ipv4Spec(s) ==
    LET parts == SplitOn(s, DOT)
    IN  /\ Len(parts) = 4
        /\ \A k \in 1 .. 4 :
              /\ parts[k] # <<>>
              /\ \A i \in DOMAIN parts[k] : parts[k][i] \in DIGIT
              /\ OctetValueAtMost255(parts[k])

\* h16 = 1*4HEXDIG
H16(p) == Len(p) \in 1 .. 4 /\ \A i \in DOMAIN p : p[i] \in HEXDIG

\* A non-empty colon-separated run of h16, optionally ending in an IPv4
\* address (which stands for two groups); GroupCount is its size.
GroupList(x, allowIpv4) ==
    LET ps == SplitOn(x, COLON)
    IN  /\ \A k \in 1 .. Len(ps) - 1 : H16(ps[k])
        /\ H16(Last(ps)) \/ (allowIpv4 /\ Ipv4Spec(Last(ps)))

GroupCount(x) ==
    LET ps == SplitOn(x, COLON)
    IN  Len(ps) + (IF H16(Last(ps)) THEN 0 ELSE 1)

\* IPv6address of RFC 3986: either eight groups, or at most seven groups
\* around a single "::", the IPv4 form only as the last two groups.
Ipv6Address(s) ==
    LET dc == {i \in 1 .. Len(s) - 1 : s[i] = COLON /\ s[i + 1] = COLON}
    IN  IF dc = {} THEN GroupList(s, TRUE) /\ GroupCount(s) = 8
        ELSE \E i \in dc :
               /\ dc = {i}
               /\ LET l == SubSeq(s, 1, i - 1)
                      r == SubSeq(s, i + 2, Len(s))
                  IN  /\ l # <<>> => GroupList(l, FALSE)
                      /\ r # <<>> => GroupList(r, TRUE)
                      /\ (IF l = <<>> THEN 0 ELSE GroupCount(l))
                         + (IF r = <<>> THEN 0 ELSE GroupCount(r)) <= 7

-----------------------------------------------------------------------------
(* Reference resolution, RFC 3986 section 5.  A reference is split into  *)
(* its five components by the regular expression of appendix B; the     *)
(* components stay raw strings (nothing is decoded), and "defined" is    *)
(* kept apart from "empty" for the scheme, authority, query and fragment. *)
(***************************************************************************)

\* The index of the first element of s in S, or Len(s) + 1.
FirstIndexIn(s, S) ==
    LET i == SelectInSeq(s, LAMBDA x : x \in S) IN IF i = 0 THEN Len(s) + 1 ELSE i

Rest(s, i) == SubSeq(s, i, Len(s))

\* ^(([^:/?#]+):)?(//([^/?#]*))?([^?#]*)(\?([^#]*))?(#(.*))?, matched left
\* to right: the scheme, the authority, then the path, query and fragment
\* of what is left (head holds the components already matched).
RfcQueryFragment(head, path, r4, hq) ==
    LET qe == IF hq THEN FirstIndexIn(r4, {HASH}) ELSE 1
        r5 == Rest(r4, qe)
    IN  [hasScheme |-> head.hasScheme, scheme |-> head.scheme,
         hasAuthority |-> head.hasAuthority, authority |-> head.authority,
         path |-> path,
         hasQuery |-> hq, query |-> IF hq THEN SubSeq(r4, 2, qe - 1) ELSE <<>>,
         hasFragment |-> r5 # <<>>, fragment |-> Rest(r5, 2)]

RfcPathOn(head, r3, pe) ==
    RfcQueryFragment(head, SubSeq(r3, 1, pe - 1), Rest(r3, pe),
                     pe <= Len(r3) /\ r3[pe] = QUESTION)

RfcAuthorityOn(hs, scheme, ha, r2, ae) ==
    RfcPathOn([hasScheme |-> hs, scheme |-> scheme,
               hasAuthority |-> ha, authority |-> SubSeq(r2, 1, ae - 1)],
              Rest(r2, ae), FirstIndexIn(Rest(r2, ae), {QUESTION, HASH}))

RfcAfterScheme(hs, scheme, r1, ha) ==
    LET r2 == IF ha THEN Rest(r1, 3) ELSE r1
    IN  RfcAuthorityOn(hs, scheme, ha, r2,
                       IF ha THEN FirstIndexIn(r2, {SLASH, QUESTION, HASH}) ELSE 1)

RfcSchemeOn(s, c, hs) ==
    LET r1 == IF hs THEN Rest(s, c + 1) ELSE s
    IN  RfcAfterScheme(hs, IF hs THEN SubSeq(s, 1, c - 1) ELSE <<>>, r1,
                       Len(r1) >= 2 /\ r1[1] = SLASH /\ r1[2] = SLASH)

RfcComponents(s) ==
    LET c == FirstIndexIn(s, {COLON, SLASH, QUESTION, HASH})
    IN  RfcSchemeOn(s, c, c > 1 /\ c <= Len(s) /\ s[c] = COLON)

\* The output buffer without its last segment and that segment's '/'.
DropLastSegment(out) ==
    LET k == SelectLastInSeq(out, LAMBDA x : x = SLASH)
    IN  IF k = 0 THEN <<>> ELSE SubSeq(out, 1, k - 1)

\* remove_dot_segments, section 5.2.4, rules A to E.
RECURSIVE RemoveDotSegments(_, _)
RemoveDotSegments(in, out) ==
    LET D  == <<DOT>>
        DD == <<DOT, DOT>>
        S  == <<SLASH>>
    IN  CASE in = <<>> -> out
          [] IsPrefix(DD \o S, in) -> RemoveDotSegments(Rest(in, 4), out)
          [] IsPrefix(D \o S, in) -> RemoveDotSegments(Rest(in, 3), out)
          [] IsPrefix(S \o D \o S, in) -> RemoveDotSegments(Rest(in, 3), out)
          [] in = S \o D -> RemoveDotSegments(S, out)
          [] IsPrefix(S \o DD \o S, in) -> RemoveDotSegments(Rest(in, 4), DropLastSegment(out))
          [] in = S \o DD -> RemoveDotSegments(S, DropLastSegment(out))
          [] in \in {D, DD} -> out
          [] OTHER ->
               LET j == SelectInSeq(Tail(in), LAMBDA x : x = SLASH)
                   n == IF j = 0 THEN Len(in) ELSE j
               IN  RemoveDotSegments(Rest(in, n + 1), out \o SubSeq(in, 1, n))

RemoveDots(p) == RemoveDotSegments(p, <<>>)

\* merge, section 5.2.3.
RfcMerge(B, rpath) ==
    IF B.hasAuthority /\ B.path = <<>> THEN <<SLASH>> \o rpath
    ELSE SubSeq(B.path, 1, SelectLastInSeq(B.path, LAMBDA x : x = SLASH)) \o rpath

\* The transform of section 5.2.2 (strict: a scheme in R is never dropped).
RfcResolve(B, R) ==
    LET T == CASE R.hasScheme ->
                    [R EXCEPT !.path = RemoveDots(R.path)]
               [] R.hasAuthority ->
                    [R EXCEPT !.path = RemoveDots(R.path),
                              !.hasScheme = B.hasScheme, !.scheme = B.scheme]
               [] R.path = <<>> ->
                    [B EXCEPT !.hasQuery = R.hasQuery \/ B.hasQuery,
                              !.query = IF R.hasQuery THEN R.query ELSE B.query]
               [] IsPrefix(<<SLASH>>, R.path) ->
                    [B EXCEPT !.path = RemoveDots(R.path),
                              !.hasQuery = R.hasQuery, !.query = R.query]
               [] OTHER ->
                    [B EXCEPT !.path = RemoveDots(RfcMerge(B, R.path)),
                              !.hasQuery = R.hasQuery, !.query = R.query]
    IN  [T EXCEPT !.hasFragment = R.hasFragment, !.fragment = R.fragment]

\* Component recomposition, section 5.3.
Recompose(T) ==
    (IF T.hasScheme THEN T.scheme \o <<COLON>> ELSE <<>>)
    \o (IF T.hasAuthority THEN <<SLASH, SLASH>> \o T.authority ELSE <<>>)
    \o T.path
    \o (IF T.hasQuery THEN <<QUESTION>> \o T.query ELSE <<>>)
    \o (IF T.hasFragment THEN <<HASH>> \o T.fragment ELSE <<>>)

=============================================================================
