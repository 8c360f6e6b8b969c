------------------------------ MODULE UriParse ------------------------------
(***************************************************************************)
(* Uri::ParseFromString and the Uri::Impl parsing methods it calls        *)
(* (src/src/Uri.cpp).  A URI value is the record of Uri::Impl's fields;   *)
(* each parsing method maps the value it is given (the object's fields   *)
(* before the call) to [ok, u]: whether it returned true, and the fields *)
(* as the code leaves them, also when it returns false part-way.        *)
(***************************************************************************)
EXTENDS UriHost, UriCodec, UriPath

\* The fields of Uri::Impl; strings are byte sequences, port a uint16_t.
EmptyUri ==
    [scheme |-> <<>>, userInfo |-> <<>>, host |-> <<>>, hasPort |-> FALSE,
     port |-> 0, path |-> <<>>, hasQuery |-> FALSE, query |-> <<>>,
     hasFragment |-> FALSE, fragment |-> <<>>]

\* The part of the fields Uri::operator== compares: port, query and
\* fragment count only when present.  Two objects are equal exactly when
\* their Observed values are.
Observed(u) ==
    [u EXCEPT !.port = IF u.hasPort THEN @ ELSE 0,
              !.query = IF u.hasQuery THEN @ ELSE <<>>,
              !.fragment = IF u.hasFragment THEN @ ELSE <<>>]

\* std::string::find: the 1-based index of the first byte in S, 0 if none.
FindFirst(s, S) == SelectInSeq(s, LAMBDA x : x \in S)
From(s, i) == SubSeq(s, i, Len(s))
\* s.substr(0, n): at most the first n characters.
Prefix(s, n) == SubSeq(s, 1, IF n < Len(s) THEN n ELSE Len(s))

-----------------------------------------------------------------------------
(* ParseScheme, with FailsMatch and LegalSchemeCheckStrategy: the scheme *)
(* is searched for only before the first '/'.                            *)
(***************************************************************************)
LegalScheme(scheme) ==
    /\ scheme # <<>>
    /\ scheme[1] \in ALPHA
    /\ \A i \in 2 .. Len(scheme) : scheme[i] \in SCHEME_NOT_FIRST

\* Mutation: without a scheme the old one is left in place.
ParseSchemeKeepsScheme(u, uriString) ==
    LET slash  == FindFirst(uriString, {SLASH})
        window == IF slash = 0 THEN uriString ELSE SubSeq(uriString, 1, slash - 1)
        colon  == FindFirst(window, {COLON})
        scheme == SubSeq(uriString, 1, colon - 1)
    IN  CASE colon = 0 -> [ok |-> TRUE, u |-> u, rest |-> uriString]
          [] LegalScheme(scheme) ->
               [ok |-> TRUE, u |-> [u EXCEPT !.scheme = LowerAll(scheme)],
                rest |-> From(uriString, colon + 1)]
          [] OTHER -> [ok |-> FALSE, u |-> [u EXCEPT !.scheme = scheme], rest |-> <<>>]

ParseScheme(u, uriString) ==
    LET slash  == FindFirst(uriString, {SLASH})
        window == IF slash = 0 THEN uriString ELSE SubSeq(uriString, 1, slash - 1)
        colon  == FindFirst(window, {COLON})
        scheme == SubSeq(uriString, 1, colon - 1)
    IN  CASE colon = 0 ->
               [ok |-> TRUE, u |-> [u EXCEPT !.scheme = <<>>], rest |-> uriString]
          [] LegalScheme(scheme) ->
               [ok |-> TRUE, u |-> [u EXCEPT !.scheme = LowerAll(scheme)],
                rest |-> From(uriString, colon + 1)]
          [] OTHER -> [ok |-> FALSE, u |-> [u EXCEPT !.scheme = scheme], rest |-> <<>>]

-----------------------------------------------------------------------------
(* The host/port state machine of ParseAuthority.  FIRST_CHARACTER falls *)
(* through to NOT_IP_LITERAL, and IP_LITERAL to IPV6_ADDRESS, with the   *)
(* same character.                                                        *)
(***************************************************************************)
HostStates == {"FIRST_CHARACTER", "NOT_IP_LITERAL", "PERCENT_ENCODED_CHARACTER",
               "IP_LITERAL", "IPV6_ADDRESS", "IPV_FUTURE_NUMBER",
               "IPV_FUTURE_BODY", "GARBAGE_CHECK", "PORT"}

HostInit == [state |-> "FIRST_CHARACTER", host |-> <<>>, portString |-> <<>>,
             pec |-> PecInit, hostIsRegName |-> FALSE, fail |-> FALSE]

HFail(h) == [h EXCEPT !.fail = TRUE]
HPush(h, c) == [h EXCEPT !.host = Append(@, c)]

NotIpLiteral(h, c) ==
    CASE c = PERCENT -> [h EXCEPT !.pec = PecInit, !.state = "PERCENT_ENCODED_CHARACTER"]
      [] c = COLON -> [h EXCEPT !.state = "PORT"]
      [] c \in REG_NAME_NOT_PCT_ENCODED -> HPush(h, c)
      [] OTHER -> HFail(h)

PercentEncodedCharacter(h, c) ==
    CASE ~PecAccepts(c) -> HFail(h)
      [] PecDone(PecNext(h.pec, c)) ->
             [HPush(h, PecNext(h.pec, c).value) EXCEPT !.state = "NOT_IP_LITERAL",
                                                       !.pec = PecNext(h.pec, c)]
      [] OTHER -> [h EXCEPT !.pec = PecNext(h.pec, c)]

Ipv6AddressChar(h, c) ==
    CASE c = RBRACKET /\ ~ValidateIpv6Address(h.host) -> HFail(h)
      [] c = RBRACKET -> [h EXCEPT !.state = "GARBAGE_CHECK"]
      [] OTHER -> HPush(h, c)

\* '.' is kept in the host as well as the hex digits.
IpvFutureNumber(h, c) ==
    CASE c = DOT -> HPush([h EXCEPT !.state = "IPV_FUTURE_BODY"], c)
      [] c \notin HEXDIG -> HFail(h)
      [] OTHER -> HPush(h, c)

IpvFutureBody(h, c) ==
    CASE c = RBRACKET -> [h EXCEPT !.state = "GARBAGE_CHECK"]
      [] c \notin IPV_FUTURE_LAST_PART -> HFail(h)
      [] OTHER -> HPush(h, c)

HostStep(h, c) ==
    CASE h.fail -> h
      [] h.state = "FIRST_CHARACTER" /\ c = LBRACKET -> [h EXCEPT !.state = "IP_LITERAL"]
      [] h.state = "FIRST_CHARACTER" ->
             NotIpLiteral([h EXCEPT !.state = "NOT_IP_LITERAL", !.hostIsRegName = TRUE], c)
      [] h.state = "NOT_IP_LITERAL" -> NotIpLiteral(h, c)
      [] h.state = "PERCENT_ENCODED_CHARACTER" -> PercentEncodedCharacter(h, c)
      [] h.state = "IP_LITERAL" /\ c = LOWER_V ->
             HPush([h EXCEPT !.state = "IPV_FUTURE_NUMBER"], c)
      [] h.state = "IP_LITERAL" -> Ipv6AddressChar([h EXCEPT !.state = "IPV6_ADDRESS"], c)
      [] h.state = "IPV6_ADDRESS" -> Ipv6AddressChar(h, c)
      [] h.state = "IPV_FUTURE_NUMBER" -> IpvFutureNumber(h, c)
      [] h.state = "IPV_FUTURE_BODY" -> IpvFutureBody(h, c)
      [] h.state = "GARBAGE_CHECK" /\ c = COLON -> [h EXCEPT !.state = "PORT"]
      [] h.state = "GARBAGE_CHECK" -> HFail(h)
      [] h.state = "PORT" -> [h EXCEPT !.portString = Append(@, c)]

\* The input may end only in these states; otherwise it was truncated.
HostEndStates == {"FIRST_CHARACTER", "NOT_IP_LITERAL", "GARBAGE_CHECK", "PORT"}

-----------------------------------------------------------------------------
(* std::stoi(portString): leading white space, an optional sign, then at  *)
(* least one digit; the digits after are ignored from the first non-digit *)
(* on.  No digit throws invalid_argument; a value outside int throws      *)
(* out_of_range.  Either throw, and any value outside 0..65535, makes     *)
(* ParseAuthority return false, so the value is kept only up to PortCap.  *)
(***************************************************************************)
PortCap == 65536
IsSpace(c) == c \in 9 .. 13 \/ c = 32

\* The value of the leading digit run of s, capped at PortCap.
DigitRunValue(s) ==
    LET end == SelectInSeq(s, LAMBDA x : x \notin DIGIT)
        run == IF end = 0 THEN s ELSE SubSeq(s, 1, end - 1)
        nz  == SelectInSeq(run, LAMBDA x : x # 48)
        sig == IF nz = 0 THEN <<>> ELSE From(run, nz)
    IN  IF Len(sig) > 5 THEN PortCap ELSE DecimalValue(sig)

\* [ok |-> no exception, value |-> the int, kept up to PortCap]
Stoi(portString) ==
    LET ws   == SelectInSeq(portString, LAMBDA x : ~IsSpace(x))
        body == IF ws = 0 THEN <<>> ELSE From(portString, ws)
        neg  == body # <<>> /\ body[1] = MINUS
        num  == IF body # <<>> /\ body[1] \in {PLUS, MINUS} THEN Tail(body) ELSE body
        mag  == DigitRunValue(num)
    IN  [ok |-> num # <<>> /\ num[1] \in DIGIT,
         value |-> IF neg THEN -mag ELSE mag]

\* Mutation: the upper bound one too high.
PortInRangeOffByOne(v) == v >= 0 /\ v <= 65536

\* portAsInt < 0 || portAsInt > numeric_limits<uint16_t>::max() is rejected.
PortInRange(v) == v >= 0 /\ v <= 65535

-----------------------------------------------------------------------------
(* ParseAuthority: user info before the first '@', then host and port.   *)
(***************************************************************************)
\* The host and port: the host/port machine's end state h and, for a port
\* text, the std::stoi result port, stored by the uint16_t cast.
AuthorityPort(u2, h, port) ==
    LET host == IF h.hostIsRegName THEN LowerAll(h.host) ELSE h.host
    IN  CASE ~port.ok \/ ~PortInRange(port.value) ->
               [ok |-> FALSE, u |-> [u2 EXCEPT !.host = host]]
          [] OTHER -> [ok |-> TRUE, u |-> [u2 EXCEPT !.host = host,
                                                      !.port = port.value % 65536,
                                                      !.hasPort = TRUE]]

AuthorityHost(u1, h) ==
    CASE h.fail \/ h.state \notin HostEndStates -> [ok |-> FALSE, u |-> [u1 EXCEPT !.host = h.host]]
      [] h.portString = <<>> ->
             [ok |-> TRUE, u |-> [u1 EXCEPT !.host = IF h.hostIsRegName THEN LowerAll(h.host)
                                                     ELSE h.host,
                                            !.hasPort = FALSE]]
      [] OTHER -> AuthorityPort([u1 EXCEPT !.host = h.host], h, Stoi(h.portString))

AuthorityAfterUserInfo(u1, at, uiOk, hostPortString) ==
    IF at # 0 /\ ~uiOk THEN [ok |-> FALSE, u |-> u1]
    ELSE AuthorityHost(u1, FoldLeft(HostStep, HostInit, hostPortString))

\* The user info: before the first '@' (at), decoded; empty if none.
ParseAuthorityUserInfoDecoded(u, authorityString, at, ui) ==
    AuthorityAfterUserInfo([u EXCEPT !.userInfo = IF at = 0 THEN <<>> ELSE ui.out],
                           at, ui.ok, From(authorityString, at + 1))

ParseAuthorityUserInfo(u, authorityString, at) ==
    ParseAuthorityUserInfoDecoded(
        u, authorityString, at,
        DecodeElement(SubSeq(authorityString, 1, at - 1), USER_INFO_NOT_PCT_ENCODED))

ParseAuthority(u, authorityString) ==
    ParseAuthorityUserInfo(u, authorityString, FindFirst(authorityString, {AT}))

\* The authority ends at the first '/' after the "//" (end, 0 if none);
\* the path is the rest.
WithPathString(r, pathString) == [ok |-> r.ok, u |-> r.u, pathString |-> pathString]

SplitAuthorityAt(u, s, end) ==
    WithPathString(ParseAuthority(u, IF end = 0 THEN s ELSE SubSeq(s, 1, end - 1)),
                   IF end = 0 THEN <<>> ELSE From(s, end))

\* Mutation: the branch without an authority leaves userInfo as it was.
SplitAuthorityKeepsUserInfo(u, authorityAndPathString) ==
    IF Prefix(authorityAndPathString, 2) = <<SLASH, SLASH>>
    THEN SplitAuthorityAt(u, From(authorityAndPathString, 3),
                          FindFirst(From(authorityAndPathString, 3), {SLASH}))
    ELSE [ok |-> TRUE, u |-> [u EXCEPT !.host = <<>>, !.hasPort = FALSE],
          pathString |-> authorityAndPathString]

\* SplitAuthorityFromPathAndParseIt: [ok, u, pathString].
SplitAuthorityFromPathAndParseIt(u, authorityAndPathString) ==
    IF Prefix(authorityAndPathString, 2) = <<SLASH, SLASH>>
    THEN SplitAuthorityAt(u, From(authorityAndPathString, 3),
                          FindFirst(From(authorityAndPathString, 3), {SLASH}))
    ELSE [ok |-> TRUE,
          u |-> [u EXCEPT !.userInfo = <<>>, !.host = <<>>, !.hasPort = FALSE],
          pathString |-> authorityAndPathString]

-----------------------------------------------------------------------------
(* ParsePath: "/" is the single empty segment; otherwise split on '/'    *)
(* keeping empty segments, then decode the segments in order, stopping  *)
(* at the first that fails (it is left part-decoded, the rest raw).     *)
(***************************************************************************)
RECURSIVE SplitSegments(_)
SplitSegments(s) ==
    LET i == FindFirst(s, {SLASH})
    IN  IF i = 0 THEN <<s>> ELSE <<SubSeq(s, 1, i - 1)>> \o SplitSegments(From(s, i + 1))

RECURSIVE DecodeSegments(_, _)
DecodeSegments(path, i) ==
    IF i > Len(path) THEN [ok |-> TRUE, path |-> path]
    ELSE LET d == DecodeElement(path[i], PCHAR_NOT_PCT_ENCODED)
             p == [path EXCEPT ![i] = d.out]
         IN  IF d.ok THEN DecodeSegments(p, i + 1) ELSE [ok |-> FALSE, path |-> p]

ParsePath(u, pathString) ==
    LET split == CASE pathString = <<SLASH>> -> << <<>> >>
                   [] pathString = <<>> -> <<>>
                   [] OTHER -> SplitSegments(pathString)
        d == DecodeSegments(split, 1)
    IN  [ok |-> d.ok, u |-> [u EXCEPT !.path = d.path]]

SetDefaultPathIfAuthorityPresentAndPathEmpty(u) ==
    IF u.host # <<>> /\ u.path = <<>> THEN [u EXCEPT !.path = << <<>> >>] ELSE u

\* ParseFragment: [ok, u, rest]; the fragment is decoded in place.
ParseFragment(u, queryAndOrFragment) ==
    LET i == FindFirst(queryAndOrFragment, {HASH})
        raw == IF i = 0 THEN <<>> ELSE From(queryAndOrFragment, i + 1)
        d == DecodeQueryOrFragment(raw)
    IN  [ok |-> d.ok,
         u |-> [u EXCEPT !.hasFragment = (i # 0), !.fragment = d.out],
         rest |-> IF i = 0 THEN queryAndOrFragment
                  ELSE SubSeq(queryAndOrFragment, 1, i - 1)]

ParseQuery(u, queryWithDelimiter) ==
    LET d == DecodeQueryOrFragment(From(queryWithDelimiter, 2))
    IN  [ok |-> d.ok,
         u |-> [u EXCEPT !.hasQuery = (queryWithDelimiter # <<>>), !.query = d.out]]

-----------------------------------------------------------------------------
(* Uri::ParseFromString on an object whose fields are u.                 *)
(***************************************************************************)
\* The stages in order, each returning at its failure with the fields as
\* they are then.
Failed(r) == [ok |-> FALSE, u |-> r.u]

AfterFragment(f) ==
    IF ~f.ok THEN Failed(f) ELSE ParseQuery(f.u, f.rest)

AfterPath(p, queryAndOrFragment) ==
    IF ~p.ok THEN Failed(p)
    ELSE AfterFragment(ParseFragment(SetDefaultPathIfAuthorityPresentAndPathEmpty(p.u),
                                     queryAndOrFragment))

AfterAuthority(a, queryAndOrFragment) ==
    IF ~a.ok THEN Failed(a) ELSE AfterPath(ParsePath(a.u, a.pathString), queryAndOrFragment)

\* The authority and path end at the first '?' or '#' (pathEnd, 0 if none).
AfterSchemeSplit(u, rest, pathEnd) ==
    AfterAuthority(
        SplitAuthorityFromPathAndParseIt(u, IF pathEnd = 0 THEN rest ELSE SubSeq(rest, 1, pathEnd - 1)),
        IF pathEnd = 0 THEN <<>> ELSE From(rest, pathEnd))

AfterScheme(s) ==
    IF ~s.ok THEN Failed(s) ELSE AfterSchemeSplit(s.u, s.rest, FindFirst(s.rest, {QUESTION, HASH}))

ParseFromString(u, uriString) == AfterScheme(ParseScheme(u, uriString))

=============================================================================
