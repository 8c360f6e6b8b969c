------------------------------ MODULE UriHost -------------------------------
(***************************************************************************)
(* The IP-literal validators of src/src/Uri.cpp: ValidateOctet,           *)
(* ValidateIpv4Address and ValidateIpv6Address.  Each loop of the code is *)
(* a step operator over a record of the loop's locals (one operator per   *)
(* case of the switch), and the validator is that step folded over the   *)
(* address followed by the code that runs after the loop.  A local flag  *)
(* "fail" stands for an early "return false" and "brk" for the "break"   *)
(* that ends the IPv6 scan at an embedded IPv4 address.                  *)
(***************************************************************************)
EXTENDS UriChars, Integers, SequencesExt

-----------------------------------------------------------------------------
(* ValidateOctet keeps "int octet" and computes octet * 10 + digit.  A    *)
(* long digit run overflows the 32-bit int (undefined behaviour); the     *)
(* model takes the outcome the compiled loop produces, two's-complement   *)
(* wrap-around.  TLC's own integers are 32-bit, so the unsigned image of  *)
(* the value is kept as two 16-bit halves.                                *)
(***************************************************************************)
HALF == 65536                                   \* 2^16
OctetInit == [hi |-> 0, lo |-> 0]

\* octet *= 10; octet += (int)(c - '0');   (mod 2^32)
OctetShift(o, d) ==
    LET low == o.lo * 10 + d
    IN  [hi |-> (o.hi * 10 + low \div HALF) % HALF, lo |-> low % HALF]

\* octet <= 255 on the signed 32-bit value: negative values pass.
OctetAtMost255(o) == o.hi >= HALF \div 2 \/ (o.hi = 0 /\ o.lo <= 255)

ValidateOctet(octetString) ==
    /\ \A i \in DOMAIN octetString : octetString[i] \in DIGIT
    /\ OctetAtMost255(FoldLeft(LAMBDA o, c : OctetShift(o, DigitValue(c)),
                               OctetInit, octetString))

-----------------------------------------------------------------------------
(* ValidateIpv4Address: state 0 = not in an octet yet, 1 = in an octet.   *)
(***************************************************************************)
Ipv4Init == [fail |-> FALSE, numGroups |-> 0, state |-> 0, octetBuffer |-> <<>>]

Ipv4NotInOctet(v, c) ==
    IF c \in DIGIT THEN [v EXCEPT !.octetBuffer = Append(@, c), !.state = 1]
                   ELSE [v EXCEPT !.fail = TRUE]

\* On '.', "if (numGroups++ >= 4) return false;" tests the old count.
Ipv4InOctet(v, c) ==
    CASE c = DOT /\ (v.numGroups >= 4 \/ ~ValidateOctet(v.octetBuffer)) ->
             [v EXCEPT !.fail = TRUE, !.numGroups = @ + 1]
      [] c = DOT ->
             [v EXCEPT !.numGroups = @ + 1, !.octetBuffer = <<>>, !.state = 0]
      [] c \in DIGIT -> [v EXCEPT !.octetBuffer = Append(@, c)]
      [] OTHER -> [v EXCEPT !.fail = TRUE]

Ipv4Step(v, c) ==
    IF v.fail THEN v
    ELSE IF v.state = 0 THEN Ipv4NotInOctet(v, c) ELSE Ipv4InOctet(v, c)

\* After the loop: a non-empty buffer is the last octet.
Ipv4Finish(v) ==
    /\ ~v.fail
    /\ v.octetBuffer # <<>> => ValidateOctet(v.octetBuffer)
    /\ v.numGroups + (IF v.octetBuffer # <<>> THEN 1 ELSE 0) = 4

ValidateIpv4Address(address) ==
    Ipv4Finish(FoldLeft(Ipv4Step, Ipv4Init, address))

-----------------------------------------------------------------------------
(* ValidateIpv6Address.  "position" is the 0-based index of the current   *)
(* character; potentialIpv4AddressStart is kept 0-based as in the code.  *)
(***************************************************************************)
Ipv6States == {"NO_GROUPS_YET", "COLON_BUT_NO_GROUPS_YET", "AFTER_DOUBLE_COLON",
               "IN_GROUP_NOT_IPV4", "IN_GROUP_COULD_BE_IPV4", "COLON_AFTER_GROUP"}

Ipv6Init ==
    [state |-> "NO_GROUPS_YET", numGroups |-> 0, numDigits |-> 0,
     doubleColonEncountered |-> FALSE, potentialIpv4AddressStart |-> 0,
     position |-> 0, ipv4AddressEncountered |-> FALSE, fail |-> FALSE]

Fail(v) == [v EXCEPT !.fail = TRUE]

\* Starting a group with a digit remembers where an IPv4 address may begin;
\* "++numDigits > 4" is the group-length check.
StartGroup(v, c) ==
    IF v.numDigits + 1 > 4 THEN Fail(v)
    ELSE IF c \in DIGIT
         THEN [v EXCEPT !.potentialIpv4AddressStart = v.position,
                        !.numDigits = @ + 1, !.state = "IN_GROUP_COULD_BE_IPV4"]
         ELSE [v EXCEPT !.numDigits = @ + 1, !.state = "IN_GROUP_NOT_IPV4"]

EndGroup(v) ==
    [v EXCEPT !.numDigits = 0, !.numGroups = @ + 1, !.state = "COLON_AFTER_GROUP"]

NoGroupsYet(v, c) ==
    CASE c = COLON   -> [v EXCEPT !.state = "COLON_BUT_NO_GROUPS_YET"]
      [] c \in HEXDIG -> StartGroup([v EXCEPT !.numDigits = 0], c)
      [] OTHER       -> Fail(v)

ColonButNoGroupsYet(v, c) ==
    IF c = COLON
    THEN [v EXCEPT !.doubleColonEncountered = TRUE, !.state = "AFTER_DOUBLE_COLON"]
    ELSE Fail(v)

AfterDoubleColon(v, c) ==
    IF c \in HEXDIG THEN StartGroup(v, c) ELSE Fail(v)

InGroupNotIpv4(v, c) ==
    CASE c = COLON    -> EndGroup(v)
      [] c \in HEXDIG  -> IF v.numDigits + 1 > 4 THEN Fail(v)
                          ELSE [v EXCEPT !.numDigits = @ + 1]
      [] OTHER        -> Fail(v)

\* Mutation: the "++numDigits > 4" check dropped in this state.
InGroupCouldBeIpv4NoLengthCheck(v, c) ==
    CASE c = COLON    -> EndGroup(v)
      [] c = DOT      -> [v EXCEPT !.ipv4AddressEncountered = TRUE]
      [] c \in HEXDIG  -> [v EXCEPT !.numDigits = @ + 1,
                                  !.state = IF c \in DIGIT THEN @ ELSE "IN_GROUP_NOT_IPV4"]
      [] OTHER        -> Fail(v)

InGroupCouldBeIpv4(v, c) ==
    CASE c = COLON    -> EndGroup(v)
      [] c = DOT      -> [v EXCEPT !.ipv4AddressEncountered = TRUE]
      [] c \in HEXDIG  -> IF v.numDigits + 1 > 4 THEN Fail(v)
                          ELSE [v EXCEPT !.numDigits = @ + 1,
                                 !.state = IF c \in DIGIT THEN @
                                           ELSE "IN_GROUP_NOT_IPV4"]
      [] OTHER        -> Fail(v)

\* Mutation: the doubleColonEncountered test dropped.
ColonAfterGroupSecondDoubleColon(v, c) ==
    CASE c = COLON -> [v EXCEPT !.doubleColonEncountered = TRUE,
                                !.state = "AFTER_DOUBLE_COLON"]
      [] c \in DIGIT -> [v EXCEPT !.potentialIpv4AddressStart = v.position,
                                  !.numDigits = @ + 1,
                                  !.state = "IN_GROUP_COULD_BE_IPV4"]
      [] c \in HEXDIG -> [v EXCEPT !.numDigits = @ + 1, !.state = "IN_GROUP_NOT_IPV4"]
      [] OTHER -> Fail(v)

\* A second "::" is rejected; a group after a single colon has no length
\* check on its first digit ("++numDigits" only).
ColonAfterGroup(v, c) ==
    CASE c = COLON /\ v.doubleColonEncountered -> Fail(v)
      [] c = COLON -> [v EXCEPT !.doubleColonEncountered = TRUE,
                                !.state = "AFTER_DOUBLE_COLON"]
      [] c \in DIGIT -> [v EXCEPT !.potentialIpv4AddressStart = v.position,
                                  !.numDigits = @ + 1,
                                  !.state = "IN_GROUP_COULD_BE_IPV4"]
      [] c \in HEXDIG -> [v EXCEPT !.numDigits = @ + 1, !.state = "IN_GROUP_NOT_IPV4"]
      [] OTHER -> Fail(v)

\* One iteration of the scanning loop: the switch, then "++position"
\* unless the loop breaks at an IPv4 address.
Ipv6Step(v, c) ==
    LET w == CASE v.state = "NO_GROUPS_YET"           -> NoGroupsYet(v, c)
               [] v.state = "COLON_BUT_NO_GROUPS_YET" -> ColonButNoGroupsYet(v, c)
               [] v.state = "AFTER_DOUBLE_COLON"      -> AfterDoubleColon(v, c)
               [] v.state = "IN_GROUP_NOT_IPV4"       -> InGroupNotIpv4(v, c)
               [] v.state = "IN_GROUP_COULD_BE_IPV4"  -> InGroupCouldBeIpv4(v, c)
               [] v.state = "COLON_AFTER_GROUP"       -> ColonAfterGroup(v, c)
    IN  IF w.fail \/ w.ipv4AddressEncountered THEN w
        ELSE [w EXCEPT !.position = @ + 1]

\* The loop stops at "return false" and at the IPv4 "break".
Ipv6Scanning(v) == ~v.fail /\ ~v.ipv4AddressEncountered

\* The code after the loop: count the trailing group, reject a trailing
\* single colon, validate an embedded IPv4 address and count it as two
\* more groups, then compare the group count with 7 or 8.
Ipv6Finish(v, address) ==
    LET inGroup  == v.state \in {"IN_GROUP_NOT_IPV4", "IN_GROUP_COULD_BE_IPV4"}
        groups   == v.numGroups + (IF inGroup THEN 1 ELSE 0)
                               + (IF v.ipv4AddressEncountered THEN 2 ELSE 0)
        ipv4Part == SubSeq(address, v.potentialIpv4AddressStart + 1, Len(address))
    IN  /\ ~v.fail
        /\ ~(v.position = Len(address)
             /\ v.state \in {"COLON_BUT_NO_GROUPS_YET", "COLON_AFTER_GROUP"})
        /\ v.ipv4AddressEncountered => ValidateIpv4Address(ipv4Part)
        /\ IF v.doubleColonEncountered THEN groups <= 7 ELSE groups = 8

Ipv6Scan(address) ==
    FoldLeft(LAMBDA v, c : IF Ipv6Scanning(v) THEN Ipv6Step(v, c) ELSE v,
             Ipv6Init, address)

ValidateIpv6Address(address) == Ipv6Finish(Ipv6Scan(address), address)

=============================================================================
