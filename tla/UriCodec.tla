------------------------------ MODULE UriCodec ------------------------------
(***************************************************************************)
(* The element codec of src/src/Uri.cpp: DecodeElement, MakeHexDigit and  *)
(* EncodeElement, and the percent-encoded character decoder they use     *)
(* (PercentEncodedCharacterDecoder, whose source is not under src/ and    *)
(* is modelled from spec.md 6: two hex digits, one at a time).           *)
(***************************************************************************)
EXTENDS UriChars, SequencesExt

\* A fresh decoder expects two digits; value accumulates high nibble first.
PecInit == [digitsLeft |-> 2, value |-> 0]

\* NextEncodedCharacter(c) is FALSE for a non-hex digit.
PecAccepts(c) == c \in HEXDIG
PecNext(p, c) == [digitsLeft |-> p.digitsLeft - 1, value |-> p.value * 16 + HexValue(c)]
PecDone(p) == p.digitsLeft = 0

-----------------------------------------------------------------------------
(* DecodeElement(element, allowedCharacters): one step per character.    *)
(* "ok" is FALSE once the code has returned false; the loop then does    *)
(* nothing more.                                                          *)
(***************************************************************************)
DecodeInit == [ok |-> TRUE, decodingPec |-> FALSE, pec |-> PecInit, out |-> <<>>]

DecodeStep(allowed, s, c) ==
    CASE ~s.ok -> s
      [] s.decodingPec /\ ~PecAccepts(c) -> [s EXCEPT !.ok = FALSE]
      [] s.decodingPec /\ PecDone(PecNext(s.pec, c)) ->
             [s EXCEPT !.decodingPec = FALSE, !.pec = PecNext(s.pec, c),
                       !.out = Append(@, PecNext(s.pec, c).value)]
      [] s.decodingPec -> [s EXCEPT !.pec = PecNext(s.pec, c)]
      [] c = PERCENT -> [s EXCEPT !.decodingPec = TRUE, !.pec = PecInit]
      [] c \in allowed -> [s EXCEPT !.out = Append(@, c)]
      [] OTHER -> [s EXCEPT !.ok = FALSE]

\* The result of the loop: "return true" after the last character, also
\* when an escape is still being decoded.
DecodeElement(element, allowed) ==
    LET s == FoldLeft(LAMBDA st, c : DecodeStep(allowed, st, c), DecodeInit, element)
    IN  [ok |-> s.ok, out |-> s.out]

\* DecodeQueryOrFragment: a query or fragment is decoded in place with
\* the query-or-fragment charset.
DecodeQueryOrFragment(queryOrFragment) ==
    DecodeElement(queryOrFragment, QUERY_OR_FRAGMENT_NOT_PCT_ENCODED)

-----------------------------------------------------------------------------
\* Mutation: 'A' + value - 11.
MakeHexDigitOffByOne(value) == IF value < 10 THEN value + 48 ELSE value - 11 + 65

MakeHexDigit(value) == IF value < 10 THEN value + 48 ELSE value - 10 + 65

\* Each byte outside the allowed set becomes '%' and two upper-case digits.
EncodeByte(allowed, c) ==
    IF c \in allowed THEN <<c>>
    ELSE <<PERCENT, MakeHexDigit(c \div 16), MakeHexDigit(c % 16)>>

EncodeElement(element, allowed) ==
    FlattenSeq([i \in DOMAIN element |-> EncodeByte(allowed, element[i])])

=============================================================================
