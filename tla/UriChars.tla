------------------------------ MODULE UriChars ------------------------------
(***************************************************************************)
(* The character classes of src/src/Uri.cpp (the CharacterSet constants   *)
(* in the anonymous namespace) and the two character conversions the     *)
(* code applies: std::tolower in the "C" locale, and the hexadecimal      *)
(* digit value used by the percent-encoded character decoder.            *)
(*                                                                         *)
(* A character is its byte value, 0..255; a string is a sequence of       *)
(* bytes.  The named bytes below are the delimiters the parser looks for. *)
(***************************************************************************)
EXTENDS Naturals, Sequences

Byte == 0 .. 255

PERCENT  == 37     \* '%'
PLUS     == 43     \* '+'
MINUS    == 45     \* '-'
DOT      == 46     \* '.'
SLASH    == 47     \* '/'
COLON    == 58     \* ':'
QUESTION == 63     \* '?'
HASH     == 35     \* '#'
AT       == 64     \* '@'
LBRACKET == 91     \* '['
RBRACKET == 93     \* ']'
LOWER_V  == 118    \* 'v'

\* Range(lo, hi) of CharacterSet: the bytes lo..hi.
UPPER == 65 .. 90
LOWER == 97 .. 122
ALPHA == UPPER \cup LOWER
DIGIT == 48 .. 57
HEXDIG == DIGIT \cup 65 .. 70 \cup 97 .. 102
UNRESERVED == ALPHA \cup DIGIT \cup {MINUS, DOT, 95, 126}
SUB_DELIMS == {33, 36, 38, 39, 40, 41, 42, PLUS, 44, 59, 61}
SCHEME_NOT_FIRST == ALPHA \cup DIGIT \cup {PLUS, MINUS, DOT}
PCHAR_NOT_PCT_ENCODED == UNRESERVED \cup SUB_DELIMS \cup {COLON, AT}
QUERY_OR_FRAGMENT_NOT_PCT_ENCODED == PCHAR_NOT_PCT_ENCODED \cup {SLASH, QUESTION}
QUERY_NOT_PCT_ENCODED_WITHOUT_PLUS ==
    (QUERY_OR_FRAGMENT_NOT_PCT_ENCODED) \ {PLUS}
USER_INFO_NOT_PCT_ENCODED == UNRESERVED \cup SUB_DELIMS \cup {COLON}
REG_NAME_NOT_PCT_ENCODED == UNRESERVED \cup SUB_DELIMS
IPV_FUTURE_LAST_PART == UNRESERVED \cup SUB_DELIMS \cup {COLON}

\* std::tolower in the "C" locale, as the code applies it to the scheme,
\* a reg-name host and the serialized IPv6 literal.
ToLower(c) == IF c \in UPPER THEN c + 32 ELSE c

LowerAll(s) == [i \in DOMAIN s |-> ToLower(s[i])]

\* The value of one hexadecimal digit, as the percent-encoded character
\* decoder computes it.
HexValue(c) ==
    CASE c \in DIGIT       -> c - 48
      [] c \in 65 .. 70    -> c - 55
      [] c \in 97 .. 102   -> c - 87

\* The decimal value of a digit character, (int)(c - '0').
DigitValue(c) == c - 48

\* The value of a (short) decimal digit string.
RECURSIVE DecimalValue(_)
DecimalValue(s) ==
    IF s = <<>> THEN 0
    ELSE DecimalValue(SubSeq(s, 1, Len(s) - 1)) * 10 + DigitValue(s[Len(s)])

\* The decimal rendering of a natural number (operator<< on uint16_t).
RECURSIVE DecimalString(_)
DecimalString(n) ==
    IF n < 10 THEN <<48 + n>> ELSE DecimalString(n \div 10) \o <<48 + (n % 10)>>

=============================================================================
