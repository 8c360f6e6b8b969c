-------------------------- MODULE MCIpv4Validation --------------------------
(***************************************************************************)
(* Address sets for Ipv4Validation.                                       *)
(***************************************************************************)
EXTENDS Ipv4Validation

MaxLen == 8     \* room for "1.1.1.1" plus one character

\* Every string of up to MaxLen characters over '1', '9', '.' and 'a'.
ShortAddresses == SeqOf({49, 57, DOT, 97}, MaxLen)

\* Well-formed dotted quads whose last group is a long digit run:
\* "256", "4294967296" (2^32) and "2147483648" (2^31).
LongOctets == {<<50, 53, 54>>,
               <<52, 50, 57, 52, 57, 54, 55, 50, 57, 54>>,
               <<50, 49, 52, 55, 52, 56, 51, 54, 52, 56>>}
LongOctetAddresses == { <<49, DOT, 49, DOT, 49, DOT>> \o o : o \in LongOctets }

\* Both sets.
CheckedAddresses == ShortAddresses \cup LongOctetAddresses

=============================================================================
