-------------------------- MODULE MCIpv6Validation --------------------------
(***************************************************************************)
(* Address sets for Ipv6Validation.  An address is a colon-joined list of *)
(* groups; most groups are "1", and up to MaxOdd of them are taken from  *)
(* OddGroups: an empty group (which makes "::", or a lone colon at an    *)
(* end), a hex letter, four and five digits, five hex letters (which   *)
(* take the letter-led path), and a non-hex letter.                      *)
(***************************************************************************)
EXTENDS Ipv6Validation, FiniteSetsExt

MaxGroups == 9      \* one more than a full address
MaxOdd    == 3      \* enough for "::" at an end plus one more odd group

One == <<49>>                                   \* "1"
OddGroups == {<<>>, <<97>>, <<49, 97, 98, 99>>, <<49, 50, 51, 52, 53>>,
              <<97, 98, 99, 100, 101>>, <<103>>}
                                        \* "", "a", "1abc", "12345", "abcde", "g"

RECURSIVE JoinColon(_)
JoinColon(gs) ==
    IF Len(gs) <= 1 THEN FlattenSeq(gs)
    ELSE gs[1] \o <<COLON>> \o JoinColon(Tail(gs))

GroupLists ==
    UNION { { [i \in 1 .. k |-> IF i \in DOMAIN f THEN f[i] ELSE One] :
                f \in UNION { [P -> OddGroups] :
                                P \in {Q \in SUBSET (1 .. k) : Cardinality(Q) <= MaxOdd} } } :
            k \in 1 .. MaxGroups }

HexAddresses == { JoinColon(gs) : gs \in GroupLists }

\* "1.2.3.4", "192.0.2.1", "1.2.3.456" as a last group.
Ipv4Tails == {<<49, 46, 50, 46, 51, 46, 52>>,
              <<49, 57, 50, 46, 48, 46, 50, 46, 49>>,
              <<49, 46, 50, 46, 51, 46, 52, 53, 54>>}

\* Up to seven groups of "1", optionally after "::", ending in an IPv4 tail.
Ipv4TailAddresses ==
    { JoinColon([i \in 1 .. k |-> One]) \o <<COLON>> \o t :
        k \in 1 .. 7, t \in Ipv4Tails }
    \cup { <<COLON, COLON>> \o t : t \in Ipv4Tails }

=============================================================================
