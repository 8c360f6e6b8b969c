--------------------------- MODULE Ipv4Validation ---------------------------
(***************************************************************************)
(* One call of ValidateIpv4Address (src/src/Uri.cpp) as a state machine:  *)
(* a step per character in state 0 (not in an octet yet) or state 1 (in   *)
(* an octet), and a final step for the code after the loop.  The call is *)
(* made with every address of the constant set Addresses.                *)
(***************************************************************************)
EXTENDS UriHost, Rfc3986

CONSTANT Addresses

VARIABLES
    address,    \* the argument of the call
    pos,        \* characters consumed so far
    v,          \* the loop's locals (UriHost!Ipv4Init)
    done,       \* the call has returned
    result      \* the returned Boolean, once done

vars == <<address, pos, v, done, result>>

Init ==
    /\ address \in Addresses
    /\ pos = 0
    /\ v = Ipv4Init
    /\ done = FALSE
    /\ result = FALSE

Scan(state, Case(_, _)) ==
    /\ ~done /\ ~v.fail
    /\ pos < Len(address)
    /\ v.state = state
    /\ v' = Case(v, address[pos + 1])
    /\ pos' = pos + 1
    /\ UNCHANGED <<address, done, result>>

NotInOctet == Scan(0, Ipv4NotInOctet)
InOctet    == Scan(1, Ipv4InOctet)

Finish ==
    /\ ~done
    /\ v.fail \/ pos = Len(address)
    /\ done' = TRUE
    /\ result' = Ipv4Finish(v)
    /\ UNCHANGED <<address, pos, v>>

Next == NotInOctet \/ InOctet \/ Finish

Spec == Init /\ [][Next]_vars

-----------------------------------------------------------------------------
TypeOK ==
    /\ address \in Seq(Byte)
    /\ pos \in 0 .. Len(address)
    /\ v.state \in {0, 1}
    /\ v.numGroups \in 0 .. 5
    /\ done \in BOOLEAN /\ result \in BOOLEAN

\* spec.md 4.4: the validator accepts exactly four dot-separated groups of
\* decimal digits, each numerically at most 255.
AcceptsExactlySpecIpv4 ==
    done => result = Ipv4Spec(address)

=============================================================================
