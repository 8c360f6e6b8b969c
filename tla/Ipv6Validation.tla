--------------------------- MODULE Ipv6Validation ---------------------------
(***************************************************************************)
(* One call of ValidateIpv6Address (src/src/Uri.cpp) as a state machine:  *)
(* each step consumes one character of the address in the state the     *)
(* code's switch is in, and a final step runs the code after the loop.   *)
(* The call is made with every address of the constant set Addresses.   *)
(***************************************************************************)
EXTENDS UriHost, Rfc3986

CONSTANT Addresses

VARIABLES
    address,    \* the argument of the call
    v,          \* the loop's locals (UriHost!Ipv6Init)
    done,       \* the call has returned
    result      \* the returned Boolean, once done

vars == <<address, v, done, result>>

Init ==
    /\ address \in Addresses
    /\ v = Ipv6Init
    /\ done = FALSE
    /\ result = FALSE

\* One iteration of "for (auto c: address)" while the switch is in state s.
ScanChar(s) ==
    /\ ~done
    /\ Ipv6Scanning(v)
    /\ v.position < Len(address)
    /\ v.state = s
    /\ v' = Ipv6Step(v, address[v.position + 1])
    /\ UNCHANGED <<address, done, result>>

\* The loop has ended (end of input, "return false" or the IPv4 "break").
Finish ==
    /\ ~done
    /\ ~Ipv6Scanning(v) \/ v.position = Len(address)
    /\ done' = TRUE
    /\ result' = Ipv6Finish(v, address)
    /\ UNCHANGED <<address, v>>

Next == (\E s \in Ipv6States : ScanChar(s)) \/ Finish

Spec == Init /\ [][Next]_vars

-----------------------------------------------------------------------------
TypeOK ==
    /\ address \in Seq(Byte)
    /\ v.state \in Ipv6States
    /\ v.numDigits \in 0 .. 4
    /\ v.position \in 0 .. Len(address)
    /\ done \in BOOLEAN
    /\ result \in BOOLEAN

\* The validator accepts an address exactly when it is an IPv6address of
\* the RFC 3986 grammar (group counting, one "::", 1-4 hex digits per
\* group, no lone leading or trailing colon, an IPv4 tail counting as
\* two groups).
AcceptsExactlyRfcIpv6 ==
    done => result = Ipv6Address(address)

=============================================================================
