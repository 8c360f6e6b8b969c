------------------------------ MODULE UriValues ------------------------------
(***************************************************************************)
(* What a Uri object promises its caller (spec.md 3, 6 and 7).  An object *)
(* is its value: the fields operator== compares, or Invalid once a parse *)
(* of it has failed ("the instance must be treated as invalid/discarded"). *)
(* A successful ParseFromString gives the string's value whatever the    *)
(* object held before; every other call computes its result from the     *)
(* values of its operands only, so two objects that compare equal behave *)
(* the same under every call.  Calls on an invalid object leave it        *)
(* invalid, and a value computed from an invalid one is invalid.         *)
(* A moved-from object has no value: it can only be moved to, assigned a *)
(* Resolve result, or destroyed.                                          *)
(*                                                                         *)
(* Uri.tla, which keeps every field of Uri::Impl, is shown to implement   *)
(* this specification.                                                    *)
(***************************************************************************)
EXTENDS UriResolve

CONSTANTS Handles, Inputs, SchemeValues, TextValues, PortValues, PathValues

VARIABLE value      \* value[h]: [life, ok, u], u the Observed fields when ok

Invalid == [life |-> "live", ok |-> FALSE, u |-> EmptyUri]

Valid(u) == [life |-> "live", ok |-> TRUE, u |-> Observed(u)]

MovedFrom == [life |-> "moved", ok |-> FALSE, u |-> EmptyUri]

NoObject == [life |-> "gone", ok |-> FALSE, u |-> EmptyUri]

Usable(h) == value[h].life = "live"

Exists(h) == value[h].life # "gone"

Init == value = [h \in Handles |-> Valid(EmptyUri)]

\* A successful parse is the value of the string parsed by a new object.
ParsedValue(r) == IF r.ok THEN Valid(r.u) ELSE Invalid

Parse(h, s) ==
    /\ Usable(h)
    /\ value' = [value EXCEPT ![h] = ParsedValue(ParseFromString(EmptyUri, s))]

\* A call that changes one object's value by f.
Update(h, f(_)) ==
    /\ Usable(h)
    /\ value' = [value EXCEPT ![h] = IF @.ok THEN Valid(f(@.u)) ELSE @]

Setter(h) ==
    \/ \E x \in SchemeValues : Update(h, LAMBDA u : [u EXCEPT !.scheme = x])
    \/ \E x \in TextValues :
          \/ Update(h, LAMBDA u : [u EXCEPT !.userInfo = x])
          \/ Update(h, LAMBDA u : [u EXCEPT !.host = x])
          \/ Update(h, LAMBDA u : [u EXCEPT !.query = x, !.hasQuery = TRUE])
          \/ Update(h, LAMBDA u : [u EXCEPT !.fragment = x, !.hasFragment = TRUE])
    \/ \E p \in PortValues : Update(h, LAMBDA u : [u EXCEPT !.port = p, !.hasPort = TRUE])
    \/ \E p \in PathValues : Update(h, LAMBDA u : [u EXCEPT !.path = p])
    \/ Update(h, LAMBDA u : [u EXCEPT !.hasPort = FALSE])
    \/ Update(h, LAMBDA u : [u EXCEPT !.hasQuery = FALSE])
    \/ Update(h, LAMBDA u : [u EXCEPT !.hasFragment = FALSE])

Normalize(h) == Update(h, LAMBDA u : [u EXCEPT !.path = NormalizePath(u.path)])

\* t = b.Resolve(r): the resolution of the two values.
ResolveValues(b, r, t) ==
    /\ Usable(b) /\ Usable(r) /\ Exists(t)
    /\ value' = [value EXCEPT ![t] = IF value[b].ok /\ value[r].ok
                                  THEN Valid(Resolve(value[b].u, value[r].u))
                                  ELSE Invalid]

Assign(o, t) == Usable(o) /\ Usable(t) /\ value' = [value EXCEPT ![t] = value[o]]

\* A new object: empty, or a copy of a usable one.
Create(h) == ~Exists(h) /\ value' = [value EXCEPT ![h] = Valid(EmptyUri)]

CopyCreate(o, h) == ~Exists(h) /\ Usable(o) /\ value' = [value EXCEPT ![h] = value[o]]

\* A move gives t the value of o, whatever it is, and leaves o moved-from.
Move(o, t) ==
    /\ o # t /\ Exists(o)
    /\ value' = [value EXCEPT ![t] = value[o], ![o] = MovedFrom]

Destroy(h) == Exists(h) /\ value' = [value EXCEPT ![h] = NoObject]

Lifetime(h) ==
    \/ Create(h) \/ Destroy(h)
    \/ \E o \in Handles : CopyCreate(o, h) \/ Move(o, h)

Next ==
    \E h \in Handles :
        \/ \E s \in Inputs : Parse(h, s)
        \/ Setter(h)
        \/ Normalize(h)
        \/ \E b, r \in Handles : ResolveValues(b, r, h)
        \/ \E o \in Handles : Assign(o, h)
        \/ Lifetime(h)

Spec == Init /\ [][Next]_value

=============================================================================
