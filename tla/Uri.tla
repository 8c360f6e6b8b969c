-------------------------------- MODULE Uri ---------------------------------
(***************************************************************************)
(* Uri objects (class Uri::Uri, src/src/Uri.cpp) and the public calls a   *)
(* program makes on them: ParseFromString, the setters and clearers,     *)
(* NormalizePath, Resolve (whose result is assigned to an object), copy  *)
(* assignment, and the constructors, moves and destructor.  Each object  *)
(* owns its Impl through a std::unique_ptr; a call on one object changes *)
(* only that object, and a move leaves its source with a null impl_.     *)
(*                                                                         *)
(* origin[h] records how object h got its current value; it is history  *)
(* kept for the properties and is not state of the program.              *)
(***************************************************************************)
EXTENDS UriGenerate, UriResolve, FiniteSets

CONSTANTS
    Handles,        \* the Uri objects
    Inputs,         \* strings given to ParseFromString
    SchemeValues,   \* arguments of SetScheme
    TextValues,     \* arguments of SetUserInfo, SetHost, SetQuery, SetFragment
    PortValues,     \* arguments of SetPort
    PathValues,     \* arguments of SetPath
    MaxPathLength   \* bound on the segments of a path Resolve builds

VARIABLES
    uri,            \* uri[h]: the fields of object h's Impl
    origin,         \* origin[h]: [how, input, ok] for object h's value; ok is
                    \* FALSE when the value comes from a failed parse
    life            \* life[h]: "live" (impl_ owns an Impl), "moved" (impl_ is
                    \* null after a move) or "gone" (not constructed, or destroyed)

vars == <<uri, origin, life>>

\* An object whose impl_ may be dereferenced: every member call but the
\* moves and the destructor does.
Live(h) == life[h] = "live"

Origins == {"constructed", "parsed", "set", "normalized", "resolved", "copied"}

Init ==
    /\ uri = [h \in Handles |-> EmptyUri]
    /\ origin = [h \in Handles |-> [how |-> "constructed", input |-> <<>>, ok |-> TRUE]]
    /\ life = [h \in Handles |-> "live"]

Became(h, how, ok) ==
    origin' = [origin EXCEPT ![h] = [how |-> how, input |-> <<>>, ok |-> ok]]

\* Uri::ParseFromString(uriString) on object h.
ParseFromStringOn(h, s) ==
    LET r == ParseFromString(uri[h], s)
    IN  /\ Live(h)
        /\ uri' = [uri EXCEPT ![h] = r.u]
        /\ origin' = [origin EXCEPT ![h] = [how |-> "parsed", input |-> s, ok |-> r.ok]]
        /\ UNCHANGED life

\* A setter or clearer: fields assigned, nothing checked or normalized.
Set(h, f(_)) ==
    /\ Live(h)
    /\ UNCHANGED life
    /\ uri' = [uri EXCEPT ![h] = f(uri[h])]
    /\ Became(h, "set", origin[h].ok)

SetScheme(h, x)   == Set(h, LAMBDA u : [u EXCEPT !.scheme = x])
SetUserInfo(h, x) == Set(h, LAMBDA u : [u EXCEPT !.userInfo = x])
SetHost(h, x)     == Set(h, LAMBDA u : [u EXCEPT !.host = x])
SetPort(h, p)     == Set(h, LAMBDA u : [u EXCEPT !.port = p, !.hasPort = TRUE])
ClearPort(h)      == Set(h, LAMBDA u : [u EXCEPT !.hasPort = FALSE])
SetPath(h, p)     == Set(h, LAMBDA u : [u EXCEPT !.path = p])
ClearQuery(h)     == Set(h, LAMBDA u : [u EXCEPT !.hasQuery = FALSE])
SetQuery(h, x)    == Set(h, LAMBDA u : [u EXCEPT !.query = x, !.hasQuery = TRUE])
ClearFragment(h)  == Set(h, LAMBDA u : [u EXCEPT !.hasFragment = FALSE])
SetFragment(h, x) == Set(h, LAMBDA u : [u EXCEPT !.fragment = x, !.hasFragment = TRUE])

\* Uri::NormalizePath() in place.
NormalizePathOn(h) ==
    /\ Live(h)
    /\ UNCHANGED life
    /\ uri' = [uri EXCEPT ![h].path = NormalizePath(@)]
    /\ Became(h, "normalized", origin[h].ok)

\* t = b.Resolve(r): the new value is assigned to object t.  A merge keeps
\* all but one of the base's segments, so resolving again and again grows
\* the path; calls whose result would exceed MaxPathLength are not taken.
\* The result is a temporary, so the assignment is the move assignment:
\* it also gives a moved-from t an Impl again.
ResolveInto(b, r, t) ==
    /\ Live(b) /\ Live(r) /\ life[t] # "gone"
    /\ life' = [life EXCEPT ![t] = "live"]
    /\ Len(Resolve(uri[b], uri[r]).path) <= MaxPathLength
    /\ uri' = [uri EXCEPT ![t] = Resolve(uri[b], uri[r])]
    /\ Became(t, "resolved", origin[b].ok /\ origin[r].ok)

\* t = o (Uri::operator=, a no-op when t is o).
CopyAssign(o, t) ==
    /\ o # t
    /\ Live(o) /\ Live(t)
    /\ uri' = [uri EXCEPT ![t] = uri[o]]
    /\ origin' = [origin EXCEPT ![t] = origin[o]]
    /\ UNCHANGED life

Fresh == [how |-> "constructed", input |-> <<>>, ok |-> TRUE]

\* Uri::Uri(): a new object owning a new, empty Impl.
Construct(h) ==
    /\ life[h] = "gone"
    /\ life' = [life EXCEPT ![h] = "live"]
    /\ uri' = [uri EXCEPT ![h] = EmptyUri]
    /\ origin' = [origin EXCEPT ![h] = Fresh]

\* Uri::Uri(const Uri& other): a new Impl, then *this = other.
CopyConstruct(o, h) ==
    /\ life[h] = "gone" /\ Live(o)
    /\ life' = [life EXCEPT ![h] = "live"]
    /\ uri' = [uri EXCEPT ![h] = uri[o]]
    /\ origin' = [origin EXCEPT ![h] = origin[o]]

\* The defaulted Uri(Uri&&) and operator=(Uri&&): impl_ moves to t (whose
\* old Impl is deleted) and o's becomes null.  A null impl_ moves as null.
\* An object without an Impl has no fields; EmptyUri stands for them.
MoveFrom(o, t) ==
    /\ life' = [life EXCEPT ![t] = life[o], ![o] = "moved"]
    /\ uri' = [uri EXCEPT ![t] = uri[o], ![o] = EmptyUri]
    /\ origin' = [origin EXCEPT ![t] = origin[o], ![o] = Fresh]

MoveConstruct(o, h) == life[h] = "gone" /\ life[o] # "gone" /\ MoveFrom(o, h)

\* t = std::move(o); unique_ptr's self-move-assignment keeps the pointer.
MoveAssign(o, t) ==
    /\ o # t /\ life[o] # "gone" /\ life[t] # "gone"
    /\ MoveFrom(o, t)

\* Uri::~Uri(), defaulted: the Impl, if any, is deleted.
Destroy(h) ==
    /\ life[h] # "gone"
    /\ life' = [life EXCEPT ![h] = "gone"]
    /\ uri' = [uri EXCEPT ![h] = EmptyUri]
    /\ origin' = [origin EXCEPT ![h] = Fresh]

Lifecycle(h) ==
    \/ Construct(h) \/ Destroy(h)
    \/ \E o \in Handles : CopyConstruct(o, h) \/ MoveConstruct(o, h) \/ MoveAssign(o, h)

Setters(h) ==
    \/ \E x \in SchemeValues : SetScheme(h, x)
    \/ \E x \in TextValues : SetUserInfo(h, x) \/ SetHost(h, x)
                             \/ SetQuery(h, x) \/ SetFragment(h, x)
    \/ \E p \in PortValues : SetPort(h, p)
    \/ \E p \in PathValues : SetPath(h, p)
    \/ ClearPort(h) \/ ClearQuery(h) \/ ClearFragment(h)

Next ==
    \E h \in Handles :
        \/ \E s \in Inputs : ParseFromStringOn(h, s)
        \/ Setters(h)
        \/ NormalizePathOn(h)
        \/ \E b, r \in Handles : ResolveInto(b, r, h)
        \/ \E o \in Handles : CopyAssign(o, h)
        \/ Lifecycle(h)

Spec == Init /\ [][Next]_vars

-----------------------------------------------------------------------------
(* Uri::operator==: port, query and fragment compared only when present. *)
UriEquals(a, b) ==
    /\ a.scheme = b.scheme /\ a.userInfo = b.userInfo /\ a.host = b.host
    /\ a.hasPort = b.hasPort /\ (a.hasPort => a.port = b.port)
    /\ a.path = b.path
    /\ a.hasQuery = b.hasQuery /\ (a.hasQuery => a.query = b.query)
    /\ a.hasFragment = b.hasFragment /\ (a.hasFragment => a.fragment = b.fragment)

\* Objects whose value comes from a successful ParseFromString.
Parsed(h) == origin[h].how = "parsed" /\ origin[h].ok

-----------------------------------------------------------------------------
(* The refinement: each object's abstract value is what operator== sees  *)
(* of its fields, or Invalid when it comes from a failed parse.           *)
(***************************************************************************)
ValueOf(h) ==
    IF Live(h) /\ origin[h].ok THEN [life |-> "live", ok |-> TRUE, u |-> Observed(uri[h])]
    ELSE [life |-> life[h], ok |-> FALSE, u |-> EmptyUri]

Values == INSTANCE UriValues WITH value <- [h \in Handles |-> ValueOf(h)]

-----------------------------------------------------------------------------
(* Properties.                                                             *)
(***************************************************************************)

\* The objects implement UriValues: no field operator== ignores (a port,
\* query or fragment text kept after its flag was cleared) and nothing of
\* an object's history shows in what any later call computes.  A
\* successful ParseFromString gives the string's value whatever the
\* object held (ParseScheme, ParseAuthority, SplitAuthorityFromPathAndParseIt,
\* ParsePath, ParseFragment and ParseQuery reset what operator== compares),
\* and Resolve, NormalizePath and the setters read only compared fields.
ImplementsValues == Values!Spec

\* spec.md 3 and 6: "ParseFromString fully resets/repopulates every
\* field": after a successful parse no field, GetPort() included, keeps a
\* value from before the call.
ParseResetsEveryField ==
    \A h \in Handles :
        Parsed(h) => uri[h] = ParseFromString(EmptyUri, origin[h].input).u

\* spec.md 8: parsing GenerateString() of a successfully parsed Uri gives
\* an equal Uri (GenerateString re-encodes, brackets IPv6 hosts and
\* lower-cases them; ParseFromString must read all of it back).
ParsedRoundTrip ==
    \A h \in Handles :
        Parsed(h) =>
            LET r == ParseFromString(EmptyUri, GenerateString(uri[h]))
            IN  r.ok /\ UriEquals(r.u, uri[h])

\* NormalizePath is idempotent: normalizing an object's path again, after
\* NormalizePath or Resolve (whose paths are normalized) changed it, leaves it as
\* it is.  A second remove_dot_segments pass finding more to remove means
\* the first stopped early (the atDirectoryLevel flag, the ".." that cannot
\* navigate up, the trailing empty segment).
NormalizeIsIdempotent ==
    \A h \in Handles :
        origin[h].how = "normalized" => NormalizePath(uri[h].path) = uri[h].path

\* spec.md 4.1: '%' begins a two-hex-digit escape; a string with a '%'
\* not followed by two hex digits does not parse (DecodeElement).
WellFormedEscapes(s) ==
    \A i \in DOMAIN s :
        s[i] = PERCENT => i + 2 <= Len(s) /\ s[i + 1] \in HEXDIG /\ s[i + 2] \in HEXDIG

ParsedEscapesWellFormed ==
    \A h \in Handles : Parsed(h) => WellFormedEscapes(origin[h].input)

\* spec.md 4.3 and 8: the port text must be a decimal number; non-digit
\* text fails the parse (ParseAuthority's std::stoi call).  The port text
\* is what follows the last ':' after any ']' in the authority.
PortText(s) ==
    LET r   == ParseScheme(EmptyUri, s).rest
        ap  == SubSeq(r, 1, LET e == FindFirst(r, {QUESTION, HASH})
                            IN  IF e = 0 THEN Len(r) ELSE e - 1)
        a   == From(ap, 3)
        auth == SubSeq(a, 1, LET e == FindFirst(a, {SLASH})
                             IN  IF e = 0 THEN Len(a) ELSE e - 1)
        hp  == From(auth, FindFirst(auth, {AT}) + 1)
        cut == SelectLastInSeq(hp, LAMBDA x : x \in {COLON, RBRACKET})
    IN  From(hp, cut + 1)

ParsedPortIsDecimal ==
    \A h \in Handles :
        Parsed(h) /\ uri[h].hasPort =>
            \A i \in DOMAIN PortText(origin[h].input) : PortText(origin[h].input)[i] \in DIGIT


\* spec.md 3: a value with an authority has an absolute path (an empty
\* one is [""]).  Values of this shape, however they were made (parse,
\* setters, NormalizePath, Resolve, copy or move), read back equal from
\* GenerateString: the serializer and the parser agree on every value the
\* calls reach, not only on parsed ones.
\* GetPort after a successful parse is the number the port text spells:
\* ParseAuthority's range check must reject every text that the uint16_t
\* cast (src/src/Uri.cpp 858) would wrap to another port.
ParsedPortIsWritten ==
    \A h \in Handles :
        Parsed(h) /\ uri[h].hasPort =>
            uri[h].port = DecimalValue(PortText(origin[h].input))

AuthorityPathIsAbsolute(u) == HasAuthority(u) => IsPathAbsolute(u.path)

WellFormedRoundTrip ==
    \A h \in Handles :
        Live(h) /\ origin[h].ok /\ AuthorityPathIsAbsolute(uri[h]) =>
            LET r == ParseFromString(EmptyUri, GenerateString(uri[h]))
            IN  r.ok /\ UriEquals(r.u, uri[h])

=============================================================================
