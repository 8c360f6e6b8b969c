# TLA+ models of the Uri library

This directory holds TLA+ models of `src/src/Uri.cpp`, the whole implementation of the
`Uri::Uri` class: an RFC 3986 URI parser, validator, normalizer, resolver and serializer.
It also holds the TLC configurations that check the models.

The code is sequential and single-threaded. Nothing is persisted and no message is sent.
So none of the hazards here come from interleaving, crashes or lost messages. They come from:

- long state machines over characters;
- counters checked at their boundaries;
- fields an operation forgets to reset;
- objects reused across calls;
- the composition of parse, normalize, resolve and serialize.

TLC explores each of these exhaustively over bounded inputs.

## 1. Inventory

### Components, their state and their operations

| Component (spec.md 2) | Code | State it keeps | Operations |
|---|---|---|---|
| Character Classifier | the `CharacterSet` constants, lines 28-145 | immutable byte sets | `Contains` |
| Percent Decoder | `PercentEncodedCharacterDecoder`. Not under `src/`, modelled from spec.md 6 and 9. | digits left, value | `NextEncodedCharacter`, `Done`, `GetDecodedCharacter` |
| Element Codec | `DecodeElement` 461-490, `MakeHexDigit` 502-508, `EncodeElement` 527-542 | the loop's `decodingPec` and output | decode an element in place, encode |
| Scheme Parser | `FailsMatch`, `LegalSchemeCheckStrategy` 402-440, `ParseScheme` 881-911 | `scheme` | parse and lower-case the scheme |
| IPv4 Validator | `ValidateOctet` 159-170, `ValidateIpv4Address` 184-224 | a 2-state loop: `numGroups`, `octetBuffer`, an `int` accumulator | validate |
| IPv6/IPvFuture Validator | `ValidateIpv6Address` 238-385 | a 6-state loop: `numGroups`, `numDigits`, `doubleColonEncountered`, `potentialIpv4AddressStart`, `position`, `ipv4AddressEncountered` | validate |
| Authority Parser | `ParseAuthority` 701-862, `SplitAuthorityFromPathAndParseIt` 932-960 | `userInfo`, `host`, `hasPort`, `port`; a 9-state host/port machine; `std::stoi` | parse the authority |
| Path Parser & Normalizer | `ParsePath` 658-687, `SetDefaultPathIfAuthorityPresentAndPathEmpty` 967-974, `NormalizePath` 1058-1106 | `path`, a vector of segments | split and decode; remove dot segments |
| Query/Fragment Parser | `ParseFragment` 1018-1033, `ParseQuery` 989-997 | `hasQuery`, `query`, `hasFragment`, `fragment` | split and decode |
| Reference Resolver | `Resolve` 1327-1377, the `Copy*` helpers 1115-1179 | a new target object | resolve a reference against a base |
| Serializer | `GenerateString` 1422-1467, `HasAuthority` 639-645 | none | render a Uri as a string |
| Uri object | `Impl` 568-637, constructors and `operator=` 1199-1217, `operator==` 1219-1247, setters 1379-1420 | one `Impl` per object, held by a `std::unique_ptr` | `ParseFromString` 1253-1273, setters and clearers, `NormalizePath`, `Resolve`, copy, compare, construct, move, destroy |

### How the components interact

`ParseFromString` runs these stages in order on one object and returns at the first failure:

1. `ParseScheme`
2. `SplitAuthorityFromPathAndParseIt`, which calls `ParseAuthority`, which calls the host validators and the decoder
3. `ParsePath`
4. `SetDefaultPathIfAuthorityPresentAndPathEmpty`
5. `ParseFragment`
6. `ParseQuery`

Each stage writes straight into the object's fields. A failed parse therefore leaves a partly written object, and a later parse starts from it.

The other operations combine the components:

- `Resolve` reads two objects and builds a third from the `Copy*` helpers and `NormalizePath`.
- `GenerateString` re-encodes every field and calls `ValidateIpv6Address` again to decide whether to bracket the host.

### The hard behaviours, and the properties that make each component correct

- **The validators.** Each accepts a language, and the property is that it accepts exactly that language. For IPv6 that is the RFC 3986 `IPv6address` grammar; for IPv4 it is the rule of spec.md 4.4. The hazards are group counting at 4, 7 and 8, the one `::`, the IPv4 break, and the trailing colon. `ValidateOctet` also has signed overflow. The scan must always return.
- **The decoder and the authority parser.** A successful parse must mean well-formed text. That means complete escapes and a decimal port within 0..65535.
- **ParseFromString on a reused object.** The result must not depend on what the object held before. That includes earlier parses, failed parses and setters. spec.md 3 says every field is reset.
- **The serializer.** A parse of `GenerateString()` must give back an equal Uri (spec.md 8). This must hold for parsed values, and also for every value of spec.md 3's shape that setters, `NormalizePath`, `Resolve` or copies build (`WellFormedRoundTrip`).
- **NormalizePath.** It must be idempotent (spec.md 8).
- **Resolve.** It must compute what RFC 3986 section 5.2 computes. This covers the branch order, merge, the query taken from the base, and remove_dot_segments.

## 2. Plan and modules

The modules were built in order of importance. First the validators and the parse pipeline, which carry most of the code (spec.md 2 gives 35% to authority and host validation). Then the object, serialization and resolution.

| Module | Models | Composes |
|---|---|---|
| `UriChars` | the character sets, `tolower`, digit values, the decimal rendering of the port | none |
| `UriHost` | `ValidateOctet`, `ValidateIpv4Address`, `ValidateIpv6Address` | `UriChars` |
| `UriCodec` | the percent decoder, `DecodeElement`, `MakeHexDigit`, `EncodeElement` | `UriChars` |
| `UriPath` | `IsPathAbsolute`, `CanNavigatePathUpOneLevel`, `NormalizePath` | `UriChars` |
| `UriParse` | `ParseScheme`, the host/port machine, `std::stoi`, `ParseAuthority`, `SplitAuthority...`, `ParsePath`, `SetDefaultPath...`, `ParseFragment`, `ParseQuery`, `ParseFromString` | `UriHost`, `UriCodec`, `UriPath` |
| `UriGenerate` | `HasAuthority`, `GenerateString` | `UriParse` |
| `UriResolve` | the `Copy*` helpers, `Resolve` | `UriParse` |
| `UriValues` | the abstract specification: what a Uri object promises its caller | `UriResolve` |
| `Uri` | the objects and every public mutating call, and the refinement mapping to `UriValues` | `UriGenerate`, `UriResolve`, `UriValues` (as `Values`) |
| `Ipv4Validation`, `Ipv6Validation` | one validator call as a state machine, one character per step | `UriHost`, `Rfc3986` |
| `UriResolveCheck` | one `Resolve` call on two parsed objects | `UriGenerate`, `UriResolve`, `Rfc3986` |
| `Rfc3986` | the reference definitions, written from RFC 3986 and spec.md, not from the code | `UriChars` |
| `MCIpv4Validation`, `MCIpv6Validation`, `MCUri`, `MCUriResolve` | the input sets and bounds for TLC | the module above each |

### How the model corresponds to the code

- A byte is `0..255` and a string is a sequence of bytes.
- Every C++ function that only computes a value becomes an operator:
  - Each loop is a `FoldLeft` of a step operator over a record of the loop's locals.
  - The step has one operator per `case` of the code's `switch`.
  - A flag `fail` stands for an early `return false`.
- The parse methods return `[ok, u, ...]`, where `u` holds the object's fields as the code leaves them, also on failure.
- A function with early returns, such as `ParseFromString` or `ParseAuthority`, is a chain of stage operators: `AfterScheme`, `AfterAuthority`, `AfterPath`, `AfterFragment`, and `AuthorityHost`, `AuthorityPort`. Each stage takes the previous stage's result as a parameter and either returns `Failed(...)` or calls the next stage, in the order the code's statements run.
- In `Ipv6Validation` and `Ipv4Validation` the same step operators are actions. `ScanChar`/`Scan` consumes one character and `Finish` runs the code after the loop.
- In `Uri`, the variable `uri[h]` holds the fields of object `h`'s `Impl`:
  - `ParseFromStringOn` is the whole of `ParseFromString`.
  - Each setter and clearer is an action.
  - `NormalizePathOn` is `Uri::NormalizePath`.
  - `ResolveInto(b, r, t)` is `t = b.Resolve(r)`.
  - `CopyAssign` is `operator=`.
  - `Construct`, `CopyConstruct`, `MoveConstruct`, `MoveAssign` and `Destroy` are the constructors, the defaulted moves and the destructor (lines 1199-1217).
- `life[h]` says whether `h`'s `impl_` owns an `Impl` (`"live"`), is null after a move (`"moved"`), or whether there is no object (`"gone"`).
  - The defaulted moves move the `unique_ptr`: the target takes the source's `Impl`, or its null pointer, and the source's becomes null.
  - Every other member dereferences `impl_`, so its action requires `Live`. This includes the copy constructor and copy assignment, on either side.
  - `t = b.Resolve(r)` assigns a temporary, so it is a move assignment, and it may target a moved-from object.
  - The fields of an object without an `Impl` are shown as `EmptyUri`.
- `origin[h]` is a history variable. It records how `h` got its value and, for a parse, the input string and its result. Its `ok` flag turns false with a failed parse and stays false through setters and `NormalizePath`. A resolved value is ok only when both operands are. Copy assignment copies the flag. Properties use `origin` to compare an object with a fresh parse.

### The abstract specification and the refinement

`UriValues` states what the class promises. An object is its *value*: the fields `operator==` compares (`Observed(u)`, which blanks a port, query or fragment whose flag is clear), or `Invalid` once a parse of it has failed. spec.md 6 says the caller must discard such an object. Every call is a function of the values of its operands:

- a successful parse gives the string's value as a new object would parse it;
- a setter, a clearer or `NormalizePath` changes the value by its assignment;
- `t = b.Resolve(r)` gives `Resolve` of the two values;
- `operator=` copies the value;
- a move gives the target the source's value and leaves the source moved-from, without a value: it can then only be moved to, assigned a `Resolve` result, or destroyed;
- a constructor makes an empty value or a copy, and the destructor ends the object;
- calls on invalid values give invalid values.

`Uri.tla` instantiates it as `Values == INSTANCE UriValues WITH value <- [h \in Handles |-> ValueOf(h)]`. `ValueOf(h)` is `Observed(uri[h])`, or `Invalid` when `origin[h].ok` is false. The property `ImplementsValues == Values!Spec` says the objects implement the abstraction. Concretely:

- no field `operator==` ignores (a stale port, query or fragment text) is ever read by a later call;
- nothing of an object's history shows in what a parse computes.

This subsumes "a successful parse equals a fresh parse". It is checked in `uri_api` and `uri_objects`. The abstract `Resolve` has no path-length bound; the concrete guard only removes steps.

### Conversions and undefined behaviour

- **`std::stoi`** is modelled by what it does:
  - it skips leading white space;
  - it takes an optional sign;
  - it needs at least one digit;
  - it ignores everything from the first non-digit on.
- **Values beyond `int`.** `std::stoi` throws for them, and any value above 65535 fails anyway. So values are capped at `PortCap`.
- **The `uint16_t` cast (line 858).** The port is stored as `value % 65536`. Under the code's bound this changes nothing, but a bound that let 65536 through would store port 0. `ParsedPortIsWritten` sees that.
- **Signed overflow.** `octet * 10 + digit` overflows `int` on long digit runs, which is undefined behaviour. The model takes the outcome the compiled loop produces: two's-complement wrap modulo 2^32, held as two 16-bit halves because TLC's integers are 32-bit.

## 3. Runs

The pass runs are listed first.

| Run | cfg | Checks | Shows |
|---|---|---|---|
| `ipv6_hex` (pass) | `MCIpv6Validation_hex.cfg` | `TypeOK`, `AcceptsExactlyRfcIpv6` | Over all lists of 1-9 groups with up to 3 odd groups, the validator accepts exactly the RFC `IPv6address` strings, and `numDigits` never exceeds 4. The odd groups are an empty group (which makes `::` or a lone end colon), `a`, `1abc`, `12345`, `abcde` and `g`. `abcde` runs the letter-led path (line 302) into the length check. 566,024 distinct states. |
| `uri_parse` (pass) | `MCUri_parse.cfg` | `ParsedRoundTrip` | Over 504 inputs, each a scheme part, an authority part, a path part, a query part and a fragment part concatenated, every successful parse round-trips through `GenerateString`. Parts can run into each other, for example `//h` then `a`. Inputs include IPv6 and IPvFuture hosts, user info, ports, `..` and `%62`. |
| `uri_api` (pass) | `MCUri_api.cfg` | `ParsedPortIsWritten`, `NormalizeIsIdempotent`, `ImplementsValues`, `WellFormedRoundTrip` | One object under every mutating call in any order: the object implements `UriValues`, a parsed port is the number its text spells, a normalized path is a fixpoint, and every value of spec.md 3's shape (an authority implies an absolute path) reads back equal from `GenerateString`, however it was made. The calls are parse, the ten setters and clearers, `NormalizePath` and self-resolve. `//h:65535` parses with the largest port. `//h:65536` fails in the port check, so failed parses are part of the history. A bound one too high would let the cast store 65536 as port 0, which `ParsedPortIsWritten` catches. 25,377 distinct states. |
| `uri_objects` (pass) | `MCUri_objects.cfg` | `NormalizeIsIdempotent`, `ImplementsValues` | Two objects exchanging values by parse, `NormalizePath`, `Resolve` into either object (an operand included), copy assignment, the constructors, the moves and destruction. The objects implement `UriValues` and paths stay normalized. A move written as a swap, which leaves the source usable, fails at depth 3. Symmetry over the two objects. 37,697 distinct states. |
| `resolve_rfc` (pass) | `MCUriResolve_pass.cfg` | `ResolveMatchesRfc` | `Resolve` agrees with the RFC 3986 section 5 algorithm, written in `Rfc3986` from the RFC, for 5 bases × the 41 references of RFC 3986 5.4. The bases are `h://a/b/c/d;p?q`, `h:/b/c`, `h://a`, `h://a/b/` and `h://u@a:8/b/c#x`. The last checks that user info and the port are copied with the authority and that the base fragment is dropped. |
| `ipv6_ipv4_tail` (violation) | `MCIpv6Validation_ipv4.cfg` | `AcceptsExactlyRfcIpv6` | `1:1:1:1:1:1.2.3.4` (7 groups, no `::`) is accepted. |
| `ipv4_spec` (violation) | `MCIpv4Validation_spec.cfg` | `AcceptsExactlySpecIpv4` | `1.1.1.1.` is accepted. |
| `uri_roundtrip` (violation) | `MCUri_roundtrip.cfg` | `ParsedRoundTrip` | `a%3Ab` renders as `a:b` and re-parses as a scheme. |
| `uri_escapes` (violation) | `MCUri_escapes.cfg` | `ParsedEscapesWellFormed` | `/%` parses. |
| `uri_port` (violation) | `MCUri_port.cfg` | `ParsedPortIsDecimal` | `//h: 8` parses with port 8. So do `+8` and `8x`. |
| `uri_reparse` (violation) | `MCUri_reparse.cfg` | `ParseResetsEveryField` | After `//h:8`, parsing `//h` leaves `port = 8`. |
| `uri_cleared_query` (violation) | `MCUri_clearedquery.cfg` | `ImplementsValues` | Two objects with parse, `Resolve`, copy and `ClearQuery`. Take h2 = `h://a/b?x` and h1 = `?q`, then call `h1.ClearQuery()`. `h2.Resolve(h1)` then has no query, where the abstract value, like a reference that never had a query, takes the base's `?x`. |

Each property of a pass run has a mutant in `PROJECT.json`. A mutant is a plausible slip in the code's definition, and TLC must find the property violated with it. The mutants are operators named `...NoLengthCheck`, `...OffByOne` and so on, defined just before the definition they replace.

### Findings

- **Embedded IPv4 tail counted as three groups.** At the `.` of an embedded IPv4 address the scan breaks while still in `IN_GROUP_COULD_BE_IPV4`. The trailing-group increment (357-363) then counts the IPv4 start as a group, and line 377 adds 2 more. So `1:2:3:4:5:6:1.2.3.4` is rejected and `1:1:1:1:1:1.2.3.4` accepted, against spec.md 4.5.
- **Trailing dot in IPv4.** `ValidateIpv4Address` accepts a trailing dot (217-223).
- **Signed overflow in `ValidateOctet`.** With the wrap taken, `1.1.1.4294967296` is accepted. To see it, set `Addresses <- LongOctetAddresses` in `MCIpv4Validation_spec.cfg`. Over the whole set TLC first reports the shorter trailing-dot case.
- **Lenient decoding and port text.**
  - `DecodeElement` returns `true` on an escape cut off at the end (line 489).
  - `std::stoi` accepts ` 8`, `+8` and `8x` (line 848).
- **Stale `port` after a reparse.** When the port text is empty, only `hasPort` is cleared (line 844), so `GetPort()` keeps the previous parse's value. `operator==` does not see this, and `ImplementsValues` passes. spec.md 3 says "fully resets" and `ParseResetsEveryField` does not pass.
- **Round trip broken by the serializer.**
  - `GenerateString` leaves `:` unescaped in a first path segment.
  - It lower-cases IPv6 hosts that were stored as written (line 1435).
  - It renders IPvFuture hosts without brackets (line 1438).
- **Resolve reads a cleared query.** `ClearQuery` (lines 1404-1406) clears only `hasQuery`. `Resolve` picks the query for an empty-path reference by `!query.empty()` (line 1345). So a reference whose query was cleared makes the target take the reference's absent query instead of the base's. Two references equal under `operator==` then resolve to different targets (`uri_cleared_query`).
- **Resolve departs from RFC 3986.** The code's comment and spec.md 4.8 say Resolve follows RFC 3986 5.2.2, but spec.md restates the code's rules, which differ from the RFC in four places. Each was found with `ResolveMatchesRfc` (`resolve_rfc`) and changed inputs in `MCUriResolve_pass.cfg`. For the first, set `BaseStrings <- RootlessBases` and `RefStrings <- MergeReferences`; for the others, set `RefStrings` to `{"?"}`, `{"//u@/g", "//:8/g"}` and `{"g///h"}`:
  - the merge keeps a single rootless base segment (line 1359);
  - the reference `?` takes the base's query, because the code tests `query.empty()` instead of `hasQuery` (line 1345);
  - a reference with only user info or a port in its authority (`//u@/g`, `//:8/g`) takes the base's authority, because the code tests the host (line 1338);
  - `NormalizePath` collapses `g///h` to `g//h` (line 1084).
- **Other divergences noted while modelling.** They are listed as hazards in `PROJECT.json` and have no violation run of their own:
  - `//:8` keeps an empty path, because the default path is set only when there is a host (line 968). This goes against spec.md 3's invariant. Under the base `h://:8` the reference `g` then merges into the rootless path `g`, and the target renders as `h://:8g`. `ResolveMatchesRfc` shows this with `BaseStrings <- HostlessAuthorityBases` and `RefStrings <- MergeReferences`. In `resolve_rfc` it checks the same merge under `h://a`, where the default path is set; without the default path that run fails;
  - the setters assign a field and check nothing. `SetHost("x")` on a new object gives an authority with an empty path, which renders as `//x` and reads back with the path `[""]`. `SetHost` on a value with the path `g` renders as `//hg`. `WellFormedRoundTrip` therefore checks only values of spec.md 3's shape, and for those the serializer and the parser agree;
  - `?q+` parses, although spec.md 4.7 says the query charset excludes `+` (line 996). spec.md 8 and 9 keep the exclusion as an encoding rule, which `GenerateString` follows, so this is not listed as a hazard.

## 4. Bounds, and why they are enough

- **IPv6.** The grammar's decisions are all about group counts (7, 8, 9), the position and number of empty groups, and group lengths (4 and 5 digits). Up to 9 groups with up to 3 odd ones covers:
  - `::` at the start, the middle and the end;
  - two `::`;
  - a lone colon at either end;
  - an overlong group;
  - a non-hex letter.

  The IPv4-tail set adds 1-7 groups before valid, out-of-range and two-digit tails.
- **IPv4.** Every string up to length 8 over `1`, `9`, `.`, `a` covers empty groups, too many and too few groups, and trailing and leading dots. The long octets cover 256, 2^31 and 2^32.
- **Parse inputs.** Parse inputs combine every part class the parser branches on:
  - scheme: none, lower case, upper case;
  - authority: none, reg-name in both cases, user info with a port, port only, IPv6, IPvFuture;
  - path: empty, `/`, rooted, rootless, with `..`, with `//` and an escape;
  - query: none, or with a `+`;
  - fragment: none, or present.
- **Setter arguments.** Setters take one value each. `MaxPathLength = 4` bounds the paths that repeated self-resolution builds, because a merge can grow the path by one segment per call.

## 5. Fairness

No specification assumes fairness, and none states a liveness property. The code is single-threaded and has no waiting, retries or callbacks. A fairness condition would only restate that a function call returns. For example, in `Ipv6Validation` a scan step or `Finish` is enabled until `done`, whatever the code does. The object-level specifications have no fairness either, because a program need not make any further call. What a returning call guarantees is stated as an invariant on its final state, such as `done => result = Ipv6Address(address)`.

The validator and resolve harnesses model one call that returns, so their runs say `CHECK_DEADLOCK FALSE`. The object-level specifications can always take another call, and deadlock is checked for them.

## 6. Not modelled

- **The `CharacterSet` class** is not under `src/`. It is taken as set membership.
- **The percent decoder** is modelled from spec.md and marked `spec_modelled`.
- **Accessors** (`Get*`, `Has*`, `IsRelativeReference`, `ContainsRelativePath`) are pure reads of the fields.
- **Calls on a moved-from object** other than a move assignment or destruction dereference a null pointer, which is undefined behaviour. The model does not take them. That includes copy assignment into the object. What it would mean is a fault of the calling program, not a step of the class.
- **A Resolve result assigned to a moved-from object must make it usable again.** A safety refinement cannot check this: a version that left the target unusable only removes behaviours.
- **Strings** are bounded sets of short byte sequences. Nothing depends on their length beyond the bounds above, except the overflow, which is modelled arithmetically.
- **Resolve as a property of the two-object specification.** Each resolve is checked against the RFC in `UriResolveCheck` instead, on parsed objects, where the RFC's component split applies.
