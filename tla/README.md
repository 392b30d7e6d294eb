# delta-struct-rs in TLA+

delta-struct computes the difference between two Rust values and applies it to a third.
`#[derive(Delta)]` generates the two methods field by field, `#[derive(Fingerprint)]` a 64-bit digest
that two processes agree on, and `Versioned` puts the two together into a stream of deltas that
notices when a message is lost, repeated, reordered or meets the wrong value. This directory models
those parts, checks them with TLC on small instances and proves their guarantees with TLAPS.

## The system

| Component | State it keeps | Operations | Correct when |
| --- | --- | --- | --- |
| `Versioned` (version.rs) | value and version, at each end; `VersionedDelta`s and resent values on the way | `new`, `commit`, `apply`; outside the crate: transport, resend | a receiver that refuses nothing holds what a sender held at its version; a refusal means what its name says and touches nothing; a resend always suffices |
| `Delta`, `ScalarDelta` (lib.rs) | none | `delta`, `apply_delta` | applying `delta(old, new)` to `old` gives `new`; `None` exactly when they are equal |
| enum deltas (variant.rs) | none | `EnumDelta::Became`, `EnumDelta::Delta`, `Mismatch` | a mismatch names an enum that really disagreed |
| derive(Delta) (macros) | none | the generated diff and apply | no difference lost between a field and its struct; an early `?` leaves earlier fields updated, later ones alone |
| bag, entry, map, index, unordered | a collection while it is taken apart | `diff`, `apply`, `try_remove`, `try_index_mut` | the contract of `Delta` whatever order a hash gives; what did not differ is left alone, even by a failure |
| seq (seq.rs) | an edit script, a cursor | `diff`, `apply` | the script reproduces `new`; any script is survived |
| `Fingerprint`, `Hasher` (fingerprint.rs, macros) | hasher state | `fingerprint` | equal for the same state, different otherwise |
| attribute parsing (macros) | the fold of `collect_results` | `get_fieldtype_from_attrs`, `read_fields` | every bad field reported; what is written is used or refused |

They interact by calls alone. `Versioned::commit` calls `fingerprint_of` twice and `Delta::delta`;
`Versioned::apply` calls `fingerprint_of` and `Delta::apply_delta`; the derived methods call the
collection helpers and, for `delta` and `unordered-delta` fields, each other recursively. There are no
threads. What is concurrent is the outside: two processes and a network between them, and the
application that answers a refusal by sending the whole `Versioned`.

The hard behaviours are therefore the orders in which commits, deliveries, losses, repetitions and
resends interleave; what `apply` and `apply_delta` leave behind when they fail half way; deltas applied
to values they were not made for; the order in which a hash yields its elements; and the two notions
of equality, `==` in the diff and the fingerprint in the stream, that disagree about floats.

## The modules

* **Option** declares `None`. `Some(x)` is modelled by `x`.
* **Versioned** is version.rs. `sender` and `receiver` are `Versioned<T>`s, `net` the
  `VersionedDelta`s in flight, `snapshots` the values being resent. `Commit` is `commit`, in its two
  outcomes (`CommitChange`: a message; `CommitNothing`: `delta` returned `None`, and the value has been
  replaced all the same). `Stale`, `Gap`, `WrongBase`, `Misfit`, `WrongResult`, `Updates` are the
  returns of `apply` in the code's order, and `ApplyStale`, `RejectEarly`, `RejectLate`, `ApplyUpdate`
  what each leaves in the receiver. `Deliver`, `Duplicate` and `Lose` are the transport, `SendSnapshot`
  and `InstallSnapshot` the documented answer to a `Rejected`. Two history variables are not in the
  code: `trusted`, whether anything was refused since the value was last replaced (what the
  application knows), and `held`, what each sender held at each version.
  `T`, `delta`, `apply_delta` and `fingerprint_of` are constants, as they are parameters of the Rust
  code, so what is proved holds for every implementation of the traits.
* **Recovery** puts the application of the crate's docs around Versioned: each refusal leaves a resend
  `owed`, one resend is under way at a time, and it shares with the deltas one connection that keeps
  their order but loses and repeats them.
* **Replica** is the promise with no mechanism in it: published states, a copy that moves one version
  forward at a time, refusals, and whole states that restore it.
* **Membership** is the loops of bag.rs, entry.rs and map.rs, one element at a time, through the
  lookups of index.rs and the dispatch of unordered.rs. `VisitMissing` and `VisitMatched` are the two
  arms of diff's loop, `DiffReturns` its last lines; `RemoveKey`, `SkipChange`, `MakeChange` and `Extend`
  are apply. Any element may be next, as in a hash collection.
* **Seq** is seq.rs: `Equal`, `Delete`, `Insert` and `Replace` are the calls Myers' algorithm makes on
  `RangeHook`, `MakeSplice` one round of diff's loop, `ApplySplice` one of apply's. The algorithm is
  the crate `similar`: any alignment in which two edits never touch is possible. A script may also come
  from elsewhere (`CallWithWire`), and `usize` has a width: `MaxUsize`, with or without overflow checks.
* **Collections** is what those loops compute, from whole collections at once: the operators Derive is
  built on. `ImplementsCollections` and `OldCoordinates` are the two places where the detailed modules
  are held against it.
* **Derive** is the generated code. A type is data (a record of its kind and parts), and `DeltaOf` and
  `ApplyTo` are what the macro makes of it; `FieldsApply` and `MapApply` say what an early `?` leaves.
  The impl of a field's type is a parameter, as in the generated code.
* **Contract** is what that code is measured by: which values a type has, which of them its `PartialEq`
  calls equal, which parts of a value a delta may change, where two values are in different variants.
  Of a field's type it knows these same things, as parameters. **Layers** puts instances of both in for
  the parameters, level by level, and takes them through DeriveProofs so that its theorem comes along.
* **Fingerprint** is what each type writes into a hasher, and the shape of the values it is written for.
  **Prints** is its layers, taken through FingerprintProofs as Layers goes through DeriveProofs.
  **Stream** is a hasher without collisions; **Fnv** is the crate's, at any width, with `^` a parameter.
* **Attributes** is the front end of the derive: the attribute lists of a container and its fields, the
  fold over them, and the aborts.
* **Exchange** is one use of the trait by hand: a delta of any two values, applied to any third, and
  applied again. **Fingerprinted** adds the fingerprints of those values, in both hashers.
* **MCTypes** lists the types the runs use. **MCVersioned**, **MCRecovery**, **MCExchange**,
  **MCMembership**, **MCSeq** and **MCAttributes** instantiate the state machines. In MCVersioned the
  parts meet: the stream runs on the derived diff, the derived apply and the derived fingerprint.
* **VersionedProofs**, **MembershipProofs**, **SeqProofs**, **CollectionsProofs**, **DeriveProofs**,
  **FingerprintProofs**, **ExchangeProofs** and **AttributesProofs** hold the theorems.

An operator called `A_B` is operator `A` with one plausible mistake in it. Each property comes with one
that breaks it; none is part of the model.

## The runs

| Run | Question | Bounds |
| --- | --- | --- |
| `versioned_lossy` | Do refusals mean drift, and does the pair implement Replica, under loss, repetition, reordering and late resends? | one sender, a set of two beside a scalar (8 values), 3 versions |
| `versioned_collisions` | What is left if the fingerprint collides (the crate's hasher on two bits)? | two senders, 4 values, any start, 2 versions |
| `recovery` | Is a refused receiver stuck until the resend, and do the ends always meet? | one sender, an enum with a float in it, any start, 3 versions |
| `exchange` | The contract of `Delta`, what a delta leaves alone, and what a fingerprint tells apart | 13 types up to two levels deep; every old, new and target of each |
| `membership` | Do the loops keep the contract, in any order, and compute what Collections says? | two keys; three values of a map, floats or an enum; every old, new and target |
| `seq` | Does a script rebuild `new`, and what does any script do to any sequence? | sequences of up to three items; scripts of up to two splices; `usize::MAX` of 4 |
| `attributes` | Is every bad field reported and nothing passed over? | three fields, or two variants of two; eight attribute lists for a field, six for a container |

`MaxVersion` bounds how often a sender commits a change, `MaxSnapshots` (1) how many distinct resends
are in flight, and Exchange applies a delta at most twice. Three versions are enough for a delta to be
overtaken by two others, for a value to recur with a gap in between (the case a fingerprint alone would
miss) and for an old resend to take the receiver back under a live stream. A `net` that is a set with a
`Duplicate` action has unbounded repetition; a resend may be installed any number of times.
Collections that differ on two keys have a first and a second change, so one can fail before or behind
the other. Three items are where a sequence first has an edit that touches neither end, and where a
splice can be shifted by an earlier one. A `usize::MAX` of 4 puts every position next to the overflow.
The exchange types cover each field attribute, a struct in a struct, an enum in an enum and in a map,
fields behind one whose apply can fail, and the types of std that are written in parts.
Exchange, Membership, Seq and Attributes end, so deadlock is not an error there.

Five more runs show where a document and the code part:

* `versioned_two_writers`: the second writer's delta is `Ok(Stale)`, not rejected, and its update is
  lost without a sign (`lib.rs:568-571`, `version.rs:188`). The same happens to a sender rebuilt at
  version 0.
* `versioned_zeros`: committing `-0.0` over `0.0` sends nothing and changes what the next message is
  checked against; a receiver in step refuses it as drift (`version.rs:207-218`).
* `exchange_nested`: a struct with an enum in it can fail to apply (`lib.rs:635-636`,
  `variant.rs:47-48`).
* `seq_overflow`: `cursor = at + remove` panics on a script from a wire in a build with overflow checks,
  with the target already taken (`seq.rs:173-175`).
* `attributes_unknown`: a misspelt `field_type` is accepted, and the field silently gets the default
  (macros `lib.rs:83-90`).

## Fairness

The crate schedules nothing, so liveness rests on what the integrator provides. `RecoverySpec` names it:
deltas go on being handed over and each is taken off the channel in the end, an owed resend is sent,
and a sent one is installed (weak fairness of each). Nobody has to commit. Deltas may be lost and
repeated without bound, save that the last one of the stream is not lost: when nothing comes after it,
nothing can tell the receiver. And the resend travels in order with the deltas: one that overtakes or
is overtaken leaves the receiver a version short, or refuses what it should have taken, with nothing in
the stream to tell it. Neither is something the crate claims to handle.

## The proofs

`VersionedProofs`, for every `T`, `Diff`, `ApplyDelta`, `Fp`, set of senders and bound, under the
named assumptions of Versioned (`apply_delta` turns a `T` into a `T`; the starts are values):

* `TypeCorrect`.
* `FingerprintAgreement`, of any hash whatsoever. `FingerprintAgrees` is not inductive: an accepted
  delta brings its `result`, a resend its value. `AgreementInv` adds that whatever is in flight is on
  record: a sender's own value under its version (`SendersOnRecord`), the result of a delta
  (`DeltasOnRecord`), a resent value (`ResendsOnRecord`). Each holds after a commit because the history
  only grows (`HeldGrows`). The result check at version.rs:169 is what the proof turns on; the base
  check is not used.
* `ReceiverInStep`: the same of values, if no two values collide (`FpInjective`).
* `RefusalsAreClean`: here the base check matters. A delta in flight describes a step between two values
  (`DeltasDescribe`), so a delta that fits meets the value it was made for, and the contract of `Delta`
  (`DeltaContract`) leaves no way to fail after the value is touched.
* `RefusalsMeanDrift`, under one sender and equal starts, of any hash. `Lineage` says each version has
  one value, deltas link the values of consecutive versions, and the receiver, refused or not, holds
  the value of its version.

Then comes `Refinement`: every step is a step of Replica or a stutter. `ReplicaInv`
adds to `AgreementInv` that nothing is published ahead of its sender and that deltas span one version.

The last part of `VersionedProofs` carries these over to `RecoverySpec`, whose resend is not always a step of Versioned
(one may be owed for a refusal that an earlier resend has already answered), and proves `OnlyResend`:
with one sender and deltas in order, a refused receiver never moves on by a delta. The invariant is
`Stuck`: once it has refused, the sender is ahead of it and every delta still travelling is refused for
a gap or its base. `Numbered` (deltas span one version, and no two have the same number) is what makes
it inductive: the delta that would fit was the one refused, or came before it.

`MembershipProofs`, for any keys and values and any order of the loops. `ContractAssumption` is the
contract of `Delta` for the values of a map; `ContractCarriesOver` is that contract for the map.
`Diffed` says what diff has found in terms of the keys it has visited; `OnOld` what a target equal to
`old` looks like between two steps of apply. `EmptyIffAgreement` follows from `Diffed` with every key
visited; `AgreementIsLeftAlone` needs no assumption on the target and includes the early exit.
`LoopsImplementCollections` says that a call returns what the operators of Collections compute. It needs
an invariant for any target, `OnAny`: the target is what is left of it with the outcome of every change
tried so far, and where one failed, it is the last one tried. Here the set of keys is taken to be finite
(`FinitenessAssumption`), as a collection's is: MapDiff lists its keys in a sequence.

`CollectionsProofs` is about those operators. What is recursive there (the walk along an alignment,
FlattenSeq) is a recursive function, and a statement about it is proved by the lemma `Induction`, which
speaks of the set of the naturals that satisfy it and follows from the least natural outside. Its theorem
is `ScriptsRoundTrip`: a script made along any most complete alignment is empty exactly for equal
sequences, and makes `new` of `old`. `WalkPasses` carries the argument: after position `i` of old, the
splices so far make, of old up to the pair passed last, new up to its mate; a pair adds the gap before it
(`GapMakes`), and no gap is skipped unless it is empty.

`DeriveProofs` is the generated code, for any type, field attribute and value. `Lawful` is the contract of
`Delta` in seven laws: `Decides` (`None` exactly for equals), `Order` (equality is one, on what is
compared), `MakesNew`, `StaysValue`, `Honest` (a `Mismatch` is a real one), `Keeps` (what agrees is left
alone, by a failure too) and `Settles` (sequences apart, a second application does nothing). `LawsCarryOver` says that if the types a
field may nest are lawful, so is every type built from them. Each law is proved of each kind of field,
then of a list of fields, where the early `?` needs that an apply stops at the first field that fails, then
of structs and enums.

`ExchangeProofs` starts from the types that nest nothing and cites that theorem for one level of nesting
after the other, as Layers does. The two levels are the model's; each further one is the same step. From
it come the five properties of Exchange that speak of `delta` and `apply_delta`, for all types that
`TypesAssumption` admits (those a derive accepts, with the values they have) and not only the thirteen
of the run: `AppliedToOldMakesNew`, `NoneExactlyForEqual`, `MismatchesAreReal`,
`OnlyDifferencesAreTouched` and `TwiceIsHarmless`. Their invariant says that the delta is the one computed,
and `self` and `err` what the applications so far made of `start`. One hypothesis is left in each,
`NoneIsNoFunction`: None is not a function. `Some(x)` being modelled by `x`, None must differ from every
delta, and a delta is a record or a sequence. TLC cannot evaluate that of a model value, so it is not an ASSUME.

`FingerprintProofs` is what the impls of `Fingerprint` and its derive write, for any type and value, into
a hasher that keeps it all (`StreamHasher`, which Stream satisfies). `Tells` is the law: after any
stream, what one value writes, followed by anything, is what another writes, followed by anything, only if
the two values are one. It says more than that the whole streams differ, and it has to: a value is told
from another in front of whatever its neighbours write. `TellingCarriesOver` says that types built from
types with this law have it. Lengths, tags and variant indices are what each kind of type needs for it: a
row of values of known types tells each of them in turn (`RowTells`), and a slice is such a row only
once its length has been told. A bag or a map tells its length and the set of its elements' streams, and a map's
element tells its key, written first, and then its value.

`ExchangeProofs` takes that through the levels of Prints, which are three, to `FingerprintsTell`, for
all types whose values have a shape that the impls are for (`ShapesAssumption`, which TLC evaluates for the
thirteen). It is what stands behind `FpInjective` for a derived type: any two values that collide
under the crate's hasher collide in FNV-1a or its fold, not in what is written into them.
The other half is `OrderIsUnseen`, about the crate's own hasher: any two ways to list a set fold its hashes
into one number. The proof (`OrderIsLost`) goes by the number of elements: where the two lists end in different ones, the last of
the second stands somewhere in the first, exchanging it there for the first's own last does to the fold
what `^` of the two would (`Replaced`), and the shorter lists are of one set. `WordsAssumption` is what is
used of the words: `^` is closed, commutative and associative on them, a byte is one, and the offset and the
prime are. They are assumed because the provers have no bits and no powers; TLC evaluates them with the
`^` of the runs.

`SeqProofs`, for sequences of any length over any items and any alignment. `AlignedInv` says the calls
on `RangeHook` cut old and new into runs that are equal outside the edits; `SplicedInv` ties each splice
to its call, and the cursor to the end of the last; `ReplayedInv` says that apply on `old` has rebuilt
`new` up to the splice it is at. From it come `DiffRoundTrip`, `EmptyExactly`, `DiffIsSafe` (neither
subtraction nor sum leaves `usize` for a script diff made, whatever the target) and `TypeCorrect`.
`PositionsAreOld` is about any script in the order of its positions, from diff or not, on any target: apply
makes SeqApply of it. `PlacedInv` says that the cursor stands behind what the last splice removed, the
iterator there or at the end of the target, and that `out` is the pieces so far.
`EveryScriptClamps` is about any script at all, unsorted, overlapping, too long or past the end of a
`usize`, on a target whose items can be told from each other and from the inserts. `ClampInv` says of the
splices so far that their inserts are in `out`, in order; that the rest of `out` is what is left of the items
read, in order; and that the items read and not put out are no more than those splices say to remove. A step
(`CopyFacts`) adds one run of the target, which shares no item with what was read before or is skipped
after it. The filters in it are concatenations, so facts about them are shown by appending one item more.

`AttributesProofs`, for any attribute lists on any number of fields and variants. `FoldInv` is the loop
invariant of `collect_results`: while it is good, one resolved field per field seen; once it is bad,
exactly the bad fields seen, in order. `EveryBadFieldIsReported`, `FieldsAreIndependent` and
`NothingIsPassedOver` follow.

`ContractAssumption`, which Membership asks of the values of a map, is what `Decides` and `MakesNew` say of
derived types; `DeltaContract`, which Versioned asks of `T`, is the same with equality in place of `Same`.
For types with floats the two differ, since `==` calls two states alike that the fingerprint does not, and
`versioned_zeros` is the consequence. `FpInjective` stands for a 64-bit hash that does not collide;
`FingerprintsTell` says that what is hashed leaves it a chance.

Only model-checked: `Converges`, the one liveness property; the provers do not do fairness. Out of reach
too is induction over the nesting of types: the levels of Layers and Prints are the model's, and each
theorem about them cites its step once a level. That the crate's `^` and `2^64` satisfy `WordsAssumption`
is evaluated at the width of the runs.

## Seen, and not a run

* Over a transport that reorders, a refused receiver does move on without a resend when the overtaken
  delta arrives after all; `OnlyResend` needs the order. The value is the right one.
* A delta refused for its result has been applied (`version.rs:170-172` says so, `lib.rs:493` not).
  `RefusalsAreClean` is why that takes a float, a collision or a bug.
* Two variants of an enum with bad fields are reported one compile at a time: `collect_results` collects
  within one variant, and the abort follows it.
* A second `#[delta_struct(...)]` list on one field is not read; nor is it refused.
* A field's `delta_leader` that does not lex is an `unwrap`, so the derive panics where a container's
  aborts with a message.

## Not modelled

* The 64-bit wrap of a version: 2^64 commits.
* The probability that 64-bit FNV-1a collides: a run has a hasher without collisions, or one of two bits
  with many.
* Myers' algorithm (crate `similar`) and its choice among alignments; syn's grammar of attributes.
* A `PartialEq`, `Hash` or `Ord` that breaks its own laws, but for the floats.
* Custom implementations of `TryIndex`, `MapEntry` and `Unordered` that are not std's collections.
* The tokens the macros emit for declarations, generics and visibility, serde formats, `Display`.
