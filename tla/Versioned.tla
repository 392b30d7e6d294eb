----------------------------- MODULE Versioned -----------------------------
(***************************************************************************)
(* Versioned<T> and VersionedDelta<D> of delta-struct/src/version.rs: a    *)
(* sender commits new values, each commit that changes something produces  *)
(* a delta with four numbers, and the receiver applies or refuses what the *)
(* transport hands it.  The crate owns commit and apply; the transport     *)
(* (loss, duplication, reordering) and the application that answers a      *)
(* refusal by resending the whole value are the environment the crate      *)
(* documents, and are modelled from how its docs and tests use it.         *)
(*                                                                         *)
(* The module is generic in T as the Rust code is: Value, Diff, ApplyDelta *)
(* and Fp stand for T, Delta::delta, Delta::apply_delta and fingerprint_of.*)
(*                                                                         *)
(* An operator named A_B is a mutation of the operator A that follows it:  *)
(* the code with one plausible mistake in it, never used by the model.     *)
(***************************************************************************)
EXTENDS Option, Naturals, FiniteSets

CONSTANTS
  Senders,            \* writers of the stream; the crate assumes one
  Value,              \* the values of T
  Initial,            \* the value every sender starts from
  Starts,             \* the values the receiver may start from
  Diff(_, _),         \* Delta::delta(old, new): None or a delta
  ApplyDelta(_, _),   \* target.apply_delta(d): [ok, value]
  Fp(_),              \* fingerprint_of(value)
  InOrder,            \* does the transport keep each sender's order?
  MaxVersion,         \* bound: a sender stops after this many deltas
  MaxSnapshots        \* bound: so many distinct resends are kept in flight

ASSUME InitialAssumption == Initial \in Value /\ Starts \subseteq Value
ASSUME BoundsAssumption == MaxVersion \in Nat /\ MaxSnapshots \in Nat
ASSUME InOrderAssumption == InOrder \in BOOLEAN

\* apply_delta turns a T into a T, whether it succeeds or stops half way.
ASSUME ApplyAssumption ==
  \A old, new, target \in Value :
    Diff(old, new) # None =>
      /\ ApplyDelta(target, Diff(old, new)).ok \in BOOLEAN
      /\ ApplyDelta(target, Diff(old, new)).value \in Value

VARIABLES
  sender,     \* [Senders -> Versioned]: each sender's Versioned<T>
  receiver,   \* the receiver's Versioned<T>
  net,        \* the VersionedDeltas in flight
  snapshots,  \* whole Versioned<T>s in flight
  trusted,    \* no refusal since the receiver's value was last replaced
  held        \* history: what each sender has held at each version

vars == <<sender, receiver, net, snapshots, trusted, held>>

Version == 0 .. MaxVersion
VersionedValue == [value : Value, version : Version]

\* Every delta Delta::delta can return.
DeltaSet == {Diff(old, new) : old, new \in Value} \ {None}
Print64 == {Fp(v) : v \in Value}

\* VersionedDelta<D>; writer is not in the code: it names whose delta it is.
VersionedDelta ==
  [writer : Senders, from : Version, to : Version,
   base : Print64, result : Print64, delta : DeltaSet]

TypeOK ==
  /\ sender \in [Senders -> VersionedValue]
  /\ receiver \in VersionedValue
  /\ net \subseteq VersionedDelta
  /\ snapshots \subseteq VersionedValue
  /\ trusted \in BOOLEAN
  /\ held \in [Senders -> [Version -> SUBSET Value]]

-----------------------------------------------------------------------------
(* Versioned::new *)

NewVersioned(value) == [value |-> value, version |-> 0]

Init ==
  /\ sender = [s \in Senders |-> NewVersioned(Initial)]
  /\ \E start \in Starts : receiver = NewVersioned(start)
  /\ net = {}
  /\ snapshots = {}
  /\ trusted = TRUE
  /\ held = [s \in Senders |->
               [v \in Version |-> IF v = 0 THEN {Initial} ELSE {}]]

-----------------------------------------------------------------------------
(* Versioned::commit *)

Hold(s, v, value) == held' = [held EXCEPT ![s][v] = @ \cup {value}]

\* The base fingerprint taken after the value has been replaced.
CommitMessage_LateBase(s, old, new, version) ==
  [writer |-> s, from |-> version, to |-> version + 1,
   base |-> Fp(new), result |-> Fp(new), delta |-> Diff(old, new)]

\* The message a commit of new produces on top of old.
CommitMessage(s, old, new, version) ==
  [writer |-> s, from |-> version, to |-> version + 1,
   base |-> Fp(old), result |-> Fp(new), delta |-> Diff(old, new)]

\* The message is built whether or not delta returned one.
CommitChange_Always(s, new) ==
  LET old == sender[s].value
      version == sender[s].version
  IN /\ version < MaxVersion
     /\ sender' = [sender EXCEPT ![s] =
                     [value |-> new, version |-> version + 1]]
     /\ net' = net \cup {CommitMessage(s, old, new, version)}
     /\ Hold(s, version + 1, new)
     /\ UNCHANGED <<receiver, snapshots, trusted>>

\* delta is Some: the version advances and a message leaves.
CommitChange(s, new) ==
  LET old == sender[s].value
      version == sender[s].version
  IN /\ version < MaxVersion
     /\ Diff(old, new) # None
     /\ sender' = [sender EXCEPT ![s] =
                     [value |-> new, version |-> version + 1]]
     /\ net' = net \cup {CommitMessage(s, old, new, version)}
     /\ Hold(s, version + 1, new)
     /\ UNCHANGED <<receiver, snapshots, trusted>>

\* delta is None: the value is replaced all the same, and nothing is sent.
CommitNothing(s, new) ==
  /\ Diff(sender[s].value, new) = None
  /\ sender' = [sender EXCEPT ![s].value = new]
  /\ Hold(s, sender[s].version, new)
  /\ UNCHANGED <<receiver, net, snapshots, trusted>>

Commit(s, new) == CommitChange(s, new) \/ CommitNothing(s, new)

-----------------------------------------------------------------------------
(* Versioned::apply: the verdicts in the order the code reaches them *)

\* A delta from ahead of the receiver is dropped along with the duplicates.
Stale_AnyOther(m) == m.from # receiver.version

Stale(m) == m.to <= receiver.version

\* Only a delta from behind counts as out of order.
Gap_OnlyBehind(m) == ~ Stale(m) /\ m.from < receiver.version

Gap(m) == ~ Stale(m) /\ m.from # receiver.version

\* The base fingerprint is sent and never compared.
WrongBase_Unchecked(m) == FALSE

WrongBase(m) == ~ Stale(m) /\ ~ Gap(m) /\ Fp(receiver.value) # m.base

Fits(m) == ~ Stale(m) /\ ~ Gap(m) /\ ~ WrongBase(m)

Applied(m) == ApplyDelta(receiver.value, m.delta)

Misfit(m) == Fits(m) /\ ~ Applied(m).ok

WrongResult(m) ==
  Fits(m) /\ Applied(m).ok /\ Fp(Applied(m).value) # m.result

\* The result fingerprint is sent and never compared.
Updates_AnyResult(m) == Fits(m) /\ Applied(m).ok

Updates(m) ==
  Fits(m) /\ Applied(m).ok /\ Fp(Applied(m).value) = m.result

\* Ok(Stale).
ApplyStale(m) == Stale(m) /\ UNCHANGED <<receiver, trusted>>

\* Err(Gap) and Err(Base): returned before the value is touched.
RejectEarly(m) ==
  /\ Gap(m) \/ WrongBase(m)
  /\ trusted' = FALSE
  /\ UNCHANGED receiver

\* Err(Apply) and Err(Result): the value keeps what apply_delta did to it.
RejectLate(m) ==
  /\ Misfit(m) \/ WrongResult(m)
  /\ receiver' = [receiver EXCEPT !.value = Applied(m).value]
  /\ trusted' = FALSE

\* The version is not moved to the delta's.
ApplyUpdate_NoAdvance(m) ==
  /\ Updates(m)
  /\ receiver' = [receiver EXCEPT !.value = Applied(m).value]
  /\ UNCHANGED trusted

\* Ok(Updated).
ApplyUpdate(m) ==
  /\ Updates(m)
  /\ receiver' = [value |-> Applied(m).value, version |-> m.to]
  /\ UNCHANGED trusted

Apply(m) == ApplyStale(m) \/ RejectEarly(m) \/ RejectLate(m) \/ ApplyUpdate(m)

-----------------------------------------------------------------------------
(* The transport *)

\* An order-keeping transport hands over (or drops) the oldest first.
MayArrive(m) ==
  InOrder => \A n \in net : n.writer = m.writer => m.to <= n.to

Deliver(m) ==
  /\ MayArrive(m)
  /\ Apply(m)
  /\ net' = net \ {m}
  /\ UNCHANGED <<sender, snapshots, held>>

\* Delivered, and to be delivered again.
Duplicate(m) ==
  /\ MayArrive(m)
  /\ Apply(m)
  /\ UNCHANGED <<sender, net, snapshots, held>>

Lose(m) ==
  /\ MayArrive(m)
  /\ net' = net \ {m}
  /\ UNCHANGED <<sender, receiver, snapshots, trusted, held>>

-----------------------------------------------------------------------------
(* The application's answer to a Rejected: resend the whole Versioned *)

SendSnapshot(s) ==
  /\ ~ trusted
  /\ Cardinality(snapshots) < MaxSnapshots
  /\ snapshots' = snapshots \cup {sender[s]}
  /\ UNCHANGED <<sender, receiver, net, trusted, held>>

\* keep: the snapshot is delivered again later.
InstallSnapshot(whole, keep) ==
  /\ receiver' = whole
  /\ trusted' = TRUE
  /\ snapshots' = IF keep THEN snapshots ELSE snapshots \ {whole}
  /\ UNCHANGED <<sender, net, held>>

-----------------------------------------------------------------------------
Next ==
  \/ \E s \in Senders, new \in Value : Commit(s, new)
  \/ \E m \in net : Deliver(m) \/ Duplicate(m) \/ Lose(m)
  \/ \E s \in Senders : SendSnapshot(s)
  \/ \E whole \in snapshots, keep \in BOOLEAN : InstallSnapshot(whole, keep)

Spec == Init /\ [][Next]_vars

-----------------------------------------------------------------------------
(* Properties *)

\* Whatever was lost, repeated or overtaken, whoever else wrote to the stream
\* and whatever value the receiver started from: past version 0, a receiver
\* that has refused nothing has the fingerprint of a value some sender held at
\* exactly that version.  This needs nothing of the fingerprint but that it is
\* a function (version.rs:155-178).
FingerprintAgrees ==
  (trusted /\ receiver.version > 0) =>
    \E s \in Senders : \E v \in held[s][receiver.version] :
      Fp(v) = Fp(receiver.value)

\* The same with the value itself: where the fingerprint tells values apart, a
\* receiver cannot go on, unrefused, with a value no sender ever held at its
\* version (version.rs:1-10, the silent divergence the module is there for).
InStep ==
  (trusted /\ receiver.version > 0) =>
    \E s \in Senders : receiver.value \in held[s][receiver.version]

\* "The version lined up but the content did not, so the value drifted for a
\* reason outside this stream", "mismatched schema versions, or a bug",
\* "collision or a bug" (version.rs:207-231): with one sender, both ends
\* started alike and no such reason present, no delta can meet one of the
\* three refusals that claim it, however the transport reorders or repeats.
NoFalseAlarm ==
  \A m \in net : ~ WrongBase(m) /\ ~ Misfit(m) /\ ~ WrongResult(m)

\* "A delta that has already been applied is reported as Stale", "The value
\* already reflected this delta" (version.rs:140, :188): a receiver that calls
\* a delta stale holds a value its writer reached at or after that delta.
StaleIsReflected ==
  trusted => \A m \in net : Stale(m) =>
    receiver.value \in UNION {held[m.writer][v] : v \in m.to .. MaxVersion}

\* A refusal that breaks a run of accepted deltas leaves the receiver's value
\* and version as they were (README.md, lib.rs:493 "A rejected delta leaves
\* the receiver untouched").
RefusalTouchesNothing ==
  [][(trusted /\ ~ trusted') => receiver' = receiver]_vars

\* The promise itself, in Replica: published states, and a copy of them.
Promise == INSTANCE Replica WITH published <- held, copy <- receiver

ImplementsReplica == Promise!Spec
=============================================================================
