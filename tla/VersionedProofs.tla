-------------------------- MODULE VersionedProofs --------------------------
(***************************************************************************)
(* What Versioned guarantees for every T, every number of senders and any  *)
(* behaviour of the transport, by itself and within Recovery.              *)
(*                                                                         *)
(* A resend may be owed for a refusal that came before another resend was  *)
(* installed, so Recovery's Resend is not always a step of Versioned; but  *)
(* it only sends what a sender holds, and Versioned's invariants survive.  *)
(***************************************************************************)
EXTENDS Recovery, TLAPS

-----------------------------------------------------------------------------
(* Type correctness *)

\* What apply_delta makes of a value of the type is a value of the type.
LEMMA AppliedType ==
  ASSUME TypeOK, NEW m \in net
  PROVE  Applied(m).value \in Value
<1>1. m.delta \in DeltaSet /\ receiver.value \in Value
  BY DEF TypeOK, VersionedDelta, VersionedValue
<1>2. PICK old \in Value, new \in Value :
        m.delta = Diff(old, new) /\ Diff(old, new) # None
  BY <1>1 DEF DeltaSet
<1> QED
  BY <1>1, <1>2, ApplyAssumption DEF Applied

\* Every step of Versioned, and Init before it, keeps each variable in the
\* type of its Rust counterpart: versions within the bound, deltas that
\* Delta::delta returned, values of T.
LEMMA TypeInductive ==
  ASSUME TypeOK, [Next]_vars
  PROVE  TypeOK'
<1> USE DEF TypeOK
<1>1. ASSUME NEW s \in Senders, NEW new \in Value, CommitChange(s, new)
      PROVE  TypeOK'
  <2> DEFINE old == sender[s].value
             version == sender[s].version
  <2>1. old \in Value /\ version \in Version /\ version + 1 \in Version
    BY <1>1, BoundsAssumption DEF CommitChange, VersionedValue, Version
  <2>2. CommitMessage(s, old, new, version) \in VersionedDelta
    BY <1>1, <2>1
    DEF CommitChange, CommitMessage, VersionedDelta, DeltaSet, Print64
  <2>3. sender' \in [Senders -> VersionedValue]
    BY <1>1, <2>1 DEF CommitChange, VersionedValue
  <2>4. held' \in [Senders -> [Version -> SUBSET Value]]
    BY <1>1, <2>1 DEF CommitChange, Hold
  <2>5. net' \subseteq VersionedDelta
    BY <1>1, <2>2 DEF CommitChange
  <2> QED
    BY <1>1, <2>3, <2>4, <2>5 DEF CommitChange
<1>2. ASSUME NEW s \in Senders, NEW new \in Value, CommitNothing(s, new)
      PROVE  TypeOK'
  <2>1. sender[s] \in VersionedValue
    OBVIOUS
  <2>2. sender' \in [Senders -> VersionedValue]
    BY <1>2, <2>1 DEF CommitNothing, VersionedValue
  <2>3. held' \in [Senders -> [Version -> SUBSET Value]]
    BY <1>2, <2>1 DEF CommitNothing, Hold, VersionedValue
  <2> QED
    BY <1>2, <2>2, <2>3 DEF CommitNothing
<1>3. ASSUME NEW m \in net, Apply(m)
      PROVE  receiver' \in VersionedValue /\ trusted' \in BOOLEAN
  <2>1. Applied(m).value \in Value /\ m.to \in Version
    BY AppliedType DEF VersionedDelta
  <2>2. CASE ApplyStale(m) \/ RejectEarly(m)
    BY <2>2 DEF ApplyStale, RejectEarly
  <2>3. CASE RejectLate(m)
    BY <2>1, <2>3 DEF RejectLate, VersionedValue
  <2>4. CASE ApplyUpdate(m)
    BY <2>1, <2>4 DEF ApplyUpdate, VersionedValue
  <2> QED
    BY <1>3, <2>2, <2>3, <2>4 DEF Apply
<1>4. ASSUME NEW m \in net, Deliver(m) \/ Duplicate(m) \/ Lose(m)
      PROVE  TypeOK'
  BY <1>3, <1>4 DEF Deliver, Duplicate, Lose
<1>5. ASSUME NEW s \in Senders, SendSnapshot(s)
      PROVE  TypeOK'
  BY <1>5 DEF SendSnapshot
<1>6. ASSUME NEW whole \in snapshots, NEW keep \in BOOLEAN,
             InstallSnapshot(whole, keep)
      PROVE  TypeOK'
  BY <1>6 DEF InstallSnapshot
<1>7. CASE UNCHANGED vars
  BY <1>7 DEF vars
<1> QED
  BY <1>1, <1>2, <1>4, <1>5, <1>6, <1>7 DEF Next, Commit

LEMMA TypeInit == Init => TypeOK
BY InitialAssumption, BoundsAssumption
DEF Init, TypeOK, NewVersioned, VersionedValue, Version

\* The state of both ends, the transport and the history always has its type.
THEOREM TypeCorrect == Spec => []TypeOK
BY TypeInit, TypeInductive, PTL DEF Spec

-----------------------------------------------------------------------------
(* Fingerprint agreement                                                   *)
(*                                                                         *)
(* FingerprintAgrees is not inductive: an accepted delta brings its result *)
(* fingerprint, a resend its value, and neither is related to what senders *)
(* held unless everything in flight is.                                    *)

\* A sender's own value is on record, under its version.
SendersOnRecord ==
  \A s \in Senders : sender[s].value \in held[s][sender[s].version]

\* A delta promises the fingerprint of what its writer held at its version.
DeltasOnRecord ==
  \A m \in net : \E v \in held[m.writer][m.to] : Fp(v) = m.result

\* A resend in flight is something a sender held at that version.
ResendsOnRecord ==
  \A whole \in snapshots : \E s \in Senders :
    whole.value \in held[s][whole.version]

OnRecord == SendersOnRecord /\ DeltasOnRecord /\ ResendsOnRecord

AgreementInv == TypeOK /\ OnRecord /\ FingerprintAgrees

\* The history only grows.
LEMMA HeldGrows ==
  ASSUME TypeOK, [Next]_vars, NEW s \in Senders, NEW v \in Version
  PROVE  held[s][v] \subseteq held'[s][v]
<1>1. ASSUME NEW t \in Senders, NEW w \in Version, NEW value \in Value,
             Hold(t, w, value)
      PROVE  held[s][v] \subseteq held'[s][v]
  BY <1>1 DEF Hold, TypeOK
<1>2. ASSUME NEW t \in Senders, NEW new \in Value, Commit(t, new)
      PROVE  held[s][v] \subseteq held'[s][v]
  <2>1. sender[t].version \in Version
    BY DEF TypeOK, VersionedValue
  <2>2. CASE CommitChange(t, new)
    <3>1. sender[t].version + 1 \in Version
      BY <2>1, <2>2, BoundsAssumption DEF CommitChange, Version
    <3> QED
      BY <1>1, <2>2, <3>1 DEF CommitChange
  <2>3. CASE CommitNothing(t, new)
    BY <1>1, <2>1, <2>3 DEF CommitNothing
  <2> QED
    BY <1>2, <2>2, <2>3 DEF Commit
<1>3. CASE UNCHANGED held
  BY <1>3
<1> QED
  BY <1>2, <1>3 DEF Next, Deliver, Duplicate, Lose, SendSnapshot,
                    InstallSnapshot, vars

\* A commit puts its value on record before anything else can refer to it.
LEMMA CommitOnRecord ==
  ASSUME TypeOK, OnRecord, NEW s \in Senders, NEW new \in Value, Commit(s, new)
  PROVE  OnRecord'
<1> DEFINE old == sender[s].value
           version == sender[s].version
<1>1. old \in Value /\ version \in Version
  BY DEF TypeOK, VersionedValue
<1>2. \A t \in Senders, v \in Version : held[t][v] \subseteq held'[t][v]
  BY HeldGrows DEF Next
<1>3. /\ \A m \in net : m.writer \in Senders /\ m.to \in Version
      /\ \A whole \in snapshots : whole.version \in Version
      /\ \A t \in Senders : sender[t].version \in Version
  BY DEF TypeOK, VersionedDelta, VersionedValue
<1>4. \A m \in net : \E v \in held'[m.writer][m.to] : Fp(v) = m.result
  BY <1>2, <1>3 DEF OnRecord, DeltasOnRecord
<1>5. \A whole \in snapshots : \E t \in Senders :
        whole.value \in held'[t][whole.version]
  BY <1>2, <1>3 DEF OnRecord, ResendsOnRecord
<1>6. snapshots' = snapshots
  BY DEF Commit, CommitChange, CommitNothing
<1>7. CASE CommitChange(s, new)
  <2>1. version + 1 \in Version
    BY <1>1, <1>7, BoundsAssumption DEF CommitChange, Version
  <2>2. new \in held'[s][version + 1]
    BY <1>7, <2>1 DEF CommitChange, Hold, TypeOK
  <2>3. sender'[s] = [value |-> new, version |-> version + 1]
    BY <1>7 DEF CommitChange, TypeOK
  <2>4. \A t \in Senders \ {s} : sender'[t] = sender[t]
    BY <1>7 DEF CommitChange, TypeOK
  <2>5. SendersOnRecord'
    BY <1>2, <1>3, <2>2, <2>3, <2>4 DEF OnRecord, SendersOnRecord
  <2>6. DeltasOnRecord'
    BY <1>4, <1>7, <2>2 DEF CommitChange, CommitMessage, DeltasOnRecord
  <2> QED
    BY <1>5, <1>6, <2>5, <2>6 DEF OnRecord, ResendsOnRecord
<1>8. CASE CommitNothing(s, new)
  <2>1. new \in held'[s][version]
    BY <1>1, <1>8 DEF CommitNothing, Hold, TypeOK
  <2>2. sender'[s].value = new /\ sender'[s].version = version
    BY <1>8 DEF CommitNothing, TypeOK, VersionedValue
  <2>3. \A t \in Senders \ {s} : sender'[t] = sender[t]
    BY <1>8 DEF CommitNothing, TypeOK
  <2>4. SendersOnRecord'
    BY <1>2, <1>3, <2>1, <2>2, <2>3 DEF OnRecord, SendersOnRecord
  <2>5. DeltasOnRecord'
    BY <1>4, <1>8 DEF CommitNothing, DeltasOnRecord
  <2> QED
    BY <1>5, <1>6, <2>4, <2>5 DEF OnRecord, ResendsOnRecord
<1> QED
  BY <1>7, <1>8 DEF Commit

\* What apply leaves in a receiver nobody refused was promised by a delta.
LEMMA ApplyAgrees ==
  ASSUME TypeOK, OnRecord, FingerprintAgrees, NEW m \in net, Apply(m),
         UNCHANGED held
  PROVE  FingerprintAgrees'
<1>1. CASE ApplyStale(m)
  BY <1>1 DEF ApplyStale, FingerprintAgrees
<1>2. CASE RejectEarly(m) \/ RejectLate(m)
  BY <1>2 DEF RejectEarly, RejectLate, FingerprintAgrees
<1>3. CASE ApplyUpdate(m)
  <2>1. receiver'.version = m.to /\ Fp(receiver'.value) = m.result
    BY <1>3 DEF ApplyUpdate, Updates
  <2>2. m.writer \in Senders
    BY DEF TypeOK, VersionedDelta
  <2>3. \E v \in held[m.writer][m.to] : Fp(v) = m.result
    BY DEF OnRecord, DeltasOnRecord
  <2> QED
    BY <2>1, <2>2, <2>3 DEF FingerprintAgrees
<1> QED
  BY <1>1, <1>2, <1>3 DEF Apply

LEMMA AgreementInductive == AgreementInv /\ [Next]_vars => AgreementInv'
<1> SUFFICES ASSUME TypeOK, OnRecord, FingerprintAgrees, [Next]_vars
             PROVE  AgreementInv'
  BY DEF AgreementInv
<1>1. TypeOK'
  BY TypeInductive
<1>2. CASE \E s \in Senders, new \in Value : Commit(s, new)
  <2>1. OnRecord'
    BY <1>2, CommitOnRecord
  <2>2. UNCHANGED <<receiver, trusted>>
    BY <1>2 DEF Commit, CommitChange, CommitNothing
  <2>3. receiver.version \in Version
    BY DEF TypeOK, VersionedValue
  <2>4. FingerprintAgrees'
    BY <2>2, <2>3, HeldGrows DEF FingerprintAgrees
  <2> QED
    BY <1>1, <2>1, <2>4 DEF AgreementInv
<1>3. CASE \E m \in net : Deliver(m) \/ Duplicate(m) \/ Lose(m)
  <2>1. /\ UNCHANGED <<sender, snapshots, held>>
        /\ net' \subseteq net
    BY <1>3 DEF Deliver, Duplicate, Lose
  <2>2. OnRecord'
    BY <2>1 DEF OnRecord, SendersOnRecord, DeltasOnRecord, ResendsOnRecord
  <2>3. FingerprintAgrees'
    BY <1>3, <2>1, ApplyAgrees DEF Deliver, Duplicate, Lose, FingerprintAgrees
  <2> QED
    BY <1>1, <2>2, <2>3 DEF AgreementInv
<1>4. CASE \E s \in Senders : SendSnapshot(s)
  <2>1. PICK s \in Senders : SendSnapshot(s)
    BY <1>4
  <2>2. ResendsOnRecord'
    BY <2>1 DEF SendSnapshot, OnRecord, SendersOnRecord, ResendsOnRecord
  <2> QED
    BY <1>1, <2>1, <2>2 DEF SendSnapshot, OnRecord, SendersOnRecord,
       DeltasOnRecord, FingerprintAgrees, AgreementInv
<1>5. CASE \E whole \in snapshots, keep \in BOOLEAN :
             InstallSnapshot(whole, keep)
  <2>1. PICK whole \in snapshots, keep \in BOOLEAN :
          InstallSnapshot(whole, keep)
    BY <1>5
  <2>2. UNCHANGED <<sender, net, held>> /\ snapshots' \subseteq snapshots
    BY <2>1 DEF InstallSnapshot
  <2>3. OnRecord'
    BY <2>2 DEF OnRecord, SendersOnRecord, DeltasOnRecord, ResendsOnRecord
  <2>4. FingerprintAgrees'
    BY <2>1 DEF InstallSnapshot, OnRecord, ResendsOnRecord, FingerprintAgrees
  <2> QED
    BY <1>1, <2>3, <2>4 DEF AgreementInv
<1>6. CASE UNCHANGED vars
  BY <1>1, <1>6 DEF vars, AgreementInv, OnRecord, SendersOnRecord,
     DeltasOnRecord, ResendsOnRecord, FingerprintAgrees
<1> QED
  BY <1>2, <1>3, <1>4, <1>5, <1>6 DEF Next

LEMMA AgreementInit == Init => AgreementInv
<1> SUFFICES ASSUME Init PROVE AgreementInv
  OBVIOUS
<1>1. 0 \in Version
  BY BoundsAssumption DEF Version
<1>2. OnRecord
  BY <1>1 DEF Init, NewVersioned, OnRecord, SendersOnRecord, DeltasOnRecord,
              ResendsOnRecord
<1>3. FingerprintAgrees
  BY DEF Init, NewVersioned, FingerprintAgrees
<1> QED
  BY <1>2, <1>3, TypeInit DEF AgreementInv

THEOREM AgreementInvariant == Spec => []AgreementInv
BY AgreementInit, AgreementInductive, PTL DEF Spec

\* Past version 0 an unrefused receiver has the fingerprint of a value held by
\* some sender at exactly its version: for every type, every hash, every start
\* of the receiver, any number of writers and any transport.
THEOREM FingerprintAgreement == Spec => []FingerprintAgrees
<1>1. AgreementInv => FingerprintAgrees
  BY DEF AgreementInv
<1> QED
  BY <1>1, AgreementInvariant, PTL

-----------------------------------------------------------------------------
(* Agreement of the values *)

\* The fingerprint has no collision among the values of the type.
FpInjective == \A v, w \in Value : Fp(v) = Fp(w) => v = w

LEMMA AgreementIsIdentity ==
  ASSUME FpInjective, TypeOK, FingerprintAgrees
  PROVE  InStep
<1> SUFFICES ASSUME trusted, receiver.version > 0
             PROVE  \E s \in Senders :
                      receiver.value \in held[s][receiver.version]
  BY DEF InStep
<1>0. PICK s \in Senders :
        \E v \in held[s][receiver.version] : Fp(v) = Fp(receiver.value)
  BY DEF FingerprintAgrees
<1>1. PICK v \in held[s][receiver.version] : Fp(v) = Fp(receiver.value)
  BY <1>0
<1>2. receiver.value \in Value /\ receiver.version \in Version
  BY DEF TypeOK, VersionedValue
<1>3. v \in Value
  BY <1>1, <1>2 DEF TypeOK
<1> QED
  BY <1>1, <1>2, <1>3 DEF FpInjective

\* Where no two values share a fingerprint, an unrefused receiver past version
\* 0 holds a value that a sender held at that version.
THEOREM ReceiverInStep == ASSUME FpInjective PROVE Spec => []InStep
<1>1. AgreementInv => InStep
  BY AgreementIsIdentity DEF AgreementInv
<1> QED
  BY <1>1, AgreementInvariant, PTL

-----------------------------------------------------------------------------
(* Refusals *)

\* The contract of the Delta trait: nothing to send means nothing differs,
\* and applying delta(old, new) to old succeeds and yields new.
DeltaContract ==
  \A old, new \in Value :
    /\ Diff(old, new) = None => old = new
    /\ Diff(old, new) # None =>
         /\ ApplyDelta(old, Diff(old, new)).ok = TRUE
         /\ ApplyDelta(old, Diff(old, new)).value = new

\* A delta in flight describes the step between the values it fingerprints.
Describes(m, old, new) ==
  /\ m.base = Fp(old) /\ m.result = Fp(new)
  /\ m.delta = Diff(old, new) /\ Diff(old, new) # None

DeltasDescribe ==
  \A m \in net : \E old, new \in Value : Describes(m, old, new)

RefusalInv == TypeOK /\ DeltasDescribe

LEMMA RefusalInductive == RefusalInv /\ [Next]_vars => RefusalInv'
<1> SUFFICES ASSUME TypeOK, DeltasDescribe, [Next]_vars
             PROVE  DeltasDescribe'
  BY TypeInductive DEF RefusalInv
<1>1. ASSUME NEW s \in Senders, NEW new \in Value, CommitChange(s, new)
      PROVE  DeltasDescribe'
  <2> DEFINE old == sender[s].value
             sent == CommitMessage(s, old, new, sender[s].version)
  <2>1. old \in Value
    BY DEF TypeOK, VersionedValue
  <2>2. Describes(sent, old, new)
    BY <1>1 DEF CommitChange, CommitMessage, Describes
  <2>3. net' = net \cup {sent}
    BY <1>1 DEF CommitChange
  <2> HIDE DEF old, sent
  <2> QED
    BY <2>1, <2>2, <2>3 DEF DeltasDescribe, Describes
<1>2. CASE net' \subseteq net
  BY <1>2 DEF DeltasDescribe, Describes
<1> QED
  BY <1>1, <1>2 DEF Next, Commit, CommitNothing, Deliver, Duplicate, Lose,
                    SendSnapshot, InstallSnapshot, vars

\* A delta that fits by its fingerprint meets the value it was made for.
LEMMA FittingDeltaUpdates ==
  ASSUME FpInjective, DeltaContract, TypeOK, DeltasDescribe, NEW m \in net
  PROVE  ~ Misfit(m) /\ ~ WrongResult(m)
<1> SUFFICES ASSUME Fits(m) PROVE Updates(m)
  BY DEF Misfit, WrongResult, Updates
<1>1. PICK old \in Value, new \in Value : Describes(m, old, new)
  BY DEF DeltasDescribe
<1>2. receiver.value = old
  BY <1>1 DEF Fits, WrongBase, Describes, FpInjective, TypeOK, VersionedValue
<1>3. Applied(m).ok = TRUE /\ Applied(m).value = new
  BY <1>1, <1>2 DEF Applied, Describes, DeltaContract
<1> QED
  BY <1>1, <1>3 DEF Updates, Describes

\* Where fingerprints tell values apart and the type keeps the contract of
\* Delta, a refusal never changes the receiver, whoever writes to the stream
\* and wherever the receiver started.
THEOREM RefusalsAreClean ==
  ASSUME FpInjective, DeltaContract
  PROVE  Spec => RefusalTouchesNothing
<1>1. Init => RefusalInv
  BY TypeInit DEF Init, RefusalInv, DeltasDescribe
<1>2. RefusalInv /\ [Next]_vars =>
        [(trusted /\ ~ trusted') => receiver' = receiver]_vars
  <2> SUFFICES ASSUME TypeOK, DeltasDescribe, Next, trusted, ~ trusted'
               PROVE  receiver' = receiver
    BY DEF RefusalInv, vars
  <2>1. PICK m \in net : Apply(m)
    BY DEF Next, Commit, CommitChange, CommitNothing, Deliver, Duplicate, Lose,
           SendSnapshot, InstallSnapshot
  <2>2. ~ RejectLate(m)
    BY FittingDeltaUpdates DEF RejectLate
  <2> QED
    BY <2>1, <2>2 DEF Apply, ApplyStale, RejectEarly, ApplyUpdate
<1> QED
  BY <1>1, <1>2, RefusalInductive, PTL DEF Spec, RefusalTouchesNothing

-----------------------------------------------------------------------------
(* No false alarm *)

\* One value per version: nothing is replaced without a new number.
OneValuePerVersion ==
  \A s \in Senders, v \in Version : \A x, y \in held[s][v] : x = y

NothingAhead ==
  \A s \in Senders, v \in Version : v > sender[s].version => held[s][v] = {}

\* A delta in flight leads from its writer's value at from to that at to.
DeltasLink ==
  \A m \in net : \E old \in held[m.writer][m.from] :
    \E new \in held[m.writer][m.to] : Describes(m, old, new)

\* The receiver, refused or not, holds its sender's value at its version.
ReceiverOnRecord ==
  \E s \in Senders : receiver.value \in held[s][receiver.version]

Lineage ==
  /\ TypeOK /\ SendersOnRecord /\ ResendsOnRecord
  /\ OneValuePerVersion /\ NothingAhead
  /\ DeltasLink /\ ReceiverOnRecord

LEMMA LineageMeansNoFalseAlarm ==
  ASSUME DeltaContract, NEW w, Senders = {w}, Lineage, NEW m \in net
  PROVE  /\ ~ WrongBase(m) /\ ~ Misfit(m) /\ ~ WrongResult(m)
         /\ Updates(m) => Applied(m).value \in held[w][m.to]
<1> SUFFICES ASSUME ~ Stale(m), ~ Gap(m)
             PROVE  /\ ~ WrongBase(m) /\ Updates(m)
                    /\ Applied(m).value \in held[w][m.to]
  BY DEF WrongBase, Misfit, WrongResult, Updates, Fits
<1>1. m.writer = w /\ m.from \in Version /\ m.to \in Version
  BY DEF Lineage, TypeOK, VersionedDelta
<1>2. PICK old \in held[w][m.from] :
        \E new \in held[w][m.to] : Describes(m, old, new)
  BY <1>1 DEF Lineage, DeltasLink
<1>3. PICK new \in held[w][m.to] : Describes(m, old, new)
  BY <1>2
<1>4. old \in Value /\ new \in Value
  BY <1>1 DEF Lineage, TypeOK
<1>5. receiver.value = old
  BY <1>1 DEF Gap, Stale, Lineage, ReceiverOnRecord, OneValuePerVersion
<1>6. Applied(m).ok = TRUE /\ Applied(m).value = new
  BY <1>3, <1>4, <1>5 DEF Applied, Describes, DeltaContract
<1>7. ~ WrongBase(m)
  BY <1>3, <1>5 DEF WrongBase, Describes
<1> QED
  BY <1>3, <1>6, <1>7 DEF Updates, Fits, Describes

\* A commit keeps the lineage: a new number for a new value, or, where nothing
\* differs, the same value again.
LEMMA LineageCommit ==
  ASSUME DeltaContract, Lineage, NEW s \in Senders, NEW new \in Value,
         Commit(s, new)
  PROVE  Lineage'
<1> DEFINE old == sender[s].value
           version == sender[s].version
<1>1. /\ old \in Value /\ version \in Version /\ TypeOK
      /\ old \in held[s][version]
  BY DEF Lineage, TypeOK, VersionedValue, SendersOnRecord
<1>2. UNCHANGED <<receiver, snapshots>>
  BY DEF Commit, CommitChange, CommitNothing
<1>3. TypeOK'
  BY <1>1, TypeInductive DEF Next
<1>4. \A t \in Senders, v \in Version : held[t][v] \subseteq held'[t][v]
  BY <1>1, HeldGrows DEF Next
<1>5. CASE CommitNothing(s, new)
  <2>1. new = old
    BY <1>1, <1>5 DEF CommitNothing, DeltaContract
  <2>2. held' = held
    BY <1>1, <1>5, <2>1 DEF CommitNothing, Hold, TypeOK
  <2>3. sender' = sender
    BY <1>1, <1>5, <2>1 DEF CommitNothing, TypeOK, VersionedValue
  <2>4. net' = net
    BY <1>5 DEF CommitNothing
  <2> QED
    BY <1>2, <1>3, <2>2, <2>3, <2>4 DEF Lineage, SendersOnRecord,
       ResendsOnRecord, OneValuePerVersion, NothingAhead, DeltasLink, Describes,
       ReceiverOnRecord
<1>6. CASE CommitChange(s, new)
  <2> DEFINE sent == CommitMessage(s, old, new, version)
  <2>1. version + 1 \in Version
    BY <1>1, <1>6, BoundsAssumption DEF CommitChange, Version
  <2>2. held[s][version + 1] = {}
    BY <1>1, <2>1 DEF Lineage, NothingAhead, Version
  <2>3. /\ held'[s][version + 1] = {new}
        /\ \A t \in Senders, v \in Version :
             (t # s \/ v # version + 1) => held'[t][v] = held[t][v]
    BY <1>1, <1>6, <2>1, <2>2 DEF CommitChange, Hold, TypeOK
  <2>4. /\ sender'[s] = [value |-> new, version |-> version + 1]
        /\ \A t \in Senders \ {s} : sender'[t] = sender[t]
    BY <1>1, <1>6 DEF CommitChange, TypeOK
  <2>5. \A t \in Senders : sender[t].version \in Version
    BY <1>1 DEF TypeOK, VersionedValue
  <2>6. SendersOnRecord'
    BY <2>1, <2>3, <2>4, <2>5, <1>4 DEF Lineage, SendersOnRecord
  <2>7. ResendsOnRecord'
    BY <1>1, <1>2, <1>4 DEF Lineage, ResendsOnRecord, TypeOK, VersionedValue
  <2>8. OneValuePerVersion'
    BY <2>3 DEF Lineage, OneValuePerVersion
  <2>9. NothingAhead'
    <3> SUFFICES ASSUME NEW t \in Senders, NEW v \in Version,
                        v > sender'[t].version
                 PROVE  held'[t][v] = {}
      BY DEF NothingAhead
    <3>1. v > sender[t].version /\ (t # s \/ v # version + 1)
      BY <1>1, <2>4 DEF Version
    <3> QED
      BY <2>3, <3>1 DEF Lineage, NothingAhead
  <2>10. DeltasLink'
    <3>1. net' = net \cup {sent}
      BY <1>6 DEF CommitChange
    <3>2. /\ Describes(sent, old, new) /\ sent.writer = s
          /\ sent.from = version /\ sent.to = version + 1
      BY <1>6 DEF CommitChange, CommitMessage, Describes
    <3>3. old \in held'[s][version] /\ new \in held'[s][version + 1]
      BY <1>1, <1>4, <2>3
    <3>4. \A m \in net : m.writer \in Senders /\ m.from \in Version
                         /\ m.to \in Version
      BY <1>1 DEF TypeOK, VersionedDelta
    <3>5. \A m \in net : \E o \in held'[m.writer][m.from] :
            \E n \in held'[m.writer][m.to] : Describes(m, o, n)
      BY <1>4, <3>4 DEF Lineage, DeltasLink
    <3> HIDE DEF sent, old, version
    <3> QED
      BY <3>1, <3>2, <3>3, <3>5 DEF DeltasLink, Describes
  <2>11. ReceiverOnRecord'
    BY <1>1, <1>2, <1>4 DEF Lineage, ReceiverOnRecord, TypeOK, VersionedValue
  <2> QED
    BY <1>3, <2>6, <2>7, <2>8, <2>9, <2>10, <2>11 DEF Lineage
<1> QED
  BY <1>5, <1>6 DEF Commit

LEMMA LineageInductive ==
  ASSUME DeltaContract, NEW w, Senders = {w}
  PROVE  Lineage /\ [Next]_vars => Lineage'
<1> SUFFICES ASSUME Lineage, [Next]_vars PROVE Lineage'
  OBVIOUS
<1>1. TypeOK /\ TypeOK'
  BY TypeInductive DEF Lineage
<1>2. CASE \E s \in Senders, new \in Value : Commit(s, new)
  BY <1>2, LineageCommit
<1>3. CASE \E m \in net : Deliver(m) \/ Duplicate(m) \/ Lose(m)
  <2>1. UNCHANGED <<sender, snapshots, held>> /\ net' \subseteq net
    BY <1>3 DEF Deliver, Duplicate, Lose
  <2>2. PICK m \in net : Apply(m) \/ Lose(m)
    BY <1>3 DEF Deliver, Duplicate
  <2>3. ReceiverOnRecord'
    <3>1. CASE UNCHANGED receiver
      BY <2>1, <3>1 DEF Lineage, ReceiverOnRecord
    <3>2. CASE ApplyUpdate(m)
      <4>1. receiver' = [value |-> Applied(m).value, version |-> m.to]
        BY <3>2 DEF ApplyUpdate
      <4>2. Applied(m).value \in held[w][m.to]
        BY <3>2, LineageMeansNoFalseAlarm DEF ApplyUpdate
      <4> QED
        BY <2>1, <4>1, <4>2 DEF ReceiverOnRecord
    <3>3. ~ RejectLate(m)
      BY LineageMeansNoFalseAlarm DEF RejectLate
    <3> QED
      BY <2>2, <3>1, <3>2, <3>3 DEF Apply, ApplyStale, RejectEarly, Lose
  <2> QED
    BY <1>1, <2>1, <2>3 DEF Lineage, SendersOnRecord, ResendsOnRecord,
       OneValuePerVersion, NothingAhead, DeltasLink, Describes
<1>4. CASE \E s \in Senders : SendSnapshot(s)
  <2>1. PICK s \in Senders : SendSnapshot(s)
    BY <1>4
  <2>2. UNCHANGED <<sender, receiver, net, held>>
        /\ snapshots' = snapshots \cup {sender[s]}
    BY <2>1 DEF SendSnapshot
  <2>3. ResendsOnRecord'
    BY <2>2 DEF Lineage, SendersOnRecord, ResendsOnRecord
  <2> QED
    BY <1>1, <2>2, <2>3 DEF Lineage, SendersOnRecord, ReceiverOnRecord,
       OneValuePerVersion, NothingAhead, DeltasLink, Describes
<1>5. CASE \E whole \in snapshots, keep \in BOOLEAN :
             InstallSnapshot(whole, keep)
  <2>1. PICK whole \in snapshots, keep \in BOOLEAN :
          InstallSnapshot(whole, keep)
    BY <1>5
  <2>2. UNCHANGED <<sender, net, held>> /\ snapshots' \subseteq snapshots
        /\ receiver' = whole
    BY <2>1 DEF InstallSnapshot
  <2>3. ReceiverOnRecord' /\ ResendsOnRecord'
    BY <2>2 DEF Lineage, ResendsOnRecord, ReceiverOnRecord
  <2> QED
    BY <1>1, <2>2, <2>3 DEF Lineage, SendersOnRecord, OneValuePerVersion,
       NothingAhead, DeltasLink, Describes
<1>6. CASE UNCHANGED vars
  BY <1>1, <1>6 DEF vars, Lineage, SendersOnRecord, ResendsOnRecord,
     OneValuePerVersion, NothingAhead, DeltasLink, Describes, ReceiverOnRecord
<1> QED
  BY <1>2, <1>3, <1>4, <1>5, <1>6 DEF Next

LEMMA LineageInit ==
  ASSUME NEW w, Senders = {w}, Starts = {Initial}
  PROVE  Init => Lineage
<1> SUFFICES ASSUME Init PROVE Lineage
  OBVIOUS
<1>1. 0 \in Version
  BY BoundsAssumption DEF Version
<1>2. SendersOnRecord /\ ReceiverOnRecord
  BY <1>1 DEF Init, NewVersioned, SendersOnRecord, ReceiverOnRecord
<1>3. OneValuePerVersion /\ NothingAhead
  BY <1>1 DEF Init, NewVersioned, OneValuePerVersion, NothingAhead, Version
<1>4. ResendsOnRecord /\ DeltasLink
  BY DEF Init, ResendsOnRecord, DeltasLink
<1> QED
  BY <1>2, <1>3, <1>4, TypeInit DEF Lineage

\* With one sender, ends that start alike and a type that keeps the contract
\* of Delta, no delta is ever met by Base, Result or Apply, whatever the hash
\* and whatever the transport does: each of the three means real drift.
THEOREM RefusalsMeanDrift ==
  ASSUME DeltaContract, NEW w, Senders = {w}, Starts = {Initial}
  PROVE  Spec => []NoFalseAlarm
<1>1. Lineage => NoFalseAlarm
  BY LineageMeansNoFalseAlarm DEF NoFalseAlarm
<1> QED
  BY <1>1, LineageInit, LineageInductive, PTL DEF Spec

-----------------------------------------------------------------------------
(* Versioned implements Replica, for every T whose fingerprint has no *)
(* collision, any number of senders and any transport *)

\* Deltas in flight span one version: what lets Ok(Updated) be an Advance.
DeltasStepByOne == \A m \in net : m.to = m.from + 1

ReplicaInv == AgreementInv /\ NothingAhead /\ DeltasStepByOne

\* A commit publishes at its sender's last version or the next.
LEMMA CommitPublishes ==
  ASSUME ReplicaInv, NEW s \in Senders, NEW new \in Value, Commit(s, new)
  PROVE  /\ Promise!Publish(s, new)
         /\ NothingAhead' /\ DeltasStepByOne'
<1> DEFINE version == sender[s].version
<1>1. /\ TypeOK /\ version \in Version
      /\ sender[s].value \in held[s][version]
  BY DEF ReplicaInv, AgreementInv, OnRecord, SendersOnRecord, TypeOK,
         VersionedValue
<1>2. Promise!Latest(s, version)
  BY <1>1 DEF ReplicaInv, NothingAhead, Promise!Latest, Version
<1>3. \A t \in Senders : sender[t].version \in Version
  BY <1>1 DEF TypeOK, VersionedValue
<1>4. CASE CommitChange(s, new)
  <2>1. /\ version + 1 \in Version
        /\ held' = [held EXCEPT ![s][version + 1] = @ \cup {new}]
        /\ UNCHANGED <<receiver, trusted>>
    BY <1>1, <1>4, BoundsAssumption DEF CommitChange, Hold, Version
  <2>2. Promise!Publish(s, new)
    BY <1>1, <1>2, <2>1 DEF Promise!Publish, Version
  <2>3. /\ sender'[s].version = version + 1
        /\ \A t \in Senders \ {s} : sender'[t] = sender[t]
    BY <1>1, <1>4 DEF CommitChange, TypeOK
  <2>4. NothingAhead'
    <3> SUFFICES ASSUME NEW t \in Senders, NEW v \in Version,
                        v > sender'[t].version
                 PROVE  held'[t][v] = {}
      BY DEF NothingAhead
    <3>1. v > sender[t].version /\ (t # s \/ v # version + 1)
      BY <1>3, <2>3 DEF Version
    <3>2. held[t][v] = {}
      BY <3>1 DEF ReplicaInv, NothingAhead
    <3> QED
      BY <1>1, <2>1, <3>1, <3>2 DEF TypeOK
  <2>5. DeltasStepByOne'
    BY <1>4 DEF CommitChange, CommitMessage, ReplicaInv, DeltasStepByOne
  <2> QED
    BY <2>2, <2>4, <2>5
<1>5. CASE CommitNothing(s, new)
  <2>1. /\ held' = [held EXCEPT ![s][version] = @ \cup {new}]
        /\ UNCHANGED <<receiver, trusted, net>>
    BY <1>5 DEF CommitNothing, Hold
  <2>2. Promise!Publish(s, new)
    BY <1>1, <1>2, <2>1 DEF Promise!Publish, Version
  <2>3. \A t \in Senders : sender'[t].version = sender[t].version
    BY <1>1, <1>5 DEF CommitNothing, TypeOK, VersionedValue
  <2>4. NothingAhead'
    BY <1>1, <1>3, <2>1, <2>3 DEF ReplicaInv, NothingAhead, TypeOK, Version
  <2> QED
    BY <2>1, <2>2, <2>4 DEF ReplicaInv, DeltasStepByOne
<1> QED
  BY <1>4, <1>5 DEF Commit

\* Each verdict of apply is a step of the copy, or leaves it alone.
LEMMA ApplyAdvancesOrRefuses ==
  ASSUME FpInjective, ReplicaInv, NEW m \in net, Apply(m), UNCHANGED held
  PROVE  \/ UNCHANGED <<receiver, trusted>>
         \/ Promise!Advance
         \/ Promise!Refuse
<1>1. TypeOK /\ receiver.value \in Value /\ receiver.version \in Version
  BY DEF ReplicaInv, AgreementInv, TypeOK, VersionedValue
<1>2. Applied(m).value \in Value
  BY <1>1, AppliedType
<1>3. CASE ApplyStale(m)
  BY <1>3 DEF ApplyStale
<1>4. CASE RejectEarly(m)
  <2>1. receiver' = [receiver EXCEPT !.value = receiver.value]
    BY <1>1, <1>4 DEF RejectEarly, TypeOK, VersionedValue
  <2> QED
    BY <1>1, <1>4, <2>1 DEF RejectEarly, Promise!Refuse
<1>5. CASE RejectLate(m)
  BY <1>2, <1>5 DEF RejectLate, Promise!Refuse
<1>6. CASE ApplyUpdate(m)
  <2>1. /\ m.to = receiver.version + 1
        /\ m.to \in Version /\ m.writer \in Senders
    BY <1>1, <1>6 DEF ApplyUpdate, Updates, Fits, Gap, ReplicaInv,
       DeltasStepByOne, TypeOK, VersionedDelta
  <2>2. PICK v \in held[m.writer][m.to] : Fp(v) = m.result
    BY DEF ReplicaInv, AgreementInv, OnRecord, DeltasOnRecord
  <2>3. v \in Value
    BY <1>1, <2>1 DEF TypeOK
  <2>4. Applied(m).value = v
    BY <1>2, <1>6, <2>2, <2>3 DEF ApplyUpdate, Updates, FpInjective
  <2>5. Applied(m).value \in Promise!PublishedAs(receiver.version + 1)
    BY <2>1, <2>4 DEF Promise!PublishedAs
  <2>6. receiver.version < MaxVersion
    BY <1>1, <2>1, BoundsAssumption DEF Version
  <2> QED
    BY <1>6, <2>1, <2>5, <2>6 DEF ApplyUpdate, Promise!Advance
<1> QED
  BY <1>3, <1>4, <1>5, <1>6 DEF Apply

LEMMA ReplicaStep ==
  ASSUME FpInjective
  PROVE  ReplicaInv /\ [Next]_vars => ReplicaInv' /\ [Promise!Next]_(Promise!vars)
<1> SUFFICES ASSUME ReplicaInv, [Next]_vars
             PROVE  ReplicaInv' /\ [Promise!Next]_(Promise!vars)
  OBVIOUS
<1>1. AgreementInv'
  BY AgreementInductive DEF ReplicaInv
<1>2. CASE \E s \in Senders, new \in Value : Commit(s, new)
  BY <1>1, <1>2, CommitPublishes DEF Promise!Next, ReplicaInv
<1>3. CASE \E m \in net : Deliver(m) \/ Duplicate(m) \/ Lose(m)
  <2>1. UNCHANGED <<sender, held>> /\ net' \subseteq net
    BY <1>3 DEF Deliver, Duplicate, Lose
  <2>2. NothingAhead' /\ DeltasStepByOne'
    BY <2>1 DEF ReplicaInv, NothingAhead, DeltasStepByOne
  <2>3. PICK m \in net : Apply(m) \/ UNCHANGED <<receiver, trusted>>
    BY <1>3 DEF Deliver, Duplicate, Lose
  <2> QED
    BY <1>1, <2>1, <2>2, <2>3, ApplyAdvancesOrRefuses
    DEF ReplicaInv, Promise!Next, Promise!vars
<1>4. CASE \E s \in Senders : SendSnapshot(s)
  <2>1. UNCHANGED <<sender, receiver, net, trusted, held>>
    BY <1>4 DEF SendSnapshot
  <2> QED
    BY <1>1, <2>1 DEF ReplicaInv, NothingAhead, DeltasStepByOne, Promise!vars
<1>5. CASE \E whole \in snapshots, keep \in BOOLEAN :
             InstallSnapshot(whole, keep)
  <2>1. PICK whole \in snapshots, keep \in BOOLEAN :
          InstallSnapshot(whole, keep)
    BY <1>5
  <2>2. UNCHANGED <<sender, net, held>> /\ receiver' = whole /\ trusted' = TRUE
    BY <2>1 DEF InstallSnapshot
  <2>3. whole \in VersionedValue
    BY DEF ReplicaInv, AgreementInv, TypeOK
  <2>4. whole.value \in Promise!PublishedAs(whole.version)
    BY DEF ReplicaInv, AgreementInv, OnRecord, ResendsOnRecord,
           Promise!PublishedAs
  <2>5. Promise!Refresh
    BY <2>2, <2>3, <2>4 DEF Promise!Refresh, VersionedValue, Version
  <2> QED
    BY <1>1, <2>2, <2>5 DEF ReplicaInv, NothingAhead, DeltasStepByOne,
       Promise!Next
<1>6. CASE UNCHANGED vars
  BY <1>1, <1>6 DEF vars, ReplicaInv, NothingAhead, DeltasStepByOne,
     Promise!vars
<1> QED
  BY <1>2, <1>3, <1>4, <1>5, <1>6 DEF Next

LEMMA ReplicaInit == Init => ReplicaInv /\ Promise!Init
<1> SUFFICES ASSUME Init PROVE ReplicaInv /\ Promise!Init
  OBVIOUS
<1>1. NothingAhead /\ DeltasStepByOne
  BY BoundsAssumption
  DEF Init, NewVersioned, NothingAhead, DeltasStepByOne, Version
<1>2. Promise!Init
  BY DEF Init, NewVersioned, Promise!Init, Version
<1> QED
  BY <1>1, <1>2, AgreementInit DEF ReplicaInv

\* Every behaviour of the two ends and the transport is one of Replica: the
\* copy moves one version at a time onto published states, no refusal moves its
\* version, and only a whole published state brings it back.
THEOREM Refinement == ASSUME FpInjective PROVE Spec => ImplementsReplica
BY ReplicaInit, ReplicaStep, PTL DEF Spec, ImplementsReplica, Promise!Spec

-----------------------------------------------------------------------------
(* Resends *)

LEMMA RecoverySteps ==
  ASSUME RecoveryNext
  PROVE  Next \/ \E s \in Senders : Resend(s)
BY DEF RecoveryNext, Next, Read, LoseEarlier, Install

LEMMA ResendFacts ==
  ASSUME TypeOK, NEW s \in Senders, Resend(s)
  PROVE  /\ UNCHANGED <<sender, receiver, net, trusted, held>>
         /\ snapshots' = {sender[s]} /\ sender[s] \in VersionedValue
         /\ TypeOK'
BY DEF Resend, TypeOK

-----------------------------------------------------------------------------
(* Agreement, with resends *)

LEMMA ResendAgrees ==
  ASSUME AgreementInv, NEW s \in Senders, Resend(s)
  PROVE  AgreementInv'
<1>1. /\ UNCHANGED <<sender, receiver, net, trusted, held>>
      /\ snapshots' = {sender[s]} /\ TypeOK'
  BY ResendFacts DEF AgreementInv
<1>2. SendersOnRecord' /\ DeltasOnRecord' /\ FingerprintAgrees'
  BY <1>1 DEF AgreementInv, OnRecord, SendersOnRecord, DeltasOnRecord, FingerprintAgrees
<1>3. ResendsOnRecord'
  BY <1>1 DEF AgreementInv, OnRecord, SendersOnRecord, ResendsOnRecord
<1> QED
  BY <1>1, <1>2, <1>3 DEF AgreementInv, OnRecord

\* With a resend for every refusal and wherever the receiver started: while it
\* refuses nothing, a receiver past version 0 holds a value its sender held at
\* that version, if fingerprints tell values apart (version.rs:146-178).
THEOREM RecoveredInStep ==
  ASSUME FpInjective
  PROVE  RecoverySpec => []InStep
<1>1. RecoveryInit => AgreementInv
  BY AgreementInit DEF RecoveryInit
<1>2. AgreementInv /\ [RecoveryNext]_recoveryVars => AgreementInv'
  <2>1. CASE RecoveryNext
    BY <2>1, RecoverySteps, ResendAgrees, AgreementInductive
  <2>2. CASE UNCHANGED recoveryVars
    BY <2>2, AgreementInductive DEF recoveryVars
  <2> QED
    BY <2>1, <2>2
<1>3. AgreementInv => InStep
  BY AgreementIsIdentity DEF AgreementInv
<1> QED
  BY <1>1, <1>2, <1>3, PTL DEF RecoverySpec

-----------------------------------------------------------------------------
(* Recovery.  Stuck is why only a resend recovers: in order, whatever      *)
(* still travels when a delta is refused comes later in the stream than    *)
(* that delta, or is that delta again.                                     *)

\* The deltas of a sender are numbered in the order it committed them.
Numbered ==
  /\ \A m \in net : m.to = m.from + 1 /\ m.to <= sender[m.writer].version
  /\ \A m, n \in net : m.writer = n.writer /\ m.to = n.to => m = n

\* After a refusal nothing can be accepted, now or ever, but a resend.
Stuck ==
  ~ trusted =>
    /\ \A s \in Senders : sender[s].version > receiver.version
    /\ \A m \in net : Gap(m) \/ WrongBase(m)

StuckInv == RefusalInv /\ Numbered /\ Stuck

\* Where fingerprints and deltas can be relied on, a refusal is an early one.
LEMMA RefusalIsEarly ==
  ASSUME FpInjective, DeltaContract, RefusalInv, NEW m \in net, Apply(m)
  PROVE  \/ UNCHANGED <<receiver, trusted>> /\ Stale(m)
         \/ UNCHANGED receiver /\ trusted' = FALSE /\ (Gap(m) \/ WrongBase(m))
         \/ UNCHANGED trusted /\ Updates(m)
<1>1. ~ Misfit(m) /\ ~ WrongResult(m)
  BY FittingDeltaUpdates DEF RefusalInv
<1> QED
  BY <1>1 DEF Apply, ApplyStale, RejectEarly, RejectLate, ApplyUpdate

LEMMA StuckInductive ==
  ASSUME FpInjective, DeltaContract, InOrder, NEW w, Senders = {w},
         StuckInv, [Next]_vars
  PROVE  StuckInv'
<1>1. RefusalInv'
  BY RefusalInductive DEF StuckInv
<1>2. TypeOK /\ \A m \in net : m.writer = w /\ m.from \in Nat /\ m.to \in Nat
  BY BoundsAssumption DEF StuckInv, RefusalInv, TypeOK, VersionedDelta, Version
<1>3. sender[w].version \in Nat /\ receiver.version \in Nat
  BY <1>2, BoundsAssumption DEF TypeOK, VersionedValue, Version
<1>4. ASSUME NEW new \in Value, CommitChange(w, new)
      PROVE  StuckInv'
  <2> DEFINE sent == CommitMessage(w, sender[w].value, new, sender[w].version)
  <2>1. /\ net' = net \cup {sent} /\ UNCHANGED <<receiver, trusted>>
        /\ sender'[w].version = sender[w].version + 1
    BY <1>2, <1>4 DEF CommitChange, TypeOK
  <2>2. sent.writer = w /\ sent.from = sender[w].version /\ sent.to = sent.from + 1
    BY DEF CommitMessage
  <2> HIDE DEF sent
  <2>3. Numbered'
    BY <1>2, <1>3, <2>1, <2>2 DEF StuckInv, Numbered
  <2>4. Stuck'
    BY <1>3, <2>1, <2>2 DEF StuckInv, Stuck, Gap, Stale, WrongBase
  <2> QED
    BY <1>1, <2>3, <2>4 DEF StuckInv
<1>5. ASSUME NEW new \in Value, CommitNothing(w, new)
      PROVE  StuckInv'
  <2>1. sender'[w].version = sender[w].version /\ UNCHANGED <<net, receiver, trusted>>
    BY <1>2, <1>5 DEF CommitNothing, TypeOK
  <2> QED
    BY <1>1, <1>2, <2>1 DEF StuckInv, Numbered, Stuck, Gap, Stale, WrongBase
<1>6. ASSUME NEW m \in net, Deliver(m) \/ Duplicate(m)
      PROVE  StuckInv'
  <2>1. Apply(m) /\ MayArrive(m) /\ UNCHANGED sender /\ net' \subseteq net
    BY <1>6 DEF Deliver, Duplicate
  <2>2. Numbered'
    BY <2>1 DEF StuckInv, Numbered
  <2>3. ASSUME ~ trusted' PROVE UNCHANGED receiver
    BY <2>1, <2>3, RefusalIsEarly DEF StuckInv, Stuck, Updates, Fits
  <2>4. ASSUME trusted, ~ trusted'
        PROVE  /\ sender[w].version > receiver.version
               /\ \A n \in net : Gap(n) \/ WrongBase(n)
    <3>1. Gap(m) \/ WrongBase(m)
      BY <2>1, <2>4, RefusalIsEarly DEF StuckInv
    <3>2. m.to > receiver.version /\ m.to <= sender[w].version /\ m.from >= receiver.version
      BY <1>2, <1>3, <3>1 DEF Gap, WrongBase, Stale, StuckInv, Numbered
    <3>3. ASSUME NEW n \in net, n # m
          PROVE  Gap(n)
      <4>1. m.to <= n.to /\ n.to # m.to
        BY <1>2, <2>1, <3>3 DEF MayArrive, StuckInv, Numbered
      <4>2. n.to = n.from + 1 /\ m.to = m.from + 1
        BY DEF StuckInv, Numbered
      <4> QED
        BY <1>2, <1>3, <3>2, <4>1, <4>2 DEF Gap, Stale
    <3> QED
      BY <1>2, <1>3, <3>1, <3>2, <3>3
  <2>5. Stuck'
    <3>1. SUFFICES ASSUME ~ trusted' PROVE Stuck'
      BY DEF Stuck
    <3>2. /\ sender[w].version > receiver.version
          /\ \A n \in net : Gap(n) \/ WrongBase(n)
      BY <2>4, <3>1 DEF StuckInv, Stuck
    <3> QED
      BY <2>1, <2>3, <3>1, <3>2 DEF Stuck, Gap, Stale, WrongBase
  <2> QED
    BY <1>1, <2>2, <2>5 DEF StuckInv
<1>7. ASSUME NEW m \in net, Lose(m)
      PROVE  StuckInv'
  <2>1. net' \subseteq net /\ UNCHANGED <<sender, receiver, trusted>>
    BY <1>7 DEF Lose
  <2> QED
    BY <1>1, <2>1 DEF StuckInv, Numbered, Stuck, Gap, Stale, WrongBase
<1>8. ASSUME NEW whole, NEW keep, InstallSnapshot(whole, keep)
      PROVE  StuckInv'
  BY <1>1, <1>8 DEF InstallSnapshot, StuckInv, Numbered, Stuck
<1>9. CASE UNCHANGED <<sender, receiver, net, trusted>>
  BY <1>1, <1>9 DEF StuckInv, Numbered, Stuck, Gap, Stale, WrongBase
<1> QED
  BY <1>4, <1>5, <1>6, <1>7, <1>8, <1>9 DEF Next, Commit, SendSnapshot, vars

LEMMA RecoveryKeepsStuckInv ==
  ASSUME FpInjective, DeltaContract, InOrder, NEW w, Senders = {w},
         StuckInv, [RecoveryNext]_recoveryVars
  PROVE  StuckInv'
<1>1. CASE \E s \in Senders : Resend(s)
  <2>1. UNCHANGED <<sender, receiver, net, trusted>> /\ TypeOK'
    BY <1>1, ResendFacts DEF StuckInv, RefusalInv
  <2> QED
    BY <2>1 DEF StuckInv, RefusalInv, DeltasDescribe, Describes, Numbered, Stuck,
                Gap, Stale, WrongBase
<1>2. CASE [Next]_vars
  BY <1>2, StuckInductive
<1> QED
  BY <1>1, <1>2, RecoverySteps DEF recoveryVars

LEMMA RecoveryStartsUnstuck == RecoveryInit => StuckInv
BY TypeInit DEF RecoveryInit, Init, StuckInv, RefusalInv, DeltasDescribe, Numbered, Stuck

\* In order, a refused receiver moves on only by a resend, however often deltas
\* are lost or repeated (version.rs:141-144).
THEOREM OnlyResend ==
  ASSUME FpInjective, DeltaContract, InOrder, NEW w, Senders = {w}
  PROVE  RecoverySpec => OnlyResendRecovers
<1>1. StuckInv /\ [RecoveryNext]_recoveryVars =>
        [(~ trusted /\ ~ trusted') => receiver'.version = receiver.version]_vars
  <2> SUFFICES ASSUME StuckInv, [RecoveryNext]_recoveryVars, ~ trusted, ~ trusted'
               PROVE  UNCHANGED receiver
    OBVIOUS
  <2>1. CASE \E m \in net : Apply(m)
    BY <2>1, RefusalIsEarly DEF StuckInv, Stuck, Updates, Fits
  <2>2. CASE UNCHANGED receiver
    BY <2>2
  <2> QED
    BY <2>1, <2>2 DEF RecoveryNext, recoveryVars, vars, Commit, CommitChange,
       CommitNothing, Read, Deliver, Duplicate, LoseEarlier, Lose, Resend,
       Install, InstallSnapshot
<1> QED
  BY <1>1, RecoveryKeepsStuckInv, RecoveryStartsUnstuck, PTL
  DEF RecoverySpec, OnlyResendRecovers

\* Nor does a refusal change the receiver (lib.rs:493), for any writers and any
\* order of the transport.
THEOREM RecoveryRefusalsAreClean ==
  ASSUME FpInjective, DeltaContract
  PROVE  RecoverySpec => RefusalTouchesNothing
<1>1. RecoveryInit => RefusalInv
  BY TypeInit DEF RecoveryInit, Init, RefusalInv, DeltasDescribe
<1>2. RefusalInv /\ [RecoveryNext]_recoveryVars => RefusalInv'
  <2>1. CASE \E s \in Senders : Resend(s)
    BY <2>1, ResendFacts DEF RefusalInv, DeltasDescribe, Describes
  <2>2. CASE [Next]_vars
    BY <2>2, RefusalInductive
  <2> QED
    BY <2>1, <2>2, RecoverySteps DEF recoveryVars
<1>3. RefusalInv /\ [RecoveryNext]_recoveryVars =>
        [(trusted /\ ~ trusted') => receiver' = receiver]_vars
  <2> SUFFICES ASSUME RefusalInv, RecoveryNext, trusted, ~ trusted'
               PROVE  receiver' = receiver
    BY DEF recoveryVars, vars
  <2>1. PICK m \in net : Apply(m)
    BY DEF RecoveryNext, Commit, CommitChange, CommitNothing, Read, Deliver,
           Duplicate, LoseEarlier, Lose, Resend, Install, InstallSnapshot
  <2> QED
    BY <2>1, RefusalIsEarly
<1> QED
  BY <1>1, <1>2, <1>3, PTL DEF RecoverySpec, RefusalTouchesNothing
=============================================================================
