------------------------------ MODULE Recovery ------------------------------
(***************************************************************************)
(* Versioned with the application the crate's docs ask for around it: "the *)
(* answer to any Rejected is to resend the whole Versioned, which ...      *)
(* carries the version the receiver resumes from" (delta-struct/src/lib.rs *)
(* :495-497).  Each refusal leaves a resend owing, and one resend is under *)
(* way at a time.  It shares one connection with the deltas, which keeps   *)
(* their order but may lose or repeat them: those sent before it are read, *)
(* and refused, before it; those sent after it are read after it.          *)
(***************************************************************************)
EXTENDS Versioned

VARIABLE owed  \* was a delta refused since the last resend was taken?

recoveryVars == <<vars, owed>>

RecoveryInit == Init /\ owed = FALSE

\* Versioned::apply returns Err(Rejected) for m, whichever it is.
Refused(m) == ~ Stale(m) /\ ~ Updates(m)

\* Sent before every resend that is under way.
BeforeResends(m) == \A whole \in snapshots : m.to <= whole.version

Read(m) ==
  /\ BeforeResends(m)
  /\ Deliver(m) \/ Duplicate(m)
  /\ owed' = (owed \/ Refused(m))

\* A delta may be lost, save the last of the stream: when nothing comes after
\* it, nothing can tell the receiver.
LoseEarlier(m) ==
  /\ m.to < MaxVersion /\ BeforeResends(m)
  /\ Lose(m)
  /\ UNCHANGED owed

Resend(s) ==
  /\ owed
  /\ snapshots = {}
  /\ snapshots' = {sender[s]}
  /\ owed' = FALSE
  /\ UNCHANGED <<sender, receiver, net, trusted, held>>

Install ==
  \E whole \in snapshots :
    /\ \A m \in net : ~ BeforeResends(m)
    /\ InstallSnapshot(whole, FALSE)
    /\ UNCHANGED owed

RecoveryNext ==
  \/ \E s \in Senders, new \in Value : Commit(s, new) /\ UNCHANGED owed
  \/ \E m \in net : Read(m) \/ LoseEarlier(m)
  \/ \E s \in Senders : Resend(s)
  \/ Install

\* What the caller owes: to go on handing over deltas, taking each off the
\* channel in the end, and to send and install the resends.  Nobody has to
\* commit.
RecoverySpec ==
  /\ RecoveryInit
  /\ [][RecoveryNext]_recoveryVars
  /\ WF_recoveryVars(\E m \in net : Deliver(m) /\ Read(m))
  /\ WF_recoveryVars(\E s \in Senders : Resend(s))
  /\ WF_recoveryVars(Install)

-----------------------------------------------------------------------------
(* Properties *)

\* "A Rejected leaves the version untouched, which means a later delta in the
\* same stream will fail too ... the only way forward is to replace the whole
\* value" (version.rs:141-144): in order, but lossy and with repetitions, a
\* refused receiver moves on only by a resend.
OnlyResendRecovers ==
  [][(~ trusted /\ ~ trusted') => receiver'.version = receiver.version]_vars

\* Reconciled: same version, and no delta left to send between the values.
Met(s) ==
  /\ receiver.version = sender[s].version
  /\ \/ receiver.value = sender[s].value
     \/ Diff(receiver.value, sender[s].value) = None

\* Wherever the receiver started, whatever was lost, repeated or refused on
\* the way, and however many resends that took: once a stream has ended the
\* receiver meets the sender, and they stay met.
Converges ==
  (<>\A s \in Senders : sender[s].version = MaxVersion)
    => <>[]\A s \in Senders : Met(s)
=============================================================================
