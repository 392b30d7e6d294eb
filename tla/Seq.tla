-------------------------------- MODULE Seq --------------------------------
(***************************************************************************)
(* seq.rs, behind field_type = "ordered": diff turns the calls Myers'      *)
(* algorithm makes on RangeHook into splices, and apply replays splices,   *)
(* computed here or received, on a target in one forward pass.             *)
(*                                                                         *)
(* Myers' algorithm and its Replace wrapper are the crate similar: any     *)
(* alignment of old and new in which two edits never touch and the first   *)
(* edit is where the two first differ.  That it is the shortest is not     *)
(* needed by anything below.                                               *)
(*                                                                         *)
(* An operator named A_B is a mutation of the operator A that follows it,  *)
(* never used by the model.                                                *)
(***************************************************************************)
EXTENDS Collections

CONSTANTS
  Items,           \* what sequences are made of
  Inputs,          \* the sequences diff and apply are called with
  Wire,            \* the scripts that may arrive from elsewhere
  MaxUsize,        \* usize::MAX
  Builds           \* of the builds there are, TRUE is one with overflow checks

SpliceOf(S) == [at : 0 .. MaxUsize, remove : 0 .. MaxUsize, insert : S]

ASSUME SeqAssumption ==
  /\ MaxUsize \in Nat
  /\ Builds \subseteq BOOLEAN
  /\ Inputs \subseteq Seq(Items)
  /\ \A s \in Inputs : Len(s) <= MaxUsize
  /\ Wire \subseteq Seq(SpliceOf(Seq(Items)))

VARIABLES
  phase,      \* "matching", "splicing", "applying", "done" or "panicked"
  wired,      \* the script is from Wire, not from diff
  old, new,   \* diff's arguments
  i, j,       \* how much of each Myers has consumed
  apart,      \* its last call was not an edit
  ops,        \* RangeHook::ops
  taken,      \* how much of the iterator over new diff has consumed
  splices,    \* SeqDelta::splices
  target,     \* what apply was called on
  read,       \* how much of the iterator over it apply has consumed
  applied,    \* how many splices apply has replayed
  cursor,     \* the cursor of diff, then of apply
  out         \* apply's out

myers == <<i, j, apart, ops>>
replay == <<target, read, applied, out>>
vars == <<phase, wired, old, new, myers, taken, splices, replay, cursor>>

Lesser(a, b) == IF a < b THEN a ELSE b

Init ==
  /\ phase = "matching" /\ wired = FALSE
  /\ old \in Inputs /\ new \in Inputs
  /\ i = 0 /\ j = 0 /\ apart = TRUE /\ ops = <<>>
  /\ taken = 0 /\ splices = <<>> /\ cursor = 0
  /\ target = <<>> /\ read = 0 /\ applied = 0 /\ out = <<>>

-----------------------------------------------------------------------------
(* diff: Myers' calls on RangeHook *)

\* RangeHook::equal, one item at a time: it records nothing.
Equal ==
  /\ phase = "matching"
  /\ i < Len(old) /\ j < Len(new)
  /\ old[i + 1] = new[j + 1]
  /\ i' = i + 1 /\ j' = j + 1 /\ apart' = TRUE
  /\ UNCHANGED <<phase, wired, old, new, ops, taken, splices, replay, cursor>>

FirstDifference ==
  i < Len(old) /\ j < Len(new) => old[i + 1] # new[j + 1]

\* The old position is where the edit ends.
Op_End(gone, come) ==
  [at |-> i + gone, remove |-> gone, from |-> j, to |-> j + come]

\* What the three callbacks push: gone items of old make way for come of new.
Op(gone, come) == [at |-> i, remove |-> gone, from |-> j, to |-> j + come]

\* DiffHook::delete left at its default, which does nothing.
Recorded_NoDeletes(op) == IF op.from = op.to THEN ops ELSE Append(ops, op)

Recorded(op) == Append(ops, op)

Record(gone, come) ==
  /\ phase = "matching"
  /\ apart
  /\ ops = <<>> => FirstDifference
  /\ ops' = Recorded(Op(gone, come))
  /\ i' = i + gone /\ j' = j + come /\ apart' = FALSE
  /\ UNCHANGED <<phase, wired, old, new, taken, splices, replay, cursor>>

Delete == \E gone \in 1 .. Len(old) - i : Record(gone, 0)

Insert == \E come \in 1 .. Len(new) - j : Record(0, come)

Replace ==
  \E gone \in 1 .. Len(old) - i, come \in 1 .. Len(new) - j : Record(gone, come)

MyersReturns ==
  /\ phase = "matching"
  /\ i = Len(old) /\ j = Len(new)
  /\ phase' = "splicing"
  /\ UNCHANGED <<wired, old, new, myers, taken, splices, replay, cursor>>

-----------------------------------------------------------------------------
(* diff: the inserted items pulled out of new in one pass *)

\* Items between two edits are not skipped.
Pulled_NoSkip(op) ==
  [from |-> taken, to |-> Lesser(taken + op.to - op.from, Len(new))]

\* What of new the iterator yields for op, and where that leaves it.
Pulled(op) ==
  LET from == Lesser(taken + (op.from - cursor), Len(new))
  IN [from |-> from, to |-> Lesser(from + (op.to - op.from), Len(new))]

MakeSplice ==
  /\ phase = "splicing"
  /\ Len(splices) < Len(ops)
  /\ LET op == ops[Len(splices) + 1]
         p == Pulled(op)
     IN /\ splices' = Append(splices,
                        [at |-> op.at, remove |-> op.remove,
                         insert |-> SubSeq(new, p.from + 1, p.to)])
        /\ taken' = p.to
        /\ cursor' = op.to
  /\ UNCHANGED <<phase, wired, old, new, myers, replay>>

-----------------------------------------------------------------------------
(* apply *)

Call ==
  /\ target' \in Inputs
  /\ phase' = "applying" /\ cursor' = 0
  /\ UNCHANGED <<old, new, myers, taken, read, applied, out>>

\* On the script diff returned.
CallWithDiff ==
  /\ phase = "splicing" /\ Len(splices) = Len(ops)
  /\ Call
  /\ UNCHANGED <<wired, splices>>

\* On a script that was built by hand or arrived over a wire: no diff ran.
CallWithWire ==
  /\ phase = "matching" /\ old = <<>> /\ new = <<>>
  /\ splices' \in Wire
  /\ wired' = TRUE
  /\ Call

\* A plain subtraction.
Gap_Plain(at) == at - cursor

\* at.saturating_sub(cursor).
Gap(at) == IF at > cursor THEN at - cursor ELSE 0

\* The cursor stops where the splice starts.
After_Start(splice) == splice.at

After(splice) == splice.at + splice.remove

\* cursor = splice.at + splice.remove, on a usize.
Advance(splice) ==
  \E checks \in Builds :
    IF After(splice) > MaxUsize /\ checks
    THEN phase' = "panicked" /\ UNCHANGED cursor
    ELSE cursor' = After(splice) % (MaxUsize + 1) /\ UNCHANGED phase

ApplySplice ==
  /\ phase = "applying"
  /\ applied < Len(splices)
  /\ LET splice == splices[applied + 1]
         keep == Lesser(read + Gap(splice.at), Len(target))
     IN /\ out' = out \o SubSeq(target, read + 1, keep) \o splice.insert
        /\ read' = Lesser(keep + splice.remove, Len(target))
        /\ applied' = applied + 1
        /\ Advance(splice)
  /\ UNCHANGED <<wired, old, new, myers, taken, splices, target>>

\* The rest of the target is lost.
Remainder_Lost == <<>>

Remainder == SubSeq(target, read + 1, Len(target))

ApplyReturns ==
  /\ phase = "applying"
  /\ applied = Len(splices)
  /\ out' = out \o Remainder
  /\ phase' = "done"
  /\ UNCHANGED <<wired, old, new, myers, taken, splices, target, read,
                 applied, cursor>>

Next ==
  \/ Equal \/ Delete \/ Insert \/ Replace \/ MyersReturns \/ MakeSplice
  \/ CallWithDiff \/ CallWithWire \/ ApplySplice \/ ApplyReturns

Spec == Init /\ [][Next]_vars

-----------------------------------------------------------------------------
(* Properties *)

OpType == [at : Nat, remove : Nat, from : Nat, to : Nat]

DiffTypeOK ==
  /\ old \in Inputs /\ new \in Inputs
  /\ i \in 0 .. Len(old) /\ j \in 0 .. Len(new)
  /\ ops \in Seq(OpType)
  /\ taken \in 0 .. Len(new)

ApplyTypeOK ==
  /\ splices \in Seq(SpliceOf(Seq(Items)))
  /\ target \in Inputs \cup {<<>>}
  /\ read \in 0 .. Len(target)
  /\ applied \in 0 .. Len(splices)
  /\ out \in Seq(Items)

\* No iterator is read past its end, and the cursor stays a usize.
TypeOK ==
  /\ phase \in {"matching", "splicing", "applying", "done", "panicked"}
  /\ wired \in BOOLEAN /\ apart \in BOOLEAN
  /\ DiffTypeOK /\ ApplyTypeOK
  /\ cursor \in 0 .. MaxUsize

\* The Delta contract for an ordered field: the script diff made from old and
\* new turns old into new, whichever alignment Myers found.
RoundTrip == phase = "done" /\ ~ wired /\ target = old => out = new

\* "Returns an empty SeqDelta when the two are identical" (seq.rs:116), and
\* only then, so is_empty never hides a difference from the derive.
EmptyMeansIdentical ==
  phase \in {"applying", "done"} /\ ~ wired => (splices = <<>> <=> old = new)

Sorted(script) ==
  \A a, b \in DOMAIN script :
    a < b => script[a].at + script[a].remove <= script[b].at

\* "Every at indexes the old sequence rather than the partially-rebuilt one"
\* (seq.rs:20-21): on a target of any length and content, of the script's
\* origin or not, the forward pass leaves out and puts in by the positions of
\* the target as it was; no earlier splice shifts a later one.
OldCoordinates ==
  phase = "done" /\ Sorted(splices)
    /\ (\A k \in DOMAIN splices : After(splices[k]) <= MaxUsize) =>
  out = SeqApply(target, splices)

\* Only a script from elsewhere can overflow the cursor of apply, whatever
\* target it is called on; and the cursor of diff never passes the start of
\* the next insert, so range.start - cursor does not underflow (seq.rs:155).
DiffNeverPanics ==
  /\ phase = "panicked" => wired
  /\ phase = "splicing" /\ Len(splices) < Len(ops) =>
       cursor <= ops[Len(splices) + 1].from

\* "Clamped rather than allowed to panic ... the call still returns"
\* (seq.rs:173-175), said of a script that arrived over a wire.
StillReturns == phase # "panicked"

\* The items of s that are in S, in the order of s.
Among(s, S) == FlattenSeq([k \in DOMAIN s |-> IF s[k] \in S THEN <<s[k]>> ELSE <<>>])

Inserted == FlattenSeq([k \in DOMAIN splices |-> splices[k].insert])

\* What the first n splices of a script say is to be removed.
Removes(script, n) ==
  LET sum[k \in 0 .. Len(script)] ==
        IF k = 0 THEN 0 ELSE sum[k - 1] + script[k].remove
  IN sum[n]

\* What clamping means for any script at all, unsorted, overlapping, too long
\* or wrapping the cursor: every insert arrives, in the order of the script;
\* the target's items keep theirs; and no more of them go than the script's
\* removes say.  For targets without repeats, and inserts of other items.
ClampedIntoPlace ==
  phase = "done" /\ IsInjective(target)
    /\ Range(Inserted) \cap Range(target) = {} =>
  LET kept == Among(out, Range(target))
  IN /\ Among(out, Items \ Range(target)) = Inserted
     /\ kept = Among(target, Range(kept))
     /\ Len(target) - Len(kept) <= Removes(splices, Len(splices))
=============================================================================
