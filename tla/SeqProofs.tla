----------------------------- MODULE SeqProofs -----------------------------
(***************************************************************************)
(* Seq for sequences of any length over any items: the script diff makes   *)
(* turns old into new, is empty exactly when they are identical, and never *)
(* overflows or underflows a cursor, on whatever target it is replayed;    *)
(* any script in the order of its positions is replayed at those of the    *)
(* target as it was; any script at all is clamped into place.              *)
(*                                                                         *)
(* The strengthening follows the three stages of the code.  Aligned: the   *)
(* items between two recorded edits are the same in old and new.  Spliced: *)
(* a splice is the edit with its items of new, and the iterator over new   *)
(* stands at the end of the last one.  Replayed: the cursor of apply       *)
(* stands at the end, in old, of the last edit, and on old itself out is   *)
(* new up to that edit's end.                                              *)
(***************************************************************************)
EXTENDS Seq, CollectionsProofs

\* How much of old, and of new, the first k edits and what precedes them are.
EndOld(k) == IF k = 0 THEN 0 ELSE ops[k].at + ops[k].remove
EndNew(k) == IF k = 0 THEN 0 ELSE ops[k].to

\* From a to b in old stands what stands from c to d in new.
SameRun(a, b, c, d) ==
  /\ a <= b /\ c <= d /\ b - a = d - c
  /\ \A x \in 1 .. b - a : old[a + x] = new[c + x]

AlignedOp(k) ==
  /\ SameRun(EndOld(k - 1), ops[k].at, EndNew(k - 1), ops[k].from)
  /\ EndOld(k) <= Len(old)
  /\ ops[k].from <= ops[k].to /\ ops[k].to <= Len(new)

AlignedInv ==
  /\ \A k \in 1 .. Len(ops) : AlignedOp(k)
  /\ SameRun(EndOld(Len(ops)), i, EndNew(Len(ops)), j)
  /\ ops # <<>> => old # new
  /\ phase # "matching" /\ ~ wired => i = Len(old) /\ j = Len(new)

SpliceOfOp(op) ==
  [at |-> op.at, remove |-> op.remove, insert |-> SubSeq(new, op.from + 1, op.to)]

SplicedInv ==
  /\ Len(splices) <= Len(ops)
  /\ \A k \in 1 .. Len(splices) : splices[k] = SpliceOfOp(ops[k])
  /\ phase = "matching" => splices = <<>>
  /\ phase \in {"matching", "splicing"} =>
       taken = EndNew(Len(splices)) /\ cursor = EndNew(Len(splices))
  /\ phase \notin {"matching", "splicing"} => Len(splices) = Len(ops)

ReplayedInv ==
  /\ phase # "panicked"
  /\ phase = "applying" => cursor = EndOld(applied)
  /\ phase = "applying" /\ target = old =>
       read = EndOld(applied) /\ out = SubSeq(new, 1, EndNew(applied))
  /\ phase = "done" /\ target = old => out = new

IInv ==
  /\ TypeOK
  /\ phase \in {"matching", "splicing"} =>
       ~ wired /\ read = 0 /\ applied = 0 /\ out = <<>>
  /\ AlignedInv
  /\ ~ wired => SplicedInv /\ ReplayedInv

-----------------------------------------------------------------------------

LEMMA InputFacts ==
  ASSUME NEW s \in Inputs
  PROVE  s \in Seq(Items) /\ Len(s) \in Nat /\ Len(s) <= MaxUsize
BY SeqAssumption

LEMMA OpFacts ==
  ASSUME DiffTypeOK, NEW k \in 0 .. Len(ops)
  PROVE  /\ k # 0 => ops[k] \in OpType
         /\ EndOld(k) \in Nat /\ EndNew(k) \in Nat
<1>1. Len(ops) \in Nat
  BY DEF DiffTypeOK
<1>2. CASE k = 0
  BY <1>2 DEF EndOld, EndNew
<1>3. CASE k # 0
  <2>1. k \in 1 .. Len(ops)
    BY <1>1, <1>3
  <2>2. ops[k] \in OpType
    BY <2>1, ElementOfSeq DEF DiffTypeOK
  <2> QED
    BY <1>3, <2>2 DEF EndOld, EndNew, OpType
<1> QED
  BY <1>2, <1>3

LEMMA InitIInv == Init => IInv
<1> SUFFICES ASSUME Init PROVE IInv
  OBVIOUS
<1>1. old \in Seq(Items) /\ new \in Seq(Items)
  BY InputFacts DEF Init
<1>2. Len(old) \in Nat /\ Len(new) \in Nat
  BY <1>1
<1>3. TypeOK
  <2>1. \A S : <<>> \in Seq(S)
    BY EmptySeq
  <2>2. Len(target) = 0 /\ Len(splices) = 0
    BY DEF Init
  <2> QED
    <3>1. DiffTypeOK
      BY <1>2, <2>1 DEF Init, DiffTypeOK
    <3>2. ApplyTypeOK
      BY <2>1, <2>2 DEF Init, ApplyTypeOK
    <3>3. 0 \in 0 .. MaxUsize
      BY SeqAssumption
    <3> QED
      BY <3>1, <3>2, <3>3 DEF Init, TypeOK
<1>4. AlignedInv
  BY <1>2 DEF Init, AlignedInv, SameRun, EndOld, EndNew
<1>5. SplicedInv /\ ReplayedInv
  BY DEF Init, SplicedInv, ReplayedInv, EndNew
<1> QED
  BY <1>3, <1>4, <1>5 DEF Init, IInv

\* A longer common run, one item further.
LEMMA MatchKeepsIInv == IInv /\ Equal => IInv'
<1> SUFFICES ASSUME IInv, Equal PROVE IInv'
  OBVIOUS
<1> USE DEF Equal, myers, replay
<1>1. old \in Seq(Items) /\ new \in Seq(Items)
  BY InputFacts DEF IInv, TypeOK, DiffTypeOK
<1>2. Len(old) \in Nat /\ Len(new) \in Nat /\ i \in Nat /\ j \in Nat
  BY <1>1 DEF IInv, TypeOK, DiffTypeOK
<1>3. TypeOK'
  <2>1. DiffTypeOK'
    BY <1>2 DEF IInv, TypeOK, DiffTypeOK
  <2>2. ApplyTypeOK'
    BY DEF IInv, TypeOK, ApplyTypeOK
  <2> QED
    BY <2>1, <2>2 DEF IInv, TypeOK
<1>4. AlignedInv'
  <2>1. \A k \in Nat : EndOld(k)' = EndOld(k) /\ EndNew(k)' = EndNew(k)
    BY DEF EndOld, EndNew
  <2>2. \A k \in 1 .. Len(ops) : AlignedOp(k)'
    <3> SUFFICES ASSUME NEW k \in 1 .. Len(ops) PROVE AlignedOp(k)'
      OBVIOUS
    <3>1. AlignedOp(k)
      BY DEF IInv, AlignedInv
    <3> QED
      BY <3>1 DEF AlignedOp, SameRun, EndOld, EndNew
  <2>3. EndOld(Len(ops)) \in Nat /\ EndNew(Len(ops)) \in Nat
    BY OpFacts DEF IInv, TypeOK, DiffTypeOK
  <2>4. SameRun(EndOld(Len(ops)), i', EndNew(Len(ops)), j')
    <3> DEFINE eo == EndOld(Len(ops))
               en == EndNew(Len(ops))
    <3>1. SameRun(eo, i, en, j)
      BY DEF IInv, AlignedInv
    <3>2. i' = i + 1 /\ j' = j + 1 /\ old[i + 1] = new[j + 1]
      OBVIOUS
    <3>3. eo \in Nat /\ en \in Nat
      BY <2>3
    <3> HIDE DEF eo, en
    <3>4. /\ eo <= i' /\ en <= j' /\ i' - eo = j' - en
          /\ eo + (i' - eo) = i + 1 /\ en + (i' - eo) = j + 1
          /\ i' - eo \in Nat /\ 1 .. i' - eo = (1 .. i - eo) \cup {i' - eo}
      BY <1>2, <3>1, <3>2, <3>3 DEF SameRun
    <3>5. \A x \in 1 .. i' - eo : old[eo + x] = new[en + x]
      BY <3>1, <3>2, <3>4 DEF SameRun
    <3>6. SameRun(eo, i', en, j')
      BY <3>4, <3>5 DEF SameRun
    <3> QED
      BY <3>6 DEF eo, en
  <2>5. SameRun(EndOld(Len(ops)), i, EndNew(Len(ops)), j)'
    BY <2>4 DEF SameRun, EndOld, EndNew
  <2> QED
    BY <2>2, <2>5 DEF IInv, AlignedInv
<1>5. (~ wired => SplicedInv /\ ReplayedInv)'
  BY DEF IInv, SplicedInv, ReplayedInv, SpliceOfOp, EndOld, EndNew
<1> QED
  BY <1>3, <1>4, <1>5 DEF IInv

-----------------------------------------------------------------------------

\* An edit is put behind the run before it, at the first difference or later.
LEMMA RecordKeepsIInv ==
  ASSUME IInv,
         NEW gone \in 0 .. Len(old) - i, NEW come \in 0 .. Len(new) - j,
         gone + come > 0, Record(gone, come)
  PROVE  IInv'
<1> USE DEF Record, Recorded, myers, replay
<1> DEFINE op == Op(gone, come)
<1>1. old \in Seq(Items) /\ new \in Seq(Items)
  BY InputFacts DEF IInv, TypeOK, DiffTypeOK
<1>2. /\ Len(old) \in Nat /\ i \in Nat /\ gone \in Nat /\ i + gone <= Len(old)
      /\ Len(new) \in Nat /\ j \in Nat /\ come \in Nat /\ j + come <= Len(new)
  <2>1. Len(old) \in Nat /\ i \in Nat /\ Len(new) \in Nat /\ j \in Nat
    BY <1>1 DEF IInv, TypeOK, DiffTypeOK
  <2> QED
    BY <2>1
<1>3. op \in OpType /\ op.at = i /\ op.remove = gone /\ op.from = j /\ op.to = j + come
  BY <1>2 DEF Op, OpType
<1>4. ops \in Seq(OpType) /\ ops' = Append(ops, op)
  BY DEF IInv, TypeOK, DiffTypeOK
<1> HIDE DEF op
<1>5. /\ ops' \in Seq(OpType) /\ Len(ops') = Len(ops) + 1 /\ ops' # <<>>
      /\ \A k \in 1 .. Len(ops) : ops'[k] = ops[k]
      /\ ops'[Len(ops) + 1] = op
  BY <1>3, <1>4, AppendProperties
<1>6. Len(ops) \in Nat
  BY <1>4
<1>7. TypeOK'
  <2>1. DiffTypeOK'
    BY <1>2, <1>5 DEF IInv, TypeOK, DiffTypeOK
  <2>2. ApplyTypeOK'
    BY DEF IInv, TypeOK, ApplyTypeOK
  <2> QED
    BY <2>1, <2>2 DEF IInv, TypeOK
<1>8. \A k \in 0 .. Len(ops) : EndOld(k)' = EndOld(k) /\ EndNew(k)' = EndNew(k)
  BY <1>5, <1>6 DEF EndOld, EndNew
<1>9. EndOld(Len(ops))' = i + gone /\ EndNew(Len(ops))' = j + come
  BY <1>3, <1>5, <1>6 DEF EndOld, EndNew
<1>10. AlignedInv'
  <2>1. SameRun(EndOld(Len(ops)), i, EndNew(Len(ops)), j)
    BY DEF IInv, AlignedInv
  <2>2. ASSUME NEW k \in 1 .. Len(ops') PROVE AlignedOp(k)'
    <3>1. CASE k = Len(ops')
      <4>1. ops'[k] = op /\ k - 1 = Len(ops)
        BY <1>5, <1>6, <3>1
      <4>2. EndOld(k - 1)' = EndOld(Len(ops)) /\ EndNew(k - 1)' = EndNew(Len(ops))
        BY <1>6, <1>8, <4>1
      <4>3. SameRun(EndOld(k - 1)', i, EndNew(k - 1)', j)
        BY <2>1, <4>2
      <4>4. SameRun(EndOld(k - 1), ops[k].at, EndNew(k - 1), ops[k].from)'
        BY <1>3, <4>1, <4>3 DEF SameRun
      <4>5. EndOld(k)' = i + gone
        BY <1>9, <3>1
      <4> QED
        BY <1>2, <1>3, <4>1, <4>4, <4>5 DEF AlignedOp
    <3>2. CASE k \in 1 .. Len(ops)
      <4>1. AlignedOp(k)
        BY <3>2 DEF IInv, AlignedInv
      <4>2. ops'[k] = ops[k] /\ k - 1 \in 0 .. Len(ops) /\ k \in 0 .. Len(ops)
        BY <1>5, <1>6, <3>2
      <4> QED
        BY <1>8, <4>1, <4>2 DEF AlignedOp, SameRun
    <3> QED
      BY <1>5, <1>6, <3>1, <3>2
  <2>3. SameRun(EndOld(Len(ops)), i, EndNew(Len(ops)), j)'
    <3>1. i' = i + gone /\ j' = j + come
      OBVIOUS
    <3> QED
      BY <1>2, <1>9, <3>1 DEF SameRun
  <2>4. old # new
    <3>1. CASE ops # <<>>
      BY <3>1 DEF IInv, AlignedInv
    <3>2. CASE ops = <<>>
      <4>1. i = j
        BY <1>2, <2>1, <3>2 DEF SameRun, EndOld, EndNew
      <4>2. FirstDifference
        BY <3>2
      <4> QED
        BY <1>2, <4>1, <4>2 DEF FirstDifference
    <3> QED
      BY <3>1, <3>2
  <2> QED
    BY <2>2, <2>3, <2>4 DEF IInv, AlignedInv
<1>11. (~ wired => SplicedInv /\ ReplayedInv)'
  <2>1. splices = <<>> /\ Len(splices) = 0
    BY DEF IInv, SplicedInv
  <2>2. Len(splices) <= Len(ops') /\ EndNew(0)' = EndNew(0)
    BY <1>5, <1>6, <2>1 DEF EndNew
  <2> QED
    BY <2>1, <2>2 DEF IInv, SplicedInv, ReplayedInv
<1> QED
  BY <1>7, <1>10, <1>11 DEF IInv

\* What a step that leaves the edits alone has to keep of the alignment.
LEMMA AlignedFrame ==
  ASSUME AlignedInv, UNCHANGED <<old, new, myers>>,
         phase' # "matching" /\ ~ wired' => i = Len(old) /\ j = Len(new)
  PROVE  AlignedInv'
<1> USE DEF myers
<1>1. \A k \in 1 .. Len(ops) : AlignedOp(k)'
  BY DEF AlignedInv, AlignedOp, SameRun, EndOld, EndNew
<1>2. SameRun(EndOld(Len(ops)), i, EndNew(Len(ops)), j)'
  BY DEF AlignedInv, SameRun, EndOld, EndNew
<1> QED
  BY <1>1, <1>2 DEF AlignedInv

\* Wrapping to a usize.
LEMMA WrapFacts ==
  ASSUME NEW x \in Nat
  PROVE  /\ x % (MaxUsize + 1) \in 0 .. MaxUsize
         /\ x <= MaxUsize => x % (MaxUsize + 1) = x
BY SeqAssumption

\* A slice of a sequence is a sequence of the same items.
LEMMA SliceType ==
  ASSUME NEW s \in Seq(Items), NEW a \in Nat, NEW b \in Nat, b <= Len(s)
  PROVE  SubSeq(s, a + 1, b) \in Seq(Items)
<1>1. \A x \in a + 1 .. b : s[x] \in Items
  BY ElementOfSeq
<1> QED
  BY <1>1, SubSeqProperties

\* Slices put side by side.
LEMMA Adjacent ==
  ASSUME NEW s \in Seq(Items),
         NEW a \in Nat, NEW b \in Nat, NEW c \in Nat, a <= b, b <= c, c <= Len(s)
  PROVE  SubSeq(s, a + 1, b) \o SubSeq(s, b + 1, c) = SubSeq(s, a + 1, c)
<1>1. a + 1 \in 1 .. Len(s) + 1 /\ b \in (a + 1) - 1 .. Len(s) /\ c \in b .. Len(s)
  OBVIOUS
<1> QED
  BY <1>1, ConcatAdjacentSubSeq

\* A common run is the same slice of both.
LEMMA SameRunSlice ==
  ASSUME old \in Seq(Items), new \in Seq(Items),
         NEW a \in Nat, NEW b \in Nat, NEW c \in Nat, NEW d \in Nat,
         b <= Len(old), d <= Len(new), SameRun(a, b, c, d)
  PROVE  SubSeq(old, a + 1, b) = SubSeq(new, c + 1, d)
<1> DEFINE s == SubSeq(old, a + 1, b)
           t == SubSeq(new, c + 1, d)
<1>1. \A x \in a + 1 .. b : old[x] \in Items
  BY ElementOfSeq
<1>2. \A x \in c + 1 .. d : new[x] \in Items
  BY ElementOfSeq
<1>3. /\ s \in Seq(Items) /\ Len(s) = b - a
      /\ \A x \in 1 .. b - a : s[x] = old[a + x]
  <2>1. /\ s \in Seq(Items) /\ Len(s) = IF a + 1 <= b THEN b - (a + 1) + 1 ELSE 0
        /\ \A x \in 1 .. b - (a + 1) + 1 : s[x] = old[(a + 1) + x - 1]
    BY <1>1, SubSeqProperties
  <2> QED
    BY <2>1 DEF SameRun
<1>4. /\ t \in Seq(Items) /\ Len(t) = d - c
      /\ \A x \in 1 .. d - c : t[x] = new[c + x]
  <2>1. /\ t \in Seq(Items) /\ Len(t) = IF c + 1 <= d THEN d - (c + 1) + 1 ELSE 0
        /\ \A x \in 1 .. d - (c + 1) + 1 : t[x] = new[(c + 1) + x - 1]
    BY <1>2, SubSeqProperties
  <2> QED
    BY <2>1 DEF SameRun
<1>5. Len(s) = Len(t) /\ \A x \in 1 .. Len(s) : s[x] = t[x]
  BY <1>3, <1>4 DEF SameRun
<1> QED
  BY <1>3, <1>4, <1>5, SeqEqual

\* new up to c, the common run from there to d, and what is inserted behind it
\* are new up to e.
Rebuilds(a, b, c, d, e) ==
  SubSeq(new, 1, c) \o SubSeq(old, a + 1, b) \o SubSeq(new, d + 1, e)
    = SubSeq(new, 1, e)

LEMMA RunThenInsert ==
  ASSUME old \in Seq(Items), new \in Seq(Items),
         NEW a \in Nat, NEW b \in Nat, NEW c \in Nat, NEW d \in Nat, NEW e \in Nat,
         SameRun(a, b, c, d), b <= Len(old), d <= e, e <= Len(new)
  PROVE  Rebuilds(a, b, c, d, e)
<1>1. c <= d /\ d <= Len(new) /\ c <= Len(new)
  BY DEF SameRun
<1>2. SubSeq(old, a + 1, b) = SubSeq(new, c + 1, d)
  BY <1>1, SameRunSlice
<1>3. 1 \in 1 .. Len(new) + 1 /\ c \in 1 - 1 .. Len(new) /\ d \in c .. Len(new)
        /\ d \in 1 - 1 .. Len(new) /\ e \in d .. Len(new)
  BY <1>1
<1>4. SubSeq(new, 1, c) \o SubSeq(new, c + 1, d) = SubSeq(new, 1, d)
  BY <1>3, ConcatAdjacentSubSeq
<1>5. SubSeq(new, 1, d) \o SubSeq(new, d + 1, e) = SubSeq(new, 1, e)
  BY <1>3, ConcatAdjacentSubSeq
<1> QED
  BY <1>2, <1>4, <1>5 DEF Rebuilds

-----------------------------------------------------------------------------

LEMMA ReturnKeepsIInv == IInv /\ MyersReturns => IInv'
<1> SUFFICES ASSUME IInv, MyersReturns PROVE IInv'
  OBVIOUS
<1> USE DEF MyersReturns, replay
<1>1. AlignedInv'
  BY AlignedFrame DEF IInv
<1>2. TypeOK'
  BY DEF IInv, TypeOK, DiffTypeOK, ApplyTypeOK, myers, OpType
<1>3. (~ wired => SplicedInv /\ ReplayedInv)'
  BY DEF IInv, SplicedInv, ReplayedInv, SpliceOfOp, EndNew, EndOld, myers
<1> QED
  BY <1>1, <1>2, <1>3 DEF IInv

LEMMA LesserIsFirst ==
  ASSUME NEW a \in Nat, NEW b \in Nat, a <= b
  PROVE  Lesser(a, b) = a
BY DEF Lesser

\* The iterator over new is where the edit's insert begins or before it, so
\* the insert is read whole.
LEMMA MakeSpliceKeepsIInv == IInv /\ MakeSplice => IInv'
<1> SUFFICES ASSUME IInv, MakeSplice PROVE IInv'
  OBVIOUS
<1> DEFINE k == Len(splices) + 1
           op == ops[k]
           splice == [at |-> op.at, remove |-> op.remove,
                      insert |-> SubSeq(new, Pulled(op).from + 1, Pulled(op).to)]
<1>1. /\ phase = "splicing" /\ Len(splices) < Len(ops)
      /\ splices' = Append(splices, splice) /\ taken' = Pulled(op).to /\ cursor' = op.to
      /\ UNCHANGED <<phase, wired, old, new, myers, replay>>
  BY DEF MakeSplice
<1>2. ~ wired /\ SplicedInv /\ ReplayedInv /\ AlignedInv /\ DiffTypeOK /\ ApplyTypeOK
  BY <1>1 DEF IInv, TypeOK
<1>3. /\ old \in Seq(Items) /\ Len(old) \in Nat /\ Len(old) <= MaxUsize
      /\ new \in Seq(Items) /\ Len(new) \in Nat /\ Len(new) <= MaxUsize
  BY <1>2, InputFacts DEF DiffTypeOK
<1>4. splices \in Seq(SpliceOf(Seq(Items))) /\ Len(splices) \in Nat /\ Len(ops) \in Nat
  BY <1>2 DEF ApplyTypeOK, DiffTypeOK
<1>5. k \in 1 .. Len(ops) /\ k \in 0 .. Len(ops) /\ k # 0 /\ k - 1 = Len(splices)
  BY <1>1, <1>4
<1>6. AlignedOp(k)
  BY <1>2, <1>5 DEF AlignedInv
<1>7. op \in OpType
  BY <1>2, <1>5, OpFacts
<1>8. EndNew(k - 1) \in Nat /\ EndOld(k - 1) \in Nat
  BY <1>2, <1>4, <1>5, OpFacts
<1>9. taken = EndNew(k - 1) /\ cursor = EndNew(k - 1)
  BY <1>1, <1>2, <1>5 DEF SplicedInv
<1>10. op.from <= op.to /\ op.to <= Len(new) /\ EndNew(k - 1) <= op.from
  BY <1>6 DEF AlignedOp, SameRun
<1>11. Pulled(op).from = op.from /\ Pulled(op).to = op.to
  <2>1. op.from \in Nat /\ op.to \in Nat
    BY <1>7 DEF OpType
  <2>2. taken + (op.from - cursor) = op.from /\ op.from + (op.to - op.from) = op.to
    BY <1>8, <1>9, <2>1
  <2>3. Lesser(op.from, Len(new)) = op.from /\ Lesser(op.to, Len(new)) = op.to
    <3>1. op.from <= Len(new)
      BY <1>3, <1>10, <2>1
    <3> QED
      BY <1>3, <1>10, <2>1, <3>1, LesserIsFirst
  <2> QED
    BY <2>2, <2>3 DEF Pulled
<1>12. splice = SpliceOfOp(op)
  BY <1>11 DEF SpliceOfOp
<1>13. splice \in SpliceOf(Seq(Items))
  <2>1. op.at + op.remove <= Len(old)
    BY <1>5, <1>6 DEF AlignedOp, EndOld
  <2>2. op.at \in 0 .. MaxUsize /\ op.remove \in 0 .. MaxUsize
    BY <1>3, <1>7, <2>1, SeqAssumption DEF OpType
  <2>3. SubSeq(new, op.from + 1, op.to) \in Seq(Items)
    BY <1>3, <1>7, <1>10, SliceType DEF OpType
  <2> QED
    BY <1>11, <2>2, <2>3 DEF SpliceOf
<1> HIDE DEF splice
<1>14. /\ splices' \in Seq(SpliceOf(Seq(Items))) /\ Len(splices') = k
       /\ \A n \in 1 .. Len(splices) : splices'[n] = splices[n]
       /\ splices'[k] = splice
  BY <1>1, <1>4, <1>13, AppendProperties
<1>15. TypeOK'
  <2>1. DiffTypeOK'
    <3>1. op.to \in 0 .. Len(new)
      BY <1>3, <1>7, <1>10 DEF OpType
    <3> QED
      BY <1>1, <1>2, <1>11, <3>1 DEF DiffTypeOK, myers
  <2>2. ApplyTypeOK'
    <3>1. applied = 0
      BY <1>1 DEF IInv
    <3> QED
      BY <1>1, <1>2, <1>4, <1>14, <3>1 DEF ApplyTypeOK, replay
  <2>3. cursor' \in 0 .. MaxUsize
    BY <1>1, <1>3, <1>7, <1>10, SeqAssumption DEF OpType
  <2> QED
    BY <1>1, <2>1, <2>2, <2>3 DEF IInv, TypeOK, myers
<1>16. AlignedInv'
  BY <1>1, <1>2, AlignedFrame DEF AlignedInv
<1>17. SplicedInv'
  <2>1. EndNew(Len(splices))' = op.to
    BY <1>1, <1>4, <1>5, <1>14 DEF EndNew, myers
  <2>2. ASSUME NEW n \in 1 .. Len(splices') PROVE splices'[n] = SpliceOfOp(ops[n])'
    <3>1. n = k \/ n \in 1 .. Len(splices)
      BY <1>4, <1>14
    <3> QED
      BY <1>1, <1>2, <1>12, <1>14, <3>1 DEF SplicedInv, SpliceOfOp, myers
  <2> QED
    BY <1>1, <1>5, <1>11, <1>14, <2>1, <2>2 DEF SplicedInv, myers
<1>18. ReplayedInv'
  BY <1>1, <1>2 DEF ReplayedInv
<1> QED
  BY <1>1, <1>2, <1>15, <1>16, <1>17, <1>18 DEF IInv, replay

\* Nothing is read yet: what precedes the first edit is still to come.
LEMMA CallKeepsIInv == IInv /\ (CallWithDiff \/ CallWithWire) => IInv'
<1> SUFFICES ASSUME IInv, CallWithDiff \/ CallWithWire PROVE IInv'
  OBVIOUS
<1> USE DEF Call, replay
<1>1. /\ phase \in {"matching", "splicing"} /\ phase' = "applying"
      /\ target' \in Inputs /\ cursor' = 0
      /\ UNCHANGED <<old, new, myers, taken, read, applied, out>>
  BY DEF CallWithDiff, CallWithWire
<1>2. read = 0 /\ applied = 0 /\ out = <<>> /\ ~ wired
  BY <1>1 DEF IInv
<1>3. splices' \in Seq(SpliceOf(Seq(Items))) /\ wired' \in BOOLEAN
  BY SeqAssumption DEF CallWithDiff, CallWithWire, IInv, TypeOK, ApplyTypeOK
<1>4. TypeOK'
  <2>1. DiffTypeOK'
    BY <1>1 DEF IInv, TypeOK, DiffTypeOK, OpType, myers
  <2>2. ApplyTypeOK'
    <3>1. Len(target') \in Nat /\ Len(splices') \in Nat
      BY <1>1, <1>3, InputFacts
    <3> QED
      BY <1>1, <1>2, <1>3, <3>1 DEF IInv, TypeOK, ApplyTypeOK
  <2>3. cursor' \in 0 .. MaxUsize
    BY <1>1, SeqAssumption
  <2> QED
    BY <1>1, <1>3, <2>1, <2>2, <2>3 DEF IInv, TypeOK, myers
<1>5. AlignedInv'
  <2>1. phase' # "matching" /\ ~ wired' => i = Len(old) /\ j = Len(new)
    BY DEF CallWithDiff, CallWithWire, IInv, AlignedInv
  <2> QED
    BY <1>1, <2>1, AlignedFrame DEF IInv
<1>6. (~ wired => SplicedInv /\ ReplayedInv)'
  <2> SUFFICES ASSUME ~ wired' PROVE SplicedInv' /\ ReplayedInv'
    OBVIOUS
  <2>1. CallWithDiff
    BY DEF CallWithWire
  <2>2. splices' = splices /\ Len(splices) = Len(ops)
    BY <2>1 DEF CallWithDiff
  <2>3. SplicedInv'
    BY <1>1, <1>2, <2>2 DEF IInv, SplicedInv, SpliceOfOp, myers
  <2>4. ReplayedInv'
    <3>1. new \in Seq(Items)
      BY InputFacts DEF IInv, TypeOK, DiffTypeOK
    <3>2. SubSeq(new, 1, 0) = <<>>
      BY SubSeqEmpty
    <3> QED
      BY <1>1, <1>2, <3>2 DEF ReplayedInv, EndOld, EndNew
  <2> QED
    BY <2>3, <2>4
<1> QED
  BY <1>1, <1>4, <1>5, <1>6 DEF IInv

\* Types hold for any script; for one of diff the cursor is at the end of the
\* last edit, so the gap is the run before the next.
LEMMA ApplySpliceKeepsIInv == IInv /\ ApplySplice => IInv'
<1> SUFFICES ASSUME IInv, ApplySplice PROVE IInv'
  OBVIOUS
<1> DEFINE k == applied + 1
           splice == splices[k]
           keep == Lesser(read + Gap(splice.at), Len(target))
<1>1. /\ phase = "applying" /\ applied < Len(splices) /\ applied' = k
      /\ out' = out \o SubSeq(target, read + 1, keep) \o splice.insert
      /\ read' = Lesser(keep + splice.remove, Len(target))
      /\ UNCHANGED <<wired, old, new, myers, taken, splices, target>>
      /\ Advance(splice)
  BY DEF ApplySplice
<1>14. \/ /\ After(splice) > MaxUsize
          /\ phase' = "panicked" /\ UNCHANGED cursor
       \/ cursor' = After(splice) % (MaxUsize + 1) /\ UNCHANGED phase
  BY <1>1 DEF Advance
<1>2. DiffTypeOK /\ ApplyTypeOK /\ AlignedInv /\ cursor \in 0 .. MaxUsize
  BY DEF IInv, TypeOK
<1>3. /\ splices \in Seq(SpliceOf(Seq(Items))) /\ Len(splices) \in Nat
      /\ k \in 1 .. Len(splices) /\ k - 1 = applied /\ applied \in Nat
      /\ read \in Nat /\ cursor \in Nat /\ MaxUsize \in Nat
  BY <1>1, <1>2, SeqAssumption DEF ApplyTypeOK
<1>4. splice.at \in Nat /\ splice.remove \in Nat /\ splice.insert \in Seq(Items)
  <2>1. splice \in SpliceOf(Seq(Items))
    BY <1>3, ElementOfSeq
  <2> QED
    BY <1>3, <2>1 DEF SpliceOf
<1>5. target \in Seq(Items) /\ Len(target) \in Nat /\ read <= Len(target)
  <2>1. CASE target = <<>>
    BY <1>2, <2>1, EmptySeq DEF ApplyTypeOK
  <2>2. CASE target \in Inputs
    BY <1>2, <2>2, InputFacts DEF ApplyTypeOK
  <2> QED
    BY <1>2, <2>1, <2>2 DEF ApplyTypeOK
<1>6. Gap(splice.at) \in Nat /\ After(splice) \in Nat
  BY <1>3, <1>4 DEF Gap, After
<1>7. keep \in Nat /\ keep <= Len(target)
  BY <1>3, <1>5, <1>6 DEF Lesser
<1>8. SubSeq(target, read + 1, keep) \in Seq(Items)
  BY <1>3, <1>5, <1>7, SliceType
<1>9. out \in Seq(Items) /\ out' \in Seq(Items)
  <2>1. out \in Seq(Items)
    BY <1>2 DEF ApplyTypeOK
  <2> QED
    BY <1>1, <1>4, <1>8, <2>1, ConcatProperties
<1>10. TypeOK'
  <2>1. DiffTypeOK'
    BY <1>1, <1>2 DEF DiffTypeOK, myers
  <2>2. read' \in 0 .. Len(target)
    BY <1>1, <1>4, <1>5, <1>7 DEF Lesser
  <2>3. ApplyTypeOK'
    <3>1. applied' \in 0 .. Len(splices)
      BY <1>1, <1>3
    <3>2. /\ splices \in Seq(SpliceOf(Seq(Items))) /\ splices' = splices
          /\ target \in Inputs \cup {<<>>} /\ target' = target
      BY <1>1, <1>2 DEF ApplyTypeOK
    <3>3. read' \in 0 .. Len(target') /\ applied' \in 0 .. Len(splices')
      BY <2>2, <3>1, <3>2
    <3>4. splices' \in Seq(SpliceOf(Seq(Items))) /\ target' \in Inputs \cup {<<>>}
      BY <3>2
    <3> QED
      BY <1>9, <3>3, <3>4 DEF ApplyTypeOK
  <2>4. cursor' \in 0 .. MaxUsize
    BY <1>2, <1>6, <1>14, WrapFacts
  <2> QED
    BY <1>1, <1>14, <2>1, <2>3, <2>4 DEF IInv, TypeOK, myers
<1>11. AlignedInv'
  BY <1>1, <1>2, <1>14, AlignedFrame DEF AlignedInv
<1>12. k # 0 /\ k = applied + 1
  BY <1>3
<1> HIDE DEF k, splice
<1>13. ASSUME ~ wired' PROVE SplicedInv' /\ ReplayedInv'
  <2>1. ~ wired /\ SplicedInv /\ ReplayedInv
    BY <1>1, <1>13 DEF IInv
  <2>2. Len(splices) = Len(ops)
    BY <1>1, <2>1 DEF SplicedInv
  <2>3. splice = SpliceOfOp(ops[k])
    BY <1>3, <2>1 DEF SplicedInv, splice
  <2>4. AlignedOp(k)
    BY <1>2, <1>3, <2>2 DEF AlignedInv
  <2>5. ops[k] \in OpType /\ EndOld(k) \in Nat /\ EndNew(k) \in Nat
          /\ EndOld(k - 1) \in Nat /\ EndNew(k - 1) \in Nat
    <3>1. k \in 0 .. Len(ops) /\ k - 1 \in 0 .. Len(ops) /\ k # 0
      BY <1>3, <1>12, <2>2
    <3> QED
      BY <1>2, <3>1, OpFacts
  <2>6. /\ splice.at = ops[k].at /\ splice.remove = ops[k].remove
        /\ splice.insert = SubSeq(new, ops[k].from + 1, ops[k].to)
        /\ EndOld(k) = splice.at + splice.remove /\ EndNew(k) = ops[k].to
    <3>1. /\ splice.at = ops[k].at /\ splice.remove = ops[k].remove
          /\ splice.insert = SubSeq(new, ops[k].from + 1, ops[k].to)
      BY <2>3 DEF SpliceOfOp
    <3>2. EndOld(k) = ops[k].at + ops[k].remove /\ EndNew(k) = ops[k].to
      BY <1>12 DEF EndOld, EndNew
    <3> QED
      BY <3>1, <3>2
  <2>7. /\ old \in Seq(Items) /\ Len(old) \in Nat /\ Len(old) <= MaxUsize
        /\ new \in Seq(Items) /\ Len(new) \in Nat
    BY <1>2, InputFacts DEF DiffTypeOK
  <2>8. After(splice) = EndOld(k) /\ EndOld(k) <= MaxUsize /\ EndOld(k) <= Len(old)
    BY <1>3, <2>4, <2>5, <2>6, <2>7 DEF AlignedOp, After
  <2>9. phase' = "applying" /\ cursor' = EndOld(k)
    <3>1. EndOld(k) % (MaxUsize + 1) = EndOld(k)
      BY <2>5, <2>8, WrapFacts
    <3>2. ~ (After(splice) > MaxUsize)
      BY <1>3, <2>5, <2>8
    <3> QED
      BY <1>1, <1>14, <2>8, <3>1, <3>2
  <2>10. cursor = EndOld(k - 1) /\ Gap(splice.at) = splice.at - EndOld(k - 1)
    <3>1. cursor = EndOld(k - 1)
      BY <1>1, <1>3, <2>1 DEF ReplayedInv
    <3>2. EndOld(k - 1) <= splice.at
      BY <2>4, <2>6 DEF AlignedOp, SameRun
    <3> QED
      BY <1>4, <2>5, <3>1, <3>2 DEF Gap
  <2>11. ASSUME target = old
         PROVE  read' = EndOld(k) /\ out' = SubSeq(new, 1, EndNew(k))
    <3>1. read = EndOld(k - 1) /\ out = SubSeq(new, 1, EndNew(k - 1))
      BY <1>1, <1>3, <2>1, <2>11 DEF ReplayedInv
    <3>2. keep = splice.at
      <4>1. read + Gap(splice.at) = splice.at
        BY <1>4, <2>5, <2>10, <3>1
      <4>2. splice.at <= Len(target)
        BY <1>4, <2>6, <2>7, <2>8, <2>11
      <4> QED
        BY <1>4, <1>5, <4>1, <4>2, LesserIsFirst
    <3>3. read' = EndOld(k)
      <4>1. read' = Lesser(EndOld(k), Len(target))
        BY <1>1, <2>6, <3>2
      <4> QED
        BY <1>5, <2>5, <2>8, <2>11, <4>1, LesserIsFirst
    <3>4. /\ ops[k].from \in Nat /\ ops[k].to \in Nat /\ ops[k].at \in Nat
          /\ ops[k].from <= ops[k].to /\ ops[k].to <= Len(new) /\ ops[k].at <= Len(old)
          /\ SameRun(EndOld(k - 1), ops[k].at, EndNew(k - 1), ops[k].from)
      BY <1>4, <2>4, <2>5, <2>6, <2>7, <2>8 DEF AlignedOp, OpType
    <3>5. SubSeq(new, 1, EndNew(k - 1)) \o SubSeq(old, EndOld(k - 1) + 1, ops[k].at)
            \o SubSeq(new, ops[k].from + 1, ops[k].to) = SubSeq(new, 1, ops[k].to)
      <4>1. Rebuilds(EndOld(k - 1), ops[k].at, EndNew(k - 1), ops[k].from, ops[k].to)
        BY <2>5, <2>7, <3>4, RunThenInsert
      <4> QED
        BY <4>1 DEF Rebuilds
    <3> QED
      BY <1>1, <2>6, <2>11, <3>1, <3>2, <3>3, <3>5
  <2>12. SplicedInv'
    BY <1>1, <2>1, <2>2, <2>9 DEF SplicedInv, SpliceOfOp, myers
  <2>13. ReplayedInv'
    <3>1. EndOld(applied)' = EndOld(k) /\ EndNew(applied)' = EndNew(k)
      BY <1>1, <1>12 DEF EndOld, EndNew, myers
    <3> QED
      BY <1>1, <2>9, <2>11, <3>1 DEF ReplayedInv
  <2> QED
    BY <2>12, <2>13
<1> QED
  BY <1>1, <1>10, <1>11, <1>13, <1>14 DEF IInv

\* The rest of the target is the run behind the last edit.
LEMMA ApplyReturnsKeepsIInv == IInv /\ ApplyReturns => IInv'
<1> SUFFICES ASSUME IInv, ApplyReturns PROVE IInv'
  OBVIOUS
<1>1. /\ phase = "applying" /\ applied = Len(splices) /\ phase' = "done"
      /\ out' = out \o SubSeq(target, read + 1, Len(target))
      /\ UNCHANGED <<wired, old, new, myers, taken, splices, target, read,
                     applied, cursor>>
  BY DEF ApplyReturns, Remainder
<1>2. DiffTypeOK /\ ApplyTypeOK /\ AlignedInv
  BY DEF IInv, TypeOK
<1>3. target \in Seq(Items) /\ Len(target) \in Nat /\ read \in Nat
  <2>1. CASE target = <<>>
    BY <1>2, <2>1, EmptySeq DEF ApplyTypeOK
  <2>2. CASE target \in Inputs
    BY <1>2, <2>2, InputFacts DEF ApplyTypeOK
  <2> QED
    BY <1>2, <2>1, <2>2 DEF ApplyTypeOK
<1>4. TypeOK'
  <2>1. DiffTypeOK'
    BY <1>1, <1>2 DEF DiffTypeOK, myers
  <2>2. SubSeq(target, read + 1, Len(target)) \in Seq(Items)
    BY <1>3, SliceType
  <2>3. out' \in Seq(Items)
    BY <1>1, <1>2, <2>2, ConcatProperties DEF ApplyTypeOK
  <2>4. ApplyTypeOK'
    BY <1>1, <1>2, <2>3 DEF ApplyTypeOK
  <2> QED
    BY <1>1, <2>1, <2>4 DEF IInv, TypeOK, myers
<1>5. AlignedInv'
  BY <1>1, <1>2, AlignedFrame DEF AlignedInv
<1>6. ASSUME ~ wired' PROVE SplicedInv' /\ ReplayedInv'
  <2>1. ~ wired /\ SplicedInv /\ ReplayedInv
    BY <1>1, <1>6 DEF IInv
  <2>2. applied = Len(ops) /\ Len(ops) \in 0 .. Len(ops)
    BY <1>1, <1>2, <2>1 DEF SplicedInv, DiffTypeOK
  <2>3. SplicedInv'
    BY <1>1, <2>1 DEF SplicedInv, SpliceOfOp, myers
  <2>4. ASSUME target = old PROVE out' = new
    <3>1. /\ old \in Seq(Items) /\ Len(old) \in Nat
          /\ new \in Seq(Items) /\ Len(new) \in Nat
      BY <1>2, InputFacts DEF DiffTypeOK
    <3>2. read = EndOld(Len(ops)) /\ out = SubSeq(new, 1, EndNew(Len(ops)))
      BY <1>1, <2>1, <2>2, <2>4 DEF ReplayedInv
    <3>3. EndOld(Len(ops)) \in Nat /\ EndNew(Len(ops)) \in Nat
      BY <1>2, <2>2, OpFacts
    <3>4. SameRun(EndOld(Len(ops)), Len(old), EndNew(Len(ops)), Len(new))
      BY <1>1, <1>2, <2>1 DEF AlignedInv
    <3>5. Rebuilds(EndOld(Len(ops)), Len(old), EndNew(Len(ops)), Len(new), Len(new))
      BY <3>1, <3>3, <3>4, RunThenInsert
    <3>6. out' \o SubSeq(new, Len(new) + 1, Len(new)) = SubSeq(new, 1, Len(new))
      BY <1>1, <2>4, <3>2, <3>5 DEF Rebuilds
    <3>7. SubSeq(new, Len(new) + 1, Len(new)) = <<>> /\ SubSeq(new, 1, Len(new)) = new
      BY <3>1, SubSeqEmpty, SubSeqFull
    <3>8. out' \in Seq(Items)
      BY <1>4 DEF TypeOK, ApplyTypeOK
    <3> QED
      BY <3>6, <3>7, <3>8, ConcatEmptySeq
  <2>5. ReplayedInv'
    BY <1>1, <2>4 DEF ReplayedInv
  <2> QED
    BY <2>3, <2>5
<1> QED
  BY <1>1, <1>4, <1>5, <1>6 DEF IInv

LEMMA StutterKeepsIInv == IInv /\ UNCHANGED vars => IInv'
<1> SUFFICES ASSUME IInv, UNCHANGED vars PROVE IInv'
  OBVIOUS
<1> USE DEF vars, replay
<1>1. TypeOK'
  BY DEF IInv, TypeOK, DiffTypeOK, ApplyTypeOK, OpType, myers
<1>2. AlignedInv'
  BY AlignedFrame DEF IInv, AlignedInv
<1>3. (~ wired => SplicedInv /\ ReplayedInv)'
  BY DEF IInv, SplicedInv, ReplayedInv, SpliceOfOp, EndNew, EndOld, myers
<1> QED
  BY <1>1, <1>2, <1>3 DEF IInv

THEOREM Invariance == Spec => []IInv
<1>1. IInv /\ [Next]_vars => IInv'
  <2> SUFFICES ASSUME IInv, [Next]_vars PROVE IInv'
    OBVIOUS
  <2>1. CASE Delete
    <3>1. PICK gone \in 1 .. Len(old) - i : Record(gone, 0)
      BY <2>1 DEF Delete
    <3>2. gone \in 0 .. Len(old) - i /\ 0 \in 0 .. Len(new) - j /\ gone + 0 > 0
      BY InputFacts DEF IInv, TypeOK, DiffTypeOK
    <3> QED
      BY <3>1, <3>2, RecordKeepsIInv
  <2>2. CASE Insert
    <3>1. PICK come \in 1 .. Len(new) - j : Record(0, come)
      BY <2>2 DEF Insert
    <3>2. 0 \in 0 .. Len(old) - i /\ come \in 0 .. Len(new) - j /\ 0 + come > 0
      BY InputFacts DEF IInv, TypeOK, DiffTypeOK
    <3> QED
      BY <3>1, <3>2, RecordKeepsIInv
  <2>3. CASE Replace
    <3>1. PICK gone \in 1 .. Len(old) - i, come \in 1 .. Len(new) - j : Record(gone, come)
      BY <2>3 DEF Replace
    <3>2. gone \in 0 .. Len(old) - i /\ come \in 0 .. Len(new) - j /\ gone + come > 0
      BY InputFacts DEF IInv, TypeOK, DiffTypeOK
    <3> QED
      BY <3>1, <3>2, RecordKeepsIInv
  <2> QED
    BY <2>1, <2>2, <2>3, MatchKeepsIInv, ReturnKeepsIInv, MakeSpliceKeepsIInv,
       CallKeepsIInv, ApplySpliceKeepsIInv, ApplyReturnsKeepsIInv,
       StutterKeepsIInv DEF Next
<1> QED
  BY <1>1, InitIInv, PTL DEF Spec

-----------------------------------------------------------------------------

\* No iterator of diff or apply is read past its end and the cursor stays a
\* usize, for scripts from the wire as well.
THEOREM TypeCorrect == Spec => []TypeOK
<1>1. IInv => TypeOK
  BY DEF IInv
<1> QED
  BY <1>1, Invariance, PTL

\* apply(old, diff(old, new)) is new (seq.rs:114-118, 165-169), whichever
\* alignment Myers' algorithm found.
THEOREM DiffRoundTrip == Spec => []RoundTrip
<1>1. IInv => RoundTrip
  BY DEF IInv, RoundTrip, ReplayedInv
<1> QED
  BY <1>1, Invariance, PTL

\* The script is empty exactly when the two sequences are identical
\* (seq.rs:116), which is_empty rests on.
THEOREM EmptyExactly == Spec => []EmptyMeansIdentical
<1>1. IInv => EmptyMeansIdentical
  <2> SUFFICES ASSUME IInv, phase \in {"applying", "done"}, ~ wired
               PROVE  splices = <<>> <=> old = new
    BY DEF EmptyMeansIdentical
  <2>1. /\ old \in Seq(Items) /\ Len(old) \in Nat
        /\ new \in Seq(Items) /\ Len(new) \in Nat
    BY InputFacts DEF IInv, TypeOK, DiffTypeOK
  <2>2. ops \in Seq(OpType) /\ splices \in Seq(SpliceOf(Seq(Items)))
    BY DEF IInv, TypeOK, DiffTypeOK, ApplyTypeOK
  <2>3. splices = <<>> <=> ops = <<>>
    <3>1. Len(splices) = Len(ops)
      BY DEF IInv, SplicedInv
    <3> QED
      BY <2>2, <3>1
  <2>4. ASSUME ops = <<>> PROVE old = new
    <3>1. SameRun(EndOld(0), Len(old), EndNew(0), Len(new))
      BY <2>4 DEF IInv, AlignedInv
    <3>2. Len(old) = Len(new) /\ \A x \in 1 .. Len(old) : old[x] = new[x]
      BY <2>1, <3>1 DEF SameRun, EndOld, EndNew
    <3> QED
      BY <2>1, <3>2, SeqEqual
  <2>5. ops # <<>> => old # new
    BY DEF IInv, AlignedInv
  <2> QED
    BY <2>3, <2>4, <2>5
<1> QED
  BY <1>1, Invariance, PTL

\* The arithmetic of diff never underflows, and that of apply does not overflow
\* on a script diff made, whatever target it is replayed on (seq.rs:155, 197).
THEOREM DiffIsSafe == Spec => []DiffNeverPanics
<1>1. IInv => DiffNeverPanics
  <2> SUFFICES ASSUME IInv PROVE DiffNeverPanics
    OBVIOUS
  <2>1. phase = "panicked" => wired
    BY DEF IInv, ReplayedInv
  <2>2. ASSUME phase = "splicing", Len(splices) < Len(ops)
        PROVE  cursor <= ops[Len(splices) + 1].from
    <3> DEFINE k == Len(splices) + 1
    <3>1. Len(splices) \in Nat /\ Len(ops) \in Nat
      BY DEF IInv, TypeOK, DiffTypeOK, ApplyTypeOK
    <3>2. k \in 1 .. Len(ops) /\ k - 1 = Len(splices)
      BY <2>2, <3>1
    <3>3. cursor = EndNew(Len(splices))
      BY <2>2 DEF IInv, SplicedInv
    <3>4. AlignedOp(k)
      BY <3>2 DEF IInv, AlignedInv
    <3> HIDE DEF k
    <3>5. EndNew(k - 1) <= ops[k].from
      BY <3>4 DEF AlignedOp, SameRun
    <3> QED
      BY <3>2, <3>3, <3>5 DEF k
  <2> QED
    BY <2>1, <2>2 DEF DiffNeverPanics
<1> QED
  BY <1>1, Invariance, PTL

-----------------------------------------------------------------------------
(* Old coordinates.  A script that is in the order of the positions it        *)
(* removes, and stays within a usize, is replayed one piece of SeqApply at a  *)
(* time: the cursor stands behind what the last splice removed, the iterator  *)
(* there too or at the end of the target.                                     *)

InOrder ==
  Sorted(splices) /\ \A k \in DOMAIN splices : After(splices[k]) <= MaxUsize

\* What the first k splices make.
Placed(k) == FlattenSeq(SubSeq(Pieces(target, splices), 1, k))

PlacedInv ==
  InOrder =>
    /\ phase = "applying" =>
         /\ cursor = Behind(splices, applied)
         /\ read = Lesser(cursor, Len(target))
         /\ out = Placed(applied)
    /\ phase = "done" => out = SeqApply(target, splices)

\* Concatenating one more of the sequences.
FlattensOneMore(items, p, k) ==
  LET before == FlattenSeq(SubSeq(p, 1, k - 1))
  IN before \in Seq(items) /\ FlattenSeq(SubSeq(p, 1, k)) = before \o p[k]

LEMMA FlattenPrefix ==
  ASSUME NEW items, NEW p \in Seq(Seq(items)), NEW k \in 1 .. Len(p)
  PROVE  FlattensOneMore(items, p, k)
<1> DEFINE before == SubSeq(p, 1, k - 1)
<1>1. Len(p) \in Nat
  BY LenProperties
<1>2. p[k] \in Seq(items)
  BY <1>1, ElementOfSeq
<1>3. before \in Seq(Seq(items))
  <2>1. \A x \in 1 .. k - 1 : p[x] \in Seq(items)
    <3>1. \A x \in 1 .. k - 1 : x \in 1 .. Len(p)
      BY <1>1
    <3> QED
      BY <1>1, <3>1, ElementOfSeq
  <2> QED
    BY <1>1, <2>1, SubSeqProperties
<1>4. SubSeq(p, 1, k) = Append(before, p[k])
  <2>1. 1 \in 1 .. Len(p) /\ k \in 1 .. Len(p)
    BY <1>1
  <2>2. SubSeq(p, 1, k) = before \o <<p[k]>>
    BY <1>1, <2>1, SubSeqRecursiveSecond
  <2> HIDE DEF before
  <2> QED
    BY <1>2, <1>3, <2>2, AppendIsConcat
<1> HIDE DEF before
<1>5. FlattenSeq(before) \in Seq(items)
        /\ FlattenSeq(Append(before, p[k])) = FlattenSeq(before) \o p[k]
  BY <1>2, <1>3, FlattenAppend
<1> QED
  BY <1>4, <1>5 DEF FlattensOneMore, before

\* The next piece goes behind those before it.
OneMore(items, t, s, k) ==
  LET before == SubSeq(Pieces(t, s), 1, k - 1)
  IN /\ FlattenSeq(before) \in Seq(items) /\ Spliced(t, s, k) \in Seq(items)
     /\ FlattenSeq(SubSeq(Pieces(t, s), 1, k)) = FlattenSeq(before) \o Spliced(t, s, k)

LEMMA NextPiece ==
  ASSUME NEW items, NEW t \in Seq(items), NEW s \in Seq(Splices(items)),
         NEW k \in 1 .. Len(s)
  PROVE  OneMore(items, t, s, k)
<1> DEFINE p == Pieces(t, s)
<1>1. p \in Seq(Seq(items)) /\ Len(s) \in Nat
  BY PiecesAreSeqs, LenProperties
<1>2. DOMAIN p = 1 .. Len(s) /\ p[k] = Spliced(t, s, k)
  BY LenProperties DEF Pieces
<1> HIDE DEF p
<1>3. Len(p) = Len(s)
  BY <1>1, <1>2, LenProperties
<1>4. p[k] \in Seq(items)
  BY <1>1, <1>3, ElementOfSeq
<1>5. FlattensOneMore(items, p, k)
  BY <1>1, <1>3, FlattenPrefix
<1> QED
  BY <1>2, <1>4, <1>5 DEF OneMore, FlattensOneMore, p

\* Whether the iterator has reached the cursor or the end of the target, the
\* gap before the splice is what stands there in the target.
FromCursor(t, c, r, at, gap) ==
  LET keep == Lesser(r + gap, Len(t))
  IN /\ keep = Lesser(at, Len(t)) /\ r <= keep
     /\ SubSeq(t, r + 1, keep) = SubSeq(t, c + 1, keep)

LEMMA GapFromCursor ==
  ASSUME NEW items, NEW t \in Seq(items), NEW c \in Nat, NEW r \in Nat, NEW at \in Nat,
         NEW gap \in Nat, r = Lesser(c, Len(t)), c <= at, gap = at - c
  PROVE  FromCursor(t, c, r, at, gap)
<1>1. Len(t) \in Nat
  BY LenProperties
<1> DEFINE keep == Lesser(r + gap, Len(t))
<1>2. keep = Lesser(at, Len(t)) /\ r <= keep /\ keep \in Nat
  BY <1>1 DEF Lesser
<1>3. CASE c <= Len(t)
  <2>1. r = c
    BY <1>1, <1>3 DEF Lesser
  <2> QED
    BY <1>2, <2>1 DEF FromCursor
<1>4. CASE Len(t) < c
  <2>1. r = Len(t) /\ keep = Len(t)
    BY <1>1, <1>4 DEF Lesser
  <2>2. SubSeq(t, r + 1, keep) = <<>> /\ SubSeq(t, c + 1, keep) = <<>>
    <3>1. keep < r + 1 /\ keep < c + 1 /\ r + 1 \in Int /\ c + 1 \in Int /\ keep \in Int
      BY <1>1, <1>2, <1>4, <2>1
    <3> HIDE DEF keep
    <3> QED
      BY <3>1, SubSeqEmpty
  <2> QED
    BY <1>2, <2>2 DEF FromCursor
<1> QED
  BY <1>1, <1>3, <1>4

LEMMA LesserIsMin ==
  ASSUME NEW a \in Nat, NEW b \in Nat
  PROVE  Min({a, b}) = Lesser(a, b)
<1>1. Lesser(a, b) \in {a, b} /\ \A k \in {a, b} : Lesser(a, b) <= k
  BY DEF Lesser
<1>2. {a, b} \in SUBSET Nat
  OBVIOUS
<1> QED
  BY <1>1, <1>2, MinIs
-----------------------------------------------------------------------------

LEMMA ScriptFacts ==
  ASSUME NEW s \in Seq(SpliceOf(Seq(Items)))
  PROVE  s \in Seq(Splices(Items))
<1>1. Len(s) \in Nat /\ DOMAIN s = 1 .. Len(s)
  BY LenProperties
<1>2. ASSUME NEW k \in 1 .. Len(s) PROVE s[k] \in Splices(Items)
  <2>1. s[k] \in SpliceOf(Seq(Items))
    BY <1>1, ElementOfSeq
  <2>2. 0 .. MaxUsize \subseteq Nat
    BY SeqAssumption
  <2> QED
    BY <2>1, <2>2 DEF SpliceOf, Splices
<1>3. s \in [1 .. Len(s) -> Splices(Items)]
  <2>1. s = [k \in 1 .. Len(s) |-> s[k]]
    BY <1>1
  <2> QED
    BY <1>2, <2>1
<1> QED
  BY <1>1, <1>3, SeqDef

LEMMA ApplyFacts ==
  ASSUME TypeOK
  PROVE  /\ target \in Seq(Items) /\ Len(target) \in Nat
         /\ splices \in Seq(Splices(Items)) /\ Len(splices) \in Nat
         /\ DOMAIN splices = 1 .. Len(splices)
         /\ cursor \in Nat /\ read \in Nat /\ applied \in Nat
<1>1. target \in Seq(Items)
  BY InputFacts, EmptySeq DEF TypeOK, ApplyTypeOK
<1>2. splices \in Seq(Splices(Items))
  BY ScriptFacts DEF TypeOK, ApplyTypeOK
<1>3. Len(target) \in Nat /\ Len(splices) \in Nat /\ DOMAIN splices = 1 .. Len(splices)
  BY <1>1, <1>2, LenProperties
<1> QED
  BY <1>1, <1>2, <1>3, SeqAssumption DEF TypeOK, ApplyTypeOK

\* Nothing is replayed yet.
LEMMA CallKeepsPlaced == IInv /\ (CallWithDiff \/ CallWithWire) => PlacedInv'
<1> SUFFICES ASSUME IInv, CallWithDiff \/ CallWithWire PROVE PlacedInv'
  OBVIOUS
<1>1. /\ phase \in {"matching", "splicing"} /\ phase' = "applying"
      /\ cursor' = 0 /\ UNCHANGED <<read, applied, out>>
      /\ target' \in Inputs
  BY DEF CallWithDiff, CallWithWire, Call
<1>2. read' = 0 /\ applied' = 0 /\ out' = <<>>
  BY <1>1 DEF IInv
<1>3. Behind(splices', 0) = 0
  BY DEF Behind
<1>4. Lesser(0, Len(target')) = 0
  BY <1>1, InputFacts DEF Lesser
<1>5. Placed(0)' = <<>>
  <2>1. SubSeq(Pieces(target', splices'), 1, 0) = <<>>
    BY SubSeqEmpty
  <2> QED
    BY <2>1 DEF Placed, FlattenSeq
<1> QED
  BY <1>1, <1>2, <1>3, <1>4, <1>5 DEF PlacedInv

\* The script is sorted, so no splice begins before the cursor.
LEMMA ApplySpliceKeepsPlaced == IInv /\ PlacedInv /\ ApplySplice => PlacedInv'
<1> SUFFICES ASSUME IInv, PlacedInv, ApplySplice, InOrder' PROVE
      /\ phase' = "applying"
      /\ cursor' = Behind(splices', applied')
      /\ read' = Lesser(cursor', Len(target'))
      /\ out' = Placed(applied)'
  BY DEF PlacedInv
<1> DEFINE k == applied + 1
           splice == splices[k]
           keep == Lesser(read + Gap(splice.at), Len(target))
<1>1. /\ phase = "applying" /\ applied < Len(splices) /\ applied' = k
      /\ out' = out \o SubSeq(target, read + 1, keep) \o splice.insert
      /\ read' = Lesser(keep + splice.remove, Len(target))
      /\ UNCHANGED <<splices, target>>
      /\ Advance(splice)
  BY DEF ApplySplice
<1>2. InOrder
  BY <1>1 DEF InOrder, Sorted, After
<1>3. /\ target \in Seq(Items) /\ Len(target) \in Nat
      /\ splices \in Seq(Splices(Items)) /\ Len(splices) \in Nat
      /\ DOMAIN splices = 1 .. Len(splices)
      /\ cursor \in Nat /\ read \in Nat /\ applied \in Nat
  BY ApplyFacts DEF IInv
<1>4. k \in 1 .. Len(splices) /\ k - 1 = applied /\ k # 0
  <2>1. applied < Len(splices)
    BY <1>1
  <2> QED
    BY <1>3, <2>1
<1>5. splice.at \in Nat /\ splice.remove \in Nat /\ splice.insert \in Seq(Items)
  <2>1. splice \in Splices(Items)
    BY <1>3, <1>4, ElementOfSeq
  <2> QED
    BY <2>1 DEF Splices
<1>6. cursor = Behind(splices, applied) /\ read = Lesser(cursor, Len(target)) /\ out = Placed(applied)
  BY <1>1, <1>2 DEF PlacedInv
<1>7. cursor <= splice.at
  <2>1. CASE applied = 0
    BY <1>5, <1>6, <2>1 DEF Behind
  <2>2. CASE applied # 0
    <3>1. applied \in DOMAIN splices /\ k \in DOMAIN splices /\ applied < k
      BY <1>3, <1>4, <2>2
    <3>2. splices[applied].at + splices[applied].remove <= splices[k].at
      BY <1>2, <3>1 DEF InOrder, Sorted
    <3> QED
      BY <1>6, <2>2, <3>2 DEF Behind
  <2> QED
    BY <2>1, <2>2
<1>8. Gap(splice.at) \in Nat /\ Gap(splice.at) = splice.at - cursor
  BY <1>3, <1>5, <1>7 DEF Gap
<1>9. After(splice) \in Nat /\ After(splice) <= MaxUsize
  BY <1>2, <1>3, <1>4, <1>5 DEF InOrder, After
<1>10. cursor' = After(splice) /\ phase' = phase
  <2>1. ~ (After(splice) > MaxUsize) /\ After(splice) % (MaxUsize + 1) = After(splice)
    BY <1>9, WrapFacts, SeqAssumption
  <2> QED
    BY <1>1, <2>1 DEF Advance
<1>11. FromCursor(target, cursor, read, splice.at, Gap(splice.at))
  BY <1>3, <1>5, <1>6, <1>7, <1>8, GapFromCursor
<1>12. /\ keep = Lesser(splice.at, Len(target))
       /\ SubSeq(target, read + 1, keep) = SubSeq(target, cursor + 1, keep)
  BY <1>11 DEF FromCursor
<1> HIDE DEF keep, splice, k
<1>13. read' = Lesser(cursor', Len(target))
  BY <1>1, <1>3, <1>5, <1>10, <1>12 DEF Lesser, After
<1>14. cursor' = Behind(splices, k)
  BY <1>4, <1>10 DEF Behind, After, splice
<1>15. out' = Placed(k)
  <2> DEFINE run == SubSeq(target, cursor + 1, keep)
             before == FlattenSeq(SubSeq(Pieces(target, splices), 1, k - 1))
  <2>1. keep \in Nat /\ keep <= Len(target)
    BY <1>3, <1>5, <1>12 DEF Lesser
  <2>2. run \in Seq(Items)
    BY <1>3, <2>1, PartOf
  <2>3. Spliced(target, splices, k) = run \o splice.insert
    BY <1>3, <1>4, <1>5, <1>6, <1>12, LesserIsMin DEF Spliced, splice
  <2>4. OneMore(Items, target, splices, k)
    BY <1>3, <1>4, NextPiece
  <2>5. before \in Seq(Items) /\ Placed(k) = before \o Spliced(target, splices, k)
    BY <2>4 DEF OneMore, Placed
  <2>6. out = before
    BY <1>4, <1>6 DEF Placed
  <2> HIDE DEF run, before
  <2>7. Associate(before, run, splice.insert)
    BY <1>5, <2>2, <2>5, Associates
  <2>8. out' = (before \o run) \o splice.insert
    BY <1>1, <1>12, <2>6 DEF run
  <2> QED
    BY <2>3, <2>5, <2>7, <2>8 DEF Associate
<1> QED
  BY <1>1, <1>10, <1>13, <1>14, <1>15 DEF Placed

\* What is left of the target stands behind the last splice.
LEMMA ApplyReturnsKeepsPlaced == IInv /\ PlacedInv /\ ApplyReturns => PlacedInv'
<1> SUFFICES ASSUME IInv, PlacedInv, ApplyReturns, InOrder'
             PROVE  phase' = "done" /\ out' = SeqApply(target', splices')
  BY DEF PlacedInv
<1> DEFINE n == Len(splices)
<1>1. /\ phase = "applying" /\ applied = n /\ phase' = "done"
      /\ out' = out \o SubSeq(target, read + 1, Len(target))
      /\ UNCHANGED <<splices, target>>
  BY DEF ApplyReturns, Remainder
<1>2. InOrder
  BY <1>1 DEF InOrder, Sorted, After
<1>3. /\ target \in Seq(Items) /\ Len(target) \in Nat
      /\ splices \in Seq(Splices(Items)) /\ n \in Nat
      /\ DOMAIN splices = 1 .. n
      /\ cursor \in Nat /\ read \in Nat
  BY ApplyFacts DEF IInv
<1>4. cursor = Behind(splices, n) /\ read = Lesser(cursor, Len(target)) /\ out = Placed(n)
  BY <1>1, <1>2 DEF PlacedInv
<1>5. out = FlattenSeq(Pieces(target, splices))
  <2>1. Pieces(target, splices) \in Seq(Seq(Items))
    BY <1>3, PiecesAreSeqs
  <2>2. Len(Pieces(target, splices)) = n
    <3>1. DOMAIN Pieces(target, splices) = 1 .. n
      BY <1>3 DEF Pieces
    <3> QED
      BY <1>3, <2>1, <3>1, LenProperties
  <2>3. SubSeq(Pieces(target, splices), 1, n) = Pieces(target, splices)
    BY <2>1, <2>2, SubSeqFull
  <2> QED
    BY <1>4, <2>3 DEF Placed
<1>6. SubSeq(target, read + 1, Len(target)) = Unspliced(target, splices)
  <2>1. CASE cursor <= Len(target)
    BY <1>3, <1>4, <2>1 DEF Unspliced, Lesser
  <2>2. CASE Len(target) < cursor
    <3>1. Len(target) < read + 1 /\ Len(target) < cursor + 1
      BY <1>3, <1>4, <2>2 DEF Lesser
    <3>2. SubSeq(target, read + 1, Len(target)) = <<>>
      BY <1>3, <3>1, SubSeqEmpty
    <3>3. SubSeq(target, cursor + 1, Len(target)) = <<>>
      BY <1>3, <3>1, SubSeqEmpty
    <3> QED
      BY <1>4, <3>2, <3>3 DEF Unspliced
  <2> QED
    BY <1>3, <2>1, <2>2
<1> QED
  BY <1>1, <1>5, <1>6 DEF SeqApply, Pieces

LEMMA OthersKeepPlaced ==
  PlacedInv /\ (\/ phase' \in {"matching", "splicing"}
                \/ UNCHANGED <<phase, target, splices, cursor, read, applied, out>>)
    => PlacedInv'
BY DEF PlacedInv, InOrder, Sorted, After, Placed

\* Every at of a sorted script is a position of the target as it was before the
\* first splice, whatever the target and wherever the script comes from
\* (seq.rs:20-21): one forward pass of apply (seq.rs:183-201) is SeqApply.
THEOREM PositionsAreOld == Spec => []OldCoordinates
<1>1. Init => PlacedInv
  BY DEF Init, PlacedInv
<1>2. IInv /\ PlacedInv /\ [Next]_vars => PlacedInv'
  <2> SUFFICES ASSUME IInv, PlacedInv, [Next]_vars PROVE PlacedInv'
    OBVIOUS
  <2>1. CASE Equal \/ Delete \/ Insert \/ Replace \/ MyersReturns \/ MakeSplice
    <3>1. phase' \in {"matching", "splicing"}
      BY <2>1 DEF Equal, Delete, Insert, Replace, Record, MyersReturns, MakeSplice
    <3> QED
      BY <3>1, OthersKeepPlaced
  <2>2. CASE UNCHANGED vars
    BY <2>2, OthersKeepPlaced DEF vars, replay
  <2> QED
    BY <2>1, <2>2, CallKeepsPlaced, ApplySpliceKeepsPlaced, ApplyReturnsKeepsPlaced
       DEF Next
<1>3. PlacedInv => OldCoordinates
  BY DEF PlacedInv, OldCoordinates, InOrder
<1> QED
  BY <1>1, <1>2, <1>3, Invariance, PTL DEF Spec
-----------------------------------------------------------------------------
(* Filters.  A statement about every sequence of items is shown by the set of *)
(* those it holds of.                                                         *)

LEMMA PrefixInduction ==
  ASSUME NEW items, NEW T \in SUBSET Seq(items),
         <<>> \in T, \A s \in T, x \in items : Append(s, x) \in T
  PROVE  Seq(items) \subseteq T
<1> SUFFICES ASSUME NEW s \in Seq(items) PROVE s \in T
  OBVIOUS
<1> DEFINE Reached == {n \in Nat : n <= Len(s) => SubSeq(s, 1, n) \in T}
<1>1. Len(s) \in Nat
  BY LenProperties
<1>2. 0 \in Reached
  <2>1. SubSeq(s, 1, 0) = <<>>
    BY SubSeqEmpty
  <2> QED
    BY <2>1
<1>3. ASSUME NEW n \in Nat, SubSeq(s, 1, n) \in T, n + 1 <= Len(s)
      PROVE  SubSeq(s, 1, n + 1) \in T
  <2>1. n + 1 \in 1 .. Len(s) /\ 1 \in 1 .. Len(s) /\ n + 1 \in 1 .. Len(s)
    BY <1>1, <1>3
  <2>2. SubSeq(s, 1, n + 1) = SubSeq(s, 1, (n + 1) - 1) \o <<s[n + 1]>>
    BY <2>1, SubSeqRecursiveSecond
  <2>3. (n + 1) - 1 = n
    OBVIOUS
  <2>4. SubSeq(s, 1, n) \in T /\ s[n + 1] \in items
    BY <1>1, <1>3, <2>1, ElementOfSeq
  <2>5. SubSeq(s, 1, n) \o <<s[n + 1]>> = Append(SubSeq(s, 1, n), s[n + 1])
    BY <2>4, AppendIsConcat
  <2> QED
    BY <2>2, <2>3, <2>4, <2>5
<1>4. ASSUME NEW n \in Nat, n \in Reached PROVE n + 1 \in Reached
  <2>1. n + 1 <= Len(s) => SubSeq(s, 1, n) \in T
    BY <1>1, <1>4
  <2> QED
    BY <1>3, <2>1
<1> HIDE DEF Reached
<1>5. Len(s) \in Reached
  BY <1>1, <1>2, <1>4, Induction
<1>6. SubSeq(s, 1, Len(s)) \in T
  BY <1>1, <1>5 DEF Reached
<1> QED
  BY <1>6, SubSeqFull

RangeGrows(s, x) == Range(Append(s, x)) = Range(s) \cup {x}

LEMMA RangeAppend ==
  ASSUME NEW items, NEW s \in Seq(items), NEW x \in items
  PROVE  RangeGrows(s, x) /\ Range(<<>>) = {}
<1>1. Append(s, x) = s \o <<x>> /\ <<x>> \in Seq(items)
  BY AppendIsConcat
<1>2. Range(s \o <<x>>) = Range(s) \cup Range(<<x>>)
  BY <1>1, RangeConcatenation
<1>3. Range(<<x>>) = {x} /\ Range(<<>>) = {}
  BY DEF Range
<1> QED
  BY <1>1, <1>2, <1>3 DEF RangeGrows

Chosen(s, S) == [k \in DOMAIN s |-> IF s[k] \in S THEN <<s[k]>> ELSE <<>>]

LEMMA ChosenAppend ==
  ASSUME NEW items, NEW s \in Seq(items), NEW x \in items, NEW S
  PROVE  /\ Chosen(s, S) \in Seq(Seq(items))
         /\ Chosen(Append(s, x), S) = Append(Chosen(s, S), IF x \in S THEN <<x>> ELSE <<>>)
<1> DEFINE more == Append(s, x)
           c == IF x \in S THEN <<x>> ELSE <<>>
           p == Chosen(s, S)
           q == Chosen(more, S)
           pc == Append(p, c)
<1>1. Len(s) \in Nat /\ DOMAIN s = 1 .. Len(s)
  BY LenProperties
<1>2. /\ more \in Seq(items) /\ Len(more) = Len(s) + 1
      /\ \A k \in 1 .. Len(s) : more[k] = s[k]
      /\ more[Len(s) + 1] = x
  BY AppendProperties
<1>3. DOMAIN more = 1 .. Len(s) + 1
  BY <1>2, LenProperties
<1>4. c \in Seq(items)
  BY EmptySeq
<1>5. p \in Seq(Seq(items)) /\ Len(p) = Len(s) /\ \A k \in 1 .. Len(s) :
        p[k] = IF s[k] \in S THEN <<s[k]>> ELSE <<>>
  <2>1. \A k \in 1 .. Len(s) : s[k] \in items
    BY <1>1, ElementOfSeq
  <2>2. p \in [1 .. Len(s) -> Seq(items)]
    BY <1>1, <2>1, EmptySeq DEF Chosen
  <2>3. p \in Seq(Seq(items))
    BY <1>1, <2>2, SeqDef
  <2> QED
    BY <1>1, <2>2, <2>3, LenProperties DEF Chosen
<1> HIDE DEF more, c, p
<1>6. DOMAIN q = 1 .. Len(s) + 1 /\ \A k \in 1 .. Len(s) + 1 :
        q[k] = IF more[k] \in S THEN <<more[k]>> ELSE <<>>
  BY <1>3 DEF Chosen
<1> HIDE DEF q
<1>7. q[Len(s) + 1] = c /\ \A k \in 1 .. Len(s) : q[k] = p[k]
  <2>1. Len(s) + 1 \in 1 .. Len(s) + 1
    BY <1>1
  <2>2. q[Len(s) + 1] = IF x \in S THEN <<x>> ELSE <<>>
    BY <1>2, <1>6, <2>1
  <2>3. ASSUME NEW k \in 1 .. Len(s) PROVE q[k] = p[k]
    <3>1. k \in 1 .. Len(s) + 1
      BY <1>1
    <3>2. q[k] = IF s[k] \in S THEN <<s[k]>> ELSE <<>>
      BY <1>2, <1>6, <3>1
    <3> QED
      BY <1>5, <3>2
  <2> QED
    BY <2>2, <2>3 DEF c
<1>8. /\ pc \in Seq(Seq(items)) /\ Len(pc) = Len(s) + 1
      /\ \A k \in 1 .. Len(s) : pc[k] = p[k]
      /\ pc[Len(s) + 1] = c
  BY <1>4, <1>5, AppendProperties
<1>9. DOMAIN pc = 1 .. Len(s) + 1
  BY <1>8, LenProperties
<1> HIDE DEF pc
<1>10. ASSUME NEW k \in 1 .. Len(s) + 1 PROVE q[k] = pc[k]
  <2>1. k \in 1 .. Len(s) \/ k = Len(s) + 1
    BY <1>1
  <2> QED
    BY <1>7, <1>8, <2>1
<1>11. q = [k \in DOMAIN q |-> q[k]] /\ pc = [k \in DOMAIN pc |-> pc[k]]
  BY <1>8, LenProperties DEF q, Chosen
<1>12. q = pc
  BY <1>6, <1>9, <1>10, <1>11
<1> QED
  BY <1>5, <1>12 DEF q, pc, p, c, more

AmongGrows(items, s, x, S) ==
  /\ Among(s, S) \in Seq(items)
  /\ Among(Append(s, x), S) = IF x \in S THEN Append(Among(s, S), x) ELSE Among(s, S)

LEMMA AmongAppend ==
  ASSUME NEW items, NEW s \in Seq(items), NEW x \in items, NEW S
  PROVE  AmongGrows(items, s, x, S) /\ Among(<<>>, S) = <<>>
<1> DEFINE c == IF x \in S THEN <<x>> ELSE <<>>
           a == Among(s, S)
<1>1. /\ Chosen(s, S) \in Seq(Seq(items))
      /\ Chosen(Append(s, x), S) = Append(Chosen(s, S), c)
  BY ChosenAppend
<1>2. c \in Seq(items)
  BY EmptySeq
<1> HIDE DEF c
<1>3. a = FlattenSeq(Chosen(s, S)) /\ Among(Append(s, x), S) = FlattenSeq(Chosen(Append(s, x), S))
  BY DEF Among, Chosen
<1>4. a \in Seq(items) /\ Among(Append(s, x), S) = a \o c
  BY <1>1, <1>2, <1>3, FlattenAppend
<1>5. Among(<<>>, S) = <<>>
  BY DEF Among, FlattenSeq
<1> HIDE DEF a
<1>6. a \o <<>> = a /\ Append(a, x) = a \o <<x>>
  BY <1>4, ConcatEmptySeq, AppendIsConcat
<1> QED
  BY <1>4, <1>5, <1>6 DEF AmongGrows, a, c

AmongJoins(s, t, S) == Among(s \o t, S) = Among(s, S) \o Among(t, S)

LEMMA AmongConcat ==
  ASSUME NEW items, NEW s \in Seq(items), NEW t \in Seq(items), NEW S
  PROVE  AmongJoins(s, t, S)
<1> DEFINE T == {u \in Seq(items) : AmongJoins(s, u, S)}
<1>1. \A u \in Seq(items) : Among(u, S) \in Seq(items)
  <2> SUFFICES ASSUME NEW u \in Seq(items) PROVE Among(u, S) \in Seq(items)
    OBVIOUS
  <2>1. CASE items = {}
    <3>1. u = <<>>
      BY <2>1, SequenceEmptyOrAppend
    <3>2. Among(<<>>, S) = <<>>
      BY DEF Among, FlattenSeq
    <3> QED
      BY <3>1, <3>2, EmptySeq
  <2>2. CASE items # {}
    <3>1. PICK x : x \in items
      BY <2>2
    <3> QED
      BY <3>1, AmongAppend DEF AmongGrows
  <2> QED
    BY <2>1, <2>2
<1>2. <<>> \in T
  <2>1. Among(<<>>, S) = <<>>
    BY DEF Among, FlattenSeq
  <2>2. s \o <<>> = s /\ Among(s, S) \o <<>> = Among(s, S)
    BY <1>1, ConcatEmptySeq
  <2> QED
    BY <2>1, <2>2, EmptySeq DEF AmongJoins
<1>3. ASSUME NEW u \in T, NEW x \in items PROVE Append(u, x) \in T
  <2> DEFINE a == Among(s, S)
             b == Among(u, S)
  <2>1. u \in Seq(items) /\ s \o u \in Seq(items) /\ Append(u, x) \in Seq(items) /\ <<x>> \in Seq(items)
    BY ConcatProperties, AppendProperties
  <2>2. s \o Append(u, x) = Append(s \o u, x)
    <3>1. Append(u, x) = u \o <<x>> /\ Append(s \o u, x) = (s \o u) \o <<x>>
      BY <2>1, AppendIsConcat
    <3>2. Associate(s, u, <<x>>)
      BY <2>1, Associates
    <3> QED
      BY <3>1, <3>2 DEF Associate
  <2>3. a \in Seq(items) /\ b \in Seq(items) /\ Among(s \o u, S) = a \o b
    BY <1>1, <2>1 DEF AmongJoins
  <2>4. AmongGrows(items, s \o u, x, S) /\ AmongGrows(items, u, x, S)
    BY <2>1, AmongAppend
  <2>5. /\ Among(Append(s \o u, x), S) = IF x \in S THEN Append(a \o b, x) ELSE a \o b
        /\ Among(Append(u, x), S) = IF x \in S THEN Append(b, x) ELSE b
    BY <2>3, <2>4 DEF AmongGrows
  <2>6. Append(a \o b, x) = a \o Append(b, x)
    <3> HIDE DEF a, b
    <3>1. a \o b \in Seq(items)
      BY <2>3, ConcatProperties
    <3>2. Append(b, x) = b \o <<x>> /\ Append(a \o b, x) = (a \o b) \o <<x>>
      BY <2>3, <3>1, AppendIsConcat
    <3>3. Associate(a, b, <<x>>)
      BY <2>1, <2>3, Associates
    <3> QED
      BY <3>2, <3>3 DEF Associate
  <2>7. AmongJoins(s, Append(u, x), S)
    BY <2>2, <2>5, <2>6 DEF AmongJoins
  <2> QED
    BY <2>1, <2>7
<1> HIDE DEF T
<1>4. T \in SUBSET Seq(items)
  BY DEF T
<1>5. Seq(items) \subseteq T
  BY <1>2, <1>3, <1>4, PrefixInduction
<1> QED
  BY <1>5 DEF T

\* A filter keeps what is in the set, and depends on nothing else.
LEMMA AmongFacts ==
  ASSUME NEW items, NEW s \in Seq(items), NEW S
  PROVE  /\ Among(s, S) \in Seq(items)
         /\ Range(Among(s, S)) = Range(s) \cap S
         /\ Range(s) \subseteq S => Among(s, S) = s
         /\ Range(s) \cap S = {} => Among(s, S) = <<>>
<1> DEFINE T == {u \in Seq(items) :
                   /\ Among(u, S) \in Seq(items)
                   /\ Range(Among(u, S)) = Range(u) \cap S
                   /\ Range(u) \subseteq S => Among(u, S) = u
                   /\ Range(u) \cap S = {} => Among(u, S) = <<>>}
<1>1. <<>> \in T
  <2>1. Among(<<>>, S) = <<>>
    BY DEF Among, FlattenSeq
  <2>2. Range(<<>>) = {}
    BY DEF Range
  <2> QED
    BY <2>1, <2>2, EmptySeq
<1>2. ASSUME NEW u \in T, NEW x \in items PROVE Append(u, x) \in T
  <2> DEFINE a == Among(u, S)
             b == Among(Append(u, x), S)
  <2>1. u \in Seq(items) /\ a \in Seq(items) /\ Append(u, x) \in Seq(items) /\ Append(a, x) \in Seq(items)
    BY AppendProperties
  <2>2. b = IF x \in S THEN Append(a, x) ELSE a
    <3>1. AmongGrows(items, u, x, S)
      BY <2>1, AmongAppend
    <3> QED
      BY <3>1 DEF AmongGrows
  <2>3. Range(Append(u, x)) = Range(u) \cup {x} /\ Range(Append(a, x)) = Range(a) \cup {x}
    BY <2>1, RangeAppend DEF RangeGrows
  <2>4. /\ Range(a) = Range(u) \cap S
        /\ Range(u) \subseteq S => a = u
        /\ Range(u) \cap S = {} => a = <<>>
    OBVIOUS
  <2> HIDE DEF a, b
  <2>5. b \in Seq(items) /\ Range(b) = Range(Append(u, x)) \cap S
    BY <2>1, <2>2, <2>3, <2>4
  <2>6. Range(Append(u, x)) \subseteq S => b = Append(u, x)
    BY <2>2, <2>3, <2>4
  <2>7. Range(Append(u, x)) \cap S = {} => b = <<>>
    BY <2>2, <2>3, <2>4
  <2> QED
    BY <2>1, <2>5, <2>6, <2>7 DEF b
<1> HIDE DEF T
<1>3. T \in SUBSET Seq(items)
  BY DEF T
<1>4. Seq(items) \subseteq T
  BY <1>1, <1>2, <1>3, PrefixInduction
<1> QED
  BY <1>4 DEF T

LEMMA AmongSame ==
  ASSUME NEW s, NEW S, NEW R, Range(s) \cap S = Range(s) \cap R
  PROVE  Among(s, S) = Among(s, R)
<1>1. \A k \in DOMAIN s : s[k] \in S <=> s[k] \in R
  BY DEF Range
<1>2. [k \in DOMAIN s |-> IF s[k] \in S THEN <<s[k]>> ELSE <<>>]
        = [k \in DOMAIN s |-> IF s[k] \in R THEN <<s[k]>> ELSE <<>>]
  BY <1>1
<1> QED
  BY <1>2 DEF Among
-----------------------------------------------------------------------------
(* What the first splices insert, and how many items they say to remove.      *)

Inserts == [k \in DOMAIN splices |-> splices[k].insert]

InsertedBy(k) == FlattenSeq(SubSeq(Inserts, 1, k))

LEMMA InsertsFacts ==
  ASSUME splices \in Seq(Splices(Items))
  PROVE  /\ Inserts \in Seq(Seq(Items)) /\ Len(Inserts) = Len(splices)
         /\ \A k \in 1 .. Len(splices) : Inserts[k] = splices[k].insert
<1>1. Len(splices) \in Nat /\ DOMAIN splices = 1 .. Len(splices)
  BY LenProperties
<1>2. \A k \in 1 .. Len(splices) : splices[k] \in Splices(Items)
  BY <1>1, ElementOfSeq
<1>3. Inserts \in [1 .. Len(splices) -> Seq(Items)]
  BY <1>1, <1>2 DEF Inserts, Splices
<1>4. Inserts \in Seq(Seq(Items))
  BY <1>1, <1>3, SeqDef
<1> QED
  BY <1>1, <1>3, <1>4, LenProperties DEF Inserts

LEMMA InsertedByFacts ==
  ASSUME splices \in Seq(Splices(Items))
  PROVE  /\ InsertedBy(0) = <<>>
         /\ InsertedBy(Len(splices)) = Inserted
         /\ \A k \in 1 .. Len(splices) :
              /\ InsertedBy(k - 1) \in Seq(Items)
              /\ InsertedBy(k) = InsertedBy(k - 1) \o splices[k].insert
<1>1. InsertedBy(0) = <<>>
  <2>1. SubSeq(Inserts, 1, 0) = <<>>
    BY SubSeqEmpty
  <2> QED
    BY <2>1 DEF InsertedBy, FlattenSeq
<1>2. InsertedBy(Len(splices)) = Inserted
  <2>1. SubSeq(Inserts, 1, Len(splices)) = Inserts
    BY InsertsFacts, SubSeqFull
  <2> QED
    BY <2>1 DEF InsertedBy, Inserted, Inserts
<1>3. ASSUME NEW k \in 1 .. Len(splices)
      PROVE  /\ InsertedBy(k - 1) \in Seq(Items)
             /\ InsertedBy(k) = InsertedBy(k - 1) \o splices[k].insert
  <2>1. FlattensOneMore(Items, Inserts, k)
    BY InsertsFacts, FlattenPrefix
  <2> QED
    BY <2>1, InsertsFacts DEF FlattensOneMore, InsertedBy
<1> QED
  BY <1>1, <1>2, <1>3

\* What is put in one of the sequences is in their concatenation.
LEMMA FlattenCovers ==
  ASSUME NEW items, NEW p \in Seq(Seq(items)), NEW k \in DOMAIN p
  PROVE  Range(p[k]) \subseteq Range(FlattenSeq(p))
<1> DEFINE T == {u \in Seq(Seq(items)) :
                   \A n \in DOMAIN u : Range(u[n]) \subseteq Range(FlattenSeq(u))}
<1>1. <<>> \in T
  BY EmptySeq
<1>2. ASSUME NEW u \in T, NEW x \in Seq(items) PROVE Append(u, x) \in T
  <2> DEFINE more == Append(u, x)
  <2>1. u \in Seq(Seq(items))
    OBVIOUS
  <2>2. FlattenSeq(more) = FlattenSeq(u) \o x /\ FlattenSeq(u) \in Seq(items)
    BY <2>1, FlattenAppend
  <2>3. Range(FlattenSeq(more)) = Range(FlattenSeq(u)) \cup Range(x)
    BY <2>2, RangeConcatenation
  <2>4. /\ more \in Seq(Seq(items)) /\ Len(more) = Len(u) + 1
        /\ \A n \in 1 .. Len(u) : more[n] = u[n]
        /\ more[Len(u) + 1] = x
    BY <2>1, AppendProperties
  <2>5. DOMAIN u = 1 .. Len(u) /\ DOMAIN more = 1 .. Len(u) + 1 /\ Len(u) \in Nat
    BY <2>1, <2>4, LenProperties
  <2> HIDE DEF more
  <2>6. ASSUME NEW n \in DOMAIN more PROVE Range(more[n]) \subseteq Range(FlattenSeq(more))
    <3>1. n \in 1 .. Len(u) \/ n = Len(u) + 1
      BY <2>5
    <3>2. CASE n \in 1 .. Len(u)
      <4>1. Range(u[n]) \subseteq Range(FlattenSeq(u))
        BY <2>5, <3>2
      <4> QED
        BY <2>3, <2>4, <3>2, <4>1
    <3>3. CASE n = Len(u) + 1
      BY <2>3, <2>4, <3>3
    <3> QED
      BY <3>1, <3>2, <3>3
  <2> QED
    BY <2>4, <2>6 DEF more
<1> HIDE DEF T
<1>3. T \in SUBSET Seq(Seq(items))
  BY DEF T
<1>4. Seq(Seq(items)) \subseteq T
  BY <1>1, <1>2, <1>3, PrefixInduction
<1> QED
  BY <1>4 DEF T

\* sum is what Removes adds up.
IsRemoves(s, sum) ==
  sum = [k \in 0 .. Len(s) |->
           IF k = 0 THEN 0 ELSE sum[k - 1] + s[k].remove]

LEMMA RemovesExists ==
  ASSUME NEW items, NEW s \in Seq(Splices(items))
  PROVE  \E sum : IsRemoves(s, sum)
<1> DEFINE Upto(f, n) ==
             f = [k \in 0 .. n |-> IF k = 0 THEN 0 ELSE f[k - 1] + s[k].remove]
           Reached == {n \in Nat : \E f : Upto(f, n)}
<1>1. 0 \in Reached
  <2>1. Upto([k \in 0 .. 0 |-> 0], 0)
    OBVIOUS
  <2> QED
    BY <2>1
<1>2. ASSUME NEW n \in Nat, n \in Reached
      PROVE  n + 1 \in Reached
  <2>1. PICK f : Upto(f, n)
    BY <1>2
  <2> DEFINE g == [k \in 0 .. n + 1 |->
                     IF k <= n THEN f[k] ELSE f[k - 1] + s[k].remove]
  <2>2. \A k \in 0 .. n : f[k] = IF k = 0 THEN 0 ELSE f[k - 1] + s[k].remove
    BY <2>1
  <2>3. \A k \in 0 .. n + 1 : g[k] = IF k = 0 THEN 0 ELSE g[k - 1] + s[k].remove
    BY <2>2
  <2>4. g = [k \in 0 .. n + 1 |-> g[k]]
    OBVIOUS
  <2> HIDE DEF g
  <2>5. Upto(g, n + 1)
    BY <2>3, <2>4
  <2> HIDE DEF Upto
  <2> QED
    BY <2>5
<1> HIDE DEF Reached
<1>3. Len(s) \in Reached
  BY <1>1, <1>2, Induction, LenProperties
<1> QED
  BY <1>3 DEF Reached, IsRemoves

LEMMA RemovesFacts ==
  ASSUME NEW items, NEW s \in Seq(Splices(items))
  PROVE  /\ Removes(s, 0) = 0
         /\ \A k \in 1 .. Len(s) : Removes(s, k) = Removes(s, k - 1) + s[k].remove
         /\ \A k \in 0 .. Len(s) : Removes(s, k) \in Nat
<1> DEFINE sum == CHOOSE f : IsRemoves(s, f)
           Counted == {n \in Nat : n <= Len(s) => sum[n] \in Nat}
<1>1. IsRemoves(s, sum)
  BY RemovesExists
<1>2. \A k : Removes(s, k) = sum[k]
  BY DEF Removes, IsRemoves
<1> HIDE DEF sum
<1>3. \A k \in 0 .. Len(s) :
        sum[k] = IF k = 0 THEN 0 ELSE sum[k - 1] + s[k].remove
  BY <1>1 DEF IsRemoves
<1>4. Len(s) \in Nat /\ \A k \in 1 .. Len(s) : s[k].remove \in Nat
  <2>1. \A k \in 1 .. Len(s) : s[k] \in Splices(items)
    BY LenProperties, ElementOfSeq
  <2> QED
    BY <2>1, LenProperties DEF Splices
<1>5. 0 \in Counted
  BY <1>3, <1>4
<1>6. ASSUME NEW n \in Nat, n \in Counted PROVE n + 1 \in Counted
  <2> SUFFICES ASSUME n + 1 <= Len(s) PROVE sum[n + 1] \in Nat
    OBVIOUS
  <2>1. /\ sum[n] \in Nat /\ n + 1 \in 0 .. Len(s) /\ n + 1 # 0
        /\ (n + 1) - 1 = n /\ n + 1 \in 1 .. Len(s)
    BY <1>4, <1>6
  <2>2. sum[n + 1] = sum[n] + s[n + 1].remove /\ s[n + 1].remove \in Nat
    BY <1>3, <1>4, <2>1
  <2> QED
    BY <2>1, <2>2
<1> HIDE DEF Counted
<1>7. \A n \in Nat : n \in Counted
  BY <1>5, <1>6, Induction
<1>8. \A k \in 0 .. Len(s) : sum[k] \in Nat
  BY <1>4, <1>7 DEF Counted
<1> QED
  BY <1>2, <1>3, <1>4, <1>8
-----------------------------------------------------------------------------
(* Clamping.  On a target without repeats, and inserts of other items, what   *)
(* apply has put out tells where each item comes from.                        *)

LEMMA SliceRange ==
  ASSUME NEW items, NEW t \in Seq(items), NEW a \in Nat, NEW b \in Nat, a <= b, b <= Len(t)
  PROVE  /\ SubSeq(t, a + 1, b) \in Seq(items) /\ Len(SubSeq(t, a + 1, b)) = b - a
         /\ Range(SubSeq(t, a + 1, b)) = {t[x] : x \in a + 1 .. b}
<1> DEFINE s == SubSeq(t, a + 1, b)
<1>1. Len(t) \in Nat /\ \A x \in a + 1 .. b : x \in 1 .. Len(t)
  BY LenProperties
<1>2. \A x \in a + 1 .. b : t[x] \in items
  BY <1>1, ElementOfSeq
<1>3. /\ s \in Seq(items) /\ Len(s) = b - a
      /\ \A x \in 1 .. b - a : s[x] = t[a + x]
  <2>1. /\ s \in Seq(items) /\ Len(s) = IF a + 1 <= b THEN b - (a + 1) + 1 ELSE 0
        /\ \A x \in 1 .. b - (a + 1) + 1 : s[x] = t[(a + 1) + x - 1]
    BY <1>2, SubSeqProperties
  <2> QED
    BY <2>1
<1> HIDE DEF s
<1>4. DOMAIN s = 1 .. b - a
  BY <1>3, LenProperties
<1>5. Range(s) \subseteq {t[x] : x \in a + 1 .. b}
  <2> SUFFICES ASSUME NEW y \in 1 .. b - a PROVE s[y] \in {t[x] : x \in a + 1 .. b}
    BY <1>4 DEF Range
  <2>1. a + y \in a + 1 .. b /\ s[y] = t[a + y]
    BY <1>3
  <2> QED
    BY <2>1
<1>6. {t[x] : x \in a + 1 .. b} \subseteq Range(s)
  <2> SUFFICES ASSUME NEW x \in a + 1 .. b PROVE t[x] \in Range(s)
    OBVIOUS
  <2>1. x - a \in 1 .. b - a /\ a + (x - a) = x
    OBVIOUS
  <2>2. s[x - a] = t[x]
    BY <1>3, <2>1
  <2> QED
    BY <1>4, <2>1, <2>2 DEF Range
<1> QED
  BY <1>3, <1>5, <1>6 DEF s

\* The items of a target without repeats are each in one of its pieces.
LEMMA PiecesApart ==
  ASSUME NEW items, NEW t \in Seq(items), IsInjective(t),
         NEW a \in Nat, NEW b \in Nat, NEW c \in Nat, NEW d \in Nat,
         a <= b, b <= c, c <= d, d <= Len(t)
  PROVE  /\ Range(SubSeq(t, a + 1, b)) \cap Range(SubSeq(t, c + 1, d)) = {}
         /\ Range(SubSeq(t, a + 1, b)) \subseteq Range(t)
<1>1. Len(t) \in Nat /\ DOMAIN t = 1 .. Len(t) /\ b <= Len(t)
  BY LenProperties
<1>2. /\ Range(SubSeq(t, a + 1, b)) = {t[x] : x \in a + 1 .. b}
      /\ Range(SubSeq(t, c + 1, d)) = {t[x] : x \in c + 1 .. d}
  <2>1. Range(SubSeq(t, a + 1, b)) = {t[x] : x \in a + 1 .. b}
    BY <1>1, SliceRange
  <2>2. Range(SubSeq(t, c + 1, d)) = {t[x] : x \in c + 1 .. d}
    BY <1>1, SliceRange
  <2> QED
    BY <2>1, <2>2
<1>3. ASSUME NEW x \in a + 1 .. b, NEW y \in c + 1 .. d PROVE t[x] # t[y]
  <2>1. x \in DOMAIN t /\ y \in DOMAIN t /\ x # y
    BY <1>1
  <2> QED
    BY <2>1 DEF IsInjective
<1>4. \A x \in a + 1 .. b : t[x] \in Range(t)
  <2>1. \A x \in a + 1 .. b : x \in DOMAIN t
    BY <1>1
  <2> QED
    BY <2>1 DEF Range
<1> QED
  BY <1>2, <1>3, <1>4

\* What out has of the target, of which a have been read.
FaithfulTo(t, a, o) ==
  LET kept == Among(o, Range(t)) IN kept = Among(SubSeq(t, 1, a), Range(kept))

LenKept(t, o) == Len(Among(o, Range(t)))

\* One splice: from a to b the target is copied, from b to c it is skipped.
Copied(items, t, a, b, c, o, ins) ==
  LET after == o \o SubSeq(t, a + 1, b) \o ins
  IN /\ after \in Seq(items)
     /\ Among(after, items \ Range(t)) = Among(o, items \ Range(t)) \o ins
     /\ FaithfulTo(t, c, after)
     /\ LenKept(t, after) = LenKept(t, o) + (b - a)

LEMMA CopyFacts ==
  ASSUME NEW items, NEW t \in Seq(items), IsInjective(t), NEW o \in Seq(items),
         NEW ins \in Seq(items), Range(ins) \cap Range(t) = {},
         NEW a \in Nat, NEW b \in Nat, NEW c \in Nat, a <= b, b <= c, c <= Len(t),
         FaithfulTo(t, a, o)
  PROVE  Copied(items, t, a, b, c, o, ins)
<1> DEFINE T == Range(t)
           F == items \ T
           P == SubSeq(t, 1, a)
           Q == SubSeq(t, a + 1, b)
           R == SubSeq(t, b + 1, c)
           after == o \o Q \o ins
           kept == Among(o, T)
           now == Among(after, T)
<1>1. Len(t) \in Nat /\ 0 \in Nat /\ 0 + 1 = 1 /\ b <= Len(t) /\ a <= Len(t) /\ 0 <= a
  BY LenProperties
<1>2. P \in Seq(items) /\ Q \in Seq(items) /\ Len(Q) = b - a /\ R \in Seq(items)
  <2>1. SubSeq(t, 0 + 1, a) \in Seq(items)
    BY <1>1, SliceRange
  <2> QED
    BY <1>1, <2>1, SliceRange
<1>3. /\ Range(P) \cap Range(Q) = {} /\ Range(P) \cap Range(R) = {}
      /\ Range(Q) \cap Range(R) = {} /\ Range(Q) \subseteq T
  <2>1. Range(SubSeq(t, 0 + 1, a)) \cap Range(Q) = {}
    <3>1. 0 <= a /\ a <= a
      BY <1>1
    <3> QED
      BY <1>1, <3>1, PiecesApart
  <2>2. Range(SubSeq(t, 0 + 1, a)) \cap Range(R) = {}
    <3>1. a <= b
      OBVIOUS
    <3> QED
      BY <1>1, <3>1, PiecesApart
  <2>3. Range(Q) \cap Range(R) = {} /\ Range(Q) \subseteq T
    BY <1>1, PiecesApart
  <2> QED
    BY <1>1, <2>1, <2>2, <2>3
<1>4. SubSeq(t, 1, c) = (P \o Q) \o R
  <2>1. 1 \in 1 .. Len(t) + 1 /\ a \in 1 - 1 .. Len(t) /\ b \in a .. Len(t)
          /\ b \in 1 - 1 .. Len(t) /\ c \in b .. Len(t)
    BY <1>1
  <2>2. P \o Q = SubSeq(t, 1, b)
    BY <2>1, ConcatAdjacentSubSeq
  <2>3. SubSeq(t, 1, b) \o R = SubSeq(t, 1, c)
    BY <2>1, ConcatAdjacentSubSeq
  <2> QED
    BY <2>2, <2>3
<1>5. kept = Among(P, Range(kept)) /\ Range(ins) \cap T = {} /\ Range(ins) \subseteq items
  <2>1. Range(ins) \subseteq items
    BY RangeOfSeq
  <2> QED
    BY <2>1 DEF FaithfulTo
<1> HIDE DEF T, P, Q, R
<1>6. o \o Q \in Seq(items) /\ after \in Seq(items) /\ P \o Q \in Seq(items)
  BY <1>2, ConcatProperties
<1>7. ASSUME NEW S PROVE Among(after, S) = (Among(o, S) \o Among(Q, S)) \o Among(ins, S)
  <2>1. AmongJoins(o \o Q, ins, S) /\ AmongJoins(o, Q, S)
    BY <1>2, <1>6, AmongConcat
  <2> QED
    BY <2>1 DEF AmongJoins
<1> HIDE DEF after
<1>8. Among(after, F) = Among(o, F) \o ins
  <2>1. Among(Q, F) = <<>> /\ Among(ins, F) = ins /\ Among(o, F) \in Seq(items)
    <3>1. Range(Q) \cap F = {} /\ Range(ins) \subseteq F
      BY <1>3, <1>5
    <3> QED
      BY <1>2, <3>1, AmongFacts
  <2>2. Among(o, F) \o <<>> = Among(o, F)
    BY <2>1, ConcatEmptySeq
  <2> QED
    BY <1>7, <2>1, <2>2
<1> HIDE DEF F
<1>9. kept \in Seq(items) /\ now = kept \o Q
  <2>1. Among(Q, T) = Q /\ Among(ins, T) = <<>> /\ kept \in Seq(items)
    BY <1>2, <1>3, <1>5, AmongFacts
  <2>2. kept \o Q \in Seq(items)
    BY <1>2, <2>1, ConcatProperties
  <2>3. (kept \o Q) \o <<>> = kept \o Q
    BY <2>2, ConcatEmptySeq
  <2>4. now = (kept \o Among(Q, T)) \o Among(ins, T)
    BY <1>7
  <2> QED
    BY <2>1, <2>3, <2>4
<1> HIDE DEF kept, now
<1>10. Len(now) = Len(kept) + (b - a)
  <2>1. Len(kept) \in Nat /\ Len(kept \o Q) = Len(kept) + Len(Q)
    BY <1>2, <1>9, ConcatProperties, LenProperties
  <2> QED
    BY <1>2, <1>9, <2>1
<1>11. Range(now) = Range(kept) \cup Range(Q) /\ Range(kept) \subseteq Range(P)
  <2>1. Range(now) = Range(kept) \cup Range(Q)
    BY <1>2, <1>9, RangeConcatenation
  <2>2. Range(Among(P, Range(kept))) = Range(P) \cap Range(kept)
    BY <1>2, AmongFacts
  <2> QED
    BY <1>5, <2>1, <2>2
<1>12. now = Among((P \o Q) \o R, Range(now))
  <2>1. /\ AmongJoins(P \o Q, R, Range(now))
        /\ AmongJoins(P, Q, Range(now))
    BY <1>2, <1>6, AmongConcat
  <2>2. Among((P \o Q) \o R, Range(now))
          = (Among(P, Range(now)) \o Among(Q, Range(now))) \o Among(R, Range(now))
    BY <2>1 DEF AmongJoins
  <2>3. Among(P, Range(now)) = kept
    <3>1. Range(P) \cap Range(now) = Range(P) \cap Range(kept)
      BY <1>3, <1>11
    <3>2. Among(P, Range(now)) = Among(P, Range(kept))
      BY <3>1, AmongSame
    <3> QED
      BY <1>5, <3>2
  <2>4. Among(Q, Range(now)) = Q
    BY <1>2, <1>11, AmongFacts
  <2>5. Among(R, Range(now)) = <<>>
    <3>1. Range(R) \cap Range(now) = {}
      BY <1>3, <1>11
    <3> QED
      BY <1>2, <3>1, AmongFacts
  <2>6. kept \o Q \in Seq(items)
    BY <1>2, <1>9, ConcatProperties
  <2>7. (kept \o Q) \o <<>> = kept \o Q
    BY <2>6, ConcatEmptySeq
  <2> QED
    BY <1>9, <2>2, <2>3, <2>4, <2>5, <2>7
<1>13. FaithfulTo(t, c, after)
  BY <1>4, <1>12 DEF FaithfulTo, now, T
<1>14. LenKept(t, after) = LenKept(t, o) + (b - a)
  BY <1>10 DEF LenKept, now, kept, T
<1> QED
  BY <1>6, <1>8, <1>13, <1>14 DEF Copied, after, F, T, Q
\* The case ClampedIntoPlace speaks of.
ItemsTell == IsInjective(target) /\ Range(Inserted) \cap Range(target) = {}

\* After any number of splices: what they insert has arrived, what was copied
\* is what is left of the items read, and the others were to be removed.
ClampInv ==
  ItemsTell =>
    /\ phase = "applying" =>
         /\ Among(out, Items \ Range(target)) = InsertedBy(applied)
         /\ FaithfulTo(target, read, out)
         /\ read - LenKept(target, out) <= Removes(splices, applied)
    /\ phase = "done" => ClampedIntoPlace

\* Nothing is read, put in or put out yet.
LEMMA CallClamps == IInv /\ (CallWithDiff \/ CallWithWire) => ClampInv'
<1> SUFFICES ASSUME IInv, CallWithDiff \/ CallWithWire PROVE ClampInv'
  OBVIOUS
<1>1. /\ phase \in {"matching", "splicing"} /\ phase' = "applying"
      /\ UNCHANGED <<read, applied, out>> /\ target' \in Inputs
  BY DEF CallWithDiff, CallWithWire, Call
<1>2. read' = 0 /\ applied' = 0 /\ out' = <<>>
  BY <1>1 DEF IInv
<1>3. splices' \in Seq(Splices(Items))
  <2>1. splices' \in Seq(SpliceOf(Seq(Items)))
    BY SeqAssumption DEF CallWithDiff, CallWithWire, IInv, TypeOK, ApplyTypeOK
  <2> QED
    BY <2>1, ScriptFacts
<1>4. InsertedBy(0)' = <<>> /\ Removes(splices', 0) = 0
  <2>1. SubSeq(Inserts', 1, 0) = <<>>
    BY SubSeqEmpty
  <2>2. InsertedBy(0)' = <<>>
    BY <2>1 DEF InsertedBy, FlattenSeq
  <2> QED
    BY <1>3, <2>2, RemovesFacts
<1>5. \A S : Among(<<>>, S) = <<>>
  BY DEF Among, FlattenSeq
<1>6. FaithfulTo(target', 0, <<>>)
  <2>1. SubSeq(target', 1, 0) = <<>>
    BY SubSeqEmpty
  <2> QED
    BY <1>5, <2>1 DEF FaithfulTo
<1>7. LenKept(target', <<>>) = 0
  BY <1>5 DEF LenKept
<1> QED
  BY <1>1, <1>2, <1>4, <1>5, <1>6, <1>7 DEF ClampInv
\* The iterator only moves forward, over what is copied and what is skipped.
LEMMA ApplySpliceClamps == IInv /\ ClampInv /\ ApplySplice => ClampInv'
<1> SUFFICES ASSUME IInv, ClampInv, ApplySplice, ItemsTell' PROVE
      /\ phase' # "done"
      /\ phase' = "applying" =>
           /\ Among(out, Items \ Range(target))' = InsertedBy(applied)'
           /\ FaithfulTo(target', read', out')
           /\ read' - LenKept(target', out') <= Removes(splices', applied')
  BY DEF ClampInv
<1> DEFINE k == applied + 1
           splice == splices[k]
           keep == Lesser(read + Gap(splice.at), Len(target))
<1>1. /\ phase = "applying" /\ applied < Len(splices) /\ applied' = k
      /\ out' = out \o SubSeq(target, read + 1, keep) \o splice.insert
      /\ read' = Lesser(keep + splice.remove, Len(target))
      /\ UNCHANGED <<splices, target>>
      /\ phase' # "done"
  BY DEF ApplySplice, Advance
<1>2. ItemsTell
  BY <1>1 DEF ItemsTell, Inserted
<1>3. /\ target \in Seq(Items) /\ Len(target) \in Nat
      /\ splices \in Seq(Splices(Items)) /\ Len(splices) \in Nat
      /\ DOMAIN splices = 1 .. Len(splices)
      /\ cursor \in Nat /\ read \in Nat /\ applied \in Nat
  BY ApplyFacts DEF IInv
<1>4. out \in Seq(Items) /\ read <= Len(target)
  BY <1>3 DEF IInv, TypeOK, ApplyTypeOK
<1>5. k \in 1 .. Len(splices) /\ k - 1 = applied
  <2>1. applied < Len(splices)
    BY <1>1
  <2> QED
    BY <1>3, <2>1
<1>6. splice.at \in Nat /\ splice.remove \in Nat /\ splice.insert \in Seq(Items)
  <2>1. splice \in Splices(Items)
    BY <1>3, <1>5, ElementOfSeq
  <2> QED
    BY <2>1 DEF Splices
<1>7. Gap(splice.at) \in Nat
  BY <1>3, <1>6 DEF Gap
<1>8. /\ keep \in Nat /\ read <= keep /\ read' \in Nat /\ keep <= read'
      /\ read' <= Len(target) /\ read' - keep <= splice.remove
  <2>1. keep \in Nat /\ read <= keep /\ keep <= Len(target)
    BY <1>3, <1>4, <1>7 DEF Lesser
  <2> HIDE DEF keep
  <2> QED
    BY <1>1, <1>3, <1>6, <2>1 DEF Lesser
<1>9. Range(splice.insert) \cap Range(target) = {}
  <2>1. k \in DOMAIN Inserts /\ Inserts \in Seq(Seq(Items)) /\ Inserts[k] = splice.insert
    BY <1>3, <1>5, InsertsFacts, LenProperties
  <2>2. Range(Inserts[k]) \subseteq Range(FlattenSeq(Inserts))
    BY <2>1, FlattenCovers
  <2>3. FlattenSeq(Inserts) = Inserted
    BY DEF Inserted, Inserts
  <2> QED
    BY <1>2, <2>1, <2>2, <2>3 DEF ItemsTell
<1>10. /\ Among(out, Items \ Range(target)) = InsertedBy(applied)
       /\ FaithfulTo(target, read, out)
       /\ read - LenKept(target, out) <= Removes(splices, applied)
  BY <1>1, <1>2 DEF ClampInv
<1> HIDE DEF keep, splice
<1>11. Copied(Items, target, read, keep, read', out, splice.insert)
  BY <1>2, <1>3, <1>4, <1>6, <1>8, <1>9, <1>10, CopyFacts DEF ItemsTell
<1>12. /\ Among(out', Items \ Range(target)) = InsertedBy(applied) \o splice.insert
       /\ FaithfulTo(target, read', out')
       /\ LenKept(target, out') = LenKept(target, out) + (keep - read)
  BY <1>1, <1>10, <1>11 DEF Copied
<1>13. InsertedBy(k) = InsertedBy(applied) \o splice.insert
  BY <1>3, <1>5, InsertedByFacts DEF splice
<1>14. read' - LenKept(target, out') <= Removes(splices, k)
  <2>1. Removes(splices, k) = Removes(splices, applied) + splice.remove
          /\ Removes(splices, applied) \in Nat
    <3>1. applied \in 0 .. Len(splices)
      BY <1>3, <1>5
    <3> QED
      BY <1>3, <1>5, <3>1, RemovesFacts DEF splice
  <2>2. LenKept(target, out) \in Nat
    <3>1. Among(out, Range(target)) \in Seq(Items)
      BY <1>4, AmongFacts
    <3> QED
      BY <3>1, LenProperties DEF LenKept
  <2> HIDE DEF k
  <2> QED
    BY <1>3, <1>6, <1>8, <1>10, <1>12, <2>1, <2>2
<1>15. InsertedBy(applied)' = InsertedBy(k)
  BY <1>1 DEF InsertedBy, Inserts
<1> QED
  BY <1>1, <1>12, <1>13, <1>14, <1>15
\* What is left of the target is copied.
LEMMA ApplyReturnsClamps == IInv /\ ClampInv /\ ApplyReturns => ClampInv'
<1> SUFFICES ASSUME IInv, ClampInv, ApplyReturns, ItemsTell'
             PROVE  phase' = "done" /\ ClampedIntoPlace'
  BY DEF ClampInv, ApplyReturns
<1> DEFINE n == Len(target)
           rest == SubSeq(target, read + 1, n)
<1>1. /\ phase = "applying" /\ applied = Len(splices) /\ phase' = "done"
      /\ out' = out \o rest /\ UNCHANGED <<splices, target>>
  BY DEF ApplyReturns, Remainder
<1>2. ItemsTell
  BY <1>1 DEF ItemsTell, Inserted
<1>3. /\ target \in Seq(Items) /\ n \in Nat
      /\ splices \in Seq(Splices(Items)) /\ Len(splices) \in Nat /\ read \in Nat
  BY ApplyFacts DEF IInv
<1>4. out \in Seq(Items) /\ read <= n
  BY <1>3 DEF IInv, TypeOK, ApplyTypeOK
<1>5. /\ Among(out, Items \ Range(target)) = Inserted
      /\ FaithfulTo(target, read, out)
      /\ read - LenKept(target, out) <= Removes(splices, Len(splices))
  BY <1>1, <1>2, <1>3, InsertedByFacts DEF ClampInv
<1>6. <<>> \in Seq(Items) /\ Range(<<>>) \cap Range(target) = {}
  BY EmptySeq DEF Range
<1>7. Copied(Items, target, read, n, n, out, <<>>)
  <2>1. n <= n /\ n <= Len(target)
    BY <1>3
  <2> HIDE DEF n
  <2> QED
    BY <1>2, <1>3, <1>4, <1>5, <1>6, <2>1, CopyFacts DEF ItemsTell
<1> DEFINE after == out \o rest \o <<>>
<1>8. after = out'
  <2>1. rest \in Seq(Items)
    BY <1>3, <1>4, SliceType
  <2>2. out \o rest \in Seq(Items)
    BY <1>4, <2>1, ConcatProperties
  <2> HIDE DEF rest
  <2> QED
    BY <1>1, <2>2, ConcatEmptySeq
<1>9. /\ Among(out', Items \ Range(target)) = Among(out, Items \ Range(target)) \o <<>>
      /\ FaithfulTo(target, n, out')
      /\ LenKept(target, out') = LenKept(target, out) + (n - read)
  <2>1. /\ Among(after, Items \ Range(target)) = Among(out, Items \ Range(target)) \o <<>>
        /\ FaithfulTo(target, n, after)
        /\ LenKept(target, after) = LenKept(target, out) + (n - read)
    BY <1>7 DEF Copied
  <2> HIDE DEF after, n
  <2> QED
    BY <1>8, <2>1
<1> HIDE DEF rest, after
<1>10. Among(out', Items \ Range(target)) = Inserted
  <2>1. Among(out, Items \ Range(target)) \in Seq(Items)
    BY <1>4, AmongFacts
  <2> QED
    BY <1>5, <1>9, <2>1, ConcatEmptySeq
<1> DEFINE kept == Among(out', Range(target))
<1>11. kept = Among(target, Range(kept))
  <2>1. SubSeq(target, 1, n) = target
    BY <1>3, SubSeqFull
  <2> QED
    BY <1>9, <2>1 DEF FaithfulTo
<1>12. n - Len(kept) <= Removes(splices, Len(splices))
  <2>1. LenKept(target, out) \in Nat
    <3>1. Among(out, Range(target)) \in Seq(Items)
      BY <1>4, AmongFacts
    <3> QED
      BY <3>1, LenProperties DEF LenKept
  <2>2. Removes(splices, Len(splices)) \in Nat
    <3>1. Len(splices) \in 0 .. Len(splices)
      BY <1>3
    <3> QED
      BY <1>3, <3>1, RemovesFacts
  <2>3. Len(kept) = LenKept(target, out')
    BY DEF LenKept
  <2> HIDE DEF kept, n
  <2> QED
    BY <1>3, <1>4, <1>5, <1>9, <2>1, <2>2, <2>3
<1>13. Inserted' = Inserted
  BY <1>1 DEF Inserted
<1> QED
  BY <1>1, <1>10, <1>11, <1>12, <1>13 DEF ClampedIntoPlace

LEMMA OthersClamp ==
  ClampInv /\ (\/ phase' \in {"matching", "splicing"}
               \/ UNCHANGED <<phase, target, splices, read, applied, out>>)
    => ClampInv'
BY DEF ClampInv, ItemsTell, Inserted, InsertedBy, Inserts, ClampedIntoPlace

\* Whatever the script, unsorted, overlapping, too long for the target or past
\* the end of a usize: every insert arrives, in the order of the script, the
\* target's items stay in theirs, and no more of them go than the script's
\* removes say (seq.rs:173-175, 183-201).
THEOREM EveryScriptClamps == Spec => []ClampedIntoPlace
<1>1. Init => ClampInv
  BY DEF Init, ClampInv
<1>2. IInv /\ ClampInv /\ [Next]_vars => ClampInv'
  <2> SUFFICES ASSUME IInv, ClampInv, [Next]_vars PROVE ClampInv'
    OBVIOUS
  <2>1. CASE Equal \/ Delete \/ Insert \/ Replace \/ MyersReturns \/ MakeSplice
    <3>1. phase' \in {"matching", "splicing"}
      BY <2>1 DEF Equal, Delete, Insert, Replace, Record, MyersReturns, MakeSplice
    <3> QED
      BY <3>1, OthersClamp
  <2>2. CASE UNCHANGED vars
    BY <2>2, OthersClamp DEF vars, replay
  <2> QED
    BY <2>1, <2>2, CallClamps, ApplySpliceClamps, ApplyReturnsClamps DEF Next
<1>3. ClampInv => ClampedIntoPlace
  BY DEF ClampInv, ItemsTell, ClampedIntoPlace
<1> QED
  BY <1>1, <1>2, <1>3, Invariance, PTL DEF Spec
=============================================================================
