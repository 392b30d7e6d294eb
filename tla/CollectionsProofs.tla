------------------------- MODULE CollectionsProofs -------------------------
(***************************************************************************)
(* What the operators of Collections return, preserve and bound, for       *)
(* collections of any size, with the facts about naturals, enumerations    *)
(* and concatenations that this takes.  What is said of a recursive        *)
(* function is proved by Induction, which speaks of a set of naturals.     *)
(***************************************************************************)
EXTENDS Collections, FiniteSetTheorems, SequenceTheorems,
        WellFoundedInduction, TLAPS

-----------------------------------------------------------------------------
(* Naturals *)

LEMMA LeastNatural ==
  ASSUME NEW S \in SUBSET Nat, S # {}
  PROVE  \E m \in S : \A k \in S : m <= k
<1> DEFINE Less == {p \in Nat \X Nat : p[1] < p[2]}
<1>1. IsWellFoundedOn(Less, Nat)
  BY NatLessThanWellFounded DEF OpToRel
<1>2. PICK m \in S : \A k \in S : ~ (<<k, m>> \in Less)
  <2> HIDE DEF Less
  <2> QED
    BY <1>1, WFMin
<1>3. \A k \in S : ~ (k < m)
  BY <1>2
<1> QED
  BY <1>3

LEMMA MinFacts ==
  ASSUME NEW S \in SUBSET Nat, S # {}
  PROVE  Min(S) \in S /\ \A k \in S : Min(S) <= k
BY LeastNatural DEF Min

LEMMA MinIs ==
  ASSUME NEW S \in SUBSET Nat, NEW m \in S, \A k \in S : m <= k
  PROVE  Min(S) = m
<1>1. Min(S) \in S /\ Min(S) <= m
  BY MinFacts
<1>2. Min(S) \in Nat /\ m \in Nat /\ m <= Min(S)
  BY <1>1
<1> QED
  BY <1>1, <1>2

\* A set with 0 in it and every successor of its members is all of Nat.
LEMMA Induction ==
  ASSUME NEW S, 0 \in S, \A n \in Nat : n \in S => n + 1 \in S
  PROVE  \A n \in Nat : n \in S
<1> SUFFICES ASSUME Nat \ S # {} PROVE FALSE
  OBVIOUS
<1>1. PICK m \in Nat \ S : \A k \in Nat \ S : m <= k
  BY LeastNatural
<1>2. m # 0 /\ m - 1 \in Nat /\ m - 1 \in S
  BY <1>1
<1> QED
  BY <1>2

-----------------------------------------------------------------------------
(* Enumerations *)

\* SetToSeq lists a finite set, each of its members once.
LEMMA EnumerationFacts ==
  ASSUME NEW S, IsFiniteSet(S)
  PROVE  /\ Cardinality(S) \in Nat
         /\ SetToSeq(S) \in [1 .. Cardinality(S) -> S]
         /\ \A i, j \in 1 .. Cardinality(S) :
              SetToSeq(S)[i] = SetToSeq(S)[j] => i = j
         /\ \A x \in S : \E i \in 1 .. Cardinality(S) : SetToSeq(S)[i] = x
<1> DEFINE n == Cardinality(S)
           s == SetToSeq(S)
<1>1. n \in Nat /\ ExistsBijection(1 .. n, S)
  BY FS_CardinalityType
<1>2. PICK f \in [1 .. n -> S] : \A a, b \in 1 .. n : f[a] = f[b] => a = b
  BY <1>1 DEF ExistsBijection, Bijection, Injection, IsInjective
<1>3. f \in [1 .. n -> S] /\ IsInjective(f)
  BY <1>2 DEF IsInjective
<1>4. s \in [1 .. n -> S] /\ IsInjective(s)
  BY <1>3 DEF SetToSeq
<1> HIDE DEF s, n
<1>5. \A i, j \in 1 .. n : s[i] = s[j] => i = j
  BY <1>4 DEF IsInjective
<1>6. s \in Injection(1 .. n, S)
  BY <1>4, <1>5 DEF Injection, IsInjective
<1>7. IsFiniteSet(1 .. n) /\ Cardinality(1 .. n) = n
  BY <1>1, FS_Interval
<1>8. s \in Surjection(1 .. n, S)
  BY <1>6, <1>7, FS_Injection DEF n
<1>9. \A x \in S : \E i \in 1 .. n : s[i] = x
  BY <1>8 DEF Surjection
<1> QED
  BY <1>1, <1>4, <1>5, <1>9 DEF s, n

-----------------------------------------------------------------------------
(* Maps *)

LEMMA SameMap ==
  ASSUME NEW f, NEW g, IsMap(f), IsMap(g), DOMAIN f = DOMAIN g,
         \A k \in DOMAIN f : f[k] = g[k]
  PROVE  f = g
BY DEF IsMap

LEMMA WithFacts ==
  ASSUME NEW map, NEW entries
  PROVE  /\ DOMAIN With(map, entries) = DOMAIN map \cup DOMAIN entries
         /\ \A k \in DOMAIN entries : With(map, entries)[k] = entries[k]
         /\ \A k \in DOMAIN map \ DOMAIN entries : With(map, entries)[k] = map[k]
         /\ IsMap(With(map, entries))
BY DEF IsMap, With

\* What MapDiff makes of two maps: the changes of the delta name each key of
\* both whose values differ, once.
MadeBy(d, old, new, inner) ==
  LET differing == {k \in DOMAIN inner : inner[k] # None}
  IN /\ d.add = Only(new, DOMAIN new \ DOMAIN old)
     /\ d.remove = DOMAIN old \ DOMAIN new
     /\ \E n \in Nat : DOMAIN d.change = 1 .. n
     /\ d.change = <<>> <=> differing = {}
     /\ \A i \in DOMAIN d.change :
          /\ d.change[i] = [key |-> d.change[i].key, delta |-> inner[d.change[i].key]]
          /\ d.change[i].key \in differing
     /\ \A i, j \in DOMAIN d.change : d.change[i].key = d.change[j].key => i = j
     /\ \A k \in differing : \E i \in DOMAIN d.change : d.change[i].key = k

LEMMA MapDiffFacts ==
  ASSUME NEW old, NEW new, NEW inner, IsFiniteSet(DOMAIN inner)
  PROVE  MadeBy(MapDiff(old, new, inner), old, new, inner)
<1> DEFINE differing == {k \in DOMAIN inner : inner[k] # None}
           n == Cardinality(differing)
           s == SetToSeq(differing)
           change == [i \in DOMAIN s |-> [key |-> s[i], delta |-> inner[s[i]]]]
<1>1. IsFiniteSet(differing)
  BY FS_Subset
<1> HIDE DEF differing
<1>2. /\ n \in Nat /\ s \in [1 .. n -> differing]
      /\ \A i, j \in 1 .. n : s[i] = s[j] => i = j
      /\ \A x \in differing : \E i \in 1 .. n : s[i] = x
  BY <1>1, EnumerationFacts
<1>3. MapDiff(old, new, inner) =
        [add |-> Only(new, DOMAIN new \ DOMAIN old),
         remove |-> DOMAIN old \ DOMAIN new, change |-> change]
  BY DEF MapDiff, differing
<1> HIDE DEF n, s
<1>4. /\ DOMAIN change = 1 .. n
      /\ \A i \in 1 .. n : change[i].key = s[i] /\ change[i].delta = inner[s[i]]
      /\ \A i \in 1 .. n : change[i] = [key |-> s[i], delta |-> inner[s[i]]]
  BY <1>2
<1>5. change = <<>> <=> differing = {}
  <2>1. change = <<>> => 1 .. n = {}
    BY <1>4
  <2>2. 1 .. n = {} => differing = {}
    BY <1>2
  <2>3. differing = {} => 1 .. n = {}
    BY <1>2
  <2>4. 1 .. n = {} => change = <<>>
    <3> SUFFICES ASSUME 1 .. n = {} PROVE change = <<>>
      OBVIOUS
    <3>1. DOMAIN s = {}
      BY <1>2
    <3> QED
      BY <3>1
  <2> QED
    BY <2>1, <2>2, <2>3, <2>4
<1>6. \A x \in differing : \E i \in DOMAIN change : change[i].key = x
  BY <1>2, <1>4
<1>7. \A i \in DOMAIN change :
        /\ change[i] = [key |-> change[i].key, delta |-> inner[change[i].key]]
        /\ change[i].key \in differing
  BY <1>2, <1>4
<1>8. \A i, j \in DOMAIN change : change[i].key = change[j].key => i = j
  BY <1>2, <1>4
<1>9. \E m \in Nat : DOMAIN change = 1 .. m
  BY <1>2, <1>4
<1> HIDE DEF change
<1> DEFINE d == MapDiff(old, new, inner)
<1>10. /\ d.add = Only(new, DOMAIN new \ DOMAIN old)
       /\ d.remove = DOMAIN old \ DOMAIN new /\ d.change = change
  BY <1>3
<1> HIDE DEF d
<1> SUFFICES /\ d.add = Only(new, DOMAIN new \ DOMAIN old)
             /\ d.remove = DOMAIN old \ DOMAIN new
             /\ \E m \in Nat : DOMAIN d.change = 1 .. m
             /\ d.change = <<>> <=> differing = {}
             /\ \A i \in DOMAIN d.change :
                  /\ d.change[i] = [key |-> d.change[i].key, delta |-> inner[d.change[i].key]]
                  /\ d.change[i].key \in differing
             /\ \A i, j \in DOMAIN d.change : d.change[i].key = d.change[j].key => i = j
             /\ \A k \in differing : \E i \in DOMAIN d.change : d.change[i].key = k
  BY DEF differing, d, MadeBy
<1> QED
  BY <1>5, <1>6, <1>7, <1>8, <1>9, <1>10

\* What MapApply is given for a delta that MapDiff made: one attempt for each
\* change whose key target has, no key twice, and none that is also removed.
Attempted(target, d, attempt) ==
  /\ DOMAIN attempt \subseteq Nat
  /\ \A i \in DOMAIN attempt : d.change[i].key \in DOMAIN target \ d.remove
  /\ \A i, j \in DOMAIN attempt : d.change[i].key = d.change[j].key => i = j

\* What one attempt makes of each value it names, the other values being kept.
Replaced(target, d, attempt, tried) ==
  [k \in DOMAIN target \ d.remove |->
     IF \E i \in tried : d.change[i].key = k
     THEN attempt[CHOOSE i \in tried : d.change[i].key = k].value
     ELSE target[k]]

ReplacedBy(r, target, d, attempt, tried) ==
  /\ IsMap(r) /\ DOMAIN r = DOMAIN target \ d.remove
  /\ \A i \in tried : r[d.change[i].key] = attempt[i].value
  /\ \A k \in DOMAIN r : (\A i \in tried : d.change[i].key # k) => r[k] = target[k]

LEMMA ReplacedFacts ==
  ASSUME NEW target, NEW d, NEW attempt, NEW tried,
         Attempted(target, d, attempt), tried \subseteq DOMAIN attempt
  PROVE  ReplacedBy(Replaced(target, d, attempt, tried), target, d, attempt, tried)
<1> DEFINE r == Replaced(target, d, attempt, tried)
<1>1. IsMap(r) /\ DOMAIN r = DOMAIN target \ d.remove
  BY DEF Replaced, IsMap
<1>2. ASSUME NEW i \in tried PROVE r[d.change[i].key] = attempt[i].value
  <2>1. d.change[i].key \in DOMAIN target \ d.remove
    BY DEF Attempted
  <2>2. i = CHOOSE j \in tried : d.change[j].key = d.change[i].key
    BY DEF Attempted
  <2> QED
    BY <2>1, <2>2 DEF Replaced
<1>3. ASSUME NEW k \in DOMAIN r, \A i \in tried : d.change[i].key # k
      PROVE  r[k] = target[k]
  BY <1>1, <1>3 DEF Replaced
<1> QED
  BY <1>1, <1>2, <1>3 DEF ReplacedBy

LEMMA MapApplySucceeds ==
  ASSUME NEW target, NEW d, NEW attempt, Attempted(target, d, attempt),
         \A i \in DOMAIN attempt : attempt[i].err = None
  PROVE  MapApply(target, d, attempt) =
           [err |-> None, value |-> With(Replaced(target, d, attempt, DOMAIN attempt), d.add)]
<1>1. DOMAIN Only(target, DOMAIN target \ d.remove) = DOMAIN target \ d.remove
  BY DEF Only
<1>2. {i \in DOMAIN attempt : d.change[i].key \in DOMAIN Only(target, DOMAIN target \ d.remove)}
        = DOMAIN attempt
  BY <1>1 DEF Attempted
<1>3. {i \in DOMAIN attempt : attempt[i].err # None} = {}
  OBVIOUS
<1>4. {i \in DOMAIN attempt : \A j \in {} : i <= j} = DOMAIN attempt
  OBVIOUS
<1>5. \A k \in DOMAIN target \ d.remove : Only(target, DOMAIN target \ d.remove)[k] = target[k]
  BY DEF Only
<1> QED
  BY <1>1, <1>2, <1>3, <1>4, <1>5, Zenon DEF MapApply, Replaced

LEMMA MapApplyFails ==
  ASSUME NEW target, NEW d, NEW attempt, NEW first, Attempted(target, d, attempt),
         first \in DOMAIN attempt, attempt[first].err # None,
         \A i \in DOMAIN attempt : i < first => attempt[i].err = None
  PROVE  MapApply(target, d, attempt) =
           [err |-> attempt[first].err,
            value |-> Replaced(target, d, attempt, {i \in DOMAIN attempt : i <= first})]
<1> DEFINE failing == {i \in DOMAIN attempt : attempt[i].err # None}
<1>1. DOMAIN Only(target, DOMAIN target \ d.remove) = DOMAIN target \ d.remove
  BY DEF Only
<1>2. {i \in DOMAIN attempt : d.change[i].key \in DOMAIN Only(target, DOMAIN target \ d.remove)}
        = DOMAIN attempt
  BY <1>1 DEF Attempted
<1>3. failing \in SUBSET Nat /\ failing # {} /\ first \in failing
      /\ \A i \in failing : first <= i
  BY DEF Attempted
<1>4. Min(failing) = first
  <2> HIDE DEF failing
  <2> QED
    BY <1>3, MinIs
<1>5. {i \in DOMAIN attempt : \A j \in failing : i <= j} = {i \in DOMAIN attempt : i <= first}
  BY <1>3 DEF Attempted
<1>6. \A k \in DOMAIN target \ d.remove : Only(target, DOMAIN target \ d.remove)[k] = target[k]
  BY DEF Only
<1>7. MapApply(target, d, attempt) =
        [err |-> attempt[Min(failing)].err,
         value |-> Replaced(target, d, attempt, {i \in DOMAIN attempt : \A j \in failing : i <= j})]
  BY <1>1, <1>2, <1>3, <1>6, Zenon DEF MapApply, Replaced
<1> QED
  BY <1>4, <1>5, <1>7
-----------------------------------------------------------------------------
(* Concatenation of a sequence of sequences *)

\* FlattenSeq is computed by this function.
IsFlattening(f, seqs) ==
  f = [i \in 1 .. Len(seqs) |-> IF i = 1 THEN seqs[i] ELSE f[i - 1] \o seqs[i]]

LEMMA FlatteningExists ==
  ASSUME NEW S, NEW seqs \in Seq(Seq(S))
  PROVE  \E f : IsFlattening(f, seqs)
<1> DEFINE Upto(f, n) ==
             f = [i \in 1 .. n |-> IF i = 1 THEN seqs[i] ELSE f[i - 1] \o seqs[i]]
           Reached == {n \in Nat : \E f : Upto(f, n)}
<1>1. 0 \in Reached
  <2>1. Upto(<<>>, 0)
    OBVIOUS
  <2> QED
    BY <2>1
<1>2. ASSUME NEW n \in Nat, n \in Reached
      PROVE  n + 1 \in Reached
  <2>1. PICK f : Upto(f, n)
    BY <1>2
  <2> DEFINE g == [i \in 1 .. n + 1 |->
                     IF i <= n THEN f[i] ELSE IF i = 1 THEN seqs[i] ELSE f[i - 1] \o seqs[i]]
  <2>2. \A i \in 1 .. n : f[i] = IF i = 1 THEN seqs[i] ELSE f[i - 1] \o seqs[i]
    BY <2>1
  <2>3. \A i \in 1 .. n + 1 : g[i] = IF i = 1 THEN seqs[i] ELSE g[i - 1] \o seqs[i]
    BY <2>2
  <2>4. g = [i \in 1 .. n + 1 |-> g[i]]
    OBVIOUS
  <2> HIDE DEF g
  <2>5. Upto(g, n + 1)
    BY <2>3, <2>4
  <2> HIDE DEF Upto
  <2> QED
    BY <2>5
<1> HIDE DEF Reached
<1>3. Len(seqs) \in Reached
  BY <1>1, <1>2, Induction, LenProperties
<1> QED
  BY <1>3 DEF Reached, IsFlattening

LEMMA FlattenIs ==
  ASSUME NEW S, NEW seqs \in Seq(Seq(S)), seqs # <<>>
  PROVE  \E f : /\ IsFlattening(f, seqs)
                /\ FlattenSeq(seqs) = f[Len(seqs)]
<1> DEFINE flatten == CHOOSE f : IsFlattening(f, seqs)
<1>1. IsFlattening(flatten, seqs)
  BY FlatteningExists
<1>2. Len(seqs) # 0
  BY EmptySeq
<1>3. FlattenSeq(seqs) = flatten[Len(seqs)]
  BY <1>2 DEF FlattenSeq, IsFlattening
<1> QED
  BY <1>1, <1>3

\* One more sequence is one more at the end.
LEMMA FlattenAppend ==
  ASSUME NEW S, NEW seqs \in Seq(Seq(S)), NEW x \in Seq(S)
  PROVE  /\ FlattenSeq(<<>>) = <<>>
         /\ FlattenSeq(seqs) \in Seq(S)
         /\ FlattenSeq(Append(seqs, x)) = FlattenSeq(seqs) \o x
<1> DEFINE n == Len(seqs)
           more == Append(seqs, x)
<1>1. FlattenSeq(<<>>) = <<>>
  BY DEF FlattenSeq
<1>2. /\ n \in Nat /\ Len(more) = n + 1 /\ more \in Seq(Seq(S)) /\ more # <<>>
      /\ more[n + 1] = x /\ \A i \in 1 .. n : more[i] = seqs[i] /\ seqs[i] \in Seq(S)
  BY AppendProperties, LenProperties, ElementOfSeq
<1>3. PICK g : IsFlattening(g, more) /\ FlattenSeq(more) = g[n + 1]
  BY <1>2, FlattenIs
<1> HIDE DEF more
<1>4. g[1] = more[1] /\ \A i \in 1 .. n : g[i + 1] = g[i] \o more[i + 1]
  <2>1. \A i \in 1 .. n + 1 : g[i] = IF i = 1 THEN more[i] ELSE g[i - 1] \o more[i]
    BY <1>2, <1>3 DEF IsFlattening
  <2>2. g[1] = more[1]
    BY <1>2, <2>1
  <2>3. \A i \in 1 .. n : i + 1 \in 1 .. n + 1 /\ i + 1 # 1 /\ (i + 1) - 1 = i
    BY <1>2
  <2> QED
    BY <2>1, <2>2, <2>3
<1>5. CASE seqs = <<>>
  <2>1. n = 0 /\ g[1] = x
    BY <1>2, <1>4, <1>5
  <2>2. FlattenSeq(seqs) = <<>> /\ FlattenSeq(seqs) \in Seq(S)
    BY <1>1, <1>5, EmptySeq
  <2>3. FlattenSeq(more) = x /\ <<>> \o x = x
    BY <1>3, <2>1, ConcatEmptySeq
  <2> QED
    BY <1>1, <2>2, <2>3 DEF more
<1>6. CASE seqs # <<>>
  <2>1. n >= 1
    BY <1>6, EmptySeq
  <2>2. PICK f : IsFlattening(f, seqs) /\ FlattenSeq(seqs) = f[n]
    BY <1>6, FlattenIs
  <2>3. f[1] = seqs[1] /\ \A i \in 1 .. n : i + 1 <= n => f[i + 1] = f[i] \o seqs[i + 1]
    <3>1. \A i \in 1 .. n : f[i] = IF i = 1 THEN seqs[i] ELSE f[i - 1] \o seqs[i]
      BY <2>2 DEF IsFlattening
    <3>2. f[1] = seqs[1]
      BY <1>2, <2>1, <3>1
    <3>3. \A i \in 1 .. n : i + 1 <= n => i + 1 \in 1 .. n /\ i + 1 # 1 /\ (i + 1) - 1 = i
      BY <1>2
    <3> QED
      BY <3>1, <3>2, <3>3
  <2> DEFINE Reached == {i \in Nat : i \in 1 .. n => g[i] = f[i] /\ f[i] \in Seq(S)}
  <2>4. 0 \in Reached
    OBVIOUS
  <2>5. ASSUME NEW i \in Nat, i \in Reached
        PROVE  i + 1 \in Reached
    <3> SUFFICES ASSUME i + 1 \in 1 .. n
                 PROVE  g[i + 1] = f[i + 1] /\ f[i + 1] \in Seq(S)
      OBVIOUS
    <3>1. more[i + 1] = seqs[i + 1] /\ seqs[i + 1] \in Seq(S)
      BY <1>2
    <3>2. CASE i = 0
      BY <1>2, <1>4, <2>3, <3>1, <3>2
    <3>3. CASE i # 0
      <4>1. g[i] = f[i] /\ f[i] \in Seq(S)
        BY <2>5, <3>3
      <4>2. g[i + 1] = g[i] \o more[i + 1] /\ f[i + 1] = f[i] \o seqs[i + 1]
        <5>1. i \in 1 .. n /\ i + 1 <= n
          BY <1>2, <2>5, <3>3
        <5> QED
          BY <1>4, <2>3, <5>1
      <4> QED
        BY <3>1, <4>1, <4>2, ConcatProperties
    <3> QED
      BY <3>2, <3>3
  <2> HIDE DEF Reached
  <2>6. n \in Reached
    BY <1>2, <2>4, <2>5, Induction
  <2>7. g[n] = f[n] /\ f[n] \in Seq(S)
    BY <1>2, <2>1, <2>6 DEF Reached
  <2>8. g[n + 1] = g[n] \o x
    <3>1. n \in 1 .. n
      BY <1>2, <2>1
    <3> QED
      BY <1>2, <1>4, <3>1
  <2> QED
    BY <1>1, <1>3, <2>2, <2>7, <2>8 DEF more
<1> QED
  BY <1>5, <1>6

-----------------------------------------------------------------------------
(* The alignment of two sequences *)

IsAligned(m, old, new) ==
  /\ m \subseteq (DOMAIN old) \X (DOMAIN new)
  /\ \A p \in m : old[p[1]] = new[p[2]]
  /\ \A p, q \in m : p[1] < q[1] <=> p[2] < q[2]

LEMMA AlignmentFacts ==
  ASSUME NEW S, NEW old \in Seq(S), NEW new \in Seq(S)
  PROVE  /\ IsAligned(Alignment(old, new), old, new)
         /\ \A m : IsAligned(m, old, new) => Cardinality(m) <= Cardinality(Alignment(old, new))
         /\ IsFiniteSet(Alignment(old, new))
<1> DEFINE equal == {p \in (DOMAIN old) \X (DOMAIN new) : old[p[1]] = new[p[2]]}
           aligned == {m \in SUBSET equal : \A p, q \in m : p[1] < q[1] <=> p[2] < q[2]}
           Short(m) == Cardinality(equal) - Cardinality(m)
           Shorts == {Short(m) : m \in aligned}
<1>1. IsFiniteSet(equal)
  <2>1. IsFiniteSet(DOMAIN old) /\ IsFiniteSet(DOMAIN new)
    BY LenProperties, FS_Interval
  <2>2. IsFiniteSet((DOMAIN old) \X (DOMAIN new))
    BY <2>1, FS_Product
  <2> QED
    BY <2>2, FS_Subset
<1>2. \A m : IsAligned(m, old, new) <=> m \in aligned
  BY DEF IsAligned
<1>3. {} \in aligned
  OBVIOUS
<1>4. Alignment(old, new) =
        CHOOSE m \in aligned : \A o \in aligned : Cardinality(o) <= Cardinality(m)
  BY DEF Alignment
<1>5. \A m \in aligned : m \in SUBSET equal
  OBVIOUS
<1> HIDE DEF aligned, equal
<1>6. /\ Cardinality(equal) \in Nat
      /\ \A m \in aligned : /\ IsFiniteSet(m) /\ Cardinality(m) \in Nat
                            /\ Cardinality(m) <= Cardinality(equal)
  BY <1>1, <1>5, FS_Subset, FS_CardinalityType
<1>7. PICK least \in Shorts : \A k \in Shorts : least <= k
  <2>1. Shorts \in SUBSET Nat /\ Shorts # {}
    BY <1>3, <1>6
  <2> QED
    BY <2>1, LeastNatural
<1>8. PICK m \in aligned : least = Short(m)
  OBVIOUS
<1>9. \A o \in aligned : Cardinality(o) <= Cardinality(m)
  <2> TAKE o \in aligned
  <2>1. Short(m) <= Short(o)
    BY <1>7, <1>8
  <2> QED
    BY <1>6, <2>1
<1>10. /\ Alignment(old, new) \in aligned
       /\ \A o \in aligned : Cardinality(o) <= Cardinality(Alignment(old, new))
  BY <1>4, <1>9
<1> QED
  BY <1>2, <1>6, <1>10

\* Nothing of a sequence is left out when it is aligned with itself.
LEMMA AlignedWithItself ==
  ASSUME NEW S, NEW s \in Seq(S)
  PROVE  \A i \in DOMAIN s : /\ \E p \in Alignment(s, s) : p[1] = i
                             /\ \E p \in Alignment(s, s) : p[2] = i
<1> DEFINE A == Alignment(s, s)
           D == DOMAIN s
           diagonal == {<<i, i>> : i \in D}
           twice == [i \in D |-> <<i, i>>]
           first == [p \in A |-> p[1]]
           second == [p \in A |-> p[2]]
<1>1. IsAligned(A, s, s) /\ IsFiniteSet(A)
      /\ \A m : IsAligned(m, s, s) => Cardinality(m) <= Cardinality(A)
  BY AlignmentFacts
<1>2. IsFiniteSet(D) /\ Cardinality(D) \in Nat /\ D \subseteq Nat
  <2>1. Len(s) \in Nat /\ D = 1 .. Len(s)
    BY LenProperties
  <2> HIDE DEF D
  <2>2. IsFiniteSet(1 .. Len(s))
    BY <2>1, FS_Interval
  <2> QED
    BY <2>1, <2>2, FS_CardinalityType
<1> HIDE DEF A
<1>3. IsAligned(diagonal, s, s)
  BY <1>2 DEF IsAligned
<1>4. Cardinality(diagonal) = Cardinality(D)
  <2>1. twice \in Bijection(D, diagonal)
    BY DEF Bijection, Injection, Surjection, IsInjective
  <2> QED
    BY <1>2, <2>1, FS_Bijection DEF ExistsBijection
<1>5. Cardinality(D) <= Cardinality(A) /\ Cardinality(A) \in Nat
  BY <1>1, <1>3, <1>4, FS_CardinalityType
<1>6. A \subseteq D \X D /\ \A p, q \in A : p[1] < q[1] <=> p[2] < q[2]
  BY <1>1 DEF IsAligned
<1> HIDE DEF D
<1>7. first \in Injection(A, D) /\ second \in Injection(A, D)
  <2>1. \A p, q \in A : (p[1] = q[1] <=> p[2] = q[2])
    <3> TAKE p, q \in A
    <3>1. p[1] \in Nat /\ p[2] \in Nat /\ q[1] \in Nat /\ q[2] \in Nat
      BY <1>2, <1>6
    <3> QED
      BY <1>6, <3>1
  <2>2. \A p, q \in A : p[1] = q[1] /\ p[2] = q[2] => p = q
    BY <1>6
  <2>3. first \in [A -> D] /\ second \in [A -> D]
    BY <1>6
  <2> QED
    BY <2>1, <2>2, <2>3 DEF Injection, IsInjective
<1> HIDE DEF first, second
<1>8. first \in Surjection(A, D) /\ second \in Surjection(A, D)
  BY <1>2, <1>5, <1>7, FS_Injection
<1> QED
  BY <1>8 DEF Surjection, first, second, A, D

-----------------------------------------------------------------------------
(* SeqDiff *)

Pairs(old, new) == Alignment(old, new) \cup {<<Len(old) + 1, Len(new) + 1>>}

\* What the walk knows at a position, from what it knew at the one before.
Passing(new, pairs, i, before) ==
  IF \A p \in pairs : p[1] # i THEN before
  ELSE LET pair == CHOOSE p \in pairs : p[1] = i
           gap == Between(new, before.last, pair)
       IN [last |-> pair,
           splices |-> IF gap.remove = 0 /\ gap.insert = <<>>
                       THEN before.splices ELSE Append(before.splices, gap)]

Start == [last |-> <<0, 0>>, splices |-> <<>>]

IsWalk(f, new, pairs, n) ==
  f = [i \in 0 .. n |-> IF i = 0 THEN Start ELSE Passing(new, pairs, i, f[i - 1])]

LEMMA WalkExists ==
  ASSUME NEW new, NEW pairs, NEW m \in Nat
  PROVE  \E f : IsWalk(f, new, pairs, m)
<1> DEFINE Reached == {n \in Nat : \E f : IsWalk(f, new, pairs, n)}
<1>1. 0 \in Reached
  <2>1. IsWalk([i \in 0 .. 0 |-> Start], new, pairs, 0)
    BY DEF IsWalk
  <2> QED
    BY <2>1
<1>2. ASSUME NEW n \in Nat, n \in Reached
      PROVE  n + 1 \in Reached
  <2>1. PICK f : IsWalk(f, new, pairs, n)
    BY <1>2
  <2> DEFINE g == [i \in 0 .. n + 1 |-> IF i <= n THEN f[i] ELSE Passing(new, pairs, i, f[i - 1])]
  <2>2. \A i \in 0 .. n : f[i] = IF i = 0 THEN Start ELSE Passing(new, pairs, i, f[i - 1])
    BY <2>1 DEF IsWalk
  <2>3. \A i \in 0 .. n + 1 : g[i] = IF i = 0 THEN Start ELSE Passing(new, pairs, i, g[i - 1])
    BY <2>2
  <2>4. g = [i \in 0 .. n + 1 |-> g[i]]
    OBVIOUS
  <2> HIDE DEF g
  <2>5. IsWalk(g, new, pairs, n + 1)
    BY <2>3, <2>4 DEF IsWalk
  <2> QED
    BY <2>5
<1> HIDE DEF Reached
<1>3. m \in Reached
  BY <1>1, <1>2, Induction
<1> QED
  BY <1>3 DEF Reached

LEMMA WalkIs ==
  ASSUME NEW old, NEW new, Len(old) \in Nat
  PROVE  /\ Walk(old, new)[0] = Start
         /\ \A i \in 0 .. Len(old) :
              Walk(old, new)[i + 1] = Passing(new, Pairs(old, new), i + 1, Walk(old, new)[i])
<1> DEFINE n == Len(old) + 1
           pairs == Pairs(old, new)
           walk == CHOOSE f : IsWalk(f, new, pairs, n)
<1>1. IsWalk(walk, new, pairs, n)
  BY WalkExists
<1>2. Walk(old, new) = walk
  BY DEF Walk, IsWalk, Start, Passing, Pairs
<1> HIDE DEF walk, pairs
<1>3. \A i \in 0 .. n : walk[i] = IF i = 0 THEN Start ELSE Passing(new, pairs, i, walk[i - 1])
  BY <1>1 DEF IsWalk
<1>4. walk[0] = Start
  BY <1>3
<1>5. \A i \in 0 .. Len(old) : i + 1 \in 0 .. n /\ i + 1 # 0 /\ (i + 1) - 1 = i
  OBVIOUS
<1>6. \A i \in 0 .. Len(old) : walk[i + 1] = Passing(new, pairs, i + 1, walk[i])
  BY <1>3, <1>5
<1> QED
  BY <1>2, <1>4, <1>6 DEF pairs

-----------------------------------------------------------------------------
(* SeqApply *)

Splices(items) == [at : Nat, remove : Nat, insert : Seq(items)]

Pieces(target, splices) == [k \in DOMAIN splices |-> Spliced(target, splices, k)]

\* How a concatenation is bracketed makes no difference.
Associate(s, t, u) == (s \o t) \o u = s \o (t \o u)

LEMMA Associates ==
  ASSUME NEW S, NEW s \in Seq(S), NEW t \in Seq(S), NEW u \in Seq(S)
  PROVE  Associate(s, t, u)
BY ConcatAssociative DEF Associate

LEMMA PartOf ==
  ASSUME NEW S, NEW s \in Seq(S), NEW a \in Nat, NEW b \in Int, b <= Len(s)
  PROVE  SubSeq(s, a + 1, b) \in Seq(S)
<1>1. Len(s) \in Nat /\ \A i \in a + 1 .. b : i \in 1 .. Len(s)
  BY LenProperties
<1>2. \A i \in a + 1 .. b : s[i] \in S
  BY <1>1, ElementOfSeq
<1> QED
  BY <1>2, SubSeqProperties

LEMMA BehindIsPosition ==
  ASSUME NEW items, NEW splices \in Seq(Splices(items)), NEW k \in 0 .. Len(splices)
  PROVE  Behind(splices, k) \in Nat
<1>1. CASE k = 0
  BY <1>1 DEF Behind
<1>2. CASE k # 0
  <2>1. splices[k] \in Splices(items)
    BY <1>2, LenProperties, ElementOfSeq
  <2> QED
    BY <1>2, <2>1 DEF Behind, Splices
<1> QED
  BY <1>1, <1>2

LEMMA SplicedIsSeq ==
  ASSUME NEW items, NEW target \in Seq(items), NEW a \in Nat, NEW gap \in Splices(items)
  PROVE  SubSeq(target, a + 1, Min({gap.at, Len(target)})) \o gap.insert \in Seq(items)
<1> DEFINE b == Min({gap.at, Len(target)})
<1>1. gap.at \in Nat /\ gap.insert \in Seq(items) /\ Len(target) \in Nat
  BY LenProperties DEF Splices
<1>2. b \in Nat /\ b <= Len(target)
  BY <1>1, MinFacts
<1> HIDE DEF b
<1>3. SubSeq(target, a + 1, b) \in Seq(items)
  BY <1>2, PartOf
<1> QED
  BY <1>1, <1>3, ConcatProperties DEF b

LEMMA PiecesAreSeqs ==
  ASSUME NEW items, NEW target \in Seq(items), NEW splices \in Seq(Splices(items))
  PROVE  Pieces(target, splices) \in Seq(Seq(items))
<1> DEFINE n == Len(splices)
<1>1. n \in Nat /\ DOMAIN splices = 1 .. n
  BY LenProperties
<1> HIDE DEF n
<1>2. ASSUME NEW k \in 1 .. n
      PROVE  Spliced(target, splices, k) \in Seq(items)
  <2>1. splices[k] \in Splices(items)
    BY <1>1, ElementOfSeq DEF n
  <2>2. k - 1 \in 0 .. n
    BY <1>1
  <2>3. Behind(splices, k - 1) \in Nat
    BY <2>2, BehindIsPosition DEF n
  <2> QED
    BY <2>1, <2>3, SplicedIsSeq DEF Spliced
<1>3. Pieces(target, splices) \in [1 .. n -> Seq(items)]
  BY <1>1, <1>2 DEF Pieces
<1> QED
  BY <1>1, <1>3, SeqDef

\* What one more splice adds.
Addition(target, splices, gap) ==
  SubSeq(target, Behind(splices, Len(splices)) + 1, Min({gap.at, Len(target)})) \o gap.insert

Extends(more, items, target, splices, gap) ==
  /\ more \in Seq(Splices(items)) /\ more # <<>>
  /\ Behind(more, Len(more)) = gap.at + gap.remove
  /\ Addition(target, splices, gap) \in Seq(items)
  /\ Pieces(target, more) = Append(Pieces(target, splices), Addition(target, splices, gap))

LEMMA PiecesAppend ==
  ASSUME NEW items, NEW target \in Seq(items), NEW splices \in Seq(Splices(items)),
         NEW gap \in Splices(items)
  PROVE  Extends(Append(splices, gap), items, target, splices, gap)
<1> DEFINE n == Len(splices)
           more == Append(splices, gap)
           p == Pieces(target, splices)
           x == SubSeq(target, Behind(splices, n) + 1, Min({gap.at, Len(target)})) \o gap.insert
<1>1. /\ n \in Nat /\ DOMAIN splices = 1 .. n
      /\ more \in Seq(Splices(items)) /\ more # <<>> /\ Len(more) = n + 1
      /\ \A i \in 1 .. n : more[i] = splices[i]
      /\ more[n + 1] = gap
  BY LenProperties, AppendProperties
<1>2. DOMAIN more = 1 .. n + 1
  BY <1>1, LenProperties
<1> HIDE DEF n, more
<1>3. Behind(more, n + 1) = gap.at + gap.remove
  BY <1>1 DEF Behind
<1>4. \A k \in 0 .. n : Behind(more, k) = Behind(splices, k)
  BY <1>1 DEF Behind
<1>5. \A k \in 1 .. n : Spliced(target, more, k) = Spliced(target, splices, k)
  <2> TAKE k \in 1 .. n
  <2>1. k - 1 \in 0 .. n /\ more[k] = splices[k]
    BY <1>1
  <2>2. Behind(more, k - 1) = Behind(splices, k - 1)
    BY <1>4, <2>1
  <2> QED
    BY <2>1, <2>2 DEF Spliced
<1>6. Spliced(target, more, n + 1) = x
  <2>1. n \in 0 .. n /\ (n + 1) - 1 = n
    BY <1>1
  <2>2. Behind(more, (n + 1) - 1) = Behind(splices, n)
    BY <1>4, <2>1
  <2> QED
    BY <1>1, <2>2 DEF Spliced
<1>7. x \in Seq(items)
  <2>1. Behind(splices, n) \in Nat
    BY <1>1, BehindIsPosition DEF n
  <2> QED
    BY <2>1, SplicedIsSeq
<1>8. p \in Seq(Seq(items)) /\ DOMAIN p = 1 .. n /\ Len(p) = n
      /\ \A k \in 1 .. n : p[k] = Spliced(target, splices, k)
  <2>1. p \in Seq(Seq(items))
    BY PiecesAreSeqs
  <2>2. DOMAIN p = 1 .. n /\ \A k \in 1 .. n : p[k] = Spliced(target, splices, k)
    BY <1>1 DEF Pieces
  <2>3. Len(p) \in Nat /\ DOMAIN p = 1 .. Len(p)
    BY <2>1, LenProperties
  <2>4. Len(p) = n
    <3> HIDE DEF p
    <3> QED
      BY <1>1, <2>2, <2>3
  <2> QED
    BY <2>1, <2>2, <2>4
<1> HIDE DEF x, p
<1>9. Append(p, x) \in Seq(Seq(items)) /\ Len(Append(p, x)) = n + 1
      /\ (\A i \in 1 .. n : Append(p, x)[i] = p[i]) /\ Append(p, x)[n + 1] = x
  BY <1>7, <1>8, AppendProperties
<1> DEFINE q == Pieces(target, more)
<1>10. q \in Seq(Seq(items)) /\ Len(q) = n + 1
       /\ \A k \in 1 .. n + 1 : q[k] = Spliced(target, more, k)
  <2>1. q \in Seq(Seq(items))
    BY <1>1, PiecesAreSeqs
  <2>2. DOMAIN q = 1 .. n + 1 /\ \A k \in 1 .. n + 1 : q[k] = Spliced(target, more, k)
    BY <1>2 DEF Pieces
  <2>3. Len(q) \in Nat /\ DOMAIN q = 1 .. Len(q)
    BY <2>1, LenProperties
  <2>4. Len(q) = n + 1
    <3> HIDE DEF q
    <3> QED
      BY <1>1, <2>2, <2>3
  <2> QED
    BY <2>1, <2>2, <2>4
<1> HIDE DEF q
<1>11. \A k \in 1 .. n + 1 : q[k] = Append(p, x)[k]
  <2> TAKE k \in 1 .. n + 1
  <2>1. k \in 1 .. n \/ k = n + 1
    BY <1>1
  <2> QED
    BY <1>5, <1>6, <1>8, <1>9, <1>10, <2>1
<1>12. q = Append(p, x)
  BY <1>1, <1>9, <1>10, <1>11, SeqEqual
<1> QED
  BY <1>1, <1>3, <1>7, <1>12 DEF n, more, x, p, q, Addition, Extends

-----------------------------------------------------------------------------
(* A script that takes old to new *)

\* Applied to old as far as m, the splices make new as far as mate.
Makes(items, splices, old, new, m, mate) ==
  /\ splices \in Seq(Splices(items))
  /\ Behind(splices, Len(splices)) \in 0 .. m
  /\ FlattenSeq(Pieces(old, splices)) \o SubSeq(old, Behind(splices, Len(splices)) + 1, m)
       = SubSeq(new, 1, mate)

\* A gap behind <<m, mate>> and before <<i, j>>.
GapMade(gap, items, splices, old, new, m, mate, i, j) ==
  /\ gap.remove = 0 /\ gap.insert = <<>> => i = m + 1 /\ j = mate + 1
  /\ Makes(items, IF gap.remove = 0 /\ gap.insert = <<>>
                  THEN splices ELSE Append(splices, gap), old, new, i - 1, j - 1)

LEMMA GapMakes ==
  ASSUME NEW items, NEW old \in Seq(items), NEW new \in Seq(items), NEW splices,
         NEW m \in Nat, NEW mate \in Nat, NEW i \in Nat, NEW j \in Nat,
         m < i, mate < j, i <= Len(old) + 1, j <= Len(new) + 1,
         Makes(items, splices, old, new, m, mate)
  PROVE  GapMade(Between(new, <<m, mate>>, <<i, j>>), items, splices, old, new, m, mate, i, j)
<1> DEFINE gap == Between(new, <<m, mate>>, <<i, j>>)
           insert == SubSeq(new, mate + 1, j - 1)
           b == Behind(splices, Len(splices))
           upto == FlattenSeq(Pieces(old, splices))
<1>1. Len(old) \in Nat /\ Len(new) \in Nat
  BY LenProperties
<1>2. insert \in Seq(items) /\ Len(insert) = j - 1 - mate
  <2>1. insert \in Seq(items)
    BY <1>1, PartOf
  <2>2. \A k \in mate + 1 .. j - 1 : new[k] \in items
    BY <1>1, ElementOfSeq
  <2> QED
    BY <2>1, <2>2, SubSeqProperties
<1>3. gap = [at |-> m, remove |-> i - m - 1, insert |-> insert]
  BY DEF Between
<1>4. gap \in Splices(items)
  <2> HIDE DEF insert, gap
  <2>1. i - m - 1 \in Nat
    OBVIOUS
  <2> QED
    BY <1>2, <1>3, <2>1 DEF Splices
<1>5. /\ splices \in Seq(Splices(items)) /\ b \in 0 .. m
      /\ upto \o SubSeq(old, b + 1, m) = SubSeq(new, 1, mate)
  BY DEF Makes
<1> HIDE DEF gap, insert, b, upto
<1>6. CASE gap.remove = 0 /\ gap.insert = <<>>
  <2>1. i = m + 1 /\ j = mate + 1
    BY <1>2, <1>3, <1>6, EmptySeq
  <2>2. i - 1 = m /\ j - 1 = mate
    BY <2>1
  <2> QED
    BY <1>6, <2>1, <2>2 DEF gap, GapMade
<1>7. CASE ~ (gap.remove = 0 /\ gap.insert = <<>>)
  <2> DEFINE more == Append(splices, gap)
             x == Addition(old, splices, gap)
             y == SubSeq(old, b + 1, m)
  <2>1. Extends(more, items, old, splices, gap)
    BY <1>4, <1>5, PiecesAppend
  <2>2. Behind(more, Len(more)) = i - 1
    BY <1>3, <2>1 DEF Extends
  <2>3. x = y \o insert
    <3>1. m \in {gap.at, Len(old)} /\ \A k \in {gap.at, Len(old)} : m <= k
          /\ {gap.at, Len(old)} \in SUBSET Nat
      BY <1>1, <1>3
    <3>2. Min({gap.at, Len(old)}) = m
      BY <3>1, MinIs
    <3> QED
      BY <1>3, <3>2 DEF Addition, b
  <2>4. y \in Seq(items)
    BY <1>1, <1>5, PartOf
  <2>5. x \in Seq(items)
    BY <2>1 DEF Extends
  <2>6. upto \in Seq(items) /\ FlattenSeq(Append(Pieces(old, splices), x)) = upto \o x
    BY <1>5, <2>5, PiecesAreSeqs, FlattenAppend DEF upto
  <2>7. upto \o x = SubSeq(new, 1, j - 1)
    <3>1. upto \o x = (upto \o y) \o insert
      <4> HIDE DEF x, y
      <4>1. Associate(upto, y, insert)
        BY <1>2, <2>4, <2>6, Associates
      <4> QED
        BY <2>3, <4>1 DEF Associate
    <3>2. SubSeq(new, 1, mate) \o insert = SubSeq(new, 1, j - 1)
      BY <1>1, ConcatAdjacentSubSeq DEF insert
    <3> QED
      BY <1>5, <3>1, <3>2
  <2> HIDE DEF more, x
  <2>8. FlattenSeq(Pieces(old, more)) \o SubSeq(old, i, i - 1) = SubSeq(new, 1, j - 1)
    <3>1. SubSeq(old, i, i - 1) = <<>>
      BY SubSeqEmpty
    <3>2. (upto \o x) \o <<>> = upto \o x
      BY <2>5, <2>6, ConcatProperties, ConcatEmptySeq
    <3> QED
      <4>1. FlattenSeq(Pieces(old, more)) = upto \o x
        BY <2>1, <2>6 DEF Extends, x
      <4> QED
        BY <2>7, <3>1, <3>2, <4>1
  <2>9. Makes(items, more, old, new, i - 1, j - 1)
    <3>1. (i - 1) + 1 = i /\ i - 1 \in 0 .. i - 1
      OBVIOUS
    <3>2. more \in Seq(Splices(items))
      BY <2>1 DEF Extends
    <3> QED
      BY <2>2, <2>8, <3>1, <3>2 DEF Makes
  <2> QED
    BY <1>7, <2>9 DEF more, gap, GapMade
<1> QED
  BY <1>6, <1>7

\* A pair of equal items is kept.
LEMMA PairMakes ==
  ASSUME NEW items, NEW old \in Seq(items), NEW new \in Seq(items), NEW splices,
         NEW i \in 1 .. Len(old), NEW j \in 1 .. Len(new), old[i] = new[j],
         Makes(items, splices, old, new, i - 1, j - 1)
  PROVE  Makes(items, splices, old, new, i, j)
<1> DEFINE b == Behind(splices, Len(splices))
           upto == FlattenSeq(Pieces(old, splices))
<1>1. Len(old) \in Nat /\ Len(new) \in Nat
  BY LenProperties
<1>2. /\ splices \in Seq(Splices(items)) /\ b \in 0 .. i - 1
      /\ upto \o SubSeq(old, b + 1, i - 1) = SubSeq(new, 1, j - 1)
  BY DEF Makes
<1>3. upto \in Seq(items)
  <2>1. <<>> \in Seq(items)
    BY EmptySeq
  <2> QED
    BY <1>2, <2>1, PiecesAreSeqs, FlattenAppend
<1> HIDE DEF b, upto
<1> DEFINE y == SubSeq(old, b + 1, i - 1)
           z == <<old[i]>>
<1>4. y \in Seq(items)
  BY <1>1, <1>2, PartOf
<1>5. SubSeq(old, b + 1, i) = y \o z
  <2>1. b + 1 \in 1 .. Len(old) /\ i \in b + 1 .. Len(old)
    BY <1>1, <1>2
  <2> QED
    BY <2>1, SubSeqRecursiveSecond
<1>6. SubSeq(new, 1, j) = SubSeq(new, 1, j - 1) \o z
  <2>1. 1 \in 1 .. Len(new) /\ j \in 1 .. Len(new)
    BY <1>1
  <2> QED
    BY <2>1, SubSeqRecursiveSecond
<1>7. z \in Seq(items)
  BY <1>1, ElementOfSeq
<1> HIDE DEF y, z
<1>8. Associate(upto, y, z)
  BY <1>3, <1>4, <1>7, Associates
<1>9. upto \o SubSeq(old, b + 1, i) = SubSeq(new, 1, j)
  BY <1>2, <1>5, <1>6, <1>8 DEF y, Associate
<1>10. b \in 0 .. i
  BY <1>1, <1>2
<1> QED
  BY <1>2, <1>9, <1>10 DEF Makes, b, upto

\* Along the walk: the pair passed last is the last there was, and the splices
\* make new as far as it.
Walked(items, old, new, i) ==
  LET w == Walk(old, new)[i]
      m == w.last[1]
      mate == w.last[2]
  IN /\ w.last = <<0, 0>> \/ w.last \in Alignment(old, new)
     /\ m <= i
     /\ \A p \in Alignment(old, new) : p[1] <= i => p[1] <= m
     /\ Makes(items, w.splices, old, new, m, mate)

LEMMA WalkStarts ==
  ASSUME NEW items, NEW old \in Seq(items), NEW new \in Seq(items)
  PROVE  Walked(items, old, new, 0)
<1> DEFINE w == Walk(old, new)[0]
<1>1. Len(old) \in Nat /\ DOMAIN old = 1 .. Len(old)
  BY LenProperties
<1>2. w = [last |-> <<0, 0>>, splices |-> <<>>]
  BY <1>1, WalkIs DEF Start
<1>3. \A p \in Alignment(old, new) : p[1] \in 1 .. Len(old)
  BY <1>1, AlignmentFacts DEF IsAligned
<1>4. Makes(items, <<>>, old, new, 0, 0)
  <2>1. <<>> \in Seq(Splices(items)) /\ Len(<<>>) = 0 /\ <<>> \in Seq(items)
    BY EmptySeq
  <2>2. Behind(<<>>, Len(<<>>)) = 0
    BY <2>1 DEF Behind
  <2>3. Pieces(old, <<>>) = <<>>
    BY DEF Pieces
  <2>4. FlattenSeq(<<>>) = <<>>
    BY DEF FlattenSeq
  <2>5. SubSeq(old, 0 + 1, 0) = <<>> /\ SubSeq(new, 1, 0) = <<>>
    BY SubSeqEmpty
  <2>6. <<>> \o <<>> = <<>>
    BY <2>1, ConcatEmptySeq
  <2> QED
    BY <2>1, <2>2, <2>3, <2>4, <2>5, <2>6 DEF Makes
<1> HIDE DEF w
<1>5. w.last = <<0, 0>> /\ w.splices = <<>> /\ w.last[1] = 0 /\ w.last[2] = 0
  BY <1>2
<1> QED
  BY <1>3, <1>4, <1>5 DEF Walked, w

\* The next pair of an alignment is behind the last, in both sequences.
LEMMA PairIsBehind ==
  ASSUME NEW S, NEW old \in Seq(S), NEW new \in Seq(S), NEW last, NEW p,
         last = <<0, 0>> \/ last \in Alignment(old, new),
         p \in Pairs(old, new), last[1] < p[1]
  PROVE  /\ last = <<last[1], last[2]>> /\ last[1] \in 0 .. Len(old) /\ last[2] \in 0 .. Len(new)
         /\ p = <<p[1], p[2]>> /\ p[1] \in 1 .. Len(old) + 1 /\ p[2] \in 1 .. Len(new) + 1
         /\ last[2] < p[2]
<1>1. /\ Len(old) \in Nat /\ DOMAIN old = 1 .. Len(old)
      /\ Len(new) \in Nat /\ DOMAIN new = 1 .. Len(new)
  BY LenProperties
<1>2. IsAligned(Alignment(old, new), old, new)
  BY AlignmentFacts
<1>3. last = <<last[1], last[2]>> /\ last[1] \in 0 .. Len(old) /\ last[2] \in 0 .. Len(new)
  BY <1>1, <1>2 DEF IsAligned
<1>4. p = <<p[1], p[2]>> /\ p[1] \in 1 .. Len(old) + 1 /\ p[2] \in 1 .. Len(new) + 1
  BY <1>1, <1>2 DEF IsAligned, Pairs
<1>5. last[2] < p[2]
  <2>1. CASE p = <<Len(old) + 1, Len(new) + 1>>
    BY <1>1, <1>3, <2>1
  <2>2. CASE p \in Alignment(old, new) /\ last = <<0, 0>>
    BY <1>1, <1>2, <2>2 DEF IsAligned
  <2>3. CASE p \in Alignment(old, new) /\ last \in Alignment(old, new)
    BY <1>2, <2>3 DEF IsAligned
  <2> QED
    BY <2>1, <2>2, <2>3 DEF Pairs
<1> QED
  BY <1>3, <1>4, <1>5

\* What the walk knows when there is a pair at the position it comes to.
Passed(items, old, new, i) ==
  LET w == Walk(old, new)[i + 1]
      before == Walk(old, new)[i]
      gap == Between(new, before.last, w.last)
  IN /\ w.last \in Pairs(old, new) /\ w.last[1] = i + 1
     /\ w.splices = IF gap.remove = 0 /\ gap.insert = <<>>
                    THEN before.splices ELSE Append(before.splices, gap)
     /\ gap.remove = 0 /\ gap.insert = <<>> =>
          w.last[1] = before.last[1] + 1 /\ w.last[2] = before.last[2] + 1
     /\ Makes(items, w.splices, old, new, i, w.last[2] - 1)

LEMMA PairPassed ==
  ASSUME NEW items, NEW old \in Seq(items), NEW new \in Seq(items), NEW i \in 0 .. Len(old),
         Walked(items, old, new, i), \E p \in Pairs(old, new) : p[1] = i + 1
  PROVE  Passed(items, old, new, i)
<1> DEFINE before == Walk(old, new)[i]
           w == Walk(old, new)[i + 1]
           pair == CHOOSE p \in Pairs(old, new) : p[1] = i + 1
           gap == Between(new, before.last, pair)
           last == before.last
<1>1. Len(old) \in Nat /\ Len(new) \in Nat
  BY LenProperties
<1>2. pair \in Pairs(old, new) /\ pair[1] = i + 1
  OBVIOUS
<1>3. w = [last |-> pair,
           splices |-> IF gap.remove = 0 /\ gap.insert = <<>>
                       THEN before.splices ELSE Append(before.splices, gap)]
  <2>1. w = Passing(new, Pairs(old, new), i + 1, before)
    BY <1>1, WalkIs
  <2> HIDE DEF w, before
  <2> QED
    BY <1>2, <2>1 DEF Passing
<1> HIDE DEF pair, w
<1>4. /\ last = <<0, 0>> \/ last \in Alignment(old, new)
      /\ last[1] <= i
      /\ Makes(items, before.splices, old, new, last[1], last[2])
  BY DEF Walked
<1> HIDE DEF before, last
<1>5. /\ last = <<last[1], last[2]>> /\ last[1] \in 0 .. Len(old) /\ last[2] \in 0 .. Len(new)
      /\ pair = <<pair[1], pair[2]>>
      /\ pair[1] \in 1 .. Len(old) + 1 /\ pair[2] \in 1 .. Len(new) + 1
      /\ last[2] < pair[2] /\ last[1] < pair[1]
  <2>1. last[1] < pair[1]
    <3>1. last[1] \in Nat
      <4>1. IsAligned(Alignment(old, new), old, new) /\ DOMAIN old = 1 .. Len(old)
        BY AlignmentFacts, LenProperties
      <4> QED
        BY <1>1, <1>4, <4>1 DEF IsAligned
    <3> QED
      BY <1>2, <1>4, <3>1
  <2> QED
    BY <1>2, <1>4, <2>1, PairIsBehind
<1> DEFINE gap2 == Between(new, <<last[1], last[2]>>, <<pair[1], pair[2]>>)
<1>6. GapMade(gap2, items, before.splices, old, new, last[1], last[2], pair[1], pair[2])
  <2>1. /\ last[1] \in Nat /\ last[2] \in Nat /\ pair[1] \in Nat /\ pair[2] \in Nat
        /\ pair[1] <= Len(old) + 1 /\ pair[2] <= Len(new) + 1
    BY <1>1, <1>5
  <2> HIDE DEF pair, last
  <2> QED
    BY <1>4, <1>5, <2>1, GapMakes
<1>7. gap2 = gap
  BY <1>5 DEF last
<1>8. pair[1] - 1 = i
  BY <1>2
<1> HIDE DEF gap, gap2
<1>9. w.last = pair /\ w.splices = IF gap.remove = 0 /\ gap.insert = <<>>
                                   THEN before.splices ELSE Append(before.splices, gap)
  BY <1>3
<1> QED
  BY <1>2, <1>6, <1>7, <1>8, <1>9 DEF GapMade, Passed, before, w, gap, last

LEMMA WalkPasses ==
  ASSUME NEW items, NEW old \in Seq(items), NEW new \in Seq(items), NEW i \in 0 .. Len(old),
         i # Len(old), Walked(items, old, new, i)
  PROVE  Walked(items, old, new, i + 1)
<1> DEFINE before == Walk(old, new)[i]
           w == Walk(old, new)[i + 1]
<1>1. /\ Len(old) \in Nat /\ DOMAIN old = 1 .. Len(old)
      /\ Len(new) \in Nat /\ DOMAIN new = 1 .. Len(new)
  BY LenProperties
<1>2. IsAligned(Alignment(old, new), old, new)
  BY AlignmentFacts
<1>3. \A p \in Alignment(old, new) : p[1] \in Nat
  <2>1. \A p \in Alignment(old, new) : p \in (1 .. Len(old)) \X (1 .. Len(new))
    BY <1>1, <1>2 DEF IsAligned
  <2> QED
    BY <2>1
<1>4. CASE \A p \in Pairs(old, new) : p[1] # i + 1
  <2>1. w = before
    <3>1. w = Passing(new, Pairs(old, new), i + 1, before)
      BY <1>1, WalkIs
    <3> HIDE DEF w, before
    <3> QED
      BY <1>4, <3>1 DEF Passing
  <2>2. \A p \in Alignment(old, new) : p[1] <= i + 1 => p[1] <= i
    BY <1>3, <1>4 DEF Pairs
  <2>3. before.last[1] <= i + 1
    <3>1. before.last[1] <= i /\ (before.last = <<0, 0>> \/ before.last \in Alignment(old, new))
      BY DEF Walked
    <3>2. before.last[1] \in Nat
      BY <1>3, <3>1
    <3> QED
      BY <3>1, <3>2
  <2> HIDE DEF before, w
  <2> QED
    BY <2>1, <2>2, <2>3 DEF Walked, before, w
<1>5. CASE \E p \in Pairs(old, new) : p[1] = i + 1
  <2>1. Passed(items, old, new, i)
    BY <1>5, PairPassed
  <2>2. /\ w.last \in Pairs(old, new) /\ w.last[1] = i + 1
        /\ Makes(items, w.splices, old, new, i, w.last[2] - 1)
    BY <2>1 DEF Passed
  <2> HIDE DEF w
  <2>3. w.last \in Alignment(old, new)
    BY <1>1, <2>2 DEF Pairs
  <2>4. /\ w.last[1] \in 1 .. Len(old) /\ w.last[2] \in 1 .. Len(new)
        /\ old[w.last[1]] = new[w.last[2]]
    BY <1>1, <1>2, <2>3 DEF IsAligned
  <2>5. w.last[1] - 1 = i
    BY <2>2
  <2>6. Makes(items, w.splices, old, new, w.last[1], w.last[2])
    BY <2>2, <2>4, <2>5, PairMakes
  <2>7. w.last[1] <= i + 1 /\ \A p \in Alignment(old, new) : p[1] <= i + 1 => p[1] <= w.last[1]
    BY <1>3, <2>2
  <2> QED
    BY <2>3, <2>6, <2>7 DEF Walked, w
<1> QED
  BY <1>4, <1>5

LEMMA EveryPositionWalked ==
  ASSUME NEW items, NEW old \in Seq(items), NEW new \in Seq(items)
  PROVE  \A i \in 0 .. Len(old) : Walked(items, old, new, i)
<1> DEFINE Reached == {i \in Nat : i <= Len(old) => Walked(items, old, new, i)}
<1>1. Len(old) \in Nat
  BY LenProperties
<1>2. 0 \in Reached
  BY WalkStarts
<1>3. ASSUME NEW i \in Nat, i \in Reached
      PROVE  i + 1 \in Reached
  <2>1. i + 1 <= Len(old) => i \in 0 .. Len(old) /\ i # Len(old) /\ Walked(items, old, new, i)
    BY <1>1, <1>3
  <2> QED
    BY <2>1, WalkPasses
<1> HIDE DEF Reached
<1>4. \A i \in Nat : i \in Reached
  BY <1>2, <1>3, Induction
<1> QED
  BY <1>1, <1>4 DEF Reached

\* The whole script makes new of old.
LEMMA ScriptMakesNew ==
  ASSUME NEW items, NEW old \in Seq(items), NEW new \in Seq(items)
  PROVE  Makes(items, SeqDiff(old, new), old, new, Len(old), Len(new))
<1> DEFINE n == Len(old)
           w == Walk(old, new)[n + 1]
<1>1. /\ n \in Nat /\ DOMAIN old = 1 .. n
      /\ Len(new) \in Nat
  BY LenProperties
<1>2. \E p \in Pairs(old, new) : p[1] = n + 1
  <2> DEFINE end == <<n + 1, Len(new) + 1>>
  <2>1. end \in Pairs(old, new) /\ end[1] = n + 1
    BY DEF Pairs
  <2> QED
    BY <2>1
<1>3. Passed(items, old, new, n)
  BY <1>1, <1>2, EveryPositionWalked, PairPassed
<1>4. /\ w.last \in Pairs(old, new) /\ w.last[1] = n + 1
      /\ Makes(items, w.splices, old, new, n, w.last[2] - 1)
  BY <1>3 DEF Passed
<1>5. IsAligned(Alignment(old, new), old, new)
  BY AlignmentFacts
<1> HIDE DEF w
<1>6. w.last = <<n + 1, Len(new) + 1>>
  BY <1>1, <1>4, <1>5 DEF Pairs, IsAligned
<1>7. w.last[2] - 1 = Len(new)
  BY <1>1, <1>6
<1>8. SeqDiff(old, new) = w.splices
  BY DEF SeqDiff, w
<1> QED
  BY <1>4, <1>7, <1>8

\* A sequence and itself: the walk never leaves the diagonal.
Level(s, i) == Walk(s, s)[i] = [last |-> <<i, i>>, splices |-> <<>>]

LEMMA StaysLevel ==
  ASSUME NEW items, NEW s \in Seq(items), NEW i \in 0 .. Len(s), Level(s, i)
  PROVE  Level(s, i + 1)
<1> DEFINE w == Walk(s, s)[i + 1]
           before == Walk(s, s)[i]
           pairs == Pairs(s, s)
           pair == CHOOSE p \in pairs : p[1] = i + 1
           gap == Between(s, <<i, i>>, pair)
<1>1. Len(s) \in Nat /\ DOMAIN s = 1 .. Len(s)
  BY LenProperties
<1>2. IsAligned(Alignment(s, s), s, s)
  BY AlignmentFacts
<1>3. before.last = <<i, i>> /\ before.splices = <<>>
  BY DEF Level
<1>4. \E p \in pairs : p[1] = i + 1
  <2>1. CASE i = Len(s)
    <3>1. <<Len(s) + 1, Len(s) + 1>> \in pairs
      BY DEF Pairs
    <3> QED
      BY <2>1, <3>1
  <2>2. CASE i # Len(s)
    <3>1. i + 1 \in DOMAIN s
      <4>1. Len(s) \in Nat
        BY <1>1
      <4>2. i + 1 \in 1 .. Len(s)
        BY <2>2, <4>1
      <4> QED
        BY <1>1, <4>2
    <3> QED
      BY <3>1, AlignedWithItself DEF Pairs
  <2> QED
    BY <2>1, <2>2
<1>5. pair \in pairs /\ pair[1] = i + 1
  BY <1>4
<1>6. w = [last |-> pair,
           splices |-> IF gap.remove = 0 /\ gap.insert = <<>> THEN <<>> ELSE Append(<<>>, gap)]
  <2>1. w = Passing(s, pairs, i + 1, before)
    BY <1>1, WalkIs
  <2> HIDE DEF w, before
  <2> QED
    BY <1>3, <1>4, <2>1 DEF Passing
<1> HIDE DEF pair, w
<1>7. pair = <<i + 1, i + 1>>
  <2>1. CASE pair \notin Alignment(s, s)
    BY <1>1, <1>5, <2>1 DEF Pairs
  <2>2. CASE pair \in Alignment(s, s)
    <3>1. \A p \in Alignment(s, s) :
            p = <<p[1], p[2]>> /\ p[1] \in 1 .. Len(s) /\ p[2] \in 1 .. Len(s)
      <4>1. \A p \in Alignment(s, s) : p \in (1 .. Len(s)) \X (1 .. Len(s))
        BY <1>1, <1>2 DEF IsAligned
      <4> QED
        BY <4>1
    <3>2. \A p, q \in Alignment(s, s) : p[1] < q[1] <=> p[2] < q[2]
      BY <1>2 DEF IsAligned
    <3>3. i + 1 \in DOMAIN s
      BY <1>1, <1>5, <2>2, <3>1
    <3>4. PICK q \in Alignment(s, s) : q[2] = i + 1
      BY <3>3, AlignedWithItself
    <3>5. i # 0 => \E p \in Alignment(s, s) : p[1] = i /\ p[2] = i
      <4> SUFFICES ASSUME i # 0 PROVE <<i, i>> \in Alignment(s, s)
        OBVIOUS
      <4>2. Walked(items, s, s, i)
        BY EveryPositionWalked
      <4>3. <<i, i>> = <<0, 0>> \/ <<i, i>> \in Alignment(s, s)
        <5> HIDE DEF before
        <5> QED
          BY <1>3, <4>2 DEF Walked, before
      <4> QED
        BY <4>3
    <3>6. q[1] >= i + 1
      BY <1>1, <3>1, <3>2, <3>4, <3>5
    <3>7. pair[2] >= i + 1
      BY <1>1, <1>5, <2>2, <3>1, <3>2, <3>5
    <3>8. pair[2] <= i + 1
      BY <1>1, <1>5, <2>2, <3>1, <3>2, <3>4, <3>6
    <3>9. pair[2] = i + 1 /\ pair = <<pair[1], pair[2]>>
      BY <2>2, <3>1, <3>7, <3>8
    <3> QED
      BY <1>5, <3>9
  <2> QED
    BY <2>1, <2>2
<1>8. gap = [at |-> i, remove |-> 0, insert |-> <<>>]
  <2>1. SubSeq(s, i + 1, i) = <<>>
    BY SubSeqEmpty
  <2> HIDE DEF gap
  <2>2. gap = [at |-> i, remove |-> (i + 1) - i - 1, insert |-> SubSeq(s, i + 1, (i + 1) - 1)]
    BY <1>7 DEF gap, Between
  <2>3. (i + 1) - i - 1 = 0 /\ (i + 1) - 1 = i
    OBVIOUS
  <2> QED
    BY <2>1, <2>2, <2>3
<1> HIDE DEF gap
<1>9. w = [last |-> <<i + 1, i + 1>>, splices |-> <<>>]
  BY <1>6, <1>7, <1>8
<1> QED
  BY <1>9 DEF Level, w

LEMMA NothingBetweenEquals ==
  ASSUME NEW items, NEW s \in Seq(items)
  PROVE  SeqDiff(s, s) = <<>>
<1> DEFINE Reached == {i \in Nat : i <= Len(s) + 1 => Level(s, i)}
<1>1. Len(s) \in Nat
  BY LenProperties
<1>2. 0 \in Reached
  BY <1>1, WalkIs DEF Level, Start
<1>3. ASSUME NEW i \in Nat, i \in Reached
      PROVE  i + 1 \in Reached
  <2>1. i + 1 <= Len(s) + 1 => i \in 0 .. Len(s) /\ Level(s, i)
    BY <1>1, <1>3
  <2> QED
    BY <2>1, StaysLevel
<1> HIDE DEF Reached
<1>4. Len(s) + 1 \in Reached
  BY <1>1, <1>2, <1>3, Induction
<1>5. Level(s, Len(s) + 1)
  BY <1>1, <1>4 DEF Reached
<1> QED
  BY <1>5 DEF Level, SeqDiff

LEMMA ApplyIsSeq ==
  ASSUME NEW items, NEW target \in Seq(items), NEW splices \in Seq(Splices(items))
  PROVE  SeqApply(target, splices) \in Seq(items)
<1>1. FlattenSeq(Pieces(target, splices)) \in Seq(items)
  <2>1. <<>> \in Seq(items)
    BY EmptySeq
  <2> QED
    BY <2>1, PiecesAreSeqs, FlattenAppend
<1>2. Unspliced(target, splices) \in Seq(items)
  <2>1. Len(splices) \in 0 .. Len(splices) /\ Len(target) \in Int
    BY LenProperties
  <2>2. Behind(splices, Len(splices)) \in Nat
    BY <2>1, BehindIsPosition
  <2> QED
    BY <2>1, <2>2, PartOf DEF Unspliced
<1> QED
  BY <1>1, <1>2, ConcatProperties DEF SeqApply, Pieces

LEMMA ApplyNothing ==
  ASSUME NEW items, NEW target \in Seq(items)
  PROVE  SeqApply(target, <<>>) = target
<1>1. Pieces(target, <<>>) = <<>> /\ FlattenSeq(<<>>) = <<>>
  BY DEF Pieces, FlattenSeq
<1>2. Unspliced(target, <<>>) = target
  <2>1. Behind(<<>>, Len(<<>>)) = 0
    BY EmptySeq DEF Behind
  <2> QED
    BY <2>1, SubSeqFull DEF Unspliced
<1>3. SeqApply(target, <<>>) = <<>> \o target
  BY <1>1, <1>2 DEF SeqApply, Pieces
<1> QED
  BY <1>3, ConcatEmptySeq

\* A script is empty exactly for two equal sequences, makes new of old, another
\* sequence of any other target, and the empty one leaves every target alone.
SeqLaws ==
  \A items : \A o, n, t \in Seq(items) :
    /\ SeqDiff(o, n) = <<>> <=> o = n
    /\ SeqApply(o, SeqDiff(o, n)) = n
    /\ SeqApply(t, SeqDiff(o, n)) \in Seq(items)
    /\ SeqApply(t, <<>>) = t

\* What seq::apply makes of the script seq::diff wrote (seq.rs:114-201), for
\* sequences of any length of any items: ordered fields keep the contract of
\* Delta.
THEOREM ScriptsRoundTrip == SeqLaws
<1> SUFFICES ASSUME NEW items, NEW o \in Seq(items), NEW n \in Seq(items), NEW t \in Seq(items)
             PROVE  /\ SeqDiff(o, n) = <<>> <=> o = n
                    /\ SeqApply(o, SeqDiff(o, n)) = n
                    /\ SeqApply(t, SeqDiff(o, n)) \in Seq(items)
                    /\ SeqApply(t, <<>>) = t
  BY Zenon DEF SeqLaws
<1> DEFINE s == SeqDiff(o, n)
<1>1. Makes(items, s, o, n, Len(o), Len(n))
  BY ScriptMakesNew
<1> HIDE DEF s
<1>2. SeqApply(o, s) = n
  <2>1. SeqApply(o, s) = SubSeq(n, 1, Len(n))
    BY <1>1 DEF Makes, SeqApply, Pieces, Unspliced
  <2> QED
    BY <2>1, SubSeqFull
<1>3. SeqApply(t, s) \in Seq(items)
  BY <1>1, ApplyIsSeq DEF Makes
<1>4. SeqApply(t, <<>>) = t /\ SeqApply(o, <<>>) = o
  BY ApplyNothing
<1>5. o = n => s = <<>>
  BY NothingBetweenEquals DEF s
<1> QED
  BY <1>2, <1>3, <1>4, <1>5 DEF s
=============================================================================
