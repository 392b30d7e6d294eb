---------------------------- MODULE DeriveProofs ----------------------------
(***************************************************************************)
(* The generated code carries the contract of Delta from the types of its  *)
(* fields to the type itself, whatever fields there are.  The contract is  *)
(* InnerLawful, said of the types a field may nest, and Lawful, said of    *)
(* the type; an instance of this module has the one follow from the other, *)
(* and Layers makes the Lawful of each layer the InnerLawful of the next.  *)
(***************************************************************************)
EXTENDS Contract, CollectionsProofs

\* None is neither a record nor a sequence, as every delta is.
NoneIsNoFunction == ~ IsMap(None)

-----------------------------------------------------------------------------
(* The contract *)

\* A type, two of its values and the value a delta of theirs is applied to.
InnerUse(of, o, n, t) ==
  InnerType(of) /\ InnerValue(of, o) /\ InnerValue(of, n) /\ InnerValue(of, t)

Use(ty, o, n, t) == IsType(ty) /\ IsValue(ty, o) /\ IsValue(ty, n) /\ IsValue(ty, t)

\* delta is None exactly when == holds.
InnerDecides ==
  \A of, o, n : InnerUse(of, o, n, o) =>
    (InnerDelta(of, o, n) = None <=> InnerSame(of, o, n, FALSE))

Decides ==
  \A ty, o, n : Use(ty, o, n, o) =>
    (DeltaOf(ty, o, n) = None <=> Same(ty, o, n, FALSE))

\* Being as good as is reflexive, transitive and implied by ==.
InnerOrder ==
  /\ \A of, v : InnerUse(of, v, v, v) => InnerSame(of, v, v, TRUE)
  /\ \A of, v, w : InnerUse(of, v, w, v) /\ InnerSame(of, v, w, FALSE) =>
       InnerSame(of, v, w, TRUE)
  /\ \A of, v, w, x :
       InnerUse(of, v, w, x) /\ InnerSame(of, v, w, TRUE) /\ InnerSame(of, w, x, TRUE) =>
         InnerSame(of, v, x, TRUE)

Order ==
  /\ \A ty, v : Use(ty, v, v, v) => Same(ty, v, v, TRUE)
  /\ \A ty, v, w : Use(ty, v, w, v) /\ Same(ty, v, w, FALSE) => Same(ty, v, w, TRUE)
  /\ \A ty, v, w, x :
       Use(ty, v, w, x) /\ Same(ty, v, w, TRUE) /\ Same(ty, w, x, TRUE) =>
         Same(ty, v, x, TRUE)

\* On a value as good as old, apply_delta succeeds and makes one as good as new.
InnerMakesNew ==
  \A of, o, n, t :
    InnerUse(of, o, n, t) /\ InnerDelta(of, o, n) # None /\ InnerSame(of, t, o, TRUE) =>
      LET r == InnerApply(of, t, InnerDelta(of, o, n))
      IN r.err = None /\ InnerSame(of, r.value, n, TRUE)

MakesNew ==
  \A ty, o, n, t :
    Use(ty, o, n, t) /\ DeltaOf(ty, o, n) # None /\ Same(ty, t, o, TRUE) =>
      LET r == ApplyTo(ty, t, DeltaOf(ty, o, n))
      IN r.err = None /\ Same(ty, r.value, n, TRUE)

\* On any value it leaves a value, even where it fails.
InnerStaysValue ==
  \A of, o, n, t : InnerUse(of, o, n, t) /\ InnerDelta(of, o, n) # None =>
    InnerValue(of, InnerApply(of, t, InnerDelta(of, o, n)).value)

StaysValue ==
  \A ty, o, n, t : Use(ty, o, n, t) /\ DeltaOf(ty, o, n) # None =>
    IsValue(ty, ApplyTo(ty, t, DeltaOf(ty, o, n)).value)

\* Its error is about a place where the two really are in different variants.
InnerHonest ==
  \A of, o, n, t : InnerUse(of, o, n, t) /\ InnerDelta(of, o, n) # None =>
    LET r == InnerApply(of, t, InnerDelta(of, o, n))
    IN r.err = None \/ r.err \in InnerDisagreements(of, o, t)

Honest ==
  \A ty, o, n, t : Use(ty, o, n, t) /\ DeltaOf(ty, o, n) # None =>
    LET r == ApplyTo(ty, t, DeltaOf(ty, o, n))
    IN r.err = None \/ r.err \in Disagreements(ty, o, t)

\* It keeps what old and new agree on, and so do several applications.
InnerKeeps ==
  /\ \A of, o, n, t : InnerUse(of, o, n, t) => InnerKept(of, o, n, t, t)
  /\ \A of, o, n, t : InnerUse(of, o, n, t) /\ InnerDelta(of, o, n) # None =>
       InnerKept(of, o, n, t, InnerApply(of, t, InnerDelta(of, o, n)).value)
  /\ \A of, o, n, v, w, x :
       InnerUse(of, o, n, v) /\ InnerUse(of, o, w, x) /\ InnerKept(of, o, n, v, w)
         /\ InnerKept(of, o, n, w, x) => InnerKept(of, o, n, v, x)

Keeps ==
  /\ \A ty, o, n, t : Use(ty, o, n, t) => Kept(ty, o, n, t, t)
  /\ \A ty, o, n, t : Use(ty, o, n, t) /\ DeltaOf(ty, o, n) # None =>
       Kept(ty, o, n, t, ApplyTo(ty, t, DeltaOf(ty, o, n)).value)
  /\ \A ty, o, n, v, w, x :
       Use(ty, o, n, v) /\ Use(ty, o, w, x) /\ Kept(ty, o, n, v, w)
         /\ Kept(ty, o, n, w, x) => Kept(ty, o, n, v, x)

\* Applied once more it says the same and, sequences apart, changes nothing.
InnerSettles ==
  \A of, o, n, t : InnerUse(of, o, n, t) /\ InnerDelta(of, o, n) # None =>
    LET d == InnerDelta(of, o, n)
        once == InnerApply(of, t, d)
        twice == InnerApply(of, once.value, d)
    IN twice.err = once.err /\ (InnerOrdered(of) \/ twice.value = once.value)

Settles ==
  \A ty, o, n, t : Use(ty, o, n, t) /\ DeltaOf(ty, o, n) # None =>
    LET d == DeltaOf(ty, o, n)
        once == ApplyTo(ty, t, d)
        twice == ApplyTo(ty, once.value, d)
    IN twice.err = once.err /\ (HasOrdered(ty) \/ twice.value = once.value)

InnerLawful ==
  /\ InnerDecides /\ InnerOrder /\ InnerMakesNew /\ InnerStaysValue
  /\ InnerHonest /\ InnerKeeps /\ InnerSettles

Lawful ==
  /\ Decides /\ Order /\ MakesNew /\ StaysValue
  /\ Honest /\ Keeps /\ Settles

-----------------------------------------------------------------------------
(* Fields *)

FieldUse(ty, o, n, t) ==
  IsField(ty) /\ IsFieldValue(ty, o) /\ IsFieldValue(ty, n) /\ IsFieldValue(ty, t)

LEMMA FieldOrderReflexive ==
  ASSUME InnerOrder, NEW ty, NEW v, FieldUse(ty, v, v, v)
  PROVE  SameField(ty, v, v, TRUE)
BY DEF FieldUse, IsField, IsFieldValue, IsValueOf, SameField, SameValue, SameScalar,
       InnerOrder, InnerUse

LEMMA FieldOrderWeaker ==
  ASSUME InnerOrder, NEW ty, NEW v, NEW w, FieldUse(ty, v, w, v), SameField(ty, v, w, FALSE)
  PROVE  SameField(ty, v, w, TRUE)
BY DEF FieldUse, IsField, IsFieldValue, IsValueOf, SameField, SameValue, SameScalar,
       InnerOrder, InnerUse

LEMMA FieldOrderTransitive ==
  ASSUME InnerOrder, NEW ty, NEW v, NEW w, NEW x, FieldUse(ty, v, w, x),
         SameField(ty, v, w, TRUE), SameField(ty, w, x, TRUE)
  PROVE  SameField(ty, v, x, TRUE)
BY DEF FieldUse, IsField, IsFieldValue, IsValueOf, SameField, SameValue, SameScalar, ScalarNe,
       InnerOrder, InnerUse

\* What EntryDiff makes of two maps of scalars, and what that makes of a third.
Resent(of, o, n) == {k \in DOMAIN n : k \in DOMAIN o => ScalarNe(of, n[k], o[k])}

EntryMade(v, of, o, n, t) ==
  /\ IsMap(v) /\ DOMAIN v = (DOMAIN t \ (DOMAIN o \ DOMAIN n)) \cup Resent(of, o, n)
  /\ \A k \in Resent(of, o, n) : v[k] = n[k]
  /\ \A k \in DOMAIN v \ Resent(of, o, n) : v[k] = t[k]

LEMMA EntryOutcome ==
  ASSUME NEW of, NEW o, NEW n, NEW t
  PROVE  LET d == EntryFieldDiff(of, o, n)
         IN /\ EntryIsEmpty(d) <=> Resent(of, o, n) = {} /\ DOMAIN o \subseteq DOMAIN n
            /\ EntryMade(EntryApply(t, d), of, o, n, t)
<1> DEFINE d == EntryFieldDiff(of, o, n)
           v == EntryApply(t, d)
           resent == Resent(of, o, n)
           kept == Only(t, DOMAIN t \ d.remove)
<1>1. /\ d.remove = DOMAIN o \ DOMAIN n
      /\ DOMAIN d.add = resent /\ \A k \in resent : d.add[k] = n[k]
  <2> DEFINE adds == (DOMAIN n \ DOMAIN o)
                       \cup {k \in DOMAIN o \cap DOMAIN n : ScalarNe(of, n[k], o[k])}
  <2>1. d.remove = DOMAIN o \ DOMAIN n /\ d.add = Only(n, adds)
    BY DEF EntryFieldDiff, EntryDiff
  <2>2. DOMAIN n \cap adds = resent
    BY DEF Resent
  <2> HIDE DEF adds, d, resent
  <2> QED
    BY <2>1, <2>2 DEF Only
<1>2. EntryIsEmpty(d) <=> resent = {} /\ DOMAIN o \subseteq DOMAIN n
  BY <1>1 DEF EntryIsEmpty
<1> HIDE DEF d, resent
<1>3. DOMAIN kept = DOMAIN t \ d.remove /\ \A k \in DOMAIN kept : kept[k] = t[k]
  BY DEF Only
<1>4. v = With(kept, d.add)
  BY DEF EntryApply
<1> HIDE DEF kept, v
<1>5. /\ IsMap(v) /\ DOMAIN v = DOMAIN kept \cup resent
      /\ \A k \in resent : v[k] = n[k]
      /\ \A k \in DOMAIN kept \ resent : v[k] = kept[k]
  <2> DEFINE w == With(kept, d.add)
  <2>1. /\ DOMAIN w = DOMAIN kept \cup DOMAIN d.add
        /\ \A k \in DOMAIN d.add : w[k] = d.add[k]
        /\ \A k \in DOMAIN kept \ DOMAIN d.add : w[k] = kept[k]
        /\ IsMap(w)
    BY WithFacts, Zenon
  <2> HIDE DEF w
  <2>2. v = w
    BY <1>4 DEF w
  <2> QED
    BY <1>1, <2>1, <2>2
<1>6. /\ DOMAIN v = (DOMAIN t \ (DOMAIN o \ DOMAIN n)) \cup resent
      /\ \A k \in DOMAIN v \ resent : v[k] = t[k]
  BY <1>1, <1>3, <1>5
<1> QED
  BY <1>2, <1>5, <1>6 DEF d, resent, v, EntryMade

\* The attempts of MapFieldApply, and what was changed between two maps.
Attempts(of, t, d) ==
  [i \in {j \in DOMAIN d.change : d.change[j].key \in DOMAIN t} |->
     InnerApply(of, t[d.change[i].key], d.change[i].delta)]

Changed(of, o, n) ==
  {k \in DOMAIN o \cap DOMAIN n : InnerDelta(of, o[k], n[k]) # None}

Changes(d, of, o, n) ==
  /\ d.add = Only(n, DOMAIN n \ DOMAIN o) /\ d.remove = DOMAIN o \ DOMAIN n
  /\ DOMAIN d.change \subseteq Nat
  /\ d.change = <<>> <=> Changed(of, o, n) = {}
  /\ \A i \in DOMAIN d.change :
       /\ d.change[i].key \in Changed(of, o, n)
       /\ d.change[i].delta = InnerDelta(of, o[d.change[i].key], n[d.change[i].key])
  /\ \A i, j \in DOMAIN d.change : d.change[i].key = d.change[j].key => i = j
  /\ \A k \in Changed(of, o, n) : \E i \in DOMAIN d.change : d.change[i].key = k

LEMMA MapFieldChanges ==
  ASSUME NEW of, NEW o, NEW n, IsFiniteSet(DOMAIN o)
  PROVE  Changes(MapFieldDiff(of, o, n), of, o, n)
<1> DEFINE both == DOMAIN o \cap DOMAIN n
           inner == [k \in both |-> InnerDelta(of, o[k], n[k])]
           d == MapDiff(o, n, inner)
<1>1. IsFiniteSet(DOMAIN inner)
  BY FS_Subset
<1>2. MadeBy(d, o, n, inner)
  BY <1>1, MapDiffFacts
<1>3. \A k : k \in DOMAIN inner /\ inner[k] # None <=> k \in Changed(of, o, n)
  BY DEF Changed
<1>4. \A k \in Changed(of, o, n) : inner[k] = InnerDelta(of, o[k], n[k])
  BY DEF Changed
<1>5. MapFieldDiff(of, o, n) = d
  BY DEF MapFieldDiff
<1> HIDE DEF d, inner
<1>6. {k \in DOMAIN inner : inner[k] # None} = Changed(of, o, n)
  BY <1>3
<1>7. Changes(d, of, o, n)
  <2>1. /\ d.add = Only(n, DOMAIN n \ DOMAIN o) /\ d.remove = DOMAIN o \ DOMAIN n
        /\ \E m \in Nat : DOMAIN d.change = 1 .. m
        /\ d.change = <<>> <=> Changed(of, o, n) = {}
        /\ \A i \in DOMAIN d.change :
             /\ d.change[i] = [key |-> d.change[i].key, delta |-> inner[d.change[i].key]]
             /\ d.change[i].key \in Changed(of, o, n)
        /\ \A i, j \in DOMAIN d.change : d.change[i].key = d.change[j].key => i = j
        /\ \A k \in Changed(of, o, n) : \E i \in DOMAIN d.change : d.change[i].key = k
    BY <1>2, <1>6 DEF MadeBy
  <2>2. \A i \in DOMAIN d.change : d.change[i].delta = inner[d.change[i].key]
    <3> TAKE i \in DOMAIN d.change
    <3>1. d.change[i] = [key |-> d.change[i].key, delta |-> inner[d.change[i].key]]
      BY <2>1
    <3> QED
      BY <3>1
  <2>3. DOMAIN d.change \subseteq Nat
    BY <2>1
  <2> QED
    BY <1>4, <2>1, <2>2, <2>3 DEF Changes
<1> QED
  BY <1>5, <1>7

LEMMA AttemptsFacts ==
  ASSUME NEW d, NEW of, NEW o, NEW n, NEW t, Changes(d, of, o, n)
  PROVE  /\ Attempted(t, d, Attempts(of, t, d))
         /\ \A i : i \in DOMAIN Attempts(of, t, d) <=>
                     i \in DOMAIN d.change /\ d.change[i].key \in DOMAIN t
         /\ \A i \in DOMAIN Attempts(of, t, d) :
              LET k == d.change[i].key
              IN Attempts(of, t, d)[i] = InnerApply(of, t[k], InnerDelta(of, o[k], n[k]))
BY DEF Changes, Changed, Attempts, Attempted

LEMMA MapFieldApplyIs ==
  ASSUME NEW d, NEW of, NEW t
  PROVE  MapFieldApply(of, t, d) = MapApply(t, d, Attempts(of, t, d))
BY DEF MapFieldApply, Attempts

\* Either every attempt succeeds, or the first that fails is the last one made.
StopsAt(r, t, d, at, first) ==
  /\ first \in DOMAIN at /\ at[first].err # None
  /\ \A i \in DOMAIN at : i < first => at[i].err = None
  /\ r = [err |-> at[first].err,
          value |-> Replaced(t, d, at, {i \in DOMAIN at : i <= first})]

LEMMA MapStages ==
  ASSUME NEW d, NEW of, NEW o, NEW n, NEW t, Changes(d, of, o, n)
  PROVE  LET at == Attempts(of, t, d)
         IN \/ /\ \A i \in DOMAIN at : at[i].err = None
               /\ MapFieldApply(of, t, d) =
                    [err |-> None, value |-> With(Replaced(t, d, at, DOMAIN at), d.add)]
            \/ \E first : StopsAt(MapFieldApply(of, t, d), t, d, at, first)
<1> DEFINE at == Attempts(of, t, d)
           failing == {i \in DOMAIN at : at[i].err # None}
<1>1. Attempted(t, d, at) /\ DOMAIN at \subseteq Nat
  BY AttemptsFacts DEF Attempted
<1>2. MapFieldApply(of, t, d) = MapApply(t, d, at)
  BY MapFieldApplyIs
<1> HIDE DEF at
<1>3. CASE failing = {}
  BY <1>1, <1>2, <1>3, MapApplySucceeds DEF at
<1>4. CASE failing # {}
  <2>1. failing \in SUBSET Nat
    BY <1>1
  <2>2. PICK first \in failing : \A i \in failing : first <= i
    BY <1>4, <2>1, LeastNatural
  <2>3. \A i \in DOMAIN at : i < first => at[i].err = None
    BY <1>1, <2>2
  <2>4. MapApply(t, d, at) =
          [err |-> at[first].err,
           value |-> Replaced(t, d, at, {i \in DOMAIN at : i <= first})]
    BY <1>1, <2>2, <2>3, MapApplyFails
  <2> QED
    BY <1>2, <2>2, <2>3, <2>4 DEF at, StopsAt
<1> QED
  BY <1>3, <1>4

\* Key by key, what applying the changes of o and n to t leaves: K are the keys
\* at which it was attempted.
MapOutcome(r, K, of, o, n, t) ==
  LET v == r.value
      added == IF r.err = None THEN DOMAIN n \ DOMAIN o ELSE {}
      attempt(k) == InnerApply(of, t[k], InnerDelta(of, o[k], n[k]))
  IN /\ K \subseteq Changed(of, o, n) \cap DOMAIN t
     /\ r.err = None => K = Changed(of, o, n) \cap DOMAIN t
     /\ r.err # None => \E k \in K : r.err = attempt(k).err
     /\ IsMap(v) /\ DOMAIN v = (DOMAIN t \ (DOMAIN o \ DOMAIN n)) \cup added
     /\ \A k \in K : v[k] = attempt(k).value
     /\ \A k \in added : v[k] = n[k]
     /\ \A k \in DOMAIN v \ (K \cup added) : v[k] = t[k]
     /\ r.err = None => \A k \in K : attempt(k).err = None

LEMMA MapFieldOutcome ==
  ASSUME NEW of, NEW o, NEW n, NEW t, IsFiniteSet(DOMAIN o)
  PROVE  \E K : MapOutcome(MapFieldApply(of, t, MapFieldDiff(of, o, n)), K, of, o, n, t)
<1> DEFINE d == MapFieldDiff(of, o, n)
           at == Attempts(of, t, d)
           r == MapFieldApply(of, t, d)
           key(i) == d.change[i].key
<1>1. Changes(d, of, o, n)
  BY MapFieldChanges
<1> HIDE DEF d
<1>2. /\ Attempted(t, d, at)
      /\ \A i : i \in DOMAIN at <=> i \in DOMAIN d.change /\ key(i) \in DOMAIN t
      /\ \A i \in DOMAIN at :
           at[i] = InnerApply(of, t[key(i)], InnerDelta(of, o[key(i)], n[key(i)]))
  BY <1>1, AttemptsFacts
<1>3. /\ \A i \in DOMAIN at : key(i) \in Changed(of, o, n) \cap DOMAIN t
      /\ \A k \in Changed(of, o, n) \cap DOMAIN t : \E i \in DOMAIN at : key(i) = k
  BY <1>1, <1>2 DEF Changes
<1>4. /\ d.remove = DOMAIN o \ DOMAIN n
      /\ DOMAIN d.add = DOMAIN n \ DOMAIN o
      /\ \A k \in DOMAIN d.add : d.add[k] = n[k]
  BY <1>1 DEF Changes, Only
<1> HIDE DEF at
<1>5. ASSUME NEW tried, tried \subseteq DOMAIN at
      PROVE  LET v == Replaced(t, d, at, tried)
                 K == {key(i) : i \in tried}
             IN /\ IsMap(v) /\ DOMAIN v = DOMAIN t \ d.remove
                /\ K \subseteq DOMAIN t
                /\ K \subseteq Changed(of, o, n)
                /\ \A k \in K : v[k] = InnerApply(of, t[k], InnerDelta(of, o[k], n[k])).value
                /\ \A k \in DOMAIN v \ K : v[k] = t[k]
  <2> DEFINE v == Replaced(t, d, at, tried)
  <2>1. ReplacedBy(v, t, d, at, tried)
    BY <1>2, <1>5, ReplacedFacts
  <2> HIDE DEF v
  <2>2. /\ IsMap(v) /\ DOMAIN v = DOMAIN t \ d.remove
        /\ \A i \in tried : v[key(i)] = at[i].value
        /\ \A k \in DOMAIN v : (\A i \in tried : key(i) # k) => v[k] = t[k]
    BY <2>1 DEF ReplacedBy
  <2> QED
    BY <1>2, <1>3, <1>5, <2>2 DEF v
<1>6. CASE /\ \A i \in DOMAIN at : at[i].err = None
           /\ r = [err |-> None, value |-> With(Replaced(t, d, at, DOMAIN at), d.add)]
  <2> DEFINE K == {key(i) : i \in DOMAIN at}
             u == Replaced(t, d, at, DOMAIN at)
             w == With(u, d.add)
  <2>1. /\ DOMAIN u = DOMAIN t \ d.remove /\ K = Changed(of, o, n) \cap DOMAIN t
        /\ \A k \in K : u[k] = InnerApply(of, t[k], InnerDelta(of, o[k], n[k])).value
        /\ \A k \in DOMAIN u \ K : u[k] = t[k]
    BY <1>3, <1>5
  <2>2. \A k \in K : InnerApply(of, t[k], InnerDelta(of, o[k], n[k])).err = None
    BY <1>2, <1>6
  <2> HIDE DEF K, u
  <2>3. /\ DOMAIN w = DOMAIN u \cup DOMAIN d.add
        /\ \A k \in DOMAIN d.add : w[k] = d.add[k]
        /\ \A k \in DOMAIN u \ DOMAIN d.add : w[k] = u[k]
        /\ IsMap(w)
    BY WithFacts, Zenon
  <2>4. r.err = None /\ r.value = w
    BY <1>6 DEF u
  <2> HIDE DEF w, r
  <2>5. K \cap DOMAIN d.add = {} /\ K \subseteq DOMAIN u
    BY <1>4, <2>1 DEF Changed
  <2>6. /\ DOMAIN w = (DOMAIN t \ (DOMAIN o \ DOMAIN n)) \cup (DOMAIN n \ DOMAIN o)
        /\ \A k \in K : w[k] = InnerApply(of, t[k], InnerDelta(of, o[k], n[k])).value
        /\ \A k \in DOMAIN n \ DOMAIN o : w[k] = n[k]
        /\ \A k \in DOMAIN w \ (K \cup (DOMAIN n \ DOMAIN o)) : w[k] = t[k]
    BY <1>4, <2>1, <2>3, <2>5
  <2>7. MapOutcome(r, K, of, o, n, t)
    BY <2>1, <2>2, <2>3, <2>4, <2>6 DEF MapOutcome
  <2> QED
    BY <2>7 DEF r, d
<1>7. ASSUME NEW first, StopsAt(r, t, d, at, first)
      PROVE  \E K : MapOutcome(r, K, of, o, n, t)
  <2> DEFINE tried == {i \in DOMAIN at : i <= first}
             K == {key(i) : i \in tried}
             u == Replaced(t, d, at, tried)
  <2>1. first \in tried
    BY <1>2, <1>7 DEF Attempted, StopsAt
  <2>2. /\ IsMap(u) /\ DOMAIN u = DOMAIN t \ d.remove
        /\ K \subseteq Changed(of, o, n) \cap DOMAIN t
        /\ \A k \in K : u[k] = InnerApply(of, t[k], InnerDelta(of, o[k], n[k])).value
        /\ \A k \in DOMAIN u \ K : u[k] = t[k]
    BY <1>5
  <2>3. key(first) \in K
        /\ at[first] = InnerApply(of, t[key(first)], InnerDelta(of, o[key(first)], n[key(first)]))
    BY <1>2, <2>1
  <2>4. r.err = at[first].err /\ r.value = u /\ r.err # None
    BY <1>7 DEF StopsAt
  <2> HIDE DEF K, u, r
  <2>5. MapOutcome(r, K, of, o, n, t)
    BY <1>4, <2>2, <2>3, <2>4 DEF MapOutcome
  <2> QED
    BY <2>5
<1>8. \/ /\ \A i \in DOMAIN at : at[i].err = None
         /\ r = [err |-> None, value |-> With(Replaced(t, d, at, DOMAIN at), d.add)]
      \/ \E first : StopsAt(r, t, d, at, first)
  BY <1>1, MapStages DEF at
<1>9. \E K : MapOutcome(r, K, of, o, n, t)
  <2> HIDE DEF r
  <2> QED
    BY <1>6, <1>7, <1>8 DEF r, d
<1> QED
  BY <1>9 DEF r, d

-----------------------------------------------------------------------------
(* The contract of a field *)

FieldDecides ==
  \A ty, o, n : FieldUse(ty, o, n, o) =>
    (FieldIsSome(ty, FieldDiff(ty, o, n)) <=> ~ SameField(ty, o, n, FALSE))

\* Maps are finite, hold values of a type their field may have, and are read
\* at their keys only.
LEMMA MapUse ==
  ASSUME NEW ty, NEW o, NEW n, NEW t, FieldUse(ty, o, n, t), ty.kind = "map"
  PROVE  /\ IsFiniteSet(DOMAIN o) /\ InnerType(ty.of)
         /\ \A k \in DOMAIN o : InnerValue(ty.of, o[k])
         /\ \A k \in DOMAIN n : InnerValue(ty.of, n[k])
         /\ \A k \in DOMAIN t : InnerValue(ty.of, t[k])
         /\ ty.of.kind # "scalar"
BY DEF FieldUse, IsField, IsFieldValue, IsValueOf

LEMMA MapFieldDecides ==
  ASSUME InnerDecides, NEW ty, NEW o, NEW n, FieldUse(ty, o, n, o), ty.kind = "map"
  PROVE  MapIsEmpty(MapFieldDiff(ty.of, o, n)) <=> SameField(ty, o, n, FALSE)
<1> DEFINE d == MapFieldDiff(ty.of, o, n)
<1>1. /\ IsFiniteSet(DOMAIN o) /\ InnerType(ty.of)
      /\ \A k \in DOMAIN o : InnerValue(ty.of, o[k])
      /\ \A k \in DOMAIN n : InnerValue(ty.of, n[k])
      /\ ty.of.kind # "scalar"
  BY MapUse
<1>2. Changes(d, ty.of, o, n)
  BY <1>1, MapFieldChanges
<1> HIDE DEF d
<1>3. MapIsEmpty(d) <=> DOMAIN o = DOMAIN n /\ Changed(ty.of, o, n) = {}
  BY <1>2 DEF Changes, MapIsEmpty, Only
<1>4. \A k \in DOMAIN o \cap DOMAIN n :
        InnerDelta(ty.of, o[k], n[k]) = None <=> InnerSame(ty.of, o[k], n[k], FALSE)
  BY <1>1 DEF InnerDecides, InnerUse
<1>5. SameField(ty, o, n, FALSE) <=>
        DOMAIN o = DOMAIN n /\ \A k \in DOMAIN o : InnerSame(ty.of, o[k], n[k], FALSE)
  BY <1>1 DEF SameField, SameValue
<1> QED
  BY <1>3, <1>4, <1>5 DEF Changed, d

LEMMA EntryFieldDecides ==
  ASSUME NEW ty, NEW o, NEW n, FieldUse(ty, o, n, o), ty.kind = "entry"
  PROVE  EntryIsEmpty(EntryFieldDiff(ty.of, o, n)) <=> SameField(ty, o, n, FALSE)
<1> DEFINE resent == Resent(ty.of, o, n)
           d == EntryFieldDiff(ty.of, o, n)
<1>1. EntryIsEmpty(d) <=> resent = {} /\ DOMAIN o \subseteq DOMAIN n
  BY EntryOutcome
<1> HIDE DEF d
<1>2. resent = {} <=>
        \A k \in DOMAIN n : k \in DOMAIN o /\ ~ ScalarNe(ty.of, n[k], o[k])
  BY DEF Resent
<1>3. SameField(ty, o, n, FALSE) <=>
        DOMAIN o = DOMAIN n /\ \A k \in DOMAIN o : ~ ScalarNe(ty.of, o[k], n[k])
  BY DEF FieldUse, IsField, SameField, SameValue, SameScalar
<1>4. \A v, w : ScalarNe(ty.of, v, w) <=> ScalarNe(ty.of, w, v)
  BY DEF ScalarNe
<1> QED
  BY <1>1, <1>2, <1>3, <1>4 DEF d

LEMMA EveryFieldDecides ==
  ASSUME NoneIsNoFunction, InnerDecides
  PROVE  FieldDecides
<1> SUFFICES ASSUME NEW ty, NEW o, NEW n, FieldUse(ty, o, n, o)
             PROVE  FieldIsSome(ty, FieldDiff(ty, o, n)) <=> ~ SameField(ty, o, n, FALSE)
  BY DEF FieldDecides
<1>1. CASE ty.kind = "scalar"
  <2>1. [to |-> n] # None
    BY DEF NoneIsNoFunction, IsMap
  <2> QED
    BY <1>1, <2>1 DEF FieldIsSome, FieldDiff, ScalarDiff, SameField, SameScalar
<1>2. CASE ty.kind = "bag"
  <2>1. BagIsEmpty(BagDiff(o, n)) <=> o = n
    BY DEF BagIsEmpty, BagDiff
  <2> QED
    BY <1>2, <2>1 DEF FieldIsSome, FieldDiff, SameField
<1>3. CASE ty.kind = "entry"
  BY <1>3, EntryFieldDecides DEF FieldIsSome, FieldDiff
<1>4. CASE ty.kind = "map"
  BY <1>4, MapFieldDecides DEF FieldIsSome, FieldDiff
<1>5. CASE ty.kind = "ordered"
  BY <1>5, ScriptsRoundTrip
     DEF FieldUse, IsFieldValue, FieldIsSome, FieldDiff, SameField, SeqLaws, SeqIsEmpty
<1>6. CASE ty.kind = "delta"
  BY <1>6 DEF FieldUse, IsField, IsFieldValue, FieldIsSome, FieldDiff, SameField,
              InnerDecides, InnerUse
<1> QED
  BY <1>1, <1>2, <1>3, <1>4, <1>5, <1>6 DEF FieldUse, IsField

\* A field of a value as good as old is made as good as that of new, whether
\* or not it differs.
FieldMakesNew ==
  \A ty, o, n, t : FieldUse(ty, o, n, t) /\ SameField(ty, t, o, TRUE) =>
    LET r == FieldApply(ty, t, FieldDiff(ty, o, n))
    IN r.err = None /\ SameField(ty, r.value, n, TRUE)

LEMMA MapFieldMakesNew ==
  ASSUME InnerDecides, InnerOrder, InnerMakesNew,
         NEW ty, NEW o, NEW n, NEW t, FieldUse(ty, o, n, t), ty.kind = "map",
         SameField(ty, t, o, TRUE)
  PROVE  LET r == MapFieldApply(ty.of, t, MapFieldDiff(ty.of, o, n))
         IN r.err = None /\ SameField(ty, r.value, n, TRUE)
<1> DEFINE of == ty.of
           r == MapFieldApply(of, t, MapFieldDiff(of, o, n))
           v == r.value
           attempt(k) == InnerApply(of, t[k], InnerDelta(of, o[k], n[k]))
<1>1. /\ IsFiniteSet(DOMAIN o) /\ InnerType(of) /\ of.kind # "scalar"
      /\ \A k \in DOMAIN o : InnerValue(of, o[k])
      /\ \A k \in DOMAIN n : InnerValue(of, n[k])
      /\ \A k \in DOMAIN t : InnerValue(of, t[k])
  BY MapUse
<1>2. PICK K : MapOutcome(r, K, of, o, n, t)
  BY <1>1, MapFieldOutcome
<1> HIDE DEF r
<1>3. DOMAIN t = DOMAIN o /\ \A k \in DOMAIN o : InnerSame(of, t[k], o[k], TRUE)
  BY <1>1 DEF SameField, SameValue
<1>4. \A k \in Changed(of, o, n) :
        attempt(k).err = None /\ InnerSame(of, attempt(k).value, n[k], TRUE)
  BY <1>1, <1>3 DEF Changed, InnerMakesNew, InnerUse
<1>5. r.err = None
  BY <1>2, <1>4 DEF MapOutcome
<1>6. /\ K = Changed(of, o, n) \cap DOMAIN t
      /\ DOMAIN v = (DOMAIN t \ (DOMAIN o \ DOMAIN n)) \cup (DOMAIN n \ DOMAIN o)
      /\ \A k \in K : v[k] = attempt(k).value
      /\ \A k \in DOMAIN n \ DOMAIN o : v[k] = n[k]
      /\ \A k \in DOMAIN v \ (K \cup (DOMAIN n \ DOMAIN o)) : v[k] = t[k]
  BY <1>2, <1>5 DEF MapOutcome
<1>7. DOMAIN v = DOMAIN n
  BY <1>3, <1>6
<1>8. ASSUME NEW k \in DOMAIN n PROVE InnerSame(of, v[k], n[k], TRUE)
  <2>1. CASE k \in K
    BY <1>4, <1>6, <2>1
  <2>2. CASE k \notin DOMAIN o
    BY <1>1, <1>6, <2>2 DEF InnerOrder, InnerUse
  <2>3. CASE k \in DOMAIN o /\ k \notin K
    <3>1. InnerDelta(of, o[k], n[k]) = None /\ v[k] = t[k]
      BY <1>3, <1>6, <1>7, <2>3 DEF Changed
    <3>2. InnerSame(of, o[k], n[k], FALSE)
      BY <1>1, <2>3, <3>1 DEF InnerDecides, InnerUse
    <3>3. InnerSame(of, o[k], n[k], TRUE)
      BY <1>1, <2>3, <3>2 DEF InnerOrder, InnerUse
    <3> QED
      BY <1>1, <1>3, <2>3, <3>1, <3>3 DEF InnerOrder, InnerUse
  <2> QED
    BY <2>1, <2>2, <2>3
<1> QED
  BY <1>1, <1>5, <1>7, <1>8 DEF SameField, SameValue, r

LEMMA EntryFieldMakesNew ==
  ASSUME NEW ty, NEW o, NEW n, NEW t, FieldUse(ty, o, n, t), ty.kind = "entry",
         SameField(ty, t, o, TRUE)
  PROVE  SameField(ty, EntryApply(t, EntryFieldDiff(ty.of, o, n)), n, TRUE)
<1> DEFINE resent == Resent(ty.of, o, n)
           v == EntryApply(t, EntryFieldDiff(ty.of, o, n))
<1>1. /\ DOMAIN v = (DOMAIN t \ (DOMAIN o \ DOMAIN n)) \cup resent
      /\ \A k \in resent : v[k] = n[k]
      /\ \A k \in DOMAIN v \ resent : v[k] = t[k]
  <2>1. EntryMade(v, ty.of, o, n, t)
    BY EntryOutcome
  <2> HIDE DEF v
  <2> QED
    BY <2>1 DEF EntryMade
<1> HIDE DEF v
<1>2. DOMAIN t = DOMAIN o /\ \A k \in DOMAIN o : SameScalar(ty.of, t[k], o[k], TRUE)
  BY DEF FieldUse, IsField, SameField, SameValue
<1>3. DOMAIN v = DOMAIN n
  BY <1>1, <1>2 DEF Resent
<1>4. ASSUME NEW k \in DOMAIN n PROVE SameScalar(ty.of, v[k], n[k], TRUE)
  <2>1. CASE k \in resent
    BY <1>1, <2>1 DEF SameScalar
  <2>2. CASE k \notin resent
    <3>1. v[k] = t[k] /\ SameScalar(ty.of, t[k], o[k], TRUE)
          /\ ~ ScalarNe(ty.of, n[k], o[k])
      BY <1>1, <1>2, <1>3, <2>2 DEF Resent
    <3> QED
      BY <3>1 DEF SameScalar, ScalarNe
  <2> QED
    BY <2>1, <2>2
<1> QED
  BY <1>3, <1>4 DEF FieldUse, IsField, SameField, SameValue, v

LEMMA EveryFieldMakesNew ==
  ASSUME NoneIsNoFunction, InnerDecides, InnerOrder, InnerMakesNew
  PROVE  FieldMakesNew
<1> SUFFICES ASSUME NEW ty, NEW o, NEW n, NEW t, FieldUse(ty, o, n, t),
                    SameField(ty, t, o, TRUE)
             PROVE  LET r == FieldApply(ty, t, FieldDiff(ty, o, n))
                    IN r.err = None /\ SameField(ty, r.value, n, TRUE)
  BY DEF FieldMakesNew
<1>1. CASE ty.kind = "scalar"
  <2>1. [to |-> n] # None
    BY DEF NoneIsNoFunction, IsMap
  <2>2. CASE ScalarNe(ty, o, n)
    BY <1>1, <2>1, <2>2 DEF FieldApply, FieldDiff, ScalarDiff, Done, SameField, SameScalar
  <2>3. CASE ~ ScalarNe(ty, o, n)
    <3>1. SameScalar(ty, t, n, TRUE)
      BY <1>1, <2>3 DEF SameField, SameScalar, ScalarNe
    <3> QED
      BY <1>1, <2>3, <3>1 DEF FieldApply, FieldDiff, ScalarDiff, Done, SameField
  <2> QED
    BY <2>2, <2>3
<1>2. CASE ty.kind = "bag"
  <2>1. BagApply(o, BagDiff(o, n)) = n
    BY DEF BagApply, BagDiff
  <2> QED
    BY <1>2, <2>1 DEF FieldApply, FieldDiff, Done, SameField
<1>3. CASE ty.kind = "entry"
  BY <1>3, EntryFieldMakesNew DEF FieldApply, FieldDiff, Done
<1>4. CASE ty.kind = "map"
  BY <1>4, MapFieldMakesNew DEF FieldApply, FieldDiff
<1>5. CASE ty.kind = "ordered"
  BY <1>5, ScriptsRoundTrip
     DEF FieldUse, IsFieldValue, FieldApply, FieldDiff, Done, SameField, SeqLaws
<1>6. CASE ty.kind = "delta"
  <2>1. InnerUse(ty.of, o, n, t) /\ InnerSame(ty.of, t, o, TRUE)
    BY <1>6 DEF FieldUse, IsField, IsFieldValue, InnerUse, SameField
  <2>2. CASE InnerDelta(ty.of, o, n) = None
    <3>1. InnerSame(ty.of, o, n, FALSE)
      BY <2>1, <2>2 DEF InnerDecides, InnerUse
    <3>2. InnerSame(ty.of, o, n, TRUE)
      BY <2>1, <3>1 DEF InnerOrder, InnerUse
    <3>3. InnerSame(ty.of, t, n, TRUE)
      BY <2>1, <3>2 DEF InnerOrder, InnerUse
    <3> QED
      BY <1>6, <2>2, <3>3 DEF FieldApply, FieldDiff, Done, SameField
  <2>3. CASE InnerDelta(ty.of, o, n) # None
    BY <1>6, <2>1, <2>3 DEF FieldApply, FieldDiff, SameField, InnerMakesNew
  <2> QED
    BY <2>2, <2>3
<1> QED
  BY <1>1, <1>2, <1>3, <1>4, <1>5, <1>6 DEF FieldUse, IsField

\* A field stays a value of its type, whatever the delta meets there.
FieldStaysValue ==
  \A ty, o, n, t : FieldUse(ty, o, n, t) =>
    IsFieldValue(ty, FieldApply(ty, t, FieldDiff(ty, o, n)).value)

LEMMA MapFieldStaysValue ==
  ASSUME InnerStaysValue,
         NEW ty, NEW o, NEW n, NEW t, FieldUse(ty, o, n, t), ty.kind = "map"
  PROVE  IsFieldValue(ty, MapFieldApply(ty.of, t, MapFieldDiff(ty.of, o, n)).value)
<1> DEFINE of == ty.of
           r == MapFieldApply(of, t, MapFieldDiff(of, o, n))
           v == r.value
           attempt(k) == InnerApply(of, t[k], InnerDelta(of, o[k], n[k]))
           added == IF r.err = None THEN DOMAIN n \ DOMAIN o ELSE {}
<1>1. /\ IsFiniteSet(DOMAIN o) /\ InnerType(of) /\ of.kind # "scalar"
      /\ \A k \in DOMAIN o : InnerValue(of, o[k])
      /\ \A k \in DOMAIN n : InnerValue(of, n[k])
      /\ \A k \in DOMAIN t : InnerValue(of, t[k])
  BY MapUse
<1>2. PICK K : MapOutcome(r, K, of, o, n, t)
  BY <1>1, MapFieldOutcome
<1> HIDE DEF r
<1>3. /\ K \subseteq Changed(of, o, n) \cap DOMAIN t
      /\ IsMap(v) /\ DOMAIN v = (DOMAIN t \ (DOMAIN o \ DOMAIN n)) \cup added
      /\ \A k \in K : v[k] = attempt(k).value
      /\ \A k \in added : v[k] = n[k]
      /\ \A k \in DOMAIN v \ (K \cup added) : v[k] = t[k]
  BY <1>2 DEF MapOutcome
<1>4. IsFiniteSet(DOMAIN v)
  <2>1. IsFiniteSet(DOMAIN t) /\ IsFiniteSet(DOMAIN n)
    BY DEF FieldUse, IsFieldValue
  <2>2. IsFiniteSet(DOMAIN t \cup DOMAIN n) /\ DOMAIN v \subseteq DOMAIN t \cup DOMAIN n
    BY <1>3, <2>1, FS_Union
  <2> QED
    BY <2>2, FS_Subset
<1>5. \A k \in K : InnerValue(of, v[k])
  BY <1>1, <1>3 DEF Changed, InnerStaysValue, InnerUse
<1>6. \A k \in DOMAIN v : InnerValue(of, v[k])
  BY <1>1, <1>3, <1>5
<1> QED
  BY <1>1, <1>3, <1>4, <1>6 DEF IsFieldValue, IsValueOf, r

LEMMA EntryFieldStaysValue ==
  ASSUME NEW ty, NEW o, NEW n, NEW t, FieldUse(ty, o, n, t), ty.kind = "entry"
  PROVE  IsFieldValue(ty, EntryApply(t, EntryFieldDiff(ty.of, o, n)))
<1> DEFINE v == EntryApply(t, EntryFieldDiff(ty.of, o, n))
<1>1. EntryMade(v, ty.of, o, n, t)
  BY EntryOutcome
<1> HIDE DEF v
<1>2. /\ IsFiniteSet(DOMAIN t) /\ IsFiniteSet(DOMAIN n)
      /\ \A k \in DOMAIN t : IsValueOf(ty.of, t[k])
      /\ \A k \in DOMAIN n : IsValueOf(ty.of, n[k])
  BY DEF FieldUse, IsFieldValue
<1>3. Resent(ty.of, o, n) \subseteq DOMAIN n
  BY DEF Resent
<1>4. IsFiniteSet(DOMAIN v)
  <2>1. IsFiniteSet(DOMAIN t \cup DOMAIN n) /\ DOMAIN v \subseteq DOMAIN t \cup DOMAIN n
    BY <1>1, <1>2, <1>3, FS_Union DEF EntryMade
  <2> QED
    BY <2>1, FS_Subset
<1>5. \A k \in DOMAIN v : IsValueOf(ty.of, v[k])
  BY <1>1, <1>2, <1>3 DEF EntryMade
<1> QED
  BY <1>1, <1>4, <1>5 DEF EntryMade, IsFieldValue, v

LEMMA EveryFieldStaysValue ==
  ASSUME NoneIsNoFunction, InnerStaysValue
  PROVE  FieldStaysValue
<1> SUFFICES ASSUME NEW ty, NEW o, NEW n, NEW t, FieldUse(ty, o, n, t)
             PROVE  IsFieldValue(ty, FieldApply(ty, t, FieldDiff(ty, o, n)).value)
  BY DEF FieldStaysValue
<1>1. CASE ty.kind = "scalar"
  BY <1>1 DEF FieldUse, IsFieldValue, FieldApply, FieldDiff, ScalarDiff, Done
<1>2. CASE ty.kind = "bag"
  BY <1>2 DEF FieldUse, IsFieldValue, FieldApply, FieldDiff, BagApply, BagDiff, Done
<1>3. CASE ty.kind = "entry"
  BY <1>3, EntryFieldStaysValue DEF FieldApply, FieldDiff, Done
<1>4. CASE ty.kind = "map"
  BY <1>4, MapFieldStaysValue DEF FieldApply, FieldDiff
<1>5. CASE ty.kind = "ordered"
  BY <1>5, ScriptsRoundTrip DEF FieldUse, IsFieldValue, FieldApply, FieldDiff, Done, SeqLaws
<1>6. CASE ty.kind = "delta"
  BY <1>6 DEF FieldUse, IsField, IsFieldValue, FieldApply, FieldDiff, Done,
              InnerStaysValue, InnerUse
<1> QED
  BY <1>1, <1>2, <1>3, <1>4, <1>5, <1>6 DEF FieldUse, IsField

\* What makes a field fail is inside it.
FieldHonest ==
  \A ty, o, n, t : FieldUse(ty, o, n, t) =>
    LET r == FieldApply(ty, t, FieldDiff(ty, o, n))
    IN r.err = None \/ r.err \in FieldDisagreements(ty, o, t)

LEMMA MapFieldHonest ==
  ASSUME InnerHonest,
         NEW ty, NEW o, NEW n, NEW t, FieldUse(ty, o, n, t), ty.kind = "map"
  PROVE  LET r == MapFieldApply(ty.of, t, MapFieldDiff(ty.of, o, n))
         IN r.err = None \/ r.err \in FieldDisagreements(ty, o, t)
<1> DEFINE of == ty.of
           r == MapFieldApply(of, t, MapFieldDiff(of, o, n))
<1>1. /\ IsFiniteSet(DOMAIN o) /\ InnerType(of)
      /\ \A k \in DOMAIN o : InnerValue(of, o[k])
      /\ \A k \in DOMAIN n : InnerValue(of, n[k])
      /\ \A k \in DOMAIN t : InnerValue(of, t[k])
  BY MapUse
<1>2. PICK K : MapOutcome(r, K, of, o, n, t)
  BY <1>1, MapFieldOutcome
<1> HIDE DEF r
<1>3. SUFFICES ASSUME r.err # None PROVE r.err \in FieldDisagreements(ty, o, t)
  BY DEF r
<1>4. PICK k \in Changed(of, o, n) \cap DOMAIN t :
        r.err = InnerApply(of, t[k], InnerDelta(of, o[k], n[k])).err
  BY <1>2, <1>3 DEF MapOutcome
<1>5. r.err \in InnerDisagreements(of, o[k], t[k])
  BY <1>1, <1>3, <1>4 DEF Changed, InnerHonest, InnerUse
<1>6. k \in DOMAIN o \cap DOMAIN t
  BY <1>4 DEF Changed
<1> QED
  BY <1>5, <1>6 DEF FieldDisagreements

LEMMA EveryFieldHonest ==
  ASSUME NoneIsNoFunction, InnerHonest
  PROVE  FieldHonest
<1> SUFFICES ASSUME NEW ty, NEW o, NEW n, NEW t, FieldUse(ty, o, n, t)
             PROVE  LET r == FieldApply(ty, t, FieldDiff(ty, o, n))
                    IN r.err = None \/ r.err \in FieldDisagreements(ty, o, t)
  BY DEF FieldHonest
<1>1. CASE ty.kind \in {"scalar", "bag", "entry", "ordered"}
  BY <1>1 DEF FieldApply, Done
<1>2. CASE ty.kind = "map"
  BY <1>2, MapFieldHonest DEF FieldApply, FieldDiff
<1>3. CASE ty.kind = "delta"
  BY <1>3 DEF FieldUse, IsField, IsFieldValue, FieldApply, FieldDiff, Done,
              FieldDisagreements, InnerHonest, InnerUse
<1> QED
  BY <1>1, <1>2, <1>3 DEF FieldUse, IsField

\* What old and new agree on is kept: by doing nothing, by applying their
\* delta, and by two steps that each keep it.
FieldKeeps ==
  /\ \A ty, o, n, t : FieldUse(ty, o, n, t) => KeptField(ty, o, n, t, t)
  /\ \A ty, o, n, t : FieldUse(ty, o, n, t) =>
       KeptField(ty, o, n, t, FieldApply(ty, t, FieldDiff(ty, o, n)).value)
  /\ \A ty, o, n, v, w, x :
       FieldUse(ty, o, n, v) /\ FieldUse(ty, o, w, x) /\ KeptField(ty, o, n, v, w)
         /\ KeptField(ty, o, n, w, x) => KeptField(ty, o, n, v, x)

LEMMA EveryFieldKeptByNothing ==
  ASSUME InnerKeeps, NEW ty, NEW o, NEW n, NEW t, FieldUse(ty, o, n, t)
  PROVE  KeptField(ty, o, n, t, t)
BY DEF FieldUse, IsField, IsFieldValue, IsValueOf, KeptField, KeptScalar, KeptKeys, KeptEntries,
       KeptValue, InnerKeeps, InnerUse

LEMMA MapFieldKeeps ==
  ASSUME InnerKeeps,
         NEW ty, NEW o, NEW n, NEW t, FieldUse(ty, o, n, t), ty.kind = "map"
  PROVE  KeptField(ty, o, n, t, MapFieldApply(ty.of, t, MapFieldDiff(ty.of, o, n)).value)
<1> DEFINE of == ty.of
           r == MapFieldApply(of, t, MapFieldDiff(of, o, n))
           v == r.value
           attempt(k) == InnerApply(of, t[k], InnerDelta(of, o[k], n[k]))
           added == IF r.err = None THEN DOMAIN n \ DOMAIN o ELSE {}
<1>1. /\ IsFiniteSet(DOMAIN o) /\ InnerType(of) /\ of.kind # "scalar"
      /\ \A k \in DOMAIN o : InnerValue(of, o[k])
      /\ \A k \in DOMAIN n : InnerValue(of, n[k])
      /\ \A k \in DOMAIN t : InnerValue(of, t[k])
  BY MapUse
<1>2. PICK K : MapOutcome(r, K, of, o, n, t)
  BY <1>1, MapFieldOutcome
<1> HIDE DEF r
<1>3. /\ K \subseteq Changed(of, o, n) \cap DOMAIN t
      /\ DOMAIN v = (DOMAIN t \ (DOMAIN o \ DOMAIN n)) \cup added
      /\ added \subseteq DOMAIN n \ DOMAIN o
      /\ \A k \in K : v[k] = attempt(k).value
      /\ \A k \in DOMAIN v \ (K \cup added) : v[k] = t[k]
  BY <1>2 DEF MapOutcome
<1>4. KeptKeys(ty, o, n, t, v)
  BY <1>3 DEF KeptKeys
<1>5. ASSUME NEW k \in DOMAIN t \cap DOMAIN v, k \in DOMAIN o \cap DOMAIN n
      PROVE  InnerKept(of, o[k], n[k], t[k], v[k])
  <2>1. InnerUse(of, o[k], n[k], t[k])
    BY <1>1, <1>5 DEF InnerUse
  <2>2. CASE k \in K
    BY <1>3, <2>1, <2>2 DEF Changed, InnerKeeps
  <2>3. CASE k \notin K
    <3>1. v[k] = t[k]
      BY <1>3, <1>5, <2>3
    <3> QED
      BY <2>1, <3>1 DEF InnerKeeps
  <2> QED
    BY <2>2, <2>3
<1>6. \A k \in DOMAIN t \cap DOMAIN v : k \notin DOMAIN o \cup DOMAIN n => v[k] = t[k]
  BY <1>3 DEF Changed
<1> QED
  BY <1>1, <1>4, <1>5, <1>6 DEF KeptField, KeptEntries, KeptValue, r

LEMMA EntryFieldKeeps ==
  ASSUME NEW ty, NEW o, NEW n, NEW t, FieldUse(ty, o, n, t), ty.kind = "entry"
  PROVE  KeptField(ty, o, n, t, EntryApply(t, EntryFieldDiff(ty.of, o, n)))
<1> DEFINE v == EntryApply(t, EntryFieldDiff(ty.of, o, n))
<1>1. EntryMade(v, ty.of, o, n, t)
  BY EntryOutcome
<1> HIDE DEF v
<1>2. /\ DOMAIN v = (DOMAIN t \ (DOMAIN o \ DOMAIN n)) \cup Resent(ty.of, o, n)
      /\ \A k \in DOMAIN v \ Resent(ty.of, o, n) : v[k] = t[k]
  BY <1>1 DEF EntryMade
<1>3. \A k \in DOMAIN o : k \in Resent(ty.of, o, n) =>
        k \in DOMAIN n /\ ScalarNe(ty.of, o[k], n[k])
  BY DEF Resent, ScalarNe
<1>4. KeptKeys(ty, o, n, t, v)
  BY <1>2, <1>3 DEF KeptKeys, Resent
<1>5. KeptEntries(ty.of, o, n, t, v)
  BY <1>2, <1>3 DEF KeptEntries, KeptValue, KeptScalar, FieldUse, IsField, Resent
<1> QED
  BY <1>4, <1>5 DEF KeptField, v

LEMMA EveryFieldKeeps ==
  ASSUME NoneIsNoFunction, InnerKeeps,
         NEW ty, NEW o, NEW n, NEW t, FieldUse(ty, o, n, t)
  PROVE  KeptField(ty, o, n, t, FieldApply(ty, t, FieldDiff(ty, o, n)).value)
<1>1. CASE ty.kind = "scalar"
  BY <1>1 DEF FieldApply, FieldDiff, ScalarDiff, Done, KeptField, KeptScalar
<1>2. CASE ty.kind = "bag"
  BY <1>2 DEF FieldApply, FieldDiff, BagApply, BagDiff, Done, KeptField
<1>3. CASE ty.kind = "entry"
  BY <1>3, EntryFieldKeeps DEF FieldApply, FieldDiff, Done
<1>4. CASE ty.kind = "map"
  BY <1>4, MapFieldKeeps DEF FieldApply, FieldDiff
<1>5. CASE ty.kind = "ordered"
  <2>1. o \in Seq(ty.items) /\ n \in Seq(ty.items) /\ t \in Seq(ty.items)
    BY <1>5 DEF FieldUse, IsFieldValue
  <2>2. (SeqDiff(o, n) = <<>> <=> o = n) /\ SeqApply(t, <<>>) = t
    BY <2>1, ScriptsRoundTrip DEF SeqLaws
  <2> QED
    BY <1>5, <2>2 DEF FieldApply, FieldDiff, Done, KeptField
<1>6. CASE ty.kind = "delta"
  BY <1>6 DEF FieldUse, IsField, IsFieldValue, FieldApply, FieldDiff, Done,
              KeptField, InnerKeeps, InnerUse
<1> QED
  BY <1>1, <1>2, <1>3, <1>4, <1>5, <1>6 DEF FieldUse, IsField

LEMMA KeysKeptTwice ==
  ASSUME NEW ty, NEW o, NEW n, NEW v, NEW w, NEW x,
         KeptKeys(ty, o, n, v, w), KeptKeys(ty, o, n, w, x)
  PROVE  KeptKeys(ty, o, n, v, x)
BY DEF KeptKeys

LEMMA EntriesKeptTwice ==
  ASSUME InnerKeeps, NEW ty, NEW o, NEW n, NEW v, NEW w, NEW x,
         ty.kind \in {"entry", "map"}, FieldUse(ty, o, n, v), FieldUse(ty, o, w, x),
         KeptKeys(ty, o, n, v, w), KeptEntries(ty.of, o, n, v, w),
         KeptKeys(ty, o, n, w, x), KeptEntries(ty.of, o, n, w, x)
  PROVE  KeptEntries(ty.of, o, n, v, x)
<1> SUFFICES ASSUME NEW k \in DOMAIN v \cap DOMAIN x
             PROVE  /\ (k \notin DOMAIN o \cup DOMAIN n) => x[k] = v[k]
                    /\ (k \in DOMAIN o \cap DOMAIN n) =>
                         KeptValue(ty.of, o[k], n[k], v[k], x[k])
  BY DEF KeptEntries
<1>1. CASE k \in DOMAIN w
  <2>1. (k \notin DOMAIN o \cup DOMAIN n) => x[k] = v[k]
    BY <1>1 DEF KeptEntries
  <2>2. ASSUME k \in DOMAIN o \cap DOMAIN n
        PROVE  KeptValue(ty.of, o[k], n[k], v[k], x[k])
    <3>1. KeptValue(ty.of, o[k], n[k], v[k], w[k]) /\ KeptValue(ty.of, o[k], n[k], w[k], x[k])
      BY <1>1, <2>2 DEF KeptEntries
    <3>2. CASE ty.of.kind = "scalar"
      BY <3>1, <3>2 DEF KeptValue, KeptScalar
    <3>3. CASE ty.of.kind # "scalar"
      <4>1. InnerUse(ty.of, o[k], n[k], v[k]) /\ InnerUse(ty.of, o[k], w[k], x[k])
        BY <1>1, <2>2, <3>3 DEF FieldUse, IsField, IsFieldValue, IsValueOf, InnerUse
      <4> QED
        BY <3>1, <3>3, <4>1 DEF KeptValue, InnerKeeps
    <3> QED
      BY <3>2, <3>3
  <2> QED
    BY <2>1, <2>2
<1>2. CASE k \notin DOMAIN w
  <2>1. \/ ~ (k \in DOMAIN o <=> k \in DOMAIN n)
        \/ ty.kind = "entry" /\ k \in DOMAIN o /\ ScalarNe(ty.of, o[k], n[k])
    BY <1>2 DEF KeptKeys
  <2> QED
    BY <2>1 DEF FieldUse, IsField, KeptValue, KeptScalar
<1> QED
  BY <1>1, <1>2

LEMMA EveryFieldKeptTwice ==
  ASSUME InnerKeeps, NEW ty, NEW o, NEW n, NEW v, NEW w, NEW x,
         FieldUse(ty, o, n, v), FieldUse(ty, o, w, x),
         KeptField(ty, o, n, v, w), KeptField(ty, o, n, w, x)
  PROVE  KeptField(ty, o, n, v, x)
<1>1. CASE ty.kind \in {"scalar", "bag", "ordered"}
  BY <1>1 DEF KeptField, KeptScalar
<1>2. CASE ty.kind \in {"entry", "map"}
  <2>1. /\ KeptKeys(ty, o, n, v, w) /\ KeptEntries(ty.of, o, n, v, w)
        /\ KeptKeys(ty, o, n, w, x) /\ KeptEntries(ty.of, o, n, w, x)
    BY <1>2 DEF KeptField
  <2>2. KeptKeys(ty, o, n, v, x)
    BY <2>1, KeysKeptTwice
  <2>3. KeptEntries(ty.of, o, n, v, x)
    BY <1>2, <2>1, EntriesKeptTwice
  <2> QED
    BY <1>2, <2>2, <2>3 DEF KeptField
<1>3. CASE ty.kind = "delta"
  <2>1. InnerUse(ty.of, o, n, v) /\ InnerUse(ty.of, o, w, x)
    BY <1>3 DEF FieldUse, IsField, IsFieldValue, InnerUse
  <2> QED
    BY <1>3, <2>1 DEF KeptField, InnerKeeps
<1> QED
  BY <1>1, <1>2, <1>3 DEF FieldUse, IsField

LEMMA FieldsAreKept ==
  ASSUME NoneIsNoFunction, InnerKeeps
  PROVE  FieldKeeps
BY EveryFieldKeptByNothing, EveryFieldKeeps, EveryFieldKeptTwice, Zenon DEF FieldKeeps

\* A second application repeats what the first one said, and what it did.
FieldSettles ==
  \A ty, o, n, t : FieldUse(ty, o, n, t) =>
    LET d == FieldDiff(ty, o, n)
        once == FieldApply(ty, t, d)
        twice == FieldApply(ty, once.value, d)
    IN twice.err = once.err /\ (FieldOrdered(ty) \/ twice.value = once.value)

LEMMA MapFieldSettlesDone ==
  ASSUME InnerStaysValue, InnerSettles,
         NEW ty, NEW o, NEW n, NEW t, FieldUse(ty, o, n, t), ty.kind = "map",
         MapFieldApply(ty.of, t, MapFieldDiff(ty.of, o, n)).err = None
  PROVE  LET d == MapFieldDiff(ty.of, o, n)
             once == MapFieldApply(ty.of, t, d)
             twice == MapFieldApply(ty.of, once.value, d)
         IN twice.err = None /\ (InnerOrdered(ty.of) \/ twice.value = once.value)
<1> DEFINE of == ty.of
           d == MapFieldDiff(of, o, n)
           once == MapFieldApply(of, t, d)
           v == once.value
           twice == MapFieldApply(of, v, d)
           w == twice.value
           delta(k) == InnerDelta(of, o[k], n[k])
           added == DOMAIN n \ DOMAIN o
<1>1. /\ IsFiniteSet(DOMAIN o) /\ InnerType(of)
      /\ \A k \in DOMAIN o : InnerValue(of, o[k])
      /\ \A k \in DOMAIN n : InnerValue(of, n[k])
      /\ \A k \in DOMAIN t : InnerValue(of, t[k])
  BY MapUse
<1>2. PICK K : MapOutcome(once, K, of, o, n, t)
  BY <1>1, MapFieldOutcome
<1>3. PICK L : MapOutcome(twice, L, of, o, n, v)
  BY <1>1, MapFieldOutcome
<1>4. once.err = None
  OBVIOUS
<1> HIDE DEF once, twice, d
<1>5. /\ K = Changed(of, o, n) \cap DOMAIN t
      /\ DOMAIN v = (DOMAIN t \ (DOMAIN o \ DOMAIN n)) \cup added
      /\ \A k \in K : v[k] = InnerApply(of, t[k], delta(k)).value
      /\ \A k \in K : InnerApply(of, t[k], delta(k)).err = None
      /\ \A k \in added : v[k] = n[k]
      /\ IsMap(v)
  BY <1>2, <1>4 DEF MapOutcome
<1>6. Changed(of, o, n) \cap DOMAIN v = K
  BY <1>5 DEF Changed
<1>7. ASSUME NEW k \in K
      PROVE  LET r == InnerApply(of, v[k], delta(k))
             IN r.err = None /\ (InnerOrdered(of) \/ r.value = v[k])
  <2>1. InnerUse(of, o[k], n[k], t[k]) /\ delta(k) # None
    BY <1>1, <1>5 DEF Changed, InnerUse
  <2> QED
    BY <1>5, <2>1 DEF InnerSettles
<1>8. twice.err = None
  <2> SUFFICES ASSUME twice.err # None PROVE FALSE
    OBVIOUS
  <2>1. PICK k \in L : twice.err = InnerApply(of, v[k], delta(k)).err
    BY <1>3 DEF MapOutcome
  <2>2. k \in K
    BY <1>3, <1>6, <2>1 DEF MapOutcome
  <2> QED
    BY <1>7, <2>1, <2>2
<1>9. /\ L = K /\ IsMap(w) /\ DOMAIN w = (DOMAIN v \ (DOMAIN o \ DOMAIN n)) \cup added
      /\ \A k \in K : w[k] = InnerApply(of, v[k], delta(k)).value
      /\ \A k \in added : w[k] = n[k]
      /\ \A k \in DOMAIN w \ (K \cup added) : w[k] = v[k]
  BY <1>3, <1>6, <1>8 DEF MapOutcome
<1>10. DOMAIN w = DOMAIN v
  BY <1>5, <1>9
<1>11. InnerOrdered(of) \/ w = v
  <2> SUFFICES ASSUME ~ InnerOrdered(of) PROVE w = v
    OBVIOUS
  <2>1. \A k \in DOMAIN w : w[k] = v[k]
    BY <1>5, <1>7, <1>9
  <2> QED
    BY <1>5, <1>9, <1>10, <2>1, SameMap
<1> QED
  BY <1>8, <1>11 DEF once, twice, d

LEMMA MapFieldSettlesFailed ==
  ASSUME InnerStaysValue, InnerSettles,
         NEW ty, NEW o, NEW n, NEW t, FieldUse(ty, o, n, t), ty.kind = "map",
         MapFieldApply(ty.of, t, MapFieldDiff(ty.of, o, n)).err # None
  PROVE  LET d == MapFieldDiff(ty.of, o, n)
             once == MapFieldApply(ty.of, t, d)
             twice == MapFieldApply(ty.of, once.value, d)
         IN twice.err = once.err /\ (InnerOrdered(ty.of) \/ twice.value = once.value)
<1> DEFINE of == ty.of
           d == MapFieldDiff(of, o, n)
           once == MapFieldApply(of, t, d)
           v == once.value
           twice == MapFieldApply(of, v, d)
           key(i) == d.change[i].key
           delta(k) == InnerDelta(of, o[k], n[k])
           at == Attempts(of, t, d)
           again == Attempts(of, v, d)
<1>1. /\ IsFiniteSet(DOMAIN o) /\ InnerType(of)
      /\ \A k \in DOMAIN o : InnerValue(of, o[k])
      /\ \A k \in DOMAIN n : InnerValue(of, n[k])
      /\ \A k \in DOMAIN t : InnerValue(of, t[k])
  BY MapUse
<1>2. Changes(d, of, o, n)
  BY <1>1, MapFieldChanges
<1>3. once.err # None
  OBVIOUS
<1> HIDE DEF d
<1>4. /\ Attempted(t, d, at)
      /\ \A i : i \in DOMAIN at <=> i \in DOMAIN d.change /\ key(i) \in DOMAIN t
      /\ \A i \in DOMAIN at : at[i] = InnerApply(of, t[key(i)], delta(key(i)))
  BY <1>2, AttemptsFacts
<1>5. PICK first : StopsAt(once, t, d, at, first)
  BY <1>2, <1>3, MapStages
<1> DEFINE tried == {i \in DOMAIN at : i <= first}
<1>6. v = Replaced(t, d, at, tried) /\ once.err = at[first].err
      /\ first \in DOMAIN at /\ at[first].err # None
      /\ \A i \in DOMAIN at : i < first => at[i].err = None
  BY <1>5 DEF StopsAt
<1> HIDE DEF at, once
<1>7. ReplacedBy(v, t, d, at, tried)
  BY <1>4, <1>6, ReplacedFacts
<1>8. /\ IsMap(v) /\ DOMAIN v = DOMAIN t \ d.remove
      /\ \A i \in tried : v[key(i)] = at[i].value
  BY <1>7 DEF ReplacedBy
<1>9. /\ Attempted(v, d, again)
      /\ \A i : i \in DOMAIN again <=> i \in DOMAIN d.change /\ key(i) \in DOMAIN v
      /\ \A i \in DOMAIN again : again[i] = InnerApply(of, v[key(i)], delta(key(i)))
  BY <1>2, AttemptsFacts
<1>10. DOMAIN again = DOMAIN at
  BY <1>2, <1>4, <1>8, <1>9 DEF Changes, Changed
<1>11. ASSUME NEW i \in tried
       PROVE  again[i].err = at[i].err /\ (InnerOrdered(of) \/ again[i].value = at[i].value)
  <2>1. InnerUse(of, o[key(i)], n[key(i)], t[key(i)]) /\ delta(key(i)) # None
    BY <1>1, <1>2, <1>4 DEF Changes, Changed, InnerUse
  <2>2. again[i] = InnerApply(of, at[i].value, delta(key(i)))
        /\ at[i] = InnerApply(of, t[key(i)], delta(key(i)))
    BY <1>4, <1>8, <1>9, <1>10
  <2> QED
    BY <2>1, <2>2 DEF InnerSettles
<1>12. first \in tried /\ \A i \in DOMAIN at : i < first => i \in tried
  BY <1>4, <1>6 DEF Attempted
<1>13. again[first].err = at[first].err /\ \A i \in DOMAIN again : i < first => again[i].err = None
  BY <1>6, <1>10, <1>11, <1>12
<1> HIDE DEF again
<1>14. twice = [err |-> again[first].err,
                value |-> Replaced(v, d, again, {i \in DOMAIN again : i <= first})]
  <2>1. MapApply(v, d, again) =
          [err |-> again[first].err,
           value |-> Replaced(v, d, again, {i \in DOMAIN again : i <= first})]
    <3>1. Attempted(v, d, again) /\ first \in DOMAIN again /\ again[first].err # None
          /\ \A i \in DOMAIN again : i < first => again[i].err = None
      BY <1>6, <1>9, <1>10, <1>13
    <3> HIDE DEF v
    <3> QED
      BY <3>1, MapApplyFails
  <2> QED
    BY <2>1, MapFieldApplyIs DEF again
<1>15. twice.err = once.err
  BY <1>6, <1>13, <1>14
<1> DEFINE w == Replaced(v, d, again, tried)
<1>16. twice.value = w
  BY <1>10, <1>14
<1>17. ReplacedBy(w, v, d, again, tried)
  BY <1>9, <1>10, ReplacedFacts
<1> HIDE DEF w, tried, twice
<1>18. InnerOrdered(of) \/ w = v
  <2> SUFFICES ASSUME ~ InnerOrdered(of) PROVE w = v
    OBVIOUS
  <2>1. /\ IsMap(w) /\ DOMAIN w = DOMAIN v
        /\ \A i \in tried : w[key(i)] = v[key(i)]
        /\ \A k \in DOMAIN w : (\A i \in tried : key(i) # k) => w[k] = v[k]
    BY <1>8, <1>11, <1>17 DEF ReplacedBy
  <2>2. \A k \in DOMAIN w : w[k] = v[k]
    BY <2>1
  <2> QED
    BY <1>8, <2>1, <2>2, SameMap
<1> QED
  BY <1>15, <1>16, <1>18 DEF once, twice, d

LEMMA EntryFieldSettles ==
  ASSUME NEW of, NEW o, NEW n, NEW t
  PROVE  LET d == EntryFieldDiff(of, o, n)
         IN EntryApply(EntryApply(t, d), d) = EntryApply(t, d)
<1> DEFINE d == EntryFieldDiff(of, o, n)
           v == EntryApply(t, d)
           w == EntryApply(v, d)
<1>1. EntryMade(v, of, o, n, t)
  BY EntryOutcome
<1>2. EntryMade(w, of, o, n, v)
  BY EntryOutcome
<1> HIDE DEF v, w
<1>3. IsMap(v) /\ IsMap(w) /\ DOMAIN w = DOMAIN v /\ \A k \in DOMAIN w : w[k] = v[k]
  BY <1>1, <1>2 DEF EntryMade, Resent
<1>4. w = v
  BY <1>3, SameMap
<1> QED
  BY <1>4 DEF v, w

LEMMA EveryFieldSettles ==
  ASSUME NoneIsNoFunction, InnerStaysValue, InnerSettles
  PROVE  FieldSettles
<1> SUFFICES ASSUME NEW ty, NEW o, NEW n, NEW t, FieldUse(ty, o, n, t)
             PROVE  LET d == FieldDiff(ty, o, n)
                        once == FieldApply(ty, t, d)
                        twice == FieldApply(ty, once.value, d)
                    IN /\ twice.err = once.err
                       /\ FieldOrdered(ty) \/ twice.value = once.value
  BY DEF FieldSettles
<1>1. CASE ty.kind = "scalar"
  BY <1>1 DEF FieldApply, FieldDiff, ScalarDiff, Done
<1>2. CASE ty.kind = "bag"
  BY <1>2 DEF FieldApply, FieldDiff, BagApply, BagDiff, Done
<1>3. CASE ty.kind = "entry"
  BY <1>3, EntryFieldSettles DEF FieldApply, FieldDiff, Done
<1>4. CASE ty.kind = "map"
  BY <1>4, MapFieldSettlesDone, MapFieldSettlesFailed DEF FieldApply, FieldDiff, FieldOrdered
<1>5. CASE ty.kind = "ordered"
  BY <1>5 DEF FieldApply, Done, FieldOrdered
<1>6. CASE ty.kind = "delta"
  BY <1>6 DEF FieldUse, IsField, IsFieldValue, FieldApply, FieldDiff, Done, FieldOrdered,
              InnerSettles, InnerUse
<1> QED
  BY <1>1, <1>2, <1>3, <1>4, <1>5, <1>6 DEF FieldUse, IsField

-----------------------------------------------------------------------------
(* A group of fields: those of a struct, or of a variant *)

FieldsUse(fields, o, n, t) ==
  /\ IsFields(fields)
  /\ AreFieldValues(fields, o) /\ AreFieldValues(fields, n) /\ AreFieldValues(fields, t)

LEMMA EachFieldUse ==
  ASSUME NEW fields, NEW o, NEW n, NEW t, FieldsUse(fields, o, n, t)
  PROVE  \A i \in DOMAIN fields : FieldUse(fields[i], o[i], n[i], t[i])
BY DEF FieldsUse, IsFields, AreFieldValues, FieldUse

\* The delta of every field, whether or not it says anything.
Diffs(fields, o, n) == [i \in DOMAIN fields |-> FieldDiff(fields[i], o[i], n[i])]

LEMMA FieldsDiffIs ==
  ASSUME NoneIsNoFunction, NEW fields, NEW o, NEW n
  PROVE  /\ Diffs(fields, o, n) # None
         /\ FieldsDiff(fields, o, n) =
              IF \E i \in DOMAIN fields : FieldIsSome(fields[i], FieldDiff(fields[i], o[i], n[i]))
              THEN Diffs(fields, o, n) ELSE None
<1>1. IsMap(Diffs(fields, o, n))
  BY DEF IsMap, Diffs
<1> QED
  BY <1>1 DEF NoneIsNoFunction, FieldsDiff, IfSome, Diffs

\* What becomes of the fields: each applied, or none behind the first to fail.
Succeeded(r, fields, t, d) ==
  /\ \A i \in DOMAIN fields : FieldApply(fields[i], t[i], d[i]).err = None
  /\ r.err = None
  /\ r.value = [i \in DOMAIN fields |-> FieldApply(fields[i], t[i], d[i]).value]

FailedAt(first, r, fields, t, d) ==
  /\ first \in DOMAIN fields
  /\ r.err = FieldApply(fields[first], t[first], d[first]).err /\ r.err # None
  /\ \A i \in DOMAIN fields : i < first => FieldApply(fields[i], t[i], d[i]).err = None
  /\ r.value = [i \in DOMAIN fields |->
                  IF i <= first THEN FieldApply(fields[i], t[i], d[i]).value ELSE t[i]]

LEMMA FieldsStages ==
  ASSUME NEW fields, NEW t, NEW d, IsFields(fields)
  PROVE  LET r == FieldsApply(fields, t, d)
         IN Succeeded(r, fields, t, d) \/ \E first : FailedAt(first, r, fields, t, d)
<1> DEFINE attempt == [i \in DOMAIN fields |-> FieldApply(fields[i], t[i], d[i])]
           failing == {i \in DOMAIN fields : attempt[i].err # None}
           reached == IF failing = {} THEN DOMAIN fields ELSE 1 .. Min(failing)
           r == FieldsApply(fields, t, d)
<1>1. r = [err |-> IF failing = {} THEN None ELSE attempt[Min(failing)].err,
           value |-> [i \in DOMAIN fields |->
                        IF i \in reached THEN attempt[i].value ELSE t[i]]]
  BY DEF FieldsApply, UpToFailure
<1>2. DOMAIN attempt = DOMAIN fields
      /\ \A i \in DOMAIN fields : attempt[i] = FieldApply(fields[i], t[i], d[i])
  OBVIOUS
<1>3. Len(fields) \in Nat /\ DOMAIN fields = 1 .. Len(fields)
  BY DEF IsFields
<1> HIDE DEF attempt, r
<1>4. CASE failing = {}
  <2>1. \A i \in DOMAIN fields : attempt[i].err = None
    BY <1>4
  <2>2. r.err = None /\ r.value = [i \in DOMAIN fields |-> attempt[i].value]
    BY <1>1, <1>4
  <2>3. Succeeded(r, fields, t, d)
    BY <1>2, <2>1, <2>2 DEF Succeeded
  <2> QED
    BY <2>3 DEF r
<1>5. CASE failing # {}
  <2>1. failing \in SUBSET Nat
    BY <1>3
  <2> DEFINE first == Min(failing)
  <2>2. first \in failing /\ \A i \in failing : first <= i
    BY <1>5, <2>1, MinFacts
  <2> HIDE DEF first, failing
  <2>3. r = [err |-> attempt[first].err,
             value |-> [i \in DOMAIN fields |->
                          IF i \in 1 .. first THEN attempt[i].value ELSE t[i]]]
    BY <1>1, <1>5 DEF first
  <2>4. first \in DOMAIN fields /\ attempt[first].err # None
        /\ \A i \in DOMAIN fields : i < first => attempt[i].err = None
    BY <1>3, <2>1, <2>2 DEF failing
  <2>5. [i \in DOMAIN fields |-> IF i \in 1 .. first THEN attempt[i].value ELSE t[i]]
          = [i \in DOMAIN fields |->
               IF i <= first THEN FieldApply(fields[i], t[i], d[i]).value ELSE t[i]]
    BY <1>2, <1>3, <2>4
  <2>6. FailedAt(first, r, fields, t, d)
    BY <1>2, <2>3, <2>4, <2>5 DEF FailedAt
  <2> QED
    BY <2>6 DEF r
<1> QED
  BY <1>4, <1>5

LEMMA FieldsDecide ==
  ASSUME NoneIsNoFunction, FieldDecides, NEW fields, NEW o, NEW n, FieldsUse(fields, o, n, o)
  PROVE  FieldsDiff(fields, o, n) = None <=> SameFields(fields, o, n, FALSE)
<1>1. \A i \in DOMAIN fields :
        FieldIsSome(fields[i], FieldDiff(fields[i], o[i], n[i])) <=>
          ~ SameField(fields[i], o[i], n[i], FALSE)
  BY EachFieldUse DEF FieldDecides
<1> QED
  BY <1>1, FieldsDiffIs DEF SameFields

LEMMA FieldsMakeNew ==
  ASSUME NoneIsNoFunction, FieldMakesNew,
         NEW fields, NEW o, NEW n, NEW t, FieldsUse(fields, o, n, t),
         FieldsDiff(fields, o, n) # None, SameFields(fields, t, o, TRUE)
  PROVE  LET r == FieldsApply(fields, t, FieldsDiff(fields, o, n))
         IN r.err = None /\ SameFields(fields, r.value, n, TRUE)
<1> DEFINE d == Diffs(fields, o, n)
           r == FieldsApply(fields, t, d)
<1>1. FieldsDiff(fields, o, n) = d
  BY FieldsDiffIs
<1>2. \A i \in DOMAIN fields :
        LET a == FieldApply(fields[i], t[i], d[i])
        IN a.err = None /\ SameField(fields[i], a.value, n[i], TRUE)
  BY EachFieldUse DEF FieldMakesNew, SameFields, Diffs
<1>3. Succeeded(r, fields, t, d) \/ \E first : FailedAt(first, r, fields, t, d)
  BY FieldsStages DEF FieldsUse
<1> HIDE DEF d, r
<1>4. Succeeded(r, fields, t, d)
  BY <1>2, <1>3 DEF FailedAt
<1>5. r.err = None /\ SameFields(fields, r.value, n, TRUE)
  BY <1>2, <1>4 DEF Succeeded, SameFields
<1> QED
  BY <1>1, <1>5 DEF r

LEMMA FieldsStayValues ==
  ASSUME NoneIsNoFunction, FieldStaysValue,
         NEW fields, NEW o, NEW n, NEW t, FieldsUse(fields, o, n, t),
         FieldsDiff(fields, o, n) # None
  PROVE  AreFieldValues(fields, FieldsApply(fields, t, FieldsDiff(fields, o, n)).value)
<1> DEFINE d == Diffs(fields, o, n)
           r == FieldsApply(fields, t, d)
<1>1. FieldsDiff(fields, o, n) = d
  BY FieldsDiffIs
<1>2. \A i \in DOMAIN fields :
        /\ IsFieldValue(fields[i], FieldApply(fields[i], t[i], d[i]).value)
        /\ IsFieldValue(fields[i], t[i])
  BY EachFieldUse DEF FieldStaysValue, FieldUse, Diffs
<1>3. Succeeded(r, fields, t, d) \/ \E first : FailedAt(first, r, fields, t, d)
  BY FieldsStages DEF FieldsUse
<1> HIDE DEF d, r
<1>4. AreFieldValues(fields, r.value)
  BY <1>2, <1>3 DEF AreFieldValues, IsMap, Succeeded, FailedAt
<1> QED
  BY <1>1, <1>4 DEF r

LEMMA FieldsHonest ==
  ASSUME NoneIsNoFunction, FieldHonest,
         NEW fields, NEW o, NEW n, NEW t, FieldsUse(fields, o, n, t),
         FieldsDiff(fields, o, n) # None
  PROVE  LET r == FieldsApply(fields, t, FieldsDiff(fields, o, n))
         IN r.err = None \/ r.err \in FieldsDisagreements(fields, o, t)
<1> DEFINE d == Diffs(fields, o, n)
           r == FieldsApply(fields, t, d)
<1>1. FieldsDiff(fields, o, n) = d
  BY FieldsDiffIs
<1>2. \A i \in DOMAIN fields :
        LET a == FieldApply(fields[i], t[i], d[i])
        IN a.err = None \/ a.err \in FieldDisagreements(fields[i], o[i], t[i])
  BY EachFieldUse DEF FieldHonest, Diffs
<1>3. Succeeded(r, fields, t, d) \/ \E first : FailedAt(first, r, fields, t, d)
  BY FieldsStages DEF FieldsUse
<1> HIDE DEF d, r
<1>4. r.err = None \/ r.err \in FieldsDisagreements(fields, o, t)
  BY <1>2, <1>3 DEF FieldsDisagreements, Succeeded, FailedAt
<1> QED
  BY <1>1, <1>4 DEF r

LEMMA FieldsKeep ==
  ASSUME NoneIsNoFunction, FieldKeeps,
         NEW fields, NEW o, NEW n, NEW t, FieldsUse(fields, o, n, t),
         FieldsDiff(fields, o, n) # None
  PROVE  KeptFields(fields, o, n, t, FieldsApply(fields, t, FieldsDiff(fields, o, n)).value)
<1> DEFINE d == Diffs(fields, o, n)
           r == FieldsApply(fields, t, d)
<1>1. FieldsDiff(fields, o, n) = d
  BY FieldsDiffIs
<1>2. \A i \in DOMAIN fields :
        /\ KeptField(fields[i], o[i], n[i], t[i], FieldApply(fields[i], t[i], d[i]).value)
        /\ KeptField(fields[i], o[i], n[i], t[i], t[i])
  BY EachFieldUse DEF FieldKeeps, Diffs
<1>3. Succeeded(r, fields, t, d) \/ \E first : FailedAt(first, r, fields, t, d)
  BY FieldsStages DEF FieldsUse
<1> HIDE DEF d, r
<1>4. KeptFields(fields, o, n, t, r.value)
  BY <1>2, <1>3 DEF KeptFields, Succeeded, FailedAt
<1> QED
  BY <1>1, <1>4 DEF r

LEMMA FieldsKeptTwice ==
  ASSUME FieldKeeps, NEW fields, NEW o, NEW n, NEW v, NEW w, NEW x,
         FieldsUse(fields, o, n, v), FieldsUse(fields, o, w, x),
         KeptFields(fields, o, n, v, w), KeptFields(fields, o, n, w, x)
  PROVE  KeptFields(fields, o, n, v, x)
BY EachFieldUse DEF FieldKeeps, KeptFields

LEMMA FieldsSettle ==
  ASSUME NoneIsNoFunction, FieldSettles,
         NEW fields, NEW o, NEW n, NEW t, FieldsUse(fields, o, n, t),
         FieldsDiff(fields, o, n) # None
  PROVE  LET d == FieldsDiff(fields, o, n)
             once == FieldsApply(fields, t, d)
             twice == FieldsApply(fields, once.value, d)
         IN twice.err = once.err /\ (FieldsOrdered(fields) \/ twice.value = once.value)
<1> DEFINE d == Diffs(fields, o, n)
           once == FieldsApply(fields, t, d)
           v == once.value
           twice == FieldsApply(fields, v, d)
           a(i) == FieldApply(fields[i], t[i], d[i])
           b(i) == FieldApply(fields[i], a(i).value, d[i])
<1>1. FieldsDiff(fields, o, n) = d
  BY FieldsDiffIs
<1>2. \A i \in DOMAIN fields :
        b(i).err = a(i).err /\ (FieldsOrdered(fields) \/ b(i).value = a(i).value)
  BY EachFieldUse DEF FieldSettles, FieldsOrdered, Diffs
<1>3. Succeeded(once, fields, t, d) \/ \E first : FailedAt(first, once, fields, t, d)
  BY FieldsStages DEF FieldsUse
<1>4. Succeeded(twice, fields, v, d) \/ \E first : FailedAt(first, twice, fields, v, d)
  BY FieldsStages DEF FieldsUse
<1>5. DOMAIN fields \subseteq Nat
  BY DEF FieldsUse, IsFields
<1> HIDE DEF d, once, twice
<1>6. CASE Succeeded(once, fields, t, d)
  <2>1. \A i \in DOMAIN fields : v[i] = a(i).value /\ a(i).err = None
    BY <1>6 DEF Succeeded
  <2>2. \A i \in DOMAIN fields : FieldApply(fields[i], v[i], d[i]) = b(i) /\ b(i).err = None
    BY <1>2, <2>1
  <2>3. Succeeded(twice, fields, v, d)
    BY <1>4, <2>2 DEF FailedAt
  <2>4. twice.err = once.err
    BY <1>6, <2>3 DEF Succeeded
  <2>5. FieldsOrdered(fields) \/ twice.value = once.value
    BY <1>2, <1>6, <2>1, <2>2, <2>3 DEF Succeeded
  <2> QED
    BY <1>1, <2>4, <2>5 DEF once, twice
<1>7. ASSUME NEW first, FailedAt(first, once, fields, t, d)
      PROVE  twice.err = once.err /\ (FieldsOrdered(fields) \/ twice.value = once.value)
  <2>1. /\ first \in DOMAIN fields /\ once.err = a(first).err /\ once.err # None
        /\ \A i \in DOMAIN fields : i < first => a(i).err = None
        /\ \A i \in DOMAIN fields : v[i] = IF i <= first THEN a(i).value ELSE t[i]
    BY <1>7 DEF FailedAt
  <2>2. \A i \in DOMAIN fields : i <= first => FieldApply(fields[i], v[i], d[i]) = b(i)
    BY <2>1
  <2>3. b(first).err = once.err /\ \A i \in DOMAIN fields : i < first => b(i).err = None
    BY <1>2, <2>1
  <2>4. PICK again : FailedAt(again, twice, fields, v, d)
    BY <1>4, <1>5, <2>1, <2>2, <2>3 DEF Succeeded
  <2>5. again = first
    BY <1>5, <2>1, <2>2, <2>3, <2>4 DEF FailedAt
  <2>6. twice.err = once.err
    BY <1>5, <2>1, <2>2, <2>3, <2>4, <2>5 DEF FailedAt
  <2>7. FieldsOrdered(fields) \/ twice.value = once.value
    BY <1>2, <1>5, <1>7, <2>1, <2>2, <2>4, <2>5 DEF FailedAt
  <2> QED
    BY <2>6, <2>7
<1> QED
  BY <1>1, <1>3, <1>6, <1>7 DEF once, twice

LEMMA FieldsOrder ==
  ASSUME InnerOrder, NEW fields, NEW v, NEW w, NEW x, FieldsUse(fields, v, w, x)
  PROVE  /\ SameFields(fields, v, v, TRUE)
         /\ SameFields(fields, v, w, FALSE) => SameFields(fields, v, w, TRUE)
         /\ SameFields(fields, v, w, TRUE) /\ SameFields(fields, w, x, TRUE) =>
              SameFields(fields, v, x, TRUE)
<1>1. \A i \in DOMAIN fields :
        /\ FieldUse(fields[i], v[i], w[i], x[i])
        /\ FieldUse(fields[i], v[i], v[i], v[i])
        /\ FieldUse(fields[i], v[i], w[i], v[i])
  BY EachFieldUse DEF FieldUse
<1>2. \A i \in DOMAIN fields : SameField(fields[i], v[i], v[i], TRUE)
  BY <1>1, FieldOrderReflexive
<1>3. \A i \in DOMAIN fields :
        SameField(fields[i], v[i], w[i], FALSE) => SameField(fields[i], v[i], w[i], TRUE)
  BY <1>1, FieldOrderWeaker
<1>4. \A i \in DOMAIN fields :
        SameField(fields[i], v[i], w[i], TRUE) /\ SameField(fields[i], w[i], x[i], TRUE) =>
          SameField(fields[i], v[i], x[i], TRUE)
  BY <1>1, FieldOrderTransitive
<1> QED
  BY <1>2, <1>3, <1>4, Zenon DEF SameFields

LEMMA FieldsKeptByNothing ==
  ASSUME FieldKeeps, NEW fields, NEW o, NEW n, NEW t, FieldsUse(fields, o, n, t)
  PROVE  KeptFields(fields, o, n, t, t)
BY EachFieldUse DEF FieldKeeps, KeptFields

-----------------------------------------------------------------------------
(* Types *)

\* A struct is its fields.
LEMMA StructUse ==
  ASSUME NEW ty, NEW o, NEW n, NEW t, Use(ty, o, n, t), ty.kind # "enum"
  PROVE  ty.kind = "struct" /\ FieldsUse(ty.fields, o, n, t)
BY DEF Use, IsType, IsValue, FieldsUse

\* A value of an enum is a variant and the fields of that variant.
Variant(ty, v) ==
  /\ v = [variant |-> v.variant, fields |-> v.fields] /\ v.variant \in DOMAIN ty.variants
  /\ IsFields(ty.variants[v.variant].fields)
  /\ AreFieldValues(ty.variants[v.variant].fields, v.fields)

LEMMA EnumUse ==
  ASSUME NEW ty, NEW o, NEW n, NEW t, Use(ty, o, n, t), ty.kind = "enum"
  PROVE  Variant(ty, o) /\ Variant(ty, n) /\ Variant(ty, t)
BY DEF Use, IsType, IsValue, Variant

\* The three deltas of an enum.
EnumDelta(d, ty, o, n) ==
  LET fd == FieldsDiff(ty.variants[o.variant].fields, o.fields, n.fields)
  IN \/ o.variant # n.variant /\ d = [became |-> n]
     \/ o.variant = n.variant /\ fd = None /\ d = None
     \/ o.variant = n.variant /\ fd # None /\ d = [variant |-> o.variant, fields |-> fd]

LEMMA EnumDiffIs ==
  ASSUME NEW ty, NEW o, NEW n, ty.kind = "enum"
  PROVE  EnumDelta(DeltaOf(ty, o, n), ty, o, n)
BY DEF DeltaOf, EnumDiff, Varied, EnumDelta

LEMMA RecordsAreSome ==
  ASSUME NoneIsNoFunction, NEW v, NEW f
  PROVE  [became |-> v] # None /\ [variant |-> v, fields |-> f] # None
<1>1. IsMap([became |-> v]) /\ IsMap([variant |-> v, fields |-> f])
  BY DEF IsMap
<1> QED
  BY <1>1 DEF NoneIsNoFunction

\* And what becomes of a value by each of them.
LEMMA EnumBecomes ==
  ASSUME NEW ty, NEW v, NEW t, ty.kind = "enum"
  PROVE  ApplyTo(ty, t, [became |-> v]) = [err |-> None, value |-> v]
BY DEF ApplyTo, EnumApply, BecameApply, Done

LEMMA EnumVaries ==
  ASSUME NEW ty, NEW f, NEW t, ty.kind = "enum", Variant(ty, t)
  PROVE  LET r == FieldsApply(ty.variants[t.variant].fields, t.fields, f)
         IN ApplyTo(ty, t, [variant |-> t.variant, fields |-> f]) =
              [err |-> r.err, value |-> [variant |-> t.variant, fields |-> r.value]]
<1> DEFINE d == [variant |-> t.variant, fields |-> f]
           r == FieldsApply(ty.variants[t.variant].fields, t.fields, f)
<1>1. "became" \notin DOMAIN d /\ "variant" \in DOMAIN d
      /\ d.variant = t.variant /\ d.fields = f
  OBVIOUS
<1> HIDE DEF d
<1>2. ApplyTo(ty, t, d) = VariantApply(ty, t, d)
  BY <1>1 DEF ApplyTo, EnumApply
<1>3. VariantApply(ty, t, d) = [err |-> r.err, value |-> [t EXCEPT !.fields = r.value]]
  BY <1>1 DEF VariantApply, Refilled
<1> HIDE DEF r
<1>4. [t EXCEPT !.fields = r.value] = [variant |-> t.variant, fields |-> r.value]
  BY DEF Variant
<1> QED
  BY <1>2, <1>3, <1>4 DEF d, r

LEMMA EnumRefuses ==
  ASSUME NEW ty, NEW v, NEW f, NEW t, ty.kind = "enum", v # t.variant
  PROVE  ApplyTo(ty, t, [variant |-> v, fields |-> f]) =
           [err |-> [type_name |-> ty.name,
                     expected |-> ty.variants[v].name,
                     found |-> ty.variants[t.variant].name],
            value |-> t]
<1> DEFINE d == [variant |-> v, fields |-> f]
<1>1. "became" \notin DOMAIN d /\ "variant" \in DOMAIN d /\ d.variant = v
  OBVIOUS
<1> HIDE DEF d
<1>2. ApplyTo(ty, t, d) = [err |-> Mismatch(ty, v, t.variant), value |-> t]
  BY <1>1 DEF ApplyTo, EnumApply
<1> QED
  BY <1>2 DEF d, Mismatch

LEMMA TypesDecide ==
  ASSUME NoneIsNoFunction, FieldDecides
  PROVE  Decides
<1> SUFFICES ASSUME NEW ty, NEW o, NEW n, Use(ty, o, n, o)
             PROVE  DeltaOf(ty, o, n) = None <=> Same(ty, o, n, FALSE)
  BY DEF Decides
<1>1. CASE ty.kind # "enum"
  BY <1>1, StructUse, FieldsDecide DEF DeltaOf, Same
<1>2. CASE ty.kind = "enum"
  <2> DEFINE d == DeltaOf(ty, o, n)
             fields == ty.variants[o.variant].fields
  <2>1. Variant(ty, o) /\ Variant(ty, n)
    BY <1>2, EnumUse
  <2>2. EnumDelta(d, ty, o, n)
    BY <1>2, EnumDiffIs
  <2>3. [became |-> n] # None
        /\ [variant |-> o.variant, fields |-> FieldsDiff(fields, o.fields, n.fields)] # None
    BY RecordsAreSome
  <2>4. o.variant = n.variant =>
          (FieldsDiff(fields, o.fields, n.fields) = None
             <=> SameFields(fields, o.fields, n.fields, FALSE))
    BY <2>1, FieldsDecide DEF Variant, FieldsUse
  <2> HIDE DEF d, fields
  <2>5. d = None <=> o.variant = n.variant /\ FieldsDiff(fields, o.fields, n.fields) = None
    BY <2>2, <2>3 DEF EnumDelta, fields
  <2> QED
    BY <1>2, <2>4, <2>5 DEF Same, d, fields
<1> QED
  BY <1>1, <1>2

LEMMA TypesOrder ==
  ASSUME InnerOrder
  PROVE  Order
<1> SUFFICES ASSUME NEW ty, NEW v, NEW w, NEW x, Use(ty, v, w, x)
             PROVE  /\ Same(ty, v, v, TRUE)
                    /\ Same(ty, v, w, FALSE) => Same(ty, v, w, TRUE)
                    /\ Same(ty, v, w, TRUE) /\ Same(ty, w, x, TRUE) => Same(ty, v, x, TRUE)
  BY DEF Order, Use
<1>1. CASE ty.kind # "enum"
  <2>1. FieldsUse(ty.fields, v, w, x)
    BY <1>1, StructUse
  <2> QED
    BY <1>1, <2>1, FieldsOrder DEF Same
<1>2. CASE ty.kind = "enum"
  <2> DEFINE fields == ty.variants[v.variant].fields
  <2>1. Variant(ty, v) /\ Variant(ty, w) /\ Variant(ty, x)
    BY <1>2, EnumUse
  <2>2. FieldsUse(fields, v.fields, v.fields, v.fields)
    BY <2>1 DEF Variant, FieldsUse
  <2>3. w.variant = v.variant => FieldsUse(fields, v.fields, w.fields, v.fields)
    BY <2>1 DEF Variant, FieldsUse
  <2>4. w.variant = v.variant /\ x.variant = v.variant =>
          FieldsUse(fields, v.fields, w.fields, x.fields)
    BY <2>1 DEF Variant, FieldsUse
  <2> HIDE DEF fields
  <2>5. SameFields(fields, v.fields, v.fields, TRUE)
    BY <2>2, FieldsOrder
  <2>6. w.variant = v.variant /\ SameFields(fields, v.fields, w.fields, FALSE) =>
          SameFields(fields, v.fields, w.fields, TRUE)
    BY <2>3, FieldsOrder
  <2>7. w.variant = v.variant /\ x.variant = v.variant
          /\ SameFields(fields, v.fields, w.fields, TRUE)
          /\ SameFields(fields, w.fields, x.fields, TRUE) =>
          SameFields(fields, v.fields, x.fields, TRUE)
    BY <2>4, FieldsOrder
  <2> QED
    BY <1>2, <2>5, <2>6, <2>7 DEF Same, fields
<1> QED
  BY <1>1, <1>2

\* What a delta of an enum does: replace the value, change its fields, or
\* refuse it because it is in another variant.
EnumOutcome(r, ty, o, n, t) ==
  LET fields == ty.variants[o.variant].fields
      fd == FieldsDiff(fields, o.fields, n.fields)
      fr == FieldsApply(fields, t.fields, fd)
  IN \/ o.variant # n.variant /\ r = [err |-> None, value |-> n]
     \/ /\ o.variant = n.variant /\ t.variant # o.variant
        /\ r.value = t /\ r.err \in Disagreements(ty, o, t)
     \/ /\ o.variant = n.variant /\ t.variant = o.variant /\ fd # None
        /\ FieldsUse(fields, o.fields, n.fields, t.fields)
        /\ r = [err |-> fr.err, value |-> [variant |-> t.variant, fields |-> fr.value]]

LEMMA EnumOutcomes ==
  ASSUME NEW ty, NEW o, NEW n, NEW t, Use(ty, o, n, t), ty.kind = "enum",
         DeltaOf(ty, o, n) # None
  PROVE  EnumOutcome(ApplyTo(ty, t, DeltaOf(ty, o, n)), ty, o, n, t)
<1> DEFINE d == DeltaOf(ty, o, n)
           fields == ty.variants[o.variant].fields
           fd == FieldsDiff(fields, o.fields, n.fields)
<1>1. Variant(ty, o) /\ Variant(ty, n) /\ Variant(ty, t)
  BY EnumUse
<1>2. EnumDelta(d, ty, o, n)
  BY EnumDiffIs
<1>3. CASE o.variant # n.variant
  <2>1. ApplyTo(ty, t, d) = [err |-> None, value |-> n]
    BY <1>2, <1>3, EnumBecomes DEF EnumDelta
  <2> QED
    BY <1>3, <2>1 DEF EnumOutcome
<1>4. CASE o.variant = n.variant
  <2>1. fd # None /\ d = [variant |-> o.variant, fields |-> fd]
    BY <1>2, <1>4 DEF EnumDelta
  <2>2. CASE t.variant = o.variant
    <3> DEFINE r == FieldsApply(fields, t.fields, fd)
    <3>1. ApplyTo(ty, t, d) =
            [err |-> r.err, value |-> [variant |-> t.variant, fields |-> r.value]]
      BY <1>1, <2>1, <2>2, EnumVaries
    <3>2. FieldsUse(fields, o.fields, n.fields, t.fields)
      BY <1>1, <1>4, <2>2 DEF Variant, FieldsUse
    <3> QED
      BY <1>4, <2>1, <2>2, <3>1, <3>2 DEF EnumOutcome
  <2>3. CASE t.variant # o.variant
    <3> DEFINE refusal == [type_name |-> ty.name,
                           expected |-> ty.variants[o.variant].name,
                           found |-> ty.variants[t.variant].name]
    <3>1. ApplyTo(ty, t, d) = [err |-> refusal, value |-> t]
      BY <2>1, <2>3, EnumRefuses
    <3>2. Disagreements(ty, o, t) = {refusal}
      BY <2>3 DEF Disagreements
    <3> HIDE DEF refusal
    <3> QED
      BY <1>4, <2>3, <3>1, <3>2 DEF EnumOutcome
  <2> QED
    BY <2>2, <2>3
<1> QED
  BY <1>3, <1>4

LEMMA TypesMakeNew ==
  ASSUME NoneIsNoFunction, InnerOrder, FieldMakesNew
  PROVE  MakesNew
<1> SUFFICES ASSUME NEW ty, NEW o, NEW n, NEW t, Use(ty, o, n, t),
                    DeltaOf(ty, o, n) # None, Same(ty, t, o, TRUE)
             PROVE  LET r == ApplyTo(ty, t, DeltaOf(ty, o, n))
                    IN r.err = None /\ Same(ty, r.value, n, TRUE)
  BY DEF MakesNew
<1>1. CASE ty.kind # "enum"
  BY <1>1, StructUse, FieldsMakeNew DEF DeltaOf, ApplyTo, Same
<1>2. CASE ty.kind = "enum"
  <2> DEFINE made == ApplyTo(ty, t, DeltaOf(ty, o, n))
             fields == ty.variants[o.variant].fields
             fr == FieldsApply(fields, t.fields, FieldsDiff(fields, o.fields, n.fields))
  <2>1. EnumOutcome(made, ty, o, n, t)
    BY <1>2, EnumOutcomes
  <2>2. CASE o.variant # n.variant
    <3>1. made.err = None /\ made.value = n
      BY <2>1, <2>2 DEF EnumOutcome
    <3>2. Same(ty, n, n, TRUE)
      BY TypesOrder DEF Order, Use
    <3> QED
      BY <3>1, <3>2
  <2>3. CASE o.variant = n.variant
    <3>1. t.variant = o.variant /\ SameFields(fields, t.fields, o.fields, TRUE)
      BY <1>2 DEF Same
    <3>2. /\ FieldsUse(fields, o.fields, n.fields, t.fields)
          /\ FieldsDiff(fields, o.fields, n.fields) # None
          /\ made = [err |-> fr.err, value |-> [variant |-> t.variant, fields |-> fr.value]]
      BY <2>1, <2>3, <3>1 DEF EnumOutcome
    <3>3. fr.err = None /\ SameFields(fields, fr.value, n.fields, TRUE)
      BY <3>1, <3>2, FieldsMakeNew
    <3> HIDE DEF made, fr
    <3>4. made.err = None /\ Same(ty, made.value, n, TRUE)
      BY <1>2, <2>3, <3>1, <3>2, <3>3 DEF Same
    <3> QED
      BY <3>4 DEF made
  <2> QED
    BY <2>2, <2>3
<1> QED
  BY <1>1, <1>2

LEMMA TypesStayValues ==
  ASSUME NoneIsNoFunction, FieldStaysValue
  PROVE  StaysValue
<1> SUFFICES ASSUME NEW ty, NEW o, NEW n, NEW t, Use(ty, o, n, t), DeltaOf(ty, o, n) # None
             PROVE  IsValue(ty, ApplyTo(ty, t, DeltaOf(ty, o, n)).value)
  BY DEF StaysValue
<1>1. CASE ty.kind # "enum"
  BY <1>1, StructUse, FieldsStayValues DEF DeltaOf, ApplyTo, IsValue
<1>2. CASE ty.kind = "enum"
  <2> DEFINE r == ApplyTo(ty, t, DeltaOf(ty, o, n))
             fields == ty.variants[o.variant].fields
             fr == FieldsApply(fields, t.fields, FieldsDiff(fields, o.fields, n.fields))
  <2>1. EnumOutcome(r, ty, o, n, t)
    BY <1>2, EnumOutcomes
  <2>2. CASE o.variant # n.variant
    BY <2>1, <2>2 DEF EnumOutcome, Use
  <2>3. CASE o.variant = n.variant /\ t.variant # o.variant
    BY <2>1, <2>3 DEF EnumOutcome, Use
  <2>4. CASE o.variant = n.variant /\ t.variant = o.variant
    <3>1. /\ FieldsUse(fields, o.fields, n.fields, t.fields)
          /\ FieldsDiff(fields, o.fields, n.fields) # None
          /\ r.value = [variant |-> t.variant, fields |-> fr.value]
      BY <2>1, <2>4 DEF EnumOutcome
    <3>2. AreFieldValues(fields, fr.value)
      BY <3>1, FieldsStayValues
    <3>3. t.variant \in DOMAIN ty.variants
      BY <1>2, EnumUse DEF Variant
    <3> HIDE DEF r, fr
    <3>4. IsValue(ty, r.value)
      BY <1>2, <2>4, <3>1, <3>2, <3>3 DEF IsValue
    <3> QED
      BY <3>4 DEF r
  <2> QED
    BY <2>2, <2>3, <2>4
<1> QED
  BY <1>1, <1>2

LEMMA TypesHonest ==
  ASSUME NoneIsNoFunction, FieldHonest
  PROVE  Honest
<1> SUFFICES ASSUME NEW ty, NEW o, NEW n, NEW t, Use(ty, o, n, t), DeltaOf(ty, o, n) # None
             PROVE  LET r == ApplyTo(ty, t, DeltaOf(ty, o, n))
                    IN r.err = None \/ r.err \in Disagreements(ty, o, t)
  BY DEF Honest
<1>1. CASE ty.kind # "enum"
  BY <1>1, StructUse, FieldsHonest DEF DeltaOf, ApplyTo, Disagreements
<1>2. CASE ty.kind = "enum"
  <2> DEFINE r == ApplyTo(ty, t, DeltaOf(ty, o, n))
             fields == ty.variants[o.variant].fields
             fr == FieldsApply(fields, t.fields, FieldsDiff(fields, o.fields, n.fields))
  <2>1. EnumOutcome(r, ty, o, n, t)
    BY <1>2, EnumOutcomes
  <2>2. CASE o.variant # n.variant \/ t.variant # o.variant
    BY <2>1, <2>2 DEF EnumOutcome
  <2>3. CASE o.variant = n.variant /\ t.variant = o.variant
    <3>1. /\ FieldsUse(fields, o.fields, n.fields, t.fields)
          /\ FieldsDiff(fields, o.fields, n.fields) # None
          /\ r.err = fr.err
      BY <2>1, <2>3 DEF EnumOutcome
    <3>2. fr.err = None \/ fr.err \in FieldsDisagreements(fields, o.fields, t.fields)
      BY <3>1, FieldsHonest
    <3> HIDE DEF r, fr
    <3> QED
      BY <1>2, <2>3, <3>1, <3>2 DEF Disagreements, r
  <2> QED
    BY <2>2, <2>3
<1> QED
  BY <1>1, <1>2

LEMMA TypesKeep ==
  ASSUME NoneIsNoFunction, FieldKeeps
  PROVE  Keeps
<1>1. ASSUME NEW ty, NEW o, NEW n, NEW t, Use(ty, o, n, t)
      PROVE  Kept(ty, o, n, t, t)
  <2>1. CASE ty.kind # "enum"
    BY <1>1, <2>1, StructUse, FieldsKeptByNothing DEF Kept
  <2>2. CASE ty.kind = "enum"
    <3>1. Variant(ty, o) /\ Variant(ty, n) /\ Variant(ty, t)
      BY <1>1, <2>2, EnumUse
    <3>2. CASE o.variant = n.variant /\ t.variant = o.variant
      <4>1. FieldsUse(ty.variants[o.variant].fields, o.fields, n.fields, t.fields)
        BY <3>1, <3>2 DEF Variant, FieldsUse
      <4>2. KeptFields(ty.variants[o.variant].fields, o.fields, n.fields, t.fields, t.fields)
        BY <4>1, FieldsKeptByNothing
      <4> QED
        BY <2>2, <3>2, <4>2 DEF Kept
    <3> QED
      BY <2>2, <3>2 DEF Kept
  <2> QED
    BY <2>1, <2>2
<1>2. ASSUME NEW ty, NEW o, NEW n, NEW t, Use(ty, o, n, t), DeltaOf(ty, o, n) # None
      PROVE  Kept(ty, o, n, t, ApplyTo(ty, t, DeltaOf(ty, o, n)).value)
  <2>1. CASE ty.kind # "enum"
    BY <1>2, <2>1, StructUse, FieldsKeep DEF DeltaOf, ApplyTo, Kept
  <2>2. CASE ty.kind = "enum"
    <3> DEFINE r == ApplyTo(ty, t, DeltaOf(ty, o, n))
               fields == ty.variants[o.variant].fields
               fr == FieldsApply(fields, t.fields, FieldsDiff(fields, o.fields, n.fields))
    <3>1. EnumOutcome(r, ty, o, n, t)
      BY <1>2, <2>2, EnumOutcomes
    <3>2. CASE o.variant # n.variant
      BY <2>2, <3>2 DEF Kept
    <3>3. CASE o.variant = n.variant /\ t.variant # o.variant
      BY <2>2, <3>1, <3>3 DEF EnumOutcome, Kept
    <3>4. CASE o.variant = n.variant /\ t.variant = o.variant
      <4>1. /\ FieldsUse(fields, o.fields, n.fields, t.fields)
            /\ FieldsDiff(fields, o.fields, n.fields) # None
            /\ r.value = [variant |-> t.variant, fields |-> fr.value]
        BY <3>1, <3>4 DEF EnumOutcome
      <4>2. KeptFields(fields, o.fields, n.fields, t.fields, fr.value)
        BY <4>1, FieldsKeep
      <4> HIDE DEF r, fr
      <4>3. Kept(ty, o, n, t, r.value)
        BY <2>2, <3>4, <4>1, <4>2 DEF Kept
      <4> QED
        BY <4>3 DEF r
    <3> QED
      BY <3>2, <3>3, <3>4
  <2> QED
    BY <2>1, <2>2
<1>3. ASSUME NEW ty, NEW o, NEW n, NEW v, NEW w, NEW x,
             Use(ty, o, n, v), Use(ty, o, w, x), Kept(ty, o, n, v, w), Kept(ty, o, n, w, x)
      PROVE  Kept(ty, o, n, v, x)
  <2>1. CASE ty.kind # "enum"
    BY <1>3, <2>1, StructUse, FieldsKeptTwice DEF Kept
  <2>2. CASE ty.kind = "enum"
    <3> DEFINE fields == ty.variants[o.variant].fields
    <3>1. /\ Variant(ty, o) /\ Variant(ty, n) /\ Variant(ty, v)
          /\ Variant(ty, w) /\ Variant(ty, x)
      BY <1>3, <2>2, EnumUse
    <3>2. CASE o.variant = n.variant /\ v.variant = o.variant
      <4>1. /\ w.variant = o.variant /\ x.variant = o.variant
            /\ KeptFields(fields, o.fields, n.fields, v.fields, w.fields)
            /\ KeptFields(fields, o.fields, n.fields, w.fields, x.fields)
        BY <1>3, <2>2, <3>2 DEF Kept
      <4>2. /\ FieldsUse(fields, o.fields, n.fields, v.fields)
            /\ FieldsUse(fields, o.fields, w.fields, x.fields)
        BY <3>1, <3>2, <4>1 DEF Variant, FieldsUse
      <4>3. KeptFields(fields, o.fields, n.fields, v.fields, x.fields)
        BY <4>1, <4>2, FieldsKeptTwice
      <4> QED
        BY <2>2, <3>2, <4>1, <4>3 DEF Kept
    <3>3. CASE ~ (o.variant = n.variant /\ v.variant = o.variant)
      BY <1>3, <2>2, <3>3 DEF Kept
    <3> QED
      BY <3>2, <3>3
  <2> QED
    BY <2>1, <2>2
<1> QED
  BY <1>1, <1>2, <1>3, Zenon DEF Keeps

LEMMA TypesSettle ==
  ASSUME NoneIsNoFunction, FieldStaysValue, FieldSettles
  PROVE  Settles
<1> SUFFICES ASSUME NEW ty, NEW o, NEW n, NEW t, Use(ty, o, n, t), DeltaOf(ty, o, n) # None
             PROVE  LET d == DeltaOf(ty, o, n)
                        once == ApplyTo(ty, t, d)
                        twice == ApplyTo(ty, once.value, d)
                    IN twice.err = once.err /\ (HasOrdered(ty) \/ twice.value = once.value)
  BY DEF Settles
<1>1. CASE ty.kind # "enum"
  BY <1>1, StructUse, FieldsSettle DEF DeltaOf, ApplyTo, HasOrdered
<1>2. CASE ty.kind = "enum"
  <2> DEFINE once == ApplyTo(ty, t, DeltaOf(ty, o, n))
             v == once.value
             twice == ApplyTo(ty, v, DeltaOf(ty, o, n))
             fields == ty.variants[o.variant].fields
             fd == FieldsDiff(fields, o.fields, n.fields)
             fonce == FieldsApply(fields, t.fields, fd)
             ftwice == FieldsApply(fields, fonce.value, fd)
  <2>1. EnumOutcome(once, ty, o, n, t)
    BY <1>2, EnumOutcomes
  <2>2. IsValue(ty, v)
    BY TypesStayValues DEF StaysValue
  <2>3. EnumOutcome(twice, ty, o, n, v)
    <3>1. Use(ty, o, n, v)
      BY <2>2 DEF Use
    <3> QED
      BY <1>2, <3>1, EnumOutcomes
  <2>4. CASE o.variant # n.variant
    <3> HIDE DEF once, twice
    <3>1. twice = once
      BY <2>1, <2>3, <2>4 DEF EnumOutcome
    <3> QED
      BY <3>1 DEF once, twice
  <2>5. CASE o.variant = n.variant /\ t.variant # o.variant
    <3>1. v = t
      BY <2>1, <2>5 DEF EnumOutcome
    <3> QED
      BY <3>1
  <2>6. CASE o.variant = n.variant /\ t.variant = o.variant
    <3>1. /\ FieldsUse(fields, o.fields, n.fields, t.fields) /\ fd # None
          /\ once = [err |-> fonce.err, value |-> [variant |-> t.variant, fields |-> fonce.value]]
      BY <2>1, <2>6 DEF EnumOutcome
    <3>2. v.variant = o.variant /\ v.fields = fonce.value
      BY <2>6, <3>1
    <3>3. twice = [err |-> ftwice.err,
                   value |-> [variant |-> v.variant, fields |-> ftwice.value]]
      BY <2>3, <2>6, <3>2 DEF EnumOutcome
    <3>4. ftwice.err = fonce.err /\ (FieldsOrdered(fields) \/ ftwice.value = fonce.value)
      BY <3>1, FieldsSettle
    <3>5. FieldsOrdered(fields) => HasOrdered(ty)
      BY <1>2, EnumUse DEF Variant, HasOrdered
    <3> HIDE DEF once, twice, fonce, ftwice, fd
    <3>6. twice.err = once.err /\ (HasOrdered(ty) \/ twice.value = once.value)
      BY <2>6, <3>1, <3>2, <3>3, <3>4, <3>5
    <3> QED
      BY <3>6 DEF once, twice
  <2> QED
    BY <2>4, <2>5, <2>6
<1> QED
  BY <1>1, <1>2

\* What the types of the fields promise, the type promises (the code of
\* derive_delta, for every struct and enum, and for all attributes).
THEOREM LawsCarryOver ==
  ASSUME NoneIsNoFunction, InnerLawful
  PROVE  Lawful
<1> USE NoneIsNoFunction, InnerLawful DEF InnerLawful
<1>1. Decides
  BY EveryFieldDecides, TypesDecide
<1>2. Order
  BY TypesOrder
<1>3. MakesNew
  BY EveryFieldMakesNew, TypesMakeNew
<1>4. StaysValue
  BY EveryFieldStaysValue, TypesStayValues
<1>5. Honest
  BY EveryFieldHonest, TypesHonest
<1>6. Keeps
  BY FieldsAreKept, TypesKeep
<1>7. Settles
  BY EveryFieldStaysValue, EveryFieldSettles, TypesSettle
<1> QED
  BY <1>1, <1>2, <1>3, <1>4, <1>5, <1>6, <1>7 DEF Lawful
=============================================================================
