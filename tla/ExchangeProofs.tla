--------------------------- MODULE ExchangeProofs ---------------------------
(***************************************************************************)
(* What the trait promises (delta-struct/src/lib.rs:612-642), for every    *)
(* type the derive accepts whose fields nest two levels of types or less,  *)
(* and for all of its values.  The contract of the innermost types holds   *)
(* because they nest nothing; DeriveProofs carries it from there outwards. *)
(***************************************************************************)
EXTENDS Fingerprinted, FiniteSetTheorems, TLAPS

\* None is neither a record nor a sequence, as every delta is.
NoneIsNoFunction == None # [k \in DOMAIN None |-> None[k]]

-----------------------------------------------------------------------------
(* The contract, layer by layer *)

LEMMA FlatLawful ==
  ASSUME NoneIsNoFunction
  PROVE  Flat!Lawful
<1>1. Flat!NoneIsNoFunction
  BY DEF NoneIsNoFunction, Flat!NoneIsNoFunction, Flat!IsMap
<1>2. Flat!InnerLawful
  BY DEF Flat!InnerLawful, Flat!InnerDecides, Flat!InnerOrder, Flat!InnerMakesNew,
         Flat!InnerStaysValue, Flat!InnerHonest, Flat!InnerKeeps, Flat!InnerSettles,
         Flat!InnerUse, NoType
<1> QED
  BY <1>1, <1>2, Flat!LawsCarryOver

LEMMA Nested1Lawful ==
  ASSUME NoneIsNoFunction
  PROVE  Nested1!Lawful
<1>1. Nested1!NoneIsNoFunction
  BY DEF NoneIsNoFunction, Nested1!NoneIsNoFunction, Nested1!IsMap
<1>2. Nested1!InnerLawful
  BY FlatLawful
     DEF Nested1!InnerLawful, Nested1!InnerDecides, Nested1!InnerOrder, Nested1!InnerMakesNew,
         Nested1!InnerStaysValue, Nested1!InnerHonest, Nested1!InnerKeeps,
         Nested1!InnerSettles, Nested1!InnerUse,
         Flat!Lawful, Flat!Decides, Flat!Order, Flat!MakesNew,
         Flat!StaysValue, Flat!Honest, Flat!Keeps, Flat!Settles, Flat!Use,
         FlatDelta, FlatApply, FlatType, FlatOrdered, FlatValue,
         FlatSame, FlatKept, FlatDisagreements
<1> QED
  BY <1>1, <1>2, Nested1!LawsCarryOver

LEMMA Nested2Lawful ==
  ASSUME NoneIsNoFunction
  PROVE  Nested2!Lawful
<1>1. Nested2!NoneIsNoFunction
  BY DEF NoneIsNoFunction, Nested2!NoneIsNoFunction, Nested2!IsMap
<1>2. Nested2!InnerLawful
  BY Nested1Lawful
     DEF Nested2!InnerLawful, Nested2!InnerDecides, Nested2!InnerOrder, Nested2!InnerMakesNew,
         Nested2!InnerStaysValue, Nested2!InnerHonest, Nested2!InnerKeeps,
         Nested2!InnerSettles, Nested2!InnerUse,
         Nested1!Lawful, Nested1!Decides, Nested1!Order, Nested1!MakesNew,
         Nested1!StaysValue, Nested1!Honest, Nested1!Keeps, Nested1!Settles, Nested1!Use,
         Nested1Delta, Nested1Apply, Nested1Type, Nested1Ordered, Nested1Value,
         Nested1Same, Nested1Kept, Nested1Disagreements
<1> QED
  BY <1>1, <1>2, Nested2!LawsCarryOver

-----------------------------------------------------------------------------
(* One delta applied once and twice *)

Use(t, o, n, v) == IsType(t) /\ IsValue(t, o) /\ IsValue(t, n) /\ IsValue(t, v)

Once(t, o, n, v) == ApplyTo(t, v, DeltaOf(t, o, n))

Twice(t, o, n, v) == ApplyTo(t, Once(t, o, n, v).value, DeltaOf(t, o, n))

\* delta is None exactly when == holds.
LEMMA NoneDecides ==
  ASSUME NoneIsNoFunction, NEW t, NEW o, NEW n, Use(t, o, n, o)
  PROVE  DeltaOf(t, o, n) = None <=> Eq(t, o, n)
BY Nested2Lawful
   DEF Use, Eq, DeltaOf, IsType, IsValue, Same, Nested2!Lawful, Nested2!Decides, Nested2!Use

\* A value of a type stays one, and is applied to in a place.
LEMMA OnceIsValue ==
  ASSUME NoneIsNoFunction, NEW t, NEW o, NEW n, NEW v, Use(t, o, n, v), DeltaOf(t, o, n) # None
  PROVE  IsValue(t, Once(t, o, n, v).value)
BY Nested2Lawful
   DEF Use, Once, DeltaOf, ApplyTo, IsType, IsValue,
       Nested2!Lawful, Nested2!StaysValue, Nested2!Use

LEMMA OnceMakesNew ==
  ASSUME NoneIsNoFunction, NEW t, NEW o, NEW n, NEW v, Use(t, o, n, v), DeltaOf(t, o, n) # None,
         AsGoodAs(t, v, o)
  PROVE  Once(t, o, n, v).err = None /\ AsGoodAs(t, Once(t, o, n, v).value, n)
BY Nested2Lawful
   DEF Use, Once, AsGoodAs, DeltaOf, ApplyTo, IsType, IsValue, Same,
       Nested2!Lawful, Nested2!MakesNew, Nested2!Use

LEMMA OnceIsHonest ==
  ASSUME NoneIsNoFunction, NEW t, NEW o, NEW n, NEW v, Use(t, o, n, v), DeltaOf(t, o, n) # None
  PROVE  \/ Once(t, o, n, v).err = None
         \/ Once(t, o, n, v).err \in Disagreements(t, o, v)
BY Nested2Lawful
   DEF Use, Once, DeltaOf, ApplyTo, IsType, IsValue, Disagreements,
       Nested2!Lawful, Nested2!Honest, Nested2!Use

LEMMA TwiceSettles ==
  ASSUME NoneIsNoFunction, NEW t, NEW o, NEW n, NEW v, Use(t, o, n, v), DeltaOf(t, o, n) # None
  PROVE  /\ Twice(t, o, n, v).err = Once(t, o, n, v).err
         /\ HasOrdered(t) \/ Twice(t, o, n, v).value = Once(t, o, n, v).value
BY Nested2Lawful
   DEF Use, Once, Twice, DeltaOf, ApplyTo, IsType, IsValue, HasOrdered,
       Nested2!Lawful, Nested2!Settles, Nested2!Use

LEMMA OnceKeeps ==
  ASSUME NoneIsNoFunction, NEW t, NEW o, NEW n, NEW v, Use(t, o, n, v), DeltaOf(t, o, n) # None
  PROVE  Kept(t, o, n, v, Once(t, o, n, v).value)
BY Nested2Lawful
   DEF Use, Once, DeltaOf, ApplyTo, IsType, IsValue, Kept,
       Nested2!Lawful, Nested2!Keeps, Nested2!Use

LEMMA TwiceKeeps ==
  ASSUME NoneIsNoFunction, NEW t, NEW o, NEW n, NEW v, Use(t, o, n, v), DeltaOf(t, o, n) # None
  PROVE  Kept(t, o, n, v, Twice(t, o, n, v).value)
<1> DEFINE w == Once(t, o, n, v).value
           x == Twice(t, o, n, v).value
<1>1. IsValue(t, w)
  BY OnceIsValue
<1>2. Use(t, o, n, w)
  BY <1>1 DEF Use
<1>3. x = Once(t, o, n, w).value
  BY DEF Once, Twice
<1>4. IsValue(t, x)
  BY <1>2, <1>3, OnceIsValue
<1>5. Kept(t, o, n, v, w) /\ Kept(t, o, n, w, x)
  BY <1>2, <1>3, OnceKeeps
<1> HIDE DEF w, x
<1>6. Kept(t, o, n, v, x)
  BY <1>1, <1>4, <1>5, Nested2Lawful
     DEF Use, IsType, IsValue, Kept, Nested2!Lawful, Nested2!Keeps, Nested2!Use
<1> QED
  BY <1>6 DEF x

-----------------------------------------------------------------------------
(* The exchange *)

\* What a state has been through: self and err are what calls applications of
\* the one delta have made of start.
IInv ==
  /\ name \in DOMAIN Types
  /\ old \in ValuesOf[name] /\ new \in ValuesOf[name] /\ start \in ValuesOf[name]
  /\ calls \in -1 .. 2
  /\ calls = -1 => delta = None
  /\ calls >= 0 => delta = DeltaOf(ty, old, new)
  /\ calls > 0 => delta # None
  /\ calls <= 0 => err = None /\ self = start
  /\ calls = 1 => /\ err = Once(ty, old, new, start).err
                  /\ self = Once(ty, old, new, start).value
  /\ calls = 2 => /\ err = Twice(ty, old, new, start).err
                  /\ self = Twice(ty, old, new, start).value

LEMMA InitIInv == Init => IInv
BY DEF Init, IInv

LEMMA NextIInv == IInv /\ [Next]_vars => IInv'
<1> SUFFICES ASSUME IInv, [Next]_vars
             PROVE  IInv'
  OBVIOUS
<1>1. CASE Compute
  BY <1>1 DEF Compute, IInv, ty
<1>2. CASE ApplyDelta
  <2>1. /\ delta = DeltaOf(ty, old, new) /\ delta # None /\ calls \in {0, 1}
        /\ err' = ApplyTo(ty, self, delta).err /\ self' = ApplyTo(ty, self, delta).value
        /\ calls' = calls + 1
        /\ ty' = ty /\ UNCHANGED <<name, old, new, start, delta>>
    BY <1>2 DEF ApplyDelta, IInv, ty
  <2>2. CASE calls = 0
    <3>1. self = start
      BY <2>2 DEF IInv
    <3>2. err' = Once(ty, old, new, start).err /\ self' = Once(ty, old, new, start).value
      BY <2>1, <3>1 DEF Once
    <3> QED
      BY <2>1, <2>2, <3>2 DEF IInv
  <2>3. CASE calls = 1
    <3>1. self = Once(ty, old, new, start).value
      BY <2>3 DEF IInv
    <3>2. err' = Twice(ty, old, new, start).err /\ self' = Twice(ty, old, new, start).value
      BY <2>1, <3>1 DEF Twice
    <3> QED
      BY <2>1, <2>3, <3>2 DEF IInv
  <2> QED
    BY <2>1, <2>2, <2>3
<1>3. CASE UNCHANGED vars
  BY <1>3 DEF vars, IInv, ty
<1> QED
  BY <1>1, <1>2, <1>3 DEF Next

\* The values in use are values of the type in use.
LEMMA InUse ==
  ASSUME IInv
  PROVE  Use(ty, old, new, start)
BY TypesAssumption DEF IInv, Use, ty

\* Whatever holds wherever IInv does, holds throughout.
LEMMA Inductive == Spec => []IInv
<1> QED
  BY InitIInv, NextIInv, PTL DEF Spec

\* Applied to a value equal to old, delta makes one equal to new (lib.rs:629-630).
THEOREM AppliedToOldMakesNew == NoneIsNoFunction => (Spec => []RoundTrip)
<1> SUFFICES ASSUME NoneIsNoFunction
             PROVE  Spec => []RoundTrip
  OBVIOUS
<1>1. IInv => RoundTrip
  <2> SUFFICES ASSUME IInv, calls = 1, AsGoodAs(ty, start, old)
               PROVE  err = None /\ AsGoodAs(ty, self, new)
    BY DEF RoundTrip
  <2>1. /\ DeltaOf(ty, old, new) # None
        /\ err = Once(ty, old, new, start).err /\ self = Once(ty, old, new, start).value
    BY DEF IInv
  <2> QED
    BY <2>1, InUse, OnceMakesNew
<1> QED
  BY <1>1, Inductive, PTL

\* delta is None exactly for equal values (lib.rs:622-623).
THEOREM NoneExactlyForEqual == NoneIsNoFunction => (Spec => []NoneMeansEqual)
<1> SUFFICES ASSUME NoneIsNoFunction
             PROVE  Spec => []NoneMeansEqual
  OBVIOUS
<1>1. IInv => NoneMeansEqual
  <2> SUFFICES ASSUME IInv, calls >= 0
               PROVE  delta = None <=> Eq(ty, old, new)
    BY DEF NoneMeansEqual
  <2>1. delta = DeltaOf(ty, old, new) /\ Use(ty, old, new, old)
    BY InUse DEF IInv, Use
  <2> QED
    BY <2>1, NoneDecides
<1> QED
  BY <1>1, Inductive, PTL

\* A Mismatch is about a place where target and old disagree (variant.rs:51-52).
THEOREM MismatchesAreReal == NoneIsNoFunction => (Spec => []MismatchIsReal)
<1> SUFFICES ASSUME NoneIsNoFunction
             PROVE  Spec => []MismatchIsReal
  OBVIOUS
<1>1. IInv => MismatchIsReal
  <2> SUFFICES ASSUME IInv, err # None
               PROVE  err \in Disagreements(ty, old, start)
    BY DEF MismatchIsReal
  <2>1. calls \in {1, 2} /\ DeltaOf(ty, old, new) # None
    BY DEF IInv
  <2>2. Use(ty, old, new, start)
    BY InUse
  <2>3. err = Once(ty, old, new, start).err
    <3>1. CASE calls = 1
      BY <3>1 DEF IInv
    <3>2. CASE calls = 2
      BY <2>1, <2>2, <3>2, TwiceSettles DEF IInv
    <3> QED
      BY <2>1, <3>1, <3>2
  <2> QED
    BY <2>1, <2>2, <2>3, OnceIsHonest
<1> QED
  BY <1>1, Inductive, PTL

\* Nothing old and new agree on is touched, on any target (lib.rs:4-8).
THEOREM OnlyDifferencesAreTouched == NoneIsNoFunction => (Spec => []TouchesOnlyDifferences)
<1> SUFFICES ASSUME NoneIsNoFunction
             PROVE  Spec => []TouchesOnlyDifferences
  OBVIOUS
<1>1. IInv => TouchesOnlyDifferences
  <2> SUFFICES ASSUME IInv, calls > 0
               PROVE  Kept(ty, old, new, start, self)
    BY DEF TouchesOnlyDifferences
  <2>1. calls \in {1, 2} /\ DeltaOf(ty, old, new) # None
    BY DEF IInv
  <2>2. Use(ty, old, new, start)
    BY InUse
  <2>3. CASE calls = 1
    BY <2>1, <2>2, <2>3, OnceKeeps DEF IInv
  <2>4. CASE calls = 2
    BY <2>1, <2>2, <2>4, TwiceKeeps DEF IInv
  <2> QED
    BY <2>1, <2>3, <2>4
<1> QED
  BY <1>1, Inductive, PTL

\* A second application changes nothing, for types without a sequence in them.
THEOREM TwiceIsHarmless == NoneIsNoFunction => (Spec => TwiceHarmless)
<1> SUFFICES ASSUME NoneIsNoFunction
             PROVE  Spec => TwiceHarmless
  OBVIOUS
<1>1. IInv /\ [Next]_vars => [calls = 1 /\ ~ HasOrdered(ty) => self' = self /\ err' = err]_vars
  <2> SUFFICES ASSUME IInv, ApplyDelta, calls = 1, ~ HasOrdered(ty)
               PROVE  self' = self /\ err' = err
    BY DEF Next, Compute
  <2>1. /\ delta = DeltaOf(ty, old, new) /\ delta # None
        /\ self = Once(ty, old, new, start).value /\ err = Once(ty, old, new, start).err
    BY DEF ApplyDelta, IInv
  <2>2. /\ err' = Twice(ty, old, new, start).err
        /\ self' = Twice(ty, old, new, start).value
    BY <2>1 DEF ApplyDelta, Twice
  <2> QED
    BY <2>1, <2>2, InUse, TwiceSettles
<1> QED
  BY <1>1, Inductive, PTL DEF Spec, TwiceHarmless

-----------------------------------------------------------------------------
(* Fingerprints, layer by layer *)

LEMMA FlatTells == S!Flat!Tells
<1>1. S!Flat!StreamHasher
  BY DEF S!Flat!StreamHasher, T!New, T!Write, T!WriteU64, T!Combine
<1>2. S!Flat!InnerTells
  BY DEF S!Flat!InnerTells, S!NoShape
<1> QED
  BY <1>1, <1>2, S!Flat!TellingCarriesOver

LEMMA Nested1Tells == S!Nested1!Tells
<1>1. S!Nested1!StreamHasher
  BY DEF S!Nested1!StreamHasher, T!New, T!Write, T!WriteU64, T!Combine
<1>2. S!Nested1!InnerTells
  BY FlatTells
     DEF S!Nested1!InnerTells, S!Nested1!Apart, S!Nested1!Continues, S!Nested1!IsStream,
         S!Flat!Tells, S!Flat!Apart, S!Flat!Continues, S!Flat!IsStream,
         S!FlatPrint, S!FlatShape
<1> QED
  BY <1>1, <1>2, S!Nested1!TellingCarriesOver

LEMMA Nested2Tells == S!Nested2!Tells
<1>1. S!Nested2!StreamHasher
  BY DEF S!Nested2!StreamHasher, T!New, T!Write, T!WriteU64, T!Combine
<1>2. S!Nested2!InnerTells
  BY Nested1Tells
     DEF S!Nested2!InnerTells, S!Nested2!Apart, S!Nested2!Continues, S!Nested2!IsStream,
         S!Nested1!Tells, S!Nested1!Apart, S!Nested1!Continues, S!Nested1!IsStream,
         S!Nested1Print, S!Nested1Shape
<1> QED
  BY <1>1, <1>2, S!Nested2!TellingCarriesOver

LEMMA Nested3Tells == S!Nested3!Tells
<1>1. S!Nested3!StreamHasher
  BY DEF S!Nested3!StreamHasher, T!New, T!Write, T!WriteU64, T!Combine
<1>2. S!Nested3!InnerTells
  BY Nested2Tells
     DEF S!Nested3!InnerTells, S!Nested3!Apart, S!Nested3!Continues, S!Nested3!IsStream,
         S!Nested2!Tells, S!Nested2!Apart, S!Nested2!Continues, S!Nested2!IsStream,
         S!Nested2Print, S!Nested2Shape
<1> QED
  BY <1>1, <1>2, S!Nested3!TellingCarriesOver

\* Two values of a type have one fingerprint exactly when they are the same to
\* the bit, as long as the hash keeps apart what is written (fingerprint.rs:160-163).
THEOREM FingerprintsTell == Spec => []FingerprintTellsApart
<1>1. ASSUME NEW t, NEW v, NEW w, S!HasShape(t, v), S!HasShape(t, w),
             S!FingerprintOf(t, v) = S!FingerprintOf(t, w)
      PROVE  v = w
  <2> DEFINE s == S!Nested3!FingerprintInto(t, v, <<>>)
             u == S!Nested3!FingerprintInto(t, w, <<>>)
  <2>1. S!Nested3!IsStream(<<>>)
    BY S!Nested3!EmptyStream
  <2>2. S!Nested3!Apart(<<>>, s, u, v, w)
    BY <1>1, <2>1, Nested3Tells DEF S!Nested3!Tells, S!HasShape
  <2>3. s = u
    BY <1>1 DEF S!FingerprintOf, T!New
  <2> QED
    BY <2>1, <2>2, <2>3 DEF S!Nested3!Apart
<1>2. IInv => FingerprintTellsApart
  <2> SUFFICES ASSUME IInv
               PROVE  PrintTable[name][old] = PrintTable[name][new] => old = new
    BY DEF FingerprintTellsApart
  <2>1. /\ name \in DOMAIN Types /\ old \in ValuesOf[name] /\ new \in ValuesOf[name]
        /\ S!HasShape(Types[name], old) /\ S!HasShape(Types[name], new)
    BY ShapesAssumption DEF IInv
  <2>2. /\ PrintTable[name][old] = S!FingerprintOf(Types[name], old)
        /\ PrintTable[name][new] = S!FingerprintOf(Types[name], new)
    BY <2>1 DEF PrintTable
  <2> QED
    BY <1>1, <2>1, <2>2
<1> QED
  BY <1>2, Inductive, PTL

-----------------------------------------------------------------------------
(* The hashes of a collection, in any order *)

\* The recursion of Folded, and what it says of any of its beginnings: f[i] is
\* what the first i elements of a listing fold into.
Folding(f, hashes, list, n) ==
  f = [i \in 0 .. n |-> IF i = 0 THEN 0 ELSE Xor(f[i - 1], hashes[list[i]])]

Folds(f, hashes, list, n) ==
  f[0] = 0 /\ \A i \in 1 .. n : f[i] = Xor(f[i - 1], hashes[list[i]])

LEMMA FoldExists ==
  ASSUME NEW hashes, NEW list, NEW n \in Nat
  PROVE  \E f : Folding(f, hashes, list, n)
<1> DEFINE Row(f, k) == f = [i \in 0 .. k |->
                               IF i = 0 THEN 0 ELSE Xor(f[i - 1], hashes[list[i]])]
           Reached == {k \in Nat : \E f : Row(f, k)}
<1>1. 0 \in Reached
  <2>1. Row([i \in 0 .. 0 |-> 0], 0)
    OBVIOUS
  <2> QED
    BY <2>1
<1>2. ASSUME NEW k \in Nat, k \in Reached
      PROVE  k + 1 \in Reached
  <2>1. PICK f : Row(f, k)
    BY <1>2
  <2> DEFINE g == [i \in 0 .. k + 1 |->
                     IF i <= k THEN f[i] ELSE Xor(f[i - 1], hashes[list[i]])]
  <2>2. \A i \in 0 .. k : f[i] = IF i = 0 THEN 0 ELSE Xor(f[i - 1], hashes[list[i]])
    BY <2>1
  <2>3. \A i \in 0 .. k + 1 : g[i] = IF i = 0 THEN 0 ELSE Xor(g[i - 1], hashes[list[i]])
    BY <2>2
  <2>4. g = [i \in 0 .. k + 1 |-> g[i]]
    OBVIOUS
  <2> HIDE DEF g
  <2>5. Row(g, k + 1)
    BY <2>3, <2>4
  <2> HIDE DEF Row
  <2> QED
    BY <2>5
<1> HIDE DEF Reached
<1>3. n \in Reached
  BY <1>1, <1>2, Flat!Induction
<1> QED
  BY <1>3 DEF Reached, Folding

LEMMA FoldedIs ==
  ASSUME NEW hashes, NEW list, Len(list) \in Nat
  PROVE  \E f : Folds(f, hashes, list, Len(list)) /\ H!Folded(hashes, list) = f[Len(list)]
<1> DEFINE after == CHOOSE f : Folding(f, hashes, list, Len(list))
<1>1. Folding(after, hashes, list, Len(list))
  BY FoldExists
<1>2. H!Folded(hashes, list) = after[Len(list)]
  BY DEF H!Folded, Folding
<1> HIDE DEF after
<1>3. Folds(after, hashes, list, Len(list))
  BY <1>1 DEF Folding, Folds
<1> QED
  BY <1>2, <1>3

LEMMA FoldIsWord ==
  ASSUME NEW n \in Nat, NEW f, NEW hashes, NEW list, Folds(f, hashes, list, n),
         \A i \in 1 .. n : hashes[list[i]] \in Words
  PROVE  \A i \in 0 .. n : f[i] \in Words
<1> DEFINE Reached == {k \in Nat : k <= n => f[k] \in Words}
<1>1. 0 \in Reached
  BY WordsAssumption DEF Folds, Words
<1>2. ASSUME NEW k \in Nat, k \in Reached
      PROVE  k + 1 \in Reached
  <2> SUFFICES ASSUME k + 1 <= n PROVE f[k + 1] \in Words
    OBVIOUS
  <2>1. k + 1 \in 1 .. n /\ (k + 1) - 1 = k /\ f[k] \in Words
    BY <1>2
  <2>2. f[k + 1] = Xor(f[k], hashes[list[k + 1]])
    BY <2>1 DEF Folds
  <2> QED
    BY <2>1, <2>2, WordsAssumption DEF Words
<1> HIDE DEF Reached
<1>3. \A k \in Nat : k \in Reached
  BY <1>1, <1>2, Flat!Induction
<1> QED
  BY <1>3 DEF Reached

\* Two words are added in either order.
LEMMA XorSwaps ==
  ASSUME NEW s \in Words, NEW p \in Words, NEW q \in Words
  PROVE  Xor(Xor(s, p), q) = Xor(Xor(s, q), p)
<1>1. Xor(p, q) = Xor(q, p)
  BY WordsAssumption DEF Words
<1>2. Xor(Xor(s, p), q) = Xor(s, Xor(p, q)) /\ Xor(Xor(s, q), p) = Xor(s, Xor(q, p))
  BY WordsAssumption DEF Words
<1> QED
  BY <1>1, <1>2

\* A listing with q in the place of p folds into what takes p to become what the
\* other becomes with q.
LEMMA Replaced ==
  ASSUME NEW n \in Nat, NEW hashes, NEW a, NEW c, NEW f, NEW d,
         Folds(f, hashes, a, n), Folds(d, hashes, c, n),
         \A i \in 1 .. n : hashes[a[i]] \in Words /\ hashes[c[i]] \in Words,
         NEW j \in 1 .. n, \A i \in 1 .. n : i # j => c[i] = a[i]
  PROVE  Xor(d[n], hashes[a[j]]) = Xor(f[n], hashes[c[j]])
<1> DEFINE p == hashes[a[j]]
           q == hashes[c[j]]
           Reached == {k \in Nat : k <= n => /\ k < j => d[k] = f[k]
                                             /\ k >= j => Xor(d[k], p) = Xor(f[k], q)}
<1>1. p \in Words /\ q \in Words /\ \A i \in 0 .. n : f[i] \in Words /\ d[i] \in Words
  BY FoldIsWord
<1> HIDE DEF p, q
<1>2. 0 \in Reached
  BY DEF Folds
<1>3. ASSUME NEW k \in Nat, k \in Reached
      PROVE  k + 1 \in Reached
  <2> SUFFICES ASSUME k + 1 <= n
               PROVE  /\ k + 1 < j => d[k + 1] = f[k + 1]
                      /\ k + 1 >= j => Xor(d[k + 1], p) = Xor(f[k + 1], q)
    OBVIOUS
  <2>1. /\ k + 1 \in 1 .. n /\ (k + 1) - 1 = k /\ f[k] \in Words /\ d[k] \in Words
        /\ k < j => d[k] = f[k]
        /\ k >= j => Xor(d[k], p) = Xor(f[k], q)
    BY <1>1, <1>3
  <2>2. /\ f[k + 1] = Xor(f[k], hashes[a[k + 1]])
        /\ d[k + 1] = Xor(d[k], hashes[c[k + 1]])
    BY <2>1 DEF Folds
  <2>3. CASE k + 1 < j
    BY <2>1, <2>2, <2>3
  <2>4. CASE k + 1 = j
    <3>1. d[k] = f[k] /\ f[k + 1] = Xor(f[k], p) /\ d[k + 1] = Xor(f[k], q)
      BY <2>1, <2>2, <2>4 DEF p, q
    <3> QED
      BY <1>1, <2>1, <2>4, <3>1, XorSwaps
  <2>5. CASE k + 1 > j
    <3> DEFINE r == hashes[a[k + 1]]
    <3>1. r \in Words /\ hashes[c[k + 1]] = r
      BY <2>1, <2>5
    <3> HIDE DEF r
    <3>2. Xor(d[k + 1], p) = Xor(Xor(d[k], p), r)
      BY <1>1, <2>1, <2>2, <3>1, XorSwaps DEF r
    <3>3. Xor(f[k + 1], q) = Xor(Xor(f[k], q), r)
      BY <1>1, <2>1, <2>2, <3>1, XorSwaps DEF r
    <3> QED
      BY <2>1, <2>5, <3>2, <3>3
  <2> QED
    BY <2>1, <2>3, <2>4, <2>5
<1> HIDE DEF Reached
<1>4. n \in Reached
  BY <1>2, <1>3, Flat!Induction
<1> QED
  BY <1>4 DEF Reached, p, q

\* A listing names nothing twice, and its elements' hashes are words.
Lists(list, hashes, n) ==
  /\ \A i, j \in 1 .. n : list[i] = list[j] => i = j
  /\ \A i \in 1 .. n : hashes[list[i]] \in Words

Listed(list, n) == {list[i] : i \in 1 .. n}

\* Two listings of the same elements fold into the same: if their last elements
\* differ, the first is as good with the two exchanged.
LEMMA OrderIsLost ==
  ASSUME NEW hashes
  PROVE  \A n \in Nat : \A a, b, f, e :
           /\ Lists(a, hashes, n) /\ Lists(b, hashes, n) /\ Listed(a, n) = Listed(b, n)
           /\ Folds(f, hashes, a, n) /\ Folds(e, hashes, b, n)
           => f[n] = e[n]
<1> DEFINE Reached == {n \in Nat : \A a, b, f, e :
                         /\ Lists(a, hashes, n) /\ Lists(b, hashes, n) /\ Listed(a, n) = Listed(b, n)
                         /\ Folds(f, hashes, a, n) /\ Folds(e, hashes, b, n)
                         => f[n] = e[n]}
<1>1. 0 \in Reached
  BY DEF Folds
<1>2. ASSUME NEW n \in Nat, n \in Reached
      PROVE  n + 1 \in Reached
  <2> SUFFICES ASSUME NEW a, NEW b, NEW f, NEW e,
                      Lists(a, hashes, n + 1), Lists(b, hashes, n + 1),
                      Listed(a, n + 1) = Listed(b, n + 1),
                      Folds(f, hashes, a, n + 1), Folds(e, hashes, b, n + 1)
               PROVE  f[n + 1] = e[n + 1]
    OBVIOUS
  <2> DEFINE x == a[n + 1]
             y == b[n + 1]
  <2>1. /\ Folds(f, hashes, a, n) /\ Folds(e, hashes, b, n)
        /\ Lists(a, hashes, n) /\ Lists(b, hashes, n)
        /\ f[n + 1] = Xor(f[n], hashes[x]) /\ e[n + 1] = Xor(e[n], hashes[y])
        /\ hashes[x] \in Words
    BY DEF Folds, Lists
  <2>2. ASSUME NEW l, Lists(l, hashes, n + 1)
        PROVE  Listed(l, n) = Listed(l, n + 1) \ {l[n + 1]} /\ l[n + 1] \in Listed(l, n + 1)
    BY <2>2 DEF Lists, Listed
  <2>3. /\ Listed(a, n) = Listed(a, n + 1) \ {x} /\ x \in Listed(a, n + 1)
        /\ Listed(b, n) = Listed(b, n + 1) \ {y} /\ y \in Listed(b, n + 1)
    BY <2>2
  <2> HIDE DEF x, y
  <2>4. CASE x = y
    <3>1. Listed(a, n) = Listed(b, n)
      BY <2>3, <2>4
    <3>2. f[n] = e[n]
      BY <1>2, <2>1, <3>1
    <3> QED
      BY <2>1, <2>4, <3>2
  <2>5. CASE x # y
    <3>1. PICK j \in 1 .. n : a[j] = y
      <4>1. y \in Listed(a, n)
        BY <2>3, <2>5
      <4> QED
        BY <4>1 DEF Listed
    <3> DEFINE c == [i \in 1 .. n |-> IF i = j THEN x ELSE a[i]]
    <3>2. c[j] = x /\ \A i \in 1 .. n : i # j => c[i] = a[i]
      OBVIOUS
    <3> HIDE DEF c
    <3>3. x \notin Listed(a, n)
      BY <2>3
    <3>4. Lists(c, hashes, n)
      BY <2>1, <3>2, <3>3 DEF Lists, Listed
    <3>5. Listed(c, n) = (Listed(a, n) \ {y}) \cup {x}
      <4>1. ASSUME NEW i \in 1 .. n PROVE c[i] \in (Listed(a, n) \ {y}) \cup {x}
        BY <2>1, <3>1, <3>2 DEF Lists, Listed
      <4>2. ASSUME NEW z \in Listed(a, n) \ {y} PROVE z \in Listed(c, n)
        <5>1. PICK i \in 1 .. n : a[i] = z
          BY DEF Listed
        <5> QED
          BY <3>1, <3>2, <5>1 DEF Listed
      <4>3. x \in Listed(c, n)
        BY <3>2 DEF Listed
      <4> QED
        BY <4>1, <4>2, <4>3 DEF Listed
    <3>6. Listed(c, n) = Listed(b, n)
      BY <2>3, <3>5, <2>5
    <3>7. PICK d : Folding(d, hashes, c, n)
      BY FoldExists
    <3>8. Folds(d, hashes, c, n)
      BY <3>7 DEF Folding, Folds
    <3>9. d[n] = e[n]
      BY <1>2, <2>1, <3>4, <3>6, <3>8
    <3>10. \A i \in 1 .. n : hashes[a[i]] \in Words /\ hashes[c[i]] \in Words
      BY <2>1, <3>4 DEF Lists
    <3>11. Xor(d[n], hashes[a[j]]) = Xor(f[n], hashes[c[j]])
      BY <2>1, <3>2, <3>8, <3>10, Replaced
    <3> QED
      BY <2>1, <3>1, <3>2, <3>9, <3>11
  <2> QED
    BY <2>4, <2>5
<1> HIDE DEF Reached
<1>3. \A n \in Nat : n \in Reached
  BY <1>1, <1>2, Flat!Induction
<1> QED
  BY <1>3 DEF Reached

\* The hash of one number is a word.
LEMMA WriteIsWord ==
  ASSUME NEW x \in Nat
  PROVE  H!Write(H!New, x) \in Words
<1> DEFINE byte == x % H!Byte
           bytes == <<byte>>
           word == (Xor(OffsetBasis, byte) * Prime) % H!U64
           Row(f) == f = [i \in 0 .. Len(bytes) |->
                            IF i = 0 THEN OffsetBasis
                            ELSE (Xor(f[i - 1], bytes[i]) * Prime) % H!U64]
           after == CHOOSE f : Row(f)
<1>1. byte \in Words
  BY WordsAssumption DEF Words
<1> HIDE DEF byte
<1>2. Xor(OffsetBasis, byte) \in Nat /\ Prime \in Nat /\ H!U64 \in Nat \ {0}
  <2>1. Xor(OffsetBasis, byte) \in Words /\ Prime \in Words
    BY <1>1, WordsAssumption
  <2>2. H!U64 \in Nat /\ H!Byte \in 1 .. H!U64
    BY WordsAssumption
  <2> QED
    BY <2>1, <2>2 DEF Words
<1>3. word \in Words
  <2>1. \A s, p \in Nat, m \in Nat \ {0} : (s * p) % m \in 0 .. m - 1
    OBVIOUS
  <2> QED
    BY <1>2, <2>1 DEF Words
<1>4. Row([i \in 0 .. 1 |-> IF i = 0 THEN OffsetBasis ELSE word])
  OBVIOUS
<1>5. Row(after)
  BY <1>4
<1>6. H!Write(H!New, x) = after[1]
  BY DEF H!Write, H!WriteBytes, H!New, byte
<1> HIDE DEF after, word
<1>7. after[1] = word
  BY <1>5 DEF word
<1> QED
  BY <1>3, <1>6, <1>7

\* A sequence of SetToSeqs lists a finite set.
LEMMA EveryElementListed ==
  ASSUME NEW E, IsFiniteSet(E), NEW hashes, \A x \in E : hashes[x] \in Words,
         NEW list \in SetToSeqs(E)
  PROVE  /\ Cardinality(E) \in Nat /\ Len(list) = Cardinality(E)
         /\ Lists(list, hashes, Cardinality(E)) /\ Listed(list, Cardinality(E)) = E
<1> DEFINE n == Cardinality(E)
<1>1. n \in Nat
  BY FS_CardinalityType
<1> HIDE DEF n
<1>2. list \in [1 .. n -> E] /\ \A i, j \in 1 .. n : i # j => list[i] # list[j]
  BY DEF SetToSeqs, n
<1>3. Len(list) = n
  BY <1>1, <1>2
<1>4. Lists(list, hashes, n)
  BY <1>2 DEF Lists
<1>5. list \in Injection(1 .. n, E)
  BY <1>2 DEF Injection, IsInjective
<1>6. IsFiniteSet(1 .. n) /\ Cardinality(1 .. n) = n
  BY <1>1, FS_Interval
<1>7. list \in Surjection(1 .. n, E)
  BY <1>5, <1>6, FS_Injection DEF n
<1>8. Listed(list, n) = E
  BY <1>2, <1>7 DEF Surjection, Listed
<1> QED
  BY <1>1, <1>3, <1>4, <1>8 DEF n

\* However a set is walked, its fingerprint is the same (fingerprint.rs:14-16),
\* at any width, for any set of numbers and any two orders.
THEOREM OrderIsUnseen == Spec => []OrderUnseen
<1>1. ASSUME NEW E, IsFiniteSet(E), E \subseteq Nat,
             NEW one \in SetToSeqs(E), NEW other \in SetToSeqs(E)
      PROVE  LET hashes == [x \in E |-> H!Write(H!New, x)]
             IN H!Folded(hashes, one) = H!Folded(hashes, other)
  <2> DEFINE hashes == [x \in E |-> H!Write(H!New, x)]
             n == Cardinality(E)
  <2>1. \A x \in E : hashes[x] \in Words
    BY <1>1, WriteIsWord
  <2> HIDE DEF hashes
  <2>2. /\ n \in Nat
        /\ Len(one) = n /\ Lists(one, hashes, n) /\ Listed(one, n) = E
        /\ Len(other) = n /\ Lists(other, hashes, n) /\ Listed(other, n) = E
    BY <1>1, <2>1, EveryElementListed
  <2>3. PICK f : Folds(f, hashes, one, n) /\ H!Folded(hashes, one) = f[n]
    BY <2>2, FoldedIs
  <2>4. PICK e : Folds(e, hashes, other, n) /\ H!Folded(hashes, other) = e[n]
    BY <2>2, FoldedIs
  <2>5. f[n] = e[n]
    BY <2>2, <2>3, <2>4, OrderIsLost
  <2> QED
    BY <2>3, <2>4, <2>5 DEF hashes
<1>2. IInv => OrderUnseen
  <2> SUFFICES ASSUME IInv, ty.kind = "struct", NEW i \in DOMAIN ty.fields,
                      ty.fields[i].kind = "bag", ty.fields[i].items \subseteq Nat
               PROVE  LET hashes == [x \in old[i] |-> H!Write(H!New, x)]
                      IN \A one, other \in SetToSeqs(old[i]) :
                           H!Folded(hashes, one) = H!Folded(hashes, other)
    BY DEF OrderUnseen
  <2>1. S!HasShape(ty, old)
    BY ShapesAssumption DEF IInv, ty
  <2>2. S!Nested3!FieldShape(ty.fields[i], old[i])
    BY <2>1 DEF S!HasShape, S!Nested3!HasShape, S!Nested3!FieldsShape
  <2>3. IsFiniteSet(old[i])
    <3> DEFINE field == ty.fields[i]
    <3>1. field.kind = "bag" /\ S!Nested3!FieldShape(field, old[i])
      BY <2>2
    <3> HIDE DEF field
    <3> QED
      BY <3>1 DEF S!Nested3!FieldShape, S!Nested3!IsFiniteSet, IsFiniteSet
  <2>4. IsValue(ty, old)
    BY TypesAssumption DEF IInv, ty
  <2>5. old[i] \subseteq Nat
    BY <2>4 DEF IsValue, Nested2!IsValue, Nested2!AreFieldValues, Nested2!IsFieldValue
  <2> QED
    BY <1>1, <2>3, <2>5
<1> QED
  BY <1>2, Inductive, PTL
=============================================================================
