------------------------- MODULE FingerprintProofs -------------------------
(***************************************************************************)
(* The generated fingerprints carry what a fingerprint promises from the   *)
(* types of fields and items to the type itself, as DeriveProofs does for  *)
(* the contract of Delta: InnerTells is said of the types that may be      *)
(* nested, Tells of the type, and an instance has the one follow from the  *)
(* other.                                                                  *)
(*                                                                         *)
(* The promise is that of a prefix code.  What a value writes can be told  *)
(* from what another value of its type writes whatever was written before  *)
(* and is written after, so nothing it writes runs into its neighbours.    *)
(***************************************************************************)
EXTENDS Fingerprint, CollectionsProofs

\* The hasher keeps what is written, and of an unordered collection the set
\* of its elements' hashes.
StreamHasher ==
  /\ New = <<>>
  /\ \A s, value : Write(s, value) = Append(s, value)
  /\ \A s, value : WriteU64(s, value) = Append(s, value)
  /\ \A hashes : Combine(hashes) = {hashes[x] : x \in DOMAIN hashes}

IsStream(s) == \E S : s \in Seq(S)

\* More has been written to s since it was h.
Continues(h, s) == \E x : IsStream(x) /\ s = h \o x

\* After h, v has written s and w has written t; whatever comes behind, the two
\* are only alike where v and w are the same.
Apart(h, s, t, v, w) ==
  /\ Continues(h, s) /\ Continues(h, t)
  /\ \A x, y : IsStream(x) /\ IsStream(y) /\ s \o x = t \o y => v = w /\ s = t

InnerTells ==
  \A of, v, w, h : InnerShape(of, v) /\ InnerShape(of, w) /\ IsStream(h) =>
    Apart(h, InnerPrint(of, v, h), InnerPrint(of, w, h), v, w)

Tells ==
  \A ty, v, w, h : HasShape(ty, v) /\ HasShape(ty, w) /\ IsStream(h) =>
    Apart(h, FingerprintInto(ty, v, h), FingerprintInto(ty, w, h), v, w)

-----------------------------------------------------------------------------
(* Streams *)

LEMMA EmptyStream == IsStream(<<>>)
BY EmptySeq DEF IsStream

LEMMA AppendStream ==
  ASSUME NEW s, NEW value, IsStream(s)
  PROVE  /\ IsStream(Append(s, value)) /\ IsStream(<<value>>)
         /\ Append(s, value) = s \o <<value>>
         /\ Len(s) \in Nat /\ Len(Append(s, value)) = Len(s) + 1
         /\ Append(s, value)[Len(s) + 1] = value
<1>1. PICK S : s \in Seq(S)
  BY DEF IsStream
<1> DEFINE T == S \cup {value}
<1>2. s \in Seq(T) /\ value \in T
  BY <1>1, SeqMonotonic
<1> HIDE DEF T
<1>3. Append(s, value) \in Seq(T) /\ <<value>> \in Seq(T)
  BY <1>2
<1>4. /\ Len(s) \in Nat /\ Len(Append(s, value)) = Len(s) + 1
      /\ Append(s, value)[Len(s) + 1] = value
  BY <1>2
<1>5. Append(s, value) = s \o <<value>>
  BY <1>2, AppendIsConcat
<1> QED
  BY <1>3, <1>4, <1>5 DEF IsStream

LEMMA ConcatStream ==
  ASSUME NEW s, NEW t, IsStream(s), IsStream(t)
  PROVE  /\ IsStream(s \o t) /\ s \o <<>> = s
         /\ \A i \in 1 .. Len(s) : (s \o t)[i] = s[i]
<1>1. PICK S, T : s \in Seq(S) /\ t \in Seq(T)
  BY DEF IsStream
<1> DEFINE U == S \cup T
<1>2. s \in Seq(U) /\ t \in Seq(U)
  BY <1>1, SeqMonotonic
<1> HIDE DEF U
<1>3. s \o t \in Seq(U) /\ s \o <<>> = s
  BY <1>2, ConcatProperties, ConcatEmptySeq
<1>4. \A i \in 1 .. Len(s) : (s \o t)[i] = s[i]
  BY <1>2, ConcatProperties, LenProperties
<1> QED
  BY <1>3, <1>4 DEF IsStream

LEMMA StreamsAssociate ==
  ASSUME NEW s, NEW t, NEW u, IsStream(s), IsStream(t), IsStream(u)
  PROVE  (s \o t) \o u = s \o (t \o u)
<1>1. PICK S, T, U : s \in Seq(S) /\ t \in Seq(T) /\ u \in Seq(U)
  BY DEF IsStream
<1> DEFINE V == S \cup T \cup U
<1>2. s \in Seq(V) /\ t \in Seq(V) /\ u \in Seq(V)
  BY <1>1, SeqMonotonic
<1> HIDE DEF V
<1> QED
  BY <1>2, ConcatAssociative

LEMMA ContinuesFacts ==
  ASSUME NEW h, IsStream(h)
  PROVE  /\ Continues(h, h)
         /\ \A value : Continues(h, Append(h, value))
         /\ \A s : Continues(h, s) => IsStream(s)
         /\ \A s, t : Continues(h, s) /\ Continues(s, t) => Continues(h, t)
<1>1. \A s : Continues(h, s) => IsStream(s)
  BY ConcatStream DEF Continues
<1>2. ASSUME NEW s, NEW t, Continues(h, s), Continues(s, t)
      PROVE  Continues(h, t)
  <2>1. PICK x : IsStream(x) /\ s = h \o x
    BY <1>2 DEF Continues
  <2>2. PICK y : IsStream(y) /\ t = s \o y
    BY <1>2 DEF Continues
  <2>3. t = h \o (x \o y) /\ IsStream(x \o y)
    BY <2>1, <2>2, ConcatStream, StreamsAssociate
  <2> QED
    BY <2>3 DEF Continues
<1>3. Continues(h, h)
  <2>1. h = h \o <<>>
    BY EmptyStream, ConcatStream
  <2> QED
    BY <2>1, EmptyStream DEF Continues
<1>4. ASSUME NEW value
      PROVE  Continues(h, Append(h, value))
  <2>1. Append(h, value) = h \o <<value>> /\ IsStream(<<value>>)
    BY AppendStream
  <2> QED
    BY <2>1 DEF Continues
<1> QED
  BY <1>1, <1>2, <1>3, <1>4

\* What was written stays where it was.
LEMMA ContinuesKeeps ==
  ASSUME NEW h, NEW s, IsStream(h), Continues(h, s)
  PROVE  \A i \in 1 .. Len(h) : s[i] = h[i]
BY ConcatStream DEF Continues

\* One write tells its value.
LEMMA WriteTells ==
  ASSUME NEW h, IsStream(h), NEW v, NEW w
  PROVE  Apart(h, Append(h, v), Append(h, w), v, w)
<1>1. ASSUME NEW x, NEW y, IsStream(x), IsStream(y), Append(h, v) \o x = Append(h, w) \o y
      PROVE  v = w
  <2> DEFINE s == Append(h, v)
             t == Append(h, w)
             i == Len(h) + 1
  <2>1. /\ IsStream(s) /\ Len(s) = i /\ s[i] = v
        /\ IsStream(t) /\ Len(t) = i /\ t[i] = w
        /\ Len(h) \in Nat
    BY AppendStream
  <2>2. i \in 1 .. i
    BY <2>1
  <2> HIDE DEF s, t, i
  <2>3. (s \o x)[i] = s[i] /\ (t \o y)[i] = t[i]
    BY <1>1, <2>1, <2>2, ConcatStream
  <2> QED
    BY <1>1, <2>1, <2>3 DEF s, t
<1> QED
  BY <1>1, ContinuesFacts DEF Apart

\* What two parts written in turn tell, the whole tells: the second part is
\* read once the first is known.
LEMMA ThenTells ==
  ASSUME NEW h, IsStream(h), NEW s, NEW t, NEW a, NEW b, Apart(h, s, t, a, b),
         NEW s2, NEW t2, Continues(s, s2), Continues(t, t2),
         NEW v, NEW w, a = b /\ s = t => Apart(s, s2, t2, v, w)
  PROVE  Apart(h, s2, t2, <<a, v>>, <<b, w>>)
<1>1. IsStream(s) /\ IsStream(t) /\ Continues(h, s2) /\ Continues(h, t2)
  BY ContinuesFacts DEF Apart
<1>2. ASSUME NEW x, NEW y, IsStream(x), IsStream(y), s2 \o x = t2 \o y
      PROVE  a = b /\ v = w /\ s2 = t2
  <2>1. PICK i : IsStream(i) /\ s2 = s \o i
    BY DEF Continues
  <2>2. PICK j : IsStream(j) /\ t2 = t \o j
    BY DEF Continues
  <2>3. IsStream(i \o x) /\ IsStream(j \o y)
    BY <1>2, <2>1, <2>2, ConcatStream
  <2>4. (s \o i) \o x = s \o (i \o x)
    BY <1>1, <1>2, <2>1, StreamsAssociate, SMTT(20)
  <2>5. (t \o j) \o y = t \o (j \o y)
    BY <1>1, <1>2, <2>2, StreamsAssociate, SMTT(20)
  <2>6. a = b /\ s = t
    BY <1>2, <2>1, <2>2, <2>3, <2>4, <2>5 DEF Apart
  <2> QED
    BY <1>2, <2>6 DEF Apart
<1> QED
  BY <1>1, <1>2 DEF Apart

\* And so does a row of parts, each written where the one before it ended.
LEMMA RowTells ==
  ASSUME NEW n \in Nat, NEW a, NEW b, NEW v, NEW w,
         IsStream(a[0]), a[0] = b[0],
         \A i \in 1 .. n : IsStream(a[i - 1]) => Continues(a[i - 1], a[i]),
         \A i \in 1 .. n : IsStream(b[i - 1]) => Continues(b[i - 1], b[i]),
         \A i \in 1 .. n : IsStream(a[i - 1]) /\ a[i - 1] = b[i - 1] =>
           Apart(a[i - 1], a[i], b[i], v[i], w[i]),
         v = [i \in 1 .. n |-> v[i]], w = [i \in 1 .. n |-> w[i]]
  PROVE  Apart(a[0], a[n], b[n], v, w)
<1> DEFINE Upto(u, k) == [i \in 1 .. k |-> u[i]]
           Told(k) == Apart(a[0], a[k], b[k], Upto(v, k), Upto(w, k))
           Reached == {k \in Nat : k <= n => Told(k)}
<1>1. 0 \in Reached
  <2>1. Upto(v, 0) = Upto(w, 0)
    OBVIOUS
  <2>2. Told(0)
    BY <2>1, ContinuesFacts DEF Apart
  <2> QED
    BY <2>2
<1>2. ASSUME NEW k \in Nat, k \in Reached
      PROVE  k + 1 \in Reached
  <2> SUFFICES ASSUME k + 1 <= n
               PROVE  Told(k + 1)
    OBVIOUS
  <2> DEFINE s == a[k]
             t == b[k]
             s2 == a[k + 1]
             t2 == b[k + 1]
  <2>1. Apart(a[0], s, t, Upto(v, k), Upto(w, k))
    BY <1>2
  <2>2. IsStream(s) /\ IsStream(t)
    BY <2>1, ContinuesFacts DEF Apart
  <2>3. k + 1 \in 1 .. n /\ (k + 1) - 1 = k
    OBVIOUS
  <2>4. Continues(s, s2) /\ Continues(t, t2)
    BY <2>2, <2>3
  <2>5. Upto(v, k) = Upto(w, k) /\ s = t => Apart(s, s2, t2, v[k + 1], w[k + 1])
    BY <2>2, <2>3
  <2> HIDE DEF s, t, s2, t2, Upto
  <2>6. Apart(a[0], s2, t2, <<Upto(v, k), v[k + 1]>>, <<Upto(w, k), w[k + 1]>>)
    BY <2>1, <2>4, <2>5, ThenTells
  <2>7. ASSUME Upto(v, k) = Upto(w, k), v[k + 1] = w[k + 1]
        PROVE  Upto(v, k + 1) = Upto(w, k + 1)
    <3>1. ASSUME NEW i \in 1 .. k + 1 PROVE v[i] = w[i]
      <4>1. CASE i \in 1 .. k
        <5>1. Upto(v, k)[i] = v[i] /\ Upto(w, k)[i] = w[i]
          BY <4>1 DEF Upto
        <5> QED
          BY <2>7, <5>1
      <4>2. CASE i = k + 1
        BY <2>7, <4>2
      <4> QED
        BY <4>1, <4>2
    <3> QED
      BY <3>1 DEF Upto
  <2> QED
    BY <2>6, <2>7 DEF Apart, s2, t2
<1> HIDE DEF Reached, Told
<1>3. n \in Reached
  BY <1>1, <1>2, Induction
<1>4. Apart(a[0], a[n], b[n], Upto(v, n), Upto(w, n))
  BY <1>3 DEF Reached, Told
<1> QED
  BY <1>4

-----------------------------------------------------------------------------
(* Rows: a tuple, and the fields of a struct or a variant *)

\* after[i] is the hasher after i parts.
TupleSteps(after, hasher, of, tuple) ==
  /\ after[0] = hasher
  /\ \A i \in 1 .. Len(of) : after[i] = InnerPrint(of[i], tuple[i], after[i - 1])

FieldsSteps(after, hasher, fields, value) ==
  /\ after[0] = hasher
  /\ \A i \in 1 .. Len(fields) : after[i] = PrintField(after[i - 1], fields[i], value[i])

\* The recursion of PrintTuple, and that of PrintFields below, define what they say.
LEMMA TupleWritten ==
  ASSUME NEW hasher, NEW of, NEW tuple, Len(of) \in Nat
  PROVE  \E after : /\ TupleSteps(after, hasher, of, tuple)
                    /\ PrintTuple(hasher, of, tuple) = after[Len(of)]
<1> DEFINE Row(f, n) == f = [i \in 0 .. n |->
                               IF i = 0 THEN hasher ELSE InnerPrint(of[i], tuple[i], f[i - 1])]
           Reached == {n \in Nat : \E f : Row(f, n)}
<1>1. 0 \in Reached
  <2>1. Row([i \in 0 .. 0 |-> hasher], 0)
    OBVIOUS
  <2> QED
    BY <2>1
<1>2. ASSUME NEW n \in Nat, n \in Reached
      PROVE  n + 1 \in Reached
  <2>1. PICK f : Row(f, n)
    BY <1>2
  <2> DEFINE g == [i \in 0 .. n + 1 |->
                     IF i <= n THEN f[i] ELSE InnerPrint(of[i], tuple[i], f[i - 1])]
  <2>2. \A i \in 0 .. n : f[i] = IF i = 0 THEN hasher ELSE InnerPrint(of[i], tuple[i], f[i - 1])
    BY <2>1
  <2>3. \A i \in 0 .. n + 1 :
          g[i] = IF i = 0 THEN hasher ELSE InnerPrint(of[i], tuple[i], g[i - 1])
    BY <2>2
  <2>4. g = [i \in 0 .. n + 1 |-> g[i]]
    OBVIOUS
  <2> HIDE DEF g
  <2>5. Row(g, n + 1)
    BY <2>3, <2>4
  <2> HIDE DEF Row
  <2> QED
    BY <2>5
<1> HIDE DEF Reached
<1>3. Len(of) \in Reached
  BY <1>1, <1>2, Induction
<1> DEFINE after == CHOOSE f : Row(f, Len(of))
<1>4. Row(after, Len(of))
  BY <1>3 DEF Reached
<1>5. PrintTuple(hasher, of, tuple) = after[Len(of)]
  BY DEF PrintTuple
<1> HIDE DEF after
<1>6. TupleSteps(after, hasher, of, tuple)
  BY <1>4 DEF TupleSteps
<1> QED
  BY <1>5, <1>6

LEMMA TupleTells ==
  ASSUME InnerTells, NEW of, NEW v, NEW w, TupleShape(of, v), TupleShape(of, w),
         NEW h, IsStream(h)
  PROVE  Apart(h, PrintTuple(h, of, v), PrintTuple(h, of, w), v, w)
<1>1. Len(of) \in Nat /\ DOMAIN of = 1 .. Len(of)
  BY DEF TupleShape
<1> DEFINE n == Len(of)
<1>2. PICK a : TupleSteps(a, h, of, v) /\ PrintTuple(h, of, v) = a[n]
  BY <1>1, TupleWritten
<1>3. PICK b : TupleSteps(b, h, of, w) /\ PrintTuple(h, of, w) = b[n]
  BY <1>1, TupleWritten
<1>4. \A i \in 1 .. n : InnerShape(of[i], v[i]) /\ InnerShape(of[i], w[i])
  BY <1>1 DEF TupleShape
<1> HIDE DEF n
<1>5. \A i \in 1 .. n : IsStream(a[i - 1]) => Continues(a[i - 1], a[i])
  BY <1>2, <1>4 DEF InnerTells, Apart, TupleSteps, n
<1>6. \A i \in 1 .. n : IsStream(b[i - 1]) => Continues(b[i - 1], b[i])
  BY <1>3, <1>4 DEF InnerTells, Apart, TupleSteps, n
<1>7. \A i \in 1 .. n : IsStream(a[i - 1]) /\ a[i - 1] = b[i - 1] =>
        Apart(a[i - 1], a[i], b[i], v[i], w[i])
  BY <1>2, <1>3, <1>4 DEF InnerTells, TupleSteps, n
<1>8. v = [i \in 1 .. n |-> v[i]] /\ w = [i \in 1 .. n |-> w[i]]
  BY <1>1 DEF TupleShape, n
<1>9. a[0] = h /\ b[0] = h
  BY <1>2, <1>3 DEF TupleSteps
<1>10. n \in Nat
  BY <1>1 DEF n
<1>11. Apart(a[0], a[n], b[n], v, w)
  BY <1>5, <1>6, <1>7, <1>8, <1>9, <1>10, RowTells
<1> QED
  BY <1>2, <1>3, <1>9, <1>11

\* A sequence with its length first is a tuple, once the length is known.
LEMMA SliceTells ==
  ASSUME StreamHasher, InnerTells, NEW of, NEW v, NEW w, ItemsShape(of, v), ItemsShape(of, w),
         NEW h, IsStream(h)
  PROVE  Apart(h, PrintSlice(h, of, v), PrintSlice(h, of, w), v, w)
<1> DEFINE Alike(u) == [i \in DOMAIN u |-> of]
           s == Append(h, Len(v))
           t == Append(h, Len(w))
<1>1. \A u : ItemsShape(of, u) => TupleShape(Alike(u), u) /\ Len(Alike(u)) = Len(u)
  BY DEF ItemsShape, TupleShape
<1>2. PrintSlice(h, of, v) = PrintTuple(s, Alike(v), v)
  BY DEF PrintSlice, PrintItems, StreamHasher
<1>3. PrintSlice(h, of, w) = PrintTuple(t, Alike(w), w)
  BY DEF PrintSlice, PrintItems, StreamHasher
<1>4. Apart(h, s, t, Len(v), Len(w))
  BY WriteTells
<1>5. IsStream(s) /\ IsStream(t)
  BY AppendStream
<1>6. ASSUME Len(v) = Len(w)
      PROVE  s = t /\ Alike(v) = Alike(w)
  BY <1>6 DEF ItemsShape
<1> HIDE DEF Alike, s, t
<1>7. /\ Continues(s, PrintTuple(s, Alike(v), v))
      /\ Continues(t, PrintTuple(t, Alike(w), w))
  BY <1>1, <1>5, TupleTells DEF Apart
<1>8. Len(v) = Len(w) /\ s = t =>
        Apart(s, PrintTuple(s, Alike(v), v), PrintTuple(t, Alike(w), w), v, w)
  BY <1>1, <1>5, <1>6, TupleTells
<1>9. Apart(h, PrintTuple(s, Alike(v), v), PrintTuple(t, Alike(w), w), <<Len(v), v>>, <<Len(w), w>>)
  BY <1>4, <1>7, <1>8, ThenTells
<1> QED
  BY <1>2, <1>3, <1>9 DEF Apart

-----------------------------------------------------------------------------
(* Sets, maps and the types of std *)

\* The set of the hashes folded is told, and so is the collection that has them.
LEMMA UnorderedTells ==
  ASSUME StreamHasher, NEW h, IsStream(h), NEW f, NEW g, NEW v, NEW w,
         v = w => f = g,
         {f[x] : x \in DOMAIN f} = {g[x] : x \in DOMAIN g} => v = w
  PROVE  Apart(h, Unordered(h, f), Unordered(h, g), v, w)
<1> DEFINE s == Append(h, Cardinality(DOMAIN f))
           t == Append(h, Cardinality(DOMAIN g))
           a == {f[x] : x \in DOMAIN f}
           b == {g[x] : x \in DOMAIN g}
<1>1. Unordered(h, f) = Append(s, a) /\ Unordered(h, g) = Append(t, b)
  BY DEF Unordered, StreamHasher
<1>2. IsStream(s) /\ IsStream(t)
  BY AppendStream
<1>3. Apart(h, s, t, Cardinality(DOMAIN f), Cardinality(DOMAIN g))
  BY WriteTells
<1>4. a = b => v = w
  OBVIOUS
<1> HIDE DEF s, t, a, b
<1>5. Continues(s, Append(s, a)) /\ Continues(t, Append(t, b))
  BY <1>2, ContinuesFacts
<1>6. s = t => Apart(s, Append(s, a), Append(t, b), a, b)
  BY <1>2, WriteTells
<1>7. Apart(h, Append(s, a), Append(t, b),
            <<Cardinality(DOMAIN f), a>>, <<Cardinality(DOMAIN g), b>>)
  BY <1>3, <1>5, <1>6, ThenTells
<1> QED
  BY <1>1, <1>4, <1>7 DEF Apart

LEMMA BagTells ==
  ASSUME StreamHasher, NEW v, NEW w, NEW h, IsStream(h)
  PROVE  Apart(h, PrintBag(h, v), PrintBag(h, w), v, w)
<1> DEFINE F(u) == [item \in u |-> <<item>>]
<1>1. \A u : PrintBag(h, u) = Unordered(h, F(u))
  BY DEF PrintBag, StreamHasher
<1>2. \A u : {F(u)[x] : x \in DOMAIN F(u)} = {<<x>> : x \in u}
  OBVIOUS
<1>3. ASSUME {<<x>> : x \in v} = {<<x>> : x \in w}
      PROVE  v = w
  <2>1. \A x : x \in v <=> <<x>> \in {<<y>> : y \in v}
    OBVIOUS
  <2>2. \A x : x \in w <=> <<x>> \in {<<y>> : y \in w}
    OBVIOUS
  <2> QED
    BY <1>3, <2>1, <2>2
<1>4. {F(v)[x] : x \in DOMAIN F(v)} = {F(w)[x] : x \in DOMAIN F(w)} => v = w
  BY <1>2, <1>3
<1>5. v = w => F(v) = F(w)
  OBVIOUS
<1> HIDE DEF F
<1> QED
  BY <1>1, <1>4, <1>5, UnorderedTells

\* An entry's key is written first, so it is told before the value.
LEMMA MapTells ==
  ASSUME StreamHasher, InnerTells, NEW of, NEW v, NEW w,
         IsMap(v), \A k \in DOMAIN v : InnerShape(of, v[k]),
         IsMap(w), \A k \in DOMAIN w : InnerShape(of, w[k]),
         NEW h, IsStream(h)
  PROVE  Apart(h, PrintMap(h, of, v), PrintMap(h, of, w), v, w)
<1> DEFINE F(u) == [k \in DOMAIN u |-> InnerPrint(of, u[k], <<k>>)]
<1>1. \A u : PrintMap(h, of, u) = Unordered(h, F(u))
  <2>1. \A k : Append(<<>>, k) = <<k>>
    OBVIOUS
  <2>2. \A k : Write(New, k) = <<k>>
    BY <2>1 DEF StreamHasher
  <2>3. \A u : [k \in DOMAIN u |-> InnerPrint(of, u[k], Write(New, k))] = F(u)
    BY <2>2
  <2> QED
    BY <2>3 DEF PrintMap
<1>2. ASSUME NEW a, NEW b, \A k \in DOMAIN a : InnerShape(of, a[k]),
             \A k \in DOMAIN b : InnerShape(of, b[k]),
             NEW j \in DOMAIN a, NEW k \in DOMAIN b, F(a)[j] = F(b)[k]
      PROVE  j = k /\ a[j] = b[k]
  <2> DEFINE s == InnerPrint(of, a[j], <<j>>)
             t == InnerPrint(of, b[k], <<k>>)
  <2>1. IsStream(<<j>>) /\ IsStream(<<k>>)
    BY EmptyStream, AppendStream
  <2>2. Continues(<<j>>, s) /\ Continues(<<k>>, t)
    BY <1>2, <2>1 DEF InnerTells, Apart
  <2>3. s[1] = j /\ t[1] = k
    <3>1. ASSUME NEW x, NEW u, Continues(<<x>>, u), IsStream(<<x>>) PROVE u[1] = x
      <4>1. Len(<<x>>) = 1 /\ <<x>>[1] = x
        OBVIOUS
      <4>2. \A i \in 1 .. Len(<<x>>) : u[i] = <<x>>[i]
        BY <3>1, ContinuesKeeps
      <4> QED
        BY <4>1, <4>2
    <3> HIDE DEF s, t
    <3> QED
      BY <2>1, <2>2, <3>1
  <2>4. s = t
    BY <1>2
  <2>5. j = k
    BY <2>3, <2>4
  <2>6. Apart(<<j>>, s, t, a[j], b[k])
    BY <1>2, <2>1, <2>5 DEF InnerTells
  <2> HIDE DEF s, t
  <2>7. a[j] = b[k]
    BY <2>4, <2>6, EmptyStream DEF Apart
  <2> QED
    BY <2>5, <2>7
<1>3. ASSUME {F(v)[x] : x \in DOMAIN F(v)} = {F(w)[x] : x \in DOMAIN F(w)}
      PROVE  v = w
  <2>1. DOMAIN F(v) = DOMAIN v /\ DOMAIN F(w) = DOMAIN w
    OBVIOUS
  <2> HIDE DEF F
  <2>2. ASSUME NEW j \in DOMAIN v PROVE j \in DOMAIN w /\ v[j] = w[j]
    <3>1. PICK k \in DOMAIN w : F(v)[j] = F(w)[k]
      BY <1>3, <2>1
    <3> QED
      BY <1>2, <3>1
  <2>3. ASSUME NEW j \in DOMAIN w PROVE j \in DOMAIN v
    <3>1. PICK k \in DOMAIN v : F(v)[k] = F(w)[j]
      BY <1>3, <2>1
    <3> QED
      BY <1>2, <3>1
  <2> QED
    BY <2>2, <2>3 DEF IsMap
<1>4. v = w => F(v) = F(w)
  OBVIOUS
<1> HIDE DEF F
<1> QED
  BY <1>1, <1>3, <1>4, UnorderedTells

LEMMA OptionTells ==
  ASSUME StreamHasher, InnerTells, NEW of, NEW v, NEW w,
         OptionShape(of, v), OptionShape(of, w),
         NEW h, IsStream(h)
  PROVE  Apart(h, PrintOption(h, of, v), PrintOption(h, of, w), v, w)
<1> DEFINE Tag(u) == IF u = <<>> THEN 0 ELSE 1
           s == Append(h, Tag(v))
           t == Append(h, Tag(w))
<1>1. /\ v # <<>> => InnerShape(of, v[1]) /\ v = <<v[1]>>
      /\ w # <<>> => InnerShape(of, w[1]) /\ w = <<w[1]>>
  BY DEF OptionShape
<1>2. IsStream(s) /\ IsStream(t) /\ Apart(h, s, t, Tag(v), Tag(w))
  BY AppendStream, WriteTells
<1>3. /\ v = <<>> => PrintOption(h, of, v) = s
      /\ v # <<>> => PrintOption(h, of, v) = InnerPrint(of, v[1], s)
      /\ w = <<>> => PrintOption(h, of, w) = t
      /\ w # <<>> => PrintOption(h, of, w) = InnerPrint(of, w[1], t)
  BY DEF PrintOption, StreamHasher
<1>4. Tag(v) = Tag(w) => (v = <<>> <=> w = <<>>)
  OBVIOUS
<1> HIDE DEF Tag, s, t
<1>5. Continues(s, PrintOption(h, of, v)) /\ Continues(t, PrintOption(h, of, w))
  BY <1>1, <1>2, <1>3, ContinuesFacts DEF InnerTells, Apart
<1>6. ASSUME v = <<>> <=> w = <<>>, s = t
      PROVE  Apart(s, PrintOption(h, of, v), PrintOption(h, of, w), v, w)
  <2>1. CASE v = <<>>
    BY <1>2, <1>3, <1>6, <2>1, ContinuesFacts DEF Apart
  <2>2. CASE v # <<>>
    <3>1. Apart(s, InnerPrint(of, v[1], s), InnerPrint(of, w[1], s), v[1], w[1])
      BY <1>1, <1>2, <1>6, <2>2 DEF InnerTells
    <3> QED
      BY <1>1, <1>3, <1>6, <2>2, <3>1 DEF Apart
  <2> QED
    BY <2>1, <2>2
<1>7. Apart(h, PrintOption(h, of, v), PrintOption(h, of, w), <<Tag(v), v>>, <<Tag(w), w>>)
  BY <1>2, <1>4, <1>5, <1>6, ThenTells
<1> QED
  BY <1>7 DEF Apart

LEMMA ResultTells ==
  ASSUME StreamHasher, InnerTells, NEW of, NEW v, NEW w,
         ResultShape(of, v), ResultShape(of, w),
         NEW h, IsStream(h)
  PROVE  Apart(h, PrintResult(h, of[1], of[2], v), PrintResult(h, of[1], of[2], w), v, w)
<1> DEFINE Tag(u) == IF u.ok THEN 0 ELSE 1
           Part(u) == of[IF u.ok THEN 1 ELSE 2]
           s == Append(h, Tag(v))
           t == Append(h, Tag(w))
<1>1. IsStream(s) /\ IsStream(t) /\ Apart(h, s, t, Tag(v), Tag(w))
  BY AppendStream, WriteTells
<1>2. PrintResult(h, of[1], of[2], v) = InnerPrint(Part(v), v.value, s)
  BY DEF PrintResult, StreamHasher
<1>3. PrintResult(h, of[1], of[2], w) = InnerPrint(Part(w), w.value, t)
  BY DEF PrintResult, StreamHasher
<1>4. Tag(v) = Tag(w) => v.ok = w.ok /\ Part(v) = Part(w)
  BY DEF ResultShape
<1>5. InnerShape(Part(v), v.value) /\ InnerShape(Part(w), w.value)
  BY DEF ResultShape
<1> HIDE DEF Tag, Part, s, t
<1>6. Continues(s, InnerPrint(Part(v), v.value, s)) /\ Continues(t, InnerPrint(Part(w), w.value, t))
  BY <1>1, <1>5 DEF InnerTells, Apart
<1>7. Tag(v) = Tag(w) /\ s = t =>
        Apart(s, InnerPrint(Part(v), v.value, s), InnerPrint(Part(w), w.value, t), v.value, w.value)
  BY <1>1, <1>4, <1>5 DEF InnerTells
<1>8. Apart(h, InnerPrint(Part(v), v.value, s), InnerPrint(Part(w), w.value, t),
            <<Tag(v), v.value>>, <<Tag(w), w.value>>)
  BY <1>1, <1>6, <1>7, ThenTells
<1>9. Tag(v) = Tag(w) /\ v.value = w.value => v = w
  BY <1>4 DEF ResultShape
<1> QED
  BY <1>2, <1>3, <1>8, <1>9 DEF Apart

-----------------------------------------------------------------------------
(* Fields *)

LEMMA ScalarTells ==
  ASSUME StreamHasher, InnerTells, NEW ty, NEW v, NEW w,
         ScalarShape(ty, v), ScalarShape(ty, w), NEW h, IsStream(h)
  PROVE  Apart(h, PrintScalar(h, ty, v), PrintScalar(h, ty, w), v, w)
<1>1. CASE ty.rust \in {"u32", "f64", "bool", "usize", "isize"}
  BY <1>1, WriteTells DEF PrintScalar, StreamHasher
<1>2. CASE ty.rust = "Box"
  BY <1>2 DEF PrintScalar, ScalarShape, InnerTells
<1>3. CASE ty.rust \in {"str", "Vec"}
  BY <1>3, SliceTells DEF PrintScalar, ScalarShape
<1>4. CASE ty.rust = "Option"
  BY <1>4, OptionTells DEF PrintScalar, ScalarShape
<1>5. CASE ty.rust = "Result"
  BY <1>5, ResultTells DEF PrintScalar, ScalarShape
<1>6. CASE ty.rust = "tuple"
  BY <1>6, TupleTells DEF PrintScalar, ScalarShape
<1> QED
  BY <1>1, <1>2, <1>3, <1>4, <1>5, <1>6 DEF ScalarShape

LEMMA FieldTells ==
  ASSUME StreamHasher, InnerTells, NEW ty, NEW v, NEW w,
         FieldShape(ty, v), FieldShape(ty, w), NEW h, IsStream(h)
  PROVE  Apart(h, PrintField(h, ty, v), PrintField(h, ty, w), v, w)
<1>1. CASE ty.kind = "scalar"
  BY <1>1, ScalarTells DEF PrintField, FieldShape
<1>2. CASE ty.kind = "bag"
  BY <1>2, BagTells DEF PrintField
<1>3. CASE ty.kind \in {"entry", "map"}
  BY <1>3, MapTells DEF PrintField, FieldShape, IsMap
<1>4. CASE ty.kind = "ordered"
  BY <1>4, SliceTells DEF PrintField, FieldShape
<1>5. CASE ty.kind = "delta"
  BY <1>5 DEF PrintField, FieldShape, InnerTells
<1> QED
  BY <1>1, <1>2, <1>3, <1>4, <1>5 DEF FieldShape

LEMMA FieldsWritten ==
  ASSUME NEW hasher, NEW fields, NEW value, Len(fields) \in Nat
  PROVE  \E after : /\ FieldsSteps(after, hasher, fields, value)
                    /\ PrintFields(hasher, fields, value) = after[Len(fields)]
<1> DEFINE Row(f, n) == f = [i \in 0 .. n |->
                               IF i = 0 THEN hasher ELSE PrintField(f[i - 1], fields[i], value[i])]
           Reached == {n \in Nat : \E f : Row(f, n)}
<1>1. 0 \in Reached
  <2>1. Row([i \in 0 .. 0 |-> hasher], 0)
    OBVIOUS
  <2> QED
    BY <2>1
<1>2. ASSUME NEW n \in Nat, n \in Reached
      PROVE  n + 1 \in Reached
  <2>1. PICK f : Row(f, n)
    BY <1>2
  <2> DEFINE g == [i \in 0 .. n + 1 |->
                     IF i <= n THEN f[i] ELSE PrintField(f[i - 1], fields[i], value[i])]
  <2>2. \A i \in 0 .. n : f[i] = IF i = 0 THEN hasher ELSE PrintField(f[i - 1], fields[i], value[i])
    BY <2>1
  <2>3. \A i \in 0 .. n + 1 :
          g[i] = IF i = 0 THEN hasher ELSE PrintField(g[i - 1], fields[i], value[i])
    BY <2>2
  <2>4. g = [i \in 0 .. n + 1 |-> g[i]]
    OBVIOUS
  <2> HIDE DEF g
  <2>5. Row(g, n + 1)
    BY <2>3, <2>4
  <2> HIDE DEF Row
  <2> QED
    BY <2>5
<1> HIDE DEF Reached
<1>3. Len(fields) \in Reached
  BY <1>1, <1>2, Induction
<1> DEFINE after == CHOOSE f : Row(f, Len(fields))
<1>4. Row(after, Len(fields))
  BY <1>3 DEF Reached
<1>5. PrintFields(hasher, fields, value) = after[Len(fields)]
  BY DEF PrintFields
<1> HIDE DEF after
<1>6. FieldsSteps(after, hasher, fields, value)
  BY <1>4 DEF FieldsSteps
<1> QED
  BY <1>5, <1>6

LEMMA FieldsTell ==
  ASSUME StreamHasher, InnerTells, NEW fields, NEW v, NEW w,
         FieldsShape(fields, v), FieldsShape(fields, w), NEW h, IsStream(h)
  PROVE  Apart(h, PrintFields(h, fields, v), PrintFields(h, fields, w), v, w)
<1>1. Len(fields) \in Nat /\ DOMAIN fields = 1 .. Len(fields)
  BY DEF FieldsShape
<1> DEFINE n == Len(fields)
<1>2. PICK a : FieldsSteps(a, h, fields, v) /\ PrintFields(h, fields, v) = a[n]
  BY <1>1, FieldsWritten
<1>3. PICK b : FieldsSteps(b, h, fields, w) /\ PrintFields(h, fields, w) = b[n]
  BY <1>1, FieldsWritten
<1>4. \A i \in 1 .. n : FieldShape(fields[i], v[i]) /\ FieldShape(fields[i], w[i])
  BY <1>1 DEF FieldsShape
<1> HIDE DEF n
<1>5. \A i \in 1 .. n : IsStream(a[i - 1]) => Continues(a[i - 1], a[i])
  BY <1>2, <1>4, FieldTells DEF Apart, FieldsSteps, n
<1>6. \A i \in 1 .. n : IsStream(b[i - 1]) => Continues(b[i - 1], b[i])
  BY <1>3, <1>4, FieldTells DEF Apart, FieldsSteps, n
<1>7. \A i \in 1 .. n : IsStream(a[i - 1]) /\ a[i - 1] = b[i - 1] =>
        Apart(a[i - 1], a[i], b[i], v[i], w[i])
  BY <1>2, <1>3, <1>4, FieldTells DEF FieldsSteps, n
<1>8. v = [i \in 1 .. n |-> v[i]] /\ w = [i \in 1 .. n |-> w[i]]
  BY <1>1 DEF FieldsShape, n
<1>9. a[0] = h /\ b[0] = h
  BY <1>2, <1>3 DEF FieldsSteps
<1>10. n \in Nat
  BY <1>1 DEF n
<1>11. Apart(a[0], a[n], b[n], v, w)
  BY <1>5, <1>6, <1>7, <1>8, <1>9, <1>10, RowTells
<1> QED
  BY <1>2, <1>3, <1>9, <1>11

-----------------------------------------------------------------------------
(* The type *)

\* Two variants differ in their indices; one has its fields told.
LEMMA EnumTells ==
  ASSUME StreamHasher, InnerTells, NEW ty, ty.kind = "enum", NEW v, NEW w,
         HasShape(ty, v), HasShape(ty, w), NEW h, IsStream(h)
  PROVE  Apart(h, PrintEnum(h, ty, v), PrintEnum(h, ty, w), v, w)
<1> DEFINE Fields(u) == ty.variants[u.variant].fields
           s == Append(h, v.variant)
           t == Append(h, w.variant)
<1>1. PrintEnum(h, ty, v) = PrintFields(s, Fields(v), v.fields)
  BY DEF PrintEnum, StreamHasher
<1>2. PrintEnum(h, ty, w) = PrintFields(t, Fields(w), w.fields)
  BY DEF PrintEnum, StreamHasher
<1>3. /\ v = [variant |-> v.variant, fields |-> v.fields] /\ FieldsShape(Fields(v), v.fields)
      /\ w = [variant |-> w.variant, fields |-> w.fields] /\ FieldsShape(Fields(w), w.fields)
  BY DEF HasShape
<1>4. IsStream(s) /\ IsStream(t) /\ Apart(h, s, t, v.variant, w.variant)
  BY AppendStream, WriteTells
<1>5. v.variant = w.variant => Fields(v) = Fields(w)
  OBVIOUS
<1> HIDE DEF Fields, s, t
<1>6. /\ Continues(s, PrintFields(s, Fields(v), v.fields))
      /\ Continues(t, PrintFields(t, Fields(w), w.fields))
  BY <1>3, <1>4, FieldsTell DEF Apart
<1>7. v.variant = w.variant /\ s = t =>
        Apart(s, PrintFields(s, Fields(v), v.fields), PrintFields(t, Fields(w), w.fields),
              v.fields, w.fields)
  BY <1>3, <1>4, <1>5, FieldsTell
<1>8. Apart(h, PrintFields(s, Fields(v), v.fields), PrintFields(t, Fields(w), w.fields),
            <<v.variant, v.fields>>, <<w.variant, w.fields>>)
  BY <1>4, <1>6, <1>7, ThenTells
<1>9. v.variant = w.variant /\ v.fields = w.fields => v = w
  BY <1>3
<1> QED
  BY <1>1, <1>2, <1>8, <1>9 DEF Apart

\* "Are these the same state?" (fingerprint.rs:160-163): if the fingerprints of
\* the types it nests tell their values apart, so does that of a type, whatever
\* its fields, items and variants and however many of them are empty or absent.
THEOREM TellingCarriesOver ==
  ASSUME StreamHasher, InnerTells
  PROVE  Tells
<1> SUFFICES ASSUME NEW ty, NEW v, NEW w, HasShape(ty, v), HasShape(ty, w),
                    NEW h, IsStream(h)
             PROVE  Apart(h, FingerprintInto(ty, v, h), FingerprintInto(ty, w, h), v, w)
  BY DEF Tells
<1>1. CASE ty.kind = "enum"
  BY <1>1, EnumTells DEF FingerprintInto
<1>2. CASE ty.kind = "struct"
  BY <1>2, FieldsTell DEF FingerprintInto, HasShape
<1>3. CASE ty.kind \notin {"enum", "struct"}
  BY <1>3, FieldTells DEF FingerprintInto, HasShape
<1> QED
  BY <1>1, <1>2, <1>3
=============================================================================
