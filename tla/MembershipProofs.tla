-------------------------- MODULE MembershipProofs --------------------------
(***************************************************************************)
(* Membership for collections of any size over any values that keep the    *)
(* contract of Delta: the loops of bag.rs, entry.rs and map.rs keep it for *)
(* the collections, say nothing exactly when the collections agree, and    *)
(* leave alone what agrees, on any target and wherever they fail.          *)
(*                                                                         *)
(* The strengthening says what each part of the delta holds once some of   *)
(* old has been visited (Diffed), and what apply, called on old itself,    *)
(* has made of it (OnOld).                                                 *)
(***************************************************************************)
EXTENDS Membership, CollectionsProofs

Visited == DOMAIN old \ rest

\* Keys of both whose value travels whole, or as a delta.
Resends(k) == kind = "entry" /\ Ne(new[k], old[k])
Recurs(k) == kind = "map" /\ Diff(old[k], new[k]) # None

Added ==
  {k \in DOMAIN new : \/ k \in Visited /\ Resends(k)
                      \/ phase # "diff" /\ k \notin DOMAIN old}

KeyedDelta == [key : Keys, delta : {Diff(o, n) : o, n \in Inners}]

ChangeInv ==
  /\ change \in Seq(KeyedDelta)
  /\ \A n \in 1 .. Len(change) :
       /\ change[n].key \in Visited \cap DOMAIN new /\ Recurs(change[n].key)
       /\ change[n].delta = Diff(old[change[n].key], new[change[n].key])
  /\ \A m, n \in 1 .. Len(change) : change[m].key = change[n].key => m = n
  /\ \A k \in Visited \cap DOMAIN new :
       Recurs(k) => \E n \in 1 .. Len(change) : change[n].key = k

Diffed ==
  /\ kind \in Kinds /\ old \in Contents(kind) /\ new \in Contents(kind)
  /\ rest \subseteq DOMAIN old
  /\ phase # "diff" => rest = {}
  /\ left = Only(new, DOMAIN new \ Visited)
  /\ remove = Visited \ DOMAIN new
  /\ add = Only(new, Added)
  /\ ChangeInv

\* What the changes made so far leave under a key of old.
Held(k) ==
  IF \E n \in 1 .. tried : change[n].key = k
  THEN Apply(old[k], Diff(old[k], new[k])).value
  ELSE old[k]

OnOld ==
  /\ phase # "failed"
  /\ phase = "apply" =>
       /\ DOMAIN self = DOMAIN old \ gone
       /\ \A k \in DOMAIN self : self[k] = Held(k)

AppliedInv ==
  /\ phase \in {"diff", "apply", "done", "failed"}
  /\ tried \in 0 .. Len(change)
  /\ gone \subseteq remove
  /\ phase = "diff" => tried = 0 /\ gone = {}
  /\ phase # "diff" /\ start = old => OnOld

IInv == Diffed /\ AppliedInv /\ RoundTrip /\ AgreementUntouched

-----------------------------------------------------------------------------

LEMMA ContentsFacts ==
  ASSUME NEW k \in Kinds, NEW map \in Contents(k)
  PROVE  /\ DOMAIN map \subseteq Keys
         /\ map = [x \in DOMAIN map |-> map[x]]
         /\ k = "bag" => \A x \in DOMAIN map : map[x] = x
         /\ k = "map" => \A x \in DOMAIN map : map[x] \in Inners
<1>1. CASE k = "bag"
  <2>1. PICK S \in SUBSET Keys : map = [x \in S |-> x]
    BY <1>1 DEF Contents
  <2> QED
    BY <1>1, <2>1
<1>2. CASE k = "entry"
  <2>1. PICK S \in SUBSET Keys : map \in [S -> Scalars]
    BY <1>2 DEF Contents
  <2> QED
    BY <1>2, <2>1
<1>3. CASE k = "map"
  <2>1. PICK S \in SUBSET Keys : map \in [S -> Inners]
    BY <1>3 DEF Contents
  <2> QED
    BY <1>3, <2>1
<1> QED
  BY <1>1, <1>2, <1>3, ContractAssumption

LEMMA OldNewFacts ==
  ASSUME Diffed
  PROVE  /\ DOMAIN old \subseteq Keys /\ DOMAIN new \subseteq Keys
         /\ kind = "bag" =>
              \A k \in DOMAIN old \cap DOMAIN new : old[k] = new[k]
         /\ kind = "map" =>
              /\ \A k \in DOMAIN old : old[k] \in Inners
              /\ \A k \in DOMAIN new : new[k] \in Inners
BY ContentsFacts DEF Diffed

LEMMA OnlyFacts ==
  ASSUME NEW map, NEW S
  PROVE  /\ DOMAIN Only(map, S) = DOMAIN map \cap S
         /\ \A k \in DOMAIN map \cap S : Only(map, S)[k] = map[k]
BY DEF Only

LEMMA LeftFacts ==
  ASSUME Diffed
  PROVE  /\ DOMAIN left = DOMAIN new \ Visited
         /\ \A k \in DOMAIN left : left[k] = new[k]
BY DEF Diffed, Only

LEMMA InitIInv == Init => IInv
<1> SUFFICES ASSUME Init PROVE IInv
  OBVIOUS
<1>1. Visited = {} /\ Added = {}
  BY DEF Init, Visited, Added
<1>2. ChangeInv
  <2>1. change = <<>> /\ Len(change) = 0 /\ <<>> \in Seq(KeyedDelta)
    BY EmptySeq DEF Init
  <2> QED
    BY <1>1, <2>1 DEF ChangeInv
<1>3. left = Only(new, DOMAIN new \ Visited)
  <2>1. new = [x \in DOMAIN new |-> new[x]]
    BY ContentsFacts DEF Init
  <2> QED
    BY <1>1, <2>1 DEF Init, Only
<1>4. add = Only(new, Added)
  <2>1. add = [x \in {} |-> new[x]]
    BY DEF Init
  <2> QED
    BY <1>1, <2>1 DEF Only
<1>5. Diffed
  BY <1>1, <1>2, <1>3, <1>4 DEF Init, Diffed
<1>6. AppliedInv /\ RoundTrip /\ AgreementUntouched
  BY DEF Init, AppliedInv, RoundTrip, AgreementUntouched
<1> QED
  BY <1>5, <1>6 DEF IInv

-----------------------------------------------------------------------------

\* While diff runs, nothing is said of apply.
LEMMA DiffFrame ==
  ASSUME IInv, phase = "diff", UNCHANGED <<applying, phase>>, Diffed',
         Len(change)' \in Nat
  PROVE  IInv'
BY DEF IInv, AppliedInv, RoundTrip, AgreementUntouched, applying

LEMMA MissingKeepsIInv ==
  ASSUME IInv, NEW k \in Keys, VisitMissing(k)
  PROVE  IInv'
<1>1. /\ phase = "diff" /\ k \in rest /\ k \in DOMAIN old /\ k \notin DOMAIN new
      /\ remove' = remove \cup {k} /\ rest' = rest \ {k}
      /\ UNCHANGED <<kind, old, new, left, add, change, applying, phase>>
  BY OnlyFacts DEF IInv, Diffed, VisitMissing, Visited
<1>2. Visited' = Visited \cup {k} /\ k \notin Visited
  BY <1>1 DEF Visited
<1>3. Added' = Added
  BY <1>1, <1>2 DEF Added, Resends
<1>4. ChangeInv'
  <2>1. Visited' \cap DOMAIN new' = Visited \cap DOMAIN new
    BY <1>1, <1>2
  <2>2. \A x : Recurs(x)' <=> Recurs(x)
    BY <1>1 DEF Recurs
  <2> QED
    BY <1>1, <2>1, <2>2 DEF IInv, Diffed, ChangeInv, KeyedDelta
<1>5. Diffed'
  <2>1. Only(new, DOMAIN new \ Visited)' = Only(new, DOMAIN new \ Visited)
    BY <1>1, <1>2 DEF Only
  <2>2. Only(new, Added)' = Only(new, Added)
    BY <1>1, <1>3 DEF Only
  <2>3. (remove = Visited \ DOMAIN new)'
    BY <1>1, <1>2 DEF IInv, Diffed
  <2> QED
    BY <1>1, <1>4, <2>1, <2>2, <2>3 DEF IInv, Diffed, Contents
<1> QED
  BY <1>1, <1>4, <1>5, DiffFrame DEF ChangeInv

\* The changes after a key of both is visited: one more if its values recurse.
LEMMA MatchedKeepsChangeInv ==
  ASSUME IInv, NEW k \in Keys, VisitMatched(k), left[k] = new[k],
         Visited' = Visited \cup {k}, k \in DOMAIN old \cap DOMAIN new,
         k \notin Visited
  PROVE  ChangeInv'
<1>1. UNCHANGED <<kind, old, new>> /\ change' = Changed(k)
  BY DEF VisitMatched
<1>2. \A x : Recurs(x)' <=> Recurs(x)
  BY <1>1 DEF Recurs
<1>3. ChangeInv
  BY DEF IInv, Diffed
<1>4. CASE ~ Recurs(k)
  <2>1. change' = change
    BY <1>1, <1>4 DEF Changed, Recurs
  <2>2. \A n \in 1 .. Len(change) : change[n].key \in Visited' \cap DOMAIN new
    BY <1>3 DEF ChangeInv
  <2>3. \A x \in Visited' \cap DOMAIN new :
          Recurs(x) => \E n \in 1 .. Len(change) : change[n].key = x
    BY <1>3, <1>4 DEF ChangeInv
  <2> QED
    BY <1>1, <1>2, <1>3, <2>1, <2>2, <2>3 DEF ChangeInv, KeyedDelta
<1>5. CASE Recurs(k)
  <2> DEFINE last == [key |-> k, delta |-> Diff(old[k], new[k])]
  <2>1. change' = Append(change, last)
    BY <1>1, <1>5 DEF Changed, Recurs
  <2>2. last \in KeyedDelta
    BY <1>5, OldNewFacts DEF KeyedDelta, Recurs, IInv
  <2>3. last.key = k /\ last.delta = Diff(old[k], new[k])
    OBVIOUS
  <2> HIDE DEF last
  <2>4. /\ change \in Seq(KeyedDelta) /\ change' \in Seq(KeyedDelta)
        /\ Len(change) \in Nat /\ Len(change') = Len(change) + 1
        /\ change'[Len(change')] = last
        /\ \A n \in 1 .. Len(change) : change'[n] = change[n]
    BY <1>3, <2>1, <2>2 DEF ChangeInv
  <2>5. \A n \in 1 .. Len(change') : n \in 1 .. Len(change) \/ n = Len(change')
    BY <2>4
  <2>6. \A n \in 1 .. Len(change') :
          /\ change'[n].key \in Visited' \cap DOMAIN new
          /\ Recurs(change'[n].key)
          /\ change'[n].delta = Diff(old[change'[n].key], new[change'[n].key])
    BY <1>3, <1>5, <2>3, <2>4, <2>5 DEF ChangeInv
  <2>7. \A n \in 1 .. Len(change) : change'[n].key # k
    BY <1>3, <2>4 DEF ChangeInv
  <2>8. \A m, n \in 1 .. Len(change') : change'[m].key = change'[n].key => m = n
    BY <1>3, <2>3, <2>4, <2>5, <2>7 DEF ChangeInv
  <2>9. ASSUME NEW x \in Visited' \cap DOMAIN new, Recurs(x)
        PROVE  \E n \in 1 .. Len(change') : change'[n].key = x
    <3>1. CASE x = k
      BY <3>1, <2>3, <2>4
    <3>2. CASE x # k
      <4>1. PICK n \in 1 .. Len(change) : change[n].key = x
        BY <1>3, <2>9, <3>2 DEF ChangeInv
      <4> QED
        BY <4>1, <2>4
    <3> QED
      BY <3>1, <3>2
  <2>10. change' \in Seq(KeyedDelta')
    BY <2>4 DEF KeyedDelta
  <2> QED
    BY <1>1, <1>2, <2>6, <2>8, <2>9, <2>10 DEF ChangeInv
<1> QED
  BY <1>4, <1>5

LEMMA MatchedKeepsIInv ==
  ASSUME IInv, NEW k \in Keys, VisitMatched(k)
  PROVE  IInv'
<1>1. /\ phase = "diff" /\ k \in rest /\ k \in DOMAIN old /\ k \in DOMAIN new
      /\ left[k] = new[k] /\ rest' = rest \ {k}
      /\ left' = Only(left, DOMAIN left \ {k})
      /\ UNCHANGED <<kind, old, new, remove, applying, phase>>
  BY LeftFacts DEF IInv, Diffed, VisitMatched, TakenOut, TryRemove
<1>2. Visited' = Visited \cup {k} /\ k \notin Visited
  BY <1>1 DEF Visited
<1>3. left' = Only(new, DOMAIN new \ Visited)'
  <2>1. DOMAIN left = DOMAIN new \ Visited
    BY LeftFacts DEF IInv
  <2>2. \A x \in DOMAIN left : left[x] = new[x]
    BY LeftFacts DEF IInv
  <2>3. left' = [x \in DOMAIN new \ Visited' |-> left[x]]
    BY <1>1, <1>2, <2>1, Zenon DEF Only
  <2>4. left' = [x \in DOMAIN new \ Visited' |-> new[x]]
    BY <1>2, <2>1, <2>2, <2>3
  <2>5. Only(new, DOMAIN new \ Visited)' = [x \in DOMAIN new \ Visited' |-> new[x]]
    BY <1>1 DEF Only
  <2> QED
    BY <2>4, <2>5
<1>4. add' = Only(new, Added)'
  <2>1. add = [x \in Added |-> new[x]] /\ Added \subseteq DOMAIN new /\ k \notin Added
    BY <1>1, <1>2 DEF IInv, Diffed, Only, Added
  <2>2. Added' = IF Resends(k) THEN Added \cup {k} ELSE Added
    BY <1>1, <1>2 DEF Added, Resends
  <2>3. add' = [x \in Added' |-> new[x]]
    <3>1. add' = IF Resends(k) THEN With(add, [x \in {k} |-> new[x]]) ELSE add
      <4>1. [x \in {k} |-> left[x]] = [x \in {k} |-> new[x]]
        BY <1>1
      <4> QED
        BY <1>1, <4>1, Zenon DEF VisitMatched, Resent, Resends
    <3>2. CASE Resends(k)
      BY <2>1, <2>2, <3>1, <3>2 DEF With
    <3>3. CASE ~ Resends(k)
      BY <2>1, <2>2, <3>1, <3>3
    <3> QED
      BY <3>2, <3>3
  <2>4. Added' \subseteq DOMAIN new
    BY <1>1, <2>1, <2>2
  <2> QED
    BY <1>1, <2>3, <2>4 DEF Only
<1>5. ChangeInv'
  BY <1>1, <1>2, MatchedKeepsChangeInv
<1>6. Diffed'
  <2>1. (remove = Visited \ DOMAIN new)'
    BY <1>1, <1>2 DEF IInv, Diffed
  <2> QED
    BY <1>1, <1>3, <1>4, <1>5, <2>1 DEF IInv, Diffed, Contents
<1> QED
  BY <1>1, <1>5, <1>6, DiffFrame DEF ChangeInv

-----------------------------------------------------------------------------

LEMMA AddedFacts ==
  ASSUME Diffed
  PROVE  /\ DOMAIN add = Added /\ Added \subseteq DOMAIN new
         /\ \A k \in Added : add[k] = new[k]
BY DEF Diffed, Only, Added

LEMMA DiffersFacts ==
  ASSUME Diffed, NEW k
  PROVE  Differs(k) <=> Resends(k) \/ Recurs(k)
<1>1. kind \in {"bag", "entry", "map"}
  BY ContractAssumption DEF Diffed
<1> QED
  BY <1>1 DEF Differs, Resends, Recurs

\* No part of the delta names a key on which old and new agree.
LEMMA AgreeFacts ==
  ASSUME Diffed, NEW k, Agree(k)
  PROVE  /\ k \notin remove
         /\ k \notin Added
         /\ \A n \in 1 .. Len(change) : change[n].key # k
<1>1. k \notin remove
  BY DEF Diffed, Visited, Agree
<1>2. k \in DOMAIN old => ~ Resends(k) /\ ~ Recurs(k)
  BY DiffersFacts DEF Agree
<1>3. k \notin Added
  BY <1>2 DEF Added, Agree, Visited
<1>4. \A n \in 1 .. Len(change) : change[n].key # k
  BY <1>2 DEF Diffed, ChangeInv, Visited
<1> QED
  BY <1>1, <1>3, <1>4

LEMMA DiffReturnsKeepsIInv ==
  ASSUME IInv, DiffReturns
  PROVE  IInv'
<1>1. /\ phase = "diff" /\ rest = {} /\ add' = With(add, left)
      /\ self' = start' /\ phase' = "apply"
      /\ UNCHANGED <<kind, old, new, rest, left, remove, change, gone, tried, err>>
  BY DEF DiffReturns
<1>2. Visited = DOMAIN old /\ Visited' = Visited
  BY <1>1 DEF Visited
<1>3. ChangeInv'
  <2>1. \A x : Recurs(x)' <=> Recurs(x)
    BY <1>1 DEF Recurs
  <2> QED
    BY <1>1, <1>2, <2>1 DEF IInv, Diffed, ChangeInv, KeyedDelta
<1>4. add' = Only(new, Added)'
  <2>1. DOMAIN left = DOMAIN new \ Visited /\ \A x \in DOMAIN left : left[x] = new[x]
    BY LeftFacts DEF IInv
  <2>2. /\ DOMAIN add = Added /\ Added \subseteq DOMAIN new
        /\ \A x \in Added : add[x] = new[x]
    BY AddedFacts DEF IInv
  <2>3. Added' = Added \cup DOMAIN left
    BY <1>1, <1>2, <2>1 DEF Added, Resends
  <2>4. add' = [x \in Added' |-> new[x]]
    BY <1>1, <2>1, <2>2, <2>3 DEF With
  <2>5. Added' \subseteq DOMAIN new
    BY <2>1, <2>2, <2>3
  <2> QED
    BY <1>1, <2>4, <2>5 DEF Only
<1>5. Diffed'
  <2>1. Only(new, DOMAIN new \ Visited)' = Only(new, DOMAIN new \ Visited)
    BY <1>1, <1>2 DEF Only
  <2> QED
    BY <1>1, <1>2, <1>3, <1>4, <2>1 DEF IInv, Diffed, Contents
<1>6. AppliedInv'
  <2>1. tried = 0 /\ gone = {}
    BY <1>1 DEF IInv, AppliedInv
  <2>2. \A x : Held(x)' = old[x]
    BY <1>1, <2>1 DEF Held
  <2>3. start' = old' => OnOld'
    BY <1>1, <2>1, <2>2 DEF OnOld
  <2> QED
    BY <1>1, <2>1, <2>3 DEF IInv, AppliedInv
<1>7. RoundTrip' /\ AgreementUntouched'
  BY <1>1 DEF RoundTrip, AgreementUntouched
<1> QED
  BY <1>5, <1>6, <1>7 DEF IInv

\* apply leaves the delta and the collections it was made of alone.
LEMMA ApplyFrame ==
  ASSUME Diffed, phase # "diff", phase' # "diff",
         UNCHANGED <<kind, old, new, rest, left, made>>
  PROVE  Diffed' /\ \A k : Agree(k)' <=> Agree(k)
<1>1. UNCHANGED <<Visited, remove, add, change>> /\ Added' = Added
  BY DEF Visited, Added, Resends, made
<1>2. \A x : Recurs(x)' <=> Recurs(x)
  BY DEF Recurs
<1>3. ChangeInv'
  BY <1>1, <1>2 DEF Diffed, ChangeInv, KeyedDelta
<1>4. /\ Only(new, DOMAIN new \ Visited)' = Only(new, DOMAIN new \ Visited)
      /\ Only(new, Added)' = Only(new, Added)
  BY <1>1 DEF Only
<1>5. Diffed'
  BY <1>1, <1>3, <1>4 DEF Diffed, Contents
<1>6. \A k : Agree(k)' <=> Agree(k)
  BY DEF Agree, Differs
<1> QED
  BY <1>5, <1>6

LEMMA RemoveKeepsIInv ==
  ASSUME IInv, NEW k \in Keys, RemoveKey(k)
  PROVE  IInv'
<1>1. /\ phase = "apply" /\ phase' = phase /\ k \in remove
      /\ self' = Only(self, DOMAIN self \ {k}) /\ gone' = gone \cup {k}
      /\ UNCHANGED <<kind, old, new, rest, left, made, start, tried, err>>
  BY DEF RemoveKey, TryRemove
<1>2. Diffed' /\ \A x : Agree(x)' <=> Agree(x)
  BY <1>1, ApplyFrame DEF IInv
<1>3. /\ DOMAIN self' = DOMAIN self \ {k}
      /\ \A x \in DOMAIN self' : self'[x] = self[x]
  BY <1>1 DEF Only
<1>4. AppliedInv'
  <2>1. \A x : Held(x)' = Held(x)
    BY <1>1 DEF Held, made
  <2>2. start' = old' => OnOld'
    BY <1>1, <1>3, <2>1 DEF IInv, AppliedInv, OnOld
  <2> QED
    BY <1>1, <2>2 DEF IInv, AppliedInv, made
<1>5. AgreementUntouched'
  BY <1>1, <1>2, <1>3, AgreeFacts DEF IInv, AgreementUntouched
<1>6. RoundTrip'
  BY <1>1 DEF RoundTrip
<1> QED
  BY <1>2, <1>4, <1>5, <1>6 DEF IInv

LEMMA SkipKeepsIInv ==
  ASSUME IInv, SkipChange
  PROVE  IInv'
<1>1. /\ phase = "apply" /\ gone = remove /\ tried < Len(change) /\ tried' = tried + 1
      /\ change[tried + 1].key \notin DOMAIN self
      /\ UNCHANGED <<kind, old, new, rest, left, made, start, self, gone, err, phase>>
  BY DEF SkipChange, Changing
<1>2. Diffed' /\ \A x : Agree(x)' <=> Agree(x)
  BY <1>1, ApplyFrame DEF IInv
<1>3. Len(change) \in Nat /\ tried \in 0 .. Len(change)
  BY DEF IInv, Diffed, ChangeInv, AppliedInv
<1>4. start # old
  <2>1. SUFFICES ASSUME start = old PROVE FALSE
    OBVIOUS
  <2>2. DOMAIN self = DOMAIN old \ remove
    BY <1>1, <2>1 DEF IInv, AppliedInv, OnOld
  <2>3. change[tried + 1].key \in Visited \cap DOMAIN new
    BY <1>1, <1>3 DEF IInv, Diffed, ChangeInv
  <2> QED
    BY <1>1, <2>2, <2>3 DEF IInv, Diffed, Visited
<1>5. AppliedInv'
  BY <1>1, <1>3, <1>4 DEF IInv, AppliedInv, made
<1>6. AgreementUntouched' /\ RoundTrip'
  BY <1>1, <1>2 DEF IInv, AgreementUntouched, RoundTrip
<1> QED
  BY <1>2, <1>5, <1>6 DEF IInv

LEMMA MakeKeepsIInv ==
  ASSUME IInv, MakeChange
  PROVE  IInv'
<1> DEFINE k == change[tried + 1].key
           r == Apply(self[k], change[tried + 1].delta)
<1>1. /\ phase = "apply" /\ gone = remove /\ tried < Len(change) /\ tried' = tried + 1
      /\ k \in DOMAIN self /\ self' = [self EXCEPT ![k] = r.value]
      /\ AfterChange(r.err)
      /\ UNCHANGED <<kind, old, new, rest, left, made, start, gone>>
  BY DEF MakeChange, Changing
<1>2. Len(change) \in Nat /\ tried \in 0 .. Len(change) /\ tried + 1 \in 1 .. Len(change)
  BY <1>1 DEF IInv, Diffed, ChangeInv, AppliedInv
<1>3. /\ k \in Visited \cap DOMAIN new /\ Recurs(k)
      /\ change[tried + 1].delta = Diff(old[k], new[k])
      /\ \A n \in 1 .. Len(change) : change[n].key = k => n = tried + 1
  BY <1>2 DEF IInv, Diffed, ChangeInv
<1>4. phase' \in {"apply", "failed"} /\ (r.err = None => phase' = phase)
  BY <1>1 DEF AfterChange
<1>5. Diffed' /\ \A x : Agree(x)' <=> Agree(x)
  BY <1>1, <1>4, ApplyFrame DEF IInv
<1>6. ASSUME start = old
      PROVE  r.err = None /\ r.value = Apply(old[k], Diff(old[k], new[k])).value
  <2>1. self[k] = Held(k)
    BY <1>1, <1>6 DEF IInv, AppliedInv, OnOld
  <2>2. self[k] = old[k]
    BY <1>2, <1>3, <2>1 DEF Held
  <2>3. old[k] \in Inners /\ new[k] \in Inners
    BY <1>3, OldNewFacts DEF IInv, Recurs, Visited
  <2>4. r = Apply(old[k], Diff(old[k], new[k]))
    BY <1>3, <2>2
  <2> HIDE DEF r
  <2>5. r.err = None
    BY <1>3, <2>3, <2>4, ContractAssumption DEF Recurs
  <2> QED
    BY <2>4, <2>5
<1>7. /\ DOMAIN self' = DOMAIN self /\ self'[k] = r.value
      /\ \A x \in DOMAIN self : x # k => self'[x] = self[x]
  BY <1>1
<1>8. AppliedInv'
  <2>1. \A x : Held(x)' = IF x = k THEN Apply(old[k], Diff(old[k], new[k])).value
                                  ELSE Held(x)
    <3>1. UNCHANGED <<old, new, change>>
      BY <1>1 DEF made
    <3>2. \A n \in 1 .. tried' : n \in 1 .. tried \/ n = tried + 1
      BY <1>1, <1>2
    <3>3. 1 .. tried \subseteq 1 .. tried' /\ tried + 1 \in 1 .. tried'
      BY <1>1, <1>2
    <3> QED
      BY <3>1, <3>2, <3>3 DEF Held
  <2>2. start' = old' => OnOld'
    <3>1. SUFFICES ASSUME start = old PROVE OnOld'
      BY <1>1
    <3>2. OnOld /\ phase' = "apply"
      BY <1>1, <1>4, <1>6, <3>1 DEF IInv, AppliedInv
    <3>3. DOMAIN self' = DOMAIN old' \ gone'
      BY <1>1, <1>7, <3>2 DEF OnOld
    <3>4. \A x \in DOMAIN self' : self'[x] = Held(x)'
      BY <1>1, <1>6, <1>7, <2>1, <3>1, <3>2 DEF OnOld
    <3> QED
      BY <3>2, <3>3, <3>4 DEF OnOld
  <2>3. tried' \in 0 .. Len(change')
    BY <1>1, <1>2 DEF made
  <2> QED
    BY <1>1, <1>4, <2>2, <2>3 DEF IInv, AppliedInv, made
<1>9. AgreementUntouched'
  <2>1. \A x : Agree(x) => x # k
    BY <1>2, AgreeFacts DEF IInv
  <2> QED
    BY <1>1, <1>4, <1>5, <1>7, <2>1 DEF IInv, AgreementUntouched
<1>10. RoundTrip'
  BY <1>1, <1>4, <1>6 DEF RoundTrip
<1> QED
  BY <1>5, <1>8, <1>9, <1>10 DEF IInv

\* What apply leaves under a key that is not added is as good as what new has.
LEMMA HeldIsEquivalent ==
  ASSUME Diffed, phase # "diff", tried = Len(change),
         NEW k \in DOMAIN old \cap DOMAIN new, ~ Resends(k)
  PROVE  Equivalent(Held(k), new[k])
<1>1. kind \in {"bag", "entry", "map"}
  BY ContractAssumption DEF Diffed
<1>2. Visited = DOMAIN old
  BY DEF Diffed, Visited
<1>3. CASE Recurs(k)
  <2>1. \E n \in 1 .. tried : change[n].key = k
    BY <1>2, <1>3 DEF Diffed, ChangeInv
  <2>2. Held(k) = Apply(old[k], Diff(old[k], new[k])).value
    BY <2>1 DEF Held
  <2>3. old[k] \in Inners /\ new[k] \in Inners
    BY <1>3, OldNewFacts DEF Recurs
  <2>4. Same(Apply(old[k], Diff(old[k], new[k])).value, new[k])
    BY <1>3, <2>3, ContractAssumption DEF Recurs
  <2> QED
    BY <1>3, <2>2, <2>4 DEF Equivalent, Recurs
<1>4. CASE ~ Recurs(k)
  <2>1. Held(k) = old[k]
    BY <1>4 DEF Held, Diffed, ChangeInv
  <2>2. CASE kind = "bag"
    BY <2>1, <2>2, OldNewFacts DEF Equivalent
  <2>3. CASE kind = "entry"
    BY <2>1, <2>3 DEF Equivalent, Resends
  <2>4. CASE kind = "map"
    <3>1. old[k] \in Inners /\ new[k] \in Inners /\ Diff(old[k], new[k]) = None
      BY <1>4, <2>4, OldNewFacts DEF Recurs
    <3>2. Same(old[k], new[k])
      BY <3>1, ContractAssumption
    <3> QED
      BY <2>1, <2>4, <3>2 DEF Equivalent
  <2> QED
    BY <1>1, <2>2, <2>3, <2>4
<1> QED
  BY <1>3, <1>4

LEMMA ExtendKeepsIInv ==
  ASSUME IInv, Extend
  PROVE  IInv'
<1>1. /\ phase = "apply" /\ phase' = "done" /\ gone = remove /\ tried = Len(change)
      /\ self' = With(self, add)
      /\ UNCHANGED <<kind, old, new, rest, left, made, start, gone, tried, err>>
  BY DEF Extend, Extended
<1>2. Diffed' /\ \A x : Agree(x)' <=> Agree(x)
  BY <1>1, ApplyFrame DEF IInv
<1>3. /\ DOMAIN add = Added /\ Added \subseteq DOMAIN new
      /\ \A x \in Added : add[x] = new[x]
  BY AddedFacts DEF IInv
<1>4. /\ DOMAIN self' = DOMAIN self \cup Added
      /\ \A x \in Added : self'[x] = new[x]
      /\ \A x \in DOMAIN self \ Added : self'[x] = self[x]
  BY <1>1, <1>3 DEF With
<1>5. AppliedInv'
  BY <1>1 DEF IInv, AppliedInv, OnOld, made
<1>6. AgreementUntouched'
  <2>1. \A x : Agree(x) => x \notin Added
    BY AgreeFacts DEF IInv
  <2> QED
    BY <1>1, <1>2, <1>4, <2>1 DEF IInv, AgreementUntouched
<1>7. RoundTrip'
  <2>1. SUFFICES ASSUME start = old
                 PROVE  /\ DOMAIN self' = DOMAIN new
                        /\ \A k \in DOMAIN new : Equivalent(self'[k], new[k])
    BY <1>1 DEF RoundTrip, Equivalent
  <2>2. /\ DOMAIN self = DOMAIN old \ remove
        /\ \A x \in DOMAIN self : self[x] = Held(x)
    BY <1>1, <2>1 DEF IInv, AppliedInv, OnOld
  <2>3. Visited = DOMAIN old /\ remove = DOMAIN old \ DOMAIN new
    BY <1>1 DEF IInv, Diffed, Visited
  <2>4. \A x \in DOMAIN new : x \in Added <=> x \notin DOMAIN old \/ Resends(x)
    BY <1>1, <2>3 DEF Added
  <2>5. DOMAIN self' = DOMAIN new
    BY <1>3, <1>4, <2>2, <2>3, <2>4
  <2>6. ASSUME NEW k \in DOMAIN new
        PROVE  Equivalent(self'[k], new[k])
    <3>1. CASE k \in Added
      <4>1. self'[k] = new[k]
        BY <1>4, <3>1
      <4>2. kind \in {"bag", "entry", "map"}
        BY ContractAssumption DEF IInv, Diffed
      <4> QED
        BY <4>1, <4>2 DEF Equivalent
    <3>2. CASE k \notin Added
      <4>1. k \in DOMAIN old /\ ~ Resends(k) /\ k \in DOMAIN self
        BY <2>2, <2>3, <2>4, <3>2
      <4>2. self'[k] = Held(k)
        BY <1>4, <2>2, <3>2, <4>1
      <4> QED
        BY <1>1, <4>1, <4>2, HeldIsEquivalent DEF IInv
    <3> QED
      BY <3>1, <3>2
  <2> QED
    BY <2>5, <2>6
<1> QED
  BY <1>2, <1>5, <1>6, <1>7 DEF IInv

LEMMA StutterKeepsIInv ==
  ASSUME IInv, UNCHANGED vars
  PROVE  IInv'
<1>1. /\ UNCHANGED <<kind, old, new, rest, left, add, remove, change>>
      /\ UNCHANGED <<start, self, gone, tried, err, phase>>
  BY DEF vars, made, applying
<1>2. /\ \A x : /\ Recurs(x)' <=> Recurs(x)
                /\ Agree(x)' <=> Agree(x)
                /\ Held(x)' = Held(x)
      /\ Visited' = Visited /\ Added' = Added
  BY <1>1 DEF Recurs, Agree, Differs, Held, Visited, Added, Resends
<1>3. Diffed'
  <2>1. ChangeInv'
    BY <1>1, <1>2 DEF IInv, Diffed, ChangeInv, KeyedDelta
  <2>2. /\ Only(new, DOMAIN new \ Visited)' = Only(new, DOMAIN new \ Visited)
        /\ Only(new, Added)' = Only(new, Added)
    BY <1>1, <1>2 DEF Only
  <2> QED
    BY <1>1, <1>2, <2>1, <2>2 DEF IInv, Diffed, Contents
<1>4. AppliedInv'
  BY <1>1, <1>2 DEF IInv, AppliedInv, OnOld
<1>5. AgreementUntouched'
  BY <1>1, <1>2 DEF IInv, AgreementUntouched
<1>6. RoundTrip'
  BY <1>1 DEF IInv, RoundTrip, Equivalent
<1> QED
  BY <1>3, <1>4, <1>5, <1>6 DEF IInv

-----------------------------------------------------------------------------

\* The strengthening holds throughout diff and apply (bag.rs:67-113,
\* entry.rs:86-154, map.rs:142-234).
THEOREM Invariance == Spec => []IInv
<1>1. IInv /\ [Next]_vars => IInv'
  BY MissingKeepsIInv, MatchedKeepsIInv, DiffReturnsKeepsIInv, RemoveKeepsIInv,
     SkipKeepsIInv, MakeKeepsIInv, ExtendKeepsIInv, StutterKeepsIInv DEF Next
<1> QED
  BY InitIInv, <1>1, PTL DEF Spec

\* Apply on old succeeds and leaves new, up to the values' own notion of equal,
\* whatever the order the collections are visited in: the contract of Delta
\* carries over from the values to the collection (lib.rs:629-630, map.rs:108-112).
THEOREM ContractCarriesOver == Spec => []RoundTrip
BY Invariance, PTL DEF IInv

\* The delta is empty exactly when the collections agree (map.rs:111-112).
THEOREM EmptyIffAgreement == Spec => []EmptyMeansAgreement
<1>1. IInv => EmptyMeansAgreement
  <2>1. SUFFICES ASSUME IInv, phase # "diff"
                 PROVE  IsEmpty <=> \A k \in Keys : Agree(k)
    BY DEF EmptyMeansAgreement
  <2>2. Visited = DOMAIN old
    BY <2>1 DEF IInv, Diffed, Visited
  <2>3. DOMAIN add = Added /\ DOMAIN old \subseteq Keys /\ DOMAIN new \subseteq Keys
    BY <2>1, AddedFacts, OldNewFacts DEF IInv
  <2>4. Len(change) \in Nat /\ (change = <<>> <=> Len(change) = 0)
    BY <2>1, EmptySeq DEF IInv, Diffed, ChangeInv
  <2>5. ASSUME IsEmpty, NEW k \in Keys PROVE Agree(k)
    <3>1. Added = {} /\ remove = {} /\ Len(change) = 0
      BY <2>3, <2>4, <2>5 DEF IsEmpty
    <3>2. k \in DOMAIN old <=> k \in DOMAIN new
      BY <2>1, <2>2, <3>1 DEF IInv, Diffed, Added
    <3>3. k \in DOMAIN old => ~ Resends(k) /\ ~ Recurs(k)
      BY <2>1, <2>2, <3>1, <3>2 DEF IInv, Diffed, ChangeInv, Added
    <3> QED
      BY <2>1, <3>2, <3>3, DiffersFacts DEF IInv, Agree
  <2>6. ASSUME \A k \in Keys : Agree(k) PROVE IsEmpty
    <3>1. \A k \in Keys : /\ k \notin remove /\ k \notin Added
                          /\ \A n \in 1 .. Len(change) : change[n].key # k
      BY <2>1, <2>6, AgreeFacts DEF IInv
    <3>2. remove \subseteq Keys
      BY <2>1, <2>2, <2>3 DEF IInv, Diffed
    <3>3. \A n \in 1 .. Len(change) : change[n].key \in Keys
      BY <2>1, <2>2, <2>3 DEF IInv, Diffed, ChangeInv
    <3>4. Added \subseteq Keys
      BY <2>3 DEF Added
    <3> QED
      BY <2>3, <2>4, <3>1, <3>2, <3>3, <3>4 DEF IsEmpty
  <2> QED
    BY <2>5, <2>6
<1> QED
  BY <1>1, Invariance, PTL

\* Nothing both sides had alike is touched, on any target and wherever apply
\* stops (map.rs:216-233).
THEOREM AgreementIsLeftAlone == Spec => []AgreementUntouched
BY Invariance, PTL DEF IInv

-----------------------------------------------------------------------------
(* The loops compute what Collections says *)

\* What a change makes of the value the target has under its key.
Outcome(k) == Apply(start[k], Diff(old[k], new[k]))

Tried(k) == \E n \in 1 .. tried : change[n].key = k

\* The target once the keys in gone are out and some changes are made.
SoFar == [k \in DOMAIN start \ gone |-> IF Tried(k) THEN Outcome(k).value ELSE start[k]]

\* Of the changes whose keys the target has, only the last tried can fail.
Outcomes ==
  /\ phase # "failed" => err = None
  /\ phase = "failed" =>
       LET k == change[tried].key
       IN tried # 0 /\ k \in DOMAIN start /\ err = Outcome(k).err /\ err # None
  /\ \A n \in 1 .. tried :
       change[n].key \in DOMAIN start /\ (phase = "failed" => n # tried) =>
         Outcome(change[n].key).err = None

OnAny ==
  /\ phase \in {"apply", "failed"} => self = SoFar
  /\ phase = "done" => self = With(SoFar, add) /\ tried = Len(change)
  /\ phase \in {"done", "failed"} => gone = remove
  /\ Outcomes

LEMMA OnAnyInit == Init => OnAny
BY DEF Init, OnAny, Outcomes

LEMMA OnAnyInDiff ==
  ASSUME IInv, OnAny, phase = "diff", UNCHANGED <<kind, tried, err>>,
         \/ phase' = "diff"
         \/ phase' = "apply" /\ UNCHANGED gone /\ self' = start' /\ start' \in Contents(kind)
  PROVE  OnAny'
<1>1. tried = 0 /\ gone = {} /\ err = None /\ kind \in Kinds
  BY DEF IInv, AppliedInv, OnAny, Outcomes, Diffed
<1>2. Outcomes'
  BY <1>1 DEF Outcomes
<1>3. CASE phase' = "diff"
  BY <1>2, <1>3 DEF OnAny
<1>4. CASE phase' = "apply"
  <2>1. self' = [k \in DOMAIN start' |-> start'[k]]
    BY <1>1, <1>4, ContentsFacts
  <2>2. \A k : ~ Tried(k)'
    BY <1>1 DEF Tried
  <2> QED
    BY <1>1, <1>2, <1>4, <2>1, <2>2 DEF OnAny, SoFar
<1> QED
  BY <1>3, <1>4

LEMMA OnAnyRemove ==
  ASSUME IInv, OnAny, NEW k \in Keys, RemoveKey(k)
  PROVE  OnAny'
<1>1. /\ phase = "apply" /\ phase' = phase /\ self' = Only(self, DOMAIN self \ {k})
      /\ gone' = gone \cup {k}
      /\ UNCHANGED <<old, new, change, start, tried, err>>
  BY DEF RemoveKey, TryRemove, made
<1>2. self = SoFar
  BY <1>1 DEF OnAny
<1>3. \A x : /\ Tried(x)' <=> Tried(x)
             /\ Outcome(x)' = Outcome(x)
  BY <1>1 DEF Tried, Outcome
<1>4. self' = SoFar'
  BY <1>1, <1>2, <1>3 DEF SoFar, Only
<1>5. Outcomes'
  BY <1>1, <1>3 DEF OnAny, Outcomes
<1> QED
  BY <1>1, <1>4, <1>5 DEF OnAny

LEMMA OnAnyTry ==
  ASSUME IInv, OnAny, SkipChange \/ MakeChange
  PROVE  OnAny'
<1> DEFINE k == change[tried + 1].key
<1>1. /\ phase = "apply" /\ gone = remove /\ tried < Len(change) /\ tried' = tried + 1
      /\ UNCHANGED <<old, new, change, start, gone, remove>>
  BY DEF SkipChange, MakeChange, Changing, made
<1>2. Len(change) \in Nat /\ tried \in 0 .. Len(change) /\ tried + 1 \in 1 .. Len(change)
  BY <1>1 DEF IInv, Diffed, ChangeInv, AppliedInv
<1>3. /\ k \notin remove /\ change[tried + 1].delta = Diff(old[k], new[k])
      /\ \A n \in 1 .. tried : change[n].key # k
  BY <1>2 DEF IInv, Diffed, ChangeInv
<1>4. self = SoFar /\ err = None /\ ~ Tried(k)
  BY <1>1, <1>3 DEF OnAny, Outcomes, Tried
<1>5. /\ \A x : Outcome(x)' = Outcome(x)
      /\ \A x : Tried(x)' <=> Tried(x) \/ x = k
  <2>1. \A n \in 1 .. tried' : n \in 1 .. tried \/ n = tried + 1
    BY <1>1, <1>2
  <2>2. 1 .. tried \subseteq 1 .. tried' /\ tried + 1 \in 1 .. tried'
    BY <1>1, <1>2
  <2> QED
    BY <1>1, <2>1, <2>2 DEF Outcome, Tried
<1>6. k \in DOMAIN self <=> k \in DOMAIN start
  BY <1>1, <1>3, <1>4 DEF SoFar
<1>7. \A n \in 1 .. tried' : n \in 1 .. tried \/ n = tried'
  BY <1>1, <1>2
<1>8. \A n \in 1 .. tried : change[n].key \in DOMAIN start => Outcome(change[n].key).err = None
  BY <1>1 DEF OnAny, Outcomes
<1>9. CASE SkipChange
  <2>1. k \notin DOMAIN start /\ UNCHANGED <<self, err, phase>>
    BY <1>6, <1>9 DEF SkipChange
  <2>2. self' = SoFar'
    BY <1>1, <1>4, <1>5, <2>1 DEF SoFar
  <2>3. Outcomes'
    BY <1>1, <1>4, <1>5, <1>7, <1>8, <2>1 DEF Outcomes
  <2> QED
    BY <1>1, <2>1, <2>2, <2>3 DEF OnAny
<1>10. CASE MakeChange
  <2>1. /\ k \in DOMAIN self /\ self' = [self EXCEPT ![k] = Apply(self[k], change[tried + 1].delta).value]
        /\ AfterChange(Apply(self[k], change[tried + 1].delta).err)
    BY <1>10 DEF MakeChange
  <2>2. self[k] = start[k] /\ k \in DOMAIN start
    BY <1>4, <1>6, <2>1 DEF SoFar
  <2>3. Apply(self[k], change[tried + 1].delta) = Outcome(k)
    BY <1>3, <2>2 DEF Outcome
  <2>4. self' = [self EXCEPT ![k] = Outcome(k).value]
    BY <2>1, <2>3
  <2>5. self' = SoFar'
    <3>1. DOMAIN self' = DOMAIN start \ gone
      BY <1>4, <2>4 DEF SoFar
    <3>2. self' = [x \in DOMAIN start \ gone |-> IF x = k THEN Outcome(k).value ELSE self[x]]
      BY <1>4, <2>4 DEF SoFar
    <3> QED
      BY <1>1, <1>4, <1>5, <3>2 DEF SoFar
  <2>6. CASE Outcome(k).err = None
    <3>1. UNCHANGED <<phase, err>>
      BY <2>1, <2>3, <2>6 DEF AfterChange
    <3>2. Outcomes'
      BY <1>1, <1>4, <1>5, <1>7, <1>8, <2>6, <3>1 DEF Outcomes
    <3> QED
      BY <1>1, <2>5, <3>1, <3>2 DEF OnAny
  <2>7. CASE Outcome(k).err # None
    <3>1. phase' = "failed" /\ err' = Outcome(k).err
      BY <2>1, <2>3, <2>7 DEF AfterChange
    <3>2. Outcomes'
      BY <1>1, <1>2, <1>5, <1>7, <1>8, <2>2, <2>7, <3>1 DEF Outcomes
    <3> QED
      BY <1>1, <2>5, <3>1, <3>2 DEF OnAny
  <2> QED
    BY <2>6, <2>7
<1> QED
  BY <1>9, <1>10

LEMMA OnAnyExtend ==
  ASSUME IInv, OnAny, Extend
  PROVE  OnAny'
<1>1. /\ phase = "apply" /\ phase' = "done" /\ gone = remove /\ tried = Len(change)
      /\ self' = With(self, add)
      /\ UNCHANGED <<old, new, add, remove, change, start, gone, tried, err>>
  BY DEF Extend, Extended, made
<1>2. \A x : /\ Tried(x)' <=> Tried(x)
             /\ Outcome(x)' = Outcome(x)
  BY <1>1 DEF Tried, Outcome
<1>3. SoFar' = SoFar /\ self = SoFar
  BY <1>1, <1>2 DEF OnAny, SoFar
<1>4. Outcomes'
  BY <1>1, <1>2 DEF OnAny, Outcomes
<1> QED
  BY <1>1, <1>3, <1>4 DEF OnAny, With

LEMMA OnAnyStutter ==
  ASSUME OnAny, UNCHANGED vars
  PROVE  OnAny'
<1>1. UNCHANGED <<old, new, add, remove, change, start, self, gone, tried, err, phase>>
  BY DEF vars, made, applying
<1>2. \A x : /\ Tried(x)' <=> Tried(x)
             /\ Outcome(x)' = Outcome(x)
  BY <1>1 DEF Tried, Outcome
<1>3. SoFar' = SoFar
  BY <1>1, <1>2 DEF SoFar
<1>4. Outcomes'
  BY <1>1, <1>2 DEF OnAny, Outcomes
<1> QED
  BY <1>1, <1>3, <1>4 DEF OnAny, With

\* Once diff has returned, every key of old has been visited.
LEMMA ReturnedFacts ==
  ASSUME IInv, phase # "diff"
  PROVE  /\ Visited = DOMAIN old /\ remove = DOMAIN old \ DOMAIN new
         /\ \A k \in DOMAIN new : k \in Added <=> k \notin DOMAIN old \/ Resends(k)
         /\ kind \in {"bag", "entry", "map"} /\ Len(change) \in Nat
         /\ DOMAIN change = 1 .. Len(change)
         /\ IsFiniteSet(DOMAIN old \cap DOMAIN new)
<1>1. Visited = DOMAIN old
  BY DEF IInv, Diffed, Visited
<1>2. change \in Seq(KeyedDelta)
  BY DEF IInv, Diffed, ChangeInv
<1>3. DOMAIN old \subseteq Keys
  BY OldNewFacts DEF IInv
<1>4. IsFiniteSet(DOMAIN old \cap DOMAIN new)
  BY <1>3, FinitenessAssumption, FS_Subset
<1> QED
  BY <1>1, <1>2, <1>4, ContractAssumption DEF IInv, Diffed, Added

LEMMA OnlySame ==
  ASSUME NEW map, NEW S, NEW T, DOMAIN map \cap S = DOMAIN map \cap T
  PROVE  Only(map, S) = Only(map, T)
BY DEF Only

LEMMA MapDeltaIsMade ==
  ASSUME IInv, phase # "diff", kind = "map"
  PROVE  LET d == MapDiff(old, new,
                    [k \in DOMAIN old \cap DOMAIN new |-> Diff(old[k], new[k])])
         IN Range(change) = Range(d.change) /\ IsInjective(change)
<1> DEFINE both == DOMAIN old \cap DOMAIN new
           inner == [k \in both |-> Diff(old[k], new[k])]
           d == MapDiff(old, new, inner)
           c == d.change
<1>1. /\ Visited = DOMAIN old /\ DOMAIN change = 1 .. Len(change) /\ IsFiniteSet(both)
  BY ReturnedFacts
<1>2. DOMAIN inner = both /\ \A k \in both : inner[k] = Diff(old[k], new[k])
  OBVIOUS
<1> HIDE DEF inner
<1>3. /\ \A i \in DOMAIN c : /\ c[i] = [key |-> c[i].key, delta |-> inner[c[i].key]]
                             /\ c[i].key \in both /\ inner[c[i].key] # None
      /\ \A k \in both : inner[k] # None => \E i \in DOMAIN c : c[i].key = k
  <2>1. IsFiniteSet(DOMAIN inner)
    BY <1>1, <1>2
  <2>2. /\ \A i \in DOMAIN c : /\ c[i] = [key |-> c[i].key, delta |-> inner[c[i].key]]
                               /\ c[i].key \in {k \in DOMAIN inner : inner[k] # None}
        /\ \A k \in {k \in DOMAIN inner : inner[k] # None} :
             \E i \in DOMAIN c : c[i].key = k
    <3>1. MadeBy(d, old, new, inner)
      BY <2>1, MapDiffFacts
    <3> HIDE DEF d
    <3> QED
      BY <3>1 DEF MadeBy
  <2> HIDE DEF d
  <2> QED
    BY <1>2, <2>2
<1> HIDE DEF both, d
<1>4. change \in Seq(KeyedDelta)
  BY DEF IInv, Diffed, ChangeInv
<1>5. \A i \in DOMAIN change :
        /\ change[i] = [key |-> change[i].key, delta |-> change[i].delta]
        /\ change[i].key \in both
        /\ change[i].delta = inner[change[i].key] /\ inner[change[i].key] # None
  <2> TAKE i \in DOMAIN change
  <2>1. change[i] \in KeyedDelta
    BY <1>1, <1>4
  <2>2. change[i] = [key |-> change[i].key, delta |-> change[i].delta]
    BY <2>1 DEF KeyedDelta
  <2>3. change[i].key \in Visited \cap DOMAIN new /\ Recurs(change[i].key)
        /\ change[i].delta = Diff(old[change[i].key], new[change[i].key])
    BY <1>1 DEF IInv, Diffed, ChangeInv
  <2> QED
    BY <1>1, <1>2, <2>2, <2>3 DEF both, Recurs
<1>6. \A k \in both : inner[k] # None => \E i \in DOMAIN change : change[i].key = k
  BY <1>1, <1>2 DEF IInv, Diffed, ChangeInv, both, Recurs
<1>7. Range(change) \subseteq Range(c)
  <2> SUFFICES ASSUME NEW i \in DOMAIN change PROVE \E j \in DOMAIN c : change[i] = c[j]
    BY DEF Range
  <2>1. PICK j \in DOMAIN c : c[j].key = change[i].key
    BY <1>3, <1>5
  <2> QED
    BY <1>3, <1>5, <2>1
<1>8. Range(c) \subseteq Range(change)
  <2> SUFFICES ASSUME NEW i \in DOMAIN c PROVE \E j \in DOMAIN change : c[i] = change[j]
    BY DEF Range
  <2>1. PICK j \in DOMAIN change : change[j].key = c[i].key
    BY <1>3, <1>6
  <2> QED
    BY <1>3, <1>5, <2>1
<1>9. IsInjective(change)
  BY <1>1 DEF IInv, Diffed, ChangeInv, IsInjective
<1> QED
  BY <1>7, <1>8, <1>9 DEF both, inner, d

\* Whatever order the loops of diff took, the delta is the one of Collections.
LEMMA DiffIsImplemented ==
  ASSUME IInv, phase # "diff"
  PROVE  DiffImplements
<1> DEFINE differing == {k \in DOMAIN old \cap DOMAIN new : Differs(k)}
<1>1. /\ remove = DOMAIN old \ DOMAIN new
      /\ \A k \in DOMAIN new : k \in Added <=> k \notin DOMAIN old \/ Resends(k)
      /\ add = Only(new, Added) /\ DOMAIN add = Added /\ Added \subseteq DOMAIN new
      /\ kind \in {"bag", "entry", "map"}
  BY ReturnedFacts, AddedFacts DEF IInv, Diffed
<1>2. CASE kind = "bag"
  <2>1. DOMAIN add = DOMAIN new \ DOMAIN old
    BY <1>1, <1>2 DEF Resends
  <2> QED
    BY <1>1, <1>2, <2>1 DEF DiffImplements, BagDiff
<1>3. CASE kind = "entry"
  <2>1. DOMAIN new \cap Added = DOMAIN new \cap ((DOMAIN new \ DOMAIN old) \cup differing)
    BY <1>1, <1>3 DEF Resends, Differs
  <2>2. add = Only(new, (DOMAIN new \ DOMAIN old) \cup differing)
    BY <1>1, <2>1, OnlySame
  <2> QED
    BY <1>1, <1>3, <2>2, Zenon DEF DiffImplements, EntryDiff
<1>4. CASE kind = "map"
  <2> DEFINE inner == [k \in DOMAIN old \cap DOMAIN new |-> Diff(old[k], new[k])]
             d == MapDiff(old, new, inner)
  <2>1. DOMAIN new \cap Added = DOMAIN new \cap (DOMAIN new \ DOMAIN old)
    BY <1>1, <1>4 DEF Resends
  <2>2. add = Only(new, DOMAIN new \ DOMAIN old)
    BY <1>1, <2>1, OnlySame
  <2>3. d.add = Only(new, DOMAIN new \ DOMAIN old) /\ d.remove = DOMAIN old \ DOMAIN new
    BY DEF MapDiff
  <2>4. Range(change) = Range(d.change) /\ IsInjective(change)
    BY <1>4, MapDeltaIsMade
  <2> HIDE DEF d
  <2>5. add = d.add /\ remove = d.remove /\ Range(change) = Range(d.change)
        /\ IsInjective(change)
    BY <1>1, <2>2, <2>3, <2>4
  <2> QED
    BY <1>4, <2>5, Zenon DEF DiffImplements, d
<1> QED
  BY <1>1, <1>2, <1>3, <1>4

LEMMA MapIsApplied ==
  ASSUME IInv, OnAny, phase \in {"done", "failed"}, kind = "map"
  PROVE  [err |-> err, value |-> self] =
           MapApply(start, [add |-> add, remove |-> remove, change |-> change], Attempts)
<1> DEFINE d == [add |-> add, remove |-> remove, change |-> change]
<1>1. d.add = add /\ d.remove = remove /\ d.change = change
  OBVIOUS
<1> HIDE DEF d
<1>2. /\ remove = DOMAIN old \ DOMAIN new /\ gone = remove
      /\ Len(change) \in Nat /\ DOMAIN change = 1 .. Len(change)
      /\ tried \in 0 .. Len(change)
  BY ReturnedFacts DEF OnAny, IInv, AppliedInv
<1>3. /\ \A n \in 1 .. Len(change) :
           /\ change[n].key \notin remove
           /\ change[n].delta = Diff(old[change[n].key], new[change[n].key])
      /\ \A m, n \in 1 .. Len(change) : change[m].key = change[n].key => m = n
  BY <1>2 DEF IInv, Diffed, ChangeInv
<1>4. /\ DOMAIN Attempts = {n \in 1 .. Len(change) : change[n].key \in DOMAIN start}
      /\ \A n \in DOMAIN Attempts : Attempts[n] = Outcome(change[n].key)
  BY <1>2, <1>3 DEF Attempts, Outcome
<1>5. Attempted(start, d, Attempts)
  BY <1>1, <1>2, <1>3, <1>4 DEF Attempted
<1>6. ASSUME NEW seen \in SUBSET DOMAIN Attempts,
             \A n \in DOMAIN Attempts : n \in seen <=> n \in 1 .. tried
      PROVE  SoFar = Replaced(start, d, Attempts, seen)
  <2> DEFINE r == Replaced(start, d, Attempts, seen)
  <2>1. /\ IsMap(r) /\ DOMAIN r = DOMAIN start \ remove
        /\ \A i \in seen : r[change[i].key] = Attempts[i].value
        /\ \A k \in DOMAIN r : (\A i \in seen : change[i].key # k) => r[k] = start[k]
    <3>1. ReplacedBy(r, start, d, Attempts, seen)
      BY <1>5, ReplacedFacts
    <3> HIDE DEF r
    <3> QED
      BY <1>1, <3>1 DEF ReplacedBy
  <2> HIDE DEF r
  <2>2. IsMap(SoFar) /\ DOMAIN SoFar = DOMAIN start \ remove
    BY <1>2 DEF IsMap, SoFar
  <2>3. ASSUME NEW k \in DOMAIN start \ remove
        PROVE  SoFar[k] = r[k]
    <3>1. CASE Tried(k)
      <4>1. PICK n \in 1 .. tried : change[n].key = k
        BY <3>1 DEF Tried
      <4>2. n \in DOMAIN Attempts /\ n \in seen
        BY <1>2, <1>4, <1>6, <4>1
      <4>3. r[k] = Outcome(k).value
        BY <1>4, <2>1, <4>1, <4>2
      <4> QED
        BY <1>2, <3>1, <4>3 DEF SoFar
    <3>2. CASE ~ Tried(k)
      <4>1. \A i \in seen : change[i].key # k
        BY <1>6, <3>2 DEF Tried
      <4> QED
        BY <1>2, <2>1, <3>2, <4>1 DEF SoFar
    <3> QED
      BY <3>1, <3>2
  <2> QED
    BY <2>1, <2>2, <2>3, SameMap DEF r
<1>7. CASE phase = "done"
  <2>1. self = With(SoFar, add) /\ tried = Len(change) /\ err = None
    BY <1>7 DEF OnAny, Outcomes
  <2>2. \A n \in DOMAIN Attempts : Attempts[n].err = None
    BY <1>4, <1>7, <2>1 DEF OnAny, Outcomes
  <2>3. SoFar = Replaced(start, d, Attempts, DOMAIN Attempts)
    BY <1>4, <1>6, <2>1
  <2>4. MapApply(start, d, Attempts) =
          [err |-> None, value |-> With(Replaced(start, d, Attempts, DOMAIN Attempts), add)]
    BY <1>1, <1>5, <2>2, MapApplySucceeds
  <2> QED
    BY <2>1, <2>3, <2>4 DEF d
<1>8. CASE phase = "failed"
  <2>1. /\ self = SoFar /\ tried # 0 /\ change[tried].key \in DOMAIN start
        /\ err = Outcome(change[tried].key).err /\ err # None
    BY <1>8 DEF OnAny, Outcomes
  <2>2. tried \in DOMAIN Attempts /\ Attempts[tried].err = err /\ Attempts[tried].err # None
    BY <1>2, <1>4, <2>1
  <2>3. \A n \in DOMAIN Attempts : n < tried => Attempts[n].err = None
    BY <1>2, <1>4, <1>8 DEF OnAny, Outcomes
  <2> DEFINE seen == {n \in DOMAIN Attempts : n <= tried}
  <2>4. MapApply(start, d, Attempts) =
          [err |-> Attempts[tried].err, value |-> Replaced(start, d, Attempts, seen)]
    BY <1>5, <2>2, <2>3, MapApplyFails
  <2>5. \A n \in DOMAIN Attempts : n \in seen <=> n \in 1 .. tried
    BY <1>2, <1>4
  <2>6. SoFar = Replaced(start, d, Attempts, seen)
    BY <1>6, <2>5
  <2> QED
    BY <2>1, <2>2, <2>4, <2>6 DEF d
<1> QED
  BY <1>7, <1>8

\* And apply does to any target what Collections says.
LEMMA ApplyIsImplemented ==
  ASSUME IInv, OnAny, phase \in {"done", "failed"}
  PROVE  ApplyImplements
<1>1. kind \in {"bag", "entry", "map"}
  BY ContractAssumption DEF IInv, Diffed
<1>2. ASSUME kind # "map"
      PROVE  /\ phase = "done" /\ gone = remove /\ self = With(SoFar, add)
             /\ SoFar = Only(start, DOMAIN start \ remove)
  <2>1. \A n \in 1 .. Len(change) : FALSE
    BY <1>2 DEF IInv, Diffed, ChangeInv, Recurs
  <2>2. Len(change) \in Nat /\ tried \in 0 .. Len(change)
    BY DEF IInv, Diffed, ChangeInv, AppliedInv
  <2>3. tried = 0
    BY <2>1, <2>2
  <2>4. phase = "done" /\ gone = remove /\ self = With(SoFar, add)
    BY <2>3 DEF OnAny, Outcomes
  <2>5. \A k : ~ Tried(k)
    BY <2>3 DEF Tried
  <2>6. SoFar = Only(start, DOMAIN start \ remove)
    BY <2>4, <2>5 DEF SoFar, Only
  <2> QED
    BY <2>4, <2>6
<1>3. CASE kind = "bag"
  <2>1. DOMAIN self = (DOMAIN start \ remove) \cup DOMAIN add
    BY <1>2, <1>3 DEF With, Only
  <2> QED
    BY <1>3, <2>1 DEF ApplyImplements, BagApply
<1>4. CASE kind = "entry"
  BY <1>2, <1>4, Zenon DEF ApplyImplements, EntryApply
<1>5. CASE kind = "map"
  BY <1>5, MapIsApplied, Zenon DEF ApplyImplements
<1> QED
  BY <1>1, <1>3, <1>4, <1>5

\* The loops of bag.rs, entry.rs and map.rs, whatever order they take and
\* wherever they stop, compute the functions of Collections that Derive is
\* built on (bag.rs:67-113, entry.rs:86-154, map.rs:142-234).
THEOREM LoopsImplementCollections == Spec => []ImplementsCollections
<1>1. Init => OnAny
  BY OnAnyInit
<1>2. IInv /\ OnAny /\ [Next]_vars => OnAny'
  <2> SUFFICES ASSUME IInv, OnAny, [Next]_vars PROVE OnAny'
    OBVIOUS
  <2>1. CASE \E k \in Keys : VisitMissing(k) \/ VisitMatched(k)
    <3>1. phase = "diff" /\ phase' = "diff" /\ UNCHANGED <<kind, tried, err>>
      BY <2>1 DEF VisitMissing, VisitMatched, applying
    <3> QED
      BY <3>1, OnAnyInDiff
  <2>2. CASE DiffReturns
    BY <2>2, OnAnyInDiff DEF DiffReturns
  <2> QED
    BY <2>1, <2>2, OnAnyRemove, OnAnyTry, OnAnyExtend, OnAnyStutter DEF Next
<1>3. IInv /\ OnAny => ImplementsCollections
  BY DiffIsImplemented, ApplyIsImplemented DEF ImplementsCollections
<1> QED
  BY Invariance, <1>1, <1>2, <1>3, PTL DEF Spec
=============================================================================
