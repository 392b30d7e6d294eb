----------------------------- MODULE Membership -----------------------------
(***************************************************************************)
(* The loops of bag.rs, entry.rs and map.rs, one element of the collection *)
(* at a time, and the dispatch of unordered.rs between the first two.      *)
(* Collections says what they compute, from whole collections at once.     *)
(*                                                                         *)
(* The three have one shape.  diff takes each element of old out of new    *)
(* and finds what is left there was added; apply takes out the removals,   *)
(* makes the changes until one fails, and extends by the additions.  A     *)
(* collection is a function from its keys to what TryIndex finds under     *)
(* them, which for a set is the element itself.  A hash collection yields  *)
(* its elements in an order of its own, so any order is possible.          *)
(*                                                                         *)
(* An operator named A_B is a mutation of the operator A that follows it,  *)
(* never used by the model.                                                *)
(***************************************************************************)
EXTENDS Collections

CONSTANTS
  Kinds,        \* which of "bag", "entry" and "map" are exercised
  Keys,         \* the elements of sets, the keys of maps
  Scalars,      \* the values of a map under entry.rs
  Ne(_, _),     \* their !=
  Inners,       \* the values of a map under map.rs
  Diff(_, _),   \* their Delta::delta: None, or a delta
  Apply(_, _),  \* their Delta::apply_delta: [err, value]
  Same(_, _)    \* what their contract means by equal

\* A collection is finite.
ASSUME FinitenessAssumption == IsFiniteSet(Keys)

\* The contract of Delta (lib.rs:612-642), which the values of a map bring.
ASSUME ContractAssumption ==
  /\ Kinds \subseteq {"bag", "entry", "map"}
  /\ \A o, n \in Inners :
       IF Diff(o, n) = None THEN Same(o, n)
       ELSE Apply(o, Diff(o, n)).err = None /\ Same(Apply(o, Diff(o, n)).value, n)

VARIABLES
  kind,      \* whose loops these are
  old, new,  \* diff's arguments
  rest,      \* the keys of old still to be visited
  left,      \* what diff has left of new
  add, remove, change,  \* the delta: pairs, keys, and keys with a delta
  start,     \* what apply is called on
  self,      \* what it has made of that
  gone,      \* how much of remove it has taken out
  tried,     \* how many changes it has made or skipped
  err,       \* what it returned: None for Ok(())
  phase      \* "diff", "apply", "done" or "failed"

made == <<add, remove, change>>
applying == <<start, self, gone, tried, err>>
vars == <<kind, old, new, rest, left, made, applying, phase>>

Contents(k) ==
  CASE k = "bag"   -> {[x \in S |-> x] : S \in SUBSET Keys}
    [] k = "entry" -> UNION {[S -> Scalars] : S \in SUBSET Keys}
    [] k = "map"   -> UNION {[S -> Inners] : S \in SUBSET Keys}

\* TryIndex::try_remove: HashMap::remove, HashSet::take and the like.
TryRemove(map, k) == Only(map, DOMAIN map \ {k})

Init ==
  /\ kind \in Kinds
  /\ old \in Contents(kind) /\ new \in Contents(kind)
  /\ rest = DOMAIN old /\ left = new
  /\ add = <<>> /\ remove = {} /\ change = <<>>
  /\ start = <<>> /\ self = <<>> /\ gone = {} /\ tried = 0 /\ err = None
  /\ phase = "diff"

-----------------------------------------------------------------------------
(* diff *)

\* new.try_remove(&key) is None.
VisitMissing(k) ==
  /\ phase = "diff" /\ k \in rest
  /\ k \notin DOMAIN left
  /\ remove' = remove \cup {k}
  /\ rest' = rest \ {k}
  /\ UNCHANGED <<kind, old, new, left, add, change, applying, phase>>

\* entry.rs: the value it held before travels.
Resent_Old(k) ==
  IF kind = "entry" /\ Ne(left[k], old[k]) THEN With(add, [x \in {k} |-> old[x]]) ELSE add

\* entry.rs: a value that is != travels again.
Resent(k) ==
  IF kind = "entry" /\ Ne(left[k], old[k]) THEN With(add, [x \in {k} |-> left[x]]) ELSE add

\* map.rs: the deltas of values in both.
Changed(k) ==
  IF kind = "map" /\ Diff(old[k], left[k]) # None
  THEN Append(change, [key |-> k, delta |-> Diff(old[k], left[k])])
  ELSE change

\* The match is only looked up: try_index in place of try_remove.
TakenOut_Left(k) == left

TakenOut(k) == TryRemove(left, k)

VisitMatched(k) ==
  /\ phase = "diff" /\ k \in rest
  /\ k \in DOMAIN left
  /\ add' = Resent(k)
  /\ change' = Changed(k)
  /\ left' = TakenOut(k)
  /\ rest' = rest \ {k}
  /\ UNCHANGED <<kind, old, new, remove, applying, phase>>

\* A delta that only changes values says nothing.
IsEmpty_NoChanges == DOMAIN add = {} /\ remove = {}

\* Unordered::diff, and the is_empty test the derive makes of a map: whether
\* the field has nothing to say once the loops are done.
IsEmpty == DOMAIN add = {} /\ remove = {} /\ change = <<>>

\* diff returns, what is left of new being added, and apply is called.
DiffReturns ==
  /\ phase = "diff" /\ rest = {}
  /\ add' = With(add, left)
  /\ start' \in Contents(kind)
  /\ self' = start'
  /\ phase' = "apply"
  /\ UNCHANGED <<kind, old, new, rest, left, remove, change, gone, tried, err>>

-----------------------------------------------------------------------------
(* apply *)

\* target.try_remove(&key), whether or not it is there.
RemoveKey(k) ==
  /\ phase = "apply" /\ k \in remove \ gone
  /\ self' = TryRemove(self, k)
  /\ gone' = gone \cup {k}
  /\ UNCHANGED <<kind, old, new, rest, left, made, start, tried, err, phase>>

Changing == phase = "apply" /\ gone = remove /\ tried < Len(change)

\* try_index_mut finds nothing under the key of the change.
SkipChange ==
  /\ Changing
  /\ change[tried + 1].key \notin DOMAIN self
  /\ tried' = tried + 1
  /\ UNCHANGED <<kind, old, new, rest, left, made, start, self, gone, err, phase>>

\* An error is swallowed, and the loop goes on.
AfterChange_Ok(e) == phase' = phase /\ err' = err

\* The ? of value.apply_delta(delta)?.
AfterChange(e) ==
  IF e = None THEN UNCHANGED <<phase, err>> ELSE phase' = "failed" /\ err' = e

MakeChange ==
  /\ Changing
  /\ LET k == change[tried + 1].key
         r == Apply(self[k], change[tried + 1].delta)
     IN /\ k \in DOMAIN self
        /\ self' = [self EXCEPT ![k] = r.value]
        /\ AfterChange(r.err)
  /\ tried' = tried + 1
  /\ UNCHANGED <<kind, old, new, rest, left, made, start, gone>>

Extended == With(self, add)

Extend ==
  /\ phase = "apply" /\ gone = remove /\ tried = Len(change)
  /\ self' = Extended
  /\ phase' = "done"
  /\ UNCHANGED <<kind, old, new, rest, left, made, start, gone, tried, err>>

Next ==
  \/ \E k \in Keys : VisitMissing(k) \/ VisitMatched(k) \/ RemoveKey(k)
  \/ DiffReturns \/ SkipChange \/ MakeChange \/ Extend

Spec == Init /\ [][Next]_vars

-----------------------------------------------------------------------------
(* Properties *)

\* Whether the code finds the values of a key of both to differ.
Differs(k) ==
  CASE kind = "bag"   -> FALSE
    [] kind = "entry" -> Ne(new[k], old[k])
    [] kind = "map"   -> Diff(old[k], new[k]) # None

Agree(k) ==
  /\ k \in DOMAIN old <=> k \in DOMAIN new
  /\ k \in DOMAIN old => ~ Differs(k)

\* What the receiver is promised of a value it could not tell from the new one.
Equivalent(v, w) ==
  CASE kind = "bag"   -> v = w
    [] kind = "entry" -> v = w \/ ~ Ne(w, v)
    [] kind = "map"   -> v = w \/ Same(v, w)

\* The contract of Delta carries over from values to maps of them, in whatever
\* order the collections are visited: apply on old succeeds and leaves new.
RoundTrip ==
  /\ phase = "failed" => start # old
  /\ phase = "done" /\ start = old =>
       /\ DOMAIN self = DOMAIN new
       /\ \A k \in DOMAIN new : Equivalent(self[k], new[k])

\* "Empty when the collections agree" (map.rs:111-112), and only then; nothing
\* between is_empty and the loops loses a difference.
EmptyMeansAgreement ==
  phase # "diff" =>
    (IsEmpty <=> \A k \in Keys : Agree(k))

\* At every moment of apply, on any target and when it fails half way, a key
\* on which old and new agree is as it was.
AgreementUntouched ==
  phase # "diff" =>
    \A k \in Keys : Agree(k) =>
      /\ k \in DOMAIN self <=> k \in DOMAIN start
      /\ k \in DOMAIN start => self[k] = start[k]

Attempts ==
  [i \in {n \in DOMAIN change : change[n].key \in DOMAIN start} |->
     Apply(start[change[i].key], change[i].delta)]

\* The loops make the delta Collections says, but for the order of changes.
DiffImplements ==
  LET differing == {k \in DOMAIN old \cap DOMAIN new : Differs(k)}
  IN CASE kind = "bag" ->
            [add |-> DOMAIN add, remove |-> remove] = BagDiff(DOMAIN old, DOMAIN new)
       [] kind = "entry" ->
            [add |-> add, remove |-> remove] = EntryDiff(old, new, differing)
       [] kind = "map" ->
            LET d == MapDiff(old, new,
                       [k \in DOMAIN old \cap DOMAIN new |-> Diff(old[k], new[k])])
            IN /\ add = d.add /\ remove = d.remove
               /\ Range(change) = Range(d.change) /\ IsInjective(change)

\* And they do to a target what Collections says, a failure included: the
\* changes before it made, none behind it, and no addition.
ApplyImplements ==
  CASE kind = "bag" ->
         DOMAIN self = BagApply(DOMAIN start, [add |-> DOMAIN add, remove |-> remove])
    [] kind = "entry" -> self = EntryApply(start, [add |-> add, remove |-> remove])
    [] kind = "map" ->
         [err |-> err, value |-> self] =
           MapApply(start, [add |-> add, remove |-> remove, change |-> change], Attempts)

\* The operators Derive builds on are what the loops compute.
ImplementsCollections ==
  /\ phase # "diff" => DiffImplements
  /\ phase \in {"done", "failed"} => ApplyImplements
=============================================================================
