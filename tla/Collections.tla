---------------------------- MODULE Collections ----------------------------
(***************************************************************************)
(* What the diffs of collections compute: bag.rs (sets), entry.rs (maps    *)
(* whose values are compared with ==), map.rs (maps whose values have a    *)
(* Delta of their own) and seq.rs (sequences).  Membership and Seq take    *)
(* the same code step by step.                                             *)
(*                                                                         *)
(* A set is a set and a map is a function on its keys.  The Vecs of a      *)
(* delta keep no order that applying can see, so they are sets, or for     *)
(* (key, value) pairs a function; the one exception is MapDelta::change,   *)
(* whose order decides what an error leaves behind.                        *)
(*                                                                         *)
(* An operator named A_B is a mutation of the operator A that follows it,  *)
(* never used by the model.                                                *)
(***************************************************************************)
EXTENDS Option, SequencesExt

\* A map is the function of what it holds.
IsMap(map) == map = [k \in DOMAIN map |-> map[k]]

\* A map with only the keys in S left.
Only(map, S) == [k \in DOMAIN map \cap S |-> map[k]]

\* Extend::extend and Vec::push of pairs: an entry replaces what its key held.
With(map, entries) ==
  [k \in DOMAIN map \cup DOMAIN entries |->
     IF k \in DOMAIN entries THEN entries[k] ELSE map[k]]

-----------------------------------------------------------------------------
(* bag.rs: HashSet and BTreeSet under field_type = "unordered" *)

BagDiff(old, new) == [add |-> new \ old, remove |-> old \ new]

BagIsEmpty(d) == d.add = {} /\ d.remove = {}

\* What the delta lists changes sides, whichever side it was on.
BagApply_Flip(target, d) ==
  LET listed == d.add \cup d.remove
  IN (target \ listed) \cup (listed \ target)

BagApply(target, d) == (target \ d.remove) \cup d.add

-----------------------------------------------------------------------------
(* entry.rs: HashMap and BTreeMap under field_type = "unordered" *)

\* changed: the keys of both whose values are !=.
EntryDiff(old, new, changed) ==
  [add |-> Only(new, (DOMAIN new \ DOMAIN old) \cup changed),
   remove |-> DOMAIN old \ DOMAIN new]

EntryIsEmpty(d) == DOMAIN d.add = {} /\ d.remove = {}

\* An addition overwrites what its key held.
EntryApply(target, d) == With(Only(target, DOMAIN target \ d.remove), d.add)

-----------------------------------------------------------------------------
(* map.rs: field_type = "unordered-delta" *)

\* inner: for each key of both, the Delta::delta of its two values.  The map
\* is visited in an order of its own.
MapDiff(old, new, inner) ==
  LET visited == SetToSeq({k \in DOMAIN inner : inner[k] # None})
  IN [add |-> Only(new, DOMAIN new \ DOMAIN old),
      remove |-> DOMAIN old \ DOMAIN new,
      change |-> [i \in DOMAIN visited |->
                    [key |-> visited[i], delta |-> inner[visited[i]]]]]

\* A delta that only changes entries counts as empty.
MapIsEmpty_NoChanges(d) == DOMAIN d.add = {} /\ d.remove = {}

MapIsEmpty(d) == DOMAIN d.add = {} /\ d.remove = {} /\ d.change = <<>>

\* Removals, then the changes one by one until one of them fails, then the
\* additions.  attempt: for each change whose key target has, what apply_delta
\* makes of the value under it, [err, value].
MapApply(target, d, attempt) ==
  LET key(i) == d.change[i].key
      kept == Only(target, DOMAIN target \ d.remove)
      present == {i \in DOMAIN attempt : key(i) \in DOMAIN kept}
      failing == {i \in present : attempt[i].err # None}
      reached == {i \in present : \A j \in failing : i <= j}
      updated == [k \in DOMAIN kept |->
                    IF \E i \in reached : key(i) = k
                    THEN attempt[CHOOSE i \in reached : key(i) = k].value
                    ELSE kept[k]]
  IN IF failing = {}
     THEN [err |-> None, value |-> With(updated, d.add)]
     ELSE [err |-> attempt[Min(failing)].err, value |-> updated]

-----------------------------------------------------------------------------
(* seq.rs: field_type = "ordered" *)

\* The pairs of positions of an alignment, a most complete one: Myers' is.
Alignment(old, new) ==
  LET equal == {p \in (DOMAIN old) \X (DOMAIN new) : old[p[1]] = new[p[2]]}
      aligned == {m \in SUBSET equal :
                    \A p, q \in m : p[1] < q[1] <=> p[2] < q[2]}
  IN CHOOSE m \in aligned : \A o \in aligned : Cardinality(o) <= Cardinality(m)

\* The position an edit has in new.
Between_NewPosition(new, p, q) ==
  [at |-> p[2], remove |-> q[1] - p[1] - 1, insert |-> SubSeq(new, p[2] + 1, q[2] - 1)]

\* What takes old to new between two neighbouring pairs of an alignment.
Between(new, p, q) ==
  [at |-> p[1], remove |-> q[1] - p[1] - 1, insert |-> SubSeq(new, p[2] + 1, q[2] - 1)]

\* Along the positions of old, the pairs of the alignment as they come: the
\* pair passed last, and a splice for each gap before it that is not empty.
Walk(old, new) ==
  LET pairs == Alignment(old, new) \cup {<<Len(old) + 1, Len(new) + 1>>}
      walk[i \in 0 .. Len(old) + 1] ==
        IF i = 0 THEN [last |-> <<0, 0>>, splices |-> <<>>]
        ELSE IF \A p \in pairs : p[1] # i THEN walk[i - 1]
        ELSE LET pair == CHOOSE p \in pairs : p[1] = i
                 gap == Between(new, walk[i - 1].last, pair)
             IN [last |-> pair,
                 splices |-> IF gap.remove = 0 /\ gap.insert = <<>>
                             THEN walk[i - 1].splices
                             ELSE Append(walk[i - 1].splices, gap)]
  IN walk

SeqDiff(old, new) == Walk(old, new)[Len(old) + 1].splices

SeqIsEmpty(splices) == splices = <<>>

\* The position in the target, as it was, behind what the k-th splice removes.
Behind(splices, k) == IF k = 0 THEN 0 ELSE splices[k].at + splices[k].remove

\* The k-th splice puts its items behind what stood between it and the one
\* before; a splice past the end is clamped to it.
Spliced(target, splices, k) ==
  SubSeq(target, Behind(splices, k - 1) + 1, Min({splices[k].at, Len(target)}))
    \o splices[k].insert

\* What stands behind the last splice is left out.
Unspliced_Lost(target, splices) == <<>>

Unspliced(target, splices) ==
  SubSeq(target, Behind(splices, Len(splices)) + 1, Len(target))

\* What a sorted script makes of a target: every at is a position in the
\* target as it was.
SeqApply(target, splices) ==
  FlattenSeq([k \in DOMAIN splices |-> Spliced(target, splices, k)])
    \o Unspliced(target, splices)
=============================================================================
