------------------------------ MODULE Replica ------------------------------
(***************************************************************************)
(* What a versioned stream (delta-struct/src/version.rs) promises, with no *)
(* deltas, fingerprints or transport in it: senders publish states under   *)
(* version numbers, and a copy moves forward one published version at a    *)
(* time, until a refusal takes the trust from it and a whole published     *)
(* state gives it back.                                                    *)
(***************************************************************************)
EXTENDS Naturals

CONSTANTS Senders, Value, Initial, Starts, MaxVersion

VARIABLES
  published,  \* [Senders -> [0 .. MaxVersion -> SUBSET Value]]
  copy,       \* [value, version]: the receiver's copy
  trusted     \* has the copy been refused nothing since it was last whole?

vars == <<published, copy, trusted>>

Init ==
  /\ published = [s \in Senders |-> [v \in 0 .. MaxVersion |->
                     IF v = 0 THEN {Initial} ELSE {}]]
  /\ \E start \in Starts : copy = [value |-> start, version |-> 0]
  /\ trusted = TRUE

\* The states anybody has published as version v.
PublishedAs(v) == UNION {published[s][v] : s \in Senders}

\* v is the last version s has published a state for.
Latest(s, v) ==
  /\ published[s][v] # {}
  /\ \A w \in 0 .. MaxVersion : w > v => published[s][w] = {}

\* A new state under the next number, or under the last one again: two values
\* that == cannot tell apart share a number.
Publish(s, value) ==
  /\ \E v, w \in 0 .. MaxVersion :
        /\ Latest(s, v)
        /\ w \in {v, v + 1}
        /\ published' = [published EXCEPT ![s][w] = @ \cup {value}]
  /\ UNCHANGED <<copy, trusted>>

\* One version forward, onto a state published under that number.
Advance ==
  /\ copy.version < MaxVersion
  /\ \E value \in PublishedAs(copy.version + 1) :
        copy' = [value |-> value, version |-> copy.version + 1]
  /\ UNCHANGED <<published, trusted>>

\* A refusal: the version stands, the value is anybody's guess.
Refuse ==
  /\ \E value \in Value : copy' = [copy EXCEPT !.value = value]
  /\ trusted' = FALSE
  /\ UNCHANGED published

\* A whole published state, of any age.
Refresh ==
  /\ \E v \in 0 .. MaxVersion : \E value \in PublishedAs(v) :
        copy' = [value |-> value, version |-> v]
  /\ trusted' = TRUE
  /\ UNCHANGED published

Next ==
  \/ \E s \in Senders, value \in Value : Publish(s, value)
  \/ Advance
  \/ Refuse
  \/ Refresh

Spec == Init /\ [][Next]_vars
=============================================================================
