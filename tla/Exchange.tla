------------------------------ MODULE Exchange ------------------------------
(***************************************************************************)
(* One use of the Delta trait (delta-struct/src/lib.rs:612-642) by hand,   *)
(* with none of Versioned's checks: a delta computed from old and new at   *)
(* one place is applied at another, to a value that need not be old, and   *)
(* may be applied again.                                                   *)
(***************************************************************************)
EXTENDS Layers, Integers, FiniteSets

CONSTANTS
  Types,          \* the types exchanged, in the notation of Derive, by name
  ValuesOf        \* [DOMAIN Types -> sets of their values]

\* Types the derive accepts, and values a program can make of them.
ASSUME TypesAssumption ==
  \A n \in DOMAIN Types :
    /\ IsType(Types[n])
    /\ \A v \in ValuesOf[n] : IsValue(Types[n], v)

VARIABLES
  name,      \* of the type in use
  old, new,  \* what the delta is computed from
  start,     \* the value apply_delta is called on
  delta,     \* DeltaOf(ty, old, new), once computed
  self,      \* the target's value now
  err,       \* what the last apply_delta returned: None for Ok(())
  calls      \* apply_delta calls so far; -1 before the delta exists

ty == Types[name]
vars == <<name, old, new, start, delta, self, err, calls>>

Init ==
  /\ name \in DOMAIN Types
  /\ old \in ValuesOf[name] /\ new \in ValuesOf[name] /\ start \in ValuesOf[name]
  /\ delta = None
  /\ self = start
  /\ err = None
  /\ calls = -1

Compute ==
  /\ calls = -1
  /\ delta' = DeltaOf(ty, old, new)
  /\ calls' = 0
  /\ UNCHANGED <<name, old, new, start, self, err>>

\* Bound: a delta is applied at most twice.
ApplyDelta ==
  /\ calls \in {0, 1}
  /\ delta # None
  /\ LET r == ApplyTo(ty, self, delta)
     IN self' = r.value /\ err' = r.err
  /\ calls' = calls + 1
  /\ UNCHANGED <<name, old, new, start, delta>>

Next == Compute \/ ApplyDelta

Spec == Init /\ [][Next]_vars

-----------------------------------------------------------------------------
(* Properties *)

Eq(t, a, b) == Same(t, a, b, FALSE)
AsGoodAs(t, a, b) == Same(t, a, b, TRUE)

\* "Applying the delta from delta(old, new) to a value equal to old yields a
\* value equal to new" (lib.rs:629-630): it succeeds, and the result is equal
\* to new but for a NaN, which is NaN in both.  "Equal to old" is taken at its
\* word: the target may hold the other zero.
RoundTrip ==
  (calls = 1 /\ AsGoodAs(ty, start, old)) =>
    err = None /\ AsGoodAs(ty, self, new)

\* "Returns None when the two are equivalent" (lib.rs:622-623), and only then:
\* no nested or collected difference is lost on its way to delta_is_some.
NoneMeansEqual == calls >= 0 => (delta = None <=> Eq(ty, old, new))

\* "Makes applying the same delta twice harmless" (bag.rs:92, entry.rs:122),
\* for whole derived types, whatever they are applied to: the second call
\* changes nothing and says what the first one said, a refusal included.  An
\* edit script (seq.rs) is the one delta that says no such thing.
TwiceHarmless ==
  [][calls = 1 /\ ~ HasOrdered(ty) => self' = self /\ err' = err]_vars

\* "The type and variant named here are the ones that actually disagreed"
\* (variant.rs:51-52): a Mismatch names an enum, anywhere inside the value, in
\* which the target really was in another variant than the delta's old.
MismatchIsReal == err # None => err \in Disagreements(ty, old, start)

\* A delta carries differences only (lib.rs:4-8): applied to a value of any
\* other history, and even when it fails half way, it leaves alone every
\* field, element and entry that old and new agree on.
TouchesOnlyDifferences == calls > 0 => Kept(ty, old, new, start, self)

\* "For a struct -- and for an enum in the variant its delta expects -- this
\* always returns Ok" (lib.rs:635-636).
ExpectedShapeNeverFails ==
  (ty.kind = "struct" \/ (ty.kind = "enum" /\ start.variant = old.variant)) =>
    err = None
=============================================================================
