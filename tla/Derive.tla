------------------------------- MODULE Derive -------------------------------
(***************************************************************************)
(* The code #[derive(Delta)] generates (delta-struct-macros/src/lib.rs),   *)
(* with ScalarDelta of delta-struct/src/lib.rs and EnumDelta and Mismatch  *)
(* of variant.rs.  The macro is a function from a type to two methods, so  *)
(* a type is data here, and DeltaOf and ApplyTo take it as their first     *)
(* argument:                                                               *)
(*   scalar  [kind, rust, vals]     a value compared with !=               *)
(*   bag     [kind, items]          "unordered" over a set                 *)
(*   entry   [kind, keys, of]       "unordered" over a map of scalars      *)
(*   map     [kind, keys, of]       "unordered-delta"                      *)
(*   ordered [kind, items, max]     "ordered" over a sequence              *)
(*   delta   [kind, of]             "delta"                                *)
(*   struct  [kind, fields]         a sequence of the above                *)
(*   enum    [kind, name, variants] a sequence of [name, fields]           *)
(* A struct's value is the tuple of its fields' values; an enum's is       *)
(* [variant, fields], the variant being its index.                         *)
(*                                                                         *)
(* The generated code knows a field's type only through its Delta impl:    *)
(* InnerDelta and InnerApply are that impl, and an instance of this module *)
(* for the types nested one level less deep provides it (Layers).          *)
(*                                                                         *)
(* An operator named A_B is a mutation of the operator A that follows it,  *)
(* never used by the model.                                                *)
(***************************************************************************)
EXTENDS Collections

CONSTANTS
  InnerDelta(_, _, _),  \* Delta::delta(old, new) of the type of a field
  InnerApply(_, _, _)   \* its apply_delta: [err, value]

-----------------------------------------------------------------------------
(* ScalarDelta, and the PartialEq it is decided by *)

\* Rust's !=.  Floats are compared numerically: the two zeros are equal and
\* NaN is not equal to itself.  Every other scalar is compared by content.
ScalarNe(ty, a, b) ==
  IF ty.rust = "f64"
  THEN a = "NaN" \/ (a # b /\ {a, b} # {"0.0", "-0.0"})
  ELSE a # b

\* Changed(new) is [to |-> new], Unchanged is None.
ScalarDiff(ty, old, new) ==
  IF ScalarNe(ty, old, new) THEN [to |-> new] ELSE None

-----------------------------------------------------------------------------
(* What apply_delta returns, with what it leaves in self *)

Done(value) == [err |-> None, value |-> value]

\* The two variants the wrong way round.
Mismatch_Swapped(ty, expected, found) ==
  [type_name |-> ty.name,
   expected |-> ty.variants[found].name,
   found |-> ty.variants[expected].name]

\* Mismatch: the enum, the variant the delta was for, the one it met.
Mismatch(ty, expected, found) ==
  [type_name |-> ty.name,
   expected |-> ty.variants[expected].name,
   found |-> ty.variants[found].name]

-----------------------------------------------------------------------------
EntryFieldDiff(of, old, new) ==
  EntryDiff(old, new, {k \in DOMAIN old \cap DOMAIN new :
                         ScalarNe(of, new[k], old[k])})

MapFieldDiff(of, old, new) ==
  MapDiff(old, new, [k \in DOMAIN old \cap DOMAIN new |->
                       InnerDelta(of, old[k], new[k])])

\* delta_compute_fields: the delta field, whether or not anything changed.
FieldDiff(ty, old, new) ==
  CASE ty.kind = "scalar" -> ScalarDiff(ty, old, new)
    [] ty.kind = "bag"    -> BagDiff(old, new)
    [] ty.kind = "entry"  -> EntryFieldDiff(ty.of, old, new)
    [] ty.kind = "map"    -> MapFieldDiff(ty.of, old, new)
    [] ty.kind = "ordered" -> SeqDiff(old, new)
    [] ty.kind = "delta"  -> InnerDelta(ty.of, old, new)

\* What sets delta_is_some.
FieldIsSome(ty, d) ==
  CASE ty.kind \in {"scalar", "delta"} -> d # None
    [] ty.kind = "bag"   -> ~ BagIsEmpty(d)
    [] ty.kind = "entry" -> ~ EntryIsEmpty(d)
    [] ty.kind = "map"   -> ~ MapIsEmpty(d)
    [] ty.kind = "ordered" -> ~ SeqIsEmpty(d)

\* The deltas of the fields, unless all of them say that nothing changed.
IfSome(fields, d) ==
  IF \E i \in DOMAIN fields : FieldIsSome(fields[i], d[i]) THEN d ELSE None

\* The body of delta for one group of fields: a struct's, or a variant's.
FieldsDiff(fields, old, new) ==
  IfSome(fields, [i \in DOMAIN fields |-> FieldDiff(fields[i], old[i], new[i])])

\* EnumDelta::Delta, where the fields of the variant have one.
Varied(variant, d) ==
  IF d = None THEN None ELSE [variant |-> variant, fields |-> d]

\* enum_impl: a difference within a variant, or a replacement across two.
EnumDiff(ty, old, new) ==
  IF old.variant # new.variant THEN [became |-> new]
  ELSE Varied(old.variant,
              FieldsDiff(ty.variants[old.variant].fields, old.fields, new.fields))

\* Delta::delta.
DeltaOf(ty, old, new) ==
  IF ty.kind = "enum" THEN EnumDiff(ty, old, new)
  ELSE FieldsDiff(ty.fields, old, new)

-----------------------------------------------------------------------------
MapFieldApply(of, target, d) ==
  LET found == {i \in DOMAIN d.change : d.change[i].key \in DOMAIN target}
  IN MapApply(target, d,
       [i \in found |-> InnerApply(of, target[d.change[i].key], d.change[i].delta)])

\* delta_apply_fields.
FieldApply(ty, target, d) ==
  CASE ty.kind = "scalar" ->
         Done(IF d = None THEN target ELSE d.to)
    [] ty.kind = "bag"    -> Done(BagApply(target, d))
    [] ty.kind = "entry"  -> Done(EntryApply(target, d))
    [] ty.kind = "map"    -> MapFieldApply(ty.of, target, d)
    [] ty.kind = "ordered" -> Done(SeqApply(target, d))
    [] ty.kind = "delta"  ->
         IF d = None THEN Done(target) ELSE InnerApply(ty.of, target, d)

\* Statements in order, each left early by its `?`: the fields before the first
\* that fails are updated, that one keeps what its own apply left, the rest is
\* as it was.
UpToFailure(target, attempt) ==
  LET failing == {i \in DOMAIN attempt : attempt[i].err # None}
      reached == IF failing = {} THEN DOMAIN attempt ELSE 1 .. Min(failing)
  IN [err |-> IF failing = {} THEN None ELSE attempt[Min(failing)].err,
      value |-> [i \in DOMAIN attempt |->
                   IF i \in reached THEN attempt[i].value ELSE target[i]]]

\* The body of apply_delta for one group of fields, in declaration order.
FieldsApply(fields, target, d) ==
  UpToFailure(target,
    [i \in DOMAIN fields |-> FieldApply(fields[i], target[i], d[i])])

BecameApply(d) == Done(d.became)

\* The variant stays.
Refilled(target, r) == [err |-> r.err, value |-> [target EXCEPT !.fields = r.value]]

VariantApply(ty, target, d) ==
  Refilled(target, FieldsApply(ty.variants[d.variant].fields, target.fields, d.fields))

EnumApply(ty, target, d) ==
  CASE "became" \in DOMAIN d -> BecameApply(d)
    [] "variant" \in DOMAIN d /\ d.variant = target.variant ->
         VariantApply(ty, target, d)
    [] "variant" \in DOMAIN d /\ d.variant # target.variant ->
         [err |-> Mismatch(ty, d.variant, target.variant), value |-> target]

\* Delta::apply_delta.
ApplyTo(ty, target, d) ==
  IF ty.kind = "enum" THEN EnumApply(ty, target, d)
  ELSE FieldsApply(ty.fields, target, d)
=============================================================================
