------------------------------ MODULE Contract ------------------------------
(***************************************************************************)
(* What the code of Derive is measured by: which values a type has, what   *)
(* the PartialEq of a type calls equal, which parts of a value may change, *)
(* and where two values are in different variants.                         *)
(*                                                                         *)
(* Each is a function of the type, and knows the type of a field only      *)
(* through the operators of the same meaning for types nested one level    *)
(* less deep, as Derive does.                                              *)
(***************************************************************************)
EXTENDS Derive

CONSTANTS
  InnerType(_),                 \* the types a field may nest
  InnerOrdered(_),              \* those with a sequence in them
  InnerValue(_, _),             \* [type, value]
  InnerSame(_, _, _, _),        \* [type, two values, nan]
  InnerKept(_, _, _, _, _),     \* [type, old, new, before, after]
  InnerDisagreements(_, _, _)   \* [type, old, target]

-----------------------------------------------------------------------------
(* Types: which fields each attribute may stand on *)

IsField(ty) ==
  \/ ty.kind \in {"scalar", "bag", "ordered"}
  \/ ty.kind = "entry" /\ ty.of.kind = "scalar"
  \/ ty.kind \in {"map", "delta"} /\ ty.of.kind # "scalar" /\ InnerType(ty.of)

IsFields(fields) ==
  /\ Len(fields) \in Nat /\ DOMAIN fields = 1 .. Len(fields)
  /\ \A i \in DOMAIN fields : IsField(fields[i])

IsType(ty) ==
  \/ ty.kind = "struct" /\ IsFields(ty.fields)
  \/ ty.kind = "enum" /\ \A i \in DOMAIN ty.variants : IsFields(ty.variants[i].fields)

FieldOrdered(ty) ==
  ty.kind = "ordered" \/ (ty.kind \in {"map", "delta"} /\ InnerOrdered(ty.of))

FieldsOrdered(fields) == \E i \in DOMAIN fields : FieldOrdered(fields[i])

\* A sequence is somewhere in the type.
HasOrdered(ty) ==
  IF ty.kind = "enum"
  THEN \E i \in DOMAIN ty.variants : FieldsOrdered(ty.variants[i].fields)
  ELSE FieldsOrdered(ty.fields)

-----------------------------------------------------------------------------
(* Values *)

IsValueOf(of, v) == IF of.kind = "scalar" THEN v \in of.vals ELSE InnerValue(of, v)

IsFieldValue(ty, v) ==
  CASE ty.kind = "scalar" -> v \in ty.vals
    [] ty.kind = "bag"    -> v \subseteq ty.items
    [] ty.kind = "ordered" -> v \in Seq(ty.items)
    [] ty.kind \in {"entry", "map"} ->
         IsMap(v) /\ IsFiniteSet(DOMAIN v) /\ \A k \in DOMAIN v : IsValueOf(ty.of, v[k])
    [] ty.kind = "delta"  -> InnerValue(ty.of, v)

AreFieldValues(fields, v) ==
  /\ IsMap(v) /\ DOMAIN v = DOMAIN fields
  /\ \A i \in DOMAIN fields : IsFieldValue(fields[i], v[i])

IsValue(ty, v) ==
  IF ty.kind = "enum"
  THEN /\ v = [variant |-> v.variant, fields |-> v.fields]
       /\ v.variant \in DOMAIN ty.variants
       /\ AreFieldValues(ty.variants[v.variant].fields, v.fields)
  ELSE AreFieldValues(ty.fields, v)

-----------------------------------------------------------------------------
(* Equality: the derived PartialEq; with nan, a NaN is the same as a NaN *)

SameScalar(ty, a, b, nan) == ~ ScalarNe(ty, a, b) \/ (nan /\ a = b)

SameValue(of, a, b, nan) ==
  IF of.kind = "scalar" THEN SameScalar(of, a, b, nan) ELSE InnerSame(of, a, b, nan)

SameField(ty, a, b, nan) ==
  CASE ty.kind = "scalar" -> SameScalar(ty, a, b, nan)
    [] ty.kind \in {"bag", "ordered"} -> a = b
    [] ty.kind \in {"entry", "map"} ->
         DOMAIN a = DOMAIN b /\ \A k \in DOMAIN a : SameValue(ty.of, a[k], b[k], nan)
    [] ty.kind = "delta"  -> InnerSame(ty.of, a, b, nan)

SameFields(fields, a, b, nan) ==
  \A i \in DOMAIN fields : SameField(fields[i], a[i], b[i], nan)

Same(ty, a, b, nan) ==
  IF ty.kind = "enum"
  THEN /\ a.variant = b.variant
       /\ SameFields(ty.variants[a.variant].fields, a.fields, b.fields, nan)
  ELSE SameFields(ty.fields, a, b, nan)

-----------------------------------------------------------------------------
(* What may change: after differs from before only where new does from old *)

KeptScalar(ty, o, n, before, after) == ScalarNe(ty, o, n) \/ after = before

KeptValue(of, o, n, before, after) ==
  IF of.kind = "scalar" THEN KeptScalar(of, o, n, before, after)
  ELSE InnerKept(of, o, n, before, after)

\* A key outside both of o and n stays as present as it was, and so does one
\* in both, unless its whole value is resent (entry.rs) because it differs.
KeptKeys(ty, o, n, before, after) ==
  \A k \in DOMAIN before \cup DOMAIN after :
    \/ k \in DOMAIN before <=> k \in DOMAIN after
    \/ ~ (k \in DOMAIN o <=> k \in DOMAIN n)
    \/ ty.kind = "entry" /\ k \in DOMAIN o /\ ScalarNe(ty.of, o[k], n[k])

KeptEntries(of, o, n, before, after) ==
  \A k \in DOMAIN before \cap DOMAIN after :
    /\ (k \notin DOMAIN o \cup DOMAIN n) => after[k] = before[k]
    /\ (k \in DOMAIN o \cap DOMAIN n) =>
         KeptValue(of, o[k], n[k], before[k], after[k])

KeptField(ty, o, n, before, after) ==
  CASE ty.kind = "scalar" -> KeptScalar(ty, o, n, before, after)
    [] ty.kind = "ordered" -> o # n \/ after = before
    [] ty.kind = "bag" ->
         \A x \in ty.items : (x \in o <=> x \in n) => (x \in before <=> x \in after)
    [] ty.kind \in {"entry", "map"} ->
         KeptKeys(ty, o, n, before, after) /\ KeptEntries(ty.of, o, n, before, after)
    [] ty.kind = "delta"  -> InnerKept(ty.of, o, n, before, after)

KeptFields(fields, o, n, before, after) ==
  \A i \in DOMAIN fields : KeptField(fields[i], o[i], n[i], before[i], after[i])

Kept(ty, o, n, before, after) ==
  IF ty.kind = "enum"
  THEN \/ o.variant # n.variant
       \/ before.variant # o.variant /\ after = before
       \/ /\ before.variant = o.variant /\ after.variant = o.variant
          /\ KeptFields(ty.variants[o.variant].fields,
                        o.fields, n.fields, before.fields, after.fields)
  ELSE KeptFields(ty.fields, o, n, before, after)

-----------------------------------------------------------------------------
(* Every place at which o and target hold different variants of an enum *)

FieldDisagreements(ty, o, target) ==
  CASE ty.kind \in {"scalar", "bag", "entry", "ordered"} -> {}
    [] ty.kind = "map" ->
         UNION {InnerDisagreements(ty.of, o[k], target[k]) :
                  k \in DOMAIN o \cap DOMAIN target}
    [] ty.kind = "delta"  -> InnerDisagreements(ty.of, o, target)

FieldsDisagreements(fields, o, target) ==
  UNION {FieldDisagreements(fields[i], o[i], target[i]) : i \in DOMAIN fields}

Disagreements(ty, o, target) ==
  CASE ty.kind = "struct" -> FieldsDisagreements(ty.fields, o, target)
    [] ty.kind = "enum" /\ o.variant # target.variant ->
         {[type_name |-> ty.name,
           expected |-> ty.variants[o.variant].name,
           found |-> ty.variants[target.variant].name]}
    [] ty.kind = "enum" /\ o.variant = target.variant ->
         FieldsDisagreements(ty.variants[o.variant].fields, o.fields, target.fields)
=============================================================================
