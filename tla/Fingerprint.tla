---------------------------- MODULE Fingerprint ----------------------------
(***************************************************************************)
(* Fingerprint (delta-struct/src/fingerprint.rs) and the code that         *)
(* #[derive(Fingerprint)] generates, on the types of Derive: what a value  *)
(* writes into a hasher, which every operator takes and returns.           *)
(*                                                                         *)
(* The module is generic in the hasher: Stream keeps the writes apart, a   *)
(* hash without collisions, and Fnv is the crate's own.  One write is one  *)
(* value of a type of fixed width: what a decoder that knows the type      *)
(* could read back.  A float is written as its bit pattern.                *)
(*                                                                         *)
(* An operator named A_B is a mutation of the operator A that follows it,  *)
(* never used by the model.                                                *)
(***************************************************************************)
EXTENDS Option, Naturals, Sequences, FiniteSets

CONSTANTS
  New,              \* Hasher::new()
  Write(_, _),      \* the hasher after one more write
  WriteU64(_, _),   \* and after Hasher::write_u64
  Combine(_),       \* ^ over the hashes that a function gives its elements
  InnerPrint(_, _, _), \* the fingerprint of the type of a field or an item
  InnerShape(_, _)     \* the values of that type

\* fingerprint_unordered: each element in a hasher of its own, the length and
\* then the hashes folded into one.  hashes: what each element comes to.
Unordered(hasher, hashes) ==
  WriteU64(WriteU64(hasher, Cardinality(DOMAIN hashes)), Combine(hashes))

\* A set's elements, each written by its own fingerprint.
PrintBag(hasher, bag) == Unordered(hasher, [item \in bag |-> Write(New, item)])

\* A map's elements are its entries, the key written before the value.
PrintMap(hasher, of, map) ==
  Unordered(hasher, [k \in DOMAIN map |-> InnerPrint(of, map[k], Write(New, k))])

\* A tuple, and () with no field at all: no length, no tag.
PrintTuple(hasher, of, tuple) ==
  LET after[i \in 0 .. Len(of)] ==
        IF i = 0 THEN hasher ELSE InnerPrint(of[i], tuple[i], after[i - 1])
  IN after[Len(of)]

\* The items of one type, in order, in a row.
PrintItems(hasher, of, items) ==
  PrintTuple(hasher, [i \in DOMAIN items |-> of], items)

\* The items run into what stands before and behind them.
PrintSlice_NoLength(hasher, of, items) == PrintItems(hasher, of, items)

\* [T], Vec<T>, and a str with its bytes: the length first, "so that ("ab",
\* "c") cannot collide with ("a", "bc")".
PrintSlice(hasher, of, items) ==
  PrintItems(WriteU64(hasher, Len(items)), of, items)

\* Option<T>, whose None is <<>> here and whose Some(x) is <<x>>.
PrintOption(hasher, of, option) ==
  IF option = <<>> THEN Write(hasher, 0)
  ELSE InnerPrint(of, option[1], Write(hasher, 1))

\* Result<T, E> as [ok, value].
PrintResult(hasher, ok, err, result) ==
  IF result.ok THEN InnerPrint(ok, result.value, Write(hasher, 0))
  ELSE InnerPrint(err, result.value, Write(hasher, 1))

\* The impls for the types of std a scalar field may have.
PrintScalar(hasher, ty, value) ==
  CASE ty.rust \in {"u32", "f64", "bool"} -> Write(hasher, value)
    [] ty.rust \in {"usize", "isize"} -> WriteU64(hasher, value)
    [] ty.rust = "Box" -> InnerPrint(ty.of, value, hasher)
    [] ty.rust \in {"str", "Vec"} -> PrintSlice(hasher, ty.of, value)
    [] ty.rust = "Option" -> PrintOption(hasher, ty.of, value)
    [] ty.rust = "Result" -> PrintResult(hasher, ty.of[1], ty.of[2], value)
    [] ty.rust = "tuple" -> PrintTuple(hasher, ty.of, value)

PrintField(hasher, ty, value) ==
  CASE ty.kind = "scalar" -> PrintScalar(hasher, ty, value)
    [] ty.kind = "bag" -> PrintBag(hasher, value)
    [] ty.kind \in {"entry", "map"} -> PrintMap(hasher, ty.of, value)
    [] ty.kind = "ordered" -> PrintSlice(hasher, ty.item, value)
    [] ty.kind = "delta" -> InnerPrint(ty.of, value, hasher)

\* fingerprint_calls: a struct's fields, or a variant's, in declaration order.
PrintFields(hasher, fields, value) ==
  LET after[i \in 0 .. Len(fields)] ==
        IF i = 0 THEN hasher ELSE PrintField(after[i - 1], fields[i], value[i])
  IN after[Len(fields)]

\* derive_fingerprint on an enum: the variant's index goes first.
PrintEnum(hasher, ty, value) ==
  PrintFields(Write(hasher, value.variant),
              ty.variants[value.variant].fields, value.fields)

\* Fingerprint::fingerprint.
FingerprintInto(ty, value, hasher) ==
  CASE ty.kind = "enum" -> PrintEnum(hasher, ty, value)
    [] ty.kind = "struct" -> PrintFields(hasher, ty.fields, value)
    [] ty.kind \notin {"enum", "struct"} -> PrintField(hasher, ty, value)

-----------------------------------------------------------------------------
(* Shapes: the values that the impls above are for *)

\* A tuple with a value of each of these types.
TupleShape(of, tuple) ==
  /\ Len(of) \in Nat /\ DOMAIN of = 1 .. Len(of)
  /\ tuple = [i \in DOMAIN of |-> tuple[i]]
  /\ \A i \in DOMAIN of : InnerShape(of[i], tuple[i])

ItemsShape(of, items) ==
  /\ Len(items) \in Nat
  /\ items = [i \in 1 .. Len(items) |-> items[i]]
  /\ \A i \in DOMAIN items : InnerShape(of, items[i])

OptionShape(of, option) ==
  option = <<>> \/ (option = <<option[1]>> /\ InnerShape(of, option[1]))

ResultShape(of, result) ==
  /\ result = [ok |-> result.ok, value |-> result.value]
  /\ result.ok \in BOOLEAN
  /\ InnerShape(of[IF result.ok THEN 1 ELSE 2], result.value)

ScalarShape(ty, value) ==
  \/ ty.rust \in {"u32", "f64", "bool", "usize", "isize"}
  \/ ty.rust = "Box" /\ InnerShape(ty.of, value)
  \/ ty.rust \in {"str", "Vec"} /\ ItemsShape(ty.of, value)
  \/ ty.rust = "Option" /\ OptionShape(ty.of, value)
  \/ ty.rust = "Result" /\ ResultShape(ty.of, value)
  \/ ty.rust = "tuple" /\ TupleShape(ty.of, value)

FieldShape(ty, value) ==
  \/ ty.kind = "scalar" /\ ScalarShape(ty, value)
  \/ ty.kind = "bag" /\ IsFiniteSet(value)
  \/ /\ ty.kind \in {"entry", "map"} /\ value = [k \in DOMAIN value |-> value[k]]
     /\ \A k \in DOMAIN value : InnerShape(ty.of, value[k])
  \/ ty.kind = "ordered" /\ ItemsShape(ty.item, value)
  \/ ty.kind = "delta" /\ InnerShape(ty.of, value)

FieldsShape(fields, value) ==
  /\ Len(fields) \in Nat /\ DOMAIN fields = 1 .. Len(fields)
  /\ value = [i \in DOMAIN fields |-> value[i]]
  /\ \A i \in DOMAIN fields : FieldShape(fields[i], value[i])

HasShape(ty, value) ==
  \/ /\ ty.kind = "enum"
     /\ value = [variant |-> value.variant, fields |-> value.fields]
     /\ FieldsShape(ty.variants[value.variant].fields, value.fields)
  \/ ty.kind = "struct" /\ FieldsShape(ty.fields, value)
  \/ ty.kind \notin {"enum", "struct"} /\ FieldShape(ty, value)
=============================================================================
