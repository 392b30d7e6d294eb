------------------------------ MODULE MCTypes ------------------------------
(***************************************************************************)
(* Small types to check on, in the notation of Derive: one for each field  *)
(* attribute, and the shapes that interact (an enum in a map, a float      *)
(* beside another scalar).                                                 *)
(***************************************************************************)
EXTENDS Naturals, Sequences, FiniteSets

Num(max) == [kind |-> "scalar", rust |-> "u32", vals |-> 0 .. max]
Flag == [kind |-> "scalar", rust |-> "bool", vals |-> BOOLEAN]
Float == [kind |-> "scalar", rust |-> "f64",
          vals |-> {"0.0", "-0.0", "1.0", "NaN"}]
SmallFloat == [kind |-> "scalar", rust |-> "f64", vals |-> {"0.0", "-0.0"}]
Tags(items) == [kind |-> "bag", items |-> items]
Ordered(items, max) ==
  [kind |-> "ordered", items |-> items, max |-> max, item |-> Num(1)]
Nested(ty) == [kind |-> "delta", of |-> ty]
Struct(fields) == [kind |-> "struct", fields |-> fields]
Variant(name, fields) == [name |-> name, fields |-> fields]
Enum(name, variants) ==
  [kind |-> "enum", name |-> name, variants |-> variants]

\* A scalar beside a set: the Tracked of the crate's own tests.
Tracked == Struct(<<Tags({1, 2}), Num(1)>>)

Pin == Struct(<<Tags({1}), Num(1)>>)

\* A unit variant, a tuple variant and a variant of two fields.
Shape == Enum("Shape", <<Variant("Empty", <<>>), Variant("Circle", <<Num(1)>>),
                         Variant("Rect", <<Num(1), Num(1)>>)>>)

\* A float beside another scalar.
Gauge == Struct(<<SmallFloat, Num(1)>>)
WideGauge == Struct(<<Float, Num(1)>>)

\* A float by itself, or two other scalars.
Dial == Enum("Dial", <<Variant("At", <<SmallFloat>>),
                       Variant("Between", <<Num(1), Num(1)>>)>>)

\* An enum small enough to be the value of a map.
Status == Enum("Status", <<Variant("Idle", <<>>),
                           Variant("Running", <<Num(1)>>)>>)
Statuses == [kind |-> "map", keys |-> {1, 2}, of |-> Status]
Fleet == Struct(<<Statuses>>)

\* A field after one whose apply can fail.
Depot == Struct(<<Statuses, Flag>>)

\* An enum inside an enum.
Job == Enum("Job", <<Variant("Queued", <<>>),
                     Variant("Active", <<Nested(Status), Num(1)>>)>>)

\* Struct and enum fields with a delta of their own.
Machine == Struct(<<Num(1), Nested(Status), Nested(Gauge)>>)

\* A map whose values are compared whole.
Ledger == Struct(<<[kind |-> "entry", keys |-> {1, 2}, of |-> Float]>>)

\* Values compared whole, of the types of std that are written in parts:
\* strings side by side, and options, results and tuples that may be empty.
Std(rust, of, vals) ==
  [kind |-> "scalar", rust |-> rust, of |-> of, vals |-> vals]
Unit == Std("tuple", <<>>, {<<>>})
Text == Std("str", Num(1), {<<>>, <<0>>, <<1>>, <<0, 1>>})
Label == Struct(<<Text, Text>>)
Perhaps(ty) == Std("Option", ty, {<<>>} \cup {<<v>> : v \in ty.vals})
Outcome == Std("Result", <<Num(1), Num(1)>>, [ok : BOOLEAN, value : 0 .. 1])
Pair == Std("tuple", <<Std("usize", <<>>, 0 .. 1), Perhaps(Num(0))>>,
            {<<n, p>> : n \in 0 .. 1, p \in {<<>>, <<0>>}})
Listed == Std("Vec", Perhaps(Unit), {<<>>, <<<<>>>>, <<<<<<>>>>>>, <<<<>>, <<<<>>>>>>})
Record == Struct(<<Listed, Outcome>>)
Parcel == Struct(<<Pair, Perhaps(Std("Box", Num(1), 0 .. 1))>>)

\* A set and two structs, deeper still.
Site == Struct(<<Nested(Struct(<<Nested(Status), Tags({1})>>)), Num(1)>>)

\* A sequence, and one beside another field in a variant.
Queue == Struct(<<Ordered({1, 2}, 3)>>)
Draft == Enum("Draft", <<Variant("Blank", <<>>),
                         Variant("Text", <<Ordered({1, 2}, 2), Num(1)>>)>>)

RECURSIVE Values(_)
RECURSIVE FieldValues(_)

\* The tuples of a value for each field, built field by field.
FieldValues(fields) ==
  IF fields = <<>> THEN {<<>>}
  ELSE {<<first>> \o rest : first \in Values(Head(fields)),
                            rest \in FieldValues(Tail(fields))}

MapValues(keys, vals) == UNION {[S -> vals] : S \in SUBSET keys}

\* Every value of a type.
Values(ty) ==
  CASE ty.kind = "scalar" -> ty.vals
    [] ty.kind = "bag"    -> SUBSET ty.items
    [] ty.kind \in {"entry", "map"} -> MapValues(ty.keys, Values(ty.of))
    [] ty.kind = "ordered" -> UNION {[1 .. n -> ty.items] : n \in 0 .. ty.max}
    [] ty.kind = "delta"  -> Values(ty.of)
    [] ty.kind = "struct" -> FieldValues(ty.fields)
    [] ty.kind = "enum"   ->
         UNION {{[variant |-> i, fields |-> f] :
                   f \in FieldValues(ty.variants[i].fields)} :
                i \in DOMAIN ty.variants}
=============================================================================
