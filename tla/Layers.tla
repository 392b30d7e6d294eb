------------------------------- MODULE Layers -------------------------------
(***************************************************************************)
(* Types that contain types: Derive and its contract with what they say of *)
(* the types one level less deep put in for those of a field.  A type of   *)
(* the innermost layer has no field that recurses.  DeriveProofs is taken  *)
(* in place of Contract, so that what is proved there holds of each layer. *)
(***************************************************************************)
EXTENDS Option, Naturals, Sequences

NoDelta(ty, old, new) == None
NoApply(ty, target, d) == [err |-> None, value |-> target]
NoType(ty) == FALSE
NoOrdered(ty) == FALSE
NoValue(ty, v) == FALSE
NoSame(ty, a, b, nan) == FALSE
NoKept(ty, o, n, before, after) == FALSE
NoDisagreements(ty, o, target) == {}

Flat == INSTANCE DeriveProofs WITH
          InnerDelta <- NoDelta, InnerApply <- NoApply,
          InnerType <- NoType, InnerOrdered <- NoOrdered, InnerValue <- NoValue,
          InnerSame <- NoSame, InnerKept <- NoKept,
          InnerDisagreements <- NoDisagreements
FlatDelta(ty, old, new) == Flat!DeltaOf(ty, old, new)
FlatApply(ty, target, d) == Flat!ApplyTo(ty, target, d)
FlatType(ty) == Flat!IsType(ty)
FlatOrdered(ty) == Flat!HasOrdered(ty)
FlatValue(ty, v) == Flat!IsValue(ty, v)
FlatSame(ty, a, b, nan) == Flat!Same(ty, a, b, nan)
FlatKept(ty, o, n, before, after) == Flat!Kept(ty, o, n, before, after)
FlatDisagreements(ty, o, target) == Flat!Disagreements(ty, o, target)

Nested1 == INSTANCE DeriveProofs WITH
             InnerDelta <- FlatDelta, InnerApply <- FlatApply,
             InnerType <- FlatType, InnerOrdered <- FlatOrdered, InnerValue <- FlatValue,
             InnerSame <- FlatSame, InnerKept <- FlatKept,
             InnerDisagreements <- FlatDisagreements
Nested1Delta(ty, old, new) == Nested1!DeltaOf(ty, old, new)
Nested1Apply(ty, target, d) == Nested1!ApplyTo(ty, target, d)
Nested1Type(ty) == Nested1!IsType(ty)
Nested1Ordered(ty) == Nested1!HasOrdered(ty)
Nested1Value(ty, v) == Nested1!IsValue(ty, v)
Nested1Same(ty, a, b, nan) == Nested1!Same(ty, a, b, nan)
Nested1Kept(ty, o, n, before, after) == Nested1!Kept(ty, o, n, before, after)
Nested1Disagreements(ty, o, target) == Nested1!Disagreements(ty, o, target)

Nested2 == INSTANCE DeriveProofs WITH
             InnerDelta <- Nested1Delta, InnerApply <- Nested1Apply,
             InnerType <- Nested1Type, InnerOrdered <- Nested1Ordered,
             InnerValue <- Nested1Value,
             InnerSame <- Nested1Same, InnerKept <- Nested1Kept,
             InnerDisagreements <- Nested1Disagreements

\* Delta::delta and apply_delta of a type two levels deep, or less.
DeltaOf(ty, old, new) == Nested2!DeltaOf(ty, old, new)
ApplyTo(ty, target, d) == Nested2!ApplyTo(ty, target, d)

\* Its contract.
IsType(ty) == Nested2!IsType(ty)
HasOrdered(ty) == Nested2!HasOrdered(ty)
IsValue(ty, v) == Nested2!IsValue(ty, v)
Same(ty, a, b, nan) == Nested2!Same(ty, a, b, nan)
Kept(ty, o, n, before, after) == Nested2!Kept(ty, o, n, before, after)
Disagreements(ty, o, target) == Nested2!Disagreements(ty, o, target)

\* PartialEq of the scalars.
ScalarNe(ty, a, b) == Flat!ScalarNe(ty, a, b)
=============================================================================
