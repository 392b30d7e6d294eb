------------------------------- MODULE Prints -------------------------------
(***************************************************************************)
(* The fingerprints of types that contain types, as Layers does for their  *)
(* deltas, over one hasher.  FingerprintProofs is taken in place of        *)
(* Fingerprint, so that what is proved there holds of each layer.          *)
(***************************************************************************)
EXTENDS Option, Naturals, Sequences

CONSTANTS New, Write(_, _), WriteU64(_, _), Combine(_)

NoPrint(ty, value, hasher) == hasher
NoShape(ty, value) == FALSE

Flat == INSTANCE FingerprintProofs WITH InnerPrint <- NoPrint, InnerShape <- NoShape
FlatPrint(ty, value, hasher) == Flat!FingerprintInto(ty, value, hasher)
FlatShape(ty, value) == Flat!HasShape(ty, value)

Nested1 == INSTANCE FingerprintProofs WITH InnerPrint <- FlatPrint, InnerShape <- FlatShape
Nested1Print(ty, value, hasher) == Nested1!FingerprintInto(ty, value, hasher)
Nested1Shape(ty, value) == Nested1!HasShape(ty, value)

Nested2 == INSTANCE FingerprintProofs WITH InnerPrint <- Nested1Print, InnerShape <- Nested1Shape
Nested2Print(ty, value, hasher) == Nested2!FingerprintInto(ty, value, hasher)
Nested2Shape(ty, value) == Nested2!HasShape(ty, value)

Nested3 == INSTANCE FingerprintProofs WITH InnerPrint <- Nested2Print, InnerShape <- Nested2Shape

\* fingerprint_of: a fresh hasher, the value, finish.
FingerprintOf(ty, value) == Nested3!FingerprintInto(ty, value, New)

\* The values of a type three levels deep, or less.
HasShape(ty, value) == Nested3!HasShape(ty, value)
=============================================================================
