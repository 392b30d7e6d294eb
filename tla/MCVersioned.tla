---------------------------- MODULE MCVersioned ----------------------------
(***************************************************************************)
(* Versioned on the types of MCTypes: Diff and ApplyDelta are the derived  *)
(* methods (Derive), Fp the derived fingerprint (Fingerprint), without     *)
(* collisions or with many of them.                                        *)
(***************************************************************************)
EXTENDS Versioned, MCTypes, TLC
B == INSTANCE Bitwise

L == INSTANCE Layers

\* A hasher that keeps all that was written to it.
T == INSTANCE Stream
S == INSTANCE Prints WITH
       New <- T!New, Write <- T!Write, WriteU64 <- T!WriteU64, Combine <- T!Combine

\* The crate's hasher, on two bits in place of 64.
BitXor(a, b) == B!^^(a, b)
H == INSTANCE Fnv WITH
       ByteBits <- 2, StateBytes <- 1, OffsetBasis <- 1, Prime <- 3, Xor <- BitXor
N == INSTANCE Prints WITH
       New <- H!New, Write <- H!Write, WriteU64 <- H!WriteU64, Combine <- H!Combine

CONSTANT Type

\* The senders are interchangeable.
SenderSymmetry == Permutations(Senders)

MCValue == Values(Type)

\* The methods tabulated, so that TLC runs the derived code once per input.
DiffTable == [p \in MCValue \X MCValue |-> L!DeltaOf(Type, p[1], p[2])]
Deltas == {DiffTable[p] : p \in MCValue \X MCValue} \ {None}
ApplyTable == [p \in MCValue \X Deltas |-> L!ApplyTo(Type, p[1], p[2])]
FpTable == [v \in MCValue |-> S!FingerprintOf(Type, v)]

MCDiff(old, new) == DiffTable[<<old, new>>]

MCApplyDelta(target, delta) ==
  LET r == ApplyTable[<<target, delta>>]
  IN [ok |-> r.err = None, value |-> r.value]

MCFp(v) == FpTable[v]

NarrowTable == [v \in MCValue |-> N!FingerprintOf(Type, v)]
NarrowFp(v) == NarrowTable[v]

-----------------------------------------------------------------------------
(* Where the ends start *)

\* Any value, the least of them when it does not matter which.
AnyOne == CHOOSE v \in MCValue : TRUE
Agreed == {AnyOne}
BothOff == CHOOSE v \in MCValue : v.variant = 2 /\ v.fields = <<0, 0>>
FirstZero == CHOOSE v \in MCValue : v[1] = "0.0" /\ v[2] = 0
AgreedZero == {FirstZero}
=============================================================================
