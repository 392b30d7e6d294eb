-------------------------------- MODULE Fnv --------------------------------
(***************************************************************************)
(* The Hasher of delta-struct/src/fingerprint.rs, FNV-1a, at any width: 64 *)
(* bits written 8 at a time in the code.                                   *)
(*                                                                         *)
(* An operator named A_B is a mutation of the operator A that follows it,  *)
(* never used by the model.                                                *)
(***************************************************************************)
EXTENDS Naturals, Sequences, FiniteSets
LOCAL INSTANCE SequencesExt

CONSTANTS
  ByteBits,     \* the width of a byte, at least 1
  StateBytes,   \* the bytes of a u64, and of the state, at least 1
  OffsetBasis,  \* a u64
  Prime,        \* a u64
  Xor(_, _)     \* ^ on u64

Byte == 2 ^ ByteBits
U64 == Byte ^ StateBytes

\* Hasher::new.
New == OffsetBasis

\* The low bytes of a number, least significant first.
LeBytes(value, bytes) ==
  [i \in 1 .. bytes |-> (value \div Byte ^ (i - 1)) % Byte]

\* Hasher::write, a byte at a time.
WriteBytes(state, bytes) ==
  LET after[i \in 0 .. Len(bytes)] ==
        IF i = 0 THEN state ELSE (Xor(after[i - 1], bytes[i]) * Prime) % U64
  IN after[Len(bytes)]

WriteU64(state, value) == WriteBytes(state, LeBytes(value, StateBytes))

\* Every other number is narrow enough here to be a single byte.
Write(state, value) == WriteBytes(state, <<value % Byte>>)

\* Hashes are chained as bytes are, not folded.
Folded_Chained(hashes, order) ==
  LET after[i \in 0 .. Len(order)] ==
        IF i = 0 THEN 0 ELSE Xor((after[i - 1] * Prime) % U64, hashes[order[i]])
  IN after[Len(order)]

\* The loop of fingerprint_unordered over a collection's own order.
Folded(hashes, order) ==
  LET after[i \in 0 .. Len(order)] ==
        IF i = 0 THEN 0 ELSE Xor(after[i - 1], hashes[order[i]])
  IN after[Len(order)]

Combine(hashes) == Folded(hashes, SetToSeq(DOMAIN hashes))
=============================================================================
