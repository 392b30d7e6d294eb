--------------------------- MODULE Fingerprinted ---------------------------
(***************************************************************************)
(* Exchange with the fingerprints of the values exchanged: in a hasher     *)
(* that keeps all that is written to it, and in the crate's.               *)
(***************************************************************************)
EXTENDS Exchange, SequencesExt

CONSTANTS ByteBits, StateBytes, OffsetBasis, Prime, Xor(_, _)  \* of Fnv

T == INSTANCE Stream
S == INSTANCE Prints WITH
       New <- T!New, Write <- T!Write, WriteU64 <- T!WriteU64, Combine <- T!Combine
H == INSTANCE Fnv

\* The values are of the shapes that the impls of Fingerprint are for.
ASSUME ShapesAssumption ==
  \A n \in DOMAIN Types : \A v \in ValuesOf[n] : S!HasShape(Types[n], v)

\* The words of the hasher, and ^ on them.
Words == 0 .. H!U64 - 1

ASSUME WordsAssumption ==
  /\ H!U64 \in Nat /\ H!Byte \in 1 .. H!U64 /\ OffsetBasis \in Words /\ Prime \in Words
  /\ \A a, b \in Words : Xor(a, b) \in Words /\ Xor(a, b) = Xor(b, a)
  /\ \A a, b, c \in Words : Xor(Xor(a, b), c) = Xor(a, Xor(b, c))

PrintTable ==
  [n \in DOMAIN Types |-> [v \in ValuesOf[n] |-> S!FingerprintOf(Types[n], v)]]

-----------------------------------------------------------------------------
(* Properties *)

\* "Are these the same state?" (fingerprint.rs:160-163): as long as FNV keeps
\* the writes apart, two values of a type have one fingerprint exactly when
\* they are the same to the bit.  Nothing a value writes runs into what its
\* neighbours write, however many of them are empty or absent, and no field,
\* element or variant is left out.
FingerprintTellsApart ==
  PrintTable[name][old] = PrintTable[name][new] <=> old = new

\* "Sets and maps are folded commutatively so iteration order cannot matter"
\* (fingerprint.rs:14-16): two processes that walk one set of numbers in any
\* two orders fold its hashes into the same number.
OrderUnseen ==
  ty.kind = "struct" => \A i \in DOMAIN ty.fields :
    (ty.fields[i].kind = "bag" /\ ty.fields[i].items \subseteq Nat) =>
      LET hashes == [x \in old[i] |-> H!Write(H!New, x)]
      IN \A one, other \in SetToSeqs(old[i]) :
           H!Folded(hashes, one) = H!Folded(hashes, other)
=============================================================================
