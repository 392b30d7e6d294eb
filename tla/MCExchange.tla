----------------------------- MODULE MCExchange -----------------------------
(***************************************************************************)
(* Fingerprinted on every type of MCTypes.                                 *)
(***************************************************************************)
EXTENDS Fingerprinted, MCTypes
B == INSTANCE Bitwise

BitXor(a, b) == B!^^(a, b)

MCTypesExchanged ==
  [Tracked |-> Tracked, Shape |-> Shape, WideGauge |-> WideGauge, Ledger |-> Ledger,
   Machine |-> Machine, Depot |-> Depot, Job |-> Job, Site |-> Site, Label |-> Label,
   Record |-> Record, Parcel |-> Parcel, Queue |-> Queue, Draft |-> Draft]
NestedTypes == [Machine |-> Machine, Job |-> Job]

MCValuesOf == [n \in DOMAIN Types |-> Values(Types[n])]
=============================================================================
