---------------------------- MODULE MCMembership ----------------------------
(***************************************************************************)
(* Membership with floats under entry.rs and, under map.rs, an enum with a *)
(* unit variant and a variant of one scalar.  Its derived methods are      *)
(* those of Derive on MCTypes' Status, written out.                        *)
(***************************************************************************)
EXTENDS Membership

MCScalars == {"0.0", "-0.0", "NaN"}

\* Numerically: the two zeros are equal, NaN is not equal to itself.
MCNe(a, b) == a = "NaN" \/ b = "NaN"

Idle == [variant |-> 1, fields |-> <<>>]
Running(n) == [variant |-> 2, fields |-> <<n>>]
MCInners == {Idle, Running(0), Running(1)}

MCDiff(o, n) ==
  CASE o = n -> None
    [] o # n /\ o.variant = n.variant ->
         [variant |-> o.variant, fields |-> <<[to |-> n.fields[1]]>>]
    [] o.variant # n.variant -> [became |-> n]

MCApply(target, d) ==
  CASE "became" \in DOMAIN d -> [err |-> None, value |-> d.became]
    [] "variant" \in DOMAIN d /\ d.variant = target.variant ->
         [err |-> None, value |-> Running(d.fields[1].to)]
    [] "variant" \in DOMAIN d /\ d.variant # target.variant ->
         [err |-> "Mismatch", value |-> target]

MCSame(v, w) == v = w
=============================================================================
