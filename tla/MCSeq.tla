------------------------------- MODULE MCSeq -------------------------------
(***************************************************************************)
(* Seq on short sequences, and on scripts no diff made.                    *)
(***************************************************************************)
EXTENDS Seq

\* Up to three of two items, with repeats, and three that can be told apart.
MCInputs == BoundedSeq({"a", "b"}, 3) \cup {<<"a", "b", "c">>}

MCItems == {"a", "b", "c", "x", "y"}

\* Up to two splices anywhere, in any order, overlapping, too long or
\* overflowing.
MCWire ==
  BoundedSeq([at : 0 .. 4, remove : {0, 2, 4},
              insert : {<<>>, <<"x">>, <<"y">>}], 2)
=============================================================================
