------------------------------- MODULE Option -------------------------------
(***************************************************************************)
(* Option::None, shared by every module in which the code returns an       *)
(* Option: Some(x) is modelled by x itself, so None is a value no x has.   *)
(***************************************************************************)
CONSTANT None
=============================================================================
