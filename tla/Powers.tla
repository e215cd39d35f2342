------------------------------- MODULE Powers -------------------------------
(***************************************************************************)
(* The powers of two, which the code writes as shifts and octal masks, as  *)
(* a recursive function: the provers know nothing of 2^n for an n that is  *)
(* not a number.                                                           *)
(***************************************************************************)
EXTENDS Naturals

Pow2[n \in Nat] == IF n = 0 THEN 1 ELSE 2 * Pow2[n - 1]
=============================================================================
