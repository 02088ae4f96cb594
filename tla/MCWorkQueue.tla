---------------------------- MODULE MCWorkQueue ----------------------------
(***************************************************************************)
(* WorkQueue for TLC, with the work lists of PropagateWalk to compare.     *)
(* Idempotency keys are only ever compared for equality.                   *)
(***************************************************************************)
EXTENDS PropagateWalk

KeySymmetry == Permutations(Keys)
=============================================================================
