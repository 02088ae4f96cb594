---------------------------- MODULE MCEdgeAgent ----------------------------
(***************************************************************************)
(* EdgeAgent for TLC.  The workers are interchangeable: nothing in the code*)
(* distinguishes the goroutines of the control loop.                       *)
(***************************************************************************)
EXTENDS EdgeAgent, TLC

WorkerSymmetry == Permutations(Workers)
=============================================================================
