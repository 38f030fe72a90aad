----------------------------- MODULE MCEvaluate -----------------------------
(***************************************************************************)
(* Small instances of Evaluate for TLC.                                    *)
(***************************************************************************)
EXTENDS Evaluate, TLC

CONSTANTS w1, w2, r1, r2

WorkerSymmetry == Permutations(Workers)
=============================================================================
