-------------------------- MODULE MC_TransferWorker --------------------------
(* Finite instances of TransferWorker for TLC. Workers are interchangeable in   *)
(* the runs that check invariants only.                                        *)
EXTENDS TransferWorker, TLC

WorkerSymmetry == Permutations(Workers)
=============================================================================
