------------------------------ MODULE MCWorker ------------------------------
(* Worker with a few calls to one allowed and one forbidden peer.          *)
EXTENDS WorkerTransfers, TLC

(* Calls are told apart by nothing but their name; sound for invariants    *)
(* and action properties only.                                             *)
CallSymmetry == Permutations(Calls)
=============================================================================
