----------------------------- MODULE MCKubeLite -----------------------------
(* Small instances of the cluster for TLC. *)
EXTENDS Correctness

CONSTANTS w1, w2, w3, a, b, bad

(* Containers are interchangeable; used in safety runs only. *)
WorkerSymmetry == Permutations(Workers)
=============================================================================
