---------------------------- MODULE MCTaskBackend ----------------------------
(* Small instance of the task service's backend.                           *)
EXTENDS TaskBackend, TLC
CONSTANTS t1, t2, a1, a2, c1, c2
Symmetric == Permutations(Agents) \cup Permutations(Callers)
=============================================================================
