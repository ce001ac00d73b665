---------------------------- MODULE MCWavePlanning ----------------------------
(* Every dependency graph of a small epic.                                 *)
EXTENDS WavePlanning
CONSTANTS t1, t2, t3, x
=============================================================================
