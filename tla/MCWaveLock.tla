----------------------------- MODULE MCWaveLock -----------------------------
(* Small instances of the wave lock.                                       *)
EXTENDS WaveLock
CONSTANTS s1, s2, s3
=============================================================================
