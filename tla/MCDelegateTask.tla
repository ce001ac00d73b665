---------------------------- MODULE MCDelegateTask ----------------------------
(* Small instance of the delegate task protocol.                           *)
EXTENDS DelegateTask
CONSTANTS w1, w2, v1
=============================================================================
