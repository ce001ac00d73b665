--------------------------- MODULE MCGraphJournal ---------------------------
(* Small instances of the journal.  Which envelopes are admissible is the  *)
(* ledger's business: here an envelope records one fact or one intent, and *)
(* what matters is its revision, its id and its key.                       *)
EXTENDS GraphJournal, TLC

CONSTANTS c1, c2, v1, v2, gr

Fact(v) == [type |-> "record_evidence", evidence |-> v]

Env(base, id, key, v) ==
    [graph |-> gr, id |-> id, key |-> key, base |-> base, human |-> FALSE,
     flagged |-> FALSE, evidence |-> {}, ops |-> <<Fact(v)>>]

(* Two proposals against the empty graph, one of them sent again under its *)
(* key with another content, and one that follows either of them.          *)
RivalEnvelopes ==
    { Env(0, 1, 1, v1), Env(0, 2, 2, v2), Env(1, 1, 1, v2), Env(1, 3, 3, v2) }

(* The journal without the two steps its theorems except: a row added      *)
(* between the read and the DELETE of a recovery, and one under the number *)
(* that a failed COMMIT left in the memory of another connection.          *)
ApartSpec == Init /\ [][Next /\ Apart]_vars
=============================================================================
