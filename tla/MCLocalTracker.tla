---------------------------- MODULE MCLocalTracker ----------------------------
(* Small instance of the local issue tracker.                              *)
EXTENDS LocalTracker, TLC
CONSTANTS a1, a2, canonical, dotted

(* One issue has two spellings.                                            *)
MCRefs == {Ref(i) : i \in Issues} \cup {<<1, dotted>>}

Symmetric == Permutations(Agents)
=============================================================================
