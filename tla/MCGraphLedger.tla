---------------------------- MODULE MCGraphLedger ----------------------------
(* Small instances of the ledger: which envelopes proposers submit.        *)
EXTENDS GraphLedger, TLC

CONSTANTS a, b, c, i1, i2, v1, work, book, g1, g2, le1, le2, c1

Env(graphId, base, id, key, human, flagged, ops) ==
    [graph |-> graphId, id |-> id, key |-> key, base |-> base, human |-> human,
     flagged |-> flagged, evidence |-> {}, ops |-> ops]

Human(ops) == \E i \in DOMAIN ops : ops[i].type \in ApprovalRequired

(* The envelope a well-behaved proposer sends at a revision: an id and a   *)
(* key of its own, the authority its operations need.                      *)
Proper(graphId, base, ops) ==
    Env(graphId, base, base, base, Human(ops), Human(ops), ops)

Intent(i) == [type |-> "add_intent_node", intent |-> i]
Fact(v) == [type |-> "record_evidence", evidence |-> v]
Node(n, life) ==
    [type |-> "add_execution_node", node |-> n, intent |-> i1,
     life |-> life, gate |-> "active", group |-> Nil]
After(n, m) == [source |-> n, target |-> m, basis |-> v1]
AddEdge(n, m) == [type |-> "add_schedulable_edge", edge |-> After(n, m)]
DropEdge(n, m) == [type |-> "remove_schedulable_edge", edge |-> After(n, m)]
Move(n, from, to) ==
    [type |-> "transition_node", node |-> n, from |-> from, to |-> to]
Control(s) == [type |-> "set_control", control |-> c1,
               record |-> [state |-> s, graph |-> work]]
Promote(n, g) == [type |-> "promote_candidate", node |-> n, group |-> g]
Lease(l, n, s) == [type |-> "acquire_lease", lease |-> l,
                   record |-> [node |-> n, state |-> s, current |-> TRUE]]

(* The graph named work, for lifecycles.  It starts from two nodes, in     *)
(* order or not.                                                           *)
Seeds ==
    { <<Intent(i1), Fact(v1), Node(a, la), Node(b, lb)>> \o edges :
        la \in {"proposed", "admitted"}, lb \in {"admitted", "blocked"},
        edges \in {<<>>, <<AddEdge(b, a)>>} }

(* Every legal transition, every way out of a terminal state, and a claim  *)
(* that skips the ready state.                                             *)
Moves ==
    { Move(n, t[1], t[2]) : n \in {a, b},
        t \in LegalTransitions
              \cup {<<s, "running">> : s \in Terminal \cup {"admitted"}} }

LifecycleOps ==
    Seeds \cup {<<m>> : m \in Moves}
          \cup {<<m, k>> : m \in {Move(a, "running", "succeeded"),
                                  Move(a, "running", "failed")},
                           k \in {Move(a, "running", "blocked"),
                                  Move(a, "ready", "running"),
                                  AddEdge(a, b)}}
          \cup {<<AddEdge(n, m)>> : n \in {a, b}, m \in {a, b}}
          \cup {<<DropEdge(b, a)>>, <<Control("paused")>>, <<Control("active")>>,
                <<DropEdge(b, a), AddEdge(b, a)>>, <<AddEdge(a, b), DropEdge(a, b)>>}

(* With them, the retries and the mistakes of a proposer: a used id or a   *)
(* used key, and every combination of authority and approval flag.         *)
LifecycleEnvelopes ==
    { Proper(work, base, ops) : base \in 0..MaxRevision, ops \in LifecycleOps }
        \cup
    { Env(work, base, id, key, human, flagged, <<m>>) :
        base \in {1, 2}, id \in {1, 2}, key \in {1, 2},
        human \in BOOLEAN, flagged \in BOOLEAN,
        m \in {Move(a, "ready", "running"), DropEdge(b, a)} }

-----------------------------------------------------------------------------
(* The graph named book, for the other operations: the intent plane,       *)
(* evidence, relations, approvals, leases, promotion and compensation, on  *)
(* three nodes: one is done, one is running, and one is added later, as a  *)
(* candidate or already promoted.                                          *)

RecordSeed ==
    <<Intent(i1), Fact(v1), Node(a, "succeeded"), Node(b, "running")>>

Plain(type, field, value) ==
    [f \in {"type", field} |-> IF f = "type" THEN type ELSE value]

RecordOps ==
    {<<RecordSeed[1]>>, RecordSeed}
        \cup {<<Promote(n, g)>> : n \in {b, c}, g \in {g1, g2}}
        \cup {<<Lease(l, b, "active")>> : l \in {le1, le2}}
        \cup { <<Intent(i2)>>,
                <<Plain("remove_intent_node", "intent", i1)>>,
                <<Plain("remove_intent_node", "intent", i2)>>,
                <<Plain("add_intent_edge", "link", <<i2, i1>>)>>,
                <<Plain("remove_intent_edge", "link", <<i2, i1>>)>>,
                <<Plain("add_relation", "relation", <<b, a>>)>>,
                <<Plain("approve_mutation", "mutation", 1)>>,
                <<Plain("release_lease", "lease", le1)>>,
                <<Move(b, "running", "failed"), Promote(b, g1)>>,
                <<Node(c, "admitted")>>,
                <<[Node(c, "proposed") EXCEPT !.group = g1]>>,
                <<[type |-> "compensate", mutation |-> 0,
                   node |-> a, replacement |-> b]>>,
                <<[type |-> "compensate", mutation |-> 0,
                   node |-> b, replacement |-> a],
                  Move(b, "running", "superseded")>> }

RecordEnvelopes ==
    { Proper(book, base, ops) : base \in 0..MaxRevision, ops \in RecordOps }
        \cup
    { Env(book, base, base, base, FALSE, flagged, <<op>>) :
        base \in {1, 2}, flagged \in BOOLEAN,
        op \in {Promote(b, g1), Intent(i2),
                Plain("remove_intent_node", "intent", i2),
                Plain("approve_mutation", "mutation", 0)} }

LedgerEnvelopes == LifecycleEnvelopes \cup RecordEnvelopes
=============================================================================
