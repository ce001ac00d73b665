----------------------------- MODULE MCScheduler -----------------------------
(* Small instances of the scheduler: the graphs it works on.               *)
EXTENDS Scheduler, TLC

CONSTANTS a, b, i1, i2, v1, gr, c1

Env(base, human, ops) ==
    [graph |-> gr, id |-> base, key |-> base, base |-> base, human |-> human,
     flagged |-> human, evidence |-> {}, ops |-> ops]

Human(ops) == \E i \in DOMAIN ops : ops[i].type \in ApprovalRequired

Proper(base, ops) == Env(base, Human(ops), ops)

Node(n, life) ==
    [type |-> "add_execution_node", node |-> n, intent |-> i1,
     life |-> life, gate |-> "active", group |-> Nil]
Seed == <<[type |-> "add_intent_node", intent |-> i1],
          [type |-> "record_evidence", evidence |-> v1]>>
Edges(type, n, m) ==
    [type |-> type, edge |-> [source |-> n, target |-> m, basis |-> v1]]
Move(n, from, to) ==
    [type |-> "transition_node", node |-> n, from |-> from, to |-> to]
Control(s) == [type |-> "set_control", control |-> c1,
               record |-> [state |-> s, graph |-> gr]]

(* For the index: everything readiness depends on changes.                 *)
IndexOps ==
    { <<Node(b, "admitted")>>,
      <<Node(b, "admitted"), Edges("add_schedulable_edge", a, b)>> }
        \cup { <<Edges(t, n, m)>> : n \in {a, b}, m \in {a, b},
                 t \in {"add_schedulable_edge", "remove_schedulable_edge"} }
        \cup { <<Control(s)>> : s \in {"paused", "active"} }
        \cup { <<Move(n, "ready", "running"), Move(n, "ready", "blocked")>> :
                 n \in {a, b} }
        \cup { <<Move(a, t[1], t[2])>> :
                 t \in {<<"ready", "running">>, <<"running", "succeeded">>} }

IndexEnvelopes ==
    {Proper(0, Seed \o <<Node(a, "admitted")>>)}
        \cup { Proper(base, ops) : base \in 1..MaxRevision, ops \in IndexOps }

(* For claims: two ready nodes.                                            *)
PairEnvelopes ==
    { Proper(0, Seed \o <<Node(a, "admitted"), Node(b, "admitted")>>) }

Symmetric == Permutations(Schedulers) \cup Permutations(RetryIds)
=============================================================================
