----------------------------- MODULE GraphLedger -----------------------------
(***************************************************************************)
(* What the graph journal promises, without its log, its caches or its     *)
(* writers: one graph, created once, that changes only by an admissible    *)
(* envelope decided against the revision the graph then has.  Every        *)
(* refused or repeated envelope is a stuttering step.                      *)
(***************************************************************************)
EXTENDS GraphSemantics

CONSTANTS
    Envelopes,     \* the envelopes proposers may submit
    MaxRevision    \* bound on graph_revision

ASSUME LedgerAssumption ==
    /\ Envelopes \subseteq Envelope
    /\ MaxRevision \in Nat

VARIABLE graph

Init == graph = EmptyGraph(Nil)

InitGraph(id) ==
    /\ graph.id = Nil
    /\ graph' = EmptyGraph(id)

KeysUsed(g) == {g.history[i].key : i \in DOMAIN g.history}

Accept(env) ==
    /\ graph.id # Nil
    /\ graph.revision < MaxRevision
    /\ env.key \notin KeysUsed(graph)
    /\ Admissible(graph, env)
    /\ graph' = Result(graph, env)

Next ==
    \/ \E id \in GraphIds : InitGraph(id)
    \/ \E env \in Envelopes : Accept(env)

Spec == Init /\ [][Next]_graph

-----------------------------------------------------------------------------

TypeOK == graph \in Graph

(* Compare-and-swap: the revision counts the accepted envelopes, and each  *)
(* was decided against exactly the revision its predecessors had left, so  *)
(* two proposals made against one revision are never both in the history   *)
(* (journal.py _decide: "Splitting it would let two proposers pass the     *)
(* same base_revision check and both commit").                             *)
HistoryIsSerial ==
    /\ graph.revision = Len(graph.history)
    /\ \A i \in DOMAIN graph.history : graph.history[i].base = i - 1

(* At most once: no idempotency key and no mutation id is in the history   *)
(* twice, so a retried envelope cannot have been applied twice.            *)
AppliedAtMostOnce ==
    \A i, j \in DOMAIN graph.history :
        i # j => /\ graph.history[i].key # graph.history[j].key
                 /\ graph.history[i].id # graph.history[j].id

(* The scheduler's first-principles readiness and the state the journal    *)
(* materialised agree after every commit: no admitted node is left waiting *)
(* with its predecessors succeeded, and no ready node is ahead of them     *)
(* (scheduler.py: "They must agree with each other and with the journal's  *)
(* own derived `ready` state").                                            *)
ReadinessAgrees == FullReady(graph) = JournalReady(graph)

(* No structural stall: as long as every node is on its way (none failed,  *)
(* blocked, proposed, superseded or cancelled) and one is unfinished, some *)
(* node is ready or running.  This is what rejecting cycles and dangling   *)
(* edges on the resulting graph is for.                                    *)
OnItsWay == {"admitted", "ready", "running", "succeeded"}

NoStructuralStall ==
    LET unfinished == {n \in Present(graph) : graph.life[n] # "succeeded"}
    IN  (/\ unfinished # {}
         /\ \A n \in Present(graph) : graph.life[n] \in OnItsWay)
        => \E n \in unfinished : graph.life[n] \in {"ready", "running"}

(* Succeeded, failed, superseded and cancelled are final: no later         *)
(* envelope, of any number of operations and any authority, and no         *)
(* readiness pass changes the state of a node once it is terminal          *)
(* (docs/dag-contract.md: "terminal and immutable").                       *)
TerminalImmutable ==
    [][\A n \in Nodes :
          graph.life[n] \in Terminal => graph'.life[n] = graph.life[n]]_graph

(* The net effect of an envelope on a node is a lifecycle edge, possibly   *)
(* followed by the engine's own admitted <-> ready move; in particular the *)
(* only way to be running is from ready.                                   *)
NetMove ==
    (LegalTransitions \ {<<"blocked", "ready">>})
        \cup {<<"ready", "admitted">>, <<"proposed", "ready">>}

LifecycleRespected ==
    [][\A n \in Present(graph) :
          \/ graph'.life[n] = graph.life[n]
          \/ <<graph.life[n], graph'.life[n]>> \in NetMove]_graph

(* The intent plane, the controls, the approvals and the promotion of a    *)
(* node that is in the graph change only under human authority: an         *)
(* automatic proposer never gets one of them into a commit, whatever it    *)
(* flags and whatever else its envelope carries (semantics.py              *)
(* validate_mutation, authority-matrix.json).                              *)
Governed(g) == <<g.intents, g.links, g.controls, g.approvals>>

ByHuman(g) == g.history # <<>> /\ g.history[Len(g.history)].human

AuthorityRespected ==
    [][graph.id # Nil =>
          \/ ByHuman(graph')
          \/ /\ Governed(graph') = Governed(graph)
             /\ \A n \in Present(graph) : graph'.group[n] = graph.group[n]
      ]_graph
=============================================================================
