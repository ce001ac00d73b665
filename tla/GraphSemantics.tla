--------------------------- MODULE GraphSemantics ---------------------------
(***************************************************************************)
(* The execution graph of the DAG engine and the pure rules that decide    *)
(* what one mutation envelope may do to it: the fold of journal.py         *)
(* (_apply_operation, _derive_readiness) and the validation of             *)
(* semantics.py (validate_mutation, validate_snapshot).                    *)
(*                                                                         *)
(* Records are abstracted to their identity and to the references the      *)
(* rules follow.  An edge is its own identifier, an approval is identified *)
(* by the mutation it approves, and a record's free text is left out.      *)
(***************************************************************************)
EXTENDS Naturals, Sequences, FiniteSets

CONSTANTS
    GraphIds,         \* graph_id values
    Nodes,            \* execution_node_id values
    Intents,          \* intent_node_id values
    Evidence,         \* evidence_id values
    Groups,           \* candidate_group_id values an operation may carry
    CandidateGroups,  \* those of Groups that execution-node.schema.json admits
    Leases,           \* lease_id values
    Controls,         \* control_id values
    MutationIds,      \* mutation_id values
    Keys,             \* idempotency_key values
    Nil               \* "no such record"

ASSUME GroupsAssumption ==
    /\ CandidateGroups \subseteq Groups
    /\ Nil \notin GraphIds \cup Intents \cup Groups

-----------------------------------------------------------------------------
(* The vocabularies of vocabulary.schema.json.                             *)

Lifecycle == {"proposed", "admitted", "ready", "running", "succeeded",
              "failed", "blocked", "superseded", "cancelled"}

Terminal == {"succeeded", "failed", "superseded", "cancelled"}

LegalTransitions ==
    { <<"proposed", "admitted">>, <<"admitted", "ready">>,
      <<"ready", "running">>, <<"ready", "blocked">>,
      <<"running", "succeeded">>, <<"running", "failed">>,
      <<"running", "blocked">>, <<"running", "superseded">>,
      <<"running", "cancelled">>, <<"blocked", "ready">> }

LeaseState == {"unclaimed", "active", "released", "expired", "revoked"}

ControlState ==
    {"active", "pause_requested", "paused", "cancel_requested", "cancelled"}

BlockingControl == ControlState \ {"active"}

(* Rows of authority-matrix.json whose approval_required is true.          *)
ApprovalRequired ==
    { "add_intent_node", "remove_intent_node", "add_intent_edge",
      "remove_intent_edge", "remove_schedulable_edge", "approve_mutation",
      "set_control", "promote_candidate", "compensate" }

Edge == [source : Nodes, target : Nodes, basis : Evidence]
Relation == Nodes \X Nodes
IntentEdge == Intents \X Intents
LeaseRecord == [node : Nodes, state : LeaseState, current : BOOLEAN]
ControlRecord == [state : ControlState, graph : GraphIds]

(* One operation of an envelope, a record shape per operation_type.        *)
Operation ==
    [type : {"add_intent_node", "remove_intent_node"}, intent : Intents]
        \cup
    [type : {"add_intent_edge", "remove_intent_edge"}, link : IntentEdge]
        \cup
    [type : {"add_execution_node"}, node : Nodes, intent : Intents,
     life : Lifecycle, gate : ControlState, group : CandidateGroups \cup {Nil}]
        \cup
    [type : {"add_schedulable_edge", "remove_schedulable_edge"}, edge : Edge]
        \cup
    [type : {"add_relation"}, relation : Relation]
        \cup
    [type : {"record_evidence"}, evidence : Evidence]
        \cup
    [type : {"approve_mutation"}, mutation : MutationIds]
        \cup
    [type : {"transition_node"}, node : Nodes,
     from : Lifecycle, to : Lifecycle]
        \cup
    [type : {"acquire_lease"}, lease : Leases, record : LeaseRecord]
        \cup
    [type : {"release_lease"}, lease : Leases]
        \cup
    [type : {"set_control"}, control : Controls, record : ControlRecord]
        \cup
    [type : {"promote_candidate"}, node : Nodes, group : Groups]
        \cup
    [type : {"compensate"}, mutation : MutationIds,
     node : Nodes, replacement : Nodes]

(* A mutation envelope: authority_class = "human" is the Boolean human,    *)
(* requires_approval is the Boolean flagged.                               *)
Envelope ==
    [graph : GraphIds, id : MutationIds, key : Keys, base : Nat,
     human : BOOLEAN, flagged : BOOLEAN, evidence : SUBSET Evidence,
     ops : Seq(Operation)]

(* The folded graph.  A node is absent until it is added; group[n] is the  *)
(* group n has been promoted in (candidate.disposition = "promoted").  A   *)
(* node's own copy of its lease_state is read by no rule and left out.     *)
Graph ==
    [id : GraphIds \cup {Nil}, revision : Nat,
     life : [Nodes -> Lifecycle \cup {"absent"}],
     plan : [Nodes -> Intents \cup {Nil}],
     gate : [Nodes -> ControlState],
     group : [Nodes -> Groups \cup {Nil}],
     intents : SUBSET Intents, links : SUBSET IntentEdge,
     edges : SUBSET Edge, relations : SUBSET Relation,
     evidence : SUBSET Evidence, approvals : SUBSET MutationIds,
     leases : [Leases -> LeaseRecord \cup {Nil}],
     controls : [Controls -> ControlRecord \cup {Nil}],
     history : Seq(Envelope)]

EmptyGraph(id) ==
    [id |-> id, revision |-> 0,
     life |-> [n \in Nodes |-> "absent"],
     plan |-> [n \in Nodes |-> Nil],
     gate |-> [n \in Nodes |-> "active"],
     group |-> [n \in Nodes |-> Nil],
     intents |-> {}, links |-> {}, edges |-> {}, relations |-> {},
     evidence |-> {}, approvals |-> {},
     leases |-> [l \in Leases |-> Nil],
     controls |-> [c \in Controls |-> Nil],
     history |-> <<>>]

Present(g) == {n \in Nodes : g.life[n] # "absent"}

-----------------------------------------------------------------------------
(* Readiness.  A schedulable edge runs its source after its target.        *)

Satisfied(g, n) ==
    \A e \in g.edges : e.source = n => g.life[e.target] = "succeeded"

(* Mutant: a node is made ready and never taken back.                      *)
DeriveReadinessForward(g) ==
    [g EXCEPT !.life = [n \in Nodes |->
        IF g.life[n] = "admitted" /\ Satisfied(g, n) THEN "ready"
        ELSE g.life[n]]]

(* _derive_readiness: the engine alone moves a node between admitted and   *)
(* ready, once, after the operations of an envelope have been applied.     *)
DeriveReadiness(g) ==
    [g EXCEPT !.life = [n \in Nodes |->
        IF g.life[n] = "admitted" /\ Satisfied(g, n) THEN "ready"
        ELSE IF g.life[n] = "ready" /\ ~Satisfied(g, n) THEN "admitted"
        ELSE g.life[n]]]

GraphPaused(g) ==
    \E c \in Controls : /\ g.controls[c] # Nil
                        /\ g.controls[c].state \in BlockingControl

(* GraphJournal.ready_set: the materialised state, under the controls.     *)
JournalReady(g) ==
    IF GraphPaused(g) THEN {}
    ELSE {n \in Nodes : g.life[n] = "ready" /\ g.gate[n] = "active"}

NodeIsReady(g, n) ==
    /\ g.life[n] \in {"admitted", "ready"}
    /\ g.gate[n] = "active"
    /\ Satisfied(g, n)

(* scheduler.full_ready_set: readiness from first principles.              *)
FullReady(g) ==
    IF GraphPaused(g) THEN {} ELSE {n \in Nodes : NodeIsReady(g, n)}

-----------------------------------------------------------------------------
(* The fold of one operation.  A working state is the graph, the           *)
(* identifiers it holds twice (the collections are lists: an addition that *)
(* repeats an identifier is only refused by the validation of the result)  *)
(* and whether an operation could not be applied (JournalError).           *)

Work(g) == [graph |-> g, twice |-> {}, failed |-> FALSE]

Fail(w) == [w EXCEPT !.failed = TRUE]

Insert(w, present, record, next) ==
    IF present THEN [w EXCEPT !.twice = @ \cup {record}]
    ELSE [w EXCEPT !.graph = next]

Remove(w, present, record, next) ==
    IF present
    THEN [w EXCEPT !.graph = next, !.twice = @ \ {record}]
    ELSE Fail(w)

AddNode(w, op) ==
    LET g == w.graph IN
    Insert(w, op.node \in Present(g), op.node,
           [g EXCEPT !.life[op.node] = op.life, !.plan[op.node] = op.intent,
                     !.gate[op.node] = op.gate, !.group[op.node] = op.group])

AcquireLease(w, op) ==
    IF op.record.node \in Present(w.graph)
    THEN [w EXCEPT !.graph.leases[op.lease] = op.record]
    ELSE Fail(w)

ReleaseLease(w, op) ==
    IF w.graph.leases[op.lease] # Nil
    THEN [w EXCEPT !.graph.leases[op.lease].state = "released"]
    ELSE Fail(w)

TransitionNode(w, op) ==
    IF op.node \in Present(w.graph)
    THEN [w EXCEPT !.graph.life[op.node] = op.to]
    ELSE Fail(w)

PromoteCandidate(w, op) ==
    IF op.node \in Present(w.graph)
    THEN [w EXCEPT !.graph.group[op.node] = op.group]
    ELSE Fail(w)

(* Mutant: a compensation supersedes the node it corrects.                 *)
CompensateRewrites(w, op) ==
    [w EXCEPT !.graph.life[op.node] = "superseded"]

(* A compensation rewrites nothing: its effect is its envelope's place in  *)
(* the history.                                                            *)
Compensate(w, op) == w

ApplyOperation(w, op) ==
    LET g == w.graph IN
    CASE op.type = "add_intent_node" ->
             Insert(w, op.intent \in g.intents, op.intent,
                    [g EXCEPT !.intents = @ \cup {op.intent}])
      [] op.type = "add_intent_edge" ->
             Insert(w, op.link \in g.links, op.link,
                    [g EXCEPT !.links = @ \cup {op.link}])
      [] op.type = "add_schedulable_edge" ->
             Insert(w, op.edge \in g.edges, op.edge,
                    [g EXCEPT !.edges = @ \cup {op.edge}])
      [] op.type = "add_relation" ->
             Insert(w, op.relation \in g.relations, op.relation,
                    [g EXCEPT !.relations = @ \cup {op.relation}])
      [] op.type = "record_evidence" ->
             Insert(w, op.evidence \in g.evidence, op.evidence,
                    [g EXCEPT !.evidence = @ \cup {op.evidence}])
      [] op.type = "add_execution_node" -> AddNode(w, op)
      [] op.type = "remove_intent_node" ->
             Remove(w, op.intent \in g.intents, op.intent,
                    [g EXCEPT !.intents = @ \ {op.intent}])
      [] op.type = "remove_intent_edge" ->
             Remove(w, op.link \in g.links, op.link,
                    [g EXCEPT !.links = @ \ {op.link}])
      [] op.type = "remove_schedulable_edge" ->
             Remove(w, op.edge \in g.edges, op.edge,
                    [g EXCEPT !.edges = @ \ {op.edge}])
      [] op.type = "approve_mutation" ->
             [w EXCEPT !.graph.approvals = @ \cup {op.mutation}]
      [] op.type = "set_control" ->
             [w EXCEPT !.graph.controls[op.control] = op.record]
      [] op.type = "acquire_lease" -> AcquireLease(w, op)
      [] op.type = "release_lease" -> ReleaseLease(w, op)
      [] op.type = "transition_node" -> TransitionNode(w, op)
      [] op.type = "promote_candidate" -> PromoteCandidate(w, op)
      [] op.type = "compensate" -> Compensate(w, op)

(* The operations of an envelope, in order; the first failure stops it.    *)
Step(w, op) == IF w.failed THEN w ELSE ApplyOperation(w, op)

ApplyOperations(g, ops) ==
    LET after[i \in 0..Len(ops)] ==
            IF i = 0 THEN Work(g) ELSE Step(after[i-1], ops[i])
    IN  after[Len(ops)]

(* The graph an accepted envelope leaves: fold step of an accepted event.  *)
Commit(g, env) ==
    LET next == DeriveReadiness(g)
    IN  [next EXCEPT !.revision = @ + 1, !.history = Append(@, env)]

Result(g, env) == Commit(ApplyOperations(g, env.ops).graph, env)

-----------------------------------------------------------------------------
(* validate_snapshot: identity, references, promotion and acyclicity.      *)

Acyclic(edges) ==
    \A S \in SUBSET Nodes :
        S # {} => \E n \in S : \A e \in edges :
                      ~(e.source = n /\ e.target \in S)

HistoryIds(g) == {g.history[i].id : i \in DOMAIN g.history}

ReferencesResolve(g) ==
    /\ \A n \in Present(g) : g.plan[n] \in g.intents
    /\ \A l \in g.links : l[1] \in g.intents /\ l[2] \in g.intents
    /\ \A e \in g.edges : /\ {e.source, e.target} \subseteq Present(g)
                          /\ e.basis \in g.evidence
    /\ \A r \in g.relations : {r[1], r[2]} \subseteq Present(g)
    /\ \A c \in Controls : g.controls[c] # Nil => g.controls[c].graph = g.id
    /\ \A l \in Leases : g.leases[l] # Nil =>
           g.leases[l].node \in Present(g) /\ g.leases[l].current
    /\ g.approvals \subseteq HistoryIds(g)
    /\ \A i \in DOMAIN g.history :
           /\ g.history[i].graph = g.id
           /\ g.history[i].base <= g.revision
           /\ g.history[i].evidence \subseteq g.evidence

OnePromotionPerGroup(g) ==
    \A m, n \in Present(g) :
        g.group[m] # Nil /\ g.group[m] = g.group[n] => m = n

DistinctMutations(g) ==
    \A i, j \in DOMAIN g.history :
        g.history[i].id = g.history[j].id => i = j

(* Mutants: a mutation id may come twice; cycles are not looked for.       *)
SnapshotValidTwice(g) ==
    /\ ReferencesResolve(g)
    /\ OnePromotionPerGroup(g)
    /\ Acyclic(g.edges)

SnapshotValidCyclic(g) ==
    /\ ReferencesResolve(g)
    /\ DistinctMutations(g)
    /\ OnePromotionPerGroup(g)

SnapshotValid(g) ==
    /\ ReferencesResolve(g)
    /\ DistinctMutations(g)
    /\ OnePromotionPerGroup(g)
    /\ Acyclic(g.edges)

(* The JSON Schema pass over a whole snapshot, which validate_snapshot     *)
(* skips when it is called with schema=False: the one shape an envelope    *)
(* can get past its own schema is a promoted node's group_id.              *)
ShapeValid(g) ==
    \A n \in Present(g) : g.group[n] \in CandidateGroups \cup {Nil}

-----------------------------------------------------------------------------
(* validate_mutation: an envelope against the graph it would change.       *)

OpsOf(env) == {env.ops[i] : i \in DOMAIN env.ops}

NeedsApproval(env) == \E op \in OpsOf(env) : op.type \in ApprovalRequired

(* Mutant: the flag is believed, whoever set it.                           *)
AuthorisedByFlag(env) == env.flagged = NeedsApproval(env)

Authorised(env) ==
    /\ NeedsApproval(env) => env.human
    /\ env.flagged = NeedsApproval(env)

(* Mutant: only the transition is looked at.                               *)
TransitionLegalFromAnywhere(g, op) ==
    /\ op.node \in Present(g)
    /\ <<op.from, op.to>> \in LegalTransitions
    /\ op.to # "ready"

TransitionLegal(g, op) ==
    /\ op.node \in Present(g)
    /\ op.from = g.life[op.node]
    /\ <<op.from, op.to>> \in LegalTransitions
    /\ op.to # "ready"

CompensationLegal(g, op) ==
    /\ op.mutation \in HistoryIds(g)
    /\ g.life[op.node] \in Terminal
    /\ op.replacement \in Present(g) \ {op.node}

(* Mutant: a base revision of the past is good enough.                     *)
MutationValidLate(g, env) ==
    /\ env.graph = g.id
    /\ env.base <= g.revision
    /\ \A i \in DOMAIN g.history :
           g.history[i].key = env.key => g.history[i] = env
    /\ env.evidence \subseteq g.evidence
    /\ Authorised(env)
    /\ \A op \in OpsOf(env) :
           /\ op.type = "transition_node" => TransitionLegal(g, op)
           /\ op.type = "compensate" => CompensationLegal(g, op)

MutationValid(g, env) ==
    /\ env.graph = g.id
    /\ env.base = g.revision
    /\ \A i \in DOMAIN g.history :
           g.history[i].key = env.key => g.history[i] = env
    /\ env.evidence \subseteq g.evidence
    /\ Authorised(env)
    /\ \A op \in OpsOf(env) :
           /\ op.type = "transition_node" => TransitionLegal(g, op)
           /\ op.type = "compensate" => CompensationLegal(g, op)

(* What is left of _decide once the envelope is known to be new: the       *)
(* mutation is valid, every operation applies, and the graph that results  *)
(* is valid (schema=False: its shape is not looked at).                    *)
Admissible(g, env) ==
    LET done == ApplyOperations(g, env.ops) IN
    /\ MutationValid(g, env)
    /\ ~done.failed
    /\ done.twice = {}
    /\ SnapshotValid(Commit(done.graph, env))
=============================================================================
