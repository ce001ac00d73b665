-------------------------- MODULE GraphLedgerProofs --------------------------
(***************************************************************************)
(* Proofs about the graph ledger, for every set of nodes, of envelopes and *)
(* every bound on the revision.                                            *)
(***************************************************************************)
EXTENDS GraphLedger, Integers, FiniteSetTheorems, WellFoundedInduction, TLAPS

-----------------------------------------------------------------------------
(* Induction over the natural numbers, stated about a set of numbers and   *)
(* not about a predicate, so that it can be cited: the numbers below n     *)
(* that have a property are a set, which contains 0..n as soon as it       *)
(* contains 0 and the successor of each of its members.  Derived from the  *)
(* well-foundedness of the strict subset ordering of finite sets.          *)

(* A non-empty set of natural numbers has a least element.                 *)
LEMMA LeastNatural ==
    ASSUME NEW T \in SUBSET Nat, T # {}
    PROVE  \E m \in T : \A k \in T : m <= k
<1> DEFINE I == {0..n : n \in T}
<1>1. I \subseteq FiniteSubsetsOf(Nat)
  <2>1. \A n \in T : 0..n \in SUBSET Nat /\ IsFiniteSet(0..n)
    BY FS_Interval
  <2>2. \A i \in I : i \in SUBSET Nat /\ IsFiniteSet(i)
    BY <2>1
  <2> QED BY <2>2 DEF FiniteSubsetsOf
<1>2. I # {}
  OBVIOUS
<1>3. IsWellFoundedOn(StrictSubsetOrdering(Nat), FiniteSubsetsOf(Nat))
  BY FS_StrictSubsetOrderingWellFounded
<1>4. PICK i \in I : \A j \in I : <<j, i>> \notin StrictSubsetOrdering(Nat)
  <2> HIDE DEF I
  <2> QED BY <1>1, <1>2, <1>3, WFMin
<1>5. PICK m \in T : i = 0..m
  OBVIOUS
<1>6. ASSUME NEW k \in T, k < m PROVE FALSE
  <2>1. <<0..k, 0..m>> \in StrictSubsetOrdering(Nat)
    BY <1>6 DEF StrictSubsetOrdering
  <2> QED BY <2>1, <1>4, <1>5
<1> QED BY <1>6

(* Induction up to n.                                                      *)
LEMMA InductionUpTo ==
    ASSUME NEW n \in Nat, NEW S,
           0 \in S, \A i \in 0..(n-1) : i \in S => i + 1 \in S
    PROVE  0..n \subseteq S
<1> SUFFICES ASSUME (0..n) \ S # {} PROVE FALSE
  OBVIOUS
<1> DEFINE T == (0..n) \ S
<1>1. PICK m \in T : \A k \in T : m <= k
  <2>1. T \in SUBSET Nat /\ T # {}
    OBVIOUS
  <2> HIDE DEF T
  <2> QED BY <2>1, LeastNatural
<1>2. m - 1 \in 0..(n-1) /\ m - 1 \in S
  BY <1>1
<1> QED BY <1>1, <1>2

-----------------------------------------------------------------------------
(* The fold of an envelope's operations.                                   *)

(* The recursive definition of the fold has a solution.                    *)
LEMMA FoldExists ==
    ASSUME NEW g, NEW ops, Len(ops) \in Nat
    PROVE  \E f : f = [i \in 0..Len(ops) |->
                         IF i = 0 THEN Work(g) ELSE Step(f[i-1], ops[i])]
<1> DEFINE Solves(f, n) ==
        f = [i \in 0..n |-> IF i = 0 THEN Work(g) ELSE Step(f[i-1], ops[i])]
    S == {n \in 0..Len(ops) : \E f : Solves(f, n)}
<1>1. 0 \in S
  <2>1. Solves([i \in 0..0 |-> Work(g)], 0)
    OBVIOUS
  <2>2. \E f : Solves(f, 0)
    <3> HIDE DEF Solves
    <3> QED BY <2>1
  <2> QED BY <2>2
<1>2. ASSUME NEW n \in 0..(Len(ops) - 1), n \in S
      PROVE  n + 1 \in S
  <2>1. PICK f : Solves(f, n)
    BY <1>2
  <2> DEFINE h == [i \in 0..(n+1) |->
                      IF i = n + 1 THEN Step(f[n], ops[n+1]) ELSE f[i]]
  <2>2. \A i \in 0..n : h[i] = f[i]
    OBVIOUS
  <2>3. \A i \in 0..(n+1) :
           h[i] = IF i = 0 THEN Work(g) ELSE Step(h[i-1], ops[i])
    <3> TAKE i \in 0..(n+1)
    <3>1. CASE i = n + 1
      <4>1. h[i] = Step(f[n], ops[n+1])
        BY <3>1
      <4>2. h[i-1] = f[n]
        BY <3>1
      <4> QED BY <3>1, <4>1, <4>2
    <3>2. CASE i # n + 1
      <4>1. i \in 0..n
        BY <3>2
      <4>2. f[i] = IF i = 0 THEN Work(g) ELSE Step(f[i-1], ops[i])
        BY <2>1, <4>1
      <4>3. i # 0 => h[i-1] = f[i-1]
        BY <2>2, <4>1
      <4> QED BY <2>2, <4>1, <4>2, <4>3
    <3> QED BY <3>1, <3>2
  <2>4. Solves(h, n + 1)
    <3> HIDE DEF h
    <3>1. h = [i \in 0..(n+1) |-> h[i]]
      BY DEF h
    <3> QED BY <2>3, <3>1
  <2>5. \E f1 : Solves(f1, n + 1)
    <3> HIDE DEF Solves, h
    <3> QED BY <2>4
  <2>6. n + 1 \in 0..Len(ops)
    OBVIOUS
  <2> HIDE DEF Solves
  <2> QED BY <2>5, <2>6
<1> HIDE DEF S
<1>3. 0..Len(ops) \subseteq S
  BY <1>1, <1>2, InductionUpTo
<1> QED BY <1>3 DEF S

(* A set of working states that the fold starts in and that no operation   *)
(* of the envelope leaves holds the outcome of the fold.                   *)
LEMMA FoldStaysIn ==
    ASSUME NEW g, NEW ops, Len(ops) \in Nat, NEW W,
           Work(g) \in W,
           \A w \in W : \A i \in 1..Len(ops) : Step(w, ops[i]) \in W
    PROVE  ApplyOperations(g, ops) \in W
<1> DEFINE Solves(f) ==
        f = [i \in 0..Len(ops) |->
               IF i = 0 THEN Work(g) ELSE Step(f[i-1], ops[i])]
    after == CHOOSE f : Solves(f)
<1>1. Solves(after)
  BY FoldExists
<1>2. ApplyOperations(g, ops) = after[Len(ops)]
  BY DEF ApplyOperations
<1> DEFINE S == {i \in 0..Len(ops) : after[i] \in W}
<1> HIDE DEF after
<1>3. 0 \in S
  BY <1>1
<1>4. \A i \in 0..(Len(ops) - 1) : i \in S => i + 1 \in S
  <2> TAKE i \in 0..(Len(ops) - 1)
  <2> HAVE i \in S
  <2>1. after[i + 1] = Step(after[i], ops[i + 1])
    BY <1>1
  <2> QED BY <2>1
<1> HIDE DEF S
<1>5. 0..Len(ops) \subseteq S
  BY <1>3, <1>4, InductionUpTo
<1> QED BY <1>2, <1>5 DEF S

-----------------------------------------------------------------------------
(* Types.                                                                  *)

RecordNames ==
    UNION {Intents, IntentEdge, Nodes, Edge, Relation, Evidence}

WorkSet == [graph : Graph, twice : SUBSET RecordNames, failed : BOOLEAN]

(* The fold starts in a well-formed working state.                         *)
LEMMA WorkTyped ==
    ASSUME NEW g \in Graph
    PROVE  Work(g) \in WorkSet
  BY DEF Work, WorkSet

(* Additions and removals keep it so.                                      *)
LEMMA InsertTyped ==
    ASSUME NEW w \in WorkSet, NEW present, NEW record \in RecordNames,
           NEW next \in Graph
    PROVE  /\ Insert(w, present, record, next) \in WorkSet
           /\ Remove(w, present, record, next) \in WorkSet
<1>1. Insert(w, present, record, next) \in WorkSet
  BY DEF Insert, WorkSet
<1>2. Remove(w, present, record, next) \in WorkSet
  BY DEF Remove, Fail, WorkSet
<1> QED BY <1>1, <1>2

(* An operation leaves a working state with a graph in it.                 *)
LEMMA ApplyTyped ==
    ASSUME NEW w \in WorkSet, NEW op \in Operation
    PROVE  ApplyOperation(w, op) \in WorkSet
<1> DEFINE g == w.graph
<1>g. g \in Graph
  BY DEF WorkSet
<1>1. CASE op \in [type : {"add_intent_node", "remove_intent_node"},
                   intent : Intents]
  <2>1. op.intent \in RecordNames
    BY <1>1 DEF RecordNames
  <2>2. /\ [g EXCEPT !.intents = @ \cup {op.intent}] \in Graph
        /\ [g EXCEPT !.intents = @ \ {op.intent}] \in Graph
    BY <1>1, <1>g DEF Graph
  <2>3. op.type \in {"add_intent_node", "remove_intent_node"}
    BY <1>1
  <2> QED BY <2>1, <2>2, <2>3, InsertTyped DEF ApplyOperation
<1>2. CASE op \in [type : {"add_intent_edge", "remove_intent_edge"},
                   link : IntentEdge]
  <2>1. op.link \in RecordNames
    BY <1>2 DEF RecordNames
  <2>2. /\ [g EXCEPT !.links = @ \cup {op.link}] \in Graph
        /\ [g EXCEPT !.links = @ \ {op.link}] \in Graph
    BY <1>2, <1>g DEF Graph
  <2>3. op.type \in {"add_intent_edge", "remove_intent_edge"}
    BY <1>2
  <2> QED BY <2>1, <2>2, <2>3, InsertTyped DEF ApplyOperation
<1>3. CASE op \in [type : {"add_schedulable_edge", "remove_schedulable_edge"},
                   edge : Edge]
  <2>1. op.edge \in RecordNames
    BY <1>3 DEF RecordNames
  <2>2. /\ [g EXCEPT !.edges = @ \cup {op.edge}] \in Graph
        /\ [g EXCEPT !.edges = @ \ {op.edge}] \in Graph
    BY <1>3, <1>g DEF Graph
  <2>3. op.type \in {"add_schedulable_edge", "remove_schedulable_edge"}
    BY <1>3
  <2> QED BY <2>1, <2>2, <2>3, InsertTyped DEF ApplyOperation
<1>4. CASE op \in [type : {"add_relation"}, relation : Relation]
  <2>1. op.relation \in RecordNames
    BY <1>4 DEF RecordNames
  <2>2. [g EXCEPT !.relations = @ \cup {op.relation}] \in Graph
    BY <1>4, <1>g DEF Graph
  <2>3. op.type = "add_relation"
    BY <1>4
  <2> QED BY <2>1, <2>2, <2>3, InsertTyped DEF ApplyOperation
<1>5. CASE op \in [type : {"record_evidence"}, evidence : Evidence]
  <2>1. op.evidence \in RecordNames
    BY <1>5 DEF RecordNames
  <2>2. [g EXCEPT !.evidence = @ \cup {op.evidence}] \in Graph
    BY <1>5, <1>g DEF Graph
  <2>3. op.type = "record_evidence"
    BY <1>5
  <2> QED BY <2>1, <2>2, <2>3, InsertTyped DEF ApplyOperation
<1>6. CASE op \in [type : {"add_execution_node"}, node : Nodes,
                   intent : Intents, life : Lifecycle, gate : ControlState,
                   group : CandidateGroups \cup {Nil}]
  <2> DEFINE next ==
        [g EXCEPT !.life[op.node] = op.life, !.plan[op.node] = op.intent,
                  !.gate[op.node] = op.gate, !.group[op.node] = op.group]
  <2>1. op.node \in RecordNames
    BY <1>6 DEF RecordNames
  <2>2. next \in Graph
    BY <1>6, <1>g, GroupsAssumption DEF Graph
  <2>3. op.type = "add_execution_node"
    BY <1>6
  <2>4. AddNode(w, op) \in WorkSet
    BY <2>1, <2>2, InsertTyped DEF AddNode
  <2> QED BY <2>3, <2>4 DEF ApplyOperation
<1>7. CASE op \in [type : {"approve_mutation"}, mutation : MutationIds]
  <2>1. [g EXCEPT !.approvals = @ \cup {op.mutation}] \in Graph
    BY <1>7, <1>g DEF Graph
  <2>2. ApplyOperation(w, op) = [w EXCEPT !.graph.approvals = @ \cup {op.mutation}]
    BY <1>7 DEF ApplyOperation
  <2> QED BY <2>1, <2>2 DEF WorkSet
<1>8. CASE op \in [type : {"transition_node"}, node : Nodes,
                   from : Lifecycle, to : Lifecycle]
  <2>1. [g EXCEPT !.life[op.node] = op.to] \in Graph
    BY <1>8, <1>g DEF Graph
  <2>2. ApplyOperation(w, op) = TransitionNode(w, op)
    BY <1>8 DEF ApplyOperation
  <2> QED BY <2>1, <2>2 DEF WorkSet, TransitionNode, Fail
<1>9. CASE op \in [type : {"acquire_lease"}, lease : Leases,
                   record : LeaseRecord]
  <2>1. [g EXCEPT !.leases[op.lease] = op.record] \in Graph
    BY <1>9, <1>g DEF Graph
  <2>2. ApplyOperation(w, op) = AcquireLease(w, op)
    BY <1>9 DEF ApplyOperation
  <2> QED BY <2>1, <2>2 DEF WorkSet, AcquireLease, Fail
<1>10. CASE op \in [type : {"release_lease"}, lease : Leases]
  <2>1. ASSUME g.leases[op.lease] # Nil
        PROVE  [g EXCEPT !.leases[op.lease].state = "released"] \in Graph
    <3>1. g.leases[op.lease] \in LeaseRecord
      BY <1>10, <1>g, <2>1 DEF Graph
    <3>2. [g.leases[op.lease] EXCEPT !.state = "released"] \in LeaseRecord
      BY <3>1 DEF LeaseRecord, LeaseState
    <3> QED BY <1>10, <1>g, <3>2 DEF Graph
  <2>2. ApplyOperation(w, op) = ReleaseLease(w, op)
    BY <1>10 DEF ApplyOperation
  <2> QED BY <2>1, <2>2 DEF WorkSet, ReleaseLease, Fail
<1>11. CASE op \in [type : {"set_control"}, control : Controls,
                    record : ControlRecord]
  <2>1. [g EXCEPT !.controls[op.control] = op.record] \in Graph
    BY <1>11, <1>g DEF Graph
  <2>2. ApplyOperation(w, op) = [w EXCEPT !.graph.controls[op.control] = op.record]
    BY <1>11 DEF ApplyOperation
  <2> QED BY <2>1, <2>2 DEF WorkSet
<1>12. CASE op \in [type : {"promote_candidate"}, node : Nodes, group : Groups]
  <2>1. [g EXCEPT !.group[op.node] = op.group] \in Graph
    BY <1>12, <1>g DEF Graph
  <2>2. ApplyOperation(w, op) = PromoteCandidate(w, op)
    BY <1>12 DEF ApplyOperation
  <2> QED BY <2>1, <2>2 DEF WorkSet, PromoteCandidate, Fail
<1>13. CASE op \in [type : {"compensate"}, mutation : MutationIds,
                    node : Nodes, replacement : Nodes]
  <2>1. ApplyOperation(w, op) = w
    BY <1>13 DEF ApplyOperation, Compensate
  <2> QED BY <2>1
<1> QED
  BY <1>1, <1>2, <1>3, <1>4, <1>5, <1>6, <1>7, <1>8, <1>9, <1>10, <1>11,
     <1>12, <1>13 DEF Operation
-----------------------------------------------------------------------------
(* What one operation can do to the graph: identity, revision and history  *)
(* are out of its reach; a node that is in the graph stays in it and       *)
(* changes state by a transition only; what is governed changes by an      *)
(* operation that requires approval.                                       *)
Effect(g, next, op) ==
    /\ next.id = g.id
    /\ next.revision = g.revision
    /\ next.history = g.history
    /\ \A n \in Present(g) :
          /\ n \in Present(next)
          /\ \/ next.life[n] = g.life[n]
             \/ /\ op.type = "transition_node"
                /\ op.node = n
                /\ next.life[n] = op.to
    /\ op.type \notin ApprovalRequired =>
          /\ Governed(next) = Governed(g)
          /\ \A n \in Present(g) : next.group[n] = g.group[n]

(* An operation that changes nothing does nothing more than it may.        *)
LEMMA EffectOfNothing ==
    ASSUME NEW g, NEW op
    PROVE  Effect(g, g, op)
  BY DEF Effect

(* No operation does more than that.                                       *)
LEMMA OperationEffect ==
    ASSUME NEW w \in WorkSet, NEW op \in Operation
    PROVE  Effect(w.graph, ApplyOperation(w, op).graph, op)
<1> DEFINE g == w.graph
           u == ApplyOperation(w, op)
<1>g. g \in Graph
  BY DEF WorkSet
<1>n. Effect(g, g, op)
  BY EffectOfNothing
<1>1. CASE op \in [type : {"add_intent_node", "remove_intent_node"},
                   intent : Intents]
  <2>1. u.graph \in {g, [g EXCEPT !.intents = @ \cup {op.intent}],
                        [g EXCEPT !.intents = @ \ {op.intent}]}
    BY <1>1 DEF ApplyOperation, Insert, Remove, Fail, WorkSet
  <2> QED BY <1>1, <1>g, <1>n, <2>1 DEF Effect, Graph, Present, ApprovalRequired
<1>2. CASE op \in [type : {"add_intent_edge", "remove_intent_edge"},
                   link : IntentEdge]
  <2>1. u.graph \in {g, [g EXCEPT !.links = @ \cup {op.link}],
                        [g EXCEPT !.links = @ \ {op.link}]}
    BY <1>2 DEF ApplyOperation, Insert, Remove, Fail, WorkSet
  <2> QED BY <1>2, <1>g, <1>n, <2>1 DEF Effect, Graph, Present, ApprovalRequired
<1>3. CASE op \in [type : {"add_schedulable_edge", "remove_schedulable_edge"},
                   edge : Edge]
  <2>1. u.graph \in {g, [g EXCEPT !.edges = @ \cup {op.edge}],
                        [g EXCEPT !.edges = @ \ {op.edge}]}
    BY <1>3 DEF ApplyOperation, Insert, Remove, Fail, WorkSet
  <2> QED BY <1>g, <1>n, <2>1 DEF Effect, Graph, Present, Governed
<1>4. CASE op \in [type : {"add_relation"}, relation : Relation]
  <2>1. u.graph \in {g, [g EXCEPT !.relations = @ \cup {op.relation}]}
    BY <1>4 DEF ApplyOperation, Insert, WorkSet
  <2> QED BY <1>g, <1>n, <2>1 DEF Effect, Graph, Present, Governed
<1>5. CASE op \in [type : {"record_evidence"}, evidence : Evidence]
  <2>1. u.graph \in {g, [g EXCEPT !.evidence = @ \cup {op.evidence}]}
    BY <1>5 DEF ApplyOperation, Insert, WorkSet
  <2> QED BY <1>g, <1>n, <2>1 DEF Effect, Graph, Present, Governed
<1>6. CASE op \in [type : {"add_execution_node"}, node : Nodes,
                   intent : Intents, life : Lifecycle, gate : ControlState,
                   group : CandidateGroups \cup {Nil}]
  <2> DEFINE next ==
        [g EXCEPT !.life[op.node] = op.life, !.plan[op.node] = op.intent,
                  !.gate[op.node] = op.gate, !.group[op.node] = op.group]
  <2>1. u.graph = g \/ (op.node \notin Present(g) /\ u.graph = next)
    BY <1>6 DEF ApplyOperation, AddNode, Insert, WorkSet
  <2>2. ASSUME op.node \notin Present(g)
        PROVE  Effect(g, next, op)
    <3>1. op.life # "absent" /\ op.node \in Nodes
      BY <1>6 DEF Lifecycle
    <3>2. \A n \in Present(g) : /\ n # op.node
                                /\ next.life[n] = g.life[n]
                                /\ next.group[n] = g.group[n]
      BY <1>g, <2>2 DEF Graph, Present
    <3>3. /\ next.id = g.id
          /\ next.revision = g.revision
          /\ next.history = g.history
          /\ Governed(next) = Governed(g)
      BY <1>g DEF Graph, Governed
    <3> QED BY <3>1, <3>2, <3>3 DEF Effect, Present
  <2> QED BY <1>n, <2>1, <2>2
<1>7. CASE op \in [type : {"approve_mutation"}, mutation : MutationIds]
  <2>1. u.graph = [g EXCEPT !.approvals = @ \cup {op.mutation}]
    BY <1>7 DEF ApplyOperation, WorkSet, Graph
  <2> QED BY <1>7, <1>g, <2>1 DEF Effect, Graph, Present, ApprovalRequired
<1>8. CASE op \in [type : {"transition_node"}, node : Nodes,
                   from : Lifecycle, to : Lifecycle]
  <2>1. u.graph \in {g, [g EXCEPT !.life[op.node] = op.to]}
    BY <1>8 DEF ApplyOperation, TransitionNode, Fail, WorkSet, Graph
  <2> QED
    BY <1>8, <1>g, <1>n, <2>1 DEF Effect, Graph, Present, Governed, Lifecycle
<1>9. CASE op \in [type : {"acquire_lease"}, lease : Leases,
                   record : LeaseRecord]
  <2>1. u.graph \in {g, [g EXCEPT !.leases[op.lease] = op.record]}
    BY <1>9 DEF ApplyOperation, AcquireLease, Fail, WorkSet, Graph
  <2> QED BY <1>g, <1>n, <2>1 DEF Effect, Graph, Present, Governed
<1>10. CASE op \in [type : {"release_lease"}, lease : Leases]
  <2>1. u.graph \in {g, [g EXCEPT !.leases[op.lease].state = "released"]}
    BY <1>10 DEF ApplyOperation, ReleaseLease, Fail, WorkSet, Graph
  <2> QED BY <1>g, <1>n, <2>1 DEF Effect, Graph, Present, Governed
<1>11. CASE op \in [type : {"set_control"}, control : Controls,
                    record : ControlRecord]
  <2>1. u.graph = [g EXCEPT !.controls[op.control] = op.record]
    BY <1>11 DEF ApplyOperation, WorkSet, Graph
  <2> QED BY <1>11, <1>g, <2>1 DEF Effect, Graph, Present, ApprovalRequired
<1>12. CASE op \in [type : {"promote_candidate"}, node : Nodes, group : Groups]
  <2>1. u.graph \in {g, [g EXCEPT !.group[op.node] = op.group]}
    BY <1>12 DEF ApplyOperation, PromoteCandidate, Fail, WorkSet, Graph
  <2> QED
    BY <1>12, <1>g, <1>n, <2>1 DEF Effect, Graph, Present, ApprovalRequired
<1>13. CASE op \in [type : {"compensate"}, mutation : MutationIds,
                    node : Nodes, replacement : Nodes]
  <2>1. u.graph = g
    BY <1>13 DEF ApplyOperation, Compensate
  <2> QED BY <1>n, <2>1
<1> QED
  BY <1>1, <1>2, <1>3, <1>4, <1>5, <1>6, <1>7, <1>8, <1>9, <1>10, <1>11,
     <1>12, <1>13 DEF Operation
-----------------------------------------------------------------------------
(* What a valid envelope can do to the graph it was decided against.  Its  *)
(* operations are checked against that graph only, and applied one after   *)
(* the other: the lifecycle still moves by one legal edge at most.         *)
Moved(g, next) ==
    \A n \in Present(g) :
        /\ n \in Present(next)
        /\ \/ next.life[n] = g.life[n]
           \/ /\ <<g.life[n], next.life[n]>> \in LegalTransitions
              /\ next.life[n] # "ready"

Unpromoted(g, next) ==
    /\ Governed(next) = Governed(g)
    /\ \A n \in Present(g) : next.group[n] = g.group[n]

Reach(g, env) ==
    {w \in WorkSet :
        /\ w.graph.id = g.id
        /\ w.graph.revision = g.revision
        /\ w.graph.history = g.history
        /\ Moved(g, w.graph)
        /\ ~NeedsApproval(env) => Unpromoted(g, w.graph)}

(* The operations of a valid envelope stay within that reach.              *)
LEMMA EnvelopeReach ==
    ASSUME NEW g \in Graph, NEW env \in Envelope, MutationValid(g, env)
    PROVE  ApplyOperations(g, env.ops) \in Reach(g, env)
<1> DEFINE ops == env.ops
<1>1. ops \in Seq(Operation) /\ Len(ops) \in Nat
  BY DEF Envelope
<1>2. Work(g) \in Reach(g, env)
  BY WorkTyped DEF Reach, Work, Moved, Unpromoted
<1>3. ASSUME NEW w \in Reach(g, env), NEW i \in 1..Len(ops)
      PROVE  Step(w, ops[i]) \in Reach(g, env)
  <2> DEFINE op == ops[i]
             u == ApplyOperation(w, op)
  <2>1. op \in Operation /\ op \in OpsOf(env)
    BY <1>1 DEF OpsOf
  <2>2. w \in WorkSet /\ u \in WorkSet
    BY <2>1, ApplyTyped DEF Reach
  <2>3. Effect(w.graph, u.graph, op)
    BY <2>1, <2>2, OperationEffect
  <2>4. op.type = "transition_node" => TransitionLegal(g, op)
    BY <2>1 DEF MutationValid
  <2>5. ~NeedsApproval(env) => op.type \notin ApprovalRequired
    BY <2>1 DEF NeedsApproval
  <2> HIDE DEF op, u
  <2>6. Moved(g, u.graph)
    <3> SUFFICES ASSUME NEW n \in Present(g)
                 PROVE  /\ n \in Present(u.graph)
                        /\ \/ u.graph.life[n] = g.life[n]
                           \/ /\ <<g.life[n], u.graph.life[n]>>
                                    \in LegalTransitions
                              /\ u.graph.life[n] # "ready"
      BY DEF Moved
    <3>1. n \in Present(w.graph)
      BY DEF Reach, Moved
    <3> QED BY <2>3, <2>4, <3>1 DEF Effect, Reach, Moved, TransitionLegal
  <2>7. ~NeedsApproval(env) => Unpromoted(g, u.graph)
    <3> SUFFICES ASSUME ~NeedsApproval(env) PROVE Unpromoted(g, u.graph)
      OBVIOUS
    <3>1. \A n \in Present(g) : n \in Present(w.graph)
      BY DEF Reach, Moved
    <3> QED BY <2>3, <2>5, <3>1 DEF Effect, Reach, Unpromoted
  <2>8. u \in Reach(g, env)
    BY <2>2, <2>3, <2>6, <2>7 DEF Reach, Effect
  <2> QED BY <2>8 DEF Step, u, op
<1> HIDE DEF ops
<1>4. ApplyOperations(g, ops) \in Reach(g, env)
  BY <1>1, <1>2, <1>3, FoldStaysIn
<1> QED BY <1>4 DEF ops
-----------------------------------------------------------------------------
(* The readiness pass and the commit.                                      *)

(* After the pass nothing is left to derive: an admitted node waits for a  *)
(* predecessor and a ready node for none.                                  *)
Settled(g) ==
    \A n \in Nodes : /\ g.life[n] = "admitted" => ~Satisfied(g, n)
                     /\ g.life[n] = "ready" => Satisfied(g, n)

(* The moves of the pass itself.                                           *)
Derived == {<<"admitted", "ready">>, <<"ready", "admitted">>}

(* The pass settles the graph and changes lifecycle states only.           *)
LEMMA DeriveReadinessSettles ==
    ASSUME NEW g \in Graph
    PROVE  LET next == DeriveReadiness(g) IN
           /\ next \in Graph
           /\ \A n \in Nodes : \/ next.life[n] = g.life[n]
                               \/ <<g.life[n], next.life[n]>> \in Derived
           /\ next = [g EXCEPT !.life = next.life]
           /\ Settled(next)
<1> DEFINE next == DeriveReadiness(g)
<1>1. next \in Graph /\ next = [g EXCEPT !.life = next.life]
  BY DEF DeriveReadiness, Graph, Lifecycle
<1>2. \A n \in Nodes :
         next.life[n] = IF g.life[n] = "admitted" /\ Satisfied(g, n) THEN "ready"
                        ELSE IF g.life[n] = "ready" /\ ~Satisfied(g, n)
                             THEN "admitted" ELSE g.life[n]
  BY DEF DeriveReadiness, Graph
<1>3. next.edges = g.edges
  BY DEF DeriveReadiness, Graph
<1> HIDE DEF next
<1>4. \A n \in Nodes : next.life[n] = "succeeded" <=> g.life[n] = "succeeded"
  BY <1>2
<1>5. \A n \in Nodes : Satisfied(next, n) <=> Satisfied(g, n)
  BY <1>3, <1>4 DEF Satisfied, Graph, Edge
<1>6. Settled(next)
  BY <1>2, <1>5 DEF Settled
<1> QED BY <1>1, <1>2, <1>6 DEF Derived, next

(* Any envelope leaves a graph, admissible or not.                         *)
LEMMA ResultTyped ==
    ASSUME NEW g \in Graph, NEW env \in Envelope
    PROVE  Result(g, env) \in Graph
<1> DEFINE ops == env.ops
           w == ApplyOperations(g, ops)
           d == DeriveReadiness(w.graph)
<1>1. ops \in Seq(Operation) /\ Len(ops) \in Nat
  BY DEF Envelope
<1>2. Work(g) \in WorkSet
  BY WorkTyped
<1>3. ASSUME NEW u \in WorkSet, NEW i \in 1..Len(ops)
      PROVE  Step(u, ops[i]) \in WorkSet
  <2>1. ops[i] \in Operation
    BY <1>1
  <2> QED BY <2>1, ApplyTyped DEF Step
<1> HIDE DEF ops
<1>4. w.graph \in Graph
  <2>1. w \in WorkSet
    BY <1>1, <1>2, <1>3, FoldStaysIn
  <2> QED BY <2>1 DEF WorkSet
<1> HIDE DEF w
<1>5. d \in Graph
  BY <1>4, DeriveReadinessSettles
<1>6. Append(d.history, env) \in Seq(Envelope) /\ d.revision + 1 \in Nat
  BY <1>5 DEF Graph
<1>7. Result(g, env) = [d EXCEPT !.revision = @ + 1, !.history = Append(@, env)]
  BY DEF Result, Commit, w, ops
<1> HIDE DEF d
<1> QED BY <1>5, <1>6, <1>7 DEF Graph

(* The graph an admissible envelope leaves.                                *)
LEMMA ResultOfEnvelope ==
    ASSUME NEW g \in Graph, NEW env \in Envelope, MutationValid(g, env)
    PROVE  LET next == Result(g, env) IN
           /\ next \in Graph
           /\ next.id = g.id
           /\ next.revision = g.revision + 1
           /\ next.history = Append(g.history, env)
           /\ Settled(next)
           /\ \A n \in Present(g) :
                 \/ next.life[n] = g.life[n]
                 \/ <<g.life[n], next.life[n]>> \in NetMove
           /\ ~NeedsApproval(env) => Unpromoted(g, next)
<1> DEFINE w == ApplyOperations(g, env.ops)
           d == DeriveReadiness(w.graph)
           next == [d EXCEPT !.revision = @ + 1, !.history = Append(@, env)]
<1>1. Result(g, env) = next
  BY DEF Result, Commit
<1>2. w \in Reach(g, env)
  BY EnvelopeReach
<1>3. w.graph \in Graph
  BY <1>2 DEF Reach, WorkSet
<1> HIDE DEF w
<1>4. /\ d \in Graph
      /\ \A n \in Nodes : \/ d.life[n] = w.graph.life[n]
                          \/ <<w.graph.life[n], d.life[n]>> \in Derived
      /\ d = [w.graph EXCEPT !.life = d.life]
      /\ Settled(d)
  BY <1>3, DeriveReadinessSettles
<1> HIDE DEF d
<1>5. /\ d.id = g.id
      /\ d.revision = g.revision
      /\ d.history = g.history
  BY <1>2, <1>3, <1>4 DEF Reach, Graph
<1>6. next \in Graph
  <2>1. d.history \in Seq(Envelope) /\ d.revision \in Nat
    BY <1>4 DEF Graph
  <2>2. Append(d.history, env) \in Seq(Envelope) /\ d.revision + 1 \in Nat
    BY <2>1
  <2> QED BY <1>4, <2>2 DEF Graph
<1>7. /\ next.id = g.id
      /\ next.revision = g.revision + 1
      /\ next.history = Append(g.history, env)
  BY <1>4, <1>5 DEF Graph
<1>8. Settled(next)
  BY <1>4 DEF Settled, Satisfied, Graph
<1>9. ASSUME NEW n \in Present(g)
      PROVE  \/ next.life[n] = g.life[n]
             \/ <<g.life[n], next.life[n]>> \in NetMove
  <2>1. next.life[n] = d.life[n]
    BY <1>4 DEF Graph
  <2>2. \/ w.graph.life[n] = g.life[n]
        \/ /\ <<g.life[n], w.graph.life[n]>> \in LegalTransitions
           /\ w.graph.life[n] # "ready"
    BY <1>2 DEF Reach, Moved
  <2>3. \/ d.life[n] = w.graph.life[n]
        \/ <<w.graph.life[n], d.life[n]>> \in Derived
    BY <1>4 DEF Present
  <2> QED BY <2>1, <2>2, <2>3 DEF NetMove, LegalTransitions, Derived
<1>10. ~NeedsApproval(env) => Unpromoted(g, next)
  <2>1. Governed(next) = Governed(w.graph) /\ next.group = w.graph.group
    BY <1>3, <1>4 DEF Governed, Graph
  <2> QED BY <1>2, <2>1 DEF Reach, Unpromoted
<1> HIDE DEF next
<1> QED BY <1>1, <1>6, <1>7, <1>8, <1>9, <1>10

-----------------------------------------------------------------------------
(* The invariant: a typed graph whose history is its serial record, whose  *)
(* readiness is settled and which validate_snapshot has passed.            *)
LedgerInv ==
    /\ TypeOK
    /\ HistoryIsSerial
    /\ AppliedAtMostOnce
    /\ Settled(graph)
    /\ SnapshotValid(graph)
    /\ graph.id = Nil => Present(graph) = {}

(* A new graph has everything that is asked of a graph.                    *)
LEMMA EmptyGraphInv ==
    ASSUME NEW id \in GraphIds \cup {Nil}
    PROVE  LET g == EmptyGraph(id) IN
           /\ g \in Graph
           /\ g.history = <<>>
           /\ g.revision = 0
           /\ Present(g) = {}
           /\ Settled(g)
           /\ SnapshotValid(g)
<1> DEFINE g == EmptyGraph(id)
<1>1. g \in Graph
  BY DEF EmptyGraph, Graph, ControlState, Lifecycle
<1>2. /\ g.history = <<>>
      /\ g.revision = 0
      /\ Present(g) = {}
      /\ Settled(g)
  BY DEF EmptyGraph, Present, Settled
<1>3. ReferencesResolve(g)
  <2>1. /\ g.links = {}
        /\ g.edges = {}
        /\ g.relations = {}
        /\ g.approvals = {}
        /\ \A c \in Controls : g.controls[c] = Nil
        /\ \A l \in Leases : g.leases[l] = Nil
    BY DEF EmptyGraph
  <2>2. DOMAIN g.history = {}
    BY <1>2
  <2> HIDE DEF g
  <2> QED BY <1>2, <2>1, <2>2 DEF ReferencesResolve
<1>4. DistinctMutations(g) /\ OnePromotionPerGroup(g)
  BY <1>2 DEF DistinctMutations, OnePromotionPerGroup
<1>5. Acyclic(g.edges)
  BY DEF EmptyGraph, Acyclic
<1> QED BY <1>1, <1>2, <1>3, <1>4, <1>5 DEF SnapshotValid

(* The graph is typed, serial, applied at most once, settled and valid     *)
(* whatever the journal commits.                                           *)
THEOREM LedgerInvariant == Spec => []LedgerInv
<1>1. Init => LedgerInv
  <2> SUFFICES ASSUME graph = EmptyGraph(Nil) PROVE LedgerInv
    BY DEF Init
  <2> QED
    BY EmptyGraphInv DEF LedgerInv, TypeOK, HistoryIsSerial, AppliedAtMostOnce
<1>2. LedgerInv /\ [Next]_graph => LedgerInv'
  <2> SUFFICES ASSUME LedgerInv, [Next]_graph PROVE LedgerInv'
    OBVIOUS
  <2>1. ASSUME NEW id \in GraphIds, InitGraph(id)
        PROVE  LedgerInv'
    <3>1. graph' = EmptyGraph(id)
      BY <2>1 DEF InitGraph
    <3> QED
      BY <3>1, EmptyGraphInv
      DEF LedgerInv, TypeOK, HistoryIsSerial, AppliedAtMostOnce
  <2>2. ASSUME NEW env \in Envelopes, Accept(env)
        PROVE  LedgerInv'
    <3> DEFINE next == Result(graph, env)
               h == graph.history
    <3>1. /\ graph \in Graph
          /\ h \in Seq(Envelope)
          /\ graph.revision = Len(h)
          /\ \A i \in 1..Len(h) : h[i].base = i - 1
          /\ \A i, j \in 1..Len(h) : h[i].key = h[j].key => i = j
      BY DEF LedgerInv, TypeOK, Graph, HistoryIsSerial, AppliedAtMostOnce
    <3>2. /\ env \in Envelope
          /\ graph' = next
          /\ MutationValid(graph, env)
          /\ env.base = graph.revision
          /\ \A i \in 1..Len(h) : h[i].key # env.key
          /\ SnapshotValid(next)
      BY <2>2, <3>1, LedgerAssumption
      DEF Accept, Admissible, KeysUsed, MutationValid, Result
    <3>3. /\ next \in Graph
          /\ next.id = graph.id
          /\ next.revision = graph.revision + 1
          /\ next.history = Append(h, env)
          /\ Settled(next)
      BY <3>1, <3>2, ResultOfEnvelope
    <3> HIDE DEF next, h
    <3>4. /\ Len(Append(h, env)) = Len(h) + 1
          /\ Len(h) \in Nat
          /\ \A i \in 1..(Len(h) + 1) :
                Append(h, env)[i] = IF i = Len(h) + 1 THEN env ELSE h[i]
      BY <3>1
    <3>5. HistoryIsSerial'
      BY <3>1, <3>2, <3>3, <3>4 DEF HistoryIsSerial
    <3>6. \A i, j \in 1..(Len(h) + 1) :
             Append(h, env)[i].key = Append(h, env)[j].key => i = j
      <4> TAKE i, j \in 1..(Len(h) + 1)
      <4>1. CASE i \in 1..Len(h) /\ j \in 1..Len(h)
        BY <3>1, <3>4, <4>1
      <4>2. CASE i \in 1..Len(h) /\ j = Len(h) + 1
        BY <3>2, <3>4, <4>2
      <4>3. CASE i = Len(h) + 1 /\ j \in 1..Len(h)
        BY <3>2, <3>4, <4>3
      <4> QED BY <3>4, <4>1, <4>2, <4>3
    <3>7. AppliedAtMostOnce'
      <4>1. DistinctMutations(next)
        BY <3>2 DEF SnapshotValid
      <4>2. DOMAIN next.history = 1..(Len(h) + 1)
        BY <3>1, <3>3, <3>4
      <4> QED
        BY <3>2, <3>3, <3>6, <4>1, <4>2
        DEF AppliedAtMostOnce, DistinctMutations
    <3>8. graph'.id # Nil
      BY <2>2, <3>2, <3>3 DEF Accept
    <3> QED BY <3>2, <3>3, <3>5, <3>7, <3>8 DEF LedgerInv, TypeOK
  <2>3. CASE UNCHANGED graph
    BY <2>3 DEF LedgerInv, TypeOK, HistoryIsSerial, AppliedAtMostOnce
  <2> QED BY <2>1, <2>2, <2>3 DEF Next
<1> QED BY <1>1, <1>2, PTL DEF Spec

(* The fold leaves a typed graph behind every commit.                      *)
THEOREM TypeCorrect == Spec => []TypeOK
<1>1. LedgerInv => TypeOK
  BY DEF LedgerInv
<1> QED BY <1>1, LedgerInvariant, PTL

(* Compare-and-swap on the base revision makes the history serial.         *)
THEOREM SerialHistory == Spec => []HistoryIsSerial
<1>1. LedgerInv => HistoryIsSerial
  BY DEF LedgerInv
<1> QED BY <1>1, LedgerInvariant, PTL

(* No envelope and no key is ever applied twice.                           *)
THEOREM AtMostOnce == Spec => []AppliedAtMostOnce
<1>1. LedgerInv => AppliedAtMostOnce
  BY DEF LedgerInv
<1> QED BY <1>1, LedgerInvariant, PTL

(* The scheduler's readiness and the journal's are the same, on any graph: *)
(* a settled graph has no admitted node the scheduler would take, and no   *)
(* ready one it would not.                                                 *)
THEOREM ReadinessAgreement == Spec => []ReadinessAgrees
<1>1. LedgerInv => ReadinessAgrees
  BY DEF LedgerInv, Settled, ReadinessAgrees, FullReady, JournalReady, NodeIsReady
<1> QED BY <1>1, LedgerInvariant, PTL

(* An acyclic, settled graph never stalls: among its unfinished nodes one  *)
(* waits for none of the others.                                           *)
THEOREM NoStall == Spec => []NoStructuralStall
<1>1. LedgerInv => NoStructuralStall
  <2> DEFINE unfinished == {n \in Present(graph) : graph.life[n] # "succeeded"}
  <2> SUFFICES ASSUME LedgerInv,
                      unfinished # {},
                      \A n \in Present(graph) : graph.life[n] \in OnItsWay
               PROVE  \E n \in unfinished : graph.life[n] \in {"ready", "running"}
    BY DEF NoStructuralStall
  <2>1. /\ Settled(graph)
        /\ ReferencesResolve(graph)
        /\ Acyclic(graph.edges)
    BY DEF LedgerInv, SnapshotValid
  <2>2. unfinished \in SUBSET Nodes
    BY DEF Present
  <2>3. PICK n \in unfinished :
           \A e \in graph.edges : ~(e.source = n /\ e.target \in unfinished)
    <3> HIDE DEF unfinished
    <3> QED BY <2>1, <2>2 DEF Acyclic
  <2>4. Satisfied(graph, n)
    <3> SUFFICES ASSUME NEW e \in graph.edges, e.source = n
                 PROVE  graph.life[e.target] = "succeeded"
      BY DEF Satisfied
    <3>1. e.target \in Present(graph)
      BY <2>1 DEF ReferencesResolve
    <3> QED BY <2>3, <3>1
  <2>5. graph.life[n] # "admitted"
    BY <2>1, <2>2, <2>4 DEF Settled
  <2> QED BY <2>5 DEF OnItsWay
<1> QED BY <1>1, LedgerInvariant, PTL

(* What every step does to the nodes and to what is governed.              *)
LEMMA StepEffect ==
    ASSUME LedgerInv, [Next]_graph
    PROVE  /\ \A n \in Present(graph) :
                 \/ graph'.life[n] = graph.life[n]
                 \/ <<graph.life[n], graph'.life[n]>> \in NetMove
           /\ graph.id # Nil =>
                 ByHuman(graph') \/ Unpromoted(graph, graph')
<1>1. ASSUME NEW id \in GraphIds, InitGraph(id)
      PROVE  Present(graph) = {} /\ graph.id = Nil
  BY <1>1 DEF InitGraph, LedgerInv
<1>2. ASSUME NEW env \in Envelopes, Accept(env)
      PROVE  /\ \A n \in Present(graph) :
                   \/ graph'.life[n] = graph.life[n]
                   \/ <<graph.life[n], graph'.life[n]>> \in NetMove
             /\ ByHuman(graph') \/ Unpromoted(graph, graph')
  <2>1. /\ graph \in Graph
        /\ graph.history \in Seq(Envelope)
        /\ env \in Envelope
        /\ MutationValid(graph, env)
        /\ graph' = Result(graph, env)
    BY <1>2, LedgerAssumption
    DEF Accept, Admissible, LedgerInv, TypeOK, Graph
  <2>2. /\ graph'.history = Append(graph.history, env)
        /\ \A n \in Present(graph) :
              \/ graph'.life[n] = graph.life[n]
              \/ <<graph.life[n], graph'.life[n]>> \in NetMove
        /\ ~NeedsApproval(env) => Unpromoted(graph, graph')
    BY <2>1, ResultOfEnvelope
  <2>3. NeedsApproval(env) => env.human
    BY <2>1 DEF MutationValid, Authorised
  <2>4. env.human => ByHuman(graph')
    BY <2>1, <2>2 DEF ByHuman
  <2> QED BY <2>2, <2>3, <2>4
<1>3. CASE UNCHANGED graph
  BY <1>3 DEF Unpromoted
<1> QED BY <1>1, <1>2, <1>3 DEF Next

(* A node moves along the lifecycle and nowhere else.                      *)
THEOREM LifecycleTheorem == Spec => LifecycleRespected
<1>1. LedgerInv /\ [Next]_graph =>
         [\A n \in Present(graph) :
             \/ graph'.life[n] = graph.life[n]
             \/ <<graph.life[n], graph'.life[n]>> \in NetMove]_graph
  BY StepEffect
<1> QED BY <1>1, LedgerInvariant, PTL DEF Spec, LifecycleRespected

(* A terminal node keeps its state, since no lifecycle edge leaves one.    *)
THEOREM TerminalTheorem == Spec => TerminalImmutable
<1>1. LedgerInv /\ [Next]_graph =>
         [\A n \in Nodes :
             graph.life[n] \in Terminal => graph'.life[n] = graph.life[n]]_graph
  <2> SUFFICES ASSUME LedgerInv, [Next]_graph,
                      NEW n \in Nodes, graph.life[n] \in Terminal
               PROVE  graph'.life[n] = graph.life[n]
    OBVIOUS
  <2>1. n \in Present(graph)
    BY DEF Present, Terminal
  <2>2. \/ graph'.life[n] = graph.life[n]
        \/ <<graph.life[n], graph'.life[n]>> \in NetMove
    BY <2>1, StepEffect
  <2> QED BY <2>2 DEF NetMove, LegalTransitions, Terminal
<1> QED BY <1>1, LedgerInvariant, PTL DEF Spec, TerminalImmutable

(* What the authority matrix reserves to humans changes by a human only.   *)
THEOREM AuthorityTheorem == Spec => AuthorityRespected
<1>1. LedgerInv /\ [Next]_graph =>
         [graph.id # Nil =>
             \/ ByHuman(graph')
             \/ /\ Governed(graph') = Governed(graph)
                /\ \A n \in Present(graph) :
                      graph'.group[n] = graph.group[n]]_graph
  BY StepEffect DEF Unpromoted
<1> QED BY <1>1, LedgerInvariant, PTL DEF Spec, AuthorityRespected
=============================================================================
