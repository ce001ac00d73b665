------------------------- MODULE GraphJournalProofs -------------------------
(***************************************************************************)
(* Proofs about the journal, for every set of envelopes and connections    *)
(* and every bound on the records.                                         *)
(***************************************************************************)
EXTENDS GraphJournal, Integers, SequenceTheorems, TLAPS

-----------------------------------------------------------------------------
(* What the ledger's proofs say of the operators the two have in common.   *)

Laws == INSTANCE GraphLedgerProofs WITH graph <- Graph0, MaxRevision <- MaxRows

LEMMA SameTypes == Laws!Graph = Graph /\ Laws!Envelope = Envelope
<1>1. Laws!Graph = Graph
  BY Zenon DEF Laws!Graph, Graph, Laws!Lifecycle, Lifecycle, Laws!ControlState, ControlState,
     Laws!IntentEdge, IntentEdge, Laws!Edge, Edge, Laws!Relation, Relation,
     Laws!LeaseRecord, LeaseRecord, Laws!LeaseState, LeaseState,
     Laws!ControlRecord, ControlRecord, Laws!Envelope, Envelope, Laws!Operation, Operation
<1>2. Laws!Envelope = Envelope
  BY Zenon DEF Laws!Envelope, Envelope, Laws!Operation, Operation, Laws!IntentEdge, IntentEdge,
     Laws!Edge, Edge, Laws!Relation, Relation, Laws!LeaseRecord, LeaseRecord,
     Laws!LeaseState, LeaseState, Laws!ControlRecord, ControlRecord,
     Laws!Lifecycle, Lifecycle, Laws!ControlState, ControlState
<1> QED BY <1>1, <1>2

LEMMA SameFold == \A g, ops : Laws!ApplyOperations(g, ops) = ApplyOperations(g, ops)
  BY Zenon DEF Laws!ApplyOperations, ApplyOperations, Laws!Work, Work, Laws!Step, Step,
     Laws!ApplyOperation, ApplyOperation, Laws!Insert, Insert, Laws!Remove, Remove,
     Laws!AddNode, AddNode, Laws!AcquireLease, AcquireLease,
     Laws!ReleaseLease, ReleaseLease, Laws!TransitionNode, TransitionNode,
     Laws!PromoteCandidate, PromoteCandidate, Laws!Compensate, Compensate,
     Laws!Fail, Fail, Laws!Present, Present

LEMMA SameResult == \A g, env : Laws!Result(g, env) = Result(g, env)
<1>1. \A g : Laws!DeriveReadiness(g) = DeriveReadiness(g)
  BY Zenon DEF Laws!DeriveReadiness, DeriveReadiness, Laws!Satisfied, Satisfied
<1> QED BY <1>1, SameFold, Zenon DEF Laws!Result, Result, Laws!Commit, Commit

LEMMA SameValid == \A g, env : Laws!MutationValid(g, env) <=> MutationValid(g, env)
  BY Zenon DEF Laws!MutationValid, MutationValid, Laws!Authorised, Authorised,
     Laws!NeedsApproval, NeedsApproval, Laws!OpsOf, OpsOf,
     Laws!ApprovalRequired, ApprovalRequired, Laws!TransitionLegal, TransitionLegal,
     Laws!CompensationLegal, CompensationLegal, Laws!Present, Present,
     Laws!LegalTransitions, LegalTransitions, Laws!Terminal, Terminal,
     Laws!HistoryIds, HistoryIds

LEMMA EmptyGraphTyped ==
    ASSUME NEW id \in GraphIds \cup {Nil}
    PROVE  EmptyGraph(id) \in Graph
<1>1. Laws!EmptyGraph(id) = EmptyGraph(id)
  BY Zenon DEF Laws!EmptyGraph, EmptyGraph
<1>2. Laws!EmptyGraph(id) \in Laws!Graph
  BY Laws!EmptyGraphInv, GroupsAssumption, JournalAssumption, SameTypes
<1> QED BY <1>1, <1>2, SameTypes

LEMMA ResultTyped ==
    ASSUME NEW g \in Graph, NEW env \in Envelope
    PROVE  Result(g, env) \in Graph
<1>1. Laws!Result(g, env) \in Laws!Graph
  BY Laws!ResultTyped, GroupsAssumption, JournalAssumption, SameTypes
<1> QED BY <1>1, SameTypes, SameResult

(* An admissible envelope adds itself to the history of its graph.         *)
LEMMA ResultOfEnvelope ==
    ASSUME NEW g \in Graph, NEW env \in Envelope, MutationValid(g, env)
    PROVE  /\ Result(g, env).id = g.id
           /\ Result(g, env).revision = g.revision + 1
           /\ Result(g, env).history = Append(g.history, env)
<1>1. Laws!MutationValid(g, env) /\ g \in Laws!Graph /\ env \in Laws!Envelope
  BY SameValid, SameTypes
<1>2. /\ Laws!Result(g, env).id = g.id
      /\ Laws!Result(g, env).revision = g.revision + 1
      /\ Laws!Result(g, env).history = Append(g.history, env)
  BY <1>1, Laws!ResultOfEnvelope, GroupsAssumption, JournalAssumption, SameTypes
<1> QED BY <1>2, SameResult

-----------------------------------------------------------------------------
(* The fold of the rows, one row at a time.                                *)

(* The recursive definition of the fold has a solution.                    *)
LEMMA FoldExists ==
    ASSUME NEW rows, Len(rows) \in Nat
    PROVE  \E f : f = [i \in 0..Len(rows) |->
                         IF i = 0 THEN NoFold ELSE FoldStep(f[i-1], rows[i])]
<1> DEFINE Solves(f, n) ==
        f = [i \in 0..n |-> IF i = 0 THEN NoFold ELSE FoldStep(f[i-1], rows[i])]
    S == {n \in 0..Len(rows) : \E f : Solves(f, n)}
<1>1. 0 \in S
  <2>1. Solves([i \in 0..0 |-> NoFold], 0)
    OBVIOUS
  <2>2. \E f : Solves(f, 0)
    <3> HIDE DEF Solves
    <3> QED BY <2>1
  <2> QED BY <2>2
<1>2. ASSUME NEW n \in 0..(Len(rows) - 1), n \in S
      PROVE  n + 1 \in S
  <2>1. PICK f : Solves(f, n)
    BY <1>2
  <2> DEFINE h == [i \in 0..(n+1) |->
                      IF i = n + 1 THEN FoldStep(f[n], rows[n+1]) ELSE f[i]]
  <2>2. \A i \in 0..n : h[i] = f[i]
    OBVIOUS
  <2>3. \A i \in 0..(n+1) :
           h[i] = IF i = 0 THEN NoFold ELSE FoldStep(h[i-1], rows[i])
    <3> TAKE i \in 0..(n+1)
    <3>1. CASE i = n + 1
      <4>1. h[i] = FoldStep(f[n], rows[n+1]) /\ h[i-1] = f[n]
        BY <3>1
      <4> QED BY <3>1, <4>1
    <3>2. CASE i # n + 1
      <4>1. i \in 0..n
        BY <3>2
      <4>2. f[i] = IF i = 0 THEN NoFold ELSE FoldStep(f[i-1], rows[i])
        BY <2>1, <4>1
      <4>3. i # 0 => h[i-1] = f[i-1]
        BY <2>2, <4>1
      <4> QED BY <2>2, <4>1, <4>2, <4>3
    <3> QED BY <3>1, <3>2
  <2>4. Solves(h, n + 1)
    <3> HIDE DEF h
    <3>1. h = [i \in 0..(n+1) |-> h[i]]
      BY DEF h
    <3> QED BY <2>3, <3>1
  <2>5. \E f1 : Solves(f1, n + 1)
    <3> HIDE DEF Solves, h
    <3> QED BY <2>4
  <2>6. n + 1 \in 0..Len(rows)
    OBVIOUS
  <2> HIDE DEF Solves
  <2> QED BY <2>5, <2>6
<1> HIDE DEF S
<1>3. 0..Len(rows) \subseteq S
  BY <1>1, <1>2, Laws!InductionUpTo, GroupsAssumption, JournalAssumption, SameTypes
<1> QED BY <1>3 DEF S

(* The fold as the last value of a trace.                                  *)
Traces(f, rows) ==
    /\ DOMAIN f = 0..Len(rows)
    /\ f[0] = NoFold
    /\ \A i \in 0..(Len(rows) - 1) : f[i+1] = FoldStep(f[i], rows[i+1])

LEMMA FoldTraced ==
    ASSUME NEW rows, Len(rows) \in Nat
    PROVE  \E f : Traces(f, rows) /\ FoldOf(rows) = f[Len(rows)]
<1> DEFINE Solves(f) ==
        f = [i \in 0..Len(rows) |->
               IF i = 0 THEN NoFold ELSE FoldStep(f[i-1], rows[i])]
    f == CHOOSE f : Solves(f)
<1>1. Solves(f)
  BY FoldExists
<1>2. FoldOf(rows) = f[Len(rows)]
  BY DEF FoldOf
<1> HIDE DEF f
<1>3. ASSUME NEW i \in 0..(Len(rows) - 1)
      PROVE  f[i+1] = FoldStep(f[i], rows[i+1])
  <2>1. i + 1 \in 0..Len(rows) /\ i + 1 # 0 /\ (i + 1) - 1 = i
    OBVIOUS
  <2> QED BY <1>1, <2>1
<1>4. Traces(f, rows)
  BY <1>1, <1>3 DEF Traces
<1> QED BY <1>2, <1>4

(* No rows.                                                                *)
LEMMA FoldOfNothing == FoldOf(<<>>) = NoFold
<1>1. Len(<<>>) = 0
  OBVIOUS
<1>2. PICK f : Traces(f, <<>>) /\ FoldOf(<<>>) = f[Len(<<>>)]
  BY <1>1, FoldTraced
<1> QED BY <1>1, <1>2 DEF Traces

(* One more row.                                                           *)
LEMMA FoldOfAppend ==
    ASSUME NEW rows \in Seq(JournalRow), NEW row \in JournalRow
    PROVE  FoldOf(Append(rows, row)) = FoldStep(FoldOf(rows), row)
<1> DEFINE n == Len(rows)
           more == Append(rows, row)
<1>1. /\ n \in Nat /\ Len(more) = n + 1 /\ more[n+1] = row
      /\ \A i \in 1..n : more[i] = rows[i]
  OBVIOUS
<1> HIDE DEF more
<1>2. PICK f : Traces(f, rows) /\ FoldOf(rows) = f[n]
  BY <1>1, FoldTraced
<1>3. PICK h : Traces(h, more) /\ FoldOf(more) = h[n+1]
  BY <1>1, FoldTraced
<1> HIDE DEF n
<1> DEFINE S == {i \in 0..n : h[i] = f[i]}
<1>4. 0 \in S
  BY <1>1, <1>2, <1>3 DEF Traces
<1>5. ASSUME NEW i \in 0..(n-1), i \in S
      PROVE  i + 1 \in S
  <2>1. h[i+1] = FoldStep(h[i], more[i+1])
    BY <1>1, <1>3 DEF Traces
  <2>2. f[i+1] = FoldStep(f[i], rows[i+1])
    BY <1>1, <1>2 DEF Traces, n
  <2> QED BY <1>1, <1>5, <2>1, <2>2
<1> HIDE DEF S
<1>6. 0..n \subseteq S
  BY <1>1, <1>4, <1>5, Laws!InductionUpTo, GroupsAssumption, JournalAssumption, SameTypes
<1>7. h[n] = f[n]
  BY <1>1, <1>6 DEF S
<1>8. h[n+1] = FoldStep(h[n], more[n+1])
  BY <1>1, <1>3 DEF Traces
<1> QED BY <1>1, <1>2, <1>3, <1>7, <1>8 DEF more

FoldType == [ok : BOOLEAN, graph : Graph, index : SUBSET EntryType]

(* What a record holds, by its type.                                       *)
LEMMA PayloadKinds ==
    ASSUME NEW p \in Payload
    PROVE  /\ p.type \in {"init", "accepted", "rejected", "snapshot"}
           /\ p.type = "init" => p.graph \in GraphIds
           /\ p.type = "accepted" => p.env \in Envelope /\ p.after \in Graph
           /\ p.type = "snapshot" => p.graph \in Graph
  BY DEF Payload

LEMMA FoldAcceptedTyped ==
    ASSUME NEW f \in FoldType, NEW row \in JournalRow, row.payload.type = "accepted"
    PROVE  /\ FoldAccepted(f, row) \in FoldType
           /\ FoldAccepted(f, row).ok = f.ok
           /\ FoldAccepted(f, row).graph = Result(f.graph, row.payload.env)
           /\ FoldAccepted(f, row).index =
                 Reindex(f.index, Entry(row.payload.env, row.seq,
                                        Result(f.graph, row.payload.env).revision))
<1> DEFINE next == Result(f.graph, row.payload.env)
           entry == Entry(row.payload.env, row.seq, next.revision)
<1>1. row.payload.env \in Envelope /\ row.seq \in Nat
  BY PayloadKinds DEF JournalRow
<1>2. next \in Graph
  BY <1>1, ResultTyped DEF FoldType
<1>3. next.revision \in Nat
  BY <1>2 DEF Graph
<1>4. FoldAccepted(f, row) = [f EXCEPT !.graph = next, !.index = Reindex(@, entry)]
  BY DEF FoldAccepted
<1> HIDE DEF next
<1>5. entry \in EntryType
  BY <1>1, <1>3 DEF Entry, EntryType
<1> HIDE DEF entry
<1>6. Reindex(f.index, entry) \in SUBSET EntryType
  BY <1>5 DEF Reindex, FoldType
<1>7. /\ FoldAccepted(f, row) \in FoldType
      /\ FoldAccepted(f, row).ok = f.ok
      /\ FoldAccepted(f, row).graph = next
      /\ FoldAccepted(f, row).index = Reindex(f.index, entry)
  BY <1>2, <1>4, <1>6 DEF FoldType
<1> QED BY <1>7 DEF next, entry

LEMMA FoldStepTyped ==
    ASSUME NEW f \in FoldType, NEW row \in JournalRow
    PROVE  FoldStep(f, row) \in FoldType
<1> DEFINE p == row.payload
<1>1. p \in Payload /\ row.sound \in BOOLEAN
  BY DEF JournalRow
<1>2. [f EXCEPT !.ok = FALSE] \in FoldType
  BY DEF FoldType
<1>3. CASE p.type = "rejected"
  BY <1>3 DEF FoldStep, FoldRow
<1>4. CASE p.type # "rejected" /\ ~row.sound
  BY <1>2, <1>4 DEF FoldStep, FoldRow
<1>5. CASE p.type = "init" /\ row.sound
  <2>1. EmptyGraph(p.graph) \in Graph
    BY <1>1, <1>5, PayloadKinds, EmptyGraphTyped
  <2>2. [f EXCEPT !.graph = EmptyGraph(p.graph)] \in FoldType
    BY <2>1 DEF FoldType
  <2> QED BY <1>5, <2>2 DEF FoldStep, FoldRow
<1>6. CASE p.type = "accepted" /\ row.sound
  BY <1>2, <1>6, FoldAcceptedTyped DEF FoldStep, FoldRow
<1>7. CASE p.type = "snapshot" /\ row.sound
  <2>1. [f EXCEPT !.graph = p.graph] \in FoldType
    BY <1>1, <1>7, PayloadKinds DEF FoldType
  <2> QED BY <1>2, <1>7, <2>1 DEF FoldStep, FoldRow
<1> QED BY <1>1, <1>3, <1>4, <1>5, <1>6, <1>7, PayloadKinds

LEMMA FoldTyped ==
    ASSUME NEW rows \in Seq(JournalRow)
    PROVE  FoldOf(rows) \in FoldType
<1> DEFINE n == Len(rows)
<1>1. n \in Nat /\ \A i \in 1..n : rows[i] \in JournalRow
  OBVIOUS
<1>2. PICK f : Traces(f, rows) /\ FoldOf(rows) = f[n]
  BY <1>1, FoldTraced
<1> DEFINE S == {i \in 0..n : f[i] \in FoldType}
<1>3. 0 \in S
  <2>1. NoFold \in FoldType
    BY EmptyGraphTyped DEF NoFold, FoldType
  <2> QED BY <1>1, <1>2, <2>1 DEF Traces
<1>4. ASSUME NEW i \in 0..(n-1), i \in S
      PROVE  i + 1 \in S
  <2>1. f[i+1] = FoldStep(f[i], rows[i+1])
    BY <1>2 DEF Traces
  <2>2. rows[i+1] \in JournalRow /\ i + 1 \in 0..n
    BY <1>1
  <2> QED BY <1>4, <2>1, <2>2, FoldStepTyped
<1> HIDE DEF n, S
<1>5. 0..n \subseteq S
  BY <1>1, <1>3, <1>4, Laws!InductionUpTo, GroupsAssumption, JournalAssumption, SameTypes
<1> QED BY <1>1, <1>2, <1>5 DEF S

-----------------------------------------------------------------------------
(* The rows in front of the first torn one.                                *)

Clean(rows) == \A i \in DOMAIN rows : rows[i].sound

(* Where the torn rows begin.                                              *)
TornAfter(rows, n) ==
    /\ \A i \in 1..n : rows[i].sound
    /\ n < Len(rows) => ~rows[n+1].sound

LEMMA IntactIs ==
    ASSUME NEW rows \in Seq(JournalRow)
    PROVE  \E n \in 0..Len(rows) :
              /\ TornAfter(rows, n)
              /\ Intact(rows) = SubSeq(rows, 1, n)
<1> DEFINE torn == {i \in DOMAIN rows : ~rows[i].sound}
           first == CHOOSE i \in torn : \A j \in torn : i <= j
<1>1. DOMAIN rows = 1..Len(rows) /\ Len(rows) \in Nat
  OBVIOUS
<1>2. CASE torn = {}
  <2>1. Intact(rows) = SubSeq(rows, 1, Len(rows))
    BY <1>2 DEF Intact
  <2>2. TornAfter(rows, Len(rows))
    BY <1>1, <1>2 DEF TornAfter
  <2>3. Len(rows) \in 0..Len(rows)
    BY <1>1
  <2> QED BY <2>1, <2>2, <2>3
<1>3. CASE torn # {}
  <2>1. torn \in SUBSET Nat
    BY <1>1
  <2>2. Intact(rows) = SubSeq(rows, 1, first - 1)
    BY <1>3 DEF Intact
  <2>3. \E i \in torn : \A j \in torn : i <= j
    <3> HIDE DEF torn
    <3> QED BY <1>3, <2>1, Laws!LeastNatural, GroupsAssumption, JournalAssumption, SameTypes
  <2>4. first \in torn /\ \A j \in torn : first <= j
    <3> HIDE DEF torn
    <3> QED BY <2>3
  <2> HIDE DEF first
  <2>5. first - 1 \in 0..Len(rows) /\ (first - 1) + 1 = first
    BY <1>1, <2>4
  <2>6. TornAfter(rows, first - 1)
    BY <1>1, <2>4, <2>5 DEF TornAfter
  <2> QED BY <2>2, <2>5, <2>6
<1> QED BY <1>2, <1>3

(* There is one such place.                                                *)
LEMMA IntactAt ==
    ASSUME NEW rows \in Seq(JournalRow), NEW n \in 0..Len(rows), TornAfter(rows, n)
    PROVE  Intact(rows) = SubSeq(rows, 1, n)
<1>1. PICK m \in 0..Len(rows) : TornAfter(rows, m) /\ Intact(rows) = SubSeq(rows, 1, m)
  BY IntactIs
<1>2. ~(m < n) /\ ~(n < m)
  BY <1>1 DEF TornAfter
<1> QED BY <1>1, <1>2

LEMMA IntactRows ==
    ASSUME NEW rows \in Seq(JournalRow)
    PROVE  /\ Intact(rows) \in Seq(JournalRow)
           /\ Len(Intact(rows)) <= Len(rows)
           /\ \A i \in 1..Len(Intact(rows)) : Intact(rows)[i] = rows[i] /\ rows[i].sound
           /\ \A i \in 1..Len(rows) :
                 (\A j \in 1..i : rows[j].sound) => i <= Len(Intact(rows))
           /\ Clean(rows) <=> Intact(rows) = rows
           /\ Len(Intact(rows)) < Len(rows) => ~rows[Len(Intact(rows)) + 1].sound
<1>1. PICK n \in 0..Len(rows) : TornAfter(rows, n) /\ Intact(rows) = SubSeq(rows, 1, n)
  BY IntactIs
<1>2. /\ SubSeq(rows, 1, n) \in Seq(JournalRow) /\ Len(SubSeq(rows, 1, n)) = n
      /\ \A i \in 1..n : SubSeq(rows, 1, n)[i] = rows[i]
  OBVIOUS
<1>3. \A i \in 1..Len(rows) : (\A j \in 1..i : rows[j].sound) => i <= n
  BY <1>1 DEF TornAfter
<1>4. Clean(rows) <=> n = Len(rows)
  BY <1>1 DEF Clean, TornAfter
<1>5. n = Len(rows) <=> SubSeq(rows, 1, n) = rows
  BY <1>2
<1> QED BY <1>1, <1>2, <1>3, <1>4, <1>5 DEF TornAfter

LEMMA IntactAppend ==
    ASSUME NEW rows \in Seq(JournalRow), NEW row \in JournalRow
    PROVE  Intact(Append(rows, row)) =
              IF Clean(rows) /\ row.sound THEN Append(rows, row) ELSE Intact(rows)
<1> DEFINE more == Append(rows, row)
<1>1. /\ more \in Seq(JournalRow) /\ Len(rows) \in Nat /\ Len(more) = Len(rows) + 1
      /\ more[Len(rows) + 1] = row
      /\ \A i \in 1..Len(rows) : more[i] = rows[i]
  OBVIOUS
<1>2. PICK n \in 0..Len(rows) : TornAfter(rows, n) /\ Intact(rows) = SubSeq(rows, 1, n)
  BY IntactIs
<1>s. \A i \in 0..Len(rows) : SubSeq(more, 1, i) = SubSeq(rows, 1, i)
  OBVIOUS
<1>e. SubSeq(more, 1, Len(more)) = more /\ SubSeq(rows, 1, Len(rows)) = rows
  OBVIOUS
<1> HIDE DEF more
<1>3. CASE Clean(rows) /\ row.sound
  <2>1. TornAfter(more, Len(more)) /\ Len(more) \in 0..Len(more)
    BY <1>1, <1>3 DEF TornAfter, Clean
  <2>2. Intact(more) = more
    BY <1>1, <1>e, <2>1, IntactAt
  <2> QED BY <1>3, <2>2 DEF more
<1>4. CASE ~(Clean(rows) /\ row.sound)
  <2>1. TornAfter(more, n) /\ n \in 0..Len(more)
    BY <1>1, <1>2, <1>4 DEF TornAfter, Clean
  <2>2. Intact(more) = Intact(rows)
    BY <1>1, <1>2, <1>s, <2>1, IntactAt
  <2> QED BY <1>4, <2>2 DEF more
<1> QED BY <1>3, <1>4

LEMMA IntactOfIntact ==
    ASSUME NEW rows \in Seq(JournalRow)
    PROVE  Intact(Intact(rows)) = Intact(rows) /\ Clean(Intact(rows))
<1>1. Intact(rows) \in Seq(JournalRow) /\ Clean(Intact(rows))
  BY IntactRows DEF Clean
<1> QED BY <1>1, IntactRows

-----------------------------------------------------------------------------
(* The invariant.                                                          *)

LastSeq(rows) == IF rows = <<>> THEN 0 ELSE rows[Len(rows)].seq

Initialised(rows) == \E i \in DOMAIN rows : rows[i].payload.type = "init"

(* A torn row with a sound one after it: recover() refuses for good.       *)
Overrun == \E i, j \in DOMAIN log : i < j /\ ~log[i].sound /\ log[j].sound

(* No recovery is at work, and no other connection remembers a row under   *)
(* the number the next one gets: what Apart says of the step of one        *)
(* connection that adds a row.                                             *)
Alone(c) ==
    nextSeq' # nextSeq =>
        /\ \A d \in Connections : conn[d].scan = 0
        /\ \A d \in Connections \ {c} : conn[d].state # Nil => conn[d].seq # nextSeq

(* An acceptance that is recorded where no recovery reaches it.            *)
Durable(e) ==
    \E i \in DOMAIN Committed :
        /\ Committed[i].seq = e.seq
        /\ Committed[i].payload.type = "accepted"
        /\ Committed[i].payload.env = e.env
        /\ Committed[i].payload.after.revision = e.revision

LogInv == \A i, j \in DOMAIN log : i < j => log[i].seq < log[j].seq

KeysUsed(g) == {g.history[i].key : i \in DOMAIN g.history}

(* What the rows in front of the first torn one fold to.                   *)
ReplayInv ==
    /\ FoldOf(Committed).ok
    /\ \A i \in DOMAIN Committed :
          Committed[i].payload.type = "accepted" =>
              Committed[i].payload.after = FoldOf(SubSeq(Committed, 1, i)).graph
    /\ Initialised(Committed) \/ FoldOf(Committed) = NoFold
    /\ \A key \in KeysUsed(FoldOf(Committed).graph) :
          \E e \in FoldOf(Committed).index : e.env.key = key
    /\ FoldOf(Committed).graph.revision < nextSeq
    /\ \A e \in FoldOf(Committed).index : Durable(e)

(* The rows after it add no acceptance, and a graph only to a journal that *)
(* cannot be recovered any more.                                           *)
TailInv ==
    FoldOf(log).ok =>
        /\ FoldOf(log).index = FoldOf(Committed).index
        /\ FoldOf(log).graph = FoldOf(Committed).graph \/ Overrun

(* A connection's cursors are of rows that are there, and sound; a failed  *)
(* COMMIT leaves the cache one row ahead.                                  *)
Cursor(k) ==
    /\ k.vseq < nextSeq /\ k.seq <= nextSeq
    /\ k.load # Nil => k.load < nextSeq
    /\ \A i \in DOMAIN log : log[i].seq <= k.vseq => log[i].sound

(* What a recovery is about to delete is torn, and nothing else is.        *)
Scans(k) ==
    k.scan # 0 => /\ k.load = Nil
                  /\ \A i \in DOMAIN log : log[i].sound <=> log[i].seq < k.scan

(* A cache that may be hit, now or after a recovery, is the fold of the    *)
(* rows in front of the first torn one.                                    *)
Cached(k) ==
    k.state # Nil /\ (k.seq = LastSeq(Committed) \/ ~Initialised(Committed)) =>
        \/ Overrun
        \/ /\ k.state = FoldOf(Committed).graph
           /\ k.index = FoldOf(Committed).index

RowsInv == TypeOK /\ LogInv /\ ReplayInv /\ TailInv

ConnInv ==
    /\ \A c \in Connections : Cursor(conn[c])
    /\ \A c \in Connections : Scans(conn[c])
    /\ \A c \in Connections : Cached(conn[c])
    /\ \A e \in acks : Durable(e)

JournalInv == RowsInv /\ ConnInv

-----------------------------------------------------------------------------
(* One more row in the table.                                              *)

(* Why the row may be there.                                               *)
Justified(p) ==
    /\ p.type = "init" => ~Initialised(log)
    /\ p.type = "accepted" =>
          /\ Clean(log)
          /\ FoldOf(log).graph.id # Nil
          /\ MutationValid(FoldOf(log).graph, p.env)
          /\ p.after = Result(FoldOf(log).graph, p.env)
    /\ p.type = "snapshot" =>
          /\ Clean(log)
          /\ FoldOf(log).graph.id # Nil
          /\ p.graph = FoldOf(log).graph

Appends(p, snd) == log' = Append(log, Row(p, snd)) /\ nextSeq' = nextSeq + 1

(* What happens to the rows that count.                                    *)
LEMMA CommittedGrows ==
    ASSUME RowsInv, NEW p \in Payload, NEW snd \in BOOLEAN, Appends(p, snd)
    PROVE  /\ Row(p, snd) \in JournalRow
           /\ log' \in Seq(JournalRow)
           /\ LogInv'
           /\ Clean(log) /\ snd => /\ Committed' = log'
                                   /\ Committed = log
                                   /\ LastSeq(Committed)' = nextSeq
           /\ ~(Clean(log) /\ snd) => Committed' = Committed
           /\ Len(Committed) <= Len(Committed')
           /\ \A i \in DOMAIN Committed : i \in DOMAIN Committed' /\ Committed'[i] = Committed[i]
           /\ \A e : Durable(e) => Durable(e)'
           /\ Overrun => Overrun'
           /\ Initialised(Committed) => Initialised(Committed)'
<1> DEFINE row == Row(p, snd)
<1>1. /\ log \in Seq(JournalRow) /\ nextSeq \in Nat
      /\ \A i \in DOMAIN log : log[i].seq \in Nat /\ log[i].seq < nextSeq
  BY JournalAssumption DEF RowsInv, TypeOK
<1>2. row \in JournalRow /\ row.seq = nextSeq /\ row.sound = snd
  BY <1>1 DEF Row, JournalRow
<1> HIDE DEF row
<1>3. log' = Append(log, row)
  BY DEF Appends, row
<1>4. /\ log' \in Seq(JournalRow) /\ Len(log') = Len(log) + 1 /\ Len(log) \in Nat
      /\ log'[Len(log) + 1] = row
      /\ \A i \in 1..Len(log) : log'[i] = log[i]
      /\ DOMAIN log = 1..Len(log) /\ DOMAIN log' = 1..(Len(log) + 1)
  BY <1>1, <1>2, <1>3
<1>5. LogInv'
  BY <1>1, <1>2, <1>4 DEF LogInv, RowsInv
<1>6. Committed' = IF Clean(log) /\ snd THEN log' ELSE Committed
  BY <1>1, <1>2, <1>3, IntactAppend DEF Committed
<1>7. Clean(log) => Committed = log
  BY <1>1, IntactRows DEF Committed
<1>8. Clean(log) /\ snd => LastSeq(Committed)' = nextSeq
  <2> SUFFICES ASSUME Clean(log), snd PROVE LastSeq(Committed)' = nextSeq
    OBVIOUS
  <2>1. Committed' = log'
    BY <1>6
  <2>2. log' # <<>> /\ log'[Len(log')].seq = nextSeq
    BY <1>2, <1>4
  <2> QED BY <2>1, <2>2 DEF LastSeq
<1>9. Committed \in Seq(JournalRow)
  BY <1>1, IntactRows DEF Committed
<1>10. /\ Len(Committed) <= Len(Committed')
       /\ \A i \in DOMAIN Committed : i \in DOMAIN Committed' /\ Committed'[i] = Committed[i]
  BY <1>4, <1>6, <1>7, <1>9
<1>11. \A e : Durable(e) => Durable(e)'
  BY <1>10 DEF Durable
<1>12. Initialised(Committed) => Initialised(Committed)'
  BY <1>10 DEF Initialised
<1>13. Overrun => Overrun'
  BY <1>4 DEF Overrun
<1> QED BY <1>2, <1>4, <1>5, <1>6, <1>7, <1>8, <1>10, <1>11, <1>12, <1>13 DEF row

LEMMA FoldGrows ==
    ASSUME RowsInv, NEW p \in Payload, NEW snd \in BOOLEAN, Appends(p, snd)
    PROVE  /\ FoldOf(log) \in FoldType
           /\ FoldOf(log)' = FoldStep(FoldOf(log), Row(p, snd))
<1>1. log \in Seq(JournalRow)
  BY DEF RowsInv, TypeOK
<1>2. Row(p, snd) \in JournalRow
  BY CommittedGrows
<1>3. log' = Append(log, Row(p, snd))
  BY DEF Appends
<1> QED BY <1>1, <1>2, <1>3, FoldTyped, FoldOfAppend

(* A step of the fold, by what the row holds.                              *)
LEMMA FoldStepKinds ==
    ASSUME NEW f \in FoldType, f.ok, NEW p \in Payload, NEW snd \in BOOLEAN,
           Row(p, snd) \in JournalRow
    PROVE  /\ p.type = "rejected" => FoldStep(f, Row(p, snd)) = f
           /\ p.type # "rejected" /\ ~snd => ~FoldStep(f, Row(p, snd)).ok
           /\ p.type = "init" /\ snd =>
                 /\ FoldStep(f, Row(p, snd)).ok
                 /\ FoldStep(f, Row(p, snd)).graph = EmptyGraph(p.graph)
                 /\ FoldStep(f, Row(p, snd)).index = f.index
           /\ p.type = "accepted" /\ snd /\ f.graph.id # Nil =>
                 /\ FoldStep(f, Row(p, snd)).ok
                 /\ FoldStep(f, Row(p, snd)).graph = Result(f.graph, p.env)
                 /\ FoldStep(f, Row(p, snd)).index =
                       Reindex(f.index, Entry(p.env, nextSeq, Result(f.graph, p.env).revision))
           /\ p.type = "snapshot" /\ snd /\ p.graph = f.graph => FoldStep(f, Row(p, snd)) = f
<1> DEFINE row == Row(p, snd)
<1>1. row.payload = p /\ row.sound = snd /\ row.seq = nextSeq /\ row \in JournalRow
  BY DEF Row
<1>2. [f EXCEPT !.graph = f.graph] = f /\ ~[f EXCEPT !.ok = FALSE].ok
  BY DEF FoldType
<1>3. /\ [f EXCEPT !.graph = EmptyGraph(p.graph)].ok = f.ok
      /\ [f EXCEPT !.graph = EmptyGraph(p.graph)].graph = EmptyGraph(p.graph)
      /\ [f EXCEPT !.graph = EmptyGraph(p.graph)].index = f.index
  BY DEF FoldType
<1> HIDE DEF row
<1>4. FoldStep(f, row) = FoldRow(f, row)
  BY DEF FoldStep
<1>5. p.type = "rejected" => FoldRow(f, row) = f
  BY <1>1 DEF FoldRow
<1>6. p.type # "rejected" /\ ~snd => FoldRow(f, row) = [f EXCEPT !.ok = FALSE]
  BY <1>1 DEF FoldRow
<1>7. p.type = "init" /\ snd => FoldRow(f, row) = [f EXCEPT !.graph = EmptyGraph(p.graph)]
  BY <1>1 DEF FoldRow
<1>8. p.type = "accepted" /\ snd /\ f.graph.id # Nil => FoldRow(f, row) = FoldAccepted(f, row)
  BY <1>1 DEF FoldRow
<1>9. p.type = "snapshot" /\ snd /\ p.graph = f.graph => FoldRow(f, row) = f
  BY <1>1, <1>2 DEF FoldRow
<1>10. p.type = "accepted" =>
          /\ FoldAccepted(f, row).ok = f.ok
          /\ FoldAccepted(f, row).graph = Result(f.graph, p.env)
          /\ FoldAccepted(f, row).index =
                Reindex(f.index, Entry(p.env, nextSeq, Result(f.graph, p.env).revision))
  BY <1>1, FoldAcceptedTyped
<1> QED BY <1>2, <1>3, <1>4, <1>5, <1>6, <1>7, <1>8, <1>9, <1>10 DEF row

(* The rows after the first torn one.                                      *)
LEMMA TailGrows ==
    ASSUME RowsInv, NEW p \in Payload, NEW snd \in BOOLEAN, Appends(p, snd), Justified(p)
    PROVE  TailInv'
<1> DEFINE F == FoldOf(log)
           row == Row(p, snd)
<1>1. F \in FoldType /\ FoldOf(log)' = FoldStep(F, row)
  BY FoldGrows
<1>2. row \in JournalRow /\ log' = Append(log, row) /\ log \in Seq(JournalRow)
  BY CommittedGrows DEF Appends, RowsInv, TypeOK
<1>3. CASE Clean(log) /\ snd
  <2>1. Committed' = log'
    BY <1>3, CommittedGrows
  <2> QED BY <2>1 DEF TailInv
<1>4. CASE ~(Clean(log) /\ snd)
  <2>1. Committed' = Committed /\ (Overrun => Overrun')
    BY <1>4, CommittedGrows
  <2>2. CASE ~F.ok
    <3>1. ~FoldOf(log)'.ok
      BY <1>1, <2>2 DEF FoldStep
    <3> QED BY <3>1 DEF TailInv
  <2>3. CASE F.ok /\ p.type = "rejected"
    <3>1. FoldOf(log)' = F
      BY <1>1, <1>2, <2>3, FoldStepKinds
    <3> QED BY <2>1, <3>1 DEF TailInv, RowsInv
  <2>4. CASE F.ok /\ p.type # "rejected" /\ ~snd
    <3>1. ~FoldOf(log)'.ok
      BY <1>1, <1>2, <2>4, FoldStepKinds
    <3> QED BY <3>1 DEF TailInv
  <2>5. CASE F.ok /\ p.type # "rejected" /\ snd
    <3>1. p.type = "init" /\ ~Clean(log)
      BY <1>4, <2>5, PayloadKinds DEF Justified
    <3>2. FoldOf(log)'.index = F.index
      <4> HIDE DEF F
      <4>0. p.type = "init" /\ snd => FoldStep(F, Row(p, snd)).index = F.index
        BY <1>1, <1>2, <2>5, FoldStepKinds
      <4>1. FoldStep(F, row).index = F.index
        BY <2>5, <3>1, <4>0
      <4> QED BY <1>1, <4>1
    <3>3. Overrun'
      <4>1. PICK i \in DOMAIN log : ~log[i].sound
        BY <3>1 DEF Clean
      <4>2. row.sound = snd
        BY DEF Row
      <4> HIDE DEF row
      <4>3. /\ i \in DOMAIN log' /\ Len(log) + 1 \in DOMAIN log' /\ i < Len(log) + 1
            /\ log'[i] = log[i] /\ log'[Len(log) + 1] = row
        BY <1>2
      <4> QED BY <2>5, <4>1, <4>2, <4>3 DEF Overrun
    <3> QED BY <2>1, <2>5, <3>2, <3>3 DEF TailInv, RowsInv
  <2> QED BY <2>2, <2>3, <2>4, <2>5
<1> QED BY <1>3, <1>4

(* A row that adds no acceptance to the rows that count.                   *)
LEMMA ReplayKept ==
    ASSUME RowsInv, NEW p \in Payload, NEW snd \in BOOLEAN, Appends(p, snd), Justified(p),
           ~(Clean(log) /\ snd) \/ p.type \in {"rejected", "snapshot"}
    PROVE  /\ ReplayInv'
           /\ FoldOf(Committed)' = FoldOf(Committed)
<1> DEFINE row == Row(p, snd)
<1>1. row \in JournalRow /\ log' = Append(log, row) /\ log \in Seq(JournalRow)
  BY CommittedGrows DEF Appends, RowsInv, TypeOK
<1>2. FoldOf(Committed) \in FoldType /\ FoldOf(Committed).ok
  BY <1>1, IntactRows, FoldTyped DEF Committed, RowsInv, ReplayInv
<1>3. FoldOf(Committed)' = FoldOf(Committed)
  <2>1. CASE ~(Clean(log) /\ snd)
    BY <2>1, CommittedGrows
  <2>2. CASE Clean(log) /\ snd
    <3>1. Committed' = log' /\ Committed = log
      BY <2>2, CommittedGrows
    <3>2. FoldOf(log)' = FoldStep(FoldOf(log), row)
      BY FoldGrows
    <3>3. p.type \in {"rejected", "snapshot"} /\ (p.type = "snapshot" => p.graph = FoldOf(log).graph)
      BY <2>2 DEF Justified
    <3>4. FoldStep(FoldOf(log), row) = FoldOf(log)
      BY <1>1, <1>2, <2>2, <3>1, <3>3, FoldStepKinds
    <3> QED BY <3>1, <3>2, <3>4
  <2> QED BY <2>1, <2>2
<1>4. \A i \in DOMAIN Committed' :
         Committed'[i].payload.type = "accepted" =>
            Committed'[i].payload.after = FoldOf(SubSeq(Committed', 1, i)).graph
  <2>1. CASE ~(Clean(log) /\ snd)
    BY <2>1, CommittedGrows DEF RowsInv, ReplayInv
  <2>2. CASE Clean(log) /\ snd
    <3>1. Committed' = log' /\ Committed = log
      BY <2>2, CommittedGrows
    <3>2. row.payload = p /\ p.type # "accepted"
      BY <2>2 DEF Row
    <3> HIDE DEF row
    <3>3. \A i \in DOMAIN log' : log'[i].payload.type = "accepted" =>
             i \in DOMAIN log /\ log'[i] = log[i] /\ SubSeq(log', 1, i) = SubSeq(log, 1, i)
      BY <1>1, <3>2
    <3>4. \A i \in DOMAIN log : log[i].payload.type = "accepted" =>
             log[i].payload.after = FoldOf(SubSeq(log, 1, i)).graph
      BY <3>1 DEF RowsInv, ReplayInv
    <3> QED BY <3>1, <3>3, <3>4
  <2> QED BY <2>1, <2>2
<1>5. nextSeq' = nextSeq + 1 /\ nextSeq \in Nat
  BY DEF Appends, RowsInv, TypeOK
<1>6. FoldOf(Committed).graph.revision \in Nat
  BY <1>2 DEF FoldType, Graph
<1>7. (FoldOf(Committed).graph.revision < nextSeq)'
  BY <1>3, <1>5, <1>6 DEF RowsInv, ReplayInv
<1>8. (\A e \in FoldOf(Committed).index : Durable(e))'
  BY <1>3, CommittedGrows DEF RowsInv, ReplayInv
<1>9. (Initialised(Committed) \/ FoldOf(Committed) = NoFold)'
  BY <1>3, CommittedGrows DEF RowsInv, ReplayInv
<1>10. (\A key \in KeysUsed(FoldOf(Committed).graph) :
           \E e \in FoldOf(Committed).index : e.env.key = key)'
  BY <1>3 DEF RowsInv, ReplayInv
<1> QED BY <1>2, <1>3, <1>4, <1>7, <1>8, <1>9, <1>10 DEF ReplayInv

LEMMA EmptyGraphFacts ==
    \A id : /\ EmptyGraph(id).id = id
            /\ EmptyGraph(id).revision = 0
            /\ KeysUsed(EmptyGraph(id)) = {}
<1>1. \A id : /\ EmptyGraph(id).id = id
              /\ EmptyGraph(id).revision = 0
              /\ EmptyGraph(id).history = <<>>
  BY DEF EmptyGraph
<1>2. DOMAIN <<>> = {}
  OBVIOUS
<1> QED BY <1>1, <1>2 DEF KeysUsed

(* The acceptances that were recorded still agree with their replay.       *)
LEMMA AftersKept ==
    ASSUME RowsInv, NEW p \in Payload, Appends(p, TRUE), Clean(log),
           p.type = "accepted" => p.after = FoldOf(log)'.graph
    PROVE  /\ \A i \in DOMAIN Committed' :
                 Committed'[i].payload.type = "accepted" =>
                    Committed'[i].payload.after = FoldOf(SubSeq(Committed', 1, i)).graph
           /\ Len(log) + 1 \in DOMAIN Committed' /\ Committed'[Len(log) + 1] = Row(p, TRUE)
<1> DEFINE row == Row(p, TRUE)
<1>1. row \in JournalRow /\ log' = Append(log, row) /\ log \in Seq(JournalRow)
  BY CommittedGrows DEF Appends, RowsInv, TypeOK
<1>2. Committed' = log' /\ Committed = log
  BY CommittedGrows
<1>3. row.payload = p
  BY DEF Row
<1> HIDE DEF row
<1>4. \A i \in DOMAIN log : log[i].payload.type = "accepted" =>
         log[i].payload.after = FoldOf(SubSeq(log, 1, i)).graph
  BY <1>2 DEF RowsInv, ReplayInv
<1>5. \A i \in DOMAIN log' :
         \/ i \in DOMAIN log /\ log'[i] = log[i] /\ SubSeq(log', 1, i) = SubSeq(log, 1, i)
         \/ log'[i] = row /\ SubSeq(log', 1, i) = log'
  BY <1>1
<1>6. Len(log) + 1 \in DOMAIN log' /\ log'[Len(log) + 1] = row
  BY <1>1
<1>7. ASSUME NEW i \in DOMAIN log', log'[i].payload.type = "accepted"
      PROVE  log'[i].payload.after = FoldOf(SubSeq(log', 1, i)).graph
  <2>1. CASE i \in DOMAIN log /\ log'[i] = log[i] /\ SubSeq(log', 1, i) = SubSeq(log, 1, i)
    BY <1>4, <1>7, <2>1
  <2>2. CASE log'[i] = row /\ SubSeq(log', 1, i) = log'
    BY <1>3, <1>7, <2>2
  <2> QED BY <1>5, <2>1, <2>2
<1> QED BY <1>2, <1>6, <1>7 DEF row

(* The record that creates the graph.                                      *)
LEMMA ReplayStarts ==
    ASSUME RowsInv, NEW p \in Payload, Appends(p, TRUE), Justified(p), Clean(log),
           p.type = "init"
    PROVE  /\ ReplayInv'
           /\ FoldOf(Committed).graph = EmptyGraph(Nil)
           /\ FoldOf(Committed)'.graph = EmptyGraph(p.graph)
<1>1. /\ Committed' = log' /\ Committed = log
      /\ Row(p, TRUE) \in JournalRow
  BY CommittedGrows
<1>2. FoldOf(log) = NoFold
  BY <1>1 DEF RowsInv, ReplayInv, Justified
<1>3. NoFold.ok /\ NoFold.graph = EmptyGraph(Nil) /\ NoFold.index = {}
  BY DEF NoFold
<1>4. /\ FoldOf(log)'.ok
      /\ FoldOf(log)'.graph = EmptyGraph(p.graph)
      /\ FoldOf(log)'.index = {}
  <2>1. FoldOf(log) \in FoldType /\ FoldOf(log)' = FoldStep(FoldOf(log), Row(p, TRUE))
    BY FoldGrows
  <2>2. /\ FoldStep(FoldOf(log), Row(p, TRUE)).ok
        /\ FoldStep(FoldOf(log), Row(p, TRUE)).graph = EmptyGraph(p.graph)
        /\ FoldStep(FoldOf(log), Row(p, TRUE)).index = FoldOf(log).index
    BY <1>1, <1>2, <1>3, <2>1, FoldStepKinds
  <2> QED BY <1>2, <1>3, <2>1, <2>2
<1>5. nextSeq' = nextSeq + 1 /\ nextSeq \in Nat
  BY DEF Appends, RowsInv, TypeOK
<1>6. /\ \A i \in DOMAIN Committed' :
            Committed'[i].payload.type = "accepted" =>
               Committed'[i].payload.after = FoldOf(SubSeq(Committed', 1, i)).graph
      /\ Len(log) + 1 \in DOMAIN Committed' /\ Committed'[Len(log) + 1] = Row(p, TRUE)
  BY AftersKept
<1>7. Initialised(Committed)'
  <2>1. Row(p, TRUE).payload = p
    BY DEF Row
  <2> QED BY <1>6, <2>1 DEF Initialised
<1> QED BY <1>1, <1>2, <1>3, <1>4, <1>5, <1>6, <1>7, EmptyGraphFacts DEF ReplayInv

(* The record of an acceptance.                                            *)
LEMMA ReplayExtends ==
    ASSUME RowsInv, NEW p \in Payload, Appends(p, TRUE), Justified(p), Clean(log),
           p.type = "accepted"
    PROVE  /\ ReplayInv'
           /\ FoldOf(Committed)'.graph = p.after
           /\ FoldOf(Committed)'.index =
                 Reindex(FoldOf(log).index, Entry(p.env, nextSeq, p.after.revision))
           /\ \A e : e = Entry(p.env, nextSeq, p.after.revision) => Durable(e)'
<1> DEFINE F == FoldOf(log)
           entry == Entry(p.env, nextSeq, p.after.revision)
<1>1. /\ Committed' = log' /\ Committed = log
      /\ Row(p, TRUE) \in JournalRow
  BY CommittedGrows
<1>2. /\ F.ok /\ F.graph.id # Nil
      /\ MutationValid(F.graph, p.env) /\ p.after = Result(F.graph, p.env)
  BY <1>1 DEF RowsInv, ReplayInv, Justified
<1>3. F \in FoldType /\ FoldOf(log)' = FoldStep(F, Row(p, TRUE))
  BY FoldGrows
<1>4. /\ FoldOf(log)'.ok
      /\ FoldOf(log)'.graph = p.after
      /\ FoldOf(log)'.index = Reindex(F.index, entry)
  BY <1>1, <1>2, <1>3, FoldStepKinds
<1>5. nextSeq' = nextSeq + 1 /\ nextSeq \in Nat
  BY DEF Appends, RowsInv, TypeOK
<1>6. /\ \A i \in DOMAIN Committed' :
            Committed'[i].payload.type = "accepted" =>
               Committed'[i].payload.after = FoldOf(SubSeq(Committed', 1, i)).graph
      /\ Len(log) + 1 \in DOMAIN Committed' /\ Committed'[Len(log) + 1] = Row(p, TRUE)
  BY <1>4, AftersKept
<1>7. Initialised(Committed)'
  <2>1. NoFold.graph.id = Nil
    BY EmptyGraphFacts DEF NoFold
  <2>2. Initialised(Committed)
    BY <1>1, <1>2, <2>1 DEF RowsInv, ReplayInv
  <2> QED BY <2>2, CommittedGrows
<1>8. F.graph \in Graph /\ p.env \in Envelope
  BY <1>3, PayloadKinds DEF FoldType
<1>9. p.after.revision = F.graph.revision + 1 /\ p.after.history = Append(F.graph.history, p.env)
  BY <1>2, <1>8, ResultOfEnvelope
<1>10. F.graph.history \in Seq(Envelope) /\ F.graph.revision \in Nat
  BY <1>8 DEF Graph
<1>11. p.after.revision < nextSeq'
  <2>1. F.graph.revision < nextSeq
    BY <1>1 DEF RowsInv, ReplayInv
  <2> QED BY <1>5, <1>9, <1>10, <2>1
<1>12. entry.env = p.env /\ entry.seq = nextSeq /\ entry.revision = p.after.revision
  BY DEF Entry
<1> HIDE DEF F, entry
<1>13. \A key \in KeysUsed(p.after) : key \in KeysUsed(F.graph) \/ key = p.env.key
  BY <1>8, <1>9, <1>10 DEF KeysUsed
<1>14. \A key \in KeysUsed(p.after) : \E e \in Reindex(F.index, entry) : e.env.key = key
  <2> TAKE key \in KeysUsed(p.after)
  <2>1. CASE key = p.env.key
    <3>1. entry \in Reindex(F.index, entry)
      BY DEF Reindex
    <3> QED BY <1>12, <2>1, <3>1
  <2>2. CASE key # p.env.key
    <3>1. key \in KeysUsed(F.graph)
      BY <1>13, <2>2
    <3>2. \E e \in F.index : e.env.key = key
      BY <1>1, <3>1 DEF F, RowsInv, ReplayInv
    <3> QED BY <1>12, <2>2, <3>2 DEF Reindex
  <2> QED BY <2>1, <2>2
<1>15. \A e : e = entry => Durable(e)'
  <2>1. Row(p, TRUE).payload = p /\ Row(p, TRUE).seq = nextSeq
    BY DEF Row
  <2> SUFFICES ASSUME NEW e, e = entry PROVE Durable(e)'
    OBVIOUS
  <2>2. /\ Committed'[Len(log) + 1].seq = e.seq
        /\ Committed'[Len(log) + 1].payload.type = "accepted"
        /\ Committed'[Len(log) + 1].payload.env = e.env
        /\ Committed'[Len(log) + 1].payload.after.revision = e.revision
    BY <1>6, <1>12, <2>1
  <2> QED BY <1>6, <2>2 DEF Durable
<1>16. \A e : e \in Reindex(F.index, entry) => Durable(e)'
  <2> SUFFICES ASSUME NEW e, e \in Reindex(F.index, entry) PROVE Durable(e)'
    OBVIOUS
  <2>1. CASE e = entry
    BY <1>15, <2>1
  <2>2. CASE e # entry
    <3>1. e \in FoldOf(log).index
      BY <2>2 DEF F, Reindex
    <3>2. Durable(e)
      BY <1>1, <3>1 DEF RowsInv, ReplayInv
    <3> QED BY <3>2, CommittedGrows
  <2> QED BY <2>1, <2>2
<1>17. FoldOf(Committed)' = FoldOf(log)'
  BY <1>1
<1>18. ReplayInv'
  <2>1. \A e : e \in FoldOf(Committed)'.index => Durable(e)'
    BY <1>4, <1>16, <1>17
  <2> QED BY <1>4, <1>6, <1>7, <1>11, <1>14, <1>17, <2>1 DEF ReplayInv
<1> QED BY <1>4, <1>15, <1>17, <1>18 DEF F, entry

LEMMA RowsGrow ==
    ASSUME RowsInv, NEW p \in Payload, NEW snd \in BOOLEAN, Appends(p, snd), Justified(p)
    PROVE  ReplayInv' /\ TailInv'
<1>1. CASE ~(Clean(log) /\ snd) \/ p.type \in {"rejected", "snapshot"}
  BY <1>1, ReplayKept, TailGrows
<1>2. CASE snd /\ Clean(log) /\ p.type = "init"
  <2>1. snd = TRUE
    BY <1>2
  <2> QED BY <1>2, <2>1, ReplayStarts, TailGrows
<1>3. CASE snd /\ Clean(log) /\ p.type = "accepted"
  <2>1. snd = TRUE
    BY <1>3
  <2> QED BY <1>3, <2>1, ReplayExtends, TailGrows
<1> QED BY <1>1, <1>2, <1>3, PayloadKinds

-----------------------------------------------------------------------------
(* What a connection does with the rows it reads.                          *)

LEMMA LastRowOf ==
    ASSUME NEW n \in Nat, NEW S \in SUBSET (1..n), S # {}
    PROVE  \E i \in S : \A j \in S : j <= i
<1> DEFINE T == {n - i : i \in S}
<1>1. T \in SUBSET Nat /\ T # {}
  <2>1. \A i \in S : i \in Nat /\ n - i \in Nat
    OBVIOUS
  <2>2. T # {}
    BY Zenon
  <2> QED BY <2>1, <2>2
<1>2. PICK t \in T : \A u \in T : t <= u
  <2> HIDE DEF T
  <2> QED BY <1>1, Laws!LeastNatural, GroupsAssumption, JournalAssumption, SameTypes
<1>3. PICK i \in S : t = n - i
  OBVIOUS
<1>4. \A j \in S : t <= n - j
  BY <1>2
<1> QED BY <1>3, <1>4

RowsTyped == TypeOK /\ LogInv

LEMMA LogTyped ==
    ASSUME RowsTyped
    PROVE  /\ log \in Seq(JournalRow) /\ Len(log) \in Nat /\ DOMAIN log = 1..Len(log)
           /\ nextSeq \in Nat /\ nextSeq >= 1
           /\ \A i \in DOMAIN log : /\ log[i] \in JournalRow
                                     /\ log[i].seq \in Nat /\ log[i].seq >= 1
                                     /\ log[i].seq < nextSeq
                                     /\ log[i].payload \in Payload
           /\ MaxSeq \in Nat /\ MaxSeq < nextSeq
           /\ \A i, j \in DOMAIN log : i < j => log[i].seq < log[j].seq
<1>1. /\ log \in Seq(JournalRow) /\ Len(log) \in Nat /\ DOMAIN log = 1..Len(log)
      /\ nextSeq \in Nat /\ nextSeq >= 1
      /\ \A i \in DOMAIN log : log[i].seq \in 1..(nextSeq - 1)
  BY JournalAssumption DEF RowsTyped, TypeOK
<1>2. \A i \in DOMAIN log : log[i] \in JournalRow
  BY <1>1
<1>3. \A i \in DOMAIN log : log[i].payload \in Payload
  BY <1>2 DEF JournalRow
<1>4. MaxSeq \in Nat /\ MaxSeq < nextSeq
  <2>1. CASE log = <<>>
    BY <1>1, <2>1 DEF MaxSeq
  <2>2. CASE log # <<>>
    <3>1. Len(log) \in DOMAIN log
      BY <1>1, <2>2
    <3> QED BY <1>1, <2>2, <3>1 DEF MaxSeq
  <2> QED BY <2>1, <2>2
<1> QED BY <1>1, <1>2, <1>3, <1>4 DEF RowsTyped, LogInv

LEMMA VerifiedIs ==
    ASSUME RowsTyped, NEW k \in ConnType
    PROVE  /\ Verified(k) \in ConnType
           /\ Verified(k).state = k.state /\ Verified(k).seq = k.seq
           /\ Verified(k).index = k.index /\ Verified(k).scan = k.scan
           /\ Verified(k).load = k.load /\ Verified(k).validated = k.validated
           /\ Cursor(k) => Cursor(Verified(k))
           /\ Cursor(k) /\ ~Verified(k).broken => Clean(log)
<1> DEFINE good == {i \in Unverified(k) : \A j \in BadRows(k) : i < j}
           last == CHOOSE i \in good : \A j \in good : j <= i
           seq == IF good = {} THEN k.vseq ELSE log[last].seq
           hash == IF good = {} THEN k.vhash ELSE log[last].payload
           bad == BadRows(k) # {}
<1>1. Verified(k) = [k EXCEPT !.broken = bad, !.vseq = seq, !.vhash = hash]
  BY DEF Verified
<1>2. good # {} => last \in good /\ last \in DOMAIN log
  <2>1. good \in SUBSET (1..Len(log)) /\ Len(log) \in Nat
    BY LogTyped DEF Unverified
  <2> HIDE DEF good
  <2>2. good # {} => \E i \in good : \A j \in good : j <= i
    BY <2>1, LastRowOf
  <2> QED BY <2>1, <2>2, LogTyped
<1> HIDE DEF last
<1>3. (seq \in Nat /\ seq < nextSeq) \/ good = {}
  BY <1>2, LogTyped
<1>4. \A i \in DOMAIN log : i \notin BadRows(k) /\ log[i].seq > k.vseq => log[i].sound
  BY DEF BadRows, Unverified
<1>5. BadRows(k) \subseteq DOMAIN log
  BY DEF BadRows, Unverified
<1>6. Cursor(k) => \A i \in DOMAIN log : log[i].seq <= seq => log[i].sound
  <2> SUFFICES ASSUME Cursor(k), NEW i \in DOMAIN log, log[i].seq <= seq
               PROVE  log[i].sound
    OBVIOUS
  <2>1. k.vseq \in Nat
    BY DEF ConnType
  <2>2. CASE log[i].seq <= k.vseq
    BY <2>2 DEF Cursor
  <2>3. CASE ~(log[i].seq <= k.vseq)
    <3>1. good # {} /\ log[i].seq > k.vseq
      BY <2>1, <2>3, LogTyped
    <3>2. last \in DOMAIN log /\ log[i].seq <= log[last].seq
      BY <1>2, <3>1
    <3>3. i <= last
      BY <3>2, LogTyped
    <3>4. i \notin BadRows(k)
      <4>1. \A j \in BadRows(k) : last < j
        BY <1>2, <3>1
      <4> QED BY <1>5, <3>2, <3>3, <4>1, LogTyped
    <3> QED BY <1>4, <3>1, <3>4
  <2> QED BY <2>2, <2>3
<1>7. Cursor(k) /\ ~bad => Clean(log)
  <2> SUFFICES ASSUME Cursor(k), ~bad, NEW i \in DOMAIN log PROVE log[i].sound
    BY DEF Clean
  <2>1. k.vseq \in Nat /\ log[i].seq \in Nat
    BY LogTyped DEF ConnType
  <2>2. log[i].seq <= k.vseq \/ log[i].seq > k.vseq
    BY <2>1
  <2> QED BY <1>4, <2>2 DEF Cursor
<1>8. seq \in Nat /\ hash \in Payload \cup {Nil} /\ bad \in BOOLEAN
  <2>1. k.vseq \in Nat /\ k.vhash \in Payload \cup {Nil}
    BY DEF ConnType
  <2>2. good # {} => log[last].seq \in Nat /\ log[last].payload \in Payload
    BY <1>2, LogTyped
  <2> QED BY <2>1, <2>2
<1>9. Cursor(k) => seq < nextSeq
  BY <1>3 DEF Cursor
<1> HIDE DEF good, seq, hash, bad
<1>10. /\ Verified(k) \in ConnType
       /\ Verified(k).state = k.state /\ Verified(k).seq = k.seq
       /\ Verified(k).index = k.index /\ Verified(k).scan = k.scan
       /\ Verified(k).load = k.load /\ Verified(k).validated = k.validated
       /\ Verified(k).vseq = seq /\ Verified(k).broken = bad
  BY <1>1, <1>8 DEF ConnType
<1>11. Cursor(k) => Cursor(Verified(k))
  BY <1>6, <1>9, <1>10 DEF Cursor
<1> QED BY <1>7, <1>10, <1>11

(* What a fold in a write transaction returns is a graph.                  *)
LEMMA FoldedTyped ==
    ASSUME RowsTyped, NEW k0 \in ConnType, NEW k \in Folded(k0)
    PROVE  /\ k \in ConnType
           /\ k.state \in Graph
           /\ k.scan = k0.scan /\ k.load = k0.load
<1>1. FoldOf(log) \in FoldType /\ MaxSeq \in Nat
  BY LogTyped, FoldTyped
<1>2. Verified(k0) \in ConnType /\ Verified(k0).state = k0.state
      /\ Verified(k0).scan = k0.scan /\ Verified(k0).load = k0.load
  BY VerifiedIs
<1>3. CASE CacheHit(k0) /\ k = Verified(k0)
  <2>1. k0.state # Nil /\ k0.state \in Graph \cup {Nil}
    BY <1>3 DEF CacheHit, ConnType
  <2> QED BY <1>2, <1>3, <2>1
<1>4. CASE k = Loaded(Verified(k0), MaxSeq)
  <2>1. FoldOf(log).graph \in Graph /\ FoldOf(log).index \in SUBSET EntryType
    BY <1>1 DEF FoldType
  <2>2. k = [Verified(k0) EXCEPT !.state = FoldOf(log).graph, !.seq = MaxSeq,
                                 !.index = FoldOf(log).index]
    BY <1>4 DEF Loaded
  <2> QED BY <1>1, <1>2, <2>1, <2>2 DEF ConnType
<1> QED BY <1>3, <1>4 DEF Folded

LEMMA Untouched ==
    ASSUME NEW c \in Connections, NEW k, conn' = [conn EXCEPT ![c] = k],
           conn \in [Connections -> ConnType]
    PROVE  /\ conn'[c] = k
           /\ \A d \in Connections \ {c} : conn'[d] = conn[d]
           /\ k \in ConnType => conn' \in [Connections -> ConnType]
  OBVIOUS

LEMMA AppendTyped ==
    ASSUME RowsTyped, nextSeq <= MaxRows, NEW p \in Payload, NEW snd \in BOOLEAN, Appends(p, snd),
           conn' \in [Connections -> ConnType], acks' \subseteq EntryType
    PROVE  RowsTyped'
<1>1. Row(p, snd) \in JournalRow /\ Row(p, snd).seq = nextSeq
  BY LogTyped DEF Row, JournalRow
<1>2. log' = Append(log, Row(p, snd)) /\ nextSeq' = nextSeq + 1
  BY DEF Appends
<1> DEFINE row == Row(p, snd)
<1> HIDE DEF row
<1>3. /\ log' \in Seq(JournalRow) /\ DOMAIN log' = 1..(Len(log) + 1)
      /\ log'[Len(log) + 1] = row /\ row.seq = nextSeq
      /\ \A i \in 1..Len(log) : log'[i] = log[i]
  BY <1>1, <1>2, LogTyped DEF row
<1>4. nextSeq' \in 1..(MaxRows + 1)
  BY <1>2, LogTyped, JournalAssumption
<1>5. \A i \in DOMAIN log' : log'[i].seq \in 1..(nextSeq' - 1)
  BY <1>2, <1>3, LogTyped
<1>6. LogInv'
  BY <1>3, LogTyped DEF LogInv
<1> QED BY <1>3, <1>4, <1>5, <1>6 DEF RowsTyped, TypeOK

LEMMA ClosedTyped == Closed \in ConnType
  BY DEF Closed, ConnType

(* A write transaction, whatever becomes of it.                            *)
LEMMA WriteTyped ==
    ASSUME RowsTyped, NEW c \in Connections, nextSeq <= MaxRows, NEW p \in Payload,
           NEW k \in ConnType, NEW answer \in SUBSET EntryType, Write(c, p, k, answer)
    PROVE  RowsTyped'
<1>1. conn \in [Connections -> ConnType] /\ acks \subseteq EntryType
  BY DEF RowsTyped, TypeOK
<1>2. CASE Commits(c, p, k, answer)
  <2>1. conn' \in [Connections -> ConnType]
    BY <1>1, <1>2, Untouched DEF Commits
  <2>2. Appends(p, TRUE) /\ acks' \subseteq EntryType
    BY <1>1, <1>2 DEF Commits, Appends
  <2> QED BY <2>1, <2>2, AppendTyped
<1>3. CASE CommitFails(c, k)
  <2>1. conn' \in [Connections -> ConnType]
    BY <1>1, <1>3, Untouched DEF CommitFails
  <2> QED BY <1>3, <2>1 DEF CommitFails, RowsTyped, TypeOK, LogInv
<1>4. CASE Tears(c, p)
  <2>1. conn' \in [Connections -> ConnType]
    BY <1>1, <1>4, Untouched, ClosedTyped DEF Tears
  <2>2. Appends(p, FALSE) /\ acks' \subseteq EntryType
    BY <1>1, <1>4 DEF Tears, Appends
  <2> QED BY <2>1, <2>2, AppendTyped
<1> QED BY <1>2, <1>3, <1>4 DEF Write

(* A step that leaves the table alone.                                     *)
LEMMA ReadTyped ==
    ASSUME RowsTyped, NEW c \in Connections, NEW k \in ConnType, conn' = [conn EXCEPT ![c] = k],
           UNCHANGED <<log, nextSeq>>, acks' \subseteq EntryType
    PROVE  RowsTyped'
<1>1. conn' \in [Connections -> ConnType]
  BY Untouched DEF RowsTyped, TypeOK
<1> QED BY <1>1 DEF RowsTyped, TypeOK, LogInv

(* What recover() leaves of the table is a beginning of it.                *)
LEMMA RowsBelowIs ==
    ASSUME RowsTyped, NEW seq \in Nat
    PROVE  \E m \in 0..Len(log) :
              /\ RowsBelow(seq) = SubSeq(log, 1, m)
              /\ \A i \in DOMAIN log : i <= m <=> log[i].seq < seq
<1> DEFINE S == {i \in DOMAIN log : log[i].seq < seq}
           m == IF S = {} THEN 0 ELSE CHOOSE i \in S : \A j \in S : j <= i
<1>1. S # {} => m \in S /\ \A j \in S : j <= m
  <2>1. S \in SUBSET (1..Len(log)) /\ Len(log) \in Nat
    BY LogTyped
  <2> HIDE DEF S
  <2>2. S # {} => \E i \in S : \A j \in S : j <= i
    BY <2>1, LastRowOf
  <2> QED BY <2>2
<1>2. S = {} => m = 0
  OBVIOUS
<1> HIDE DEF m
<1>3. m \in 0..Len(log)
  BY <1>1, <1>2, LogTyped
<1>4. \A i \in DOMAIN log : i <= m <=> log[i].seq < seq
  BY <1>1, <1>2, LogTyped
<1>5. S = 1..m
  BY <1>3, <1>4, LogTyped
<1>6. RowsBelow(seq) = [i \in 1..m |-> log[i]]
  BY <1>5 DEF RowsBelow
<1>7. SubSeq(log, 1, m) = [i \in 1..m |-> log[i]]
  <2>1. /\ SubSeq(log, 1, m) \in Seq(JournalRow) /\ Len(SubSeq(log, 1, m)) = m
        /\ \A i \in 1..m : SubSeq(log, 1, m)[i] = log[i]
    BY <1>3, LogTyped
  <2>2. /\ [i \in 1..m |-> log[i]] \in Seq(JournalRow)
        /\ Len([i \in 1..m |-> log[i]]) = m
    BY <1>3, LogTyped
  <2> QED BY <1>3, <2>1, <2>2
<1> QED BY <1>3, <1>4, <1>6, <1>7

LEMMA RecordsTyped ==
    /\ \A id \in GraphIds : InitEvent(id) \in Payload
    /\ \A env \in Envelope, g \in Graph : Accepted(env, g) \in Payload
    /\ \A env \in Envelope, n \in Nat : Rejected(env, n) \in Payload
    /\ \A g \in Graph : Checkpoint(g) \in Payload
  BY DEF InitEvent, Accepted, Rejected, Checkpoint, Payload

LEMMA MemoryTyped ==
    ASSUME RowsTyped, NEW k \in ConnType
    PROVE  /\ Invalidated(k) \in ConnType /\ Advanced(k) \in ConnType
           /\ Raised(k) \in ConnType
           /\ [Invalidated(k) EXCEPT !.vseq = 0, !.vhash = Nil, !.broken = FALSE, !.scan = 0]
                 \in ConnType
           /\ [k EXCEPT !.vseq = 0, !.vhash = Nil] \in ConnType
<1>1. Invalidated(k) \in ConnType
  BY DEF Invalidated, ConnType
<1>2. Advanced(k) \in ConnType
  BY LogTyped DEF Advanced, ConnType
<1>3. Raised(k) \in ConnType
  BY VerifiedIs DEF Raised
<1>4. [Invalidated(k) EXCEPT !.vseq = 0, !.vhash = Nil, !.broken = FALSE, !.scan = 0] \in ConnType
  BY <1>1 DEF ConnType
<1>5. [k EXCEPT !.vseq = 0, !.vhash = Nil] \in ConnType
  BY DEF ConnType
<1> QED BY <1>1, <1>2, <1>3, <1>4, <1>5

(* An acceptance, its record and the memory it leaves.                     *)
AcceptedMemory(k, env) ==
    LET next == Result(k.state, env) IN
    [k EXCEPT !.state = next, !.seq = nextSeq,
              !.index = Reindex(@, Entry(env, nextSeq, next.revision)),
              !.validated = TRUE]

LEMMA AcceptanceTyped ==
    ASSUME RowsTyped, NEW k \in ConnType, k.state \in Graph, NEW env \in Envelope
    PROVE  /\ Result(k.state, env) \in Graph
           /\ Entry(env, nextSeq, Result(k.state, env).revision) \in EntryType
           /\ AcceptedMemory(k, env) \in ConnType
           /\ AcceptedMemory(k, env).state = Result(k.state, env)
           /\ AcceptedMemory(k, env).seq = nextSeq
           /\ AcceptedMemory(k, env).index =
                 Reindex(k.index, Entry(env, nextSeq, Result(k.state, env).revision))
           /\ AcceptedMemory(k, env).vseq = k.vseq
           /\ AcceptedMemory(k, env).scan = k.scan
           /\ AcceptedMemory(k, env).load = k.load
<1> DEFINE next == Result(k.state, env)
           entry == Entry(env, nextSeq, next.revision)
<1>1. next \in Graph
  BY ResultTyped
<1>2. entry \in EntryType
  <2>1. next.revision \in Nat
    BY <1>1 DEF Graph
  <2> HIDE DEF next
  <2> QED BY <2>1, LogTyped DEF Entry, EntryType
<1>3. AcceptedMemory(k, env) = [k EXCEPT !.state = next, !.seq = nextSeq,
                                         !.index = Reindex(k.index, entry), !.validated = TRUE]
  BY DEF AcceptedMemory
<1> HIDE DEF next, entry
<1>4. Reindex(k.index, entry) \in SUBSET EntryType
  BY <1>2 DEF Reindex, ConnType
<1>5. /\ AcceptedMemory(k, env) \in ConnType
      /\ AcceptedMemory(k, env).state = next
      /\ AcceptedMemory(k, env).seq = nextSeq
      /\ AcceptedMemory(k, env).index = Reindex(k.index, entry)
      /\ AcceptedMemory(k, env).vseq = k.vseq
      /\ AcceptedMemory(k, env).scan = k.scan
      /\ AcceptedMemory(k, env).load = k.load
  BY <1>1, <1>3, <1>4, LogTyped DEF ConnType
<1> QED BY <1>1, <1>2, <1>5 DEF next, entry

RejectedMemory(k, env) ==
    [Advanced(k) EXCEPT !.validated =
         \/ @
         \/ /\ k.state.id # Nil
            /\ Prior(k, env) = {}
            /\ ValidFor(k, env)]

LEMMA RejectionTyped ==
    ASSUME RowsTyped, NEW k \in ConnType, NEW env
    PROVE  /\ RejectedMemory(k, env) \in ConnType
           /\ RejectedMemory(k, env).state = Advanced(k).state
           /\ RejectedMemory(k, env).seq = Advanced(k).seq
           /\ RejectedMemory(k, env).index = Advanced(k).index
           /\ RejectedMemory(k, env).vseq = Advanced(k).vseq
           /\ RejectedMemory(k, env).scan = Advanced(k).scan
           /\ RejectedMemory(k, env).load = Advanced(k).load
<1> DEFINE b == \/ Advanced(k).validated
                \/ k.state.id # Nil /\ Prior(k, env) = {} /\ ValidFor(k, env)
<1>1. RejectedMemory(k, env) = [Advanced(k) EXCEPT !.validated = b]
  BY Zenon DEF RejectedMemory
<1>2. b \in BOOLEAN
  OBVIOUS
<1>3. Advanced(k) \in ConnType
  BY MemoryTyped
<1> HIDE DEF b
<1> QED BY <1>1, <1>2, <1>3 DEF ConnType

LEMMA TypeStep ==
    ASSUME RowsTyped, [Next]_vars
    PROVE  RowsTyped'
<1>1. /\ \A c \in Connections : conn[c] \in ConnType
      /\ acks \subseteq EntryType
      /\ Envelopes \subseteq Envelope
  BY JournalAssumption DEF RowsTyped, TypeOK
<1>2. ASSUME NEW c \in Connections, NEW id \in GraphIds, InitGraph(c, id)
      PROVE  RowsTyped'
  <2>1. InitEvent(id) \in Payload /\ Invalidated(conn[c]) \in ConnType
    BY <1>1, RecordsTyped, MemoryTyped
  <2> QED BY <1>2, <2>1, WriteTyped DEF InitGraph, MayWrite
<1>3. ASSUME NEW c \in Connections, NEW env \in Envelopes, ProposeAccepted(c, env)
      PROVE  RowsTyped'
  <2>1. PICK k \in Folded(conn[c]) :
           Write(c, Accepted(env, Result(k.state, env)), AcceptedMemory(k, env),
                 {Entry(env, nextSeq, Result(k.state, env).revision)})
    BY <1>3, Zenon DEF ProposeAccepted, AcceptedMemory
  <2>2. k \in ConnType /\ k.state \in Graph /\ env \in Envelope
    BY <1>1, FoldedTyped
  <2>3. Accepted(env, Result(k.state, env)) \in Payload
    BY <2>2, AcceptanceTyped, RecordsTyped
  <2>4. AcceptedMemory(k, env) \in ConnType
    BY <2>2, AcceptanceTyped
  <2>5. {Entry(env, nextSeq, Result(k.state, env).revision)} \in SUBSET EntryType
    BY <2>2, AcceptanceTyped
  <2> QED BY <1>3, <2>1, <2>3, <2>4, <2>5, WriteTyped DEF ProposeAccepted, MayWrite
<1>4. ASSUME NEW c \in Connections, NEW env \in Envelopes, ProposeRepeated(c, env)
      PROVE  RowsTyped'
  <2>1. PICK k \in Folded(conn[c]) :
           /\ \E e \in Prior(k, env) : acks' = acks \cup {e}
           /\ conn' = [conn EXCEPT ![c] = k]
    BY <1>4 DEF ProposeRepeated
  <2>2. k \in ConnType
    BY <1>1, FoldedTyped
  <2>3. acks' \subseteq EntryType
    BY <1>1, <2>1, <2>2 DEF Prior, ConnType
  <2> QED BY <1>4, <2>1, <2>2, <2>3, ReadTyped DEF ProposeRepeated
<1>5. ASSUME NEW c \in Connections, NEW env \in Envelopes, ProposeRejected(c, env)
      PROVE  RowsTyped'
  <2>1. PICK k \in Folded(conn[c]) :
           Write(c, Rejected(env, k.state.revision), RejectedMemory(k, env), {})
    BY <1>5, Zenon DEF ProposeRejected, RejectedMemory
  <2>2. k \in ConnType /\ k.state.revision \in Nat /\ env \in Envelope
    BY <1>1, FoldedTyped DEF Graph
  <2>3. Rejected(env, k.state.revision) \in Payload /\ RejectedMemory(k, env) \in ConnType
    BY <2>2, RecordsTyped, RejectionTyped
  <2> QED BY <1>5, <2>1, <2>3, WriteTyped DEF ProposeRejected, MayWrite
<1>6. ASSUME NEW c \in Connections, NEW env \in Envelopes, Refuse(c, env)
      PROVE  RowsTyped'
  <2>1. CASE \E k \in Folded(conn[c]) : Write(c, Rejected(env, k.state.revision), Advanced(k), {})
    <3>1. PICK k \in Folded(conn[c]) : Write(c, Rejected(env, k.state.revision), Advanced(k), {})
      BY <2>1
    <3>2. k \in ConnType /\ k.state.revision \in Nat /\ env \in Envelope
      BY <1>1, FoldedTyped DEF Graph
    <3>3. Rejected(env, k.state.revision) \in Payload /\ Advanced(k) \in ConnType
      BY <3>2, RecordsTyped, MemoryTyped
    <3> QED BY <1>6, <3>1, <3>3, WriteTyped DEF Refuse, MayWrite
  <2>2. CASE Write(c, Rejected(env, 0), Advanced(conn[c]), {})
    <3>1. Rejected(env, 0) \in Payload /\ Advanced(conn[c]) \in ConnType
      BY <1>1, RecordsTyped, MemoryTyped
    <3> QED BY <1>6, <2>2, <3>1, WriteTyped DEF Refuse, MayWrite
  <2> QED BY <1>6, <2>1, <2>2 DEF Refuse
<1>7. ASSUME NEW c \in Connections, Snapshot(c)
      PROVE  RowsTyped'
  <2>1. PICK k \in Folded(conn[c]) : Write(c, Checkpoint(k.state), Advanced(k), {})
    BY <1>7 DEF Snapshot
  <2>2. Checkpoint(k.state) \in Payload /\ Advanced(k) \in ConnType
    BY <1>1, FoldedTyped, RecordsTyped, MemoryTyped
  <2> QED BY <1>7, <2>1, <2>2, WriteTyped DEF Snapshot, MayWrite
<1>8. ASSUME NEW c \in Connections, FoldRaises(c)
      PROVE  RowsTyped'
  <2>1. conn' = [conn EXCEPT ![c] = Raised(conn[c])]
    BY <1>8 DEF FoldRaises
  <2> QED BY <1>1, <1>8, <2>1, MemoryTyped, ReadTyped DEF FoldRaises
<1>9. ASSUME NEW c \in Connections, ReadBegins(c)
      PROVE  RowsTyped'
  <2> DEFINE k == Verified(conn[c])
             m == IF k.broken \/ CacheHit(k) THEN k ELSE [k EXCEPT !.load = MaxSeq]
  <2>1. conn' = [conn EXCEPT ![c] = m]
    BY <1>9 DEF ReadBegins
  <2>2. k \in ConnType
    BY <1>1, VerifiedIs
  <2> HIDE DEF k
  <2>3. m \in ConnType
    BY <2>2, LogTyped DEF ConnType
  <2> QED BY <1>1, <1>9, <2>1, <2>3, ReadTyped DEF ReadBegins
<1>10. ASSUME NEW c \in Connections, ReadEnds(c)
       PROVE  RowsTyped'
  <2> DEFINE k == [conn[c] EXCEPT !.load = Nil]
             f == FoldOf(log)
             m == IF f.ok THEN Loaded(k, conn[c].load) ELSE k
  <2>1. conn' = [conn EXCEPT ![c] = m]
    BY <1>10 DEF ReadEnds
  <2>2. k \in ConnType /\ conn[c].load \in Nat
    BY <1>1, <1>10 DEF ConnType, ReadEnds
  <2>3. f.graph \in Graph /\ f.index \in SUBSET EntryType
    BY LogTyped, FoldTyped DEF FoldType
  <2>4. Loaded(k, conn[c].load) =
           [k EXCEPT !.state = f.graph, !.seq = conn[c].load, !.index = f.index]
    BY DEF Loaded
  <2> HIDE DEF k, f
  <2>5. m \in ConnType
    BY <2>2, <2>3, <2>4 DEF ConnType
  <2> QED BY <1>1, <1>10, <2>1, <2>5, ReadTyped DEF ReadEnds
<1>11. ASSUME NEW c \in Connections, Verify(c)
       PROVE  RowsTyped'
  <2> DEFINE k == [conn[c] EXCEPT !.vseq = 0, !.vhash = Nil]
  <2>1. conn' = [conn EXCEPT ![c] = Verified(k)]
    BY <1>11 DEF Verify
  <2>2. k \in ConnType
    BY <1>1, MemoryTyped
  <2> HIDE DEF k
  <2>3. Verified(k) \in ConnType
    BY <2>2, VerifiedIs
  <2> QED BY <1>1, <1>11, <2>1, <2>3, ReadTyped DEF Verify
<1>12. ASSUME NEW c \in Connections, RecoverScans(c)
       PROVE  RowsTyped'
  <2>1. PICK i \in DOMAIN log : conn' = [conn EXCEPT ![c].scan = log[i].seq]
    BY <1>12 DEF RecoverScans
  <2>2. conn' = [conn EXCEPT ![c] = [conn[c] EXCEPT !.scan = log[i].seq]]
    BY <2>1
  <2>3. [conn[c] EXCEPT !.scan = log[i].seq] \in ConnType
    BY <1>1, LogTyped DEF ConnType
  <2> QED BY <1>1, <1>12, <2>2, <2>3, ReadTyped DEF RecoverScans
<1>13. ASSUME NEW c \in Connections, RecoverTruncates(c)
       PROVE  RowsTyped'
  <2>1. conn[c].scan \in Nat
    BY <1>1 DEF ConnType
  <2>2. PICK m \in 0..Len(log) : RowsBelow(conn[c].scan) = SubSeq(log, 1, m)
    BY <2>1, RowsBelowIs
  <2>3. /\ log' = SubSeq(log, 1, m)
        /\ conn' = [conn EXCEPT ![c] = [Invalidated(conn[c]) EXCEPT
                       !.vseq = 0, !.vhash = Nil, !.broken = FALSE, !.scan = 0]]
        /\ nextSeq' = nextSeq /\ acks' = acks
    BY <1>13, <2>2 DEF RecoverTruncates
  <2>4. conn' \in [Connections -> ConnType]
    BY <1>1, <2>3, MemoryTyped, Untouched DEF RowsTyped, TypeOK
  <2>5. /\ log' \in Seq(JournalRow) /\ DOMAIN log' = 1..m
        /\ \A i \in 1..m : i \in DOMAIN log /\ log'[i] = log[i]
    BY <2>3, LogTyped
  <2>6. LogInv'
    BY <2>5, LogTyped DEF LogInv
  <2> QED BY <2>3, <2>4, <2>5, <2>6 DEF RowsTyped, TypeOK
<1>14. ASSUME NEW c \in Connections, Reopen(c)
       PROVE  RowsTyped'
  BY <1>1, <1>14, ClosedTyped, ReadTyped DEF Reopen
<1>15. CASE UNCHANGED vars
  BY <1>15 DEF vars, RowsTyped, TypeOK, LogInv
<1>16. CASE Next
  BY <1>2, <1>3, <1>4, <1>5, <1>6, <1>7, <1>8, <1>9, <1>10, <1>11, <1>12, <1>13, <1>14, <1>16,
     Zenon DEF Next, Acts
<1> QED BY <1>15, <1>16

-----------------------------------------------------------------------------
(* Steps of the invariant.                                                 *)

LEMMA ConnTyped ==
    ASSUME RowsInv
    PROVE  /\ RowsTyped
           /\ conn \in [Connections -> ConnType]
           /\ \A c \in Connections : conn[c] \in ConnType
           /\ acks \subseteq EntryType /\ Envelopes \subseteq Envelope
  BY JournalAssumption DEF RowsInv, RowsTyped, TypeOK

(* A fold in a write transaction is of a table without a torn row, and is  *)
(* what the rows fold to.                                                  *)
LEMMA FoldedIs ==
    ASSUME RowsInv, NEW k0 \in ConnType, Cursor(k0), Cached(k0), NEW k \in Folded(k0)
    PROVE  /\ Clean(log) /\ Committed = log
           /\ k \in ConnType /\ k.state \in Graph /\ k.scan = k0.scan /\ k.load = k0.load
           /\ k.state = FoldOf(log).graph /\ k.index = FoldOf(log).index
           /\ Cursor(k)
<1> DEFINE v == Verified(k0)
<1>1. RowsTyped
  BY ConnTyped
<1>2. /\ v \in ConnType /\ v.state = k0.state /\ v.seq = k0.seq /\ v.index = k0.index
      /\ Cursor(v) /\ (~v.broken => Clean(log))
  BY <1>1, VerifiedIs
<1>3. ~v.broken
  BY DEF Folded
<1>4. Clean(log) /\ Committed = log
  BY <1>1, <1>2, <1>3, LogTyped, IntactRows DEF Committed
<1>5. k \in ConnType /\ k.state \in Graph /\ k.scan = k0.scan /\ k.load = k0.load
  BY <1>1, FoldedTyped
<1>6. LastSeq(Committed) = MaxSeq
  BY <1>4 DEF LastSeq, MaxSeq
<1>7. ~Overrun
  BY <1>4 DEF Overrun, Clean
<1>8. FoldOf(log) \in FoldType
  BY <1>1, LogTyped, FoldTyped
<1>9. CASE CacheHit(k0) /\ k = v
  <2>1. k.state = FoldOf(log).graph /\ k.index = FoldOf(log).index
    BY <1>2, <1>4, <1>6, <1>7, <1>9 DEF CacheHit, Cached
  <2>2. Cursor(k)
    BY <1>2, <1>9
  <2> QED BY <1>4, <1>5, <2>1, <2>2
<1>10. CASE k = Loaded(v, MaxSeq)
  <2> HIDE DEF v
  <2>1. k = [v EXCEPT !.state = FoldOf(log).graph, !.seq = MaxSeq, !.index = FoldOf(log).index]
    BY <1>10 DEF Loaded
  <2>2. /\ k.state = FoldOf(log).graph /\ k.index = FoldOf(log).index
        /\ k.seq = MaxSeq /\ k.vseq = v.vseq /\ k.load = v.load
    BY <1>2, <2>1 DEF ConnType
  <2>3. Cursor(k)
    BY <1>1, <1>2, <2>2, LogTyped DEF Cursor
  <2> QED BY <1>4, <1>5, <2>2, <2>3
<1> QED BY <1>9, <1>10 DEF Folded

(* A step that leaves the table alone.                                     *)
LEMMA Stays ==
    ASSUME JournalInv, RowsTyped', NEW c \in Connections, NEW k \in ConnType,
           conn' = [conn EXCEPT ![c] = k], UNCHANGED <<log, nextSeq>>,
           Cursor(k), Cached(k), Scans(k),
           \A e \in acks' : Durable(e)
    PROVE  JournalInv'
<1>1. /\ RowsInv /\ ConnInv
      /\ conn'[c] = k /\ \A d \in Connections \ {c} : conn'[d] = conn[d]
  BY ConnTyped, Untouched DEF JournalInv
<1>2. Committed' = Committed
  BY DEF Committed
<1>3. \A e : Durable(e) => Durable(e)'
  BY <1>2 DEF Durable
<1>4. Overrun' <=> Overrun
  BY DEF Overrun
<1>5. ReplayInv'
  <2>1. \A e \in FoldOf(Committed)'.index : Durable(e)'
    BY <1>1, <1>2, <1>3 DEF RowsInv, ReplayInv
  <2> QED BY <1>1, <1>2, <2>1 DEF RowsInv, ReplayInv
<1>6. TailInv'
  BY <1>1, <1>2, <1>4 DEF RowsInv, TailInv
<1>7. \A d \in Connections : Cursor(conn[d])' /\ Scans(conn[d])' /\ Cached(conn[d])'
  <2> TAKE d \in Connections
  <2>1. PICK x : x = conn'[d]
    OBVIOUS
  <2>2. Cursor(x) /\ Scans(x) /\ Cached(x)
    BY <1>1, <2>1 DEF ConnInv
  <2> QED BY <1>2, <1>4, <2>1, <2>2 DEF Cursor, Scans, Cached
<1>8. \A e \in acks' : Durable(e)'
  BY <1>3
<1>9. ConnInv'
  BY <1>7, <1>8 DEF ConnInv
<1> QED BY <1>5, <1>6, <1>9 DEF JournalInv, RowsInv, RowsTyped

(* A step that adds a row.                                                 *)
LEMMA Grows ==
    ASSUME JournalInv, RowsTyped', NEW c \in Connections, Alone(c), NEW k \in ConnType,
           conn' = [conn EXCEPT ![c] = k], k.scan = 0, k.load = Nil,
           NEW p \in Payload, NEW snd \in BOOLEAN, Appends(p, snd), Justified(p),
           Cursor(k)', Cached(k)',
           \A e \in acks' : Durable(e)'
    PROVE  JournalInv'
<1>1. /\ RowsInv /\ ConnInv
      /\ conn'[c] = k /\ \A d \in Connections \ {c} : conn'[d] = conn[d]
      /\ RowsTyped
  BY ConnTyped, Untouched DEF JournalInv
<1>2. ReplayInv' /\ TailInv'
  BY <1>1, RowsGrow
<1>3. /\ Clean(log) /\ snd => Committed' = log' /\ Committed = log /\ LastSeq(Committed)' = nextSeq
      /\ ~(Clean(log) /\ snd) => Committed' = Committed
      /\ \A e : Durable(e) => Durable(e)'
      /\ Overrun => Overrun'
      /\ Initialised(Committed) => Initialised(Committed)'
  BY <1>1, CommittedGrows
<1>4. /\ nextSeq' = nextSeq + 1 /\ nextSeq \in Nat
      /\ DOMAIN log' = 1..(Len(log) + 1) /\ DOMAIN log = 1..Len(log) /\ Len(log) \in Nat
      /\ log'[Len(log) + 1].seq = nextSeq
      /\ \A i \in DOMAIN log : i \in DOMAIN log' /\ log'[i] = log[i]
  <2>1. Row(p, snd) \in JournalRow /\ Row(p, snd).seq = nextSeq
    BY <1>1, CommittedGrows DEF Row
  <2> QED BY <1>1, <2>1, LogTyped DEF Appends
<1>5. /\ \A d \in Connections : conn[d].scan = 0
      /\ \A d \in Connections \ {c} : conn[d].state # Nil => conn[d].seq # nextSeq
  BY <1>4 DEF Alone
<1>6. ASSUME NEW d \in Connections \ {c}
      PROVE  Cursor(conn[d])' /\ Scans(conn[d])' /\ Cached(conn[d])'
  <2>1. PICK x : x = conn[d]
    OBVIOUS
  <2>2. /\ conn'[d] = x /\ Cursor(x) /\ Cached(x) /\ x \in ConnType
        /\ x.scan = 0 /\ (x.state # Nil => x.seq # nextSeq)
    BY <1>1, <1>5, <2>1, ConnTyped DEF ConnInv
  <2>3. x.vseq \in Nat /\ x.seq \in Nat /\ x.load \in Nat \cup {Nil}
    BY <2>2 DEF ConnType
  <2>4. Cursor(x)'
    <3>1. x.vseq < nextSeq' /\ x.seq <= nextSeq' /\ (x.load # Nil => x.load < nextSeq')
      BY <1>4, <2>2, <2>3 DEF Cursor
    <3>2. \A i \in DOMAIN log' : log'[i].seq <= x.vseq => log'[i].sound
      BY <1>4, <2>2, <2>3 DEF Cursor
    <3> QED BY <3>1, <3>2 DEF Cursor
  <2>5. Cached(x)'
    <3>1. CASE ~(Clean(log) /\ snd)
      BY <1>3, <2>2, <3>1 DEF Cached
    <3>2. CASE Clean(log) /\ snd
      <4> SUFFICES ASSUME x.state # Nil,
                          x.seq = LastSeq(Committed)' \/ ~Initialised(Committed)'
                   PROVE  /\ x.state = FoldOf(Committed)'.graph
                          /\ x.index = FoldOf(Committed)'.index
        BY DEF Cached
      <4>1. ~Initialised(Committed) /\ ~Initialised(Committed)'
        BY <1>3, <2>2, <3>2
      <4>2. FoldOf(Committed) = NoFold /\ FoldOf(Committed)' = NoFold
        BY <1>1, <1>2, <4>1 DEF RowsInv, ReplayInv
      <4>3. ~Overrun
        BY <3>2 DEF Overrun, Clean
      <4> QED BY <2>2, <4>1, <4>2, <4>3 DEF Cached
    <3> QED BY <3>1, <3>2
  <2> QED BY <2>2, <2>4, <2>5 DEF Cursor, Scans, Cached
<1>8. ASSUME NEW d \in Connections
      PROVE  Cursor(conn[d])' /\ Scans(conn[d])' /\ Cached(conn[d])'
  <2>1. CASE d = c
    BY <1>1, <2>1 DEF Cursor, Scans, Cached
  <2> QED BY <1>6, <2>1
<1>9. ConnInv'
  BY <1>8 DEF ConnInv
<1> QED BY <1>2, <1>9 DEF JournalInv, RowsInv, RowsTyped

-----------------------------------------------------------------------------
(* The actions.                                                            *)

LEMMA ClosedIs ==
    ASSUME RowsTyped
    PROVE  Cursor(Closed) /\ Cached(Closed) /\ Scans(Closed)
  BY LogTyped DEF Closed, Cursor, Cached, Scans

(* A cursor stays sound as rows are added after it.                        *)
LEMMA CursorGrows ==
    ASSUME RowsInv, NEW p \in Payload, NEW snd \in BOOLEAN, Appends(p, snd),
           NEW k \in ConnType, Cursor(k), NEW m, m.vseq = k.vseq, m.load = Nil,
           m.seq \in {0, k.seq, nextSeq}
    PROVE  Cursor(m)'
<1>1. /\ nextSeq' = nextSeq + 1 /\ nextSeq \in Nat
      /\ DOMAIN log' = 1..(Len(log) + 1) /\ DOMAIN log = 1..Len(log) /\ Len(log) \in Nat
      /\ log'[Len(log) + 1].seq = nextSeq
      /\ \A i \in DOMAIN log : i \in DOMAIN log' /\ log'[i] = log[i]
  <2>1. Row(p, snd) \in JournalRow /\ Row(p, snd).seq = nextSeq
    BY CommittedGrows DEF Row
  <2> QED BY <2>1, ConnTyped, LogTyped DEF Appends
<1>2. k.vseq \in Nat /\ k.seq \in Nat /\ k.vseq < nextSeq /\ k.seq <= nextSeq
  BY DEF ConnType, Cursor
<1>3. \A i \in DOMAIN log' : log'[i].seq <= m.vseq => log'[i].sound
  BY <1>1, <1>2 DEF Cursor
<1>4. m.vseq < nextSeq' /\ m.seq <= nextSeq'
  BY <1>1, <1>2
<1> QED BY <1>3, <1>4 DEF Cursor

LEMMA TearsKeeps ==
    ASSUME JournalInv, RowsTyped', NEW c \in Connections, Alone(c), Idle(c),
           NEW p \in Payload, Justified(p), Tears(c, p)
    PROVE  JournalInv'
<1>1. conn' = [conn EXCEPT ![c] = Closed] /\ Appends(p, FALSE) /\ acks' = acks
  BY DEF Tears, Appends
<1>2. Closed.scan = 0 /\ Closed.load = Nil
  BY DEF Closed
<1>3. (Cursor(Closed) /\ Cached(Closed))'
  <2>1. Cached(Closed)'
    BY DEF Closed, Cached
  <2>2. RowsInv /\ Cursor(Closed) /\ Closed.vseq = 0 /\ Closed.seq = 0
    BY ClosedIs, ConnTyped DEF Closed, JournalInv
  <2>3. Cursor(Closed)'
    BY <1>1, <1>2, <2>2, ClosedTyped, CursorGrows
  <2> QED BY <2>1, <2>3
<1>4. \A e \in acks' : Durable(e)'
  BY <1>1, CommittedGrows DEF JournalInv, ConnInv
<1> QED BY <1>1, <1>2, <1>3, <1>4, ClosedTyped, Grows

(* A COMMIT that fails leaves in memory what was never written.            *)
LEMMA FailsKeeps ==
    ASSUME JournalInv, RowsTyped', NEW c \in Connections, NEW k \in ConnType,
           k.scan = 0, Cursor(k), Cached(k), CommitFails(c, k)
    PROVE  JournalInv'
<1>1. conn' = [conn EXCEPT ![c] = k] /\ UNCHANGED <<log, nextSeq, acks>>
  BY DEF CommitFails
<1>2. Scans(k)
  BY DEF Scans
<1>3. \A e \in acks' : Durable(e)
  BY <1>1 DEF JournalInv, ConnInv
<1> QED BY <1>1, <1>2, <1>3, Stays

(* The number of the next row is that of no row.                           *)
LEMMA LastRowBelow ==
    ASSUME RowsInv
    PROVE  LastSeq(Committed) \in Nat /\ LastSeq(Committed) < nextSeq
<1>1. /\ log \in Seq(JournalRow) /\ nextSeq \in Nat /\ nextSeq >= 1
      /\ \A i \in DOMAIN log : log[i].seq \in Nat /\ log[i].seq < nextSeq
  BY ConnTyped, LogTyped
<1>2. /\ Committed \in Seq(JournalRow) /\ Len(Committed) <= Len(log)
      /\ \A i \in 1..Len(Committed) : Committed[i] = log[i]
  BY <1>1, IntactRows DEF Committed
<1>3. CASE Committed = <<>>
  BY <1>1, <1>3 DEF LastSeq
<1>4. CASE Committed # <<>>
  <2>1. Len(Committed) \in 1..Len(Committed) /\ Len(Committed) \in DOMAIN log
    BY <1>1, <1>2, <1>4
  <2> QED BY <1>1, <1>2, <1>4, <2>1 DEF LastSeq
<1> QED BY <1>3, <1>4

LEMMA MemoryIs ==
    ASSUME RowsTyped, NEW k \in ConnType
    PROVE  /\ Advanced(k).state = k.state /\ Advanced(k).index = k.index
           /\ Advanced(k).vseq = k.vseq /\ Advanced(k).scan = k.scan /\ Advanced(k).load = k.load
           /\ Advanced(k).seq \in {k.seq, nextSeq}
           /\ Invalidated(k).state = Nil /\ Invalidated(k).index = {} /\ Invalidated(k).seq = 0
           /\ Invalidated(k).vseq = k.vseq
           /\ Invalidated(k).scan = k.scan /\ Invalidated(k).load = k.load
  BY DEF Advanced, Invalidated, ConnType

(* A record that changes nothing, written by a connection that knew what   *)
(* the table says.                                                         *)
LEMMA RecordKeeps ==
    ASSUME JournalInv, RowsTyped', NEW c \in Connections, Alone(c), Idle(c),
           NEW p \in Payload, p.type \in {"rejected", "snapshot"}, Justified(p),
           NEW k \in ConnType, Cursor(k), k.scan = 0, k.load = Nil,
           k.state # Nil => \/ Overrun
                            \/ /\ k.state = FoldOf(Committed).graph
                               /\ k.index = FoldOf(Committed).index,
           NEW m \in ConnType, m.state = Advanced(k).state, m.index = Advanced(k).index,
           m.seq = Advanced(k).seq, m.vseq = Advanced(k).vseq,
           m.scan = Advanced(k).scan, m.load = Advanced(k).load,
           Write(c, p, m, {})
    PROVE  JournalInv'
<1>1. CASE Tears(c, p)
  BY <1>1, TearsKeeps
<1>2. CASE Commits(c, p, m, {})
  <2>1. conn' = [conn EXCEPT ![c] = m] /\ Appends(p, TRUE) /\ acks' = acks
    BY <1>2 DEF Commits, Appends
  <2>2. RowsInv /\ RowsTyped /\ conn \in [Connections -> ConnType]
    BY ConnTyped DEF JournalInv
  <2>3. /\ m.state = k.state /\ m.index = k.index /\ m.vseq = k.vseq
        /\ m.scan = 0 /\ m.load = Nil /\ m.seq \in {k.seq, nextSeq}
    BY <2>2, MemoryIs
  <2>4. Cursor(m)'
    BY <2>1, <2>2, <2>3, CursorGrows
  <2>6. Overrun => Overrun'
    BY <2>1, <2>2, CommittedGrows
  <2>7. FoldOf(Committed)' = FoldOf(Committed)
    BY <2>1, <2>2, ReplayKept
  <2>8. Cached(m)'
    BY <2>3, <2>6, <2>7 DEF Cached
  <2>9. \A e \in acks' : Durable(e)'
    BY <2>1, <2>2, CommittedGrows DEF JournalInv, ConnInv
  <2> QED BY <2>1, <2>3, <2>4, <2>8, <2>9, Grows
<1>3. CASE CommitFails(c, m)
  <2>1. RowsInv /\ RowsTyped /\ nextSeq \in Nat
    BY ConnTyped, LogTyped DEF JournalInv
  <2>2. /\ m.state = k.state /\ m.index = k.index /\ m.vseq = k.vseq
        /\ m.scan = 0 /\ m.load = Nil /\ m.seq \in {k.seq, nextSeq}
    BY <2>1, MemoryIs
  <2>3. Cursor(m)
    BY <2>1, <2>2 DEF Cursor
  <2>4. Cached(m)
    BY <2>2 DEF Cached
  <2> QED BY <1>3, <2>2, <2>3, <2>4, FailsKeeps
<1> QED BY <1>1, <1>2, <1>3 DEF Write

LEMMA RejectionJustified ==
    \A env, n : Justified(Rejected(env, n)) /\ Rejected(env, n).type = "rejected"
  BY DEF Justified, Rejected

(* What the invariant says of the connection that takes a step.            *)
LEMMA ConnIs ==
    ASSUME JournalInv, NEW c \in Connections
    PROVE  /\ RowsInv /\ RowsTyped /\ conn[c] \in ConnType
           /\ Cursor(conn[c]) /\ Scans(conn[c]) /\ Cached(conn[c])
           /\ \A e \in acks : Durable(e)
  BY ConnTyped DEF JournalInv, ConnInv

LEMMA ConnFolded ==
    ASSUME JournalInv, NEW c \in Connections, Idle(c), NEW k \in Folded(conn[c])
    PROVE  /\ Clean(log) /\ Committed = log
           /\ k \in ConnType /\ k.state \in Graph /\ k.scan = 0 /\ k.load = Nil
           /\ k.state = FoldOf(log).graph /\ k.index = FoldOf(log).index
           /\ Cursor(k)
  BY ConnIs, FoldedIs DEF Idle

LEMMA InitGraphKeeps ==
    ASSUME JournalInv, RowsTyped', NEW c \in Connections, Alone(c), NEW id \in GraphIds,
           InitGraph(c, id)
    PROVE  JournalInv'
<1> DEFINE p == InitEvent(id)
           k == Invalidated(conn[c])
<1>1. Idle(c) /\ Write(c, p, k, {}) /\ p \in Payload
  BY RecordsTyped DEF InitGraph, MayWrite
<1>2. Justified(p)
  <2>1. p.type = "init"
    BY DEF InitEvent
  <2>2. ~Initialised(log)
    BY DEF InitGraph, HasInit, Initialised
  <2> HIDE DEF p
  <2> QED BY <2>1, <2>2 DEF Justified
<1> HIDE DEF p
<1>3. CASE Tears(c, p)
  BY <1>1, <1>2, <1>3, TearsKeeps
<1>4. CASE Commits(c, p, k, {})
  <2>1. conn' = [conn EXCEPT ![c] = k] /\ Appends(p, TRUE) /\ acks' = acks
    BY <1>4 DEF Commits, Appends
  <2>2. /\ k \in ConnType /\ k.state = Nil /\ k.index = {} /\ k.seq = 0
        /\ k.vseq = conn[c].vseq /\ k.scan = 0 /\ k.load = Nil
    BY <1>1, ConnIs, MemoryIs, MemoryTyped DEF Idle
  <2> HIDE DEF k
  <2>3. \A m : m = k => Cursor(m)'
    BY <1>1, <2>1, <2>2, ConnIs, CursorGrows
  <2>4. \A m : m = k => Cached(m)'
    BY <2>2 DEF Cached
  <2>5. \A e \in acks' : Durable(e)'
    BY <1>1, <2>1, ConnIs, CommittedGrows
  <2> QED BY <1>1, <1>2, <2>1, <2>2, <2>3, <2>4, <2>5, Grows
<1>5. CASE CommitFails(c, k)
  <2>1. /\ k \in ConnType /\ k.state = Nil /\ k.seq = 0
        /\ k.vseq = conn[c].vseq /\ k.scan = 0 /\ k.load = Nil
    BY <1>1, ConnIs, MemoryIs, MemoryTyped DEF Idle
  <2> HIDE DEF k
  <2>2. Cursor(k) /\ Cached(k)
    BY <2>1, ConnIs, LogTyped DEF Cursor, Cached
  <2> QED BY <1>5, <2>1, <2>2, FailsKeeps
<1> QED BY <1>1, <1>3, <1>4, <1>5 DEF Write

LEMMA AcceptedKeeps ==
    ASSUME JournalInv, RowsTyped', NEW c \in Connections, Alone(c), NEW env \in Envelopes,
           ProposeAccepted(c, env)
    PROVE  JournalInv'
<1>1. PICK k \in Folded(conn[c]) :
         /\ Accepts(k, env)
         /\ Write(c, Accepted(env, Result(k.state, env)), AcceptedMemory(k, env),
                  {Entry(env, nextSeq, Result(k.state, env).revision)})
  BY Zenon DEF ProposeAccepted, AcceptedMemory
<1> DEFINE next == Result(k.state, env)
           p == Accepted(env, next)
           m == AcceptedMemory(k, env)
           entry == Entry(env, nextSeq, next.revision)
<1>2. Idle(c) /\ env \in Envelope
  BY JournalAssumption DEF ProposeAccepted, MayWrite
<1>3. /\ Clean(log) /\ Committed = log
      /\ k \in ConnType /\ k.state \in Graph /\ k.scan = 0 /\ k.load = Nil
      /\ k.state = FoldOf(log).graph /\ k.index = FoldOf(log).index
      /\ Cursor(k)
  BY <1>2, ConnFolded
<1>4. RowsInv /\ RowsTyped /\ conn[c] \in ConnType /\ \A e \in acks : Durable(e)
  BY ConnIs
<1>5. /\ next \in Graph /\ m \in ConnType
      /\ m.state = next /\ m.seq = nextSeq /\ m.index = Reindex(k.index, entry)
      /\ m.vseq = k.vseq /\ m.scan = 0 /\ m.load = Nil
  BY <1>2, <1>3, <1>4, AcceptanceTyped
<1>6. p \in Payload /\ p.type = "accepted" /\ p.env = env /\ p.after = next
  BY <1>2, <1>5, RecordsTyped DEF Accepted
<1>7. /\ k.state.id # Nil
      /\ MutationValid(k.state, env)
  BY <1>1 DEF Accepts, ValidFor
<1> HIDE DEF m
<1>8. Justified(p)
  <2> HIDE DEF p
  <2> QED BY <1>3, <1>6, <1>7 DEF Justified
<1>9. CASE Tears(c, p)
  BY <1>2, <1>6, <1>8, <1>9, TearsKeeps
<1>10. CASE Commits(c, p, m, {entry})
  <2> HIDE DEF p
  <2>1. conn' = [conn EXCEPT ![c] = m] /\ Appends(p, TRUE) /\ acks' = acks \cup {entry}
    BY <1>10 DEF Commits, Appends
  <2>2. /\ ReplayInv'
        /\ FoldOf(Committed)'.graph = p.after
        /\ FoldOf(Committed)'.index =
              Reindex(FoldOf(log).index, Entry(p.env, nextSeq, p.after.revision))
        /\ \A e : e = Entry(p.env, nextSeq, p.after.revision) => Durable(e)'
    BY <1>3, <1>4, <1>6, <1>8, <2>1, ReplayExtends
  <2>3. m.state = FoldOf(Committed)'.graph /\ m.index = FoldOf(Committed)'.index
    BY <1>3, <1>5, <1>6, <2>2
  <2>4. \A x : x = m => Cursor(x)'
    BY <1>3, <1>4, <1>5, <1>6, <2>1, CursorGrows
  <2>6. \A x : x = m => Cached(x)'
    BY <2>3 DEF Cached
  <2>7. \A e \in acks' : Durable(e)'
    <3>1. \A e : Durable(e) => Durable(e)'
      BY <1>4, <1>6, <2>1, CommittedGrows
    <3> QED BY <1>4, <1>6, <2>1, <2>2, <3>1
  <2> QED BY <1>2, <1>5, <1>6, <1>8, <2>1, <2>4, <2>6, <2>7, Grows
<1>11. CASE CommitFails(c, m)
  <2>1. nextSeq \in Nat /\ LastSeq(Committed) < nextSeq /\ LastSeq(Committed) \in Nat
    BY <1>4, LastRowBelow, LogTyped
  <2>2. Cursor(m)
    BY <1>3, <1>5, <2>1 DEF Cursor
  <2>3. Initialised(Committed)
    <3>1. FoldOf(Committed) # NoFold
      BY <1>3, <1>7, EmptyGraphFacts DEF NoFold
    <3> QED BY <1>4, <3>1 DEF RowsInv, ReplayInv
  <2>4. Cached(m)
    BY <1>5, <2>1, <2>3 DEF Cached
  <2> QED BY <1>5, <1>11, <2>2, <2>4, FailsKeeps
<1> QED BY <1>1, <1>9, <1>10, <1>11 DEF m, Write

LEMMA RepeatedKeeps ==
    ASSUME JournalInv, RowsTyped', NEW c \in Connections, NEW env \in Envelopes,
           ProposeRepeated(c, env)
    PROVE  JournalInv'
<1>1. PICK k \in Folded(conn[c]) :
         /\ \E e \in Prior(k, env) : acks' = acks \cup {e}
         /\ conn' = [conn EXCEPT ![c] = k]
  BY DEF ProposeRepeated
<1>2. Idle(c) /\ UNCHANGED <<log, nextSeq>>
  BY DEF ProposeRepeated
<1>3. /\ Clean(log) /\ Committed = log
      /\ k \in ConnType /\ k.scan = 0 /\ k.load = Nil
      /\ k.state = FoldOf(log).graph /\ k.index = FoldOf(log).index
      /\ Cursor(k)
  BY <1>2, ConnFolded
<1>4. \A e \in acks' : Durable(e)
  BY <1>1, <1>3, ConnIs DEF Prior, RowsInv, ReplayInv
<1>5. Cached(k) /\ Scans(k)
  BY <1>3 DEF Cached, Scans
<1> QED BY <1>1, <1>2, <1>3, <1>4, <1>5, Stays

LEMMA RejectedKeeps ==
    ASSUME JournalInv, RowsTyped', NEW c \in Connections, Alone(c), NEW env \in Envelopes,
           ProposeRejected(c, env)
    PROVE  JournalInv'
<1>1. PICK k \in Folded(conn[c]) :
         Write(c, Rejected(env, k.state.revision), RejectedMemory(k, env), {})
  BY Zenon DEF ProposeRejected, RejectedMemory
<1> DEFINE p == Rejected(env, k.state.revision)
           m == RejectedMemory(k, env)
<1>2. Idle(c) /\ env \in Envelope /\ RowsTyped
  BY JournalAssumption, ConnIs DEF ProposeRejected, MayWrite
<1>3. /\ Committed = log
      /\ k \in ConnType /\ k.state \in Graph /\ k.scan = 0 /\ k.load = Nil
      /\ k.state = FoldOf(log).graph /\ k.index = FoldOf(log).index
      /\ Cursor(k)
  BY <1>2, ConnFolded
<1>4. k.state.revision \in Nat
  BY <1>3 DEF Graph
<1>5. p \in Payload /\ Justified(p) /\ p.type = "rejected"
  BY <1>2, <1>4, RecordsTyped, RejectionJustified
<1>6. /\ m \in ConnType /\ m.state = Advanced(k).state /\ m.index = Advanced(k).index
      /\ m.seq = Advanced(k).seq /\ m.vseq = Advanced(k).vseq
      /\ m.scan = Advanced(k).scan /\ m.load = Advanced(k).load
  BY <1>2, <1>3, RejectionTyped
<1> HIDE DEF p, m
<1>7. Write(c, p, m, {})
  BY <1>1 DEF p, m
<1> QED BY <1>2, <1>3, <1>5, <1>6, <1>7, RecordKeeps

LEMMA RefuseKeeps ==
    ASSUME JournalInv, RowsTyped', NEW c \in Connections, Alone(c), NEW env \in Envelopes,
           Refuse(c, env)
    PROVE  JournalInv'
<1>1. Idle(c) /\ env \in Envelope /\ RowsTyped /\ RowsInv
  BY JournalAssumption, ConnIs DEF Refuse, MayWrite
<1>2. CASE HasInit /\ \E k \in Folded(conn[c]) :
                         Write(c, Rejected(env, k.state.revision), Advanced(k), {})
  <2>1. PICK k \in Folded(conn[c]) : Write(c, Rejected(env, k.state.revision), Advanced(k), {})
    BY <1>2
  <2> DEFINE p == Rejected(env, k.state.revision)
             m == Advanced(k)
  <2>2. /\ Committed = log
        /\ k \in ConnType /\ k.state \in Graph /\ k.scan = 0 /\ k.load = Nil
        /\ k.state = FoldOf(log).graph /\ k.index = FoldOf(log).index
        /\ Cursor(k)
    BY <1>1, ConnFolded
  <2>3. k.state.revision \in Nat
    BY <2>2 DEF Graph
  <2>4. p \in Payload /\ Justified(p) /\ p.type = "rejected"
    BY <1>1, <2>3, RecordsTyped, RejectionJustified
  <2>5. m \in ConnType
    BY <1>1, <2>2, MemoryTyped
  <2> HIDE DEF p
  <2>6. Write(c, p, m, {})
    BY <2>1 DEF p
  <2> QED BY <1>1, <2>2, <2>4, <2>5, <2>6, RecordKeeps
<1>3. CASE ~HasInit /\ Write(c, Rejected(env, 0), Advanced(conn[c]), {})
  <2> DEFINE p == Rejected(env, 0)
             k == conn[c]
             m == Advanced(k)
  <2>1. k \in ConnType /\ k.scan = 0 /\ k.load = Nil /\ Cursor(k) /\ Cached(k)
    BY <1>1, ConnIs DEF Idle
  <2>2. p \in Payload /\ Justified(p) /\ p.type = "rejected"
    BY <1>1, RecordsTyped, RejectionJustified
  <2>3. m \in ConnType
    BY <1>1, <2>1, MemoryTyped
  <2>4. ~Initialised(Committed)
    <3>1. \A i \in DOMAIN Committed : i \in DOMAIN log /\ Committed[i] = log[i]
      BY <1>1, LogTyped, IntactRows DEF Committed
    <3> QED BY <1>3, <3>1 DEF Initialised, HasInit
  <2>5. k.state # Nil => \/ Overrun
                         \/ /\ k.state = FoldOf(Committed).graph
                            /\ k.index = FoldOf(Committed).index
    BY <2>1, <2>4 DEF Cached
  <2> HIDE DEF p
  <2>6. Write(c, p, m, {})
    BY <1>3 DEF p
  <2> HIDE DEF k
  <2> QED BY <1>1, <2>1, <2>2, <2>3, <2>5, <2>6, RecordKeeps
<1> QED BY <1>2, <1>3 DEF Refuse

LEMMA SnapshotKeeps ==
    ASSUME JournalInv, RowsTyped', NEW c \in Connections, Alone(c), Snapshot(c)
    PROVE  JournalInv'
<1>1. PICK k \in Folded(conn[c]) : k.state.id # Nil /\ Write(c, Checkpoint(k.state), Advanced(k), {})
  BY DEF Snapshot
<1> DEFINE p == Checkpoint(k.state)
           m == Advanced(k)
<1>2. Idle(c) /\ RowsTyped
  BY ConnIs DEF Snapshot, MayWrite
<1>3. /\ Committed = log /\ Clean(log)
      /\ k \in ConnType /\ k.state \in Graph /\ k.scan = 0 /\ k.load = Nil
      /\ k.state = FoldOf(log).graph /\ k.index = FoldOf(log).index
      /\ Cursor(k)
  BY <1>2, ConnFolded
<1>4. p \in Payload /\ p.type = "snapshot" /\ p.graph = k.state
  BY <1>3, RecordsTyped DEF Checkpoint
<1>5. m \in ConnType
  BY <1>2, <1>3, MemoryTyped
<1> HIDE DEF p
<1>6. Justified(p)
  BY <1>1, <1>3, <1>4 DEF Justified
<1>7. Write(c, p, m, {})
  BY <1>1 DEF p
<1> QED BY <1>2, <1>3, <1>4, <1>5, <1>6, <1>7, RecordKeeps

LEMMA RaisesKeeps ==
    ASSUME JournalInv, RowsTyped', NEW c \in Connections, FoldRaises(c)
    PROVE  JournalInv'
<1> DEFINE k == Raised(conn[c])
<1>1. Idle(c) /\ conn' = [conn EXCEPT ![c] = k] /\ UNCHANGED <<log, nextSeq, acks>>
  BY DEF FoldRaises
<1>2. /\ k \in ConnType /\ k.state = conn[c].state /\ k.seq = conn[c].seq
      /\ k.index = conn[c].index /\ k.scan = 0 /\ k.load = Nil /\ Cursor(k)
  BY <1>1, ConnIs, VerifiedIs DEF Raised, Idle
<1> HIDE DEF k
<1>3. Cached(k) /\ Scans(k)
  BY <1>2, ConnIs DEF Cached, Scans
<1>4. \A e \in acks' : Durable(e)
  BY <1>1, ConnIs
<1> QED BY <1>1, <1>2, <1>3, <1>4, Stays

LEMMA ReadBeginsKeeps ==
    ASSUME JournalInv, RowsTyped', NEW c \in Connections, ReadBegins(c)
    PROVE  JournalInv'
<1> DEFINE v == Verified(conn[c])
           k == IF v.broken \/ CacheHit(v) THEN v ELSE [v EXCEPT !.load = MaxSeq]
<1>1. Idle(c) /\ conn' = [conn EXCEPT ![c] = k] /\ UNCHANGED <<log, nextSeq, acks>>
  BY DEF ReadBegins
<1>2. /\ v \in ConnType /\ v.state = conn[c].state /\ v.seq = conn[c].seq
      /\ v.index = conn[c].index /\ v.scan = 0 /\ v.load = Nil /\ Cursor(v)
      /\ (~v.broken => Clean(log))
  BY <1>1, ConnIs, VerifiedIs DEF Idle
<1> HIDE DEF v
<1>3. /\ k \in ConnType /\ k.state = conn[c].state /\ k.seq = conn[c].seq
      /\ k.index = conn[c].index /\ k.scan = 0 /\ k.vseq = v.vseq
      /\ k.load = Nil \/ (k.load = MaxSeq /\ Clean(log))
  BY <1>2, ConnIs, LogTyped DEF ConnType
<1> HIDE DEF k
<1>4. Cursor(k)
  BY <1>2, <1>3, ConnIs, LogTyped DEF Cursor
<1>5. Cached(k) /\ Scans(k)
  BY <1>3, ConnIs DEF Cached, Scans
<1>6. \A e \in acks' : Durable(e)
  BY <1>1, ConnIs
<1> QED BY <1>1, <1>3, <1>4, <1>5, <1>6, Stays

LEMMA ReadEndsKeeps ==
    ASSUME JournalInv, RowsTyped', NEW c \in Connections, ReadEnds(c)
    PROVE  JournalInv'
<1> DEFINE v == [conn[c] EXCEPT !.load = Nil]
           f == FoldOf(log)
           k == IF f.ok THEN Loaded(v, conn[c].load) ELSE v
<1>1. conn[c].load # Nil /\ conn' = [conn EXCEPT ![c] = k] /\ UNCHANGED <<log, nextSeq, acks>>
  BY DEF ReadEnds
<1>2. /\ v \in ConnType /\ v.state = conn[c].state /\ v.seq = conn[c].seq
      /\ v.index = conn[c].index /\ v.scan = conn[c].scan /\ v.load = Nil
      /\ v.vseq = conn[c].vseq /\ conn[c].load \in Nat
  BY <1>1, ConnIs DEF ConnType
<1>3. conn[c].scan = 0
  BY <1>1, ConnIs DEF Scans
<1>4. f \in FoldType
  BY ConnIs, LogTyped, FoldTyped
<1>5. Loaded(v, conn[c].load) =
         [v EXCEPT !.state = f.graph, !.seq = conn[c].load, !.index = f.index]
  BY DEF Loaded
<1> HIDE DEF v
<1>6. /\ k \in ConnType /\ k.scan = 0 /\ k.load = Nil /\ k.vseq = conn[c].vseq
      /\ \/ k.state = conn[c].state /\ k.seq = conn[c].seq /\ k.index = conn[c].index
         \/ /\ f.ok /\ k.state = f.graph /\ k.seq = conn[c].load /\ k.index = f.index
  BY <1>2, <1>3, <1>4, <1>5 DEF ConnType, FoldType
<1> HIDE DEF k
<1>7. Cursor(k)
  <2>1. nextSeq \in Nat /\ Cursor(conn[c])
    BY ConnIs, LogTyped
  <2> QED BY <1>1, <1>2, <1>6, <2>1 DEF Cursor
<1>8. f.ok => /\ f.index = FoldOf(Committed).index
              /\ f.graph = FoldOf(Committed).graph \/ Overrun
  BY ConnIs DEF RowsInv, TailInv
<1>9. Cached(k)
  BY <1>6, <1>8, ConnIs DEF Cached
<1>10. \A e \in acks' : Durable(e)
  BY <1>1, ConnIs
<1>11. Scans(k)
  BY <1>6 DEF Scans
<1> QED BY <1>1, <1>6, <1>7, <1>9, <1>10, <1>11, Stays

LEMMA VerifyKeeps ==
    ASSUME JournalInv, RowsTyped', NEW c \in Connections, Verify(c)
    PROVE  JournalInv'
<1> DEFINE v == [conn[c] EXCEPT !.vseq = 0, !.vhash = Nil]
           k == Verified(v)
<1>1. Idle(c) /\ conn' = [conn EXCEPT ![c] = k] /\ UNCHANGED <<log, nextSeq, acks>>
  BY DEF Verify
<1>2. /\ v \in ConnType /\ v.state = conn[c].state /\ v.seq = conn[c].seq
      /\ v.index = conn[c].index /\ v.scan = 0 /\ v.load = Nil /\ v.vseq = 0
  BY <1>1, ConnIs DEF ConnType, Idle
<1>3. Cursor(v)
  BY <1>2, ConnIs, LogTyped DEF Cursor
<1> HIDE DEF v
<1>4. /\ k \in ConnType /\ k.state = conn[c].state /\ k.seq = conn[c].seq
      /\ k.index = conn[c].index /\ k.scan = 0 /\ k.load = Nil /\ Cursor(k)
  BY <1>2, <1>3, ConnIs, VerifiedIs
<1> HIDE DEF k
<1>5. Cached(k) /\ Scans(k)
  BY <1>4, ConnIs DEF Cached, Scans
<1>6. \A e \in acks' : Durable(e)
  BY <1>1, ConnIs
<1> QED BY <1>1, <1>4, <1>5, <1>6, Stays

LEMMA RecoverScansKeeps ==
    ASSUME JournalInv, RowsTyped', NEW c \in Connections, RecoverScans(c)
    PROVE  JournalInv'
<1>1. PICK i \in DOMAIN log : /\ FirstBad(i) /\ ~Refused(i)
                              /\ conn' = [conn EXCEPT ![c].scan = log[i].seq]
  BY DEF RecoverScans
<1> DEFINE k == [conn[c] EXCEPT !.scan = log[i].seq]
<1>2. Idle(c) /\ c \in Recoverers /\ UNCHANGED <<log, nextSeq, acks>>
  BY DEF RecoverScans
<1>3. conn' = [conn EXCEPT ![c] = k]
  BY <1>1
<1>4. /\ k \in ConnType /\ k.state = conn[c].state /\ k.seq = conn[c].seq
      /\ k.index = conn[c].index /\ k.scan = log[i].seq /\ k.load = Nil
      /\ k.vseq = conn[c].vseq
  BY <1>2, ConnIs, LogTyped DEF ConnType, Idle
<1> HIDE DEF k
<1>5. Cursor(k) /\ Cached(k)
  BY <1>4, ConnIs DEF Cursor, Cached
<1>6. Scans(k)
  <2>0. DOMAIN log = 1..Len(log) /\ Len(log) \in Nat
    BY ConnIs, LogTyped
  <2>1. /\ \A j \in DOMAIN log : j < i => log[j].sound /\ log[j].seq < log[i].seq
        /\ \A j \in DOMAIN log : i < j => ~log[j].sound /\ log[i].seq < log[j].seq
        /\ ~log[i].sound
    <3>1. /\ \A j \in DOMAIN log : j < i => j \in 1..(i-1)
          /\ \A j \in DOMAIN log : i < j => j \in (i+1)..Len(log)
      BY <2>0
    <3>2. /\ \A j \in 1..(i-1) : log[j].sound
          /\ \A j \in (i+1)..Len(log) : ~log[j].sound
          /\ ~log[i].sound
      BY <1>1 DEF FirstBad, Refused
    <3>3. \A j, h \in DOMAIN log : j < h => log[j].seq < log[h].seq
      BY ConnIs, LogTyped
    <3>4. \A j \in DOMAIN log : j < i => log[j].sound /\ log[j].seq < log[i].seq
      BY <3>1, <3>2, <3>3, Zenon
    <3>5. \A j \in DOMAIN log : i < j => ~log[j].sound /\ log[i].seq < log[j].seq
      BY <3>1, <3>2, <3>3
    <3> QED BY <3>2, <3>4, <3>5
  <2>2. \A j \in DOMAIN log : log[j].seq \in Nat /\ (j < i \/ j = i \/ i < j)
    BY ConnIs, LogTyped
  <2> QED BY <1>4, <2>1, <2>2 DEF Scans
<1>7. \A e \in acks' : Durable(e)
  BY <1>2, ConnIs
<1> QED BY <1>2, <1>3, <1>4, <1>5, <1>6, <1>7, Stays

(* What a recovery leaves of the table is what counted of it.              *)
LEMMA TruncatedIs ==
    ASSUME JournalInv, NEW c \in Connections, conn[c].scan # 0
    PROVE  RowsBelow(conn[c].scan) = Committed
<1>1. \A i \in DOMAIN log : log[i].sound <=> log[i].seq < conn[c].scan
  BY ConnIs DEF Scans
<1>2. conn[c].scan \in Nat
  BY ConnIs DEF ConnType
<1>3. PICK m \in 0..Len(log) : /\ RowsBelow(conn[c].scan) = SubSeq(log, 1, m)
                               /\ \A j \in DOMAIN log : j <= m <=> log[j].seq < conn[c].scan
  BY <1>2, ConnIs, RowsBelowIs
<1>4. TornAfter(log, m)
  <2>1. /\ \A i \in 1..m : i \in DOMAIN log /\ i <= m
        /\ m < Len(log) => m + 1 \in DOMAIN log /\ ~(m + 1 <= m)
    BY ConnIs, LogTyped
  <2> QED BY <1>1, <1>3, <2>1 DEF TornAfter
<1>5. Intact(log) = SubSeq(log, 1, m)
  BY <1>4, ConnIs, LogTyped, IntactAt
<1> QED BY <1>3, <1>5 DEF Committed

LEMMA RecoverTruncatesKeeps ==
    ASSUME JournalInv, RowsTyped', NEW c \in Connections, RecoverTruncates(c)
    PROVE  JournalInv'
<1> DEFINE k == [Invalidated(conn[c]) EXCEPT !.vseq = 0, !.vhash = Nil, !.broken = FALSE, !.scan = 0]
<1>1. /\ conn[c].scan # 0 /\ log' = RowsBelow(conn[c].scan)
      /\ conn' = [conn EXCEPT ![c] = k] /\ nextSeq' = nextSeq /\ acks' = acks
  BY DEF RecoverTruncates
<1>2. log' = Committed
  BY <1>1, TruncatedIs
<1>3. /\ RowsInv /\ ConnInv /\ RowsTyped /\ conn \in [Connections -> ConnType]
      /\ log \in Seq(JournalRow) /\ nextSeq >= 1 /\ nextSeq \in Nat
  BY ConnTyped, LogTyped DEF JournalInv
<1>4. Committed' = Committed /\ Clean(log)'
  BY <1>2, <1>3, IntactOfIntact DEF Committed
<1>5. conn'[c] = k /\ \A d \in Connections \ {c} : conn'[d] = conn[d]
  BY <1>1, <1>3, Untouched
<1>6. /\ k.state = Nil /\ k.seq = 0 /\ k.index = {} /\ k.vseq = 0
      /\ k.scan = 0 /\ k.load = Nil
  <2>1. Invalidated(conn[c]) \in ConnType
    BY ConnIs, MemoryTyped
  <2>2. conn[c].load = Nil
    BY <1>1, ConnIs DEF Scans
  <2>3. /\ Invalidated(conn[c]).state = Nil /\ Invalidated(conn[c]).seq = 0
        /\ Invalidated(conn[c]).index = {} /\ Invalidated(conn[c]).load = Nil
    BY <2>2, ConnIs, MemoryIs
  <2> QED BY <2>1, <2>3 DEF ConnType
<1> HIDE DEF k
<1>7. \A e : Durable(e) => Durable(e)'
  BY <1>4 DEF Durable
<1>8. ReplayInv'
  <2>1. \A e \in FoldOf(Committed)'.index : Durable(e)'
    BY <1>3, <1>4, <1>7 DEF RowsInv, ReplayInv
  <2> QED BY <1>1, <1>3, <1>4, <2>1 DEF RowsInv, ReplayInv
<1>9. TailInv'
  BY <1>2, <1>4 DEF TailInv
<1>10. Overrun => Overrun'
  <2>1. \A i, j \in DOMAIN log : log[i].seq \in Nat /\ (i < j => log[i].seq < log[j].seq)
    BY <1>3, LogTyped
  <2>2. \A i \in DOMAIN log : log[i].sound <=> log[i].seq < conn[c].scan
    BY <1>1, ConnIs DEF Scans
  <2>3. conn[c].scan \in Nat
    BY ConnIs DEF ConnType
  <2> QED BY <2>1, <2>2, <2>3 DEF Overrun
<1>11. \A i \in DOMAIN Committed : i \in DOMAIN log /\ Committed[i] = log[i] /\ log[i].sound
  BY <1>3, IntactRows, LogTyped DEF Committed
<1>12. ASSUME NEW d \in Connections \ {c}
       PROVE  Cursor(conn[d])' /\ Scans(conn[d])' /\ Cached(conn[d])'
  <2>1. PICK x : x = conn[d]
    OBVIOUS
  <2>2. conn'[d] = x /\ Cursor(x) /\ Scans(x) /\ Cached(x)
    BY <1>5, <2>1, ConnIs
  <2>3. Cursor(x)'
    BY <1>1, <1>2, <1>11, <2>2 DEF Cursor
  <2>4. Scans(x)'
    BY <1>2, <1>11, <2>2 DEF Scans
  <2>5. Cached(x)'
    BY <1>4, <1>10, <2>2 DEF Cached
  <2> QED BY <2>2, <2>3, <2>4, <2>5 DEF Cursor, Scans, Cached
<1>13. Cursor(conn[c])' /\ Scans(conn[c])' /\ Cached(conn[c])'
  <2>1. \A i \in DOMAIN log' : log'[i].seq >= 1 /\ log'[i].seq \in Nat
    BY <1>2, <1>3, <1>11, LogTyped
  <2>2. Cursor(conn[c])'
    BY <1>1, <1>3, <1>5, <1>6, <2>1 DEF Cursor
  <2> QED BY <1>5, <1>6, <2>2 DEF Scans, Cached
<1>14. \A e \in acks' : Durable(e)'
  BY <1>1, <1>7, ConnIs
<1>15. ConnInv'
  BY <1>12, <1>13, <1>14 DEF ConnInv
<1> QED BY <1>8, <1>9, <1>15 DEF JournalInv, RowsInv, RowsTyped

LEMMA ReopenKeeps ==
    ASSUME JournalInv, RowsTyped', NEW c \in Connections, Reopen(c)
    PROVE  JournalInv'
<1>1. conn' = [conn EXCEPT ![c] = Closed] /\ UNCHANGED <<log, nextSeq, acks>>
  BY DEF Reopen
<1>2. Closed.scan = 0 /\ Closed.load = Nil
  BY DEF Closed
<1>3. Cursor(Closed) /\ Cached(Closed) /\ Scans(Closed)
  BY ConnIs, ClosedIs
<1>4. \A e \in acks' : Durable(e)
  BY <1>1, ConnIs
<1> QED BY <1>1, <1>2, <1>3, <1>4, ClosedTyped, Stays

LEMMA InitHolds ==
    ASSUME Init
    PROVE  RowsTyped /\ JournalInv
<1>1. log = <<>> /\ nextSeq = 1 /\ acks = {} /\ conn = [c \in Connections |-> Closed]
  BY DEF Init
<1>2. log \in Seq(JournalRow) /\ Len(log) = 0 /\ DOMAIN log = {}
  BY <1>1
<1>3. RowsTyped
  BY <1>1, <1>2, ClosedTyped, JournalAssumption DEF RowsTyped, TypeOK, LogInv
<1>4. Committed = log
  BY <1>2, IntactRows DEF Committed, Clean
<1>5. FoldOf(log) = NoFold
  BY <1>1, FoldOfNothing
<1>6. ReplayInv
  BY <1>1, <1>2, <1>4, <1>5, EmptyGraphFacts DEF ReplayInv, NoFold
<1>7. TailInv
  BY <1>4 DEF TailInv
<1>8. \A c \in Connections : conn[c] = Closed
  BY <1>1
<1>9. Closed.scan = 0
  BY DEF Closed
<1>10. ConnInv
  BY <1>1, <1>3, <1>8, <1>9, ClosedIs DEF ConnInv
<1> QED BY <1>3, <1>6, <1>7, <1>10 DEF JournalInv, RowsInv, RowsTyped

LEMMA JournalStep ==
    ASSUME JournalInv, [Next]_vars, [Apart]_vars
    PROVE  JournalInv'
<1>1. RowsTyped'
  BY ConnTyped, TypeStep DEF JournalInv
<1>2. CASE UNCHANGED vars
  BY <1>2 DEF vars, JournalInv, RowsInv, ConnInv, TypeOK, LogInv, ReplayInv, TailInv,
     Committed, Durable, Overrun, Cursor, Scans, Cached
<1>3. ASSUME NEW c \in Connections, Acts(c), Apart
      PROVE  JournalInv'
  <2>1. Alone(c)
    BY <1>3, Zenon DEF Alone, Apart, Races, Renumbers
  <2> QED BY <1>1, <1>3, <2>1, InitGraphKeeps, AcceptedKeeps, RepeatedKeeps, RejectedKeeps,
       RefuseKeeps, RaisesKeeps, SnapshotKeeps, ReadBeginsKeeps, ReadEndsKeeps, VerifyKeeps,
       RecoverScansKeeps, RecoverTruncatesKeeps, ReopenKeeps, Zenon DEF Acts
<1> QED BY <1>2, <1>3 DEF Next

-----------------------------------------------------------------------------
(* The theorems.                                                           *)

(* Every record, every acceptance and what every connection keeps in       *)
(* memory have their types, and journal_seq grows along the table: whoever *)
(* recovers, and with COMMITs that fail.                                   *)
THEOREM JournalTypes == Spec => []TypeOK
<1>1. Init => RowsTyped
  BY InitHolds
<1>2. RowsTyped /\ [Next]_vars => RowsTyped'
  BY TypeStep
<1>3. RowsTyped => TypeOK
  BY DEF RowsTyped
<1> QED BY <1>1, <1>2, <1>3, PTL DEF Spec

(* The invariant of a journal, for any number of connections and of        *)
(* recoveries, with torn rows and COMMITs that fail, as long as no row is  *)
(* added between the read and the DELETE of a recovery (Races), or under   *)
(* the number of one that another connection failed to commit (Renumbers). *)
(* Each theorem below has the same two exceptions.                         *)
THEOREM JournalInvariant ==
    Spec /\ [][Apart]_vars => []JournalInv
<1>1. Init => JournalInv
  BY InitHolds
<1>2. JournalInv /\ [Next]_vars /\ [Apart]_vars => JournalInv'
  BY JournalStep
<1> QED BY <1>1, <1>2, PTL DEF Spec

(* The acceptance a proposer was told of stays in the journal, with the    *)
(* envelope and the revision it was told (propose() and recover()).        *)
THEOREM JournalAcksDurable ==
    Spec /\ [][Apart]_vars => []AcksDurable
<1>1. JournalInv => AcksDurable
  <2> SUFFICES ASSUME JournalInv, NEW e \in acks
               PROVE  \E i \in DOMAIN log :
                         /\ log[i].sound /\ log[i].seq = e.seq
                         /\ log[i].payload.type = "accepted"
                         /\ log[i].payload.env = e.env
                         /\ log[i].payload.after.revision = e.revision
    BY DEF AcksDurable
  <2>1. Durable(e) /\ log \in Seq(JournalRow)
    BY ConnTyped, LogTyped DEF JournalInv, ConnInv
  <2>2. \A i \in DOMAIN Committed :
           i \in DOMAIN log /\ Committed[i] = log[i] /\ log[i].sound
    BY <2>1, IntactRows DEF Committed
  <2> QED BY <2>1, <2>2 DEF Durable
<1> QED BY <1>1, JournalInvariant, PTL

(* No connection decides on a cached graph or index that its own look at   *)
(* the table would not give it (_fold and _ensure_verified).               *)
THEOREM JournalCacheCoherent ==
    Spec /\ [][Apart]_vars => []CacheCoherent
<1>1. JournalInv => CacheCoherent
  <2> SUFFICES ASSUME JournalInv, NEW c \in Connections,
                      CacheHit(conn[c]), ~Verified(conn[c]).broken
               PROVE  /\ FoldOf(log).ok
                      /\ conn[c].state = FoldOf(log).graph
                      /\ conn[c].index = FoldOf(log).index
    BY DEF CacheCoherent
  <2>1. Clean(log) /\ Committed = log
    BY ConnIs, VerifiedIs, LogTyped, IntactRows DEF Committed
  <2>2. LastSeq(Committed) = MaxSeq /\ ~Overrun
    BY <2>1 DEF LastSeq, MaxSeq, Overrun, Clean
  <2>3. conn[c].state = FoldOf(log).graph /\ conn[c].index = FoldOf(log).index
    BY <2>1, <2>2, ConnIs DEF CacheHit, Cached
  <2> QED BY <2>1, <2>3 DEF JournalInv, RowsInv, ReplayInv
<1> QED BY <1>1, JournalInvariant, PTL

(* The records that count replay, and every acceptance among them says the *)
(* graph that its replay gives: audit_state_hash and the checkpoints agree *)
(* with the fold.                                                          *)
THEOREM JournalReplays ==
    Spec /\ [][Apart]_vars => []ReplayReproduces
<1>1. JournalInv => ReplayReproduces
  <2> SUFFICES ASSUME JournalInv PROVE ReplayReproduces
    OBVIOUS
  <2>1. ReplayInv /\ log \in Seq(JournalRow)
    BY ConnTyped, LogTyped DEF JournalInv, RowsInv
  <2>2. \A i \in DOMAIN Committed :
           Committed[i] = log[i] /\ SubSeq(Committed, 1, i) = SubSeq(log, 1, i)
    <3>1. PICK n \in 0..Len(log) : Committed = SubSeq(log, 1, n)
      BY <2>1, IntactIs DEF Committed
    <3>2. /\ DOMAIN SubSeq(log, 1, n) = 1..n
          /\ \A i \in 1..n : /\ SubSeq(log, 1, n)[i] = log[i]
                             /\ SubSeq(SubSeq(log, 1, n), 1, i) = SubSeq(log, 1, i)
      BY <2>1
    <3> QED BY <3>1, <3>2
  <2> QED BY <2>1, <2>2 DEF ReplayInv, ReplayReproduces
<1> QED BY <1>1, JournalInvariant, PTL

-----------------------------------------------------------------------------
(* The journal implements the ledger.                                      *)

(* A write that is not a sound acceptance or init record.                  *)
LEMMA WriteKeepsGraph ==
    ASSUME JournalInv, NEW c, NEW p \in Payload, Justified(p), NEW k, NEW answer,
           \/ Tears(c, p)
           \/ Write(c, p, k, answer) /\ (~Clean(log) \/ p.type \in {"rejected", "snapshot"})
    PROVE  Graph0' = Graph0
<1>1. RowsInv
  BY DEF JournalInv
<1>2. CASE Tears(c, p)
  <2>1. Appends(p, FALSE)
    BY <1>2 DEF Tears, Appends
  <2> QED BY <1>1, <2>1, ReplayKept DEF Graph0
<1>3. CASE Commits(c, p, k, answer) /\ (~Clean(log) \/ p.type \in {"rejected", "snapshot"})
  <2>1. Appends(p, TRUE)
    BY <1>3 DEF Commits, Appends
  <2> QED BY <1>1, <1>3, <2>1, ReplayKept DEF Graph0
<1>4. CASE CommitFails(c, k)
  BY <1>4 DEF CommitFails, Graph0, Committed
<1> QED BY <1>2, <1>3, <1>4 DEF Write

GraphCreated == \E id \in GraphIds : Graph0.id = Nil /\ Graph0' = EmptyGraph(id)

EnvelopeApplied ==
    \E env \in Envelopes :
        /\ Graph0.id # Nil
        /\ Graph0.revision < MaxRows
        /\ env.key \notin KeysUsed(Graph0)
        /\ Admissible(Graph0, env)
        /\ Graph0' = Result(Graph0, env)

LEMMA InitGraphEffect ==
    ASSUME JournalInv, NEW c \in Connections, NEW id \in GraphIds,
           InitGraph(c, id)
    PROVE  Graph0' = Graph0 \/ GraphCreated
<1> DEFINE p == InitEvent(id)
           k == Invalidated(conn[c])
<1>1. Write(c, p, k, {}) /\ p \in Payload /\ p.type = "init" /\ p.graph = id
  BY RecordsTyped DEF InitGraph, InitEvent
<1>2. Justified(p)
  <2>1. ~Initialised(log)
    BY DEF InitGraph, HasInit, Initialised
  <2> HIDE DEF p
  <2> QED BY <1>1, <2>1 DEF Justified
<1> HIDE DEF p, k
<1>3. CASE Tears(c, p) \/ ~Clean(log)
  BY <1>1, <1>2, <1>3, WriteKeepsGraph
<1>4. CASE Commits(c, p, k, {}) /\ Clean(log)
  <2>1. Appends(p, TRUE) /\ RowsInv
    BY <1>4 DEF Commits, Appends, JournalInv
  <2>2. /\ FoldOf(Committed).graph = EmptyGraph(Nil)
        /\ FoldOf(Committed)'.graph = EmptyGraph(id)
    BY <1>1, <1>2, <1>4, <2>1, ReplayStarts
  <2> QED BY <2>2, EmptyGraphFacts DEF Graph0, GraphCreated
<1>5. CASE CommitFails(c, k)
  BY <1>5 DEF CommitFails, Graph0, Committed
<1> QED BY <1>1, <1>3, <1>4, <1>5 DEF Write

LEMMA AcceptedEffect ==
    ASSUME JournalInv, NEW c \in Connections, NEW env \in Envelopes,
           ProposeAccepted(c, env)
    PROVE  Graph0' = Graph0 \/ EnvelopeApplied
<1>1. PICK k \in Folded(conn[c]) :
         /\ Accepts(k, env)
         /\ Write(c, Accepted(env, Result(k.state, env)), AcceptedMemory(k, env),
                  {Entry(env, nextSeq, Result(k.state, env).revision)})
  BY Zenon DEF ProposeAccepted, AcceptedMemory
<1> DEFINE next == Result(k.state, env)
           p == Accepted(env, next)
           m == AcceptedMemory(k, env)
           answer == {Entry(env, nextSeq, next.revision)}
<1>2. Idle(c) /\ nextSeq <= MaxRows /\ env \in Envelope /\ RowsInv /\ nextSeq \in Nat
  BY JournalAssumption, ConnIs, LogTyped DEF ProposeAccepted, MayWrite
<1>3. /\ Clean(log) /\ Committed = log /\ k.state \in Graph
      /\ k.state = FoldOf(log).graph /\ k.index = FoldOf(log).index
  BY <1>2, ConnFolded
<1>4. p \in Payload /\ p.type = "accepted" /\ p.env = env /\ p.after = next
  BY <1>2, <1>3, ResultTyped, RecordsTyped DEF Accepted
<1>5. /\ k.state.id # Nil /\ Prior(k, env) = {} /\ Admissible(k.state, env)
      /\ MutationValid(k.state, env)
  BY <1>1 DEF Accepts, ValidFor
<1>6. Justified(p)
  <2> HIDE DEF p
  <2> QED BY <1>3, <1>4, <1>5 DEF Justified
<1> HIDE DEF p, m, answer
<1>7. CASE Tears(c, p)
  BY <1>4, <1>6, <1>7, WriteKeepsGraph
<1>8. CASE Commits(c, p, m, answer)
  <2>1. Appends(p, TRUE)
    BY <1>8 DEF Commits, Appends
  <2>2. Graph0' = next /\ Graph0 = k.state
    BY <1>2, <1>3, <1>4, <1>6, <2>1, ReplayExtends DEF Graph0
  <2>3. Graph0.revision < MaxRows
    <3>1. Graph0.revision < nextSeq
      BY <1>2 DEF RowsInv, ReplayInv, Graph0
    <3>2. Graph0.revision \in Nat
      BY <1>3, <2>2 DEF Graph
    <3> QED BY <1>2, <3>1, <3>2, JournalAssumption
  <2>4. env.key \notin KeysUsed(Graph0)
    BY <1>2, <1>3, <1>5 DEF RowsInv, ReplayInv, Graph0, Prior
  <2> QED BY <1>5, <2>2, <2>3, <2>4 DEF EnvelopeApplied
<1>9. CASE CommitFails(c, m)
  BY <1>9 DEF CommitFails, Graph0, Committed
<1> QED BY <1>1, <1>7, <1>8, <1>9 DEF Write, p, m, answer

LEMMA GraphStep ==
    ASSUME JournalInv, [Next]_vars
    PROVE  Graph0' = Graph0 \/ GraphCreated \/ EnvelopeApplied
<1>1. ASSUME UNCHANGED log
      PROVE  Graph0' = Graph0
  BY <1>1 DEF Graph0, Committed
<1>2. ASSUME NEW c \in Connections, NEW env \in Envelopes, ProposeRejected(c, env)
      PROVE  Graph0' = Graph0
  <2>1. PICK k \in Folded(conn[c]) :
           Write(c, Rejected(env, k.state.revision), RejectedMemory(k, env), {})
    BY <1>2, Zenon DEF ProposeRejected, RejectedMemory
  <2>2. k.state.revision \in Nat /\ env \in Envelope
    BY ConnIs, FoldedTyped, JournalAssumption DEF Graph
  <2>3. Rejected(env, k.state.revision) \in Payload
    BY <2>2, RecordsTyped
  <2> QED BY <2>1, <2>3, RejectionJustified, WriteKeepsGraph
<1>3. ASSUME NEW c \in Connections, NEW env \in Envelopes, Refuse(c, env)
      PROVE  Graph0' = Graph0
  <2>1. env \in Envelope
    BY JournalAssumption
  <2>2. CASE \E k \in Folded(conn[c]) : Write(c, Rejected(env, k.state.revision), Advanced(k), {})
    <3>1. PICK k \in Folded(conn[c]) : Write(c, Rejected(env, k.state.revision), Advanced(k), {})
      BY <2>2
    <3>2. k.state.revision \in Nat
      BY ConnIs, FoldedTyped DEF Graph
    <3>3. Rejected(env, k.state.revision) \in Payload
      BY <2>1, <3>2, RecordsTyped
    <3> QED BY <3>1, <3>3, RejectionJustified, WriteKeepsGraph
  <2>3. CASE Write(c, Rejected(env, 0), Advanced(conn[c]), {})
    BY <2>1, <2>3, RecordsTyped, RejectionJustified, WriteKeepsGraph
  <2> QED BY <1>3, <2>2, <2>3 DEF Refuse
<1>4. ASSUME NEW c \in Connections, Snapshot(c)
      PROVE  Graph0' = Graph0
  <2>1. PICK k \in Folded(conn[c]) :
           k.state.id # Nil /\ Write(c, Checkpoint(k.state), Advanced(k), {})
    BY <1>4 DEF Snapshot
  <2> DEFINE p == Checkpoint(k.state)
  <2>2. Clean(log) /\ k.state \in Graph /\ k.state = FoldOf(log).graph
    BY <1>4, ConnFolded DEF Snapshot, MayWrite
  <2>3. p \in Payload /\ p.type = "snapshot" /\ p.graph = k.state
    BY <2>2, RecordsTyped DEF Checkpoint
  <2> HIDE DEF p
  <2>4. Justified(p)
    BY <2>1, <2>2, <2>3 DEF Justified
  <2>5. Write(c, p, Advanced(k), {})
    BY <2>1 DEF p
  <2> QED BY <2>3, <2>4, <2>5, WriteKeepsGraph
<1>5. ASSUME NEW c \in Connections, RecoverTruncates(c)
      PROVE  Graph0' = Graph0
  <2>1. log' = Committed
    BY <1>5, TruncatedIs DEF RecoverTruncates
  <2>2. Committed' = Committed
    BY <2>1, ConnIs, LogTyped, IntactOfIntact DEF Committed
  <2> QED BY <2>2 DEF Graph0
<1>6. CASE UNCHANGED vars
  BY <1>1, <1>6 DEF vars
<1>7. ASSUME NEW c \in Connections
      PROVE  /\ \A env \in Envelopes : ProposeRepeated(c, env) => UNCHANGED log
             /\ FoldRaises(c) \/ ReadBegins(c) \/ ReadEnds(c) \/ Verify(c)
                   \/ RecoverScans(c) \/ Reopen(c) => UNCHANGED log
  BY DEF ProposeRepeated, FoldRaises, ReadBegins, ReadEnds, Verify, RecoverScans, Reopen
<1>8. CASE Next
  BY <1>1, <1>2, <1>3, <1>4, <1>5, <1>7, <1>8, InitGraphEffect, AcceptedEffect, Zenon
     DEF Next, Acts
<1> QED BY <1>6, <1>8

(* The abstract ledger speaks of the same operators.                       *)
LEMMA LedgerEmpty == \A id : Ledger!EmptyGraph(id) = EmptyGraph(id)
  BY Zenon DEF Ledger!EmptyGraph, EmptyGraph

LEMMA LedgerFold == \A g, ops : Ledger!ApplyOperations(g, ops) = ApplyOperations(g, ops)
  BY Zenon DEF Ledger!ApplyOperations, ApplyOperations, Ledger!Work, Work, Ledger!Step, Step,
     Ledger!ApplyOperation, ApplyOperation, Ledger!Insert, Insert, Ledger!Remove, Remove,
     Ledger!AddNode, AddNode, Ledger!AcquireLease, AcquireLease,
     Ledger!ReleaseLease, ReleaseLease, Ledger!TransitionNode, TransitionNode,
     Ledger!PromoteCandidate, PromoteCandidate, Ledger!Compensate, Compensate,
     Ledger!Fail, Fail, Ledger!Present, Present

LEMMA LedgerResult == \A g, env : Ledger!Result(g, env) = Result(g, env)
<1>1. \A g : Ledger!DeriveReadiness(g) = DeriveReadiness(g)
  BY Zenon DEF Ledger!DeriveReadiness, DeriveReadiness, Ledger!Satisfied, Satisfied
<1> QED BY <1>1, LedgerFold, Zenon DEF Ledger!Result, Result, Ledger!Commit, Commit

LEMMA LedgerSnapshots == \A g : Ledger!SnapshotValid(g) <=> SnapshotValid(g)
  BY Zenon DEF Ledger!SnapshotValid, SnapshotValid, Ledger!ReferencesResolve, ReferencesResolve,
     Ledger!OnePromotionPerGroup, OnePromotionPerGroup, Ledger!DistinctMutations, DistinctMutations,
     Ledger!Acyclic, Acyclic, Ledger!Present, Present, Ledger!HistoryIds, HistoryIds

LEMMA LedgerMutation == \A g, env : Ledger!MutationValid(g, env) <=> MutationValid(g, env)
  BY Zenon DEF Ledger!MutationValid, MutationValid, Ledger!Authorised, Authorised,
     Ledger!NeedsApproval, NeedsApproval, Ledger!OpsOf, OpsOf,
     Ledger!ApprovalRequired, ApprovalRequired, Ledger!TransitionLegal, TransitionLegal,
     Ledger!CompensationLegal, CompensationLegal, Ledger!Present, Present,
     Ledger!LegalTransitions, LegalTransitions, Ledger!Terminal, Terminal,
     Ledger!HistoryIds, HistoryIds

LEMMA LedgerAdmissible == \A g, env : Admissible(g, env) => Ledger!Admissible(g, env)
<1>1. \A g, env : Ledger!Commit(g, env) = Commit(g, env)
  <2>1. \A g : Ledger!DeriveReadiness(g) = DeriveReadiness(g)
    BY Zenon DEF Ledger!DeriveReadiness, DeriveReadiness, Ledger!Satisfied, Satisfied
  <2> QED BY <2>1, Zenon DEF Ledger!Commit, Commit
<1> QED BY <1>1, LedgerFold, LedgerSnapshots, LedgerMutation, Zenon
        DEF Ledger!Admissible, Admissible

LEMMA LawsSnapshots == \A g : Laws!SnapshotValid(g) <=> SnapshotValid(g)
  BY Zenon DEF Laws!SnapshotValid, SnapshotValid, Laws!ReferencesResolve, ReferencesResolve,
     Laws!OnePromotionPerGroup, OnePromotionPerGroup, Laws!DistinctMutations, DistinctMutations,
     Laws!Acyclic, Acyclic, Laws!Present, Present, Laws!HistoryIds, HistoryIds

LEMMA LawsAdmissible == \A g, env : Admissible(g, env) => Laws!Admissible(g, env)
<1>1. \A g, env : Laws!Commit(g, env) = Commit(g, env)
  <2>1. \A g : Laws!DeriveReadiness(g) = DeriveReadiness(g)
    BY Zenon DEF Laws!DeriveReadiness, DeriveReadiness, Laws!Satisfied, Satisfied
  <2> QED BY <2>1, Zenon DEF Laws!Commit, Commit
<1> QED BY <1>1, SameFold, LawsSnapshots, SameValid, Zenon DEF Laws!Admissible, Admissible

LEMMA LedgerStep ==
    ASSUME JournalInv, [Next]_vars
    PROVE  [Ledger!Next]_Graph0 /\ [Laws!Next]_Graph0
<1>1. CASE Graph0' = Graph0
  BY <1>1
<1>2. CASE GraphCreated
  <2>1. PICK id \in GraphIds : Graph0.id = Nil /\ Graph0' = EmptyGraph(id)
    BY <1>2 DEF GraphCreated
  <2>2. Ledger!InitGraph(id)
    BY <2>1, LedgerEmpty DEF Ledger!InitGraph
  <2>3. Laws!InitGraph(id)
    <3>1. Laws!EmptyGraph(id) = EmptyGraph(id)
      BY Zenon DEF Laws!EmptyGraph, EmptyGraph
    <3> QED BY <2>1, <3>1 DEF Laws!InitGraph
  <2> QED BY <2>2, <2>3 DEF Ledger!Next, Laws!Next
<1>3. CASE EnvelopeApplied
  <2>1. PICK env \in Envelopes :
           /\ Graph0.id # Nil
           /\ Graph0.revision < MaxRows
           /\ env.key \notin KeysUsed(Graph0)
           /\ Admissible(Graph0, env)
           /\ Graph0' = Result(Graph0, env)
    BY <1>3 DEF EnvelopeApplied
  <2>2. Ledger!Accept(env)
    <3>1. env.key \notin Ledger!KeysUsed(Graph0)
      BY <2>1 DEF KeysUsed, Ledger!KeysUsed
    <3> QED BY <2>1, <3>1, LedgerResult, LedgerAdmissible DEF Ledger!Accept
  <2>3. Laws!Accept(env)
    <3>1. env.key \notin Laws!KeysUsed(Graph0)
      BY <2>1 DEF KeysUsed, Laws!KeysUsed
    <3> QED BY <2>1, <3>1, SameResult, LawsAdmissible DEF Laws!Accept
  <2> QED BY <2>2, <2>3 DEF Ledger!Next, Laws!Next
<1> QED BY <1>1, <1>2, <1>3, GraphStep

LEMMA LedgerStart ==
    ASSUME Init
    PROVE  Ledger!Init /\ Laws!Init
<1>1. Graph0 = EmptyGraph(Nil)
  <2>1. log = <<>> /\ log \in Seq(JournalRow) /\ DOMAIN log = {}
    BY DEF Init
  <2>2. Committed = log
    BY <2>1, IntactRows DEF Committed, Clean
  <2> QED BY <2>1, <2>2, FoldOfNothing DEF Graph0, NoFold
<1>2. Ledger!EmptyGraph(Nil) = EmptyGraph(Nil) /\ Laws!EmptyGraph(Nil) = EmptyGraph(Nil)
  BY Zenon DEF Ledger!EmptyGraph, Laws!EmptyGraph, EmptyGraph
<1> QED BY <1>1, <1>2 DEF Ledger!Init, Laws!Init

(* The journal implements the ledger: whichever connection decides, with   *)
(* whatever it has cached, and whatever was torn and recovered, the graph  *)
(* its records fold to is created once and changes by one admissible       *)
(* envelope at a time, against the revision the graph has (journal.py).    *)
THEOREM JournalImplementsLedger ==
    Spec /\ [][Apart]_vars => LedgerSpec /\ Ledger!Spec
<1>1. Init => Ledger!Init
  BY LedgerStart
<1>2. JournalInv /\ [Next]_vars => [Ledger!Next]_Graph0
  BY LedgerStep
<1>3. JournalInv /\ [Next]_vars => [UNCHANGED log \/ Ledger!Next]_Graph0
  BY LedgerStep
<1> QED BY <1>1, <1>2, <1>3, JournalInvariant, PTL DEF Spec, LedgerSpec, Ledger!Spec

LEMMA JournalImplementsLaws ==
    Spec /\ [][Apart]_vars => Laws!Spec
<1>1. Init => Laws!Init
  BY LedgerStart
<1>2. JournalInv /\ [Next]_vars => [Laws!Next]_Graph0
  BY LedgerStep
<1> QED BY <1>1, <1>2, JournalInvariant, PTL DEF Spec, Laws!Spec

(* What is proved of the ledger holds of the journal with its caches, its  *)
(* crashes and its recovery: compare-and-swap makes the history serial ... *)
THEOREM JournalHistorySerial ==
    Spec /\ [][Apart]_vars => []Ledger!HistoryIsSerial
<1>1. Laws!Spec => []Laws!HistoryIsSerial
  BY Laws!SerialHistory, GroupsAssumption, JournalAssumption, SameTypes
<1>2. Laws!HistoryIsSerial => Ledger!HistoryIsSerial
  BY DEF Laws!HistoryIsSerial, Ledger!HistoryIsSerial
<1> QED BY <1>1, <1>2, JournalImplementsLaws, PTL

(* ... no idempotency key and no mutation is applied twice, whichever      *)
(* connection a retry comes through ...                                    *)
THEOREM JournalAtMostOnce ==
    Spec /\ [][Apart]_vars => []Ledger!AppliedAtMostOnce
<1>1. Laws!Spec => []Laws!AppliedAtMostOnce
  BY Laws!AtMostOnce, GroupsAssumption, JournalAssumption, SameTypes
<1>2. Laws!AppliedAtMostOnce => Ledger!AppliedAtMostOnce
  BY DEF Laws!AppliedAtMostOnce, Ledger!AppliedAtMostOnce
<1> QED BY <1>1, <1>2, JournalImplementsLaws, PTL

(* ... and a terminal node keeps its state.                                *)
THEOREM JournalTerminal ==
    Spec /\ [][Apart]_vars => Ledger!TerminalImmutable
<1>1. Laws!Spec => Laws!TerminalImmutable
  BY Laws!TerminalTheorem, GroupsAssumption, JournalAssumption, SameTypes
<1>2. Laws!Terminal = Ledger!Terminal
  BY DEF Laws!Terminal, Ledger!Terminal
<1>3. [\A n \in Nodes : Graph0.life[n] \in Laws!Terminal => Graph0'.life[n] = Graph0.life[n]]_Graph0
         => [\A n \in Nodes :
                Graph0.life[n] \in Ledger!Terminal => Graph0'.life[n] = Graph0.life[n]]_Graph0
  BY <1>2
<1> QED BY <1>1, <1>3, JournalImplementsLaws, PTL
        DEF Laws!TerminalImmutable, Ledger!TerminalImmutable
=============================================================================
