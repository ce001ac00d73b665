--------------------------- MODULE SchedulerProofs ---------------------------
(***************************************************************************)
(* Proofs about the scheduler, for every graph and every clock.            *)
(***************************************************************************)
EXTENDS Scheduler, GraphLedgerProofs

-----------------------------------------------------------------------------
(* The scheduler only reads the graph: every behaviour of it is one of the *)
(* ledger, and what is proved of the ledger holds.                         *)
THEOREM SchedulerKeepsLedger == SchedulerSpec => Spec
<1>1. SchedulerInit => Init
  BY DEF SchedulerInit
<1>2. [SchedulerNext]_vars => [Next]_graph
  <2>1. ASSUME GraphMoves PROVE Next
    BY <2>1 DEF GraphMoves, Next
  <2>2. ASSUME NEW s \in Schedulers, SchedulerStep(s) PROVE UNCHANGED graph
    BY <2>2
    DEF SchedulerStep, Open, Crash, Refresh, Dispatchable, ClaimChecks,
        ClaimLooks, ClaimGrants, ClaimDispatches, Resume, SweepSelects,
        SweepExpires, RetryCounts, RetryRecords
  <2>3. ASSUME NEW k \in DOMAIN lease, Heartbeat(k) \/ Release(k)
        PROVE  UNCHANGED graph
    BY <2>3 DEF Heartbeat, Release
  <2>4. ASSUME NEW w \in Mortals, Dies(w) PROVE UNCHANGED graph
    BY <2>4 DEF Dies
  <2>5. Tick => UNCHANGED graph
    BY DEF Tick
  <2>6. UNCHANGED vars => UNCHANGED graph
    BY DEF vars
  <2> QED BY <2>1, <2>2, <2>3, <2>4, <2>5, <2>6 DEF SchedulerNext
<1> QED BY <1>1, <1>2, PTL DEF SchedulerSpec, Spec

(* The bound of the model on the revision is one.                          *)
RevisionInv == LedgerInv /\ graph.revision \in 0..MaxRevision

(* The ledger keeps it.                                                    *)
LEMMA RevisionBounded == Spec => []RevisionInv
<1>1. Init => graph.revision \in 0..MaxRevision
  BY LedgerAssumption DEF Init, EmptyGraph
<1>2. LedgerInv /\ graph.revision \in 0..MaxRevision /\ [Next]_graph
         => (graph.revision \in 0..MaxRevision)'
  <2> SUFFICES ASSUME LedgerInv, graph.revision \in 0..MaxRevision, [Next]_graph
               PROVE  graph'.revision \in 0..MaxRevision
    OBVIOUS
  <2>1. ASSUME NEW id \in GraphIds, InitGraph(id)
        PROVE  graph'.revision \in 0..MaxRevision
    BY <2>1, LedgerAssumption DEF InitGraph, EmptyGraph
  <2>2. ASSUME NEW env \in Envelopes, Accept(env)
        PROVE  graph'.revision \in 0..MaxRevision
    <3>1. /\ graph \in Graph
          /\ env \in Envelope
          /\ MutationValid(graph, env)
          /\ graph.revision < MaxRevision
          /\ graph' = Result(graph, env)
      BY <2>2, LedgerAssumption DEF Accept, Admissible, LedgerInv, TypeOK
    <3>2. graph'.revision = graph.revision + 1
      BY <3>1, ResultOfEnvelope
    <3> QED BY <3>1, <3>2, LedgerAssumption
  <2>3. CASE UNCHANGED graph
    BY <2>3
  <2> QED BY <2>1, <2>2, <2>3 DEF Next
<1> QED BY <1>1, <1>2, LedgerInvariant, PTL DEF Spec, RevisionInv

-----------------------------------------------------------------------------
(* Types.                                                                  *)

(* The nodes a caller has to pass to refresh() are nodes.                  *)
LEMMA OperationsNameNodes ==
    ASSUME NEW op \in Operation
    PROVE  DirtyOf(op) \in SUBSET Nodes
  BY DEF Operation, DirtyOf, Edge

(* So are those of an envelope.                                            *)
LEMMA EnvelopesNameNodes ==
    ASSUME NEW env \in Envelope
    PROVE  UNION {DirtyOf(op) : op \in OpsOf(env)} \in SUBSET Nodes
<1>1. env.ops \in Seq(Operation)
  BY DEF Envelope
<1>2. OpsOf(env) \subseteq Operation
  BY <1>1 DEF OpsOf
<1> QED BY <1>2, OperationsNameNodes

(* A refresh leaves a well-formed record.                                  *)
LEMMA RefreshTyped ==
    ASSUME NEW r \in SchedulerState, NEW index \in SUBSET Nodes, RevisionInv
    PROVE  Refreshed(r, graph, index) \in SchedulerState
<1>1. GraphPaused(graph) \in BOOLEAN /\ graph.revision \in 0..MaxRevision
  BY DEF GraphPaused, RevisionInv
<1> QED BY <1>1 DEF Refreshed, SchedulerState

(* So does a rebuild.                                                      *)
LEMMA RebuildTyped ==
    ASSUME NEW r \in SchedulerState, RevisionInv
    PROVE  Rebuilt(r, graph) \in SchedulerState
<1>1. FullReady(graph) \in SUBSET Nodes
  BY DEF FullReady
<1> QED BY <1>1, RefreshTyped DEF Rebuilt

(* The step of one scheduler replaces its record.                          *)
LEMMA OneMoves ==
    ASSUME SchedulerTypeOK, NEW s \in Schedulers, NEW r \in SchedulerState
    PROVE  [sched EXCEPT ![s] = r] \in [Schedulers -> SchedulerState]
  BY DEF SchedulerTypeOK

(* A step that only sets the job leaves well-formed records.               *)
LEMMA DoesTyped ==
    ASSUME SchedulerTypeOK, NEW s \in Schedulers, NEW j \in Job \cup {Nil},
           Does(s, j)
    PROVE  sched' \in [Schedulers -> SchedulerState]
<1>1. [sched[s] EXCEPT !.job = j] \in SchedulerState
  BY DEF SchedulerTypeOK, SchedulerState
<1>2. sched' = [sched EXCEPT ![s] = [sched[s] EXCEPT !.job = j]]
  BY DEF Does
<1> QED BY <1>1, <1>2, OneMoves

(* What the job at each step carries.                                      *)
LEMMA JobAt ==
    ASSUME SchedulerTypeOK, NEW s \in Schedulers
    PROVE  /\ At(s, "look") \/ At(s, "dispatch") => sched[s].job.key \in LeaseKey
           /\ At(s, "grant") => /\ sched[s].job.key \in LeaseKey
                                /\ sched[s].job.at \in 0..MaxTime
           /\ At(s, "sweep") => sched[s].job.keys \in SUBSET LeaseKey
           /\ At(s, "retry") => /\ sched[s].job.node \in Nodes
                                /\ sched[s].job.id \in RetryIds
<1>1. sched[s].job \in Job \cup {Nil}
  BY DEF SchedulerTypeOK, SchedulerState
<1> QED BY <1>1 DEF At, Job

(* A granted lease is a well-formed row under a well-formed key.           *)
LEMMA GrantTyped ==
    ASSUME SchedulerTypeOK, NEW k \in LeaseKey, NEW at \in 0..MaxTime, Grant(k, at)
    PROVE  /\ DOMAIN lease' \subseteq LeaseKey
           /\ \A j \in DOMAIN lease' : lease'[j] \in LeaseRow
<1>1. [state |-> "active", expires |-> at + LeaseSeconds] \in LeaseRow
  BY SchedulerAssumption DEF LeaseRow, LeaseState
<1> QED BY <1>1 DEF Grant, SchedulerTypeOK

(* So is one that was released or expired.                                 *)
LEMMA StateTyped ==
    ASSUME SchedulerTypeOK, NEW k \in DOMAIN lease,
           NEW state \in {"active", "released", "expired"}
    PROVE  LET next == [lease EXCEPT ![k].state = state]
           IN  /\ DOMAIN next \subseteq LeaseKey
               /\ \A j \in DOMAIN next : next[j] \in LeaseRow
<1>1. [lease[k] EXCEPT !.state = state] \in LeaseRow
  BY DEF SchedulerTypeOK, LeaseRow, LeaseState
<1> QED BY <1>1 DEF SchedulerTypeOK

(* What a scheduler remembers and what the store holds are well formed,    *)
(* and every sum of the clock stays within its bound.                      *)
LEMMA TypesKept ==
    ASSUME RevisionInv, SchedulerTypeOK, [SchedulerNext]_vars
    PROVE  SchedulerTypeOK'
<1> USE SchedulerAssumption
<1>1. CASE GraphMoves
  <2>1. ASSUME NEW env \in Envelopes,
               sched' = [s \in Schedulers |->
                   [sched[s] EXCEPT !.dirty = @ \cup
                       UNION {DirtyOf(op) : op \in OpsOf(env)}]]
        PROVE  sched' \in [Schedulers -> SchedulerState]
    <3>1. UNION {DirtyOf(op) : op \in OpsOf(env)} \in SUBSET Nodes
      BY EnvelopesNameNodes, LedgerAssumption
    <3> DEFINE named == UNION {DirtyOf(op) : op \in OpsOf(env)}
    <3> HIDE DEF named
    <3>2. \A s \in Schedulers :
             [sched[s] EXCEPT !.dirty = @ \cup named] \in SchedulerState
      BY <3>1 DEF SchedulerTypeOK, SchedulerState, named
    <3> QED BY <2>1, <3>2 DEF named
  <2>2. sched' \in [Schedulers -> SchedulerState]
    BY <1>1, <2>1 DEF GraphMoves, SchedulerTypeOK
  <2> QED BY <1>1, <2>2 DEF GraphMoves, SchedulerTypeOK, store
<1>2. ASSUME NEW s \in Schedulers, SchedulerStep(s)
      PROVE  SchedulerTypeOK'
  <2> DEFINE r == sched[s]
  <2>r. r \in SchedulerState
    BY DEF SchedulerTypeOK
  <2>1. CASE Open(s)
    <3>1. [Rebuilt(r, graph) EXCEPT !.open = TRUE] \in SchedulerState
      BY <2>r, RebuildTyped DEF SchedulerState
    <3>2. sched' = [sched EXCEPT ![s] = [Rebuilt(r, graph) EXCEPT !.open = TRUE]]
      BY <2>1 DEF Open
    <3>3. sched' \in [Schedulers -> SchedulerState]
      BY <3>1, <3>2, OneMoves
    <3> QED BY <2>1, <3>3 DEF Open, SchedulerTypeOK, store
  <2>2. CASE Crash(s)
    <3>1. Down(r.crashes + 1) \in SchedulerState
      BY <2>r, <2>2, LedgerAssumption DEF Crash, Down, SchedulerState
    <3> QED BY <2>2, <3>1, OneMoves DEF Crash, SchedulerTypeOK, store
  <2>3. CASE Refresh(s)
    <3>1. Applied(r, graph) \in SUBSET Nodes
      BY <2>r DEF Applied, Present, SchedulerState
    <3>2. /\ Rebuilt(r, graph) \in SchedulerState
          /\ Refreshed(r, graph, Applied(r, graph)) \in SchedulerState
      BY <2>r, <3>1, RebuildTyped, RefreshTyped
    <3> QED BY <2>3, <3>2, OneMoves DEF Refresh, SchedulerTypeOK, store
  <2>4. CASE Dispatchable(s)
    <3>1. PICK batch \in SUBSET (r.index \ Leased) :
             sched' = [sched EXCEPT ![s] = [r EXCEPT !.todo = batch]]
      BY <2>4 DEF Dispatchable
    <3>2. [r EXCEPT !.todo = batch] \in SchedulerState
      BY <2>r DEF SchedulerState
    <3> QED BY <2>4, <3>1, <3>2, OneMoves DEF Dispatchable, SchedulerTypeOK, store
  <2>5. ASSUME NEW n \in Nodes, NEW w \in Workers, ClaimChecks(s, n, w)
        PROVE  SchedulerTypeOK'
    <3> DEFINE k == [salt |-> <<s, r.crashes>>, node |-> n,
                     worker |-> w, revision |-> graph.revision]
               left == IF w \in Listed THEN r.todo \ {n} ELSE r.todo
               looking == [r EXCEPT !.todo = left,
                                    !.job = [step |-> "look", key |-> k]]
               dropped == [r EXCEPT !.todo = left]
    <3>1. k \in LeaseKey /\ left \in SUBSET Nodes
      BY <2>r DEF LeaseKey, RevisionInv, SchedulerState
    <3>2. looking \in SchedulerState /\ dropped \in SchedulerState
      <4> HIDE DEF k, left
      <4> QED BY <2>r, <3>1 DEF SchedulerState, Job
    <3>3. \/ sched' = [sched EXCEPT ![s] = looking]
          \/ sched' = [sched EXCEPT ![s] = dropped]
      BY <2>5 DEF ClaimChecks
    <3> HIDE DEF looking, dropped
    <3>4. sched' \in [Schedulers -> SchedulerState]
      BY <3>2, <3>3, OneMoves
    <3> QED BY <2>5, <3>4 DEF ClaimChecks, SchedulerTypeOK, store
  <2>6. CASE ClaimLooks(s)
    <3>1. [step |-> "grant", key |-> r.job.key, at |-> now] \in Job
             \/ now > MaxTime
      BY <2>6, JobAt DEF ClaimLooks, Job, SchedulerTypeOK
    <3>2. sched' \in [Schedulers -> SchedulerState]
      BY <2>6, <3>1, DoesTyped DEF ClaimLooks, SchedulerTypeOK
    <3> QED BY <2>6, <3>2 DEF ClaimLooks, SchedulerTypeOK, store
  <2>7. CASE ClaimGrants(s)
    <3>1. r.job.key \in LeaseKey /\ r.job.at \in 0..MaxTime
      BY <2>7, JobAt DEF ClaimGrants
    <3>2. [step |-> "dispatch", key |-> r.job.key] \in Job
      BY <3>1 DEF Job
    <3>3. sched' \in [Schedulers -> SchedulerState]
      BY <2>7, <3>2, DoesTyped DEF ClaimGrants
    <3> QED BY <2>7, <3>1, <3>3, GrantTyped DEF ClaimGrants, SchedulerTypeOK
  <2>8. CASE ClaimDispatches(s)
    <3>1. r.job.key \in LeaseKey
      BY <2>8, JobAt DEF ClaimDispatches
    <3>2. sched' \in [Schedulers -> SchedulerState]
      BY <2>8, DoesTyped DEF ClaimDispatches
    <3> QED BY <2>8, <3>1, <3>2 DEF ClaimDispatches, SchedulerTypeOK
  <2>9. CASE Resume(s)
    <3>1. [Rebuilt(r, graph) EXCEPT !.job = [step |-> "select"]] \in SchedulerState
      BY <2>r, RebuildTyped DEF SchedulerState, Job
    <3> QED BY <2>9, <3>1, OneMoves DEF Resume, SchedulerTypeOK, store
  <2>10. CASE SweepSelects(s)
    <3>1. Expired \subseteq LeaseKey
      BY DEF Expired, ActiveKeys, SchedulerTypeOK
    <3>2. [step |-> "sweep", keys |-> Expired] \in Job
      BY <3>1 DEF Job
    <3>3. sched' \in [Schedulers -> SchedulerState]
      BY <2>10, <3>2, DoesTyped DEF SweepSelects
    <3> QED BY <2>10, <3>3 DEF SweepSelects, SchedulerTypeOK, store
  <2>11. CASE SweepExpires(s)
    <3>1. PICK k \in r.job.keys :
             /\ lease' = IF Active(k) THEN [lease EXCEPT ![k].state = "expired"]
                         ELSE lease
             /\ Does(s, IF r.job.keys \ {k} = {} THEN Nil
                        ELSE [step |-> "sweep", keys |-> r.job.keys \ {k}])
      BY <2>11 DEF SweepExpires
    <3>2. r.job.keys \in SUBSET LeaseKey
      BY <2>11, JobAt DEF SweepExpires
    <3>3. [step |-> "sweep", keys |-> r.job.keys \ {k}] \in Job
      BY <3>2 DEF Job
    <3>4. sched' \in [Schedulers -> SchedulerState]
      BY <3>1, <3>3, DoesTyped
    <3>5. /\ DOMAIN lease' \subseteq LeaseKey
          /\ \A j \in DOMAIN lease' : lease'[j] \in LeaseRow
      BY <3>1, StateTyped DEF Active, SchedulerTypeOK
    <3> QED BY <2>11, <3>4, <3>5 DEF SweepExpires, SchedulerTypeOK
  <2>12. ASSUME NEW n \in Nodes, NEW id \in RetryIds, RetryCounts(s, n, id)
         PROVE  SchedulerTypeOK'
    <3>1. [step |-> "retry", node |-> n, id |-> id] \in Job
      BY DEF Job
    <3>2. sched' \in [Schedulers -> SchedulerState]
      BY <2>12, <3>1, DoesTyped DEF RetryCounts
    <3> QED BY <2>12, <3>2 DEF RetryCounts, SchedulerTypeOK, store
  <2>13. CASE RetryRecords(s)
    <3>1. r.job.node \in Nodes /\ r.job.id \in RetryIds
      BY <2>13, JobAt DEF RetryRecords
    <3>2. sched' \in [Schedulers -> SchedulerState]
      BY <2>13, DoesTyped DEF RetryRecords
    <3> QED BY <2>13, <3>1, <3>2 DEF RetryRecords, SchedulerTypeOK
  <2> QED
    BY <1>2, <2>1, <2>2, <2>3, <2>4, <2>5, <2>6, <2>7, <2>8, <2>9, <2>10,
       <2>11, <2>12, <2>13 DEF SchedulerStep
<1>3. ASSUME NEW k \in DOMAIN lease, Heartbeat(k)
      PROVE  SchedulerTypeOK'
  <2>1. [lease[k] EXCEPT !.expires = now + LeaseSeconds] \in LeaseRow
    BY <1>3 DEF Heartbeat, SchedulerTypeOK, LeaseRow
  <2> QED BY <1>3, <2>1 DEF Heartbeat, SchedulerTypeOK
<1>4. ASSUME NEW k \in DOMAIN lease, Release(k)
      PROVE  SchedulerTypeOK'
  <2>1. [lease[k] EXCEPT !.state = "released"] \in LeaseRow
    BY DEF SchedulerTypeOK, LeaseRow, LeaseState
  <2> QED BY <1>4, <2>1 DEF Release, SchedulerTypeOK
<1>5. ASSUME NEW w \in Mortals, Dies(w)
      PROVE  SchedulerTypeOK'
  BY <1>5 DEF Dies, SchedulerTypeOK, store
<1>6. CASE Tick
  BY <1>6 DEF Tick, SchedulerTypeOK, store
<1>7. CASE UNCHANGED vars
  BY <1>7 DEF vars, store, SchedulerTypeOK
<1> QED BY <1>1, <1>2, <1>3, <1>4, <1>5, <1>6, <1>7 DEF SchedulerNext

(* The types and the ledger's invariant, which the rest stands on.         *)
BaseInv == RevisionInv /\ SchedulerTypeOK

(* Both hold of the scheduler.                                             *)
LEMMA BaseInvariant == SchedulerSpec => []BaseInv
<1>1. SchedulerInit => SchedulerTypeOK
  <2> SUFFICES ASSUME SchedulerInit PROVE SchedulerTypeOK
    OBVIOUS
  <2>1. Down(0) \in SchedulerState
    BY SchedulerAssumption, LedgerAssumption DEF Down, SchedulerState
  <2> QED BY <2>1, SchedulerAssumption DEF SchedulerInit, SchedulerTypeOK
<1>2. RevisionInv /\ SchedulerTypeOK /\ [SchedulerNext]_vars => SchedulerTypeOK'
  BY TypesKept
<1> QED
  BY <1>1, <1>2, SchedulerKeepsLedger, RevisionBounded, PTL
  DEF SchedulerSpec, BaseInv

(* The scheduler's types hold for every graph, clock and number of crashes.*)
THEOREM SchedulerTypes == SchedulerSpec => []SchedulerTypeOK
<1>1. BaseInv => SchedulerTypeOK
  BY DEF BaseInv
<1> QED BY <1>1, BaseInvariant, PTL

-----------------------------------------------------------------------------
(* Exclusion of leases, for a store that any number of schedulers write.   *)

(* Whatever else the scheduler, the workers and the clock do to the store, *)
(* only a grant makes a lease active.                                      *)
LEMMA OnlyGrantsActivate ==
    ASSUME BaseInv, [SchedulerNext]_vars,
           ~ \E s \in Schedulers : ClaimGrants(s)
    PROVE  ActiveKeys' \subseteq ActiveKeys
<1>1. ASSUME UNCHANGED lease PROVE ActiveKeys' \subseteq ActiveKeys
  BY <1>1 DEF ActiveKeys, Active
<1>2. ASSUME NEW k \in DOMAIN lease, NEW state \in {"released", "expired"},
             lease' = [lease EXCEPT ![k].state = state]
      PROVE  ActiveKeys' \subseteq ActiveKeys
  <2>1. \A j \in DOMAIN lease : j # k => lease'[j] = lease[j]
    BY <1>2
  <2>2. lease'[k].state = state
    BY <1>2 DEF BaseInv, SchedulerTypeOK, LeaseRow
  <2> QED BY <1>2, <2>1, <2>2 DEF ActiveKeys, Active
<1>3. ASSUME NEW s \in Schedulers, SchedulerStep(s), ~ClaimGrants(s)
      PROVE  ActiveKeys' \subseteq ActiveKeys
  <2>1. CASE SweepExpires(s)
    <3>1. PICK k : lease' = IF Active(k)
                            THEN [lease EXCEPT ![k].state = "expired"]
                            ELSE lease
      BY <2>1 DEF SweepExpires
    <3> QED BY <1>1, <1>2, <3>1 DEF Active
  <2>2. CASE ~SweepExpires(s)
    <3>1. UNCHANGED lease
      BY <1>3, <2>2
      DEF SchedulerStep, Open, Crash, Refresh, Dispatchable, ClaimChecks,
          ClaimLooks, ClaimDispatches, Resume, SweepSelects, RetryCounts,
          RetryRecords, store
    <3> QED BY <1>1, <3>1
  <2> QED BY <2>1, <2>2
<1>4. ASSUME NEW k \in DOMAIN lease, Heartbeat(k)
      PROVE  ActiveKeys' \subseteq ActiveKeys
  <2>1. lease' = [lease EXCEPT ![k].expires = now + LeaseSeconds]
    BY <1>4 DEF Heartbeat
  <2>2. \A j \in DOMAIN lease : lease'[j].state = lease[j].state
    BY <2>1 DEF BaseInv, SchedulerTypeOK, LeaseRow
  <2> QED BY <2>1, <2>2 DEF ActiveKeys, Active
<1>5. ASSUME NEW k \in DOMAIN lease, Release(k)
      PROVE  ActiveKeys' \subseteq ActiveKeys
  BY <1>2, <1>5 DEF Release
<1>6. GraphMoves \/ Tick \/ (\E w \in Mortals : Dies(w)) \/ UNCHANGED vars
         => UNCHANGED lease
  BY DEF GraphMoves, Tick, Dies, vars, store
<1> QED BY <1>1, <1>3, <1>4, <1>5, <1>6 DEF SchedulerNext

CountsRetry(s) == \E n \in Nodes, id \in RetryIds : RetryCounts(s, n, id)

Checks(s) == \E n \in Nodes, w \in Workers : ClaimChecks(s, n, w)

(* Only the checks of a claim lead to its look, only a look that finds no  *)
(* lease to a grant, and only a count within the budgets to the record of  *)
(* a retry.                                                                *)
LEMMA OnlyChecksPermit ==
    ASSUME BaseInv, [SchedulerNext]_vars, NEW s \in Schedulers,
           (At(s, "look") \/ At(s, "grant") \/ At(s, "retry"))'
    PROVE  \/ UNCHANGED sched[s].job \/ Checks(s)
           \/ ClaimLooks(s) \/ CountsRetry(s)
<1> DEFINE r == sched[s]
<1>r. /\ sched \in [Schedulers -> SchedulerState]
      /\ r \in SchedulerState
  BY DEF BaseInv, SchedulerTypeOK
<1>1. ASSUME NEW t \in Schedulers, SchedulerStep(t)
      PROVE  UNCHANGED r.job \/ Checks(s) \/ ClaimLooks(s) \/ CountsRetry(s)
  <2>1. CASE t # s
    <3>1. \E x : sched' = [sched EXCEPT ![t] = x]
      BY <1>1
      DEF SchedulerStep, Open, Crash, Refresh, Dispatchable, ClaimChecks,
          ClaimLooks, ClaimGrants, ClaimDispatches, Resume, SweepSelects,
          SweepExpires, RetryCounts, RetryRecords, Does
    <3> QED BY <1>r, <2>1, <3>1
  <2>2. CASE t = s
    <3>1. CASE Open(s) \/ Refresh(s)
      BY <1>r, <3>1 DEF Open, Refresh, Rebuilt, Refreshed, SchedulerState
    <3>2. CASE Dispatchable(s)
      BY <1>r, <3>2 DEF Dispatchable, SchedulerState
    <3>3. CASE \E n \in Nodes, w \in Workers : ClaimChecks(s, n, w)
      BY <3>3 DEF Checks
    <3>4. CASE Crash(s)
      <4>1. sched'[s].job = Nil
        BY <1>r, <3>4 DEF Crash, Down
      <4> QED BY <4>1 DEF At
    <3>7. CASE Resume(s)
      <4>1. sched'[s] = [Rebuilt(r, graph) EXCEPT !.job = [step |-> "select"]]
        BY <1>r, <3>7 DEF Resume
      <4>2. sched'[s].job.step = "select"
        BY <1>r, <4>1 DEF Rebuilt, Refreshed, SchedulerState
      <4> QED BY <4>2 DEF At
    <3>5. CASE ClaimGrants(s) \/ ClaimDispatches(s) \/ RetryRecords(s)
      BY <1>r, <3>5
      DEF ClaimGrants, ClaimDispatches, RetryRecords, Does, At, SchedulerState
    <3>6. CASE SweepSelects(s) \/ SweepExpires(s)
      BY <1>r, <3>6 DEF SweepSelects, SweepExpires, Does, At, SchedulerState
    <3> QED
      BY <1>1, <2>2, <3>1, <3>2, <3>3, <3>4, <3>5, <3>6, <3>7
      DEF SchedulerStep, CountsRetry
  <2> QED BY <2>1, <2>2
<1>2. CASE GraphMoves
  BY <1>r, <1>2 DEF GraphMoves, SchedulerState
<1>3. CASE UNCHANGED sched
  BY <1>3
<1>4. (\E k \in DOMAIN lease : Heartbeat(k) \/ Release(k)) \/ Tick
         \/ (\E w \in Mortals : Dies(w)) \/ UNCHANGED vars => UNCHANGED sched
  BY DEF Heartbeat, Release, Tick, Dies, vars
<1> QED BY <1>1, <1>2, <1>3, <1>4 DEF SchedulerNext

(* A scheduler claims under keys of its own.                               *)
OwnKeys ==
    \A s \in Schedulers :
        At(s, "look") \/ At(s, "grant") => sched[s].job.key.salt[1] = s

(* What the checks, the looks and the counts leave as the job.             *)
LEMMA JobsLeft ==
    ASSUME BaseInv, NEW s \in Schedulers
    PROVE  /\ Checks(s) => \/ UNCHANGED sched[s].job
                           \/ /\ ~At(s, "grant")' /\ ~At(s, "retry")'
                              /\ At(s, "look")' => sched'[s].job.key.salt[1] = s
           /\ ClaimLooks(s) =>
                /\ ~At(s, "look")' /\ ~At(s, "retry")'
                /\ At(s, "look")
                /\ At(s, "grant")' =>
                     /\ sched'[s].job.key = sched[s].job.key
                     /\ ActiveLeasesFor(sched[s].job.key.node) = {}
           /\ CountsRetry(s) =>
                /\ ~At(s, "look")' /\ ~At(s, "grant")'
                /\ \E n \in Nodes : RetryBudgetLeft(n) /\ sched'[s].job.node = n
<1>r. sched \in [Schedulers -> SchedulerState] /\ sched[s] \in SchedulerState
  BY DEF BaseInv, SchedulerTypeOK
<1>1. ASSUME Checks(s)
      PROVE  \/ UNCHANGED sched[s].job
             \/ /\ ~At(s, "grant")' /\ ~At(s, "retry")'
                /\ At(s, "look")' => sched'[s].job.key.salt[1] = s
  <2>1. PICK n \in Nodes, w \in Workers : ClaimChecks(s, n, w)
    BY <1>1 DEF Checks
  <2> DEFINE key == [salt |-> <<s, sched[s].crashes>>, node |-> n, worker |-> w,
                     revision |-> graph.revision]
  <2>2. \/ UNCHANGED sched[s].job
        \/ sched'[s].job = [step |-> "look", key |-> key]
    BY <1>r, <2>1 DEF ClaimChecks, SchedulerState
  <2>3. key.salt[1] = s
    OBVIOUS
  <2> HIDE DEF key
  <2> QED BY <2>2, <2>3 DEF At
<1>2. ASSUME ClaimLooks(s)
      PROVE  /\ ~At(s, "look")' /\ ~At(s, "retry")'
             /\ At(s, "look")
             /\ At(s, "grant")' =>
                  /\ sched'[s].job.key = sched[s].job.key
                  /\ ActiveLeasesFor(sched[s].job.key.node) = {}
  BY <1>r, <1>2 DEF ClaimLooks, Does, At, SchedulerState
<1>3. ASSUME CountsRetry(s)
      PROVE  /\ ~At(s, "look")' /\ ~At(s, "grant")'
             /\ \E n \in Nodes : RetryBudgetLeft(n) /\ sched'[s].job.node = n
  BY <1>r, <1>3 DEF CountsRetry, RetryCounts, Does, At, SchedulerState
<1> QED BY <1>1, <1>2, <1>3

(* The step of a scheduler is that scheduler's.                            *)
LEMMA OthersStay ==
    ASSUME BaseInv, NEW s \in Schedulers, SchedulerStep(s)
    PROVE  \A t \in Schedulers \ {s} : sched'[t] = sched[t]
<1>1. \E x : sched' = [sched EXCEPT ![s] = x]
  BY DEF SchedulerStep, Open, Crash, Refresh, Dispatchable, ClaimChecks,
         ClaimLooks, ClaimGrants, ClaimDispatches, Resume, SweepSelects,
         SweepExpires, RetryCounts, RetryRecords, Does
<1> QED BY <1>1 DEF BaseInv, SchedulerTypeOK

(* Only the checks make a key.                                             *)
LEMMA OwnKeysInvariant == SchedulerSpec => []OwnKeys
<1>1. SchedulerInit => OwnKeys
  BY DEF SchedulerInit, OwnKeys, At, Down
<1>2. BaseInv /\ OwnKeys /\ [SchedulerNext]_vars => OwnKeys'
  <2> SUFFICES ASSUME BaseInv, OwnKeys, [SchedulerNext]_vars,
                      NEW s \in Schedulers, (At(s, "look") \/ At(s, "grant"))'
               PROVE  sched'[s].job.key.salt[1] = s
    BY DEF OwnKeys
  <2>1. CASE UNCHANGED sched[s].job
    BY <2>1 DEF OwnKeys, At
  <2>2. CASE Checks(s)
    BY <2>1, <2>2, JobsLeft
  <2>3. CASE ClaimLooks(s)
    BY <2>3, JobsLeft DEF OwnKeys
  <2>4. ~CountsRetry(s)
    BY JobsLeft
  <2> QED BY <2>1, <2>2, <2>3, <2>4, OnlyChecksPermit
<1> QED BY <1>1, <1>2, BaseInvariant, PTL DEF SchedulerSpec

(* While a scheduler is about to grant a lease, it has none of the node    *)
(* out itself: what it found when it looked is still so, since nobody else *)
(* grants under its keys.                                                  *)
GrantInv ==
    /\ NoDoubleLease
    /\ \A s \in Schedulers :
          At(s, "grant") =>
              \A k \in ActiveLeasesFor(sched[s].job.key.node) : k.salt[1] # s

(* No step disturbs it.                                                    *)
LEMMA GrantKept ==
    ASSUME BaseInv, OwnKeys, GrantInv, [SchedulerNext]_vars
    PROVE  GrantInv'
<1>1. ASSUME NEW s \in Schedulers, ClaimGrants(s)
      PROVE  GrantInv'
  <2> DEFINE k == sched[s].job.key
  <2>1. /\ \A j \in ActiveLeasesFor(k.node) : j.salt[1] # s
        /\ k.salt[1] = s
    BY <1>1 DEF ClaimGrants, GrantInv, OwnKeys
  <2>2. ActiveKeys' \subseteq ActiveKeys \cup {k}
    BY <1>1 DEF ClaimGrants, Grant, ActiveKeys, Active
  <2>3. NoDoubleLease'
    BY <2>1, <2>2 DEF GrantInv, NoDoubleLease, ActiveLeasesFor
  <2>4. ~At(s, "grant")'
    BY <1>1 DEF ClaimGrants, Does, At, BaseInv, SchedulerTypeOK, SchedulerState
  <2>5. ASSUME NEW t \in Schedulers \ {s}, At(t, "grant")'
        PROVE  \A j \in ActiveLeasesFor(sched[t].job.key.node)' : j.salt[1] # t
    <3>1. sched'[t] = sched[t]
      BY <1>1, OthersStay DEF SchedulerStep
    <3> QED BY <2>1, <2>2, <2>5, <3>1 DEF GrantInv, ActiveLeasesFor, At
  <2> QED BY <2>3, <2>4, <2>5 DEF GrantInv
<1>2. CASE ~ \E s \in Schedulers : ClaimGrants(s)
  <2>1. ActiveKeys' \subseteq ActiveKeys
    BY <1>2, OnlyGrantsActivate
  <2>2. NoDoubleLease'
    BY <2>1 DEF GrantInv, NoDoubleLease
  <2>3. ASSUME NEW s \in Schedulers, At(s, "grant")'
        PROVE  \A k \in ActiveLeasesFor(sched[s].job.key.node)' : k.salt[1] # s
    <3>1. CASE UNCHANGED sched[s].job
      BY <2>1, <2>3, <3>1 DEF GrantInv, ActiveLeasesFor, At
    <3>2. CASE ClaimLooks(s)
      <4>1. /\ ActiveLeasesFor(sched[s].job.key.node) = {}
            /\ sched'[s].job.key = sched[s].job.key
        BY <2>3, <3>2, JobsLeft
      <4> QED BY <2>1, <4>1 DEF ActiveLeasesFor
    <3>3. ~CountsRetry(s) /\ (Checks(s) => UNCHANGED sched[s].job)
      BY <2>3, JobsLeft
    <3> QED BY <2>3, <3>1, <3>2, <3>3, OnlyChecksPermit
  <2> QED BY <2>2, <2>3 DEF GrantInv
<1> QED BY <1>1, <1>2

(* Of any number of schedulers none ever has two leases of a node out at   *)
(* once, whatever the others, the workers, the clock and its own crashes   *)
(* do between the two statements of a claim.                               *)
THEOREM NoDoubleLeaseTheorem == SchedulerSpec => []NoDoubleLease
<1>1. SchedulerInit => GrantInv
  BY DEF SchedulerInit, GrantInv, NoDoubleLease, ActiveKeys, Active, At, Down
<1>2. BaseInv /\ OwnKeys /\ GrantInv /\ [SchedulerNext]_vars => GrantInv'
  BY GrantKept
<1>3. GrantInv => NoDoubleLease
  BY DEF GrantInv
<1> QED BY <1>1, <1>2, <1>3, BaseInvariant, OwnKeysInvariant, PTL DEF SchedulerSpec

-----------------------------------------------------------------------------
(* The cap on what a scheduler has out for the drivers that claim what it  *)
(* listed.  A node counts from the moment it is listed: it is on the list, *)
(* then in the hands of claim(), then leased.                              *)
Holding(s) ==
    {k \in LeaseKey : /\ k.worker \in Listed
                      /\ At(s, "look") \/ At(s, "grant")
                      /\ k = sched[s].job.key}

InHand(s) == {k.node : k \in Holding(s)}

Out(s) == {k.node : k \in GrantedBy(s)}

Engaged(s) == Out(s) \cup sched[s].todo \cup InHand(s)

(* What is in hand depends on the job only.                                *)
LEMMA InHandOfJob ==
    ASSUME NEW s \in Schedulers
    PROVE  /\ UNCHANGED sched[s].job => InHand(s)' = InHand(s)
           /\ ~(At(s, "look") \/ At(s, "grant"))' => InHand(s)' = {}
           /\ (At(s, "look") \/ At(s, "grant"))
                 /\ sched'[s].job.key = sched[s].job.key
                => InHand(s)' \subseteq InHand(s)
<1>1. ASSUME UNCHANGED sched[s].job PROVE InHand(s)' = InHand(s)
  BY <1>1 DEF InHand, Holding, At
<1>2. ASSUME ~(At(s, "look") \/ At(s, "grant"))' PROVE InHand(s)' = {}
  BY <1>2 DEF InHand, Holding
<1>3. ASSUME At(s, "look") \/ At(s, "grant"), sched'[s].job.key = sched[s].job.key
      PROVE  InHand(s)' \subseteq InHand(s)
  <2>1. Holding(s)' \subseteq Holding(s)
    BY <1>3 DEF Holding
  <2> QED BY <2>1 DEF InHand
<1> QED BY <1>1, <1>2, <1>3

(* Another node is engaged by listing only.                                *)
LEMMA OnlyListingEngages ==
    ASSUME NEW s \in Schedulers, BaseInv, OwnKeys, [SchedulerNext]_vars,
           ~Dispatchable(s)
    PROVE  Engaged(s)' \subseteq Engaged(s)
<1> DEFINE r == sched[s]
<1>r. /\ sched \in [Schedulers -> SchedulerState]
      /\ r \in SchedulerState
  BY DEF BaseInv, SchedulerTypeOK
<1>0. ASSUME UNCHANGED <<r.todo, r.job>>, Out(s)' \subseteq Out(s)
      PROVE  Engaged(s)' \subseteq Engaged(s)
  BY <1>0, InHandOfJob DEF Engaged
<1>1. CASE ClaimGrants(s)
  <2>1. r.job.key \in LeaseKey /\ At(s, "grant")
    BY <1>1, JobAt DEF ClaimGrants, BaseInv
  <2>2. GrantedBy(s)' \subseteq GrantedBy(s) \cup {k \in {r.job.key} : k.worker \in Listed}
    BY <1>1 DEF ClaimGrants, Grant, GrantedBy, ActiveKeys, Active
  <2>3. Out(s)' \subseteq Out(s) \cup InHand(s)
    BY <2>1, <2>2 DEF Out, InHand, Holding
  <2>4. sched'[s] = [r EXCEPT !.job = [step |-> "dispatch", key |-> r.job.key]]
    BY <1>1, <1>r DEF ClaimGrants, Does
  <2>5. sched'[s].todo = r.todo /\ ~(At(s, "look") \/ At(s, "grant"))'
    BY <1>r, <2>4 DEF At, SchedulerState
  <2> QED BY <2>3, <2>5, InHandOfJob DEF Engaged
<1>2. ASSUME NEW t \in Schedulers \ {s}, ClaimGrants(t)
      PROVE  Engaged(s)' \subseteq Engaged(s)
  <2>1. sched'[s] = sched[s]
    BY <1>2, OthersStay DEF SchedulerStep
  <2>2. ActiveKeys' \subseteq ActiveKeys \cup {sched[t].job.key}
    BY <1>2 DEF ClaimGrants, Grant, ActiveKeys, Active
  <2>3. sched[t].job.key.salt[1] # s
    BY <1>2 DEF ClaimGrants, OwnKeys
  <2>4. Out(s)' \subseteq Out(s)
    BY <2>2, <2>3 DEF Out, GrantedBy
  <2> QED BY <1>0, <2>1, <2>4
<1>3. CASE ~ \E t \in Schedulers : ClaimGrants(t)
  <2>1. Out(s)' \subseteq Out(s)
    BY <1>3, OnlyGrantsActivate DEF Out, GrantedBy
  <2>2. ASSUME sched'[s].todo \cup InHand(s)' \subseteq r.todo \cup InHand(s)
        PROVE  Engaged(s)' \subseteq Engaged(s)
    BY <2>1, <2>2 DEF Engaged
  <2>3. ASSUME UNCHANGED r.todo,
               UNCHANGED r.job \/ ~(At(s, "look") \/ At(s, "grant"))'
        PROVE  Engaged(s)' \subseteq Engaged(s)
    BY <2>2, <2>3, InHandOfJob
  <2>4. ASSUME SchedulerStep(s) PROVE Engaged(s)' \subseteq Engaged(s)
    <3>1. CASE Open(s) \/ Refresh(s)
      <4>1. UNCHANGED <<r.todo, r.job>>
        BY <1>r, <3>1 DEF Open, Refresh, Rebuilt, Refreshed, SchedulerState
      <4> QED BY <2>3, <4>1
    <3>2. CASE Crash(s)
      <4>1. sched'[s].job = Nil /\ sched'[s].todo = {}
        BY <1>r, <3>2 DEF Crash, Down
      <4> QED BY <2>2, <4>1, InHandOfJob DEF At
    <3>3. ASSUME NEW n \in Nodes, NEW w \in Workers, ClaimChecks(s, n, w)
          PROVE  Engaged(s)' \subseteq Engaged(s)
      <4> DEFINE left == IF w \in Listed THEN r.todo \ {n} ELSE r.todo
                 key  == [salt |-> <<s, r.crashes>>, node |-> n, worker |-> w,
                          revision |-> graph.revision]
      <4>1. (w \in Listed => n \in r.todo) /\ left \subseteq r.todo
        BY <3>3 DEF ClaimChecks
      <4>2. /\ sched'[s].todo = left
            /\ UNCHANGED r.job \/ sched'[s].job = [step |-> "look", key |-> key]
        <5>1. \/ sched' = [sched EXCEPT ![s].todo = left,
                              ![s].job = [step |-> "look", key |-> key]]
              \/ sched' = [sched EXCEPT ![s].todo = left]
          BY <3>3 DEF ClaimChecks
        <5> HIDE DEF left, key
        <5> QED BY <1>r, <5>1 DEF SchedulerState
      <4>3. key.node = n /\ key.worker = w
        OBVIOUS
      <4> HIDE DEF left, key
      <4>4. CASE UNCHANGED r.job
        BY <2>2, <4>1, <4>2, <4>4, InHandOfJob
      <4>5. CASE sched'[s].job = [step |-> "look", key |-> key]
        <5>1. sched'[s].job.key = key
          BY <4>5
        <5>2. InHand(s)' \subseteq r.todo
          <6>1. \A k \in Holding(s)' : k = key /\ k.worker \in Listed
            BY <5>1 DEF Holding
          <6>2. \A k \in Holding(s)' : k.node \in r.todo
            BY <4>1, <4>3, <6>1
          <6> QED BY <6>2 DEF InHand
        <5> QED BY <2>2, <4>1, <4>2, <5>2
      <4> QED BY <4>2, <4>4, <4>5
    <3>4. CASE ClaimLooks(s)
      <4>1. UNCHANGED r.todo
        BY <1>r, <3>4 DEF ClaimLooks, Does, SchedulerState
      <4>2. ~At(s, "look")' /\ At(s, "look")
            /\ (At(s, "grant")' => sched'[s].job.key = r.job.key)
        BY <3>4, JobsLeft
      <4> QED BY <2>2, <4>1, <4>2, InHandOfJob
    <3>5. CASE ClaimDispatches(s) \/ RetryRecords(s)
      BY <1>r, <2>3, <3>5
      DEF ClaimDispatches, RetryRecords, Does, At, SchedulerState
    <3>6. CASE Resume(s)
      <4>1. sched'[s] = [Rebuilt(r, graph) EXCEPT !.job = [step |-> "select"]]
        BY <1>r, <3>6 DEF Resume
      <4>2. sched'[s].job.step = "select" /\ sched'[s].todo = r.todo
        BY <1>r, <4>1 DEF Rebuilt, Refreshed, SchedulerState
      <4> QED BY <2>3, <4>2 DEF At
    <3>7. CASE SweepSelects(s) \/ SweepExpires(s)
      BY <1>r, <2>3, <3>7
      DEF SweepSelects, SweepExpires, Does, At, SchedulerState
    <3>8. CASE \E n \in Nodes, id \in RetryIds : RetryCounts(s, n, id)
      BY <1>r, <2>3, <3>8 DEF RetryCounts, Does, At, SchedulerState
    <3> QED
      BY <1>3, <2>4, <3>1, <3>2, <3>3, <3>4, <3>5, <3>6, <3>7, <3>8
      DEF SchedulerStep
  <2>5. ASSUME NEW t \in Schedulers \ {s}, SchedulerStep(t)
        PROVE  Engaged(s)' \subseteq Engaged(s)
    BY <2>3, <2>5, OthersStay
  <2>6. CASE GraphMoves
    BY <1>r, <2>3, <2>6 DEF GraphMoves, SchedulerState
  <2>7. (\E k \in DOMAIN lease : Heartbeat(k) \/ Release(k)) \/ Tick
           \/ (\E w \in Mortals : Dies(w)) \/ UNCHANGED vars => UNCHANGED sched
    BY DEF Heartbeat, Release, Tick, Dies, vars
  <2> QED BY <2>3, <2>4, <2>5, <2>6, <2>7 DEF SchedulerNext
<1> QED BY <1>1, <1>2, <1>3

CapInv == \A s \in Schedulers : Cardinality(Engaged(s)) <= MaxConcurrent

(* What is engaged can be counted.                                         *)
LEMMA EngagedFinite ==
    ASSUME IsFiniteSet(Nodes), NEW s \in Schedulers, BaseInv
    PROVE  /\ IsFiniteSet(Engaged(s))
           /\ Cardinality(Engaged(s)) \in Nat
<1>1. Engaged(s) \in SUBSET Nodes
  <2>1. Out(s) \subseteq Nodes
    BY DEF Out, GrantedBy, ActiveKeys, LeaseKey, BaseInv, SchedulerTypeOK
  <2>2. InHand(s) \subseteq Nodes
    BY DEF InHand, Holding, LeaseKey
  <2>3. sched[s].todo \subseteq Nodes
    BY DEF BaseInv, SchedulerTypeOK, SchedulerState
  <2> QED BY <2>1, <2>2, <2>3 DEF Engaged
<1> QED BY <1>1, FS_Subset, FS_CardinalityType

(* A listing engages no more than there is room for.                       *)
LEMMA ListingKeepsCap ==
    ASSUME IsFiniteSet(Nodes), NEW s \in Schedulers, BaseInv, CapInv,
           Dispatchable(s)
    PROVE  Cardinality(Engaged(s)') <= MaxConcurrent
<1>1. PICK batch \in SUBSET (sched[s].index \ Leased) :
         /\ \/ Cardinality(batch) = Room
            \/ Cardinality(batch) < Room
         /\ sched' = [sched EXCEPT ![s].todo = batch]
  BY DEF Dispatchable
<1>2. Engaged(s)' = Out(s) \cup batch
  <2>1. sched'[s].todo = batch /\ UNCHANGED sched[s].job /\ sched[s].job = Nil
    BY <1>1 DEF Dispatchable, Idle, BaseInv, SchedulerTypeOK, SchedulerState
  <2>2. Out(s)' = Out(s)
    BY DEF Dispatchable, store, Out, GrantedBy, ActiveKeys, Active
  <2>3. InHand(s)' = {}
    BY <2>1 DEF InHand, Holding, At
  <2> QED BY <2>1, <2>2, <2>3 DEF Engaged
<1>3. /\ IsFiniteSet(Leased) /\ Cardinality(Leased) \in Nat
      /\ IsFiniteSet(batch) /\ Cardinality(batch) \in Nat
      /\ IsFiniteSet(Out(s)) /\ Cardinality(Out(s)) \in Nat
      /\ Cardinality(Out(s)) <= Cardinality(Leased)
      /\ Cardinality(Out(s)) <= MaxConcurrent
  <2>1. Leased \subseteq Nodes
    BY DEF Leased, ActiveKeys, LeaseKey, BaseInv, SchedulerTypeOK
  <2>2. batch \subseteq Nodes
    BY DEF BaseInv, SchedulerTypeOK, SchedulerState
  <2>3. Out(s) \subseteq Leased
    BY DEF Out, GrantedBy, Leased
  <2>4. IsFiniteSet(Leased) /\ IsFiniteSet(batch)
    BY <2>1, <2>2, FS_Subset
  <2>5. IsFiniteSet(Out(s)) /\ Cardinality(Out(s)) <= Cardinality(Leased)
    BY <2>3, <2>4, FS_Subset
  <2>6. Cardinality(Out(s)) <= Cardinality(Engaged(s))
    <3>1. Out(s) \subseteq Engaged(s)
      BY DEF Engaged
    <3> QED BY <3>1, EngagedFinite, FS_Subset
  <2>7. Cardinality(Out(s)) \in Nat /\ Cardinality(Engaged(s)) <= MaxConcurrent
    BY <2>5, FS_CardinalityType DEF CapInv
  <2> QED BY <2>4, <2>5, <2>6, <2>7, EngagedFinite, FS_CardinalityType,
             SchedulerAssumption
<1>4. CASE Cardinality(Leased) < MaxConcurrent
  <2>1. Cardinality(Leased) + Cardinality(batch) <= MaxConcurrent
    BY <1>1, <1>3, <1>4, SchedulerAssumption DEF Room
  <2>2. /\ Cardinality(Out(s) \cup batch) = Cardinality(Out(s))
              + Cardinality(batch) - Cardinality(Out(s) \cap batch)
        /\ IsFiniteSet(Out(s) \cap batch)
    BY <1>3, FS_Union, FS_Intersection
  <2>3. Cardinality(Out(s) \cap batch) \in Nat
    BY <2>2, FS_CardinalityType
  <2> QED BY <1>2, <1>3, <2>1, <2>2, <2>3, SchedulerAssumption
<1>5. CASE ~(Cardinality(Leased) < MaxConcurrent)
  <2>1. Cardinality(batch) = 0
    BY <1>1, <1>3, <1>5, SchedulerAssumption DEF Room
  <2>2. batch = {}
    BY <1>3, <2>1, FS_EmptySet
  <2>3. Engaged(s)' = Out(s)
    BY <1>2, <2>2
  <2> QED BY <1>3, <2>3
<1> QED BY <1>4, <1>5

(* None of any number of schedulers ever has more nodes out than the       *)
(* policy allows for the drivers that claim what dispatchable() lists: it  *)
(* lists no more than there is room for, and from then on nodes only leave,*)
(* whatever other drivers and schedulers claim.                            *)
THEOREM ConcurrencyCappedTheorem ==
    ASSUME IsFiniteSet(Nodes)
    PROVE  SchedulerSpec => []ConcurrencyCapped
<1>1. SchedulerInit => CapInv
  <2> SUFFICES ASSUME SchedulerInit, NEW s \in Schedulers
               PROVE  Cardinality(Engaged(s)) <= MaxConcurrent
    BY DEF CapInv
  <2>1. sched[s].todo = {} /\ sched[s].job = Nil /\ ActiveKeys = {}
    BY DEF SchedulerInit, Down, ActiveKeys, Active
  <2>2. Engaged(s) = {}
    BY <2>1 DEF Engaged, InHand, Holding, At, Out, GrantedBy
  <2> QED BY <2>2, FS_EmptySet, SchedulerAssumption
<1>2. BaseInv /\ BaseInv' /\ OwnKeys /\ CapInv /\ [SchedulerNext]_vars => CapInv'
  <2> SUFFICES ASSUME BaseInv, BaseInv', OwnKeys, CapInv, [SchedulerNext]_vars,
                      NEW s \in Schedulers
               PROVE  Cardinality(Engaged(s)') <= MaxConcurrent
    BY DEF CapInv
  <2>1. CASE Dispatchable(s)
    BY <2>1, ListingKeepsCap
  <2>2. CASE ~Dispatchable(s)
    <3>1. Engaged(s)' \subseteq Engaged(s)
      BY <2>2, OnlyListingEngages
    <3>2. /\ IsFiniteSet(Engaged(s))
          /\ Cardinality(Engaged(s)) \in Nat
          /\ Cardinality(Engaged(s)) <= MaxConcurrent
      BY EngagedFinite DEF CapInv
    <3>3. /\ Cardinality(Engaged(s)') <= Cardinality(Engaged(s))
          /\ Cardinality(Engaged(s)') \in Nat
      BY <3>1, <3>2, FS_Subset, FS_CardinalityType
    <3> QED BY <3>2, <3>3, SchedulerAssumption
  <2> QED BY <2>1, <2>2
<1>3. BaseInv /\ CapInv => ConcurrencyCapped
  <2> SUFFICES ASSUME BaseInv, CapInv, NEW s \in Schedulers
               PROVE  Cardinality({k.node : k \in GrantedBy(s) \cup Granting(s)})
                          <= MaxConcurrent
    BY DEF ConcurrencyCapped
  <2> DEFINE out == {k.node : k \in GrantedBy(s) \cup Granting(s)}
  <2>1. out \subseteq Engaged(s)
    BY DEF Engaged, Out, InHand, Holding, Granting
  <2>2. /\ IsFiniteSet(Engaged(s))
        /\ Cardinality(Engaged(s)) \in Nat
        /\ Cardinality(Engaged(s)) <= MaxConcurrent
    BY EngagedFinite DEF CapInv
  <2>3. Cardinality(out) <= Cardinality(Engaged(s)) /\ Cardinality(out) \in Nat
    <3> HIDE DEF out
    <3> QED BY <2>1, <2>2, FS_Subset, FS_CardinalityType
  <2> QED BY <2>2, <2>3, SchedulerAssumption
<1> QED BY <1>1, <1>2, <1>3, BaseInvariant, OwnKeysInvariant, PTL DEF SchedulerSpec

-----------------------------------------------------------------------------
(* The retry budgets, for a table that any number of schedulers write:     *)
(* whoever has counted and not yet written is counted with what is there.  *)
Recording == {s \in Schedulers : At(s, "retry")}

RecordingFor(n) == {s \in Recording : sched[s].job.node = n}

RetryInv ==
    LET racing == Cardinality(Schedulers) - 1 IN
    /\ IsFiniteSet(DOMAIN retries)
    /\ \A n \in Nodes :
          RetryCount(n) + Cardinality(RecordingFor(n)) <= MaxRetriesPerNode + racing
    /\ Cardinality(DOMAIN retries) + Cardinality(Recording)
          <= MaxRetriesPerGraph + racing

(* What is counted is finite.                                              *)
LEMMA RetriesCounted ==
    ASSUME IsFiniteSet(DOMAIN retries)
    PROVE  /\ Cardinality(DOMAIN retries) \in Nat
           /\ IsFiniteSet(Recording) /\ Cardinality(Recording) \in Nat
           /\ Cardinality(Recording) <= Cardinality(Schedulers)
           /\ Cardinality(Schedulers) \in Nat
           /\ \A n : /\ RetryCount(n) \in Nat
                     /\ IsFiniteSet(RecordingFor(n))
                     /\ Cardinality(RecordingFor(n)) \in Nat
                     /\ Cardinality(RecordingFor(n)) <= Cardinality(Schedulers)
<1>1. IsFiniteSet(Schedulers) /\ Cardinality(Schedulers) \in Nat
  BY SchedulerAssumption, FS_CardinalityType
<1>2. ASSUME NEW S \in SUBSET Schedulers
      PROVE  /\ IsFiniteSet(S) /\ Cardinality(S) \in Nat
             /\ Cardinality(S) <= Cardinality(Schedulers)
  BY <1>1, FS_Subset, FS_CardinalityType
<1>3. Recording \in SUBSET Schedulers /\ \A n : RecordingFor(n) \in SUBSET Schedulers
  BY DEF Recording, RecordingFor
<1>4. ASSUME NEW n PROVE RetryCount(n) \in Nat
  <2>1. {id \in DOMAIN retries : retries[id] = n} \subseteq DOMAIN retries
    OBVIOUS
  <2> QED BY <2>1, FS_Subset, FS_CardinalityType DEF RetryCount
<1> QED BY <1>1, <1>2, <1>3, <1>4, FS_CardinalityType

(* Fewer at work than before count for no more.                            *)
LEMMA FewerRecording ==
    ASSUME IsFiniteSet(DOMAIN retries), Recording' \subseteq Recording,
           \A s \in Recording' : sched'[s].job.node = sched[s].job.node
    PROVE  /\ Cardinality(Recording') \in Nat
           /\ Cardinality(Recording') <= Cardinality(Recording)
           /\ \A n : /\ Cardinality(RecordingFor(n)') \in Nat
                     /\ Cardinality(RecordingFor(n)') <= Cardinality(RecordingFor(n))
<1>1. \A n : RecordingFor(n)' \subseteq RecordingFor(n)
  BY DEF RecordingFor
<1> QED BY <1>1, RetriesCounted, FS_Subset, FS_CardinalityType

(* The record of one more retry adds at most one to either count, even     *)
(* where it replaces that of another node.                                 *)
LEMMA RecordAddsOne ==
    ASSUME NEW s \in Schedulers, IsFiniteSet(DOMAIN retries), RetryRecords(s),
           NEW node, node = sched[s].job.node
    PROVE  /\ IsFiniteSet(DOMAIN retries')
           /\ Cardinality(DOMAIN retries') <= Cardinality(DOMAIN retries) + 1
           /\ RetryCount(node)' <= RetryCount(node) + 1
           /\ \A n : n # node => RetryCount(n)' <= RetryCount(n)
<1>0. PICK id : id = sched[s].job.id
  OBVIOUS
<1> DEFINE D == DOMAIN retries
           Of(n) == {i \in D : retries[i] = n}
           OfNext(n) == {i \in D \cup {id} : retries'[i] = n}
<1>1. /\ retries' = [i \in D \cup {id} |-> IF i = id THEN node ELSE retries[i]]
      /\ IsFiniteSet(D)
  BY <1>0 DEF RetryRecords
<1>2. \A n : /\ RetryCount(n) = Cardinality(Of(n))
             /\ RetryCount(n)' = Cardinality(OfNext(n))
  BY <1>1 DEF RetryCount
<1>3. \A n : IsFiniteSet(Of(n))
  BY <1>1, FS_Subset
<1>4. ASSUME NEW S, IsFiniteSet(S), NEW T
      PROVE  /\ T \subseteq S => Cardinality(T) <= Cardinality(S)
             /\ T \subseteq S \cup {id} =>
                   IsFiniteSet(T) /\ Cardinality(T) <= Cardinality(S) + 1
  <2>1. /\ IsFiniteSet(S \cup {id}) /\ Cardinality(S) \in Nat
        /\ Cardinality(S \cup {id}) =
              IF id \in S THEN Cardinality(S) ELSE Cardinality(S) + 1
    BY <1>4, FS_AddElement, FS_CardinalityType
  <2>2. T \subseteq S => Cardinality(T) <= Cardinality(S)
    BY <1>4, FS_Subset
  <2>3. ASSUME T \subseteq S \cup {id}
        PROVE  /\ IsFiniteSet(T) /\ Cardinality(T) \in Nat
               /\ Cardinality(T) <= Cardinality(S \cup {id})
    BY <2>1, <2>3, FS_Subset, FS_CardinalityType
  <2> QED BY <2>1, <2>2, <2>3
<1>5. DOMAIN retries' = D \cup {id}
  BY <1>1
<1>6. OfNext(node) \subseteq Of(node) \cup {id}
  BY <1>1
<1>7. \A n : n # node => OfNext(n) \subseteq Of(n)
  BY <1>1
<1>8. IsFiniteSet(DOMAIN retries') /\ Cardinality(DOMAIN retries') <= Cardinality(D) + 1
  BY <1>1, <1>4, <1>5
<1> HIDE DEF Of, OfNext
<1>9. Cardinality(OfNext(node)) <= Cardinality(Of(node)) + 1
  BY <1>3, <1>4, <1>6
<1>10. \A n : n # node => Cardinality(OfNext(n)) <= Cardinality(Of(n))
  BY <1>3, <1>4, <1>7
<1> QED BY <1>2, <1>8, <1>9, <1>10

(* Nothing else writes to the table of retries.                            *)
LEMMA OnlyRecordsRetry ==
    ASSUME [SchedulerNext]_vars, ~ \E s \in Schedulers : RetryRecords(s)
    PROVE  UNCHANGED retries
<1>1. ASSUME NEW s \in Schedulers, SchedulerStep(s) PROVE UNCHANGED retries
  BY <1>1
  DEF SchedulerStep, Open, Crash, Refresh, Dispatchable, ClaimChecks, ClaimLooks,
      ClaimGrants, ClaimDispatches, Resume, SweepSelects, SweepExpires,
      RetryCounts, store
<1>2. GraphMoves \/ Tick \/ (\E w \in Mortals : Dies(w)) \/ UNCHANGED vars
         \/ (\E k \in DOMAIN lease : Heartbeat(k) \/ Release(k))
         => UNCHANGED retries
  BY DEF GraphMoves, Tick, Dies, Heartbeat, Release, vars, store
<1> QED BY <1>1, <1>2 DEF SchedulerNext

(* A scheduler that counts is counted from then on: there was room for it. *)
LEMMA CountKeepsBudget ==
    ASSUME NEW s \in Schedulers, NEW n \in Nodes, NEW id \in RetryIds,
           BaseInv, RetryInv, RetryCounts(s, n, id)
    PROVE  RetryInv'
<1>1. UNCHANGED retries /\ RetryBudgetLeft(n)
  BY DEF RetryCounts, store
<1>2. \A m : RetryCount(m)' = RetryCount(m)
  BY <1>1 DEF RetryCount
<1>3. /\ sched'[s].job.node = n
      /\ \A t \in Schedulers \ {s} : sched'[t] = sched[t]
  BY DEF RetryCounts, Does, BaseInv, SchedulerTypeOK, SchedulerState
<1>4. \A m : m # n => RecordingFor(m)' \subseteq RecordingFor(m)
  BY <1>3 DEF RecordingFor, Recording, At
<1>5. \A m : m # n => Cardinality(RecordingFor(m)') <= Cardinality(RecordingFor(m))
  BY <1>4, RetriesCounted, FS_Subset DEF RetryInv
<1>6. /\ IsFiniteSet(DOMAIN retries') /\ IsFiniteSet(DOMAIN retries)
      /\ DOMAIN retries' = DOMAIN retries
  BY <1>1 DEF RetryInv
<1>7. /\ Cardinality(Recording') \in Nat
      /\ Cardinality(Recording') <= Cardinality(Schedulers)
      /\ Cardinality(Schedulers) \in Nat
      /\ \A m : /\ Cardinality(RecordingFor(m)') \in Nat
                /\ Cardinality(RecordingFor(m)') <= Cardinality(Schedulers)
  <2>1. IsFiniteSet(Schedulers) /\ Cardinality(Schedulers) \in Nat
    BY SchedulerAssumption, FS_CardinalityType
  <2>2. Recording' \subseteq Schedulers /\ \A m : RecordingFor(m)' \subseteq Schedulers
    BY DEF Recording, RecordingFor
  <2> QED BY <2>1, <2>2, FS_Subset, FS_CardinalityType
<1>8. /\ RetryCount(n) < MaxRetriesPerNode
      /\ Cardinality(DOMAIN retries) < MaxRetriesPerGraph
      /\ Cardinality(DOMAIN retries) \in Nat
      /\ \A m : RetryCount(m) \in Nat /\ Cardinality(RecordingFor(m)) \in Nat
  BY <1>1, <1>6, RetriesCounted DEF RetryBudgetLeft
<1>9. \A m \in Nodes :
         RetryCount(m)' + Cardinality(RecordingFor(m)')
            <= MaxRetriesPerNode + (Cardinality(Schedulers) - 1)
  BY <1>2, <1>5, <1>7, <1>8, SchedulerAssumption DEF RetryInv
<1>10. Cardinality(DOMAIN retries') + Cardinality(Recording')
          <= MaxRetriesPerGraph + (Cardinality(Schedulers) - 1)
  BY <1>6, <1>7, <1>8, SchedulerAssumption
<1> QED BY <1>6, <1>9, <1>10 DEF RetryInv

(* Who writes is no longer counted, and what it writes is.                 *)
LEMMA RecordKeepsBudget ==
    ASSUME NEW s \in Schedulers, BaseInv, RetryInv, RetryRecords(s)
    PROVE  RetryInv'
<1>n. PICK n : n = sched[s].job.node
  OBVIOUS
<1> DEFINE R(m) == Cardinality(RecordingFor(m))
<1>0. /\ s \in Recording /\ s \in RecordingFor(n)
      /\ IsFiniteSet(DOMAIN retries)
  BY <1>n DEF RetryRecords, Recording, RecordingFor, RetryInv
<1>1. ~At(s, "retry")' /\ \A t \in Schedulers \ {s} : sched'[t] = sched[t]
  BY DEF RetryRecords, Does, At, BaseInv, SchedulerTypeOK, SchedulerState
<1>2. /\ Recording' = Recording \ {s}
      /\ RecordingFor(n)' = RecordingFor(n) \ {s}
      /\ \A m : m # n => RecordingFor(m)' = RecordingFor(m)
  <2>1. Recording' = Recording \ {s}
    BY <1>1 DEF Recording, At
  <2>2. \A t \in Recording' : sched'[t].job.node = sched[t].job.node
    BY <1>1, <2>1 DEF Recording
  <2>3. ASSUME NEW m PROVE RecordingFor(m)' = RecordingFor(m) \ {s}
    <3>1. RecordingFor(m)' = {t \in Recording' : sched'[t].job.node = m}
      BY DEF RecordingFor
    <3>2. RecordingFor(m) = {t \in Recording : sched[t].job.node = m}
      BY DEF RecordingFor
    <3> QED BY <2>1, <2>2, <3>1, <3>2
  <2>4. \A m : m # n => s \notin RecordingFor(m)
    BY <1>n DEF RecordingFor
  <2> QED BY <2>1, <2>3, <2>4
<1>3. /\ Cardinality(Recording') = Cardinality(Recording) - 1
      /\ R(n)' = R(n) - 1
      /\ \A m : m # n => R(m)' = R(m)
  <2>1. IsFiniteSet(Recording) /\ IsFiniteSet(RecordingFor(n))
    BY <1>0, RetriesCounted
  <2>2. Cardinality(Recording \ {s}) = Cardinality(Recording) - 1
    BY <1>0, <2>1, FS_RemoveElement
  <2>3. Cardinality(RecordingFor(n) \ {s}) = Cardinality(RecordingFor(n)) - 1
    BY <1>0, <2>1, FS_RemoveElement
  <2> QED BY <1>2, <2>2, <2>3
<1>4. /\ IsFiniteSet(DOMAIN retries')
      /\ Cardinality(DOMAIN retries') <= Cardinality(DOMAIN retries) + 1
      /\ RetryCount(n)' <= RetryCount(n) + 1
      /\ \A m : m # n => RetryCount(m)' <= RetryCount(m)
  BY <1>n, <1>0, RecordAddsOne
<1>5. /\ Cardinality(DOMAIN retries) \in Nat /\ Cardinality(Recording) \in Nat
      /\ Cardinality(Schedulers) \in Nat
      /\ \A m : RetryCount(m) \in Nat /\ R(m) \in Nat
  BY <1>0, RetriesCounted
<1>6. /\ Cardinality(DOMAIN retries') \in Nat
      /\ \A m : RetryCount(m)' \in Nat
  <2>1. \A m : {id \in DOMAIN retries' : retries'[id] = m} \subseteq DOMAIN retries'
    OBVIOUS
  <2> QED BY <1>4, <2>1, FS_Subset, FS_CardinalityType DEF RetryCount
<1> HIDE DEF R
<1>7. \A m \in Nodes :
         RetryCount(m)' + R(m)' <= MaxRetriesPerNode + (Cardinality(Schedulers) - 1)
  <2>1. \A m \in Nodes :
           RetryCount(m) + R(m) <= MaxRetriesPerNode + (Cardinality(Schedulers) - 1)
    BY DEF RetryInv, R
  <2> SUFFICES ASSUME NEW m \in Nodes
               PROVE  RetryCount(m)' + R(m)'
                         <= MaxRetriesPerNode + (Cardinality(Schedulers) - 1)
    OBVIOUS
  <2>2. /\ RetryCount(m) \in Nat /\ R(m) \in Nat /\ RetryCount(m)' \in Nat
        /\ RetryCount(m) + R(m) <= MaxRetriesPerNode + (Cardinality(Schedulers) - 1)
    BY <1>5, <1>6, <2>1
  <2>3. CASE m = n
    <3>1. R(m)' = R(m) - 1 /\ RetryCount(m)' <= RetryCount(m) + 1
      BY <1>3, <1>4, <2>3 DEF R
    <3> QED BY <1>5, <2>2, <3>1, SchedulerAssumption
  <2>4. CASE m # n
    <3>1. R(m)' = R(m) /\ RetryCount(m)' <= RetryCount(m)
      BY <1>3, <1>4, <2>4 DEF R
    <3> QED BY <1>5, <2>2, <3>1, SchedulerAssumption
  <2> QED BY <2>3, <2>4
<1>8. Cardinality(DOMAIN retries') + Cardinality(Recording')
          <= MaxRetriesPerGraph + (Cardinality(Schedulers) - 1)
  <2>1. Cardinality(DOMAIN retries) + Cardinality(Recording)
          <= MaxRetriesPerGraph + (Cardinality(Schedulers) - 1)
    BY DEF RetryInv
  <2> QED BY <1>3, <1>4, <1>5, <1>6, <2>1, SchedulerAssumption
<1> QED BY <1>4, <1>7, <1>8 DEF RetryInv, R

(* Any number of schedulers, counting and writing in any order, exceed     *)
(* either retry budget by at most one for each beyond the first.           *)
THEOREM RetriesBoundedTheorem == SchedulerSpec => []RetriesBounded
<1>1. SchedulerInit => RetryInv
  <2> SUFFICES ASSUME SchedulerInit PROVE RetryInv
    OBVIOUS
  <2>1. DOMAIN retries = {}
    BY DEF SchedulerInit
  <2>2. \A n : {id \in DOMAIN retries : retries[id] = n} = {}
    BY <2>1
  <2>3. IsFiniteSet({}) /\ Cardinality({}) = 0
    BY FS_EmptySet
  <2>4. Recording = {} /\ \A n : RecordingFor(n) = {}
    BY DEF SchedulerInit, Recording, RecordingFor, At, Down
  <2>5. \A n : RetryCount(n) = 0
    BY <2>2, <2>3 DEF RetryCount
  <2>6. Cardinality(Schedulers) \in Nat \ {0}
    BY SchedulerAssumption, FS_EmptySet, FS_CardinalityType
  <2>7. /\ Cardinality(DOMAIN retries) = 0 /\ IsFiniteSet(DOMAIN retries)
        /\ Cardinality(Recording) = 0
        /\ \A n : Cardinality(RecordingFor(n)) = 0
    BY <2>1, <2>3, <2>4
  <2> QED BY <2>5, <2>6, <2>7, SchedulerAssumption DEF RetryInv
<1>2. BaseInv /\ RetryInv /\ [SchedulerNext]_vars => RetryInv'
  <2> SUFFICES ASSUME BaseInv, RetryInv, [SchedulerNext]_vars PROVE RetryInv'
    OBVIOUS
  <2>1. CASE \E s \in Schedulers : RetryRecords(s)
    BY <2>1, RecordKeepsBudget
  <2>2. CASE \E s \in Schedulers : CountsRetry(s)
    BY <2>2, CountKeepsBudget DEF CountsRetry
  <2>3. CASE /\ ~ \E s \in Schedulers : RetryRecords(s)
             /\ ~ \E s \in Schedulers : CountsRetry(s)
    <3>1. UNCHANGED retries
      BY <2>3, OnlyRecordsRetry
    <3>2. ASSUME NEW s \in Schedulers, At(s, "retry")'
          PROVE  UNCHANGED sched[s].job
      BY <2>3, <3>2, OnlyChecksPermit, JobsLeft
    <3>3. /\ Recording' \subseteq Recording
          /\ \A s \in Recording' : sched'[s].job.node = sched[s].job.node
      BY <3>2 DEF Recording, At
    <3>4. /\ Cardinality(Recording') \in Nat
          /\ Cardinality(Recording') <= Cardinality(Recording)
          /\ \A n : /\ Cardinality(RecordingFor(n)') \in Nat
                    /\ Cardinality(RecordingFor(n)') <= Cardinality(RecordingFor(n))
      BY <3>3, FewerRecording DEF RetryInv
    <3>5. \A n : RetryCount(n)' = RetryCount(n)
      BY <3>1 DEF RetryCount
    <3>6. /\ Cardinality(DOMAIN retries) \in Nat /\ Cardinality(Recording) \in Nat
          /\ Cardinality(Schedulers) \in Nat
          /\ \A n : RetryCount(n) \in Nat /\ Cardinality(RecordingFor(n)) \in Nat
      BY RetriesCounted DEF RetryInv
    <3> QED BY <3>1, <3>4, <3>5, <3>6, SchedulerAssumption DEF RetryInv
  <2> QED BY <2>1, <2>2, <2>3
<1>3. RetryInv => RetriesBounded
  <2> SUFFICES ASSUME RetryInv PROVE RetriesBounded
    OBVIOUS
  <2>1. /\ Cardinality(DOMAIN retries) \in Nat /\ Cardinality(Recording) \in Nat
        /\ Cardinality(Schedulers) \in Nat
        /\ \A n : RetryCount(n) \in Nat /\ Cardinality(RecordingFor(n)) \in Nat
    BY RetriesCounted DEF RetryInv
  <2> QED BY <2>1, SchedulerAssumption DEF RetryInv, RetriesBounded
<1> QED BY <1>1, <1>2, <1>3, BaseInvariant, PTL DEF SchedulerSpec

-----------------------------------------------------------------------------
(* The incremental index.  What readiness reads of a node that no          *)
(* operation of an envelope names is left alone by the envelope.           *)
SameOutside(g, next, D) ==
    /\ \A n \in Nodes \ D : next.life[n] = g.life[n] /\ next.gate[n] = g.gate[n]
    /\ \A e \in Edge : e.source \notin D => (e \in next.edges <=> e \in g.edges)

(* One operation leaves alone what it does not name.                       *)
LEMMA OperationTouches ==
    ASSUME NEW w \in WorkSet, NEW op \in Operation
    PROVE  SameOutside(w.graph, ApplyOperation(w, op).graph, DirtyOf(op))
<1> DEFINE g == w.graph
           u == ApplyOperation(w, op)
<1>g. g \in Graph
  BY DEF WorkSet
<1>n. SameOutside(g, g, DirtyOf(op))
  BY DEF SameOutside
<1>1. CASE op \in [type : {"add_intent_node", "remove_intent_node"},
                   intent : Intents]
  <2>1. u.graph \in {g, [g EXCEPT !.intents = @ \cup {op.intent}],
                        [g EXCEPT !.intents = @ \ {op.intent}]}
    BY <1>1 DEF ApplyOperation, Insert, Remove, Fail, WorkSet
  <2> QED BY <1>g, <1>n, <2>1 DEF SameOutside, Graph
<1>2. CASE op \in [type : {"add_intent_edge", "remove_intent_edge"},
                   link : IntentEdge]
  <2>1. u.graph \in {g, [g EXCEPT !.links = @ \cup {op.link}],
                        [g EXCEPT !.links = @ \ {op.link}]}
    BY <1>2 DEF ApplyOperation, Insert, Remove, Fail, WorkSet
  <2> QED BY <1>g, <1>n, <2>1 DEF SameOutside, Graph
<1>3. CASE op \in [type : {"add_schedulable_edge", "remove_schedulable_edge"},
                   edge : Edge]
  <2>1. u.graph \in {g, [g EXCEPT !.edges = @ \cup {op.edge}],
                        [g EXCEPT !.edges = @ \ {op.edge}]}
    BY <1>3 DEF ApplyOperation, Insert, Remove, Fail, WorkSet
  <2>2. DirtyOf(op) = {op.edge.source}
    BY <1>3 DEF DirtyOf
  <2> QED BY <1>g, <1>n, <2>1, <2>2 DEF SameOutside, Graph
<1>4. CASE op \in [type : {"add_relation"}, relation : Relation]
  <2>1. u.graph \in {g, [g EXCEPT !.relations = @ \cup {op.relation}]}
    BY <1>4 DEF ApplyOperation, Insert, WorkSet
  <2> QED BY <1>g, <1>n, <2>1 DEF SameOutside, Graph
<1>5. CASE op \in [type : {"record_evidence"}, evidence : Evidence]
  <2>1. u.graph \in {g, [g EXCEPT !.evidence = @ \cup {op.evidence}]}
    BY <1>5 DEF ApplyOperation, Insert, WorkSet
  <2> QED BY <1>g, <1>n, <2>1 DEF SameOutside, Graph
<1>6. CASE op \in [type : {"add_execution_node"}, node : Nodes,
                   intent : Intents, life : Lifecycle, gate : ControlState,
                   group : CandidateGroups \cup {Nil}]
  <2> DEFINE next ==
        [g EXCEPT !.life[op.node] = op.life, !.plan[op.node] = op.intent,
                  !.gate[op.node] = op.gate, !.group[op.node] = op.group]
  <2>1. u.graph = g \/ u.graph = next
    BY <1>6 DEF ApplyOperation, AddNode, Insert, WorkSet
  <2>2. DirtyOf(op) = {op.node}
    BY <1>6 DEF DirtyOf
  <2>3. /\ \A n \in Nodes \ {op.node} :
              next.life[n] = g.life[n] /\ next.gate[n] = g.gate[n]
        /\ next.edges = g.edges
    BY <1>g DEF Graph
  <2> HIDE DEF next
  <2> QED BY <1>n, <2>1, <2>2, <2>3 DEF SameOutside
<1>7. CASE op \in [type : {"approve_mutation"}, mutation : MutationIds]
  <2>1. u.graph = [g EXCEPT !.approvals = @ \cup {op.mutation}]
    BY <1>7 DEF ApplyOperation, WorkSet, Graph
  <2> QED BY <1>g, <2>1 DEF SameOutside, Graph
<1>8. CASE op \in [type : {"transition_node"}, node : Nodes,
                   from : Lifecycle, to : Lifecycle]
  <2>1. u.graph \in {g, [g EXCEPT !.life[op.node] = op.to]}
    BY <1>8 DEF ApplyOperation, TransitionNode, Fail, WorkSet, Graph
  <2>2. DirtyOf(op) = {op.node}
    BY <1>8 DEF DirtyOf
  <2>3. /\ \A n \in Nodes \ {op.node} : u.graph.life[n] = g.life[n]
        /\ u.graph.gate = g.gate
        /\ u.graph.edges = g.edges
    BY <1>g, <2>1 DEF Graph
  <2> HIDE DEF u
  <2> QED BY <2>2, <2>3 DEF SameOutside, u
<1>9. CASE op \in [type : {"acquire_lease"}, lease : Leases,
                   record : LeaseRecord]
  <2>1. u.graph \in {g, [g EXCEPT !.leases[op.lease] = op.record]}
    BY <1>9 DEF ApplyOperation, AcquireLease, Fail, WorkSet, Graph
  <2> QED BY <1>g, <1>n, <2>1 DEF SameOutside, Graph
<1>10. CASE op \in [type : {"release_lease"}, lease : Leases]
  <2>1. u.graph \in {g, [g EXCEPT !.leases[op.lease].state = "released"]}
    BY <1>10 DEF ApplyOperation, ReleaseLease, Fail, WorkSet, Graph
  <2> QED BY <1>g, <1>n, <2>1 DEF SameOutside, Graph
<1>11. CASE op \in [type : {"set_control"}, control : Controls,
                    record : ControlRecord]
  <2>1. u.graph = [g EXCEPT !.controls[op.control] = op.record]
    BY <1>11 DEF ApplyOperation, WorkSet, Graph
  <2>2. u.graph.life = g.life /\ u.graph.gate = g.gate /\ u.graph.edges = g.edges
    BY <1>g, <2>1 DEF Graph
  <2> QED BY <2>2 DEF SameOutside
<1>12. CASE op \in [type : {"promote_candidate"}, node : Nodes, group : Groups]
  <2>1. u.graph \in {g, [g EXCEPT !.group[op.node] = op.group]}
    BY <1>12 DEF ApplyOperation, PromoteCandidate, Fail, WorkSet, Graph
  <2> QED BY <1>g, <1>n, <2>1 DEF SameOutside, Graph
<1>13. CASE op \in [type : {"compensate"}, mutation : MutationIds,
                    node : Nodes, replacement : Nodes]
  <2>1. u.graph = g
    BY <1>13 DEF ApplyOperation, Compensate
  <2> QED BY <1>n, <2>1
<1> QED
  BY <1>1, <1>2, <1>3, <1>4, <1>5, <1>6, <1>7, <1>8, <1>9, <1>10, <1>11,
     <1>12, <1>13 DEF Operation

Named(env) == UNION {DirtyOf(op) : op \in OpsOf(env)}

(* So does the fold of an envelope's operations.                           *)
LEMMA EnvelopeTouches ==
    ASSUME NEW g \in Graph, NEW env \in Envelope
    PROVE  LET w == ApplyOperations(g, env.ops)
           IN  w.graph \in Graph /\ SameOutside(g, w.graph, Named(env))
<1> DEFINE ops == env.ops
           W == {w \in WorkSet : SameOutside(g, w.graph, Named(env))}
<1>1. ops \in Seq(Operation) /\ Len(ops) \in Nat
  BY DEF Envelope
<1>2. Work(g) \in W
  BY WorkTyped DEF Work, SameOutside
<1>3. ASSUME NEW w \in W, NEW i \in 1..Len(ops)
      PROVE  Step(w, ops[i]) \in W
  <2> DEFINE op == ops[i]
             u == ApplyOperation(w, op)
  <2>1. op \in Operation /\ op \in OpsOf(env)
    BY <1>1 DEF OpsOf
  <2>2. w \in WorkSet /\ u \in WorkSet
    BY <2>1, ApplyTyped
  <2>3. SameOutside(w.graph, u.graph, DirtyOf(op))
    BY <2>1, <2>2, OperationTouches
  <2>4. DirtyOf(op) \subseteq Named(env)
    BY <2>1 DEF Named
  <2> HIDE DEF op, u
  <2>5. SameOutside(g, u.graph, Named(env))
    BY <2>3, <2>4 DEF SameOutside
  <2> QED BY <2>2, <2>5 DEF Step, u, op
<1> HIDE DEF ops, W
<1>4. ApplyOperations(g, ops) \in W
  BY <1>1, <1>2, <1>3, FoldStaysIn
<1> QED BY <1>4 DEF ops, W, WorkSet

(* The readiness pass moves nodes that nobody named, but only between      *)
(* admitted and ready, which the scheduler's readiness does not tell apart.*)
Runnable == {"admitted", "ready"}

ReadyAlike(g, next, D) ==
    /\ \A n \in Nodes \ D : /\ next.gate[n] = g.gate[n]
                            /\ next.life[n] \in Runnable <=> g.life[n] \in Runnable
                            /\ next.life[n] = "succeeded" <=> g.life[n] = "succeeded"
    /\ \A e \in Edge : e.source \notin D => (e \in next.edges <=> e \in g.edges)

(* An envelope leaves the readiness of what it does not name alone.        *)
LEMMA ResultTouches ==
    ASSUME NEW g \in Graph, NEW env \in Envelope
    PROVE  ReadyAlike(g, Result(g, env), Named(env))
<1> DEFINE w == ApplyOperations(g, env.ops)
           d == DeriveReadiness(w.graph)
           next == [d EXCEPT !.revision = @ + 1, !.history = Append(@, env)]
<1>1. Result(g, env) = next
  BY DEF Result, Commit
<1>2. w.graph \in Graph /\ SameOutside(g, w.graph, Named(env))
  BY EnvelopeTouches
<1> HIDE DEF w
<1>3. /\ d \in Graph
      /\ \A n \in Nodes : \/ d.life[n] = w.graph.life[n]
                          \/ <<w.graph.life[n], d.life[n]>> \in Derived
      /\ d = [w.graph EXCEPT !.life = d.life]
  BY <1>2, DeriveReadinessSettles
<1> HIDE DEF d
<1>4. d.gate = w.graph.gate /\ d.edges = w.graph.edges
  BY <1>2, <1>3 DEF Graph
<1>5. next.life = d.life /\ next.gate = d.gate /\ next.edges = d.edges
  BY <1>3 DEF Graph
<1> HIDE DEF next
<1>6. \A n \in Nodes :
         /\ next.life[n] \in Runnable <=> w.graph.life[n] \in Runnable
         /\ next.life[n] = "succeeded" <=> w.graph.life[n] = "succeeded"
  BY <1>3, <1>5 DEF Derived, Runnable
<1> QED BY <1>1, <1>2, <1>4, <1>5, <1>6 DEF SameOutside, ReadyAlike

(* A node keeps its readiness unless it, or a predecessor of it, is named. *)
LEMMA ReadinessIsLocal ==
    ASSUME NEW g \in Graph, NEW next \in Graph, NEW D \in SUBSET Nodes,
           ReadyAlike(g, next, D), NEW n \in Nodes \ D,
           \A e \in next.edges : e.source = n => e.target \notin D
    PROVE  NodeIsReady(next, n) <=> NodeIsReady(g, n)
<1>1. \A e \in Edge : e.source = n => (e \in next.edges <=> e \in g.edges)
  BY DEF ReadyAlike
<1>2. g.edges \subseteq Edge /\ next.edges \subseteq Edge
  BY DEF Graph
<1>3. ASSUME NEW e \in next.edges, e.source = n
      PROVE  next.life[e.target] = "succeeded" <=> g.life[e.target] = "succeeded"
  <2>1. e.target \in Nodes \ D
    BY <1>2, <1>3 DEF Edge
  <2> QED BY <2>1 DEF ReadyAlike
<1>4. Satisfied(next, n) <=> Satisfied(g, n)
  BY <1>1, <1>2, <1>3 DEF Satisfied
<1> QED BY <1>4 DEF ReadyAlike, NodeIsReady, Runnable

(* What a scheduler's record says of the graph: outside the frontier, what *)
(* is in the index is ready and what is not is not, or the graph was       *)
(* paused and the index is empty; and a record as of now has all of it.    *)
Tracks(r, g) ==
    /\ r.seen <= g.revision
    /\ r.seen = g.revision => r.dirty = {} /\ r.paused = GraphPaused(g)
    /\ r.paused => r.index = {}
    /\ ~r.paused => \A n \in Nodes \ Frontier(r, g) :
                        n \in r.index <=> NodeIsReady(g, n)

(* A rebuilt record is right.                                              *)
LEMMA RefreshTracks ==
    ASSUME NEW r \in SchedulerState, RevisionInv
    PROVE  Tracks(Refreshed(r, graph, FullReady(graph)), graph)
<1> DEFINE u == Refreshed(r, graph, FullReady(graph))
<1>1. /\ u.index = FullReady(graph)
      /\ u.paused = GraphPaused(graph)
      /\ u.seen = graph.revision
      /\ u.dirty = {}
  BY DEF Refreshed, SchedulerState
<1>2. graph.revision \in Nat
  BY LedgerAssumption DEF RevisionInv
<1> HIDE DEF u
<1>3. CASE GraphPaused(graph)
  <2>1. u.paused = TRUE /\ u.index = {}
    BY <1>1, <1>3 DEF FullReady
  <2>2. Tracks(u, graph)
    BY <1>1, <1>2, <2>1 DEF Tracks
  <2> QED BY <2>2 DEF u
<1>4. CASE ~GraphPaused(graph)
  <2>1. /\ u.paused = FALSE
        /\ u.index = {n \in Nodes : NodeIsReady(graph, n)}
    BY <1>1, <1>4 DEF FullReady, GraphPaused
  <2>2. Tracks(u, graph)
    BY <1>1, <1>2, <2>1 DEF Tracks
  <2> QED BY <2>2 DEF u
<1> QED BY <1>3, <1>4

(* Incremental is safe: what apply() computes is the ready set.            *)
LEMMA AppliedIsFull ==
    ASSUME NEW r \in SchedulerState, NEW g, Tracks(r, g)
    PROVE  Applied(r, g) = FullReady(g)
<1>1. r.index \subseteq Nodes
  BY DEF SchedulerState
<1>2. \A n \in Nodes : NodeIsReady(g, n) => n \in Present(g)
  BY DEF NodeIsReady, Present
<1>3. Present(g) \subseteq Nodes
  BY DEF Present
<1>4. CASE r.paused
  <2>1. Frontier(r, g) = Present(g) /\ r.index = {}
    BY <1>4 DEF Frontier, Tracks
  <2> QED BY <1>2, <1>3, <2>1 DEF Applied, FullReady
<1>5. CASE ~r.paused
  <2>1. \A n \in Nodes \ Frontier(r, g) : n \in r.index <=> NodeIsReady(g, n)
    BY <1>5 DEF Tracks
  <2> QED BY <1>1, <1>2, <1>3, <2>1 DEF Applied, FullReady
<1> QED BY <1>4, <1>5 DEF SchedulerState

(* An index as of the graph's revision is the ready set.                   *)
LEMMA CurrentIsFull ==
    ASSUME NEW r \in SchedulerState, NEW g, Tracks(r, g), r.seen = g.revision
    PROVE  r.index = FullReady(g)
<1>1. CASE r.paused
  BY <1>1 DEF Tracks, FullReady
<1>2. CASE ~r.paused
  <2>1. Frontier(r, g) = {}
    BY <1>2 DEF Tracks, Frontier
  <2> QED BY <1>2, <2>1 DEF Tracks, FullReady, SchedulerState
<1> QED BY <1>1, <1>2 DEF SchedulerState

(* A commit whose operations' nodes are noted keeps the record right.      *)
LEMMA CommitTracks ==
    ASSUME NEW r \in SchedulerState, NEW g \in Graph, NEW env \in Envelope,
           MutationValid(g, env), Tracks(r, g)
    PROVE  Tracks([r EXCEPT !.dirty = @ \cup Named(env)], Result(g, env))
<1> DEFINE u == [r EXCEPT !.dirty = @ \cup Named(env)]
           next == Result(g, env)
<1>1. next \in Graph /\ next.revision = g.revision + 1
  BY ResultOfEnvelope
<1>2. /\ u.index = r.index
      /\ u.paused = r.paused
      /\ u.seen = r.seen
      /\ u.dirty = r.dirty \cup Named(env)
  BY DEF SchedulerState
<1>3. ReadyAlike(g, next, Named(env)) /\ Named(env) \in SUBSET Nodes
  BY ResultTouches, EnvelopesNameNodes DEF Named
<1>4. r.seen \in Nat /\ g.revision \in Nat
  BY LedgerAssumption DEF SchedulerState, Graph
<1> HIDE DEF u, next
<1>5. ASSUME ~u.paused, NEW n \in Nodes \ Frontier(u, next)
      PROVE  n \in u.index <=> NodeIsReady(next, n)
  <2>1. /\ n \notin r.dirty \cup Named(env)
        /\ \A e \in next.edges : e.source = n => e.target \notin r.dirty \cup Named(env)
    BY <1>2, <1>5 DEF Frontier, Dependants
  <2>2. NodeIsReady(next, n) <=> NodeIsReady(g, n)
    BY <1>1, <1>3, <2>1, ReadinessIsLocal
  <2>3. n \notin Frontier(r, g)
    <3>1. g.edges \subseteq Edge
      BY DEF Graph
    <3>2. \A e \in g.edges : e.source = n => e \in next.edges
      BY <1>3, <2>1, <3>1 DEF ReadyAlike
    <3> QED BY <1>2, <1>5, <2>1, <3>2 DEF Frontier, Dependants
  <2> QED BY <1>2, <1>5, <2>2, <2>3 DEF Tracks
<1>6. (u.paused => u.index = {}) /\ u.seen < next.revision
  BY <1>1, <1>2, <1>4 DEF Tracks
<1>7. u.seen \in Nat /\ next.revision \in Nat
  BY <1>1, <1>2, <1>4 DEF Graph
<1>8. Tracks(u, next)
  BY <1>5, <1>6, <1>7 DEF Tracks
<1> QED BY <1>8 DEF u, next

IndexInv ==
    \A s \in Schedulers :
        sched[s].open => graph.id # Nil /\ Tracks(sched[s], graph)

View(r) == <<r.open, r.index, r.paused, r.seen, r.dirty>>

(* Whether it is right depends on these fields only.                       *)
LEMMA SameViewTracks ==
    ASSUME NEW r, NEW u, View(u) = View(r), NEW g, Tracks(r, g)
    PROVE  Tracks(u, g)
  BY DEF View, Tracks, Frontier

(* A step of a scheduler leaves its index alone, or rebuilds or applies.   *)
LEMMA StepKeepsIndex ==
    ASSUME RevisionInv, SchedulerTypeOK, IndexInv,
           NEW s \in Schedulers, SchedulerStep(s)
    PROVE  IndexInv'
<1> DEFINE r == sched[s]
           full == Refreshed(r, graph, FullReady(graph))
<1>r. /\ sched \in [Schedulers -> SchedulerState]
      /\ r \in SchedulerState
  BY DEF SchedulerTypeOK
<1>f. Tracks(full, graph)
  BY <1>r, RefreshTracks
<1>1. \A t \in Schedulers \ {s} : sched'[t] = sched[t]
  <2>1. \E x : sched' = [sched EXCEPT ![s] = x]
    BY DEF SchedulerStep, Open, Crash, Refresh, Dispatchable, ClaimChecks,
           ClaimLooks, ClaimGrants, ClaimDispatches, Resume, SweepSelects,
           SweepExpires, RetryCounts, RetryRecords, Does
  <2> QED BY <1>r, <2>1
<1>2. UNCHANGED graph
  BY DEF SchedulerStep, Open, Crash, Refresh, Dispatchable, ClaimChecks,
         ClaimLooks, ClaimGrants, ClaimDispatches, Resume, SweepSelects,
         SweepExpires, RetryCounts, RetryRecords
<1>3. ASSUME sched'[s].open => graph.id # Nil /\ Tracks(sched'[s], graph)
      PROVE  IndexInv'
  BY <1>1, <1>2, <1>3 DEF IndexInv
<1>4. ASSUME View(sched'[s]) = View(r) PROVE IndexInv'
  <2>1. sched'[s].open = r.open
    BY <1>4 DEF View
  <2> QED BY <1>3, <1>4, <2>1, SameViewTracks DEF IndexInv
<1>5. CASE Open(s)
  <2>1. sched'[s] = [full EXCEPT !.open = TRUE]
    BY <1>r, <1>5 DEF Open, Rebuilt
  <2>2. Tracks(sched'[s], graph)
    BY <1>r, <1>f, <2>1 DEF Tracks, Frontier, Refreshed, SchedulerState
  <2> QED BY <1>3, <1>5, <2>2 DEF Open
<1>6. CASE Crash(s)
  BY <1>r, <1>3, <1>6 DEF Crash, Down
<1>7. CASE Refresh(s)
  <2>1. r.open /\ graph.id # Nil /\ Tracks(r, graph)
    BY <1>7 DEF Refresh, Idle, IndexInv
  <2>2. sched'[s] = full
    BY <1>r, <1>7, <2>1, AppliedIsFull DEF Refresh, Rebuilt
  <2> QED BY <1>3, <1>f, <2>1, <2>2
<1>8. CASE Resume(s)
  <2>1. sched'[s] = [full EXCEPT !.job = [step |-> "select"]]
    BY <1>r, <1>8 DEF Resume, Rebuilt
  <2>2. Tracks(sched'[s], graph)
    BY <1>r, <1>f, <2>1 DEF Tracks, Frontier, Refreshed, SchedulerState
  <2>3. graph.id # Nil
    BY <1>8 DEF Resume, Idle, IndexInv
  <2> QED BY <1>3, <2>2, <2>3
<1>9. CASE Dispatchable(s)
  BY <1>r, <1>4, <1>9 DEF Dispatchable, View, SchedulerState
<1>10. CASE \E n \in Nodes, w \in Workers : ClaimChecks(s, n, w)
  BY <1>r, <1>4, <1>10 DEF ClaimChecks, View, SchedulerState
<1>11. ASSUME NEW j, Does(s, j) PROVE IndexInv'
  BY <1>r, <1>4, <1>11 DEF Does, View, SchedulerState
<1>12. CASE \/ ClaimLooks(s) \/ ClaimGrants(s) \/ ClaimDispatches(s)
            \/ SweepSelects(s) \/ SweepExpires(s) \/ RetryRecords(s)
            \/ \E n \in Nodes, id \in RetryIds : RetryCounts(s, n, id)
  BY <1>11, <1>12
  DEF ClaimLooks, ClaimGrants, ClaimDispatches, SweepSelects, SweepExpires,
      RetryRecords, RetryCounts
<1> QED
  BY <1>5, <1>6, <1>7, <1>8, <1>9, <1>10, <1>12 DEF SchedulerStep

(* A scheduler's index as of the graph's revision is the ready set, on any *)
(* graph and after any sequence of envelopes, pauses, restarts, rebuilds   *)
(* and incremental refreshes.                                              *)
THEOREM IndexTheorem == SchedulerSpec => []IndexExact
<1>1. SchedulerInit => IndexInv
  BY DEF SchedulerInit, IndexInv, Down
<1>2. BaseInv /\ IndexInv /\ [SchedulerNext]_vars => IndexInv'
  <2> SUFFICES ASSUME BaseInv, IndexInv, [SchedulerNext]_vars PROVE IndexInv'
    OBVIOUS
  <2>t. RevisionInv /\ SchedulerTypeOK /\ sched \in [Schedulers -> SchedulerState]
    BY DEF BaseInv, SchedulerTypeOK
  <2>1. ASSUME NEW id \in GraphIds, InitGraph(id), UNCHANGED sched
        PROVE  IndexInv'
    BY <2>1 DEF InitGraph, IndexInv
  <2>2. ASSUME NEW env \in Envelopes, Accept(env),
               sched' = [s \in Schedulers |->
                   [sched[s] EXCEPT !.dirty = @ \cup Named(env)]]
        PROVE  IndexInv'
    <3>1. /\ graph \in Graph
          /\ env \in Envelope
          /\ MutationValid(graph, env)
          /\ graph' = Result(graph, env)
      BY <2>2, <2>t, LedgerAssumption
      DEF Accept, Admissible, RevisionInv, LedgerInv, TypeOK
    <3>2. graph'.id # Nil
      BY <2>2, <3>1, ResultOfEnvelope DEF Accept
    <3> SUFFICES ASSUME NEW s \in Schedulers, sched'[s].open
                 PROVE  Tracks(sched'[s], graph')
      BY <3>2 DEF IndexInv
    <3>3. sched'[s] = [sched[s] EXCEPT !.dirty = @ \cup Named(env)]
      BY <2>2
    <3>4. sched[s] \in SchedulerState /\ sched[s].open
      BY <2>t, <3>3 DEF SchedulerState
    <3>5. Tracks(sched[s], graph)
      BY <3>4 DEF IndexInv
    <3> QED BY <3>1, <3>3, <3>4, <3>5, CommitTracks
  <2>3. CASE GraphMoves
    BY <2>1, <2>2, <2>3 DEF GraphMoves, Named
  <2>4. ASSUME NEW s \in Schedulers, SchedulerStep(s) PROVE IndexInv'
    BY <2>4, <2>t, StepKeepsIndex
  <2>5. (\E k \in DOMAIN lease : Heartbeat(k) \/ Release(k)) \/ Tick
           \/ (\E w \in Mortals : Dies(w)) \/ UNCHANGED vars
           => UNCHANGED <<graph, sched>>
    BY DEF Heartbeat, Release, Tick, Dies, vars
  <2>6. CASE UNCHANGED <<graph, sched>>
    BY <2>6 DEF IndexInv
  <2> QED BY <2>3, <2>4, <2>5, <2>6 DEF SchedulerNext
<1>3. BaseInv /\ IndexInv => IndexExact
  BY CurrentIsFull DEF BaseInv, SchedulerTypeOK, IndexInv, IndexExact
<1> QED BY <1>1, <1>2, <1>3, BaseInvariant, PTL DEF SchedulerSpec
=============================================================================
