------------------------------ MODULE Scheduler ------------------------------
(***************************************************************************)
(* The continuous ready-set scheduler (scheduler.py) over the graph of the *)
(* ledger: its incremental ready index, and the store of leases,           *)
(* dispatches and retries it shares with other schedulers and with the     *)
(* workers.                                                                *)
(*                                                                         *)
(* A replay of the graph is one step, and so is each statement against the *)
(* store, which runs in autocommit: claim(), register_retry() and          *)
(* expire_leases() are several, between which the graph, the clock and the *)
(* other processes go on.  Priorities only order a list: dispatchable() is *)
(* any choice of as many nodes as there is room for.                       *)
(***************************************************************************)
EXTENDS GraphLedger

CONSTANTS
    Schedulers,          \* Scheduler objects, each in a process of its own
    Workers,             \* worker names a node is claimed for
    Mortals,             \* those of them that may die
    RetryIds,            \* ids of the nodes that retry a failed one
    LeaseSeconds,        \* policy.lease_seconds
    MaxRetriesPerNode,   \* policy.max_retries_per_node
    MaxRetriesPerGraph,  \* policy.max_retries_per_graph
    Listed,              \* workers claimed for only if dispatchable() listed it
    MaxConcurrent,       \* policy.max_concurrent
    MaxTime,             \* bound on the clock for grants and heartbeats
    MaxCrashes           \* bound on how often a scheduler dies

ASSUME SchedulerAssumption ==
    /\ {MaxRetriesPerNode, MaxRetriesPerGraph, MaxConcurrent, MaxTime,
        MaxCrashes} \subseteq Nat
    /\ LeaseSeconds \in Nat \ {0}
    /\ IsFiniteSet(Schedulers) /\ Schedulers # {}
    /\ Mortals \subseteq Workers
    /\ Listed \subseteq Workers

VARIABLES
    now,         \* the clock
    lease,       \* table leases: lease_id -> row
    dispatched,  \* table dispatches, as the lease_ids recorded in it
    retries,     \* table retries: retry_id -> original_node_id
    sched,       \* in-memory state of each scheduler
    dead         \* workers that have stopped without a word

store == <<lease, dispatched, retries>>
vars == <<graph, now, store, sched, dead>>

-----------------------------------------------------------------------------
(* A lease_id is a hash of node, worker and revision, salted per process   *)
(* (hash() of a str): salt tells one run of a scheduler from the next.     *)

LeaseKey == [salt : Schedulers \X (0..MaxCrashes), node : Nodes,
             worker : Workers, revision : 0..MaxRevision]

Active(k) == k \in DOMAIN lease /\ lease[k].state = "active"

ActiveKeys == {k \in DOMAIN lease : Active(k)}

ActiveLeasesFor(n) == {k \in ActiveKeys : k.node = n}

Leased == {k.node : k \in ActiveKeys}

(* INSERT OR REPLACE into leases.                                          *)
Grant(k, at) ==
    lease' = [j \in DOMAIN lease \cup {k} |->
                 IF j = k
                 THEN [state |-> "active", expires |-> at + LeaseSeconds]
                 ELSE lease[j]]

(* Mutant: a sweep looks for the leases that were dispatched.              *)
ExpiredDispatched == {k \in ActiveKeys \cap dispatched : lease[k].expires <= now}

Expired == {k \in ActiveKeys : lease[k].expires <= now}

RetryCount(n) == Cardinality({id \in DOMAIN retries : retries[id] = n})

(* Mutant: the more generous of the two budgets is the one that counts.    *)
RetryBudgetLeftEither(n) ==
    \/ RetryCount(n) < MaxRetriesPerNode
    \/ Cardinality(DOMAIN retries) < MaxRetriesPerGraph

RetryBudgetLeft(n) ==
    /\ RetryCount(n) < MaxRetriesPerNode
    /\ Cardinality(DOMAIN retries) < MaxRetriesPerGraph

-----------------------------------------------------------------------------
(* ReadyIndex.  index is _ready; seen is the revision of the last refresh, *)
(* and dirty the nodes that operations have named since then, which is     *)
(* what the caller of refresh(dirty) has to pass.                          *)

Down(crashes) ==
    [open |-> FALSE, crashes |-> crashes, index |-> {}, paused |-> FALSE,
     seen |-> 0, dirty |-> {}, todo |-> {}, job |-> Nil]

Dependants(g, n) == {e.source : e \in {d \in g.edges : d.target = n}}

(* Mutant: unpausing reopens no more than what has changed meanwhile.      *)
FrontierPaused(r, g) ==
    r.dirty \cup UNION {Dependants(g, n) : n \in r.dirty}

Frontier(r, g) ==
    IF r.paused THEN Present(g)
    ELSE r.dirty \cup UNION {Dependants(g, n) : n \in r.dirty}

(* ReadyIndex.apply.                                                       *)
Applied(r, g) ==
    IF GraphPaused(g) THEN {}
    ELSE (r.index \ Frontier(r, g))
             \cup {n \in Frontier(r, g) \cap Present(g) : NodeIsReady(g, n)}

Refreshed(r, g, index) ==
    [r EXCEPT !.index = index, !.paused = GraphPaused(g),
              !.seen = g.revision, !.dirty = {}]

Rebuilt(r, g) == Refreshed(r, g, FullReady(g))

DirtyOf(op) ==
    CASE op.type \in {"transition_node", "add_execution_node"} -> {op.node}
      [] op.type \in {"add_schedulable_edge", "remove_schedulable_edge"} ->
             {op.edge.source}
      [] OTHER -> {}

-----------------------------------------------------------------------------

SchedulerInit ==
    /\ Init
    /\ now = 0
    /\ lease = [k \in {} |-> Nil]
    /\ dispatched = {}
    /\ retries = [id \in {} |-> Nil]
    /\ sched = [s \in Schedulers |-> Down(0)]
    /\ dead = {}

(* The journal's side: any step of the ledger, noted by the callers.       *)
GraphMoves ==
    /\ \/ \E id \in GraphIds : InitGraph(id) /\ UNCHANGED sched
       \/ \E env \in Envelopes :
             /\ Accept(env)
             /\ sched' = [s \in Schedulers |->
                    [sched[s] EXCEPT !.dirty = @ \cup
                        UNION {DirtyOf(op) : op \in OpsOf(env)}]]
    /\ UNCHANGED <<now, store, dead>>

Idle(s) == sched[s].open /\ sched[s].job = Nil

Does(s, job) == sched' = [sched EXCEPT ![s].job = job]

(* Scheduler.__init__, over a journal that has its graph.                  *)
Open(s) ==
    /\ ~sched[s].open
    /\ graph.id # Nil
    /\ sched' = [sched EXCEPT ![s] = [Rebuilt(@, graph) EXCEPT !.open = TRUE]]
    /\ UNCHANGED <<graph, now, store, dead>>

Crash(s) ==
    /\ sched[s].open
    /\ sched[s].crashes < MaxCrashes
    /\ sched' = [sched EXCEPT ![s] = Down(@.crashes + 1)]
    /\ UNCHANGED <<graph, now, store, dead>>

(* refresh(None) and refresh(dirty).                                       *)
Refresh(s) ==
    /\ Idle(s)
    /\ \/ sched' = [sched EXCEPT ![s] = Rebuilt(@, graph)]
       \/ sched' = [sched EXCEPT ![s] =
                       Refreshed(@, graph, Applied(@, graph))]
    /\ UNCHANGED <<graph, now, store, dead>>

(* Mutant: the leases already out are not taken off the room there is.     *)
RoomFull == MaxConcurrent

Room == IF Cardinality(Leased) < MaxConcurrent
        THEN MaxConcurrent - Cardinality(Leased) ELSE 0

(* dispatchable(): what the caller goes on to claim.                       *)
Dispatchable(s) ==
    /\ Idle(s)
    /\ \E batch \in SUBSET (sched[s].index \ Leased) :
          /\ \/ Cardinality(batch) = Room
             \/ Cardinality(batch) < Room /\ batch = sched[s].index \ Leased
          /\ sched' = [sched EXCEPT ![s].todo = batch]
    /\ UNCHANGED <<graph, now, store, dead>>

-----------------------------------------------------------------------------
(* claim(): the checks on the replayed graph (a base revision that is not  *)
(* the graph's is refused), the look for an active lease and at the clock  *)
(* (past MaxTime the claim is given up), the grant, the dispatch record.   *)

ClaimChecks(s, n, w) ==
    /\ Idle(s)
    /\ w \in Listed => n \in sched[s].todo
    /\ LET left == IF w \in Listed THEN sched[s].todo \ {n} ELSE sched[s].todo
           key  == [salt |-> <<s, sched[s].crashes>>, node |-> n, worker |-> w,
                    revision |-> graph.revision]
       IN  IF n \in FullReady(graph)
           THEN sched' = [sched EXCEPT ![s].todo = left,
                              ![s].job = [step |-> "look", key |-> key]]
           ELSE sched' = [sched EXCEPT ![s].todo = left]
    /\ UNCHANGED <<graph, now, store, dead>>

At(s, step) == sched[s].job # Nil /\ sched[s].job.step = step

ClaimLooks(s) ==
    /\ At(s, "look")
    /\ Does(s, IF ActiveLeasesFor(sched[s].job.key.node) = {} /\ now <= MaxTime
               THEN [step |-> "grant", key |-> sched[s].job.key, at |-> now]
               ELSE Nil)
    /\ UNCHANGED <<graph, now, store, dead>>

ClaimGrants(s) ==
    /\ At(s, "grant")
    /\ Grant(sched[s].job.key, sched[s].job.at)
    /\ Does(s, [step |-> "dispatch", key |-> sched[s].job.key])
    /\ UNCHANGED <<graph, now, dispatched, retries, dead>>

ClaimDispatches(s) ==
    /\ At(s, "dispatch")
    /\ dispatched' = dispatched \cup {sched[s].job.key}
    /\ Does(s, Nil)
    /\ UNCHANGED <<graph, now, lease, retries, dead>>

(* Mutant: a heartbeat makes its lease active, whatever became of it.      *)
HeartbeatRevives(k) ==
    /\ k \in dispatched
    /\ k.worker \notin dead
    /\ now <= MaxTime
    /\ lease' = [lease EXCEPT ![k] = [state |-> "active",
                                     expires |-> now + LeaseSeconds]]
    /\ UNCHANGED <<graph, now, dispatched, retries, sched, dead>>

(* A worker that was given a lease extends it, whatever its deadline says, *)
(* or gives it back.                                                       *)
Heartbeat(k) ==
    /\ k \in dispatched
    /\ k.worker \notin dead
    /\ Active(k)
    /\ now <= MaxTime
    /\ lease' = [lease EXCEPT ![k].expires = now + LeaseSeconds]
    /\ UNCHANGED <<graph, now, dispatched, retries, sched, dead>>

Release(k) ==
    /\ k \in dispatched
    /\ k.worker \notin dead
    /\ Active(k)
    /\ lease' = [lease EXCEPT ![k].state = "released"]
    /\ UNCHANGED <<graph, now, dispatched, retries, sched, dead>>

(* expire_leases(), on its own or as the end of resume(), whose refresh    *)
(* leaves the job at "select": the list is read first, and its rows are    *)
(* updated one by one where they are still active.                         *)
Resume(s) ==
    /\ Idle(s)
    /\ sched' = [sched EXCEPT ![s] =
                    [Rebuilt(@, graph) EXCEPT !.job = [step |-> "select"]]]
    /\ UNCHANGED <<graph, now, store, dead>>

SweepSelects(s) ==
    /\ Idle(s) \/ At(s, "select")
    /\ Expired # {} \/ At(s, "select")
    /\ Does(s, IF Expired = {} THEN Nil
               ELSE [step |-> "sweep", keys |-> Expired])
    /\ UNCHANGED <<graph, now, store, dead>>

SweepExpires(s) ==
    /\ At(s, "sweep")
    /\ \E k \in sched[s].job.keys :
          LET left == sched[s].job.keys \ {k} IN
          /\ lease' = IF Active(k) THEN [lease EXCEPT ![k].state = "expired"]
                      ELSE lease
          /\ Does(s, IF left = {} THEN Nil
                     ELSE [step |-> "sweep", keys |-> left])
    /\ UNCHANGED <<graph, now, dispatched, retries, dead>>

(* register_retry(): the counts, then an INSERT OR REPLACE.                *)
RetryCounts(s, n, id) ==
    /\ Idle(s)
    /\ RetryBudgetLeft(n)
    /\ Does(s, [step |-> "retry", node |-> n, id |-> id])
    /\ UNCHANGED <<graph, now, store, dead>>

RetryRecords(s) ==
    /\ At(s, "retry")
    /\ LET job == sched[s].job IN
       retries' = [id \in DOMAIN retries \cup {job.id} |->
                      IF id = job.id THEN job.node ELSE retries[id]]
    /\ Does(s, Nil)
    /\ UNCHANGED <<graph, now, lease, dispatched, dead>>

Dies(w) ==
    /\ w \notin dead
    /\ dead' = dead \cup {w}
    /\ UNCHANGED <<graph, now, store, sched>>

Tick ==
    /\ now < MaxTime + LeaseSeconds
    /\ now' = now + 1
    /\ UNCHANGED <<graph, store, sched, dead>>

SchedulerStep(s) ==
    \/ Open(s)
    \/ Crash(s)
    \/ Refresh(s)
    \/ Dispatchable(s)
    \/ \E n \in Nodes, w \in Workers : ClaimChecks(s, n, w)
    \/ ClaimLooks(s)
    \/ ClaimGrants(s)
    \/ ClaimDispatches(s)
    \/ Resume(s)
    \/ SweepSelects(s)
    \/ SweepExpires(s)
    \/ \E n \in Nodes, id \in RetryIds : RetryCounts(s, n, id)
    \/ RetryRecords(s)

SchedulerNext ==
    \/ GraphMoves
    \/ \E s \in Schedulers : SchedulerStep(s)
    \/ \E k \in DOMAIN lease : Heartbeat(k) \/ Release(k)
    \/ \E w \in Mortals : Dies(w)
    \/ Tick

SchedulerSpec == SchedulerInit /\ [][SchedulerNext]_vars

(* Time passes, a scheduler that has died is started again, and one that   *)
(* is between two statements goes on.  A driver that is idle again and     *)
(* again while a lease is overdue does not put off the sweep for ever: it  *)
(* is idle only between two calls of its own, so the fairness is strong.   *)
(* Nobody has to claim, to heartbeat or to release.                        *)
FairSpec ==
    /\ SchedulerSpec
    /\ WF_vars(Tick)
    /\ \A s \in Schedulers :
          /\ WF_vars(Open(s))
          /\ WF_vars(ClaimLooks(s))
          /\ WF_vars(ClaimGrants(s))
          /\ WF_vars(ClaimDispatches(s))
          /\ SF_vars(SweepSelects(s))
          /\ WF_vars(SweepExpires(s))
          /\ WF_vars(RetryRecords(s))

-----------------------------------------------------------------------------

Job ==
    [step : {"look", "dispatch"}, key : LeaseKey]
        \cup [step : {"grant"}, key : LeaseKey, at : 0..MaxTime]
        \cup [step : {"select"}]
        \cup [step : {"sweep"}, keys : SUBSET LeaseKey]
        \cup [step : {"retry"}, node : Nodes, id : RetryIds]

SchedulerState ==
    [open : BOOLEAN, crashes : 0..MaxCrashes, index : SUBSET Nodes,
     paused : BOOLEAN, seen : 0..MaxRevision, dirty : SUBSET Nodes,
     todo : SUBSET Nodes, job : Job \cup {Nil}]

LeaseRow == [state : LeaseState \ {"unclaimed", "revoked"},
             expires : 0..(MaxTime + LeaseSeconds)]

SchedulerTypeOK ==
    /\ now \in 0..(MaxTime + LeaseSeconds)
    /\ DOMAIN lease \subseteq LeaseKey
    /\ \A k \in DOMAIN lease : lease[k] \in LeaseRow
    /\ dispatched \subseteq LeaseKey
    /\ DOMAIN retries \subseteq RetryIds
    /\ \A id \in DOMAIN retries : retries[id] \in Nodes
    /\ sched \in [Schedulers -> SchedulerState]
    /\ dead \subseteq Workers

(* Incremental is safe: an index that was only ever told which nodes the   *)
(* operations named is the ready set from first principles, across new     *)
(* nodes, edges put in and taken out, pauses and resumptions (scheduler.py *)
(* ReadyIndex: "readiness depends on nothing else").                       *)
IndexExact ==
    \A s \in Schedulers :
        sched[s].open /\ sched[s].seen = graph.revision
            => sched[s].index = FullReady(graph)

(* A scheduler never has two leases of a node out, whatever expires, is    *)
(* revived, swept, restarted or claimed again in between (scheduler.py:    *)
(* "Expiry is evidence, never a silent takeover").  The look for a lease   *)
(* and the grant are two statements, so two leases of a node are those of  *)
(* two schedulers that raced, and there is no third of either.             *)
NoDoubleLease ==
    \A j, k \in ActiveKeys : j.node = k.node /\ j.salt[1] = k.salt[1] => j = k

(* What a scheduler has out for the workers whose drivers claim only what  *)
(* dispatchable() listed, with the claim that is about to be granted.      *)
GrantedBy(s) == {k \in ActiveKeys : k.salt[1] = s /\ k.worker \in Listed}

Granting(s) ==
    {k \in LeaseKey : k.worker \in Listed /\ At(s, "grant") /\ k = sched[s].job.key}

(* A scheduler never has more nodes out for them than the policy allows,   *)
(* whatever other drivers and other schedulers claim: the room is taken    *)
(* from everything that is leased when it lists, and used by later claims. *)
ConcurrencyCapped ==
    \A s \in Schedulers :
        Cardinality({k.node : k \in GrantedBy(s) \cup Granting(s)}) <= MaxConcurrent

(* The table of retries exceeds a budget by at most one for each further   *)
(* scheduler, although a retry id may be registered again and for another  *)
(* node (register_retry: "Returns False when the budget is spent"): the    *)
(* count and the insert are two statements, and each scheduler is between  *)
(* them at most once.                                                      *)
RetriesBounded ==
    LET racing == Cardinality(Schedulers) - 1 IN
    /\ \A n \in Nodes : RetryCount(n) <= MaxRetriesPerNode + racing
    /\ Cardinality(DOMAIN retries) <= MaxRetriesPerGraph + racing

(* A lease nobody will ever heartbeat, because its worker died or was      *)
(* never told of it, does not hold its node for good.                      *)
Orphan(k) == Active(k) /\ (k.worker \in dead \/ k \notin dispatched)

OrphansReclaimed == \A k \in LeaseKey : Orphan(k) ~> ~Orphan(k)
=============================================================================
