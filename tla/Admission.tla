------------------------------ MODULE Admission ------------------------------
(***************************************************************************)
(* The admission policy in front of the graph (admission.py): authority,   *)
(* evidence, throttling and budget are checked by an AdmissionController   *)
(* before it hands a proposal to the journal, and the admission log those  *)
(* checks read is written after it.  Controllers in several processes      *)
(* share the log and the queue of proposals that wait for a human.         *)
(*                                                                         *)
(* Every statement against the store autocommits and every call of the     *)
(* journal is one transaction: a controller is a process that takes one    *)
(* of them per step.  Rows of the log that admit nothing are read by no    *)
(* check and are left out, as are optional limits that are not set.        *)
(***************************************************************************)
EXTENDS GraphLedger, Functions

CONSTANTS
    Clerks,            \* AdmissionController objects, a process each
    Proposals,         \* what proposers may submit
    Parked,            \* those of them that may be parked for a human
    MaxMutations,      \* policy.max_mutations_per_window
    RateWindow,        \* policy.rate_window_seconds
    ThrashWindow,      \* policy.thrash_window_seconds
    Cooldown,          \* policy.subject_cooldown_seconds
    BudgetEnvelope,    \* policy.budget_envelope
    BudgetWindow,      \* policy.budget_window_seconds
    Threshold,         \* policy.oscillation_threshold
    MaxTime,           \* bound on the clock
    MaxCrashes         \* bound on how often a controller dies

(* An envelope with the kind of its actor (a model or not) and its cost    *)
(* (budget_delta, in the policy's unit).                                   *)
Proposal == [env : Envelope, model : BOOLEAN, cost : Nat]

(* approve(): the admitted mutation's actor is the human.                  *)
Approved(p) == [p EXCEPT !.model = FALSE, !.env.human = TRUE]

(* content_hash: what a proposal does, and not who says so or how; also    *)
(* its identity in the approval queue.                                     *)
Content(p) == <<p.env.graph, p.env.ops>>

(* What a controller may be in the middle of.                              *)
Everything == Proposals \cup {Approved(p) : p \in Proposals}

Tickets == {Content(p) : p \in Proposals}

QueueState == {"pending", "approved", "approval_failed", "rejected"}

JobRecord ==
    [step : {"evidence", "throttle", "budget", "engine", "record"},
     p : Everything, at : 0..MaxTime, ticket : Tickets \cup {Nil}]
        \cup
    [step : {"resolve"}, ticket : Tickets, verdict : QueueState]

ASSUME AdmissionAssumption ==
    /\ IsFiniteSet(Clerks) /\ Clerks # {}
    /\ Nil \notin Clerks \cup Tickets \cup JobRecord
    /\ Proposals \subseteq Proposal
    /\ Parked \subseteq Proposals
    /\ \A p \in Proposals : {p.env, Approved(p).env} \subseteq Envelopes
    /\ {MaxMutations, RateWindow, ThrashWindow, Cooldown, BudgetEnvelope,
        BudgetWindow, Threshold, MaxTime, MaxCrashes} \subseteq Nat

VARIABLES
    now,       \* the clock
    log,       \* table admission_log, the rows with admitted = 1
    queue,     \* table approval_queue: queue_id -> row
    job,       \* what each controller is in the middle of
    crashes,   \* how often a controller has died
    vouched,   \* history: the envelopes in a human's name that a human has
               \* submitted or approved
    decided    \* history: the entries a human has approved or rejected

vars == <<graph, now, log, queue, job, crashes, vouched, decided>>

-----------------------------------------------------------------------------
(* target_ref of an operation.                                             *)
Subject(op) ==
    LET fields == <<"node", "intent", "link", "edge", "relation", "evidence",
                    "mutation", "lease", "control">>
        first == CHOOSE i \in DOMAIN fields :
                     /\ fields[i] \in DOMAIN op
                     /\ \A j \in 1..(i-1) : fields[j] \notin DOMAIN op
    IN  op[fields[first]]

Subjects(p) == {Subject(op) : op \in OpsOf(p.env)}

Turns(p) == {<<op.node, op.from, op.to>> :
                op \in {o \in OpsOf(p.env) : o.type = "transition_node"}}

Makes(op, turn) ==
    op.type = "transition_node" /\ turn = <<op.node, op.from, op.to>>

Reverse(turn) == <<turn[1], turn[3], turn[2]>>

(* admitted_since: the rows of the last so many seconds before t.          *)
Since(p, window, t) ==
    {i \in DOMAIN log : /\ log[i].p.env.graph = p.env.graph
                        /\ log[i].at + window >= t}

(* The checks of propose() that read nothing but the proposal.             *)
Permitted(p) ==
    /\ p.env.ops # <<>>
    /\ ~(p.model /\ p.env.human)
    /\ NeedsApproval(p.env) => p.env.human

EvidenceResolves(p) ==
    p.env.evidence # {} =>
        graph.id = p.env.graph /\ p.env.evidence \subseteq graph.evidence

(* _throttle, in its order; the log goes back as far as its widest window. *)
Back == CHOOSE w \in {RateWindow, ThrashWindow, Cooldown} :
            \A v \in {RateWindow, ThrashWindow, Cooldown} : w >= v

Duplicate(p, t) == \E i \in Since(p, Back, t) : Content(log[i].p) = Content(p)

(* Mutant: one more fits when the window is full.                          *)
RateLoose(p, t) == Cardinality(Since(p, RateWindow, t)) > MaxMutations

RateExceeded(p, t) == Cardinality(Since(p, RateWindow, t)) >= MaxMutations

InCooldown(p, t) ==
    /\ Cooldown > 0
    /\ \E i \in Since(p, Cooldown, t) : Subjects(log[i].p) \cap Subjects(p) # {}

(* How often the rows make a turn: an envelope may make it more than once. *)
Occurrences(turn, rows) ==
    UNION {{<<i, k>> : k \in {k \in DOMAIN log[i].p.env.ops :
                                Makes(log[i].p.env.ops[k], turn)}} : i \in rows}

Oscillates(p, t) ==
    \E turn \in Turns(p) :
        LET seen == Occurrences(Reverse(turn), Since(p, ThrashWindow, t))
        IN  seen # {} /\ Cardinality(seen) >= Threshold - 1

Cost(i) == log[i].p.cost

Total(cost, n) ==
    LET sum[i \in 0..n] == IF i = 0 THEN 0 ELSE sum[i-1] + cost[i]
    IN  sum[n]

Spent(rows) ==
    Total([i \in DOMAIN log |-> IF i \in rows THEN Cost(i) ELSE 0], Len(log))

(* Mutant: what the proposal itself costs is not in the sum.               *)
BudgetSpent(p, t) == Spent(Since(p, BudgetWindow, t)) > BudgetEnvelope

BudgetExceeded(p, t) ==
    Spent(Since(p, BudgetWindow, t)) + p.cost > BudgetEnvelope

-----------------------------------------------------------------------------

AdmissionInit ==
    /\ Init
    /\ now = 0
    /\ log = <<>>
    /\ queue = [id \in {} |-> Nil]
    /\ job = [c \in Clerks |-> Nil]
    /\ crashes = 0
    /\ vouched = {}
    /\ decided = {}

At(c, step) == job[c] # Nil /\ job[c].step = step

Goes(c, next) == job' = [job EXCEPT ![c] = next]

Continues(c, step) == Goes(c, [job[c] EXCEPT !.step = step])

(* A proposal on its way, for the queue entry that is its ticket if it is  *)
(* being approved; and the decision on an entry.                           *)
Job(p, ticket) == [step |-> "evidence", p |-> p, at |-> now, ticket |-> ticket]

Resolution(ticket, verdict) ==
    [step |-> "resolve", ticket |-> ticket, verdict |-> verdict]

(* The answer of propose(), which approve() writes into the queue.         *)
Answers(c, verdict) ==
    IF job[c].ticket = Nil THEN Goes(c, Nil)
    ELSE Goes(c, Resolution(job[c].ticket, verdict))

(* Mutant: the entry is approved whatever became of the proposal.          *)
RefusedApproved(c) == Answers(c, "approved")

Refused(c) == Answers(c, "approval_failed")

(* An envelope goes in that says it is a human's.                          *)
Vouches(p) ==
    vouched' = IF p.env.human /\ ~p.model THEN vouched \cup {p.env} ELSE vouched

(* propose(): the clock is read once, first; the checks of the proposal    *)
(* alone come with it.                                                     *)
Submits(c, p) ==
    /\ job[c] = Nil
    /\ Permitted(p)
    /\ Goes(c, Job(p, Nil))
    /\ Vouches(p)
    /\ UNCHANGED <<graph, now, log, queue, crashes, decided>>

ChecksEvidence(c) ==
    /\ At(c, "evidence")
    /\ IF EvidenceResolves(job[c].p) THEN Continues(c, "throttle")
       ELSE Refused(c)
    /\ UNCHANGED <<graph, now, log, queue, crashes, vouched, decided>>

(* An oscillation is not refused but raised: the caller of approve() does  *)
(* not come to resolve the entry.                                          *)
Throttles(c) ==
    /\ At(c, "throttle")
    /\ LET p == job[c].p  t == job[c].at IN
       IF Duplicate(p, t) \/ RateExceeded(p, t) \/ InCooldown(p, t)
       THEN Refused(c)
       ELSE IF Oscillates(p, t) THEN Goes(c, Nil)
       ELSE Continues(c, "budget")
    /\ UNCHANGED <<graph, now, log, queue, crashes, vouched, decided>>

ChecksBudget(c) ==
    /\ At(c, "budget")
    /\ IF BudgetExceeded(job[c].p, job[c].at) THEN Refused(c)
       ELSE Continues(c, "engine")
    /\ UNCHANGED <<graph, now, log, queue, crashes, vouched, decided>>

(* journal.propose: accepted, accepted before under the same key, or not.  *)
Engine(c) ==
    /\ At(c, "engine")
    /\ LET env == job[c].p.env IN
       \/ /\ env \in Range(graph.history)
          /\ Continues(c, "record")
          /\ UNCHANGED graph
       \/ /\ Accept(env)
          /\ Continues(c, "record")
       \/ /\ env \notin Range(graph.history)
          /\ graph.id = Nil \/ env.key \in KeysUsed(graph)
                 \/ ~Admissible(graph, env)
          /\ Refused(c)
          /\ UNCHANGED graph
    /\ UNCHANGED <<now, log, queue, crashes, vouched, decided>>

(* Mutant: the entry is resolved and the log forgotten.                    *)
RecordsNothing(c) ==
    /\ At(c, "record")
    /\ Answers(c, "approved")
    /\ UNCHANGED <<graph, now, log, queue, crashes, vouched, decided>>

Records(c) ==
    /\ At(c, "record")
    /\ log' = Append(log, [p |-> job[c].p, at |-> job[c].at])
    /\ Answers(c, "approved")
    /\ UNCHANGED <<graph, now, queue, crashes, vouched, decided>>

-----------------------------------------------------------------------------
(* The approval queue.                                                     *)

(* request_approval: INSERT OR IGNORE under the content.  Nothing about    *)
(* the proposal is checked.                                                *)
Requests(p) ==
    /\ Content(p) \notin DOMAIN queue
    /\ queue' = [id \in DOMAIN queue \cup {Content(p)} |->
                    IF id = Content(p) THEN [p |-> p, state |-> "pending"]
                    ELSE queue[id]]
    /\ UNCHANGED <<graph, now, log, job, crashes, vouched, decided>>

Pending(id) == id \in DOMAIN queue /\ queue[id].state = "pending"

(* Mutant: whoever comes is heard.                                         *)
AnyoneDecides(model) == TRUE

(* is_model_actor(approver): what a model asks for changes nothing.        *)
MayDecide(model) == ~model

Decides(id, model) == decided' = IF model THEN decided ELSE decided \cup {id}

(* approve(), up to where propose() reads its clock.                       *)
Approves(c, id, model) ==
    /\ job[c] = Nil
    /\ Pending(id)
    /\ MayDecide(model)
    /\ LET p == [Approved(queue[id].p) EXCEPT !.model = model] IN
       /\ Goes(c, IF Permitted(p) THEN Job(p, id)
                  ELSE Resolution(id, "approval_failed"))
       /\ Vouches(p)
    /\ Decides(id, model)
    /\ UNCHANGED <<graph, now, log, queue, crashes>>

(* reject_queued, up to its resolve().                                     *)
Rejects(c, id, model) ==
    /\ job[c] = Nil
    /\ MayDecide(model)
    /\ Pending(id)
    /\ Goes(c, Resolution(id, "rejected"))
    /\ Decides(id, model)
    /\ UNCHANGED <<graph, now, log, queue, crashes, vouched>>

(* Mutant: the UPDATE is not limited to entries that still are pending.    *)
ResolvesAnyway(c) ==
    /\ At(c, "resolve")
    /\ queue' = [queue EXCEPT ![job[c].ticket].state = job[c].verdict]
    /\ Goes(c, Nil)
    /\ UNCHANGED <<graph, now, log, crashes, vouched, decided>>

Resolves(c) ==
    /\ At(c, "resolve")
    /\ queue' = IF Pending(job[c].ticket)
                THEN [queue EXCEPT ![job[c].ticket].state = job[c].verdict]
                ELSE queue
    /\ Goes(c, Nil)
    /\ UNCHANGED <<graph, now, log, crashes, vouched, decided>>

-----------------------------------------------------------------------------
(* The surroundings.                                                       *)

(* The graph is created by others.                                         *)
GraphStarts(id) ==
    InitGraph(id) /\ UNCHANGED <<now, log, queue, job, crashes, vouched, decided>>

Tick ==
    /\ now < MaxTime
    /\ now' = now + 1
    /\ UNCHANGED <<graph, log, queue, job, crashes, vouched, decided>>

(* A controller's process dies with what it was in the middle of.          *)
Crash(c) ==
    /\ crashes < MaxCrashes
    /\ job[c] # Nil
    /\ crashes' = crashes + 1
    /\ Goes(c, Nil)
    /\ UNCHANGED <<graph, now, log, queue, vouched, decided>>

ClerkStep(c) ==
    \/ \E p \in Proposals : Submits(c, p)
    \/ \E id \in DOMAIN queue, model \in BOOLEAN :
           Approves(c, id, model) \/ Rejects(c, id, model)
    \/ ChecksEvidence(c)
    \/ Throttles(c)
    \/ ChecksBudget(c)
    \/ Engine(c)
    \/ Records(c)
    \/ Resolves(c)
    \/ Crash(c)

AdmissionNext ==
    \/ \E c \in Clerks : ClerkStep(c)
    \/ \E p \in Parked : Requests(p)
    \/ \E id \in GraphIds : GraphStarts(id)
    \/ Tick

AdmissionSpec == AdmissionInit /\ [][AdmissionNext]_vars

-----------------------------------------------------------------------------

AdmissionTypeOK ==
    /\ graph \in Graph
    /\ now \in 0..MaxTime
    /\ log \in Seq([p : Everything, at : 0..MaxTime])
    /\ DOMAIN queue \subseteq Tickets
    /\ \A id \in DOMAIN queue :
           queue[id] \in [p : Proposals, state : QueueState]
    /\ job \in [Clerks -> JobRecord \cup {Nil}]
    /\ crashes \in 0..MaxCrashes
    /\ vouched \subseteq Envelopes
    /\ decided \subseteq Tickets

(* The rows of graph g the policy puts into one window that ends at t.     *)
Window(g, w, t) ==
    {i \in DOMAIN log : /\ log[i].p.env.graph = g
                        /\ log[i].at <= t /\ log[i].at + w >= t}

(* The rate limit under concurrency: the check and the row it is about     *)
(* are two statements with the journal in between, so a window may hold    *)
(* more than the policy says, but by no more than one per further          *)
(* controller, whatever is approved, replayed, delayed or lost meanwhile   *)
(* (policy max_mutations_per_window).                                      *)
RateBounded ==
    \A g \in GraphIds, t \in 0..MaxTime :
        Cardinality(Window(g, RateWindow, t))
            <= MaxMutations + Cardinality(Clerks) - 1

(* The budget likewise: "an overrun split across several small mutations   *)
(* inside one window is still an overrun" (_budget) up to what the other   *)
(* controllers have in flight.                                             *)
Dearest(cost) == \A p \in Proposals : p.cost <= cost

BudgetBounded ==
    \A g \in GraphIds, t \in 0..MaxTime, cost \in {p.cost : p \in Proposals} :
        Dearest(cost) =>
            Spent(Window(g, BudgetWindow, t))
                <= BudgetEnvelope + (Cardinality(Clerks) - 1) * cost

(* The log and the graph agree: what the log admits is in the history, and *)
(* what the controllers have brought into the history is in the log, but   *)
(* for what is just being recorded and for one commit per crash.           *)
LogAgrees ==
    LET logged == {log[i].p.env : i \in DOMAIN log} IN
    /\ logged \subseteq Range(graph.history)
    /\ Cardinality(Range(graph.history) \ logged)
           <= crashes + Cardinality({c \in Clerks : At(c, "record")})

(* An entry that was approved has been carried out, under human authority  *)
(* and as it was queued.  (One that was rejected, or whose approval        *)
(* failed, may have been carried out too: by an approval whose controller  *)
(* died, or that the rejection overtook.)                                  *)
ApprovedIsCommitted ==
    \A id \in DOMAIN queue : queue[id].state = "approved" =>
        Approved(queue[id].p).env \in Range(graph.history)

(* A model's proposal is data (admission.py: "A model may not claim human  *)
(* authority", "a model actor may not approve"): nothing is committed in   *)
(* the name of a human that no human has submitted or approved, whatever   *)
(* an envelope says of itself and whoever parked it; and no entry of the   *)
(* queue is decided, for or against, that no human has decided.            *)
HumanBehind ==
    /\ \A env \in Range(graph.history) : env.human => env \in vouched
    /\ \A id \in DOMAIN queue : Pending(id) \/ id \in decided

(* A decision is final: two people who decide one entry at once cannot     *)
(* overrule one another, and a repeated request does not open it again.    *)
DecisionFinal ==
    [][\A id \in DOMAIN queue :
          ~Pending(id) => id \in DOMAIN queue' /\ queue'[id] = queue[id]]_vars
=============================================================================
