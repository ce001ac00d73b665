--------------------------- MODULE AdmissionProofs ---------------------------
(***************************************************************************)
(* Proofs about the admission policy, for any proposals, any number of     *)
(* controllers and any limits.                                             *)
(***************************************************************************)
EXTENDS Admission, GraphLedgerProofs

-----------------------------------------------------------------------------
(* Types.  What a controller is in the middle of is a proposal on its way  *)
(* or a decision on a queue entry.                                         *)

Underway ==
    [step : {"evidence", "throttle", "budget", "engine", "record"},
     p : Everything, at : 0..MaxTime, ticket : Tickets \cup {Nil}]

Deciding == [step : {"resolve"}, ticket : Tickets, verdict : QueueState]

LogRow == [p : Everything, at : 0..MaxTime]

Entry == [p : Proposals, state : QueueState]

(* The type invariant but for the graph.                                   *)
Typed ==
    /\ now \in 0..MaxTime
    /\ log \in Seq(LogRow)
    /\ DOMAIN queue \subseteq Tickets
    /\ \A id \in DOMAIN queue : queue[id] \in Entry
    /\ job \in [Clerks -> JobRecord \cup {Nil}]
    /\ crashes \in 0..MaxCrashes
    /\ vouched \subseteq Envelopes
    /\ decided \subseteq Tickets

(* Every proposal, approved or not, is an envelope the ledger knows.       *)
LEMMA EveryEnvelope == \A p \in Everything : p.env \in Envelopes
BY AdmissionAssumption DEF Everything

(* A step of a controller's says which of the two its job is.              *)
LEMMA JobAt ==
    ASSUME Typed, NEW c \in Clerks, NEW step, At(c, step)
    PROVE  /\ job[c] # Nil
           /\ step = "resolve" => job[c] \in Deciding
           /\ step # "resolve" => job[c] \in Underway
BY DEF Typed, At, JobRecord, Underway, Deciding

(* Each action of a controller replaces its own job by a typed one.        *)
Replaces(c) ==
    \E r \in JobRecord \cup {Nil} : job' = [job EXCEPT ![c] = r]

(* An answer leaves the controller idle or with a decision to write.       *)
LEMMA AnswerTyped ==
    ASSUME Typed, NEW c \in Clerks, job[c] \in Underway,
           NEW verdict \in QueueState, Answers(c, verdict)
    PROVE  Replaces(c)
<1>1. job[c].ticket \in Tickets \cup {Nil}
  BY DEF Underway
<1>2. CASE job[c].ticket = Nil
  BY <1>2 DEF Answers, Goes, Replaces
<1>3. CASE job[c].ticket \in Tickets
  <2>1. Resolution(job[c].ticket, verdict) \in JobRecord
    BY <1>3 DEF Resolution, JobRecord
  <2>2. job[c].ticket # Nil
    BY <1>3, AdmissionAssumption
  <2> QED BY <2>1, <2>2 DEF Answers, Goes, Replaces
<1> QED BY <1>1, <1>2, <1>3

(* Going on to the next check leaves it with the same proposal.            *)
LEMMA ContinueTyped ==
    ASSUME NEW c \in Clerks, job[c] \in Underway,
           NEW step \in {"throttle", "budget", "engine", "record"},
           Continues(c, step)
    PROVE  Replaces(c)
<1>1. [job[c] EXCEPT !.step = step] \in JobRecord
  BY DEF Underway, JobRecord
<1> QED BY <1>1 DEF Continues, Goes, Replaces

(* A proposal that starts on its way is a typed job.                       *)
LEMMA JobTyped ==
    ASSUME Typed, NEW p \in Everything, NEW ticket \in Tickets \cup {Nil}
    PROVE  Job(p, ticket) \in Underway /\ Job(p, ticket) \in JobRecord
BY DEF Job, Typed, Underway, JobRecord

(* A proposal approved is one of everything; an entry's is a proposal.     *)
LEMMA EntryTyped ==
    ASSUME Typed, NEW id \in DOMAIN queue
    PROVE  /\ id \in Tickets
           /\ queue[id].p \in Proposals
           /\ Approved(queue[id].p) \in Everything
BY DEF Typed, Entry, Everything

(* Only a human's approval is heard, and it approves in a human's name.    *)
LEMMA ApprovalIs ==
    ASSUME Typed, NEW id \in DOMAIN queue, NEW model \in BOOLEAN,
           MayDecide(model)
    PROVE  [Approved(queue[id].p) EXCEPT !.model = model] = Approved(queue[id].p)
<1>1. model = FALSE
  BY DEF MayDecide
<1>2. queue[id].p \in Proposal
  BY EntryTyped, AdmissionAssumption
<1> QED BY <1>1, <1>2 DEF Approved, Proposal

(* What a step of a controller leaves of the approval it begins.           *)
LEMMA ApprovesOnly ==
    ASSUME Typed, NEW c \in Clerks, NEW id \in DOMAIN queue,
           NEW model \in BOOLEAN, Approves(c, id, model)
    PROVE  /\ Goes(c, IF Permitted(Approved(queue[id].p))
                      THEN Job(Approved(queue[id].p), id)
                      ELSE Resolution(id, "approval_failed"))
           /\ Vouches(Approved(queue[id].p))
           /\ decided' = decided \cup {id}
<1>1. MayDecide(model)
  BY DEF Approves
<1>2. [Approved(queue[id].p) EXCEPT !.model = model] = Approved(queue[id].p)
  BY <1>1, ApprovalIs
<1>3. /\ Goes(c, IF Permitted([Approved(queue[id].p) EXCEPT !.model = model])
                 THEN Job([Approved(queue[id].p) EXCEPT !.model = model], id)
                 ELSE Resolution(id, "approval_failed"))
      /\ Vouches([Approved(queue[id].p) EXCEPT !.model = model])
      /\ Decides(id, model)
  BY DEF Approves
<1> QED BY <1>1, <1>2, <1>3 DEF Decides, MayDecide

(* So each action of a controller replaces its own job, and by a typed one.*)
LEMMA ClerkReplaces ==
    ASSUME Typed, NEW c \in Clerks, ClerkStep(c)
    PROVE  Replaces(c)
<1>1. ASSUME NEW p \in Proposals, Submits(c, p) PROVE Replaces(c)
  <2>1. Job(p, Nil) \in JobRecord
    BY JobTyped DEF Everything
  <2> QED BY <1>1, <2>1 DEF Submits, Goes, Replaces
<1>2. ASSUME NEW id \in DOMAIN queue, NEW model \in BOOLEAN,
             Approves(c, id, model)
      PROVE  Replaces(c)
  <2> DEFINE p == Approved(queue[id].p)
  <2>1. Job(p, id) \in JobRecord
    BY EntryTyped, JobTyped
  <2>2. Resolution(id, "approval_failed") \in JobRecord
    BY EntryTyped DEF Resolution, JobRecord, QueueState
  <2>3. job' = [job EXCEPT ![c] = IF Permitted(p) THEN Job(p, id)
                                  ELSE Resolution(id, "approval_failed")]
    BY <1>2, ApprovesOnly DEF Goes
  <2> HIDE DEF p
  <2> QED BY <2>1, <2>2, <2>3 DEF Replaces
<1>3. ASSUME NEW id \in DOMAIN queue, NEW model \in BOOLEAN,
             Rejects(c, id, model)
      PROVE  Replaces(c)
  <2>1. Resolution(id, "rejected") \in JobRecord
    BY EntryTyped DEF Resolution, JobRecord, QueueState
  <2> QED BY <1>3, <2>1 DEF Rejects, Goes, Replaces
<1>4. ASSUME ChecksEvidence(c) PROVE Replaces(c)
  <2>1. job[c] \in Underway
    BY <1>4, JobAt DEF ChecksEvidence
  <2>2. Continues(c, "throttle") \/ Answers(c, "approval_failed")
    BY <1>4 DEF ChecksEvidence, Refused
  <2> QED BY <2>1, <2>2, ContinueTyped, AnswerTyped DEF QueueState
<1>5. ASSUME Throttles(c) PROVE Replaces(c)
  <2>1. job[c] \in Underway
    BY <1>5, JobAt DEF Throttles
  <2>2. \/ Continues(c, "budget")
        \/ Answers(c, "approval_failed")
        \/ Goes(c, Nil)
    BY <1>5 DEF Throttles, Refused
  <2>3. Goes(c, Nil) => Replaces(c)
    BY DEF Goes, Replaces
  <2> QED BY <2>1, <2>2, <2>3, ContinueTyped, AnswerTyped DEF QueueState
<1>6. ASSUME ChecksBudget(c) PROVE Replaces(c)
  <2>1. job[c] \in Underway
    BY <1>6, JobAt DEF ChecksBudget
  <2>2. Continues(c, "engine") \/ Answers(c, "approval_failed")
    BY <1>6 DEF ChecksBudget, Refused
  <2> QED BY <2>1, <2>2, ContinueTyped, AnswerTyped DEF QueueState
<1>7. ASSUME Engine(c) PROVE Replaces(c)
  <2>1. job[c] \in Underway
    BY <1>7, JobAt DEF Engine
  <2>2. Continues(c, "record") \/ Answers(c, "approval_failed")
    BY <1>7 DEF Engine, Refused
  <2> QED BY <2>1, <2>2, ContinueTyped, AnswerTyped DEF QueueState
<1>8. ASSUME Records(c) PROVE Replaces(c)
  <2>1. job[c] \in Underway
    BY <1>8, JobAt DEF Records
  <2> QED BY <1>8, <2>1, AnswerTyped DEF Records, QueueState
<1>9. ASSUME Resolves(c) \/ Crash(c) PROVE Replaces(c)
  BY <1>9 DEF Resolves, Crash, Goes, Replaces
<1> QED
  BY <1>1, <1>2, <1>3, <1>4, <1>5, <1>6, <1>7, <1>8, <1>9 DEF ClerkStep

(* Which actions touch what: only a recording touches the log, only a      *)
(* request and a resolution the queue, only a crash the count of crashes,  *)
(* only the engine and the creation of the graph the graph.                *)
LEMMA ClerkFrame ==
    ASSUME NEW c \in Clerks, ClerkStep(c)
    PROVE  /\ now' = now
           /\ log' = log \/ Records(c)
           /\ queue' = queue \/ Resolves(c)
           /\ crashes' = crashes \/ Crash(c)
           /\ graph' = graph \/ Engine(c)
           /\ vouched \subseteq vouched' /\ decided \subseteq decided'
BY DEF ClerkStep, Submits, Approves, Rejects, ChecksEvidence, Throttles,
       ChecksBudget, Engine, Records, Resolves, Crash, Vouches, Decides

(* Before the first step nothing is logged, queued or under way.           *)
LEMMA TypedInit == AdmissionInit => Typed
BY AdmissionAssumption DEF AdmissionInit, Typed

(* Types survive every action of a controller,                             *)
LEMMA ClerkTyped ==
    ASSUME Typed, NEW c \in Clerks, ClerkStep(c)
    PROVE  Typed'
<1>1. now' \in 0..MaxTime
  BY ClerkFrame DEF Typed
<1>2. log' \in Seq(LogRow)
  <2>1. ASSUME Records(c) PROVE log' \in Seq(LogRow)
    <3>1. job[c] \in Underway
      BY <2>1, JobAt DEF Records
    <3>2. [p |-> job[c].p, at |-> job[c].at] \in LogRow
      BY <3>1 DEF Underway, LogRow
    <3> QED BY <2>1, <3>2 DEF Records, Typed
  <2> QED BY <2>1, ClerkFrame DEF Typed
<1>3. /\ DOMAIN queue' \subseteq Tickets
      /\ \A id \in DOMAIN queue' : queue'[id] \in Entry
  <2>1. ASSUME Resolves(c)
        PROVE  /\ DOMAIN queue' \subseteq Tickets
               /\ \A id \in DOMAIN queue' : queue'[id] \in Entry
    <3> DEFINE t == job[c].ticket
               v == job[c].verdict
    <3>1. job[c] \in Deciding
      BY <2>1, JobAt DEF Resolves
    <3>2. v \in QueueState
      BY <3>1 DEF Deciding
    <3>3. queue' = IF Pending(t) THEN [queue EXCEPT ![t].state = v] ELSE queue
      BY <2>1 DEF Resolves
    <3> HIDE DEF t, v
    <3> QED BY <3>2, <3>3 DEF Typed, Entry
  <2> QED BY <2>1, ClerkFrame DEF Typed
<1>4. job' \in [Clerks -> JobRecord \cup {Nil}]
  <2>1. PICK r \in JobRecord \cup {Nil} : job' = [job EXCEPT ![c] = r]
    BY ClerkReplaces DEF Replaces
  <2> QED BY <2>1 DEF Typed
<1>5. crashes' \in 0..MaxCrashes
  <2>1. MaxCrashes \in Nat
    BY AdmissionAssumption
  <2> QED BY <2>1, ClerkFrame DEF Typed, Crash
<1>6. vouched' \subseteq Envelopes /\ decided' \subseteq Tickets
  <2>1. ASSUME NEW p \in Proposals, Submits(c, p)
        PROVE  vouched' \subseteq Envelopes /\ decided' = decided
    BY <2>1, AdmissionAssumption DEF Submits, Vouches, Typed
  <2>2. ASSUME NEW id \in DOMAIN queue, NEW model \in BOOLEAN,
               Approves(c, id, model)
        PROVE  vouched' \subseteq Envelopes /\ decided' \subseteq Tickets
    <3>1. Approved(queue[id].p).env \in Envelopes /\ id \in Tickets
      BY EntryTyped, EveryEnvelope
    <3> QED BY <2>2, <3>1, ApprovesOnly DEF Vouches, Typed
  <2>3. ASSUME NEW id \in DOMAIN queue, NEW model \in BOOLEAN,
               Rejects(c, id, model)
        PROVE  vouched' = vouched /\ decided' \subseteq Tickets
    BY <2>3, EntryTyped DEF Rejects, Decides, Typed
  <2> QED
    BY <2>1, <2>2, <2>3
    DEF ClerkStep, ChecksEvidence, Throttles, ChecksBudget, Engine, Records,
        Resolves, Crash, Typed
<1> QED BY <1>1, <1>2, <1>3, <1>4, <1>5, <1>6 DEF Typed

(* and every step of the system.                                           *)
LEMMA TypedStep ==
    ASSUME Typed, [AdmissionNext]_vars
    PROVE  Typed'
<1>1. ASSUME NEW p \in Parked, Requests(p) PROVE Typed'
  <2>1. Content(p) \in Tickets /\ p \in Proposals
    BY AdmissionAssumption DEF Tickets
  <2>2. [p |-> p, state |-> "pending"] \in Entry
    BY <2>1 DEF Entry, QueueState
  <2>3. /\ DOMAIN queue' = DOMAIN queue \cup {Content(p)}
        /\ \A id \in DOMAIN queue' :
              queue'[id] = IF id = Content(p)
                           THEN [p |-> p, state |-> "pending"] ELSE queue[id]
    BY <1>1 DEF Requests
  <2>4. UNCHANGED <<now, log, job, crashes, vouched, decided>>
    BY <1>1 DEF Requests
  <2> QED BY <2>1, <2>2, <2>3, <2>4 DEF Typed
<1>2. ASSUME NEW id \in GraphIds, GraphStarts(id) PROVE Typed'
  BY <1>2 DEF GraphStarts, Typed
<1>3. CASE Tick
  BY <1>3, AdmissionAssumption DEF Tick, Typed
<1>4. CASE UNCHANGED vars
  BY <1>4 DEF vars, Typed
<1> QED BY <1>1, <1>2, <1>3, <1>4, ClerkTyped DEF AdmissionNext

(* Whatever the policy admits is a step the journal promises.              *)
LEMMA LedgerStep ==
    ASSUME Typed, [AdmissionNext]_vars
    PROVE  [Next]_graph
<1>1. ASSUME NEW c \in Clerks, Engine(c) PROVE [Next]_graph
  <2>1. job[c] \in Underway
    BY <1>1, JobAt DEF Engine
  <2>2. job[c].p.env \in Envelopes
    BY <2>1, EveryEnvelope DEF Underway
  <2> QED BY <1>1, <2>2 DEF Engine, Next
<1>2. ASSUME NEW id \in GraphIds, GraphStarts(id) PROVE [Next]_graph
  BY <1>2 DEF GraphStarts, Next
<1>3. ASSUME NEW c \in Clerks, ClerkStep(c) PROVE [Next]_graph
  BY <1>1, <1>3, ClerkFrame
<1>4. ASSUME NEW p \in Parked, Requests(p) PROVE [Next]_graph
  BY <1>4 DEF Requests
<1> QED BY <1>2, <1>3, <1>4 DEF AdmissionNext, Tick, vars

(* The policy in front of the graph leaves the journal's promise intact:   *)
(* every run of the controllers, approvals, replays and crashes included,  *)
(* is a run of the ledger, so all that is proved of the ledger holds here. *)
THEOREM AdmissionImplementsLedger == AdmissionSpec => Spec
<1>1. AdmissionInit => Init
  BY DEF AdmissionInit
<1>2. Typed /\ [AdmissionNext]_vars => Typed'
  BY TypedStep
<1>3. Typed /\ [AdmissionNext]_vars => [Next]_graph
  BY LedgerStep
<1> QED BY <1>1, <1>2, <1>3, TypedInit, PTL DEF AdmissionSpec, Spec

(* The clock, the log, the queue and the jobs are always what they should  *)
(* be (admission.py, the two tables and propose()'s locals).               *)
THEOREM AdmissionTypes == AdmissionSpec => []AdmissionTypeOK
<1>1. Typed /\ [AdmissionNext]_vars => Typed'
  BY TypedStep
<1>2. Typed /\ TypeOK => AdmissionTypeOK
  BY DEF Typed, TypeOK, AdmissionTypeOK, LogRow, Entry
<1> QED
  BY <1>1, <1>2, TypedInit, AdmissionImplementsLedger, TypeCorrect, PTL
  DEF AdmissionSpec

-----------------------------------------------------------------------------
(* What is committed and why.                                              *)

Hist == Range(graph.history)

(* A graph that is not there has no history.                               *)
Unborn == graph.id = Nil => graph.history = <<>>

(* An accepted envelope is what the history has more than before.          *)
LEMMA AcceptAdds ==
    ASSUME LedgerInv, NEW env \in Envelopes, Accept(env)
    PROVE  Hist' = Hist \cup {env} /\ graph'.id # Nil
<1> DEFINE h == graph.history
           next == Result(graph, env)
<1>1. graph \in Graph /\ h \in Seq(Envelope) /\ env \in Envelope
  BY LedgerAssumption DEF LedgerInv, TypeOK, Graph
<1>2. graph' = next /\ MutationValid(graph, env) /\ graph.id # Nil
  BY DEF Accept, Admissible
<1>3. next.id = graph.id /\ next.history = Append(h, env)
  BY <1>1, <1>2, ResultOfEnvelope
<1> HIDE DEF next
<1>4. Range(Append(h, env)) = Range(h) \cup {env}
  <2> HIDE DEF h
  <2>1. /\ DOMAIN Append(h, env) = 1..(Len(h) + 1)
        /\ DOMAIN h = 1..Len(h)
        /\ Len(h) \in Nat
        /\ \A i \in 1..Len(h) : Append(h, env)[i] = h[i]
        /\ Append(h, env)[Len(h) + 1] = env
    BY <1>1
  <2>2. \A i \in 1..(Len(h) + 1) : i \in 1..Len(h) \/ i = Len(h) + 1
    BY <2>1
  <2>3. Len(h) + 1 \in 1..(Len(h) + 1) /\ 1..Len(h) \subseteq 1..(Len(h) + 1)
    BY <2>1
  <2> QED BY <2>1, <2>2, <2>3 DEF Range
<1> QED BY <1>2, <1>3, <1>4 DEF Hist

(* Nothing is ever taken out of the history.                               *)
LEMMA HistoryGrows ==
    ASSUME LedgerInv, Unborn, [Next]_graph
    PROVE  Hist \subseteq Hist' /\ Unborn'
<1>1. ASSUME NEW id \in GraphIds, InitGraph(id)
      PROVE  Hist \subseteq Hist' /\ Unborn'
  <2>1. graph.history = <<>> /\ graph'.history = <<>>
    BY <1>1, EmptyGraphInv DEF InitGraph, Unborn
  <2> QED BY <2>1 DEF Hist, Unborn
<1>2. ASSUME NEW env \in Envelopes, Accept(env)
      PROVE  Hist \subseteq Hist' /\ Unborn'
  BY <1>2, AcceptAdds DEF Unborn
<1> QED BY <1>1, <1>2 DEF Next, Hist, Unborn

(* What is new in the history has come there through a controller's job.   *)
LEMMA NewInHistory ==
    ASSUME Typed, LedgerInv, Unborn, [AdmissionNext]_vars,
           NEW env \in Hist', env \notin Hist
    PROVE  \E c \in Clerks : Engine(c) /\ job[c].p.env = env
<1>1. graph' # graph
  BY DEF Hist
<1>2. ASSUME NEW id \in GraphIds, GraphStarts(id) PROVE FALSE
  <2>1. graph'.history = <<>>
    BY <1>2, EmptyGraphInv DEF GraphStarts, InitGraph
  <2> QED BY <2>1 DEF Hist, Range
<1>3. PICK c \in Clerks : Engine(c)
  BY <1>1, <1>2, ClerkFrame DEF AdmissionNext, Requests, Tick, vars
<1>4. job[c].p.env \in Envelopes
  <2>1. job[c] \in Underway
    BY <1>3, JobAt DEF Engine
  <2> QED BY <2>1, EveryEnvelope DEF Underway
<1>5. Accept(job[c].p.env)
  BY <1>1, <1>3 DEF Engine
<1> QED BY <1>3, <1>4, <1>5, AcceptAdds

(* Entries of the queue stay, and stay what they ask for.                  *)
Extends(entries, others) ==
    \A id \in DOMAIN entries :
        id \in DOMAIN others /\ others[id].p = entries[id].p

(* No step removes an entry, or changes what it asks for.                  *)
LEMMA QueueGrows ==
    ASSUME Typed, [AdmissionNext]_vars
    PROVE  Extends(queue, queue')
<1>1. ASSUME NEW c \in Clerks, Resolves(c) PROVE Extends(queue, queue')
  <2> DEFINE t == job[c].ticket
             v == job[c].verdict
  <2>1. queue' = IF Pending(t) THEN [queue EXCEPT ![t].state = v] ELSE queue
    BY <1>1 DEF Resolves
  <2> HIDE DEF t, v
  <2> QED BY <2>1 DEF Typed, Entry, Extends
<1>2. ASSUME NEW p \in Parked, Requests(p) PROVE Extends(queue, queue')
  <2>1. /\ DOMAIN queue' = DOMAIN queue \cup {Content(p)}
        /\ \A id \in DOMAIN queue' :
              queue'[id] = IF id = Content(p)
                           THEN [p |-> p, state |-> "pending"] ELSE queue[id]
        /\ Content(p) \notin DOMAIN queue
    BY <1>2 DEF Requests
  <2> QED BY <2>1 DEF Extends
<1>3. queue' = queue => Extends(queue, queue')
  BY DEF Extends
<1> QED
  BY <1>1, <1>2, <1>3, ClerkFrame DEF AdmissionNext, GraphStarts, Tick, vars

(* What a controller's job rests on: a decision on an entry of the queue,  *)
(* which is committed if it says approved; a proposal approved as it is    *)
(* queued; a proposal of the model's that claims no human authority; and   *)
(* what is to be recorded is in the history.                               *)
Sound(r, entries, hist) ==
    r # Nil =>
        /\ r.step = "resolve" =>
               /\ r.ticket \in DOMAIN entries
               /\ r.verdict = "approved" =>
                      Approved(entries[r.ticket].p).env \in hist
        /\ (r.step # "resolve" /\ r.ticket # Nil) =>
               /\ r.ticket \in DOMAIN entries
               /\ r.p = Approved(entries[r.ticket].p)
        /\ (r.step # "resolve" /\ r.ticket = Nil) =>
               r.p \in Proposals /\ Permitted(r.p)
        /\ r.step = "record" => r.p.env \in hist

(* A sound job stays sound while the queue and the history grow.           *)
LEMMA SoundKept ==
    ASSUME NEW r, NEW entries, NEW others, NEW hist, NEW more,
           Extends(entries, others), hist \subseteq more,
           Sound(r, entries, hist)
    PROVE  Sound(r, others, more)
<1> HIDE DEF Approved, Permitted
<1> QED BY DEF Sound, Extends

(* A job is changed for one controller only.                               *)
LEMMA GoesThere ==
    ASSUME Typed, NEW c \in Clerks, NEW r, Goes(c, r)
    PROVE  /\ job'[c] = r
           /\ \A d \in Clerks \ {c} : job'[d] = job[d]
BY DEF Typed, Goes

(* The answer to a sound proposal is sound, if it says approved for one    *)
(* that is in the history only.                                            *)
LEMMA AnswerSound ==
    ASSUME Typed, NEW c \in Clerks, job[c] \in Underway, NEW hist,
           Sound(job[c], queue, hist), job[c] # Nil, NEW verdict,
           verdict = "approved" => job[c].p.env \in hist,
           Answers(c, verdict)
    PROVE  Sound(job'[c], queue, hist)
<1>1. CASE job[c].ticket = Nil
  <2>1. job'[c] = Nil
    BY <1>1, GoesThere DEF Answers
  <2> QED BY <2>1 DEF Sound
<1>2. CASE job[c].ticket # Nil
  <2> DEFINE r == Resolution(job[c].ticket, verdict)
  <2>1. job'[c] = r
    BY <1>2, GoesThere DEF Answers
  <2>2. r.step = "resolve" /\ r.ticket = job[c].ticket /\ r.verdict = verdict
    BY DEF Resolution
  <2>3. job[c].step # "resolve"
    BY DEF Underway
  <2> HIDE DEF r
  <2> QED BY <1>2, <2>1, <2>2, <2>3 DEF Sound
<1> QED BY <1>1, <1>2

(* A sound proposal goes on to a sound one, if it goes on to be recorded   *)
(* with its envelope in the history.                                       *)
LEMMA ContinueSound ==
    ASSUME Typed, NEW c \in Clerks, job[c] \in Underway, NEW hist,
           Sound(job[c], queue, hist), job[c] # Nil,
           NEW step \in {"throttle", "budget", "engine", "record"},
           step = "record" => job[c].p.env \in hist,
           Continues(c, step)
    PROVE  Sound(job'[c], queue, hist)
<1> DEFINE r == [job[c] EXCEPT !.step = step]
<1>1. job'[c] = r
  BY GoesThere DEF Continues
<1>2. r.step = step /\ r.p = job[c].p /\ r.ticket = job[c].ticket
  BY DEF Underway
<1>3. job[c].step # "resolve"
  BY DEF Underway
<1> HIDE DEF r
<1> QED BY <1>1, <1>2, <1>3 DEF Sound

(* Each action of a controller leaves it with a sound job.                 *)
LEMMA ClerkSound ==
    ASSUME Typed, LedgerInv, NEW c \in Clerks, ClerkStep(c),
           NEW hist, Hist' \subseteq hist,
           Sound(job[c], queue, hist)
    PROVE  Sound(job'[c], queue, hist)
<1>1. ASSUME NEW p \in Proposals, Submits(c, p)
      PROVE  Sound(job'[c], queue, hist)
  <2> DEFINE r == Job(p, Nil)
  <2>1. job'[c] = r /\ Permitted(p)
    BY <1>1, GoesThere DEF Submits
  <2>2. r.step = "evidence" /\ r.p = p /\ r.ticket = Nil
    BY DEF Job
  <2> HIDE DEF r
  <2> QED BY <2>1, <2>2 DEF Sound
<1>2. ASSUME NEW id \in DOMAIN queue, NEW model \in BOOLEAN,
             Approves(c, id, model)
      PROVE  Sound(job'[c], queue, hist)
  <2> DEFINE p == Approved(queue[id].p)
             r == Job(p, id)
             s == Resolution(id, "approval_failed")
  <2>1. job'[c] = IF Permitted(p) THEN r ELSE s
    BY <1>2, ApprovesOnly, GoesThere
  <2>2. r.step = "evidence" /\ r.p = p /\ r.ticket = id
    BY DEF Job
  <2>3. s.step = "resolve" /\ s.ticket = id /\ s.verdict = "approval_failed"
    BY DEF Resolution
  <2>4. id # Nil
    BY EntryTyped, AdmissionAssumption
  <2>5. CASE job'[c] = r
    <3> HIDE DEF r, s
    <3> QED BY <2>2, <2>4, <2>5 DEF Sound
  <2>6. CASE job'[c] = s
    <3> HIDE DEF r, s
    <3> QED BY <2>3, <2>6 DEF Sound
  <2> QED BY <2>1, <2>5, <2>6
<1>3. ASSUME NEW id \in DOMAIN queue, NEW model \in BOOLEAN,
             Rejects(c, id, model)
      PROVE  Sound(job'[c], queue, hist)
  <2> DEFINE s == Resolution(id, "rejected")
  <2>1. job'[c] = s
    BY <1>3, GoesThere DEF Rejects
  <2>2. s.step = "resolve" /\ s.ticket = id /\ s.verdict = "rejected"
    BY DEF Resolution
  <2> HIDE DEF s
  <2> QED BY <2>1, <2>2 DEF Sound
<1>4. ASSUME ChecksEvidence(c) PROVE Sound(job'[c], queue, hist)
  <2>1. job[c] \in Underway /\ job[c] # Nil
    BY <1>4, JobAt DEF ChecksEvidence
  <2>2. Continues(c, "throttle") \/ Answers(c, "approval_failed")
    BY <1>4 DEF ChecksEvidence, Refused
  <2> QED BY <2>1, <2>2, ContinueSound, AnswerSound
<1>5. ASSUME Throttles(c) PROVE Sound(job'[c], queue, hist)
  <2>1. job[c] \in Underway /\ job[c] # Nil
    BY <1>5, JobAt DEF Throttles
  <2>2. \/ Continues(c, "budget")
        \/ Answers(c, "approval_failed")
        \/ Goes(c, Nil)
    BY <1>5 DEF Throttles, Refused
  <2>3. Goes(c, Nil) => Sound(job'[c], queue, hist)
    BY GoesThere DEF Sound
  <2> QED BY <2>1, <2>2, <2>3, ContinueSound, AnswerSound
<1>6. ASSUME ChecksBudget(c) PROVE Sound(job'[c], queue, hist)
  <2>1. job[c] \in Underway /\ job[c] # Nil
    BY <1>6, JobAt DEF ChecksBudget
  <2>2. Continues(c, "engine") \/ Answers(c, "approval_failed")
    BY <1>6 DEF ChecksBudget, Refused
  <2> QED BY <2>1, <2>2, ContinueSound, AnswerSound
<1>7. ASSUME Engine(c) PROVE Sound(job'[c], queue, hist)
  <2>1. job[c] \in Underway /\ job[c] # Nil
    BY <1>7, JobAt DEF Engine
  <2>2. job[c].p.env \in Envelopes
    BY <2>1, EveryEnvelope DEF Underway
  <2>3. \/ Continues(c, "record") /\ job[c].p.env \in Hist'
        \/ Answers(c, "approval_failed")
    BY <1>7, <2>2, AcceptAdds DEF Engine, Refused, Hist
  <2> QED BY <2>1, <2>3, ContinueSound, AnswerSound
<1>8. ASSUME Records(c) PROVE Sound(job'[c], queue, hist)
  <2>1. job[c] \in Underway /\ job[c] # Nil /\ job[c].step = "record"
    BY <1>8, JobAt DEF Records, At
  <2>2. job[c].p.env \in hist
    BY <2>1 DEF Sound
  <2> QED BY <1>8, <2>1, <2>2, AnswerSound DEF Records
<1>9. ASSUME Resolves(c) \/ Crash(c) PROVE Sound(job'[c], queue, hist)
  <2>1. job'[c] = Nil
    BY <1>9, GoesThere DEF Resolves, Crash
  <2> QED BY <2>1 DEF Sound
<1> QED
  BY <1>1, <1>2, <1>3, <1>4, <1>5, <1>6, <1>7, <1>8, <1>9 DEF ClerkStep

(* An answer leaves nothing but the entry to resolve,                      *)
LEMMA AnswerLeaves ==
    ASSUME Typed, NEW c \in Clerks, NEW verdict, Answers(c, verdict)
    PROVE  \/ job'[c] = Nil
           \/ job'[c].step = "resolve" /\ job'[c].ticket = job[c].ticket
<1>1. job'[c] = Nil \/ job'[c] = Resolution(job[c].ticket, verdict)
  BY GoesThere DEF Answers
<1> QED BY <1>1 DEF Resolution

(* Going on changes the step only.                                         *)
LEMMA ContinueStays ==
    ASSUME Typed, NEW c \in Clerks, job[c] \in Underway,
           NEW step \in {"throttle", "budget", "engine", "record"},
           Continues(c, step)
    PROVE  /\ job'[c] # Nil
           /\ job'[c].step = step
           /\ job'[c].p = job[c].p
           /\ job'[c].at = job[c].at
           /\ job'[c].ticket = job[c].ticket
<1> DEFINE r == [job[c] EXCEPT !.step = step]
<1>1. job'[c] = r
  BY GoesThere DEF Continues
<1>2. /\ r.step = step /\ r.p = job[c].p /\ r.at = job[c].at
      /\ r.ticket = job[c].ticket
  BY DEF Underway
<1>3. r \in JobRecord
  BY DEF Underway, JobRecord
<1> HIDE DEF r
<1> QED BY <1>1, <1>2, <1>3, AdmissionAssumption

(* So a controller goes on with the proposal and the entry it has, unless  *)
(* it has just begun.                                                      *)
Begins(c) ==
    \/ \E p \in Proposals : Submits(c, p)
    \/ \E id \in DOMAIN queue, model \in BOOLEAN :
           Approves(c, id, model) \/ Rejects(c, id, model)

LEMMA ClerkCarries ==
    ASSUME Typed, NEW c \in Clerks, ClerkStep(c), ~Begins(c), job'[c] # Nil
    PROVE  /\ job[c] \in Underway /\ job[c] # Nil
           /\ job'[c].ticket = job[c].ticket
           /\ job'[c].step # "resolve" => job'[c].p = job[c].p
<1>1. ~Goes(c, Nil)
  BY GoesThere
<1>2. PICK step \in {"evidence", "throttle", "budget", "engine", "record"} :
        At(c, step)
  BY <1>1 DEF ClerkStep, Begins, ChecksEvidence, Throttles, ChecksBudget,
              Engine, Records, Resolves, Crash
<1>3. job[c] \in Underway /\ job[c] # Nil
  BY <1>2, JobAt
<1>4. \/ \E verdict \in QueueState : Answers(c, verdict)
      \/ \E next \in {"throttle", "budget", "engine", "record"} :
             Continues(c, next)
  BY <1>1 DEF ClerkStep, Begins, ChecksEvidence, Throttles, ChecksBudget,
              Engine, Records, Resolves, Crash, Refused, QueueState
<1> QED BY <1>3, <1>4, AnswerLeaves, ContinueStays

(* What a human has said of a job: whoever goes on in a human's name has   *)
(* been submitted or approved by one, and so has the entry it is about.    *)
Backed(r, said, settled) ==
    r # Nil =>
        /\ (r.step # "resolve" /\ r.p.env.human) => r.p.env \in said
        /\ r.ticket # Nil => r.ticket \in settled

AllBacked == \A c \in Clerks : Backed(job[c], vouched, decided)

(* Every controller's step leaves its job backed,                          *)
LEMMA ClerkBacked ==
    ASSUME Typed, NEW c \in Clerks, ClerkStep(c),
           Backed(job[c], vouched, decided)
    PROVE  Backed(job'[c], vouched', decided')
<1>1. ASSUME NEW p \in Proposals, Submits(c, p)
      PROVE  Backed(job'[c], vouched', decided')
  <2> DEFINE r == Job(p, Nil)
  <2>1. job'[c] = r /\ Permitted(p) /\ Vouches(p)
    BY <1>1, GoesThere DEF Submits
  <2>2. r.step = "evidence" /\ r.p = p /\ r.ticket = Nil
    BY DEF Job
  <2> HIDE DEF r
  <2> QED BY <2>1, <2>2 DEF Backed, Permitted, Vouches
<1>2. ASSUME NEW id \in DOMAIN queue, NEW model \in BOOLEAN,
             Approves(c, id, model)
      PROVE  Backed(job'[c], vouched', decided')
  <2> DEFINE p == Approved(queue[id].p)
             r == Job(p, id)
             s == Resolution(id, "approval_failed")
  <2>1. /\ job'[c] = IF Permitted(p) THEN r ELSE s
        /\ Vouches(p) /\ id \in decided'
    BY <1>2, ApprovesOnly, GoesThere
  <2>2. r.step = "evidence" /\ r.p = p /\ r.ticket = id
    BY DEF Job
  <2>3. s.step = "resolve" /\ s.ticket = id
    BY DEF Resolution
  <2> HIDE DEF p, r, s
  <2>4. CASE Permitted(p)
    BY <2>1, <2>2, <2>4 DEF Backed, Permitted, Vouches
  <2>5. CASE ~Permitted(p)
    BY <2>1, <2>3, <2>5 DEF Backed
  <2> QED BY <2>4, <2>5
<1>3. ASSUME NEW id \in DOMAIN queue, NEW model \in BOOLEAN,
             Rejects(c, id, model)
      PROVE  Backed(job'[c], vouched', decided')
  <2> DEFINE s == Resolution(id, "rejected")
  <2>1. job'[c] = s /\ id \in decided'
    BY <1>3, GoesThere DEF Rejects, Decides, MayDecide
  <2>2. s.step = "resolve" /\ s.ticket = id
    BY DEF Resolution
  <2> HIDE DEF s
  <2> QED BY <2>1, <2>2 DEF Backed
<1>4. CASE ~Begins(c)
  <2>1. CASE job'[c] = Nil
    BY <2>1 DEF Backed
  <2>2. CASE job'[c] # Nil
    <3>1. /\ job[c] \in Underway /\ job[c] # Nil
          /\ job'[c].ticket = job[c].ticket
          /\ job'[c].step # "resolve" => job'[c].p = job[c].p
      BY <1>4, <2>2, ClerkCarries
    <3>2. job[c].step # "resolve"
      BY <3>1 DEF Underway
    <3> QED BY <3>1, <3>2, ClerkFrame DEF Backed
  <2> QED BY <2>1, <2>2
<1> QED BY <1>1, <1>2, <1>3, <1>4 DEF Begins

(* and no one else's is the worse for it.                                  *)
LEMMA BackedStep ==
    ASSUME Typed, AllBacked, [AdmissionNext]_vars
    PROVE  AllBacked' /\ vouched \subseteq vouched' /\ decided \subseteq decided'
<1>1. vouched \subseteq vouched' /\ decided \subseteq decided'
  BY ClerkFrame DEF AdmissionNext, Requests, GraphStarts, Tick, vars
<1>2. ASSUME NEW c \in Clerks, ClerkStep(c), NEW d \in Clerks
      PROVE  Backed(job'[d], vouched', decided')
  <2>1. CASE d = c
    BY <1>2, <2>1, ClerkBacked DEF AllBacked
  <2>2. CASE d # c
    <3>1. PICK r \in JobRecord \cup {Nil} : job' = [job EXCEPT ![c] = r]
      BY <1>2, ClerkReplaces DEF Replaces
    <3>2. job'[d] = job[d]
      BY <2>2, <3>1, GoesThere DEF Goes
    <3> QED BY <1>1, <3>2 DEF AllBacked, Backed
  <2> QED BY <2>1, <2>2
<1>3. CASE job' = job
  BY <1>1, <1>3 DEF AllBacked, Backed
<1>4. (\E c \in Clerks : ClerkStep(c)) \/ job' = job
  BY DEF AdmissionNext, Requests, GraphStarts, Tick, vars
<1> QED BY <1>1, <1>2, <1>3, <1>4 DEF AllBacked

(* The invariant: the log, the queue and the jobs say nothing of the       *)
(* history that is not so.                                                 *)
LogTrue == \A i \in DOMAIN log : log[i].p.env \in Hist

PolicyInv ==
    /\ Typed
    /\ LedgerInv
    /\ Unborn
    /\ LogTrue
    /\ \A c \in Clerks : Sound(job[c], queue, Hist)
    /\ AllBacked
    /\ ApprovedIsCommitted
    /\ HumanBehind

(* At first there is no history to be wrong about.                         *)
LEMMA PolicyInit == AdmissionInit /\ LedgerInv => PolicyInv
<1> SUFFICES ASSUME AdmissionInit, LedgerInv PROVE PolicyInv
  OBVIOUS
<1>1. graph.history = <<>>
  BY EmptyGraphInv DEF AdmissionInit, Init
<1>2. Hist = {}
  BY <1>1 DEF Hist, Range
<1>3. Unborn
  BY <1>1 DEF Unborn
<1>4. LogTrue
  BY DEF AdmissionInit, LogTrue
<1>5. \A c \in Clerks : Sound(job[c], queue, Hist)
  BY DEF AdmissionInit, Sound
<1>6. ApprovedIsCommitted
  BY DEF AdmissionInit, ApprovedIsCommitted
<1>7. HumanBehind
  BY <1>2 DEF AdmissionInit, Hist, HumanBehind
<1>8. AllBacked
  BY DEF AdmissionInit, AllBacked, Backed
<1> QED BY <1>3, <1>4, <1>5, <1>6, <1>7, <1>8, TypedInit DEF PolicyInv

(* The invariant is kept by every step; that the ledger's is, is known.    *)
LEMMA PolicyStep ==
    ASSUME PolicyInv, [AdmissionNext]_vars, LedgerInv'
    PROVE  PolicyInv'
<1> USE DEF PolicyInv
<1>1. Typed' /\ [Next]_graph
  BY TypedStep, LedgerStep
<1>2. Hist \subseteq Hist' /\ Unborn'
  BY <1>1, HistoryGrows
<1>3. Extends(queue, queue')
  BY QueueGrows
<1>4. LogTrue'
  <2>1. ASSUME NEW c \in Clerks, Records(c) PROVE LogTrue'
    <3> DEFINE row == [p |-> job[c].p, at |-> job[c].at]
    <3>1. job[c] # Nil /\ job[c].step = "record"
      BY <2>1 DEF Records, At
    <3>2. row.p.env \in Hist
      BY <3>1 DEF Sound
    <3>3. log' = Append(log, row) /\ log \in Seq(LogRow)
      BY <2>1 DEF Records, Typed
    <3> HIDE DEF row
    <3> QED BY <1>2, <3>2, <3>3 DEF LogTrue
  <2>2. CASE log' = log
    BY <1>2, <2>2 DEF LogTrue
  <2> QED
    BY <2>1, <2>2, ClerkFrame
    DEF AdmissionNext, Requests, GraphStarts, Tick, vars
<1>5. \A c \in Clerks : Sound(job'[c], queue', Hist')
  <2>1. \A c \in Clerks : Sound(job[c], queue, Hist')
    <3> Extends(queue, queue)
      BY DEF Extends
    <3> QED BY <1>2, SoundKept
  <2>2. \A c \in Clerks : Sound(job'[c], queue, Hist')
    <3>1. ASSUME NEW c \in Clerks, ClerkStep(c)
          PROVE  \A d \in Clerks : Sound(job'[d], queue, Hist')
      <4>1. Sound(job'[c], queue, Hist')
        BY <2>1, <3>1, ClerkSound
      <4>2. \A d \in Clerks \ {c} : job'[d] = job[d]
        <5>1. PICK r \in JobRecord \cup {Nil} : job' = [job EXCEPT ![c] = r]
          BY <3>1, ClerkReplaces DEF Replaces
        <5> QED BY <5>1, GoesThere DEF Goes
      <4> QED BY <2>1, <4>1, <4>2
    <3>2. CASE job' = job
      BY <2>1, <3>2
    <3> QED
      BY <3>1, <3>2 DEF AdmissionNext, Requests, GraphStarts, Tick, vars
  <2> QED BY <1>3, <2>2, SoundKept
<1>6. ApprovedIsCommitted'
  <2> SUFFICES ASSUME NEW id \in DOMAIN queue', queue'[id].state = "approved"
               PROVE  Approved(queue'[id].p).env \in Hist'
    BY DEF ApprovedIsCommitted, Hist
  <2>1. ASSUME NEW c \in Clerks, Resolves(c), queue' # queue
        PROVE  Approved(queue'[id].p).env \in Hist'
    <3> DEFINE t == job[c].ticket
               v == job[c].verdict
    <3>1. /\ queue' = [queue EXCEPT ![t].state = v]
          /\ Pending(t)
      BY <2>1 DEF Resolves
    <3>2. job[c] # Nil /\ job[c].step = "resolve"
      BY <2>1 DEF Resolves, At
    <3>3. v = "approved" => Approved(queue[t].p).env \in Hist
      BY <3>2 DEF Sound
    <3> HIDE DEF t, v
    <3>4. CASE id = t
      <4>1. queue'[id].state = v /\ queue'[id].p = queue[t].p
        BY <3>1, <3>4 DEF Pending, Typed, Entry
      <4> QED BY <1>2, <3>3, <4>1
    <3>5. CASE id # t
      <4>1. id \in DOMAIN queue /\ queue'[id] = queue[id]
        BY <3>1, <3>5
      <4> QED BY <1>2, <4>1 DEF ApprovedIsCommitted, Hist
    <3> QED BY <3>4, <3>5
  <2>2. ASSUME NEW p \in Parked, Requests(p)
        PROVE  Approved(queue'[id].p).env \in Hist'
    <3>1. queue'[id] = IF id = Content(p) THEN [p |-> p, state |-> "pending"]
                       ELSE queue[id]
      BY <2>2 DEF Requests
    <3>2. id \in DOMAIN queue /\ queue'[id] = queue[id]
      BY <2>2, <3>1 DEF Requests
    <3> QED BY <1>2, <3>2 DEF ApprovedIsCommitted, Hist
  <2>3. CASE queue' = queue
    BY <1>2, <2>3 DEF ApprovedIsCommitted, Hist
  <2> QED
    BY <2>1, <2>2, <2>3, ClerkFrame DEF AdmissionNext, GraphStarts, Tick, vars
<1>7. AllBacked' /\ vouched \subseteq vouched' /\ decided \subseteq decided'
  BY BackedStep
<1>8. \A env \in Hist' : env.human => env \in vouched'
  <2> SUFFICES ASSUME NEW env \in Hist', env.human PROVE env \in vouched'
    OBVIOUS
  <2>1. CASE env \in Hist
    BY <1>7, <2>1 DEF HumanBehind, Hist
  <2>2. CASE env \notin Hist
    <3>1. PICK c \in Clerks : Engine(c) /\ job[c].p.env = env
      BY <2>2, NewInHistory
    <3>2. job[c] # Nil /\ job[c].step = "engine"
      BY <3>1 DEF Engine, At
    <3> QED BY <1>7, <3>1, <3>2 DEF AllBacked, Backed
  <2> QED BY <2>1, <2>2
<1>9. \A id \in DOMAIN queue' : queue'[id].state = "pending" \/ id \in decided'
  <2> SUFFICES ASSUME NEW id \in DOMAIN queue', queue'[id].state # "pending"
               PROVE  id \in decided'
    OBVIOUS
  <2>1. ASSUME id \in DOMAIN queue, queue'[id] = queue[id]
        PROVE  id \in decided'
    BY <1>7, <2>1 DEF HumanBehind, Pending
  <2>2. ASSUME NEW c \in Clerks, Resolves(c), queue' # queue
        PROVE  id \in decided'
    <3> DEFINE t == job[c].ticket
               v == job[c].verdict
    <3>1. queue' = [queue EXCEPT ![t].state = v]
      BY <2>2 DEF Resolves
    <3>2. t \in decided
      <4>1. job[c] \in Deciding /\ job[c] # Nil
        BY <2>2, JobAt DEF Resolves
      <4>2. t # Nil
        BY <4>1, AdmissionAssumption DEF Deciding
      <4> QED BY <4>1, <4>2 DEF AllBacked, Backed
    <3> HIDE DEF t, v
    <3> QED BY <1>7, <2>1, <3>1, <3>2
  <2>3. ASSUME NEW p \in Parked, Requests(p)
        PROVE  id \in decided'
    <3>1. queue'[id] = IF id = Content(p) THEN [p |-> p, state |-> "pending"]
                       ELSE queue[id]
      BY <2>3 DEF Requests
    <3>2. id \in DOMAIN queue /\ queue'[id] = queue[id]
      BY <2>3, <3>1 DEF Requests
    <3> QED BY <2>1, <3>2
  <2> QED
    BY <2>1, <2>2, <2>3, ClerkFrame DEF AdmissionNext, GraphStarts, Tick, vars
<1>10. HumanBehind'
  BY <1>8, <1>9 DEF HumanBehind, Hist, Pending
<1> QED BY <1>1, <1>2, <1>4, <1>5, <1>6, <1>7, <1>10

(* Every run keeps the invariant.                                          *)
LEMMA PolicyInvariant == AdmissionSpec => []PolicyInv
<1>1. PolicyInv /\ LedgerInv' /\ [AdmissionNext]_vars => PolicyInv'
  BY PolicyStep
<1> QED
  BY <1>1, PolicyInit, AdmissionImplementsLedger, LedgerInvariant, PTL
  DEF AdmissionSpec

(* Whatever controllers die or overtake each other, an entry that says     *)
(* approved has been carried out as it was queued (approve()).             *)
THEOREM ApprovalTheorem == AdmissionSpec => []ApprovedIsCommitted
<1>1. PolicyInv => ApprovedIsCommitted
  BY DEF PolicyInv
<1> QED BY <1>1, PolicyInvariant, PTL

(* No interleaving of proposals, approvals and crashes commits an envelope *)
(* in the name of a human who neither submitted nor approved it, or        *)
(* decides an entry of the queue that no human has decided.                *)
THEOREM HumanTheorem == AdmissionSpec => []HumanBehind
<1>1. PolicyInv => HumanBehind
  BY DEF PolicyInv
<1> QED BY <1>1, PolicyInvariant, PTL

-----------------------------------------------------------------------------
(* The rate limit.  Every controller that has passed the throttle and has  *)
(* not recorded yet counts as the row it will be.                          *)

Passed == {"budget", "engine", "record"}

InWindow(row, g, t) ==
    /\ row.p.env.graph = g
    /\ row.at <= t
    /\ row.at + RateWindow >= t

InFlight(g, t) ==
    {c \in Clerks : /\ job[c] # Nil
                    /\ job[c].step \in Passed
                    /\ InWindow(job[c], g, t)}

RateInv ==
    \A g \in GraphIds, t \in 0..MaxTime :
        Cardinality(Window(g, RateWindow, t)) + Cardinality(InFlight(g, t))
            <= MaxMutations + Cardinality(Clerks) - 1

(* The rows of a window and the controllers in flight are counted.         *)
LEMMA WindowFinite ==
    ASSUME Typed, NEW g, NEW t
    PROVE  /\ IsFiniteSet(Window(g, RateWindow, t))
           /\ Cardinality(Window(g, RateWindow, t)) \in Nat
           /\ IsFiniteSet(InFlight(g, t))
           /\ Cardinality(InFlight(g, t)) \in Nat
           /\ Cardinality(InFlight(g, t)) <= Cardinality(Clerks)
           /\ Cardinality(Clerks) \in Nat \ {0}
<1>1. DOMAIN log = 1..Len(log) /\ Len(log) \in Nat
  BY DEF Typed
<1>2. IsFiniteSet(DOMAIN log)
  BY <1>1, FS_Interval
<1>3. Window(g, RateWindow, t) \in SUBSET DOMAIN log
  BY DEF Window
<1>4. IsFiniteSet(Clerks) /\ Clerks # {}
  BY AdmissionAssumption
<1>5. InFlight(g, t) \in SUBSET Clerks
  BY DEF InFlight
<1>6. Cardinality(Clerks) \in Nat /\ Cardinality(Clerks) # 0
  BY <1>4, FS_CardinalityType, FS_EmptySet
<1>7. /\ IsFiniteSet(Window(g, RateWindow, t))
      /\ IsFiniteSet(InFlight(g, t))
      /\ Cardinality(InFlight(g, t)) <= Cardinality(Clerks)
  BY <1>2, <1>3, <1>4, <1>5, FS_Subset
<1> QED BY <1>6, <1>7, FS_CardinalityType

(* Whoever is in flight after a step was so before, or has just passed the *)
(* throttle.                                                               *)
LEMMA ComesIntoFlight ==
    ASSUME Typed, NEW c \in Clerks, ClerkStep(c),
           job'[c] # Nil, job'[c].step \in Passed
    PROVE  /\ job[c] \in Underway /\ job[c] # Nil
           /\ job'[c].p = job[c].p /\ job'[c].at = job[c].at
           /\ ~Records(c)
           /\ \/ job[c].step \in Passed
              \/ ~RateExceeded(job[c].p, job[c].at)
<1>1. ASSUME NEW p \in Proposals, Submits(c, p) PROVE FALSE
  <2>1. job'[c] = Job(p, Nil)
    BY <1>1, GoesThere DEF Submits
  <2> QED BY <2>1 DEF Job, Passed
<1>2. ASSUME NEW id \in DOMAIN queue, NEW model \in BOOLEAN,
             Approves(c, id, model)
      PROVE  FALSE
  <2>1. \E p : job'[c] = Job(p, id) \/ job'[c] = Resolution(id, "approval_failed")
    BY <1>2, GoesThere DEF Approves
  <2> QED BY <2>1 DEF Job, Resolution, Passed
<1>3. ASSUME NEW id \in DOMAIN queue, NEW model \in BOOLEAN,
             Rejects(c, id, model)
      PROVE  FALSE
  <2>1. job'[c] = Resolution(id, "rejected")
    BY <1>3, GoesThere DEF Rejects
  <2> QED BY <2>1 DEF Resolution, Passed
<1>4. ASSUME ChecksEvidence(c) PROVE FALSE
  <2>1. job[c] \in Underway
    BY <1>4, JobAt DEF ChecksEvidence
  <2>2. Continues(c, "throttle") \/ Answers(c, "approval_failed")
    BY <1>4 DEF ChecksEvidence, Refused
  <2> QED BY <2>1, <2>2, ContinueStays, AnswerLeaves DEF Passed
<1>5. ASSUME Records(c) PROVE FALSE
  BY <1>5, AnswerLeaves DEF Records, Passed
<1>6. ASSUME Resolves(c) \/ Crash(c) PROVE FALSE
  BY <1>6, GoesThere DEF Resolves, Crash
<1>7. ASSUME Throttles(c)
      PROVE  /\ job[c] \in Underway /\ job[c] # Nil
             /\ job'[c].p = job[c].p /\ job'[c].at = job[c].at
             /\ ~RateExceeded(job[c].p, job[c].at)
  <2>1. job[c] \in Underway /\ job[c] # Nil
    BY <1>7, JobAt DEF Throttles
  <2>2. ~Answers(c, "approval_failed")
    BY AnswerLeaves DEF Passed
  <2>3. ~Goes(c, Nil)
    BY GoesThere
  <2>4. Continues(c, "budget") /\ ~RateExceeded(job[c].p, job[c].at)
    BY <1>7, <2>2, <2>3 DEF Throttles, Refused
  <2> QED BY <2>1, <2>4, ContinueStays
<1>8. ASSUME ChecksBudget(c) \/ Engine(c)
      PROVE  /\ job[c] \in Underway /\ job[c] # Nil
             /\ job'[c].p = job[c].p /\ job'[c].at = job[c].at
             /\ job[c].step \in Passed
  <2>1. job[c] \in Underway /\ job[c] # Nil /\ job[c].step \in Passed
    BY <1>8, JobAt DEF ChecksBudget, Engine, At, Passed
  <2>2. ~Answers(c, "approval_failed")
    BY AnswerLeaves DEF Passed
  <2>3. Continues(c, "engine") \/ Continues(c, "record")
    BY <1>8, <2>2 DEF ChecksBudget, Engine, Refused
  <2> QED BY <2>1, <2>3, ContinueStays
<1> QED
  BY <1>1, <1>2, <1>3, <1>4, <1>5, <1>6, <1>7, <1>8 DEF ClerkStep

(* A controller that passes the throttle has seen fewer than the limit in  *)
(* the rows a window that it will be in can hold.                          *)
LEMMA ThrottleCounts ==
    ASSUME Typed, NEW p, NEW at \in Nat, NEW t \in Nat,
           at <= t, ~RateExceeded(p, at)
    PROVE  Cardinality(Window(p.env.graph, RateWindow, t)) < MaxMutations
<1> DEFINE W == Window(p.env.graph, RateWindow, t)
           S == Since(p, RateWindow, at)
<1>1. W \in SUBSET S
  <2>1. \A i \in DOMAIN log : log[i].at \in Nat
    <3>1. \A i \in DOMAIN log : log[i] \in LogRow
      BY DEF Typed
    <3>2. MaxTime \in Nat
      BY AdmissionAssumption
    <3> QED BY <3>1, <3>2 DEF LogRow
  <2>2. RateWindow \in Nat
    BY AdmissionAssumption
  <2> QED BY <2>1, <2>2 DEF Window, Since
<1>2. IsFiniteSet(S)
  <2>1. DOMAIN log = 1..Len(log) /\ Len(log) \in Nat
    BY DEF Typed
  <2>2. IsFiniteSet(DOMAIN log) /\ S \in SUBSET DOMAIN log
    BY <2>1, FS_Interval DEF Since
  <2> QED BY <2>2, FS_Subset
<1>3. ~(Cardinality(S) >= MaxMutations)
  BY DEF RateExceeded
<1> HIDE DEF W, S
<1>4. Cardinality(W) <= Cardinality(S) /\ IsFiniteSet(W)
  BY <1>1, <1>2, FS_Subset
<1>5. Cardinality(W) \in Nat /\ Cardinality(S) \in Nat /\ MaxMutations \in Nat
  BY <1>2, <1>4, FS_CardinalityType, AdmissionAssumption
<1>6. Cardinality(W) < MaxMutations
  BY <1>3, <1>4, <1>5
<1> QED BY <1>6 DEF W

(* The step of a controller changes no other's job.                        *)
LEMMA ClerkOnly ==
    ASSUME Typed, NEW c \in Clerks, ClerkStep(c)
    PROVE  \A d \in Clerks \ {c} : job'[d] = job[d]
<1>1. PICK r \in JobRecord \cup {Nil} : job' = [job EXCEPT ![c] = r]
  BY ClerkReplaces DEF Replaces
<1> QED BY <1>1, GoesThere DEF Goes

(* A step that records nothing keeps the bound.                            *)
LEMMA RateUnrecorded ==
    ASSUME Typed, Typed', RateInv, NEW c \in Clerks, ClerkStep(c), log' = log
    PROVE  RateInv'
<1> SUFFICES ASSUME NEW g \in GraphIds, NEW t \in 0..MaxTime
             PROVE  Cardinality(Window(g, RateWindow, t)') +
                        Cardinality(InFlight(g, t)')
                        <= MaxMutations + Cardinality(Clerks) - 1
  BY DEF RateInv
<1> DEFINE W == Window(g, RateWindow, t)
           F == InFlight(g, t)
           G == InFlight(g, t)'
           n == Cardinality(Clerks)
<1>1. Window(g, RateWindow, t)' = W
  BY DEF Window
<1>2. /\ Cardinality(W) \in Nat /\ Cardinality(F) \in Nat
      /\ IsFiniteSet(F) /\ n \in Nat \ {0}
  BY WindowFinite
<1>3. Cardinality(G) \in Nat /\ Cardinality(G) <= n
  <2>1. G \in SUBSET Clerks
    BY DEF InFlight
  <2>2. IsFiniteSet(Clerks)
    BY AdmissionAssumption
  <2> HIDE DEF G
  <2> QED BY <2>1, <2>2, FS_Subset, FS_CardinalityType
<1>4. Cardinality(W) + Cardinality(F) <= MaxMutations + n - 1
  BY DEF RateInv
<1>5. MaxMutations \in Nat /\ MaxTime \in Nat
  BY AdmissionAssumption
<1>6. CASE G \subseteq F
  <2> HIDE DEF W, F, G, n
  <2>1. Cardinality(G) <= Cardinality(F)
    BY <1>2, <1>6, FS_Subset
  <2>2. Cardinality(W) + Cardinality(G) <= MaxMutations + n - 1
    BY <1>2, <1>3, <1>4, <1>5, <2>1
  <2> QED BY <1>1, <2>2 DEF G, n
<1>7. CASE ~(G \subseteq F)
  <2>1. PICK d \in Clerks : d \in G /\ d \notin F
    BY <1>7 DEF InFlight
  <2>2. /\ job'[d] # Nil
        /\ job'[d].step \in Passed
        /\ InWindow(job'[d], g, t)
    BY <2>1 DEF InFlight, InWindow
  <2>3. d = c
    BY <2>1, <2>2, ClerkOnly DEF InFlight
  <2>4. /\ job[c] \in Underway /\ job[c] # Nil
        /\ job'[c].p = job[c].p /\ job'[c].at = job[c].at
        /\ \/ job[c].step \in Passed
           \/ ~RateExceeded(job[c].p, job[c].at)
    BY <2>2, <2>3, ComesIntoFlight
  <2>5. InWindow(job[c], g, t)
    BY <2>2, <2>3, <2>4 DEF InWindow
  <2>6. ~RateExceeded(job[c].p, job[c].at)
    BY <2>1, <2>3, <2>4, <2>5 DEF InFlight
  <2>7. /\ job[c].at \in Nat /\ t \in Nat
        /\ job[c].at <= t /\ job[c].p.env.graph = g
    BY <1>5, <2>4, <2>5 DEF Underway, InWindow
  <2>8. Cardinality(W) < MaxMutations
    BY <2>6, <2>7, ThrottleCounts
  <2> HIDE DEF W, F, G, n
  <2>9. Cardinality(W) + Cardinality(G) <= MaxMutations + n - 1
    BY <1>2, <1>3, <1>5, <2>8
  <2> QED BY <1>1, <2>9 DEF G, n
<1> QED BY <1>6, <1>7

(* A recording turns what was in flight into a row.                        *)
LEMMA RateRecorded ==
    ASSUME Typed, Typed', RateInv, NEW c \in Clerks, Records(c)
    PROVE  RateInv'
<1> SUFFICES ASSUME NEW g \in GraphIds, NEW t \in 0..MaxTime
             PROVE  Cardinality(Window(g, RateWindow, t)') +
                        Cardinality(InFlight(g, t)')
                        <= MaxMutations + Cardinality(Clerks) - 1
  BY DEF RateInv
<1> DEFINE W == Window(g, RateWindow, t)
           V == Window(g, RateWindow, t)'
           F == InFlight(g, t)
           G == InFlight(g, t)'
           n == Cardinality(Clerks)
           row == [p |-> job[c].p, at |-> job[c].at]
           k == Len(log) + 1
<1>1. /\ Cardinality(W) \in Nat /\ Cardinality(F) \in Nat
      /\ IsFiniteSet(F) /\ IsFiniteSet(W) /\ n \in Nat
  BY WindowFinite
<1>3. Cardinality(W) + Cardinality(F) <= MaxMutations + n - 1
  BY DEF RateInv
<1>4. MaxMutations \in Nat
  BY AdmissionAssumption
<1>5. job[c] # Nil /\ job[c].step \in Passed /\ job[c] \in Underway
  BY JobAt DEF Records, At, Passed
<1>6. job'[c] = Nil \/ job'[c].step = "resolve"
  BY AnswerLeaves DEF Records
<1>7. G \subseteq F \ {c}
  <2>1. ClerkStep(c)
    BY DEF ClerkStep
  <2>2. \A d \in Clerks \ {c} : job'[d] = job[d]
    BY <2>1, ClerkOnly
  <2>3. c \notin G
    BY <1>6 DEF InFlight, Passed
  <2> QED BY <2>2, <2>3 DEF InFlight
<1>flying. Cardinality(G) \in Nat
  <2> HIDE DEF F, G
  <2>1. G \in SUBSET F
    BY <1>7
  <2> QED BY <1>1, <2>1, FS_Subset, FS_CardinalityType
<1>8. log' = Append(log, row) /\ log \in Seq(LogRow)
  BY DEF Records, Typed
<1>9. /\ DOMAIN log = 1..Len(log) /\ Len(log) \in Nat
      /\ DOMAIN log' = 1..k
      /\ \A i \in 1..Len(log) : log'[i] = log[i]
      /\ log'[k] = row
  <2> HIDE DEF row
  <2> QED BY <1>8
<1>10. V = IF InWindow(job[c], g, t) THEN W \cup {k} ELSE W
  <2>1. InWindow(row, g, t) <=> InWindow(job[c], g, t)
    BY DEF InWindow
  <2>2. V = {i \in 1..k : InWindow(log'[i], g, t)}
    BY <1>9 DEF Window, InWindow
  <2>3. W = {i \in 1..Len(log) : InWindow(log[i], g, t)}
    BY <1>9 DEF Window, InWindow
  <2>4. \A i \in 1..k : i \in 1..Len(log) \/ i = k
    BY <1>9
  <2>5. k \in 1..k /\ 1..Len(log) \subseteq 1..k /\ k \notin 1..Len(log)
    BY <1>9
  <2> HIDE DEF W, V, row, k
  <2> QED BY <1>9, <2>1, <2>2, <2>3, <2>4, <2>5
<1>11. CASE InWindow(job[c], g, t)
  <2>1. c \in F
    BY <1>5, <1>11 DEF InFlight
  <2> HIDE DEF W, V, F, G, n, k
  <2>2. /\ Cardinality(V) <= Cardinality(W) + 1
        /\ Cardinality(V) \in Nat
    <3>1. V = W \cup {k}
      BY <1>10, <1>11
    <3>2. Cardinality(W \cup {k}) = IF k \in W THEN Cardinality(W)
                                   ELSE Cardinality(W) + 1
      BY <1>1, FS_AddElement
    <3> QED BY <1>1, <3>1, <3>2
  <2>3. Cardinality(G) <= Cardinality(F) - 1
    <3>1. IsFiniteSet(F \ {c}) /\ Cardinality(F \ {c}) = Cardinality(F) - 1
      BY <1>1, <2>1, FS_RemoveElement
    <3> QED BY <1>7, <3>1, FS_Subset
  <2>4. Cardinality(V) + Cardinality(G) <= MaxMutations + n - 1
    BY <1>1, <1>flying, <1>3, <1>4, <2>2, <2>3
  <2> QED BY <2>4 DEF V, G, n
<1>12. CASE ~InWindow(job[c], g, t)
  <2> HIDE DEF W, V, F, G, n, k
  <2>1. Cardinality(G) <= Cardinality(F)
    BY <1>1, <1>7, FS_Subset
  <2>2. Cardinality(V) = Cardinality(W)
    BY <1>10, <1>12
  <2>3. Cardinality(V) + Cardinality(G) <= MaxMutations + n - 1
    BY <1>1, <1>flying, <1>3, <1>4, <2>1, <2>2
  <2> QED BY <2>3 DEF V, G, n
<1> QED BY <1>11, <1>12

(* At first no row and nobody in flight.                                   *)
LEMMA RateInit == AdmissionInit => RateInv
<1> SUFFICES ASSUME AdmissionInit,
                    NEW g \in GraphIds, NEW t \in 0..MaxTime
             PROVE  Cardinality(Window(g, RateWindow, t)) +
                        Cardinality(InFlight(g, t))
                        <= MaxMutations + Cardinality(Clerks) - 1
  BY DEF RateInv
<1>1. Window(g, RateWindow, t) = {} /\ InFlight(g, t) = {}
  BY DEF AdmissionInit, Window, InFlight
<1>2. Cardinality({}) = 0
  BY FS_EmptySet
<1>3. Cardinality(Clerks) \in Nat \ {0}
  BY TypedInit, WindowFinite
<1>4. MaxMutations \in Nat
  BY AdmissionAssumption
<1> QED BY <1>1, <1>2, <1>3, <1>4

(* However the checks and the rows of several controllers interleave, a    *)
(* window holds at most one row more than the policy says per further      *)
(* controller.                                                             *)
THEOREM RateTheorem == AdmissionSpec => []RateBounded
<1>1. Typed /\ RateInv /\ [AdmissionNext]_vars => RateInv'
  <2> SUFFICES ASSUME Typed, RateInv, [AdmissionNext]_vars PROVE RateInv'
    OBVIOUS
  <2>1. Typed'
    BY TypedStep
  <2>2. ASSUME NEW c \in Clerks, ClerkStep(c) PROVE RateInv'
    BY <2>1, <2>2, ClerkFrame, RateUnrecorded, RateRecorded
  <2>3. CASE UNCHANGED <<log, job>>
    BY <2>3 DEF RateInv, Window, InFlight, InWindow
  <2> QED
    BY <2>2, <2>3 DEF AdmissionNext, Requests, GraphStarts, Tick, vars
<1>2. Typed /\ [AdmissionNext]_vars => Typed'
  BY TypedStep
<1>3. Typed /\ RateInv => RateBounded
  <2> SUFFICES ASSUME Typed, RateInv,
                      NEW g \in GraphIds, NEW t \in 0..MaxTime
               PROVE  Cardinality(Window(g, RateWindow, t))
                          <= MaxMutations + Cardinality(Clerks) - 1
    BY DEF RateBounded
  <2> DEFINE w == Cardinality(Window(g, RateWindow, t))
             f == Cardinality(InFlight(g, t))
             n == Cardinality(Clerks)
  <2>1. w \in Nat /\ f \in Nat /\ n \in Nat
    BY WindowFinite
  <2>2. w + f <= MaxMutations + n - 1
    BY DEF RateInv
  <2>3. MaxMutations \in Nat
    BY AdmissionAssumption
  <2> HIDE DEF w, f, n
  <2>4. w <= MaxMutations + n - 1
    BY <2>1, <2>2, <2>3
  <2> QED BY <2>4 DEF w, n
<1> QED BY <1>1, <1>2, <1>3, RateInit, TypedInit, PTL DEF AdmissionSpec

-----------------------------------------------------------------------------
(* The budget.  A sum over the rows of the log, in their order.            *)

(* The recursive definition of the sum has a solution.                     *)
LEMMA SumExists ==
    ASSUME NEW cost, NEW n \in Nat
    PROVE  \E f : f = [i \in 0..n |-> IF i = 0 THEN 0 ELSE f[i-1] + cost[i]]
<1> DEFINE Solves(f, m) ==
        f = [i \in 0..m |-> IF i = 0 THEN 0 ELSE f[i-1] + cost[i]]
    S == {m \in 0..n : \E f : Solves(f, m)}
<1>1. 0 \in S
  <2>1. Solves([i \in 0..0 |-> 0], 0)
    OBVIOUS
  <2>2. \E f : Solves(f, 0)
    <3> HIDE DEF Solves
    <3> QED BY <2>1
  <2> QED BY <2>2
<1>2. ASSUME NEW m \in 0..(n - 1), m \in S
      PROVE  m + 1 \in S
  <2>1. PICK f : Solves(f, m)
    BY <1>2
  <2> DEFINE h == [i \in 0..(m+1) |-> IF i = m + 1 THEN f[m] + cost[m+1] ELSE f[i]]
  <2>2. \A i \in 0..m : h[i] = f[i]
    OBVIOUS
  <2>3. \A i \in 0..(m+1) : h[i] = IF i = 0 THEN 0 ELSE h[i-1] + cost[i]
    <3> TAKE i \in 0..(m+1)
    <3>1. CASE i = m + 1
      <4>1. h[i] = f[m] + cost[m+1] /\ h[i-1] = f[m]
        BY <3>1
      <4> QED BY <3>1, <4>1
    <3>2. CASE i # m + 1
      <4>1. i \in 0..m
        BY <3>2
      <4>2. f[i] = IF i = 0 THEN 0 ELSE f[i-1] + cost[i]
        BY <2>1, <4>1
      <4>3. i # 0 => h[i-1] = f[i-1]
        BY <2>2, <4>1
      <4> QED BY <2>2, <4>1, <4>2, <4>3
    <3> QED BY <3>1, <3>2
  <2>4. Solves(h, m + 1)
    <3> HIDE DEF h
    <3>1. h = [i \in 0..(m+1) |-> h[i]]
      BY DEF h
    <3> QED BY <2>3, <3>1
  <2>5. \E f1 : Solves(f1, m + 1)
    <3> HIDE DEF Solves, h
    <3> QED BY <2>4
  <2>6. m + 1 \in 0..n
    OBVIOUS
  <2> HIDE DEF Solves
  <2> QED BY <2>5, <2>6
<1> HIDE DEF S
<1>3. 0..n \subseteq S
  BY <1>1, <1>2, InductionUpTo
<1> QED BY <1>3 DEF S

(* A sum of numbers is a number, and the last of its partial sums.         *)
LEMMA TotalIs ==
    ASSUME NEW cost, NEW n \in Nat, \A i \in 1..n : cost[i] \in Nat
    PROVE  \E f : /\ f[0] = 0 /\ f[n] = Total(cost, n)
                  /\ \A i \in 1..n : f[i] = f[i-1] + cost[i]
                  /\ \A i \in 0..n : f[i] \in Nat
<1> DEFINE Solves(f) == f = [i \in 0..n |-> IF i = 0 THEN 0 ELSE f[i-1] + cost[i]]
           sum == CHOOSE f : Solves(f)
<1>1. Solves(sum)
  BY SumExists
<1>2. Total(cost, n) = sum[n]
  BY DEF Total
<1> HIDE DEF sum
<1>3. sum[0] = 0 /\ \A i \in 1..n : sum[i] = sum[i-1] + cost[i]
  BY <1>1
<1> DEFINE S == {i \in 0..n : sum[i] \in Nat}
<1>4. 0 \in S
  BY <1>3
<1>5. \A i \in 0..(n-1) : i \in S => i + 1 \in S
  <2> SUFFICES ASSUME NEW i \in 0..(n-1), i \in S PROVE i + 1 \in S
    OBVIOUS
  <2>1. i + 1 \in 1..n /\ sum[i+1] = sum[i] + cost[i+1]
    BY <1>3
  <2> QED BY <2>1
<1> HIDE DEF S
<1>6. 0..n \subseteq S
  BY <1>4, <1>5, InductionUpTo
<1>7. \A i \in 0..n : sum[i] \in Nat
  BY <1>6 DEF S
<1> HIDE DEF Solves
<1> QED BY <1>2, <1>3, <1>7

(* Of two sums of as many numbers, the one whose numbers are no greater    *)
(* is not greater.                                                         *)
LEMMA TotalAtMost ==
    ASSUME NEW cost, NEW dear, NEW n \in Nat,
           \A i \in 1..n : cost[i] \in Nat /\ dear[i] \in Nat /\ cost[i] <= dear[i]
    PROVE  Total(cost, n) <= Total(dear, n)
<1>0. (\A i \in 1..n : cost[i] \in Nat) /\ (\A i \in 1..n : dear[i] \in Nat)
  OBVIOUS
<1>1. PICK f : /\ f[0] = 0 /\ f[n] = Total(cost, n)
               /\ \A i \in 1..n : f[i] = f[i-1] + cost[i]
               /\ \A i \in 0..n : f[i] \in Nat
  BY <1>0, TotalIs
<1>2. PICK g : /\ g[0] = 0 /\ g[n] = Total(dear, n)
               /\ \A i \in 1..n : g[i] = g[i-1] + dear[i]
               /\ \A i \in 0..n : g[i] \in Nat
  BY <1>0, TotalIs
<1> DEFINE S == {i \in 0..n : f[i] <= g[i]}
<1>3. 0 \in S
  BY <1>1, <1>2
<1>4. \A i \in 0..(n-1) : i \in S => i + 1 \in S
  <2> SUFFICES ASSUME NEW i \in 0..(n-1), f[i] <= g[i] PROVE i + 1 \in S
    OBVIOUS
  <2>1. i + 1 \in 1..n /\ i \in 0..n
    OBVIOUS
  <2>2. f[i+1] = f[i] + cost[i+1] /\ g[i+1] = g[i] + dear[i+1]
    BY <1>1, <1>2, <2>1
  <2>3. f[i] \in Nat /\ g[i] \in Nat
    BY <1>1, <1>2, <2>1
  <2> QED BY <2>1, <2>2, <2>3
<1> HIDE DEF S
<1>5. 0..n \subseteq S
  BY <1>3, <1>4, InductionUpTo
<1>6. n \in 0..n
  OBVIOUS
<1> QED BY <1>1, <1>2, <1>5, <1>6 DEF S

(* One number more.                                                        *)
LEMMA TotalMore ==
    ASSUME NEW cost, NEW more, NEW n \in Nat,
           \A i \in 1..n : cost[i] \in Nat /\ more[i] = cost[i],
           more[n+1] \in Nat
    PROVE  Total(more, n + 1) = Total(cost, n) + more[n+1]
<1>0. \A i \in 1..n : cost[i] \in Nat
  OBVIOUS
<1>1. PICK f : /\ f[0] = 0 /\ f[n] = Total(cost, n)
               /\ \A i \in 1..n : f[i] = f[i-1] + cost[i]
               /\ \A i \in 0..n : f[i] \in Nat
  BY <1>0, TotalIs
<1>2. PICK g : /\ g[0] = 0 /\ g[n+1] = Total(more, n + 1)
               /\ \A i \in 1..(n+1) : g[i] = g[i-1] + more[i]
  <2>1. \A i \in 1..(n+1) : more[i] \in Nat
    OBVIOUS
  <2>2. n + 1 \in Nat
    OBVIOUS
  <2> QED BY <2>1, <2>2, TotalIs
<1> DEFINE S == {i \in 0..n : f[i] = g[i]}
<1>3. 0 \in S
  BY <1>1, <1>2
<1>4. \A i \in 0..(n-1) : i \in S => i + 1 \in S
  <2> SUFFICES ASSUME NEW i \in 0..(n-1), f[i] = g[i] PROVE i + 1 \in S
    OBVIOUS
  <2>1. i + 1 \in 1..n /\ i + 1 \in 1..(n+1)
    OBVIOUS
  <2>2. f[i+1] = f[i] + cost[i+1] /\ g[i+1] = g[i] + more[i+1]
    BY <1>1, <1>2, <2>1
  <2> QED BY <2>1, <2>2
<1> HIDE DEF S
<1>5. 0..n \subseteq S
  BY <1>3, <1>4, InductionUpTo
<1>6. f[n] = g[n]
  BY <1>5 DEF S
<1>7. g[n+1] = g[n] + more[n+1]
  BY <1>2
<1> QED BY <1>1, <1>2, <1>6, <1>7

(* The invariant of the budget.  A controller that has passed the check is *)
(* on the budget until its row is in the log.  The one that came last has  *)
(* seen every row there is; each of the others costs no more than the      *)
(* dearest proposal.                                                       *)
Charged(r, g, t) ==
    /\ r.p.env.graph = g
    /\ r.at <= t
    /\ r.at + BudgetWindow >= t

OnBudget(g, t) ==
    {c \in Clerks : /\ job[c] # Nil
                    /\ job[c].step \in {"engine", "record"}
                    /\ Charged(job[c], g, t)}

Price(c) == job[c].p.cost

(* What is spent and what those in F will spend are within the bound.      *)
Within(spent, F, price, dear, bound) ==
    IF F = {} THEN spent <= bound
    ELSE \E c \in F : spent + price[c] + (Cardinality(F) - 1) * dear <= bound

Bound(dear) == BudgetEnvelope + (Cardinality(Clerks) - 1) * dear

BudgetInv ==
    \A g \in GraphIds, t \in 0..MaxTime, dear \in {p.cost : p \in Proposals} :
        Dearest(dear) =>
            Within(Spent(Window(g, BudgetWindow, t)), OnBudget(g, t),
                   [c \in Clerks |-> Price(c)], dear, Bound(dear))

(* Products of numbers with the same number.                               *)
LEMMA Times ==
    ASSUME NEW a \in Nat, NEW b \in Nat, NEW d \in Nat
    PROVE  /\ a * d \in Nat
           /\ a <= b => a * d <= b * d
           /\ a + 1 <= b => a * d + d <= b * d
<1>1. a * d \in Nat /\ b * d \in Nat
  OBVIOUS
<1>2. a <= b => a * d <= b * d
  OBVIOUS
<1>3. a + 1 <= b => (a + 1) * d <= b * d
  OBVIOUS
<1>4. (a + 1) * d = a * d + d
  OBVIOUS
<1> QED BY <1>1, <1>2, <1>3, <1>4

(* Fewer on the budget, or one that has spent what it was to spend: the    *)
(* bound holds on.                                                         *)
LEMMA WithinShrinks ==
    ASSUME NEW spent \in Nat, NEW F, NEW G, IsFiniteSet(F), G \subseteq F,
           NEW price, NEW new, NEW dear \in Nat, NEW bound \in Nat,
           \A c \in F : price[c] \in Nat /\ price[c] <= dear,
           \A c \in G : new[c] = price[c],
           Within(spent, F, price, dear, bound)
    PROVE  Within(spent, G, new, dear, bound)
<1>1. /\ IsFiniteSet(G) /\ Cardinality(G) \in Nat /\ Cardinality(F) \in Nat
      /\ Cardinality(G) <= Cardinality(F)
      /\ G = F \/ Cardinality(G) < Cardinality(F)
      /\ \A S : S \in {F, G} /\ S # {} => Cardinality(S) >= 1
  BY FS_Subset, FS_CardinalityType, FS_EmptySet
<1>2. CASE F = {}
  BY <1>2 DEF Within
<1>3. CASE F # {}
  <2>1. PICK c \in F : spent + price[c] + (Cardinality(F) - 1) * dear <= bound
    BY <1>3 DEF Within
  <2>2. Cardinality(F) >= 1 /\ (G # {} => Cardinality(G) >= 1)
    BY <1>1, <1>3
  <2> DEFINE f == Cardinality(F) - 1
             h == Cardinality(G) - 1
  <2>3. f \in Nat /\ (G # {} => h \in Nat /\ h <= f /\ (G # F => h + 1 <= f))
    BY <1>1, <2>2
  <2>4. spent + price[c] + f * dear <= bound /\ price[c] \in Nat /\ price[c] <= dear
    BY <2>1
  <2> HIDE DEF f, h
  <2>5. f * dear \in Nat
    BY <2>3, Times
  <2>6. CASE G = {}
    BY <2>4, <2>5, <2>6 DEF Within
  <2>7. CASE c \in G
    <3>1. h \in Nat /\ h * dear \in Nat /\ h * dear <= f * dear
      BY <2>3, <2>7, Times
    <3>2. spent + new[c] + h * dear <= bound
      BY <2>4, <2>5, <2>7, <3>1
    <3> QED BY <2>7, <3>2 DEF Within, h
  <2>8. CASE G # {} /\ c \notin G
    <3>1. PICK d \in G : TRUE
      BY <2>8
    <3>2. new[d] \in Nat /\ new[d] <= dear
      BY <3>1
    <3>3. h \in Nat /\ h * dear \in Nat /\ h * dear + dear <= f * dear
      BY <2>3, <2>8, Times
    <3>4. spent + new[d] + h * dear <= bound
      BY <2>4, <2>5, <3>2, <3>3
    <3> QED BY <2>8, <3>1, <3>4 DEF Within, h
  <2> QED BY <2>6, <2>7, <2>8
<1> QED BY <1>2, <1>3

LEMMA WithinSpends ==
    ASSUME NEW spent \in Nat, NEW F, NEW G, IsFiniteSet(F),
           NEW c \in F, G = F \ {c},
           NEW price, NEW new, NEW dear \in Nat, NEW bound \in Nat,
           \A d \in F : price[d] \in Nat /\ price[d] <= dear,
           \A d \in G : new[d] = price[d],
           Within(spent, F, price, dear, bound)
    PROVE  Within(spent + price[c], G, new, dear, bound)
<1>1. /\ IsFiniteSet(G) /\ Cardinality(G) \in Nat /\ Cardinality(F) \in Nat
      /\ Cardinality(G) < Cardinality(F)
      /\ G # {} => Cardinality(G) >= 1
  <2>1. G \subseteq F /\ G # F
    OBVIOUS
  <2> QED BY <2>1, FS_Subset, FS_CardinalityType, FS_EmptySet
<1>2. PICK e \in F : spent + price[e] + (Cardinality(F) - 1) * dear <= bound
  BY DEF Within
<1> DEFINE f == Cardinality(F) - 1
           h == Cardinality(G) - 1
<1>3. f \in Nat /\ (G # {} => h \in Nat /\ h + 1 <= f)
  BY <1>1
<1>4. /\ spent + price[e] + f * dear <= bound
      /\ price[e] \in Nat /\ price[e] <= dear /\ price[c] \in Nat /\ price[c] <= dear
  BY <1>2
<1> HIDE DEF f, h
<1>5. f * dear \in Nat
  BY <1>3, Times
<1>6. CASE G = {}
  <2>1. e = c
    BY <1>6
  <2> QED BY <1>4, <1>5, <1>6, <2>1 DEF Within
<1>7. CASE G # {}
  <2>1. h \in Nat /\ h * dear \in Nat /\ h * dear + dear <= f * dear
    BY <1>3, <1>7, Times
  <2>2. PICK d \in G : e = c \/ d = e
    BY <1>7
  <2>3. new[d] = price[d] /\ price[d] \in Nat /\ price[d] <= dear
    BY <2>2
  <2>4. spent + price[c] + new[d] + h * dear <= bound
    BY <1>4, <1>5, <2>1, <2>2, <2>3
  <2> QED BY <1>7, <2>4 DEF Within, h
<1> QED BY <1>6, <1>7

(* What a proposal costs, approved or not.                                 *)
LEMMA CostTyped ==
    ASSUME NEW p \in Everything
    PROVE  p.cost \in Nat /\ \A dear : Dearest(dear) => p.cost <= dear
<1>1. ASSUME NEW q \in Proposals PROVE q.cost \in Nat /\ Approved(q).cost = q.cost
  BY AdmissionAssumption DEF Proposal, Approved
<1> QED BY <1>1 DEF Everything, Dearest

(* What a set of rows has cost, as a sum over the whole log.               *)
Costs(rows) == [i \in DOMAIN log |-> IF i \in rows THEN Cost(i) ELSE 0]

LEMMA CostsTyped ==
    ASSUME Typed, NEW rows
    PROVE  /\ Len(log) \in Nat /\ DOMAIN log = 1..Len(log)
           /\ \A i \in 1..Len(log) : /\ Costs(rows)[i] \in Nat
                                     /\ Costs(rows)[i] = IF i \in rows THEN Cost(i) ELSE 0
                                     /\ Cost(i) \in Nat
           /\ Spent(rows) = Total(Costs(rows), Len(log))
           /\ Spent(rows) \in Nat
<1>1. Len(log) \in Nat /\ DOMAIN log = 1..Len(log)
  BY DEF Typed
<1>2. \A i \in 1..Len(log) : Cost(i) \in Nat
  <2>1. \A i \in 1..Len(log) : log[i] \in LogRow
    BY <1>1 DEF Typed
  <2> QED BY <2>1, CostTyped DEF LogRow, Cost
<1>3. \A i \in 1..Len(log) : Costs(rows)[i] = IF i \in rows THEN Cost(i) ELSE 0
  BY <1>1 DEF Costs
<1>4. \A i \in 1..Len(log) : Costs(rows)[i] \in Nat
  BY <1>2, <1>3
<1>5. Spent(rows) = Total(Costs(rows), Len(log))
  BY DEF Spent, Costs
<1>6. Total(Costs(rows), Len(log)) \in Nat
  <2>1. PICK f : /\ f[Len(log)] = Total(Costs(rows), Len(log))
                 /\ \A i \in 0..Len(log) : f[i] \in Nat
    BY <1>1, <1>4, TotalIs
  <2> QED BY <1>1, <2>1
<1> QED BY <1>1, <1>2, <1>3, <1>4, <1>5, <1>6

(* More rows have not cost less.                                           *)
LEMMA SpentMore ==
    ASSUME Typed, NEW R, NEW Q, R \subseteq Q
    PROVE  Spent(R) <= Spent(Q)
<1>1. /\ Len(log) \in Nat
      /\ Spent(R) = Total(Costs(R), Len(log)) /\ Spent(Q) = Total(Costs(Q), Len(log))
  BY CostsTyped
<1>2. \A i \in 1..Len(log) :
         Costs(R)[i] \in Nat /\ Costs(Q)[i] \in Nat /\ Costs(R)[i] <= Costs(Q)[i]
  <2> TAKE i \in 1..Len(log)
  <2>1. /\ Costs(R)[i] \in Nat /\ Costs(Q)[i] \in Nat /\ Cost(i) \in Nat
        /\ Costs(R)[i] = IF i \in R THEN Cost(i) ELSE 0
        /\ Costs(Q)[i] = IF i \in Q THEN Cost(i) ELSE 0
    BY CostsTyped
  <2> QED BY <2>1
<1> QED BY <1>1, <1>2, TotalAtMost

(* A recording adds the price of its proposal to the windows it falls into.*)
LEMMA SpentRecorded ==
    ASSUME Typed, Typed', NEW c \in Clerks, Records(c), NEW g, NEW t
    PROVE  Spent(Window(g, BudgetWindow, t))' =
               Spent(Window(g, BudgetWindow, t)) +
                   (IF Charged(job[c], g, t) THEN Price(c) ELSE 0)
<1> DEFINE W == Window(g, BudgetWindow, t)
           V == Window(g, BudgetWindow, t)'
           row == [p |-> job[c].p, at |-> job[c].at]
           n == Len(log)
           more == [i \in DOMAIN log' |-> IF i \in V THEN log'[i].p.cost ELSE 0]
<1>1. log' = Append(log, row) /\ log \in Seq(LogRow)
  BY DEF Records, Typed
<1>2. /\ DOMAIN log = 1..n /\ n \in Nat
      /\ DOMAIN log' = 1..(n+1) /\ Len(log') = n + 1
      /\ \A i \in 1..n : log'[i] = log[i]
      /\ log'[n+1] = row
  <2> HIDE DEF row
  <2> QED BY <1>1
<1>3. \A i \in 1..n : i \in V <=> i \in W
  BY <1>2 DEF Window
<1>4. n + 1 \in V <=> Charged(job[c], g, t)
  <2>1. row.p = job[c].p /\ row.at = job[c].at
    OBVIOUS
  <2>2. n + 1 \in 1..(n+1)
    BY <1>2
  <2> HIDE DEF row
  <2> QED BY <1>2, <2>1, <2>2 DEF Window, Charged
<1>5. log'[n+1].p.cost = Price(c)
  BY <1>2 DEF Price
<1> HIDE DEF V, W, row
<1>6. Spent(Window(g, BudgetWindow, t))' = Total(more, n + 1)
  BY <1>2 DEF Spent, Cost, V
<1>7. more[n+1] = IF Charged(job[c], g, t) THEN Price(c) ELSE 0
  BY <1>2, <1>4, <1>5
<1>8. \A i \in 1..n : Costs(W)[i] \in Nat /\ more[i] = Costs(W)[i]
  <2> TAKE i \in 1..n
  <2>1. Costs(W)[i] \in Nat /\ Costs(W)[i] = IF i \in W THEN Cost(i) ELSE 0
    BY CostsTyped
  <2>2. i \in DOMAIN log' /\ log'[i] = log[i]
    BY <1>2
  <2>3. more[i] = IF i \in W THEN log[i].p.cost ELSE 0
    BY <1>3, <2>2
  <2> HIDE DEF more
  <2> QED BY <2>1, <2>3 DEF Cost
<1>9. more[n+1] \in Nat
  <2>1. job[c] \in Underway
    BY JobAt DEF Records
  <2>2. Price(c) \in Nat
    BY <2>1, CostTyped DEF Price, Underway
  <2> HIDE DEF more
  <2> QED BY <1>7, <2>2
<1>10. Total(more, n + 1) = Total(Costs(W), n) + more[n+1]
  <2> HIDE DEF more
  <2> QED BY <1>2, <1>8, <1>9, TotalMore
<1>11. Spent(W) = Total(Costs(W), n)
  BY CostsTyped
<1> HIDE DEF more
<1> QED BY <1>6, <1>7, <1>10, <1>11 DEF W

(* Who is on the budget after a step was so before, or has just passed the *)
(* check of it.                                                            *)
LEMMA ComesOnBudget ==
    ASSUME Typed, NEW c \in Clerks, ClerkStep(c),
           job'[c] # Nil, job'[c].step \in {"engine", "record"}
    PROVE  /\ job[c] \in Underway /\ job[c] # Nil
           /\ job'[c].p = job[c].p /\ job'[c].at = job[c].at
           /\ ~Records(c)
           /\ \/ job[c].step \in {"engine", "record"}
              \/ ~BudgetExceeded(job[c].p, job[c].at)
<1>1. /\ job[c] \in Underway /\ job[c] # Nil
      /\ job'[c].p = job[c].p /\ job'[c].at = job[c].at
      /\ ~Records(c)
  BY ComesIntoFlight DEF Passed
<1>2. ~Answers(c, "approval_failed") /\ ~Goes(c, Nil)
  BY AnswerLeaves, GoesThere
<1>4. \A p \in Proposals : ~Submits(c, p)
  BY <1>1 DEF Submits
<1>5. \A id \in DOMAIN queue, model \in BOOLEAN :
         ~Approves(c, id, model) /\ ~Rejects(c, id, model)
  BY <1>1 DEF Approves, Rejects
<1>6. ~Resolves(c) /\ ~Crash(c)
  BY <1>2 DEF Resolves, Crash
<1>7. ~ChecksEvidence(c)
  <2> SUFFICES ASSUME ChecksEvidence(c) PROVE FALSE
    OBVIOUS
  <2>1. Continues(c, "throttle")
    BY <1>2 DEF ChecksEvidence, Refused
  <2> QED BY <1>1, <2>1, ContinueStays
<1>8. ~Throttles(c)
  <2> SUFFICES ASSUME Throttles(c) PROVE FALSE
    OBVIOUS
  <2>1. Continues(c, "budget")
    BY <1>2 DEF Throttles, Refused
  <2> QED BY <1>1, <2>1, ContinueStays
<1>9. CASE ChecksBudget(c)
  BY <1>1, <1>2, <1>9 DEF ChecksBudget, Refused
<1>10. CASE Engine(c)
  BY <1>1, <1>10 DEF Engine, At
<1> QED BY <1>1, <1>4, <1>5, <1>6, <1>7, <1>8, <1>9, <1>10 DEF ClerkStep

(* Those on the budget are few, and no one's price is over the dearest.    *)
LEMMA OnBudgetTyped ==
    ASSUME Typed, NEW g, NEW t, NEW dear \in {p.cost : p \in Proposals}, Dearest(dear)
    PROVE  /\ IsFiniteSet(OnBudget(g, t))
           /\ OnBudget(g, t) \subseteq Clerks
           /\ \A c \in OnBudget(g, t) :
                 /\ [d \in Clerks |-> Price(d)][c] \in Nat
                 /\ [d \in Clerks |-> Price(d)][c] <= dear
           /\ dear \in Nat /\ Bound(dear) \in Nat /\ BudgetEnvelope \in Nat
           /\ Bound(dear) = BudgetEnvelope + (Cardinality(Clerks) - 1) * dear
           /\ Cardinality(Clerks) - 1 \in Nat
<1>1. OnBudget(g, t) \subseteq Clerks /\ IsFiniteSet(Clerks) /\ Clerks # {}
  BY AdmissionAssumption DEF OnBudget
<1>2. ASSUME NEW c \in OnBudget(g, t) PROVE Price(c) \in Nat /\ Price(c) <= dear
  <2>1. job[c] # Nil /\ job[c].step \in {"engine", "record"} /\ c \in Clerks
    BY DEF OnBudget
  <2>2. job[c] \in Underway
    BY <2>1, JobAt DEF At
  <2> QED BY <2>2, CostTyped DEF Price, Underway
<1>3. dear \in Nat /\ BudgetEnvelope \in Nat
  BY AdmissionAssumption DEF Proposal
<1>4. Cardinality(Clerks) - 1 \in Nat
  BY <1>1, FS_CardinalityType, FS_EmptySet
<1>5. Bound(dear) \in Nat
  <2>1. (Cardinality(Clerks) - 1) * dear \in Nat
    BY <1>3, <1>4, Times
  <2> QED BY <1>3, <2>1 DEF Bound
<1> QED BY <1>1, <1>2, <1>3, <1>4, <1>5, FS_Subset DEF Bound

(* A controller that passes the check has seen that there is room for it.  *)
LEMMA BudgetCounts ==
    ASSUME Typed, NEW p \in Everything, NEW at \in Nat, NEW t \in Nat,
           at <= t, ~BudgetExceeded(p, at)
    PROVE  Spent(Window(p.env.graph, BudgetWindow, t)) + p.cost <= BudgetEnvelope
<1> DEFINE W == Window(p.env.graph, BudgetWindow, t)
           S == Since(p, BudgetWindow, at)
<1>1. W \subseteq S
  <2>1. \A i \in DOMAIN log : log[i].at \in Nat
    <3>1. \A i \in DOMAIN log : log[i] \in LogRow
      BY DEF Typed
    <3>2. MaxTime \in Nat
      BY AdmissionAssumption
    <3> QED BY <3>1, <3>2 DEF LogRow
  <2>2. BudgetWindow \in Nat
    BY AdmissionAssumption
  <2> QED BY <2>1, <2>2 DEF Window, Since
<1>2. Spent(S) \in Nat /\ Spent(W) \in Nat /\ Spent(W) <= Spent(S)
  BY <1>1, SpentMore, CostsTyped
<1>3. ~(Spent(S) + p.cost > BudgetEnvelope)
  BY DEF BudgetExceeded
<1>4. p.cost \in Nat /\ BudgetEnvelope \in Nat
  BY CostTyped, AdmissionAssumption
<1> HIDE DEF W, S
<1>5. Spent(W) + p.cost <= BudgetEnvelope
  BY <1>2, <1>3, <1>4
<1> QED BY <1>5 DEF W

(* A step that records nothing.                                            *)
LEMMA BudgetUnrecorded ==
    ASSUME Typed, Typed', BudgetInv, NEW c \in Clerks, ClerkStep(c), log' = log
    PROVE  BudgetInv'
<1> SUFFICES ASSUME NEW g \in GraphIds, NEW t \in 0..MaxTime,
                    NEW dear \in {p.cost : p \in Proposals}, Dearest(dear)
             PROVE  Within(Spent(Window(g, BudgetWindow, t))', OnBudget(g, t)',
                           [d \in Clerks |-> Price(d)'], dear, Bound(dear))
  BY DEF BudgetInv, Dearest, Bound
<1> DEFINE spent == Spent(Window(g, BudgetWindow, t))
           F == OnBudget(g, t)
           G == OnBudget(g, t)'
           price == [d \in Clerks |-> Price(d)]
           new == [d \in Clerks |-> Price(d)']
           bound == Bound(dear)
<1>1. Spent(Window(g, BudgetWindow, t))' = spent
  BY DEF Spent, Window, Cost
<1>2. /\ spent \in Nat /\ IsFiniteSet(F) /\ F \subseteq Clerks
      /\ dear \in Nat /\ bound \in Nat /\ BudgetEnvelope \in Nat
      /\ \A d \in F : price[d] \in Nat /\ price[d] <= dear
      /\ bound = BudgetEnvelope + (Cardinality(Clerks) - 1) * dear
      /\ Cardinality(Clerks) - 1 \in Nat
  BY OnBudgetTyped, CostsTyped
<1>3. Within(spent, F, price, dear, bound)
  BY DEF BudgetInv
<1>4. \A d \in Clerks \ {c} : job'[d] = job[d]
  BY ClerkOnly
<1>5. ASSUME NEW d \in G PROVE d \in Clerks /\ new[d] = price[d]
  <2>1. d \in Clerks /\ job'[d] # Nil /\ job'[d].step \in {"engine", "record"}
    BY DEF OnBudget
  <2>2. job'[d].p = job[d].p
    BY <1>4, <2>1, ComesOnBudget
  <2> QED BY <2>1, <2>2 DEF Price
<1>6. CASE G \subseteq F
  <2> HIDE DEF spent, F, G, price, new, bound
  <2>1. Within(spent, G, new, dear, bound)
    BY <1>2, <1>3, <1>5, <1>6, WithinShrinks
  <2> QED BY <1>1, <2>1 DEF G, new, bound
<1>7. CASE ~(G \subseteq F)
  <2>1. PICK d : d \in G /\ d \notin F
    BY <1>7
  <2>2. /\ d \in Clerks /\ job'[d] # Nil
        /\ job'[d].step \in {"engine", "record"}
        /\ Charged(job'[d], g, t)
    BY <2>1 DEF OnBudget, Charged
  <2>3. d = c
    BY <2>1, <2>2, <1>4 DEF OnBudget
  <2>4. /\ job[c] \in Underway /\ job[c] # Nil
        /\ job'[c].p = job[c].p /\ job'[c].at = job[c].at
        /\ \/ job[c].step \in {"engine", "record"}
           \/ ~BudgetExceeded(job[c].p, job[c].at)
    BY <2>2, <2>3, ComesOnBudget
  <2>5. Charged(job[c], g, t)
    BY <2>2, <2>3, <2>4 DEF Charged
  <2>6. ~BudgetExceeded(job[c].p, job[c].at)
    BY <2>1, <2>3, <2>4, <2>5 DEF OnBudget
  <2>7. /\ job[c].at \in Nat /\ t \in Nat /\ job[c].p \in Everything
        /\ job[c].at <= t /\ job[c].p.env.graph = g
    <3>1. MaxTime \in Nat
      BY AdmissionAssumption
    <3> QED BY <2>4, <2>5, <3>1 DEF Underway, Charged
  <2>8. spent + price[c] <= BudgetEnvelope /\ price[c] \in Nat
    BY <2>6, <2>7, BudgetCounts, CostTyped DEF Price
  <2>9. Cardinality(G) - 1 \in Nat /\ Cardinality(G) - 1 <= Cardinality(Clerks) - 1
    <3>1. G \subseteq Clerks /\ IsFiniteSet(Clerks) /\ G # {}
      BY <2>1, AdmissionAssumption DEF OnBudget
    <3> HIDE DEF G
    <3> QED BY <3>1, FS_Subset, FS_CardinalityType, FS_EmptySet
  <2>10. new[c] = price[c] /\ c \in G
    BY <1>5, <2>1, <2>3
  <2> HIDE DEF spent, F, G, price, new, bound
  <2> DEFINE h == Cardinality(G) - 1
             k == Cardinality(Clerks) - 1
  <2>11. h \in Nat /\ k \in Nat /\ h <= k /\ bound = BudgetEnvelope + k * dear
    BY <1>2, <2>9
  <2> HIDE DEF h, k
  <2>12. h * dear \in Nat /\ k * dear \in Nat /\ h * dear <= k * dear
    BY <1>2, <2>11, Times
  <2>13. spent + new[c] + h * dear <= bound
    BY <1>2, <2>8, <2>10, <2>11, <2>12
  <2>14. Within(spent, G, new, dear, bound)
    BY <2>10, <2>13 DEF Within, h
  <2> QED BY <1>1, <2>14 DEF G, new, bound
<1> QED BY <1>6, <1>7

(* A recording spends what was on the budget.                              *)
LEMMA BudgetRecorded ==
    ASSUME Typed, Typed', BudgetInv, NEW c \in Clerks, Records(c)
    PROVE  BudgetInv'
<1> SUFFICES ASSUME NEW g \in GraphIds, NEW t \in 0..MaxTime,
                    NEW dear \in {p.cost : p \in Proposals}, Dearest(dear)
             PROVE  Within(Spent(Window(g, BudgetWindow, t))', OnBudget(g, t)',
                           [d \in Clerks |-> Price(d)'], dear, Bound(dear))
  BY DEF BudgetInv, Dearest, Bound
<1> DEFINE spent == Spent(Window(g, BudgetWindow, t))
           F == OnBudget(g, t)
           G == OnBudget(g, t)'
           price == [d \in Clerks |-> Price(d)]
           new == [d \in Clerks |-> Price(d)']
           bound == Bound(dear)
<1>1. Spent(Window(g, BudgetWindow, t))' =
         spent + (IF Charged(job[c], g, t) THEN Price(c) ELSE 0)
  BY SpentRecorded
<1>2. /\ spent \in Nat /\ IsFiniteSet(F) /\ F \subseteq Clerks
      /\ dear \in Nat /\ bound \in Nat
      /\ \A d \in F : price[d] \in Nat /\ price[d] <= dear
  BY OnBudgetTyped, CostsTyped
<1>3. Within(spent, F, price, dear, bound)
  BY DEF BudgetInv
<1>4. \A d \in Clerks \ {c} : job'[d] = job[d]
  BY ClerkOnly DEF ClerkStep
<1>5. job'[c] = Nil \/ job'[c].step = "resolve"
  BY AnswerLeaves DEF Records
<1>6. G = F \ {c}
  BY <1>4, <1>5 DEF OnBudget
<1>7. \A d \in G : new[d] = price[d]
  BY <1>2, <1>4, <1>6 DEF Price
<1>8. job[c] # Nil /\ job[c].step = "record"
  BY DEF Records, At
<1>9. CASE Charged(job[c], g, t)
  <2>1. c \in F /\ price[c] = Price(c)
    BY <1>8, <1>9 DEF OnBudget
  <2> HIDE DEF spent, F, G, price, new, bound
  <2>2. Within(spent + price[c], G, new, dear, bound)
    BY <1>2, <1>3, <1>6, <1>7, <2>1, WithinSpends
  <2> QED BY <1>1, <1>9, <2>1, <2>2 DEF G, new, bound
<1>10. CASE ~Charged(job[c], g, t)
  <2> HIDE DEF spent, F, G, price, new, bound
  <2>1. Within(spent, G, new, dear, bound)
    BY <1>2, <1>3, <1>6, <1>7, WithinShrinks
  <2>2. Spent(Window(g, BudgetWindow, t))' = spent
    BY <1>1, <1>2, <1>10
  <2> QED BY <2>1, <2>2 DEF G, new, bound
<1> QED BY <1>9, <1>10

(* At first nothing is spent and nobody on the budget.                     *)
LEMMA BudgetInit == AdmissionInit => BudgetInv
<1> SUFFICES ASSUME AdmissionInit, NEW g \in GraphIds, NEW t \in 0..MaxTime,
                    NEW dear \in {p.cost : p \in Proposals}, Dearest(dear)
             PROVE  Within(Spent(Window(g, BudgetWindow, t)), OnBudget(g, t),
                           [c \in Clerks |-> Price(c)], dear, Bound(dear))
  BY DEF BudgetInv
<1>1. Typed
  BY TypedInit
<1>2. OnBudget(g, t) = {} /\ Len(log) = 0
  BY DEF AdmissionInit, OnBudget
<1> DEFINE W == Window(g, BudgetWindow, t)
<1>3. Spent(W) = 0
  <2>1. Spent(W) = Total(Costs(W), 0)
    BY <1>1, <1>2, CostsTyped
  <2>2. PICK f : f[0] = 0 /\ f[0] = Total(Costs(W), 0)
    BY TotalIs
  <2> QED BY <2>1, <2>2
<1>4. Bound(dear) \in Nat
  BY <1>1, OnBudgetTyped
<1> QED BY <1>2, <1>3, <1>4 DEF Within

(* However the checks and the rows of several controllers interleave, what *)
(* a window has cost exceeds the envelope by at most the dearest proposal  *)
(* per further controller (_budget: "an overrun split across several small *)
(* mutations inside one window is still an overrun").                      *)
THEOREM BudgetTheorem == AdmissionSpec => []BudgetBounded
<1>1. Typed /\ BudgetInv /\ [AdmissionNext]_vars => BudgetInv'
  <2> SUFFICES ASSUME Typed, BudgetInv, [AdmissionNext]_vars PROVE BudgetInv'
    OBVIOUS
  <2>1. Typed'
    BY TypedStep
  <2>2. ASSUME NEW c \in Clerks, ClerkStep(c) PROVE BudgetInv'
    BY <2>1, <2>2, ClerkFrame, BudgetUnrecorded, BudgetRecorded
  <2>3. CASE UNCHANGED <<log, job>>
    BY <2>3 DEF BudgetInv, Window, OnBudget, Charged, Price, Spent, Cost, Dearest, Bound
  <2> QED
    BY <2>2, <2>3 DEF AdmissionNext, Requests, GraphStarts, Tick, vars
<1>2. Typed /\ [AdmissionNext]_vars => Typed'
  BY TypedStep
<1>3. Typed /\ BudgetInv => BudgetBounded
  <2> SUFFICES ASSUME Typed, BudgetInv, NEW g \in GraphIds, NEW t \in 0..MaxTime,
                      NEW dear \in {p.cost : p \in Proposals}, Dearest(dear)
               PROVE  Spent(Window(g, BudgetWindow, t)) <= Bound(dear)
    BY DEF BudgetBounded, Bound
  <2> DEFINE spent == Spent(Window(g, BudgetWindow, t))
             F == OnBudget(g, t)
             price == [c \in Clerks |-> Price(c)]
             bound == Bound(dear)
  <2>1. /\ spent \in Nat /\ IsFiniteSet(F) /\ dear \in Nat /\ bound \in Nat
        /\ \A d \in F : price[d] \in Nat /\ price[d] <= dear
    BY OnBudgetTyped, CostsTyped
  <2>2. Within(spent, F, price, dear, bound)
    BY DEF BudgetInv
  <2> HIDE DEF spent, F, price, bound
  <2>3. Within(spent, {}, price, dear, bound)
    BY <2>1, <2>2, WithinShrinks
  <2>4. spent <= bound
    BY <2>3 DEF Within
  <2> QED BY <2>4 DEF spent, bound
<1> QED BY <1>1, <1>2, <1>3, BudgetInit, TypedInit, PTL DEF AdmissionSpec

-----------------------------------------------------------------------------
(* The log and the history.  An envelope is lost to the log when it is     *)
(* committed, not in the log, and nobody is about to record it: a crash    *)
(* loses at most one, and nothing else loses any.                          *)

Logged == {log[i].p.env : i \in DOMAIN log}

Recording == {c \in Clerks : At(c, "record")}

Recorded == {job[c].p.env : c \in Recording}

Lost == (Hist \ Logged) \ Recorded

LostInv == IsFiniteSet(Lost) /\ Cardinality(Lost) <= crashes

(* Rows stay, and a recording adds its own.                                *)
LEMMA LogGrows ==
    ASSUME Typed, [AdmissionNext]_vars
    PROVE  /\ Logged \subseteq Logged'
           /\ \A c \in Clerks : Records(c) => job[c].p.env \in Logged'
<1>1. ASSUME NEW c \in Clerks, Records(c)
      PROVE  Logged \subseteq Logged' /\ job[c].p.env \in Logged'
  <2> DEFINE row == [p |-> job[c].p, at |-> job[c].at]
             e == job[c].p.env
  <2>1. log' = Append(log, row) /\ log \in Seq(LogRow) /\ row.p.env = e
    BY <1>1 DEF Records, Typed
  <2> HIDE DEF row, e
  <2>2. /\ DOMAIN log = 1..Len(log) /\ Len(log) \in Nat
        /\ DOMAIN log' = 1..(Len(log) + 1)
        /\ \A i \in 1..Len(log) : log'[i] = log[i]
        /\ log'[Len(log) + 1] = row
    BY <2>1
  <2>3. Len(log) + 1 \in DOMAIN log' /\ DOMAIN log \subseteq DOMAIN log'
    BY <2>2
  <2>4. e \in Logged' /\ Logged \subseteq Logged'
    BY <2>1, <2>2, <2>3 DEF Logged
  <2> QED BY <2>4 DEF e
<1>2. log' = log => Logged' = Logged
  BY DEF Logged
<1> QED
  BY <1>1, <1>2, ClerkFrame DEF AdmissionNext, Requests, GraphStarts, Tick, vars

(* Who is about to record does that next, or dies.                         *)
LEMMA RecordsOrDies ==
    ASSUME Typed, [AdmissionNext]_vars, NEW c \in Clerks, At(c, "record"),
           job'[c] # job[c]
    PROVE  Records(c) \/ Crash(c)
<1>1. PICK d \in Clerks : ClerkStep(d)
  BY DEF AdmissionNext, Requests, GraphStarts, Tick, vars
<1>2. d = c
  BY <1>1, ClerkOnly
<1>3. job[c] # Nil /\ job[c].step = "record"
  BY DEF At
<1>4. /\ ~\E p \in Proposals : Submits(c, p)
      /\ ~\E id \in DOMAIN queue, model \in BOOLEAN :
             Approves(c, id, model) \/ Rejects(c, id, model)
  BY <1>3 DEF Submits, Approves, Rejects
<1>5. /\ ~ChecksEvidence(c) /\ ~Throttles(c) /\ ~ChecksBudget(c)
      /\ ~Engine(c) /\ ~Resolves(c)
  BY <1>3 DEF ChecksEvidence, Throttles, ChecksBudget, Engine, Resolves, At
<1> QED BY <1>1, <1>2, <1>4, <1>5 DEF ClerkStep

(* What is lost after a step was lost before, or its controller has just   *)
(* died.                                                                   *)
LEMMA LostByCrash ==
    ASSUME Typed, LedgerInv, Unborn, [AdmissionNext]_vars, NEW e \in Lost'
    PROVE  e \in Lost \/ \E c \in Clerks : Crash(c) /\ e = job[c].p.env
<1>1. e \in Hist' /\ e \notin Logged' /\ e \notin Recorded'
  BY DEF Lost
<1>2. e \in Hist
  <2> SUFFICES ASSUME e \notin Hist PROVE FALSE
    OBVIOUS
  <2>1. PICK c \in Clerks : Engine(c) /\ job[c].p.env = e
    BY <1>1, NewInHistory
  <2>2. Continues(c, "record")
    BY <1>1, <2>1 DEF Engine, Hist
  <2>3. job[c] \in Underway
    BY <2>1, JobAt DEF Engine
  <2>4. job'[c] # Nil /\ job'[c].step = "record" /\ job'[c].p.env = e
    BY <2>1, <2>2, <2>3, ContinueStays
  <2> QED BY <1>1, <2>4 DEF Recorded, Recording, At
<1>3. e \notin Logged
  BY <1>1, LogGrows
<1>4. CASE e \in Recorded
  <2>1. PICK c \in Clerks : At(c, "record") /\ e = job[c].p.env
    BY <1>4 DEF Recorded, Recording
  <2>2. job'[c] # job[c]
    BY <1>1, <2>1 DEF Recorded, Recording, At
  <2>3. Records(c) \/ Crash(c)
    BY <2>1, <2>2, RecordsOrDies
  <2>4. ~Records(c)
    BY <1>1, <2>1, LogGrows
  <2> QED BY <2>1, <2>3, <2>4
<1> QED BY <1>2, <1>3, <1>4 DEF Lost

(* So the lost are never more than the crashes.                            *)
LEMMA LostStep ==
    ASSUME Typed, LedgerInv, Unborn, LostInv, [AdmissionNext]_vars
    PROVE  LostInv'
<1>1. /\ IsFiniteSet(Lost)
      /\ Cardinality(Lost) \in Nat
      /\ Cardinality(Lost) <= crashes
  BY FS_CardinalityType DEF LostInv
<1>2. crashes \in Nat /\ crashes' \in Nat
  <2>1. MaxCrashes \in Nat
    BY AdmissionAssumption
  <2> QED BY <2>1, TypedStep DEF Typed
<1>3. ASSUME NEW c \in Clerks, Crash(c) PROVE LostInv'
  <2> DEFINE e == job[c].p.env
             L == Lost
             M == Lost'
  <2>1. \A d \in Clerks : Crash(d) => d = c
    <3>1. ASSUME NEW d \in Clerks, Crash(d), d # c PROVE FALSE
      <4>1. job'[d] = Nil /\ job[d] # Nil
        BY <3>1, GoesThere DEF Crash
      <4>2. job'[d] = job[d]
        BY <1>3, <3>1, GoesThere DEF Crash
      <4> QED BY <4>1, <4>2
    <3> QED BY <3>1
  <2>2. M \in SUBSET (L \cup {e})
    BY <2>1, LostByCrash
  <2>3. crashes' = crashes + 1
    BY <1>3 DEF Crash
  <2> HIDE DEF e, L, M
  <2>4. IsFiniteSet(L) /\ Cardinality(L) \in Nat /\ Cardinality(L) <= crashes
    BY <1>1 DEF L
  <2>5. /\ IsFiniteSet(L \cup {e})
        /\ Cardinality(L \cup {e}) = IF e \in L THEN Cardinality(L)
                                     ELSE Cardinality(L) + 1
    BY <2>4, FS_AddElement
  <2>6. IsFiniteSet(M) /\ Cardinality(M) <= Cardinality(L \cup {e})
    BY <2>2, <2>5, FS_Subset
  <2>7. Cardinality(M) \in Nat
    BY <2>6, FS_CardinalityType
  <2>8. Cardinality(M) <= crashes'
    BY <1>2, <2>3, <2>4, <2>5, <2>6, <2>7
  <2> QED BY <2>6, <2>8 DEF LostInv, M
<1>4. ASSUME \A c \in Clerks : ~Crash(c) PROVE LostInv'
  <2> DEFINE L == Lost
             M == Lost'
  <2>1. M \in SUBSET L
    BY <1>4, LostByCrash
  <2>2. crashes' = crashes
    BY <1>4, ClerkFrame DEF AdmissionNext, Requests, GraphStarts, Tick, vars
  <2> HIDE DEF L, M
  <2>3. IsFiniteSet(L) /\ Cardinality(L) \in Nat /\ Cardinality(L) <= crashes
    BY <1>1 DEF L
  <2>4. IsFiniteSet(M) /\ Cardinality(M) <= Cardinality(L)
    BY <2>1, <2>3, FS_Subset
  <2>5. Cardinality(M) \in Nat
    BY <2>4, FS_CardinalityType
  <2>6. Cardinality(M) <= crashes'
    BY <1>2, <2>2, <2>3, <2>4, <2>5
  <2> QED BY <2>4, <2>6 DEF LostInv, M
<1> QED BY <1>3, <1>4

(* At first nothing is committed, and so nothing lost.                     *)
LEMMA LostInit == AdmissionInit => LostInv
<1> SUFFICES ASSUME AdmissionInit PROVE LostInv
  OBVIOUS
<1>1. graph.history = <<>>
  BY EmptyGraphInv DEF AdmissionInit, Init
<1>2. Lost = {}
  BY <1>1 DEF Lost, Hist, Range
<1>3. crashes = 0
  BY DEF AdmissionInit
<1> QED BY <1>2, <1>3, FS_EmptySet DEF LostInv

(* What is not in the log is lost, or in the hands of as many controllers. *)
LEMMA LostOrRecording ==
    ASSUME PolicyInv, LostInv
    PROVE  LogAgrees
<1>1. Logged \subseteq Hist
  BY DEF PolicyInv, LogTrue, Logged
<1>2. Cardinality(Hist \ Logged) <= crashes + Cardinality(Recording)
  <2> DEFINE U == Hist \ Logged
             C == Recording
             R == Recorded
             L == Lost
             f == [c \in C |-> job[c].p.env]
  <2>1. U \in SUBSET (L \cup R)
    BY DEF Lost
  <2>2. IsFiniteSet(C)
    <3>1. C \in SUBSET Clerks /\ IsFiniteSet(Clerks)
      BY AdmissionAssumption DEF Recording
    <3> HIDE DEF C
    <3> QED BY <3>1, FS_Subset
  <2>3. f \in Surjection(C, R)
    BY DEF Surjection, Recorded
  <2>4. crashes \in Nat
    BY AdmissionAssumption DEF PolicyInv, Typed
  <2>5. IsFiniteSet(L) /\ Cardinality(L) <= crashes
    BY DEF LostInv
  <2> HIDE DEF U, C, R, L, f
  <2>6. IsFiniteSet(R) /\ Cardinality(R) <= Cardinality(C)
    BY <2>2, <2>3, FS_Surjection
  <2>7. /\ IsFiniteSet(L \cup R)
        /\ Cardinality(L \cup R) =
              Cardinality(L) + Cardinality(R) - Cardinality(L \cap R)
    BY <2>5, <2>6, FS_Union
  <2>8. IsFiniteSet(U) /\ Cardinality(U) <= Cardinality(L \cup R)
    BY <2>1, <2>7, FS_Subset
  <2>9. IsFiniteSet(L \cap R)
    BY <2>5, FS_Intersection
  <2>10. /\ Cardinality(U) \in Nat /\ Cardinality(L \cup R) \in Nat
         /\ Cardinality(L) \in Nat /\ Cardinality(R) \in Nat
         /\ Cardinality(L \cap R) \in Nat /\ Cardinality(C) \in Nat
    BY <2>2, <2>5, <2>6, <2>7, <2>8, <2>9, FS_CardinalityType
  <2>11. Cardinality(U) <= crashes + Cardinality(C)
    BY <2>4, <2>5, <2>6, <2>7, <2>8, <2>10
  <2> QED BY <2>11 DEF U, C
<1> QED BY <1>1, <1>2 DEF LogAgrees, Logged, Hist, Recording

(* The log admits only what is committed and misses one commit per crash   *)
(* at the most.                                                            *)
THEOREM LogTheorem == AdmissionSpec => []LogAgrees
<1>1. PolicyInv /\ LostInv /\ [AdmissionNext]_vars => LostInv'
  BY LostStep DEF PolicyInv
<1>2. PolicyInv /\ LostInv => LogAgrees
  BY LostOrRecording
<1> QED BY <1>1, <1>2, LostInit, PolicyInvariant, PTL DEF AdmissionSpec

-----------------------------------------------------------------------------

(* A decision on a queue entry is not changed by any later step.           *)
THEOREM DecisionTheorem == AdmissionSpec => DecisionFinal
<1>1. Typed /\ [AdmissionNext]_vars =>
         [\A id \in DOMAIN queue :
             ~Pending(id) => id \in DOMAIN queue' /\ queue'[id] = queue[id]]_vars
  <2> SUFFICES ASSUME Typed, [AdmissionNext]_vars,
                      NEW id \in DOMAIN queue, ~Pending(id)
               PROVE  id \in DOMAIN queue' /\ queue'[id] = queue[id]
    OBVIOUS
  <2>1. ASSUME NEW c \in Clerks, Resolves(c)
        PROVE  id \in DOMAIN queue' /\ queue'[id] = queue[id]
    <3> DEFINE t == job[c].ticket
               v == job[c].verdict
    <3>1. queue' = IF Pending(t) THEN [queue EXCEPT ![t].state = v] ELSE queue
      BY <2>1 DEF Resolves
    <3> HIDE DEF t, v
    <3> QED BY <3>1
  <2>2. ASSUME NEW p \in Parked, Requests(p)
        PROVE  id \in DOMAIN queue' /\ queue'[id] = queue[id]
    BY <2>2 DEF Requests
  <2> QED
    BY <2>1, <2>2, ClerkFrame DEF AdmissionNext, GraphStarts, Tick, vars
<1>2. Typed /\ [AdmissionNext]_vars => Typed'
  BY TypedStep
<1> QED BY <1>1, <1>2, TypedInit, PTL DEF AdmissionSpec, DecisionFinal
=============================================================================
