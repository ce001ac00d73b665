# Formal models of chief-wiggum

TLA+ specifications of the parts of chief-wiggum that decide things
concurrently, the TLC configurations that check them, and TLAPS proofs of the
results that matter most. Source paths are relative to the repository
(`dag/` stands for `scripts/chief_wiggum/dag/`).

- [1 Inventory of the system](#1-inventory-of-the-system)
- [2 Plan](#2-plan)
- [3 Modules and the code they model](#3-modules-and-the-code-they-model)
- [4 Runs](#4-runs)
- [5 Fairness](#5-fairness)
- [6 Proofs](#6-proofs)
- [7 Where the code and its documents disagree](#7-where-the-code-and-its-documents-disagree)
- [8 Abstractions, and what is not modelled](#8-abstractions-and-what-is-not-modelled)

## 1 Inventory of the system

chief-wiggum drives coding agents through a workflow: issues are planned into
waves, work is done by delegates in worktrees, reviewed, gated and shipped. Its
dynamic execution DAG is the core: a graph of work that models and people
propose changes to, a journal that decides on them, and a scheduler that hands
out the nodes that are ready.

| Component | State | Operations | Talks to |
|---|---|---|---|
| Graph semantics, `dag/semantics.py` | none: judges a snapshot and an envelope | `validate_snapshot`, `validate_mutation` | called by the journal |
| Graph journal, `dag/journal.py` | SQLite table `graph_events` (hash chain); per connection: cached fold, idempotency index, verified prefix, sticky chain error | `init_graph`, `propose`, `reject`, `snapshot`, `replay`, `ready_set`, `verify`, `recover` | other connections through the table |
| Scheduler, `dag/scheduler.py` | tables `leases`, `dispatches`, `retries`; in memory: ready index | `refresh`, `dispatchable`, `claim`, `heartbeat`, `release`, `commit_allowed`, `expire_leases`, `register_retry`, `resume`, `liveness` | replays the journal; workers and other schedulers through the store |
| Admission, `dag/admission.py` | tables `admission_log`, `approval_queue` | `propose`, `request_approval`, `approve`, `reject_queued` | journal, under an `AdmissionController` |
| Candidates, routing, `dag/candidates.py`, `dag/routing.py` | none of their own | evaluate a slate, promote; route by capability, explore, fall back | envelopes to the journal |
| Delegates, `scripts/delegates/` | files of a task directory: result, log, metadata, DONE or ERROR, `.terminal.lock` | `publish_success`, `publish_error`, `wait_for_completion` | worker and watcher through the directory |
| Wave lock, `scripts/chief_wiggum/repo_lock.py` | one JSON file per repository | `acquire`, `release`, `status` | sessions on one machine |
| Local tracker, `scripts/tracker.py` | an issue file and a `.claim` file per issue | create, update, comment, link, unlink, ready, claim, release | agents through the files |
| Task service backend, `scripts/tracker_mcp.py`, `scripts/chief_wiggum/task_service.py` | the service's tasks and runs; a state file per target repository, read whole and written whole | claim, release, set_status, complete, comment, log_decision, create | the service, its mirror command, other calls through the file |
| Mirror lock, `scripts/chief_wiggum/mirror_lock.py` | an `flock` | `mirror_lock` | calls that mirror one repository |
| Planning, `scripts/chief_wiggum/planning.py` | none | waves from dependencies, gates and closed tickets | - |
| Remote CI, `scripts/remote_ci.py` | none | poll until RED, GREEN or time-out | GitHub |
| Journals of evidence, `scripts/ratchet.py`, `scripts/chief_wiggum/experiment_journal.py` | a chained JSONL file | append, verified prefix | other writers |

The rest (gates, quality metrics, extractors and emitters, consultation of
models, business templates, mail) computes outputs from inputs or drives
external commands; `PROJECT.json` lists each with the reason it is left out.

What is hard, and what correctness means:

- **Journal.** Several processes append to one table, each from its own cache.
  A COMMIT can fail, a crash can tear the last row, a proposer can retry. The
  graph must be one serial history of admissible mutations; no acknowledged
  event may be lost; no connection may decide on a graph the table does not say.
- **Semantics.** Operations are judged one by one, an envelope carries several.
  Whatever is combined: terminal nodes stay as they are, lifecycle states move
  along the legal transitions, people decide what is reserved for people, nodes
  do not wait on each other in a circle, and the two definitions of readiness agree.
- **Scheduler.** Each statement against the store commits by itself, so every
  operation is interruptible by other schedulers, workers, the clock and a crash.
  No node may be leased twice, no limit exceeded, no lease held for good by the
  dead; the incremental index must be the ready set.
- **Admission.** Limits are read before the proposal they admit and counted after
  it; approvals are two steps around a third party's decision. Limits may be
  overrun by what is in flight and no further, the log must agree with the graph
  but for what a crash lost, and nobody may decide in a human's name.
- **Delegates.** Several workers may publish for one task, in several renames, and
  die between two; a watcher has a deadline. One outcome, whole, told to all.
- **Wave lock and local tracker.** Check-then-act on shared files, without a lock.
  One holder; no circle of blockers in which every issue waits.
- **Task service backend.** Every call is a process with a memory of its own of the
  state file; the mirror posts before it records, can fail, be killed or be left
  behind. Nothing posted twice, nothing acknowledged that is not posted, no body
  of an issue lost, and one call's run known to the next.
- **Planning.** An algorithm over arbitrary graphs: no ticket too early, none lost.

## 2 Plan

All of it is done; the order is that of the dependencies.

1. `GraphSemantics`, `GraphLedger` (abstract: one graph, one step per decision),
   `GraphJournal` (the table and its connections, which implements the ledger); the
   ledger's safety proved.
2. `Scheduler`, composed with the ledger, and `SchedulerProofs`.
3. `Admission`, composed with the ledger, and `AdmissionProofs`.
4. `DelegateTask`, which implements the one-shot `DelegateOutcome`.
5. `WaveLock`, `LocalTracker`, `TaskBackend` with the mirror lock: exclusion per
   repository, per issue and per mirror run, with their proofs.
6. `WavePlanning` against a reference definition, with its proofs.

7. The proofs of what is left: the journal's connections and their refinement of
   the ledger, the delegates' directory and its refinement, the budget's
   accounting, the bodies and the shared runs of the task service backend.

What could be added: heartbeats and reads in `TaskBackend`; the interactive
session in `DelegateTask`.

A component gets one passing run, which carries its properties (the scheduler
two, for its index and for its leases); a run that refutes a document is kept for
what no passing run can say. A type invariant that is proved is not run again.

## 3 Modules and the code they model

| Module | Models | State | One action per |
|---|---|---|---|
| `GraphSemantics` | `dag/semantics.py`, `_apply_operation`, `_derive_readiness`, the schemas' vocabularies | none: the graph and envelopes as records, operators over them | - |
| `GraphLedger` | `init_graph` and `_decide` seen from outside | `graph` | creation; accepted envelope |
| `GraphJournal` | `GraphJournal` over its SQLite table | `log`, `nextSeq`, `conn`, `acks` | public method; reads and recovery in the two steps that other processes can get between |
| `Scheduler` | `SchedulerStore`, `ReadyIndex`, `Scheduler` | `now`, `lease`, `dispatched`, `retries`, `sched`, `dead` | statement against the store |
| `Admission` | `AdmissionStore`, `AdmissionController` | `graph`, `now`, `log`, `queue`, `job`, `crashes` | statement against the store or call of the journal |
| `DelegateOutcome` | what the directory promises | `outcome`, `answer` | decision; answer |
| `DelegateTask` | `task_protocol.py`, the end of `openrouter_worker.py` | `file`, `lock`, `worker`, `watcher`, the clock | rename; step of a watcher |
| `WaveLock` | `repo_lock.py`, `wave_lock.py` | `lock`, `session` | read with its decision; truncation; write; unlink |
| `LocalTracker` | `LocalBackend` | `file`, `claim`, `call`, `held` | access to a file |
| `TaskBackend` | `McpTaskBackend`, `ServiceState`, `mirror_lock`; external: the service, its mirror command | `row`, `writes`, `bodies` (service and GitHub), `file`, `call`, `lock`, `mirrors` | call of the service, save of the file, step of the mirror run |
| `WavePlanning` | `plan_waves` | the input, `phase`, `blocked`, `waves` | round of a loop |
| `GraphLedgerProofs`, `GraphJournalProofs`, `SchedulerProofs`, `AdmissionProofs`, `DelegateTaskProofs`, `WaveProofs`, `LocalTrackerProofs`, `TaskBackendProofs` | the theorems of section 6 | - | - |
| `MC...` | the small instances | - | - |

**The graph** is a record: intent nodes and edges, execution nodes as functions
from `Nodes` (`life` is `Nil` for a node that is not there), schedulable edges,
relations, evidence, approvals, leases, controls, and the list of mutations as
`history`. An envelope has the graph it is for, an id, an idempotency key, a
base revision, who authorises it, its approval flag, evidence references and
operations. An operation is a record with a `type`.

**One acceptance** (`Admissible`, `Commit`) is the body of `_decide`: semantic
validation against the graph as it is, the operations in turn on a copy,
`_derive_readiness`, the revision, the new history entry, validation of the
result. `ApplyOperations` folds `Step` over the operations; a failed one makes
the envelope fail.

**A connection** of the journal has the fields of the Python object that outlive
a call. `Write` wraps what runs in `_write_transaction`: the row is appended and
committed; or it is appended, the in-memory state moves, and COMMIT fails; or
the process dies with the row torn. Hashes are abstracted to what comparing them
tells: a row is sound or torn, and names the row it was appended after.

**The scheduler** replays in one step and touches the store in others:
`ClaimChecks`, `ClaimLooks`, `ClaimGrants` and `ClaimDispatches` are `claim()`;
`SweepSelects` and `SweepExpires` are `expire_leases()`; `RetryCounts` and
`RetryRecords` are `register_retry()`; `Resume` is the refresh that `resume()`
begins with. Between calls the caller notes in `dirty` which nodes operations
have named, which is what `refresh(dirty)` asks of it. The graph moves by any
step of the ledger.

**The admission policy** is a controller process (`job`) per `AdmissionController`
object. `propose()` is authority, evidence, throttle, budget, engine and record,
one step each; `approve()` looks at its entry, sends the approved envelope through
the same steps and resolves the entry, except that an oscillation is raised, which
leaves it pending. `request_approval()` parks a proposal. The log holds the rows
that admit something. Costs are in the unit of the policy's budget, and `Parked`
says which proposals a proposer may ask a human for. Whoever approves or rejects
is a model or not, and a model is not heard. `vouched` and `decided` only remember
what people have put in or decided.

**The directory of a delegated task** says of each file which worker wrote it.
`Locks` is the `flock` and the look at the sentinels under it, `Writes` one rename,
`Unlocks` the end. A worker that dies loses the lock and leaves its files. What
runs before a publication only decides which of `Plans` is tried.

**The wave lock** has a file that is absent, torn (truncated and not yet written:
the code reads it as absent) or a record, and sessions that keep what they were
told in `holds`. `Named` are the sessions that pass `--pid`; of the others the file
records the pid of the `acquire` command, which ends with it.

**The local tracker** has calls in which each access to a file is a step: a claim
creates the claim file empty and then names the agent, an edit reads the whole
record and later writes the whole record, with one field changed. Writing is two
steps, since `write_text` empties the file first. Issues are named by references
(`Refs`): a file has more than one spelling, is found under each (`ref[1]`), but
`blocked_by` keeps the spelling it was given, the walk for cycles compares
spellings, and `ready()` knows only the canonical one (`Ref`).

**The task service backend** has calls that carry the memory they loaded (`mem`)
and write all of it at every save. A call resolves its ref: it is in the file, or
the task is read by its key (`Resolves`), or it is an imported task found by its
candidate key (`Adopts`, which looks at nothing that is pending), or every task
without an issue in the file is read. On the way `_remember` saves the issue and
then places and forgets the pending body. The call does what it came for at the
service, saves, and mirrors (`Locks`, `TimesOut`), or goes on with a notice when
there is no mirror command (`Lags`); for `create` it reads the task again. An error
of the service or of `gh` ends the call (`Breaks`), an error of the mirror only
under `strict` (`Fails`). `Modes` and `MayLag` say what the configuration may be,
and each call may be made under another. A mirror run has the batch of writes it
found unrecorded; it posts, then records. `acked` are the writes whose call has
ended without an error and without a word that GitHub lags.

## 4 Runs

All configurations set `CHECK_DEADLOCK FALSE`: a bounded number of revisions,
rows, calls or ticks is used up in the end, and a graph whose work is finished, a
plan that is done or a task that has its outcome really stops.

| Run | Checks | Instance |
|---|---|---|
| `ledger` | `HistoryIsSerial`, `AppliedAtMostOnce`, `ReadinessAgrees`, `NoStructuralStall`, `TerminalImmutable`, `LifecycleRespected`, `AuthorityRespected` | two graphs (`GraphIds`): `work`, two nodes in either order, every transition and every way out of a terminal state, pairs of operations on one node, edges both ways, pause; `book`, three nodes, two groups, two leases, promotion, compensation, approvals. Five revisions. Repeated ids, repeated keys, every mix of authority and approval flag |
| `torn` | `AcksDurable`, `CacheCoherent`, `ReplayReproduces`, `TypeOK`, and `LedgerSpec`, the refinement | two connections, three rows: two rival proposals, a repeated key with other content, a follow-up; rows can tear, COMMITs can fail, both may recover; without the steps `Races` and `Renumbers` (`ApartSpec`, section 6) |
| `index` | `IndexExact`, `RetriesBounded` | two schedulers, two nodes, four revisions of nodes, edges, pauses and transitions, refreshes of either kind at any time; three retry ids, a budget of one |
| `orphans` | `NoDoubleLease`, `ConcurrencyCapped`, `OrphansReclaimed` | the scheduler claims only what it listed of two ready nodes, one lease at most; heartbeats, releases, sweeps; a worker that may die, one crash, two ticks with leases of one |
| `admission` | `RateBounded`, `BudgetBounded`, `LogAgrees`, `ApprovedIsCommitted`, `HumanBehind`, `DecisionFinal` | two controllers, five proposals: one plan from a model in its own name, from a model in a human's and from a human; a node blocked and taken back. One of them may be parked, models and people decide on it. Limits of two mutations and three units in windows of one tick, one crash |
| `delegate` | `OutcomeSpec` (the refinement), `OutcomeWhole`, `TerminalFrozen`, `TimeoutHonest`, `WaitsEnd`, `TaskEnds`, `DelegateTypeOK` | two workers that may die at any write, one watcher that polls every two ticks until the third, a clock of four |
| `wave` | `ExclusiveUnlessRaced` | three sessions, two of which name themselves, three acquires or releases each, deaths |
| `tracker` | `OneHolder`, `NeverWedged` | two agents, two issues, one of them with two spellings, and one more to be created, four calls that overlap and die, also with a file open for writing |
| `service` | `PostedOnce`, `AckedIsPosted`, `BodyPlaced`, `ClaimShared` | two callers and three calls, for two agents or none; an imported task and one to be created; two runs, two writes; `strict` and `best_effort`, with and without a mirror command; errors of the service, `gh` and the mirror; one call may die, leases may run out |
| `plan` | `WavesOrdered`, `GuardUnreached`, `PlanExact` | every dependency graph of three tickets and one outsider, with every choice of closed and gated tickets |
| `rivals`, `reclaimed` | one statement of a document each, refuted | see section 7 |

Why the bounds are enough: two nodes make every kind of edge, of cycle and of
wait, three leave one to be added; the readiness of a node depends on itself and
its direct predecessors; two connections, controllers, workers or callers are
what a stale cache or a lost race takes, and three rows leave one before and one
after the decision in question. Two concurrent controllers make every overrun a
window can have per further controller, two schedulers that of a budget. Three
sessions are a holder, one that reclaims and one that comes back; two issues make
a cycle and the third is the one created meanwhile. Of three calls of the service
two can overlap and a third find what they left, or one prepare the ground for
two that overlap; two writes are one in the batch of another call's mirror run.
Three tickets make a chain of two dependencies, so that what is held back spreads
twice. Every safety property and both refinements that the passing runs check are
also proved without these bounds (section 6), with the exceptions stated there.
`orphans` has one scheduler: two are beyond five minutes of TLC, and what two may
do to each other is in the theorems.

Every property of a passing run has a mutant in `PROJECT.json`: a plausible
mistake in one definition, defined next to it, under which TLC finds the
property violated.

## 5 Fairness

Only two specifications have any.

`FairSpec` of the scheduler: time passes; a scheduler that is
between two statements goes on, and one that died is started again; one that is
free again and again while a lease is overdue gets to its sweep. The last is
strong fairness because the scheduler is a library: its driver decides between
calls what to call next, and a driver that never sweeps has no reclaiming at
all. Workers owe nothing: they may never heartbeat and never release, and the
mortal ones may die. Nothing is assumed of the proposers either.

`FairSpec` of `DelegateTask`: time passes; a worker that is not dead goes on (its
harness runs under a time-out of its own) and gets a lock that is free again and
again, which is what a blocking `flock` gives; a watcher looks when its sleep is
over. Nobody has to wait and nobody has to die, so `WaitsEnd` covers the case
that every worker is dead, and `TaskEnds` excepts it.

## 6 Proofs

They assume what the modules' named ASSUMEs say of the constants (`...Assumption`,
`NilIsNoCall`): sets of the right kinds, bounds that are numbers, and `Nil` apart
from the names. TLC evaluates them in the runs. What a single theorem assumes
beyond that stands in its statement and in the tables below.

**The ledger** (`GraphLedgerProofs`) is proved for all sets of nodes, groups,
evidence and envelopes and any bound on the revision. The inductive invariant
`LedgerInv` (theorem `LedgerInvariant`) conjoins the type, the serial history,
the mutations applied at most once, the validity of the snapshot, and that the
graph is settled: no admitted node has its predecessors succeeded, no ready node
lacks them. The parts need each other: an envelope is only known to be typed and
valid against a valid graph, and a mutation to be new against the history that
graph records. What an envelope of many operations does follows from what one
operation does: `FoldStaysIn` says that the fold over the operations stays in any
set that it starts in and that no operation leaves, so that an induction over the
operations becomes the choice of a set. It rests on the lemma `SetInduction`, an induction
over the natural numbers stated about a set of numbers instead of a predicate,
which is derived from the well-foundedness of the strict subset ordering.
`NoStall` follows from acyclicity: among the unfinished nodes one waits for none
of the others, and a settled graph has made it ready.

| Theorem | Property |
|---|---|
| `TypeCorrect` | `TypeOK`, not run |
| `SerialHistory` | `HistoryIsSerial` |
| `AtMostOnce` | `AppliedAtMostOnce` |
| `ReadinessAgreement` | `ReadinessAgrees` |
| `NoStall` | `NoStructuralStall` |
| `LifecycleTheorem` | `LifecycleRespected` |
| `TerminalTheorem` | `TerminalImmutable` |
| `AuthorityTheorem` | `AuthorityRespected` |

**The journal** (`GraphJournalProofs`), for any connections, envelopes and number
of rows:

| Theorem | Property | Assuming |
|---|---|---|
| `JournalTypes` | `TypeOK` | - |
| `JournalInvariant` | `JournalInv`, not run | `[][Apart]_vars` |
| `JournalAcksDurable` | `AcksDurable` | `[][Apart]_vars` |
| `JournalCacheCoherent` | `CacheCoherent` | `[][Apart]_vars` |
| `JournalReplays` | `ReplayReproduces` | `[][Apart]_vars` |
| `JournalImplementsLedger` | `LedgerSpec` | `[][Apart]_vars` |
| `JournalHistorySerial`, `JournalAtMostOnce`, `JournalTerminal` | `HistoryIsSerial`, `AppliedAtMostOnce`, `TerminalImmutable` of the ledger | `[][Apart]_vars` |

Connections and recoveries are unlimited, any connection may die with a torn row,
and COMMITs may fail. `Apart` excepts two steps, and those alone, because with
either the code does not keep the properties (section 7). `Races`: a row is added
while a recovery of any connection is between its read of the table and its DELETE.
`Renumbers`: a row is added under the number of one that a failed COMMIT rolled
back and that is still in the cache of another connection. A failed COMMIT whose
number nobody else takes, a recovery beside which others only read, recover, tear
nothing and add nothing, and everything else stays in. The
invariant `JournalInv` is in two parts. `RowsInv`: up to the first torn row the
table folds to a graph, each acceptance to the result it recorded; the rows after it
add no acceptance, and a graph only when a sound row follows a torn one, after
which recovery refuses for good. `ConnInv`: a cache that can still be hit, now or
once a recovery has cut the torn rows off, is the fold of the sound part; what a
recovery is about to delete begins with the first torn row; what was acknowledged,
or is remembered under an idempotency key, is in the sound part. The refinement maps
the graph to the fold of the sound part, so that a torn row and its removal are
stutters and a commit is one decision of the ledger; the last three theorems carry
what is proved of the ledger over to it.

**The scheduler** (`SchedulerProofs`) is proved over any graph. Every step of it
is a step of the ledger or leaves the graph alone (`SchedulerKeepsLedger`), so
`LedgerInv` holds beside its own types, and `BaseInv` is the two together.

| Theorem | Property | Assuming |
|---|---|---|
| `SchedulerTypes` | `SchedulerTypeOK`, not run | - |
| `IndexTheorem` | `IndexExact` | - |
| `NoDoubleLeaseTheorem` | `NoDoubleLease` | - |
| `ConcurrencyCappedTheorem` | `ConcurrencyCapped` | finitely many nodes |
| `RetriesBoundedTheorem` | `RetriesBounded` | - |

`IndexExact` speaks of the moment a refresh has caught up; its invariant, `Tracks`,
of all the others: outside the frontier of what operations have named since, the
index is right, or it was emptied by a pause. That a commit keeps it comes down to
two lemmas: an envelope leaves alone what readiness reads of the nodes it does not
name (`ResultTouches`; the readiness pass moves other nodes, but only between
`admitted` and `ready`, which the scheduler does not tell apart), and the
readiness of a node depends on itself and its direct predecessors
(`ReadinessIsLocal`). This is the argument that makes `refresh(dirty)` safe.

The other three say what looking first and writing later comes to, with any number
of schedulers. The code does not keep two of them from leasing one node or from
overrunning the limits together; what it keeps is that each does so once at the
most. Between its look and its grant a scheduler has no active lease of the node
under a key of its own (`GrantInv`), since only its grants make those active
(`OwnKeys`): two leases of a node are of two schedulers. A budget that had room when
it was counted has since been used by those that were then between count and
record, one each (`RetryInv`). For the cap, a node counts from when its scheduler
lists it (`Engaged`), and after a listing nodes only leave; the workers of which
this is said are `Listed`, whose drivers claim only what was listed, while any other
worker may be claimed for beside them.

**The admission policy** (`AdmissionProofs`) is proved for any proposals, limits
and number of controllers. It too only takes steps of the ledger.

| Theorem | Property |
|---|---|
| `AdmissionImplementsLedger` | the ledger's `Spec` |
| `AdmissionTypes` | `AdmissionTypeOK`, not run |
| `ApprovalTheorem` | `ApprovedIsCommitted` |
| `HumanTheorem` | `HumanBehind` |
| `RateTheorem` | `RateBounded` |
| `BudgetTheorem` | `BudgetBounded` |
| `LogTheorem` | `LogAgrees` |
| `DecisionTheorem` | `DecisionFinal` |

`PolicyInv` adds to `LedgerInv` that the log names only what is in the history
and that each controller knows nothing false (`Sound`): one that resolves an entry
as approved has its mutation committed, one that carries an envelope in a human's
name has it from a human, and one that resolves an entry was asked to by a human. `RateInv` is the accounting that makes the
limit hold: the rows of a window and the controllers that have passed the check
and not yet written their row (`InFlight`) are together at most the limit plus the
other controllers, because a controller passes only while there is room for a row.
`BudgetInv` is the same for costs, where counting is not enough: of the controllers
in flight one came to the check last and has seen every row there is, so that what
is spent and its own price fit the budget and each of the others adds at most the
dearest proposal. A row written or left behind by the window then only lowers the
total. What is spent is a sum over the rows in order (`Total`), a recursive
function, of which the proof needs only what one more row adds and one less takes.
`LostInv` counts what is in the history and neither logged nor being recorded: a
crash adds one at most.

**The delegates' directory** (`DelegateTaskProofs`), for any workers, watchers,
polls and time-outs:

| Theorem | Property |
|---|---|
| `DelegateTypes` | `DelegateTypeOK` |
| `OutcomeIsWhole` | `OutcomeWhole` |
| `TimeoutIsHonest` | `TimeoutHonest` |
| `TerminalIsFrozen` | `TerminalFrozen` |
| `TaskImplementsOutcome` | `OutcomeSpec` |

`TaskInv` (`TaskInvariant`) has three reasons. Whoever has the lock is the only one
with something left to write, what it has written so far is its own, and as long as
something is left the task is not terminal, because the sentinel comes last in
every plan (`WorkerInv`). At most one sentinel is there, and the time of the
decision is noted with it (`FileInv`). A watcher never sleeps past its next look,
and one whose next look comes too late for an answer has looked a poll before it
and seen nothing (`WatcherInv`): a time-out is only ever answered by a watcher that
has looked since, and nothing decided earlier than a poll before its deadline is
missed.

**The wave lock** (`WaveProofs`), for any sessions, with and without `--pid`:
`WaveTypes` (`WaveTypeOK`, not run) and `WaveExclusion` (`ExclusiveUnlessRaced`,
which is about those that pass it). The invariant `WaveInv` says that before an
acquire has overlapped another, or the release of a session without `--pid`, one is
under way at most, that the decision it took stays true until it truncates the
file, and that a named session that holds the lock finds its own record. A session
without `--pid` may be reclaimed at any time and promises nothing to itself, but
does not get in while a named one holds the lock.

**The local tracker** (`LocalTrackerProofs`): `TrackerTypes` (`TrackerTypeOK`, not
run), `OneHolderTheorem` (`OneHolder`) and `NeverWedgedTheorem` (`NeverWedged`). For
the holder, `HolderInv`: a held claim file names its holder, an empty one belongs
to the one call that is naming it, and one that is about to be unlinked is held by
nobody, so that no call in between can touch another's. For the other, `SerialInv`:
as long as calls do not overlap and name the issue they block as the tracker names
it, the blockers that `ready()` looks at are acyclic, and they stay so when the
write that a call has prepared is made; a link that `_would_cycle` lets pass keeps
them acyclic because the blockers of the new blocker are a set closed under
blocking that does not contain the issue (`LinkKeepsAcyclic`). The property excepts
what the code does nothing about: calls that overlapped, a blocked issue named by
another spelling, a file left empty (section 7).

**The task service backend** (`TaskBackendProofs`), for any tasks, callers and
bounds: `BackendTypes` (`BackendTypeOK`, not run), `PostedOnceTheorem` (`PostedOnce`),
`AckedIsPostedTheorem` (`AckedIsPosted`), `BodyPlacedTheorem` (`BodyPlaced`) and
`ClaimSharedTheorem` (`ClaimShared`). `LockInv`: a mirror command that its
call still waits for runs under that call's lock, and there is one such command at
most. `PostInv`, as long as no run was cut off: the batch of the run is unposted
until it posts, and whatever is posted and not yet recorded is in the batch of the
run that still has the lock. `AckedInv`, in either mode: what is recorded is posted,
and the write of a call that waits for its mirror run is in that run's batch or was
recorded by an earlier one; a call goes back to read its task (`Due`) only then, or
when it has told that GitHub lags. `PlacedInv` continues it: a recorded write has
given its task an issue; a `create` that waits for its mirror run still notes the
pending body in its own memory, whatever others have saved over the file, and,
unless it has told that GitHub lags, reads its task again only with the issue
there; so the body of every acknowledged `create` is placed.
`SeqInv` is about calls that do not overlap: then one call is under way at most and
has the file's memory, and it looks at no task whose issue the file has. The issue
is saved before the body is placed, so a body that is there is of a task that is
not looked at again, whatever died or failed in between. While no call has died and
no lease run out, the file has the service's runs, except for the one that the call
has just been given or has just given back.

**Wave planning** (also `WaveProofs`), for any finite set of tickets and all
dependencies: `PlanTypes` (`PlanTypeOK`, not run), `WavesTheorem` (`WavesOrdered`),
`GuardTheorem` (`GuardUnreached`), `ExactTheorem` (`PlanExact`). `PlanInv` says that
what is held back so far is in every set that contains what is held back of itself
and is closed under depending; the guard is dead because among the remaining
tickets one depends on none of them, and everything else it depends on is placed.

Only model-checked: liveness (`OrphansReclaimed`, `WaitsEnd`, `TaskEnds`), which
the prover does not reach, and the counterexamples of the two runs that refute a
document. Nothing is proved by the library's induction theorems; where a fold or
a sum needs an induction, `SetInduction` or the choice of a set takes its place.

## 7 Where the code and its documents disagree

| Run | Document | Code |
|---|---|---|
| `rivals` | "Only an uncommitted partial tail may be discarded" (INV-dag-002) | `recover()` scans before it locks, and deletes what was appended in between (`dag/journal.py:407`) |
| `reclaimed` | "A second concurrent run's `acquire` fails LOUDLY" (`scripts/wave_lock.py:13`) | without `--pid` the lock records the pid of the `acquire` command, which is dead when the next session looks (`scripts/wave_lock.py:63`) |

Other disagreements can be shown with the runs at hand by changing a line:

- `Spec` instead of `ApartSpec` in `torn`, with `Recoverers = {}`, leaves the step
  `Renumbers` and refutes `ReplayReproduces` ("Replay reproduces ... byte-for-byte",
  INV-dag-004): a failed COMMIT rolls the table back, not the cache the connection
  goes on deciding from (`dag/journal.py:363`). While nobody else writes, its next
  row finds the cache to be of another table length and replays; when another
  connection takes the number of the lost row, the cache is hit and is wrong.
- `Spec` in `torn` with `MayFail = FALSE` leaves the step `Races`, of which `rivals`
  shows one consequence. With three connections it refutes `CacheCoherent` although
  only one of them recovers: a read finds the table empty; a rejection is torn; the
  recovery scans; another process creates the graph, since `init_graph` verifies no
  chain; the read caches the new graph under the sequence number 0 it had found;
  the recovery deletes both rows; the cache is hit on an empty table
  (`dag/journal.py:407`).

And by reading the model: two schedulers that both look and then both insert lease
one node twice, and together exceed the cap, although contracts.md has a claim fail
with "409 if ... lease collision" (`dag/scheduler.py:480`); what is left, and proved,
is that each does so once. `claim()` and its dispatch record are two autocommitted
statements which `resume()` does not reconcile, although INV-dag-009 says that they
commit atomically (`dag/scheduler.py:490`); a heartbeat does not look at the
deadline it extends (`dag/scheduler.py:334`), although a worker whose lease expired
may not commit its claim afterwards; and no envelope leads from `blocked` back to
`ready`, as the lifecycle diagram of `docs/dag-contract.md` does, since no envelope
may set `ready` and the readiness pass leaves `blocked` alone (`dag/semantics.py:27`).

What the properties of the smaller components except is what their code does not
do, and a user should know of each case:

- *Wave lock.* Two acquires that overlap may both succeed. A session without
  `--pid` (the documented commands pass none) is reclaimed by the next acquire, and
  the release of one may remove the lock of whoever reclaimed it meanwhile.
- *Local tracker.* `link("local:docs/issues/./0001.md", "local:docs/issues/0001.md")`
  passes `_would_cycle`, which compares the two spellings (`scripts/tracker.py:382`),
  is written into the one file, and keeps the issue from ever being ready; a blocker
  in another spelling never holds anything back, since `ready()` looks for the
  canonical one. Two links that overlap may close a circle of two. A call that is
  killed inside `write_text` (`scripts/tracker.py:895`, `930`) leaves an empty file,
  on which `ready()` and `list()` raise until it is repaired by hand. Two `create`
  calls that overlap may use one number.
- *Task service backend.* Without `mcp.mirror_command` a call ends well under
  `strict` too, with a notice that GitHub lags, and nothing is promised of its write
  (`scripts/tracker_mcp.py:269`). The issue of a task is saved before its body is
  placed: when `gh` fails or the call dies in between, no later call places the
  body, since the task is resolved from the file from then on
  (`scripts/tracker_mcp.py:182`, `192`). Only calls that overlap can place it twice.
  Calls that overlap overwrite each other's state file, so that a run held by one is
  forgotten by the other; after a lease has run out at the service, `claim` still
  answers True from the file, and a `release` of it fails before the file's run is
  dropped. A call that dies leaves its mirror command running without the lock.
- *Admission.* An approval whose controller dies, or that a rejection overtakes, may
  leave its entry pending or rejected with the mutation in the graph.

## 8 Abstractions, and what is not modelled

- **Journal.** A read's verification and its fold are one step, as is MAX of the
  sequence numbers with the read it guards: the window between them only delays
  what the next step sees. A timestamp, a trace id or a payload no rule reads is
  left out. Corruption other than by a torn write is not modelled.
- **Semantics.** The schema pass is reduced to the one record it can refuse after
  the envelope's own schema has passed (`ShapeValid`). `release_lease` names its
  lease or, in the code, a node that has one: the choice of the lease covers both.
- **Scheduler.** Collisions of the nine-digit lease ids are ignored; a heartbeat's
  look at the clock and its UPDATE are one step; priorities only order a list.
  `liveness()`, `assert_progress()`, shadow mode and `limit` are left out. The
  scheduler has no driver in `scripts/`; the steps a caller can take are those its
  tests take. `Listed` says whether callers claim only what `dispatchable()` gave
  them. `MaxTime` bounds the clock for grants and heartbeats, past it claims are
  given up and time runs on until every deadline has passed.
- **Admission.** Costs are numbers in the policy's unit. Rows of the log that admit nothing
  and limits that are not set are left out, as are the reads that report. Which
  proposals may be parked is a constant (`Parked`), chosen small in the run.
- **Delegates.** A file is the worker that wrote it, and a rename is one step. A
  watcher wakes at the tick it asked to be woken at. The interactive session that
  touches a sentinel without the lock is left out; a crashed publisher's artifacts
  may lie beside a later outcome, and `OutcomeWhole` says that they are not among
  what its sentinel announces. `run_task` before its publication is the choice of a
  plan.
- **Wave lock.** `release --force` is left out, and a pid belongs to one process for
  good. `status` only reports.
- **Local tracker.** A file is emptied and filled in two steps; half of the text is
  as good as none, since a reader of it raises, which is a call that dies. The walk
  along the blockers is one step. An agent makes one call at a time. Titles,
  labels, epics and the texts of comments are left out.
- **Task service backend.** A call of the service is one step that succeeds, fails
  (`Breaks`), or is refused by the rules of `tests/fake_task_service.py`; an answer
  that is lost after the service has acted is a call that dies. The read of a task
  is one step with the file's update that follows it. Saves are atomic, although
  all processes share one temporary name. Of the fields that wait for the issue
  there is the body; reads, reports, heartbeats, provenance and tasks the service
  does not hold are left out. A mirror run of the operator's own is not modelled: without a mirror
  command nothing is posted until a call that has one posts it.
- **Planning.** A round visits tickets in any order; warnings and integration risks
  are left out.
- `MaxRevision`, `MaxRows`, `MaxTime`, `MaxCrashes`, `MaxUses`, `MaxIssue`, `MaxCalls`,
  `MaxRuns`, `MaxWrites`, `MaxDeaths` are bounds of the models, not of the code.

**Not modelled.** `PROJECT.json` gives the reason for each component. In short:

- *Candidates and routing* compute a ranking from their arguments. What they change
  is the graph, by operations the ledger has.
- *Remote CI* keeps nothing between two polls. It answers GREEN as soon as the runs
  it has seen are complete; whether another one will still be registered is decided
  at GitHub, and no state of the program could tell a model.
- *Ratchet and experiment journals* are chained files with one writer; the chain is
  that of the graph journal without what makes the journal hard.
- *Preflight, verification, git and artifact orchestration, consultation, mail* drive
  external commands and services and report what these answered.
- *Gates, checks, quality metrics, extractors, emitters, generators, the business
  consultant, the sidecar utilities*, by far the most of the code, read files and
  write findings or text. They keep no state between runs that another step relies
  on, nothing in them runs concurrently, and a specification of one would be its
  text over again.
- *`liveness()` and `assert_progress()`* of the scheduler report and change nothing.
  After a refresh what they report follows from `IndexExact`.
