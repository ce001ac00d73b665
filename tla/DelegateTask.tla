---------------------------- MODULE DelegateTask ----------------------------
(***************************************************************************)
(* The directory of one delegated task (delegates/task_protocol.py): its   *)
(* workers publish a result or an error, their artifacts first and the     *)
(* sentinel DONE or ERROR last, and watchers poll for the sentinel.        *)
(*                                                                         *)
(* A file is the worker that wrote it.  Each is put in place by a rename,  *)
(* in one step.  The .terminal.lock is a flock: the system takes it back   *)
(* from a worker that dies.  Several workers have one task when it is      *)
(* retried after a crash or a timeout that was none.                       *)
(***************************************************************************)
EXTENDS Naturals, Sequences

CONSTANTS
    Workers,     \* processes that run the task (openrouter_worker.py)
    Watchers,    \* callers of wait_for_completion
    Timeout,     \* timeout_seconds
    Poll,        \* poll_seconds
    MaxTime,     \* bound on the clock
    Nil

ASSUME DelegateAssumption ==
    /\ {Timeout, Poll, MaxTime} \subseteq Nat \ {0}
    /\ Nil \notin Workers \cup Nat \cup {"done", "error", "timeout"}
    /\ Nil \notin [kind : {"done", "error"}, by : Workers]

Artifacts == {"result", "log", "metadata"}
Sentinels == {"DONE", "ERROR"}

(* The files a publication writes, in order: publish_success, and          *)
(* publish_error with metadata, with a log only, and with neither.  A      *)
(* publication whose metadata is invalid writes nothing; the worker goes   *)
(* on to the last of these.                                                *)
Plans ==
    { <<"result", "log", "metadata", "DONE">>,
      <<"log", "metadata", "ERROR">>, <<"log", "ERROR">>, <<"ERROR">> }

VARIABLES
    now,       \* the clock
    file,      \* who wrote each file, or Nil
    lock,      \* who holds .terminal.lock
    worker,    \* where each worker is in its publication: done files of plan
    watcher,   \* where each watcher is in its wait
    decided    \* when the first sentinel appeared (read by nothing)

vars == <<now, file, lock, worker, watcher, decided>>

-----------------------------------------------------------------------------

Exists(f) == file[f] # Nil

Terminal == Exists("DONE") \/ Exists("ERROR")

DelegateInit ==
    /\ now = 0
    /\ file = [f \in Artifacts \cup Sentinels |-> Nil]
    /\ lock = Nil
    /\ worker = [w \in Workers |-> [step |-> "run", plan |-> <<>>, done |-> 0]]
    /\ watcher = [v \in Watchers |-> [step |-> "idle", until |-> 0, next |-> 0,
                                      answer |-> Nil]]
    /\ decided = Nil

Moves(w, step) == worker' = [worker EXCEPT ![w].step = step]

(* run_task has come to its end and chosen what to publish.                *)
Publishes(w) ==
    /\ worker[w].step = "run"
    /\ \E plan \in Plans :
           worker' = [worker EXCEPT ![w] =
                         [step |-> "lock", plan |-> plan, done |-> 0]]
    /\ UNCHANGED <<now, file, lock, watcher, decided>>

(* Mutants: the status is not looked at again, or not at all for errors,   *)
(* once the lock is held.                                                  *)
LocksBlindly(w) ==
    /\ worker[w].step = "lock"
    /\ lock = Nil
    /\ Moves(w, "write")
    /\ lock' = w
    /\ UNCHANGED <<now, file, watcher, decided>>

LocksAfterDone(w) ==
    /\ worker[w].step = "lock"
    /\ lock = Nil
    /\ IF Exists("DONE") THEN Moves(w, "refused") /\ UNCHANGED lock
       ELSE Moves(w, "write") /\ lock' = w
    /\ UNCHANGED <<now, file, watcher, decided>>

(* _terminal_lock: the lock is waited for, the status is read under it,    *)
(* and a task that is terminal already is refused.                         *)
Locks(w) ==
    /\ worker[w].step = "lock"
    /\ lock = Nil
    /\ IF Terminal THEN Moves(w, "refused") /\ UNCHANGED lock
       ELSE Moves(w, "write") /\ lock' = w
    /\ UNCHANGED <<now, file, watcher, decided>>

(* Mutant: the sentinel first, then what it announces.                     *)
NextFileLast(w) == worker[w].plan[Len(worker[w].plan) - worker[w].done]

NextFile(w) == worker[w].plan[worker[w].done + 1]

Writes(w) ==
    /\ worker[w].step = "write"
    /\ worker[w].done < Len(worker[w].plan)
    /\ LET f == NextFile(w) IN
       /\ file' = [file EXCEPT ![f] = w]
       /\ decided' = IF decided = Nil /\ f \in Sentinels THEN now ELSE decided
    /\ worker' = [worker EXCEPT ![w].done = @ + 1]
    /\ UNCHANGED <<now, lock, watcher>>

Unlocks(w) ==
    /\ worker[w].step = "write"
    /\ worker[w].done = Len(worker[w].plan)
    /\ lock' = Nil
    /\ Moves(w, "over")
    /\ UNCHANGED <<now, file, watcher, decided>>

(* Mutant: the lock is a file that only its holder takes away.             *)
DiesHolding(w) ==
    /\ worker[w].step \in {"run", "lock", "write"}
    /\ Moves(w, "dead")
    /\ UNCHANGED <<now, file, lock, watcher, decided>>

(* A worker is killed, or a write raises: what it has put in place stays.  *)
Dies(w) ==
    /\ worker[w].step \in {"run", "lock", "write"}
    /\ Moves(w, "dead")
    /\ lock' = IF lock = w THEN Nil ELSE lock
    /\ UNCHANGED <<now, file, watcher, decided>>

-----------------------------------------------------------------------------
(* wait_for_completion.                                                    *)

Waits(v) ==
    /\ watcher[v].step = "idle"
    /\ now + Timeout <= MaxTime
    /\ watcher' = [watcher EXCEPT ![v] =
                      [step |-> "wait", until |-> now + Timeout, next |-> now,
                       answer |-> Nil]]
    /\ UNCHANGED <<now, file, lock, worker, decided>>

Told(v, answer) ==
    watcher' = [watcher EXCEPT ![v].step = "over", ![v].answer = answer]

Due(v) == watcher[v].step = "wait" /\ now >= watcher[v].next

(* Mutant: the sleep is twice as long.                                     *)
AsleepLonger(v) == [watcher EXCEPT ![v].next = now + Poll + Poll]

Asleep(v) == [watcher EXCEPT ![v].next = now + Poll]

Looks(v) ==
    /\ Due(v)
    /\ now < watcher[v].until
    /\ IF Exists("DONE") /\ Exists("ERROR") THEN Told(v, "conflict")
       ELSE IF Exists("DONE") THEN Told(v, "done")
       ELSE IF Exists("ERROR") THEN Told(v, "error")
       ELSE watcher' = Asleep(v)
    /\ UNCHANGED <<now, file, lock, worker, decided>>

(* Mutant: a timeout is tried again without end.                           *)
GivesUpNever(v) ==
    /\ Due(v)
    /\ now >= watcher[v].until
    /\ watcher' = [watcher EXCEPT ![v].next = now + Poll]
    /\ UNCHANGED <<now, file, lock, worker, decided>>

(* The condition of the loop is false: no last look.                       *)
GivesUp(v) ==
    /\ Due(v)
    /\ now >= watcher[v].until
    /\ Told(v, "timeout")
    /\ UNCHANGED <<now, file, lock, worker, decided>>

(* A watcher sleeps no longer than it meant to.                            *)
Tick ==
    /\ now < MaxTime + Poll
    /\ \A v \in Watchers : ~Due(v)
    /\ now' = now + 1
    /\ UNCHANGED <<file, lock, worker, watcher, decided>>

WorkerStep(w) == Publishes(w) \/ Locks(w) \/ Writes(w) \/ Unlocks(w)

DelegateNext ==
    \/ \E w \in Workers : WorkerStep(w) \/ Dies(w)
    \/ \E v \in Watchers : Waits(v) \/ Looks(v) \/ GivesUp(v)
    \/ Tick

DelegateSpec == DelegateInit /\ [][DelegateNext]_vars

(* A worker goes on until it dies (its harness runs under a timeout of its *)
(* own), gets a lock that keeps being released, and a watcher goes on      *)
(* looking.  Nobody has to wait, and nobody has to die.                    *)
FairSpec ==
    /\ DelegateSpec
    /\ WF_vars(Tick)
    /\ \A w \in Workers : /\ WF_vars(Publishes(w) \/ Writes(w) \/ Unlocks(w))
                          /\ SF_vars(Locks(w))
    /\ \A v \in Watchers : WF_vars(Looks(v) \/ GivesUp(v))

-----------------------------------------------------------------------------

DelegateTypeOK ==
    /\ now \in 0..(MaxTime + Poll)
    /\ file \in [Artifacts \cup Sentinels -> Workers \cup {Nil}]
    /\ lock \in Workers \cup {Nil}
    /\ \A w \in Workers :
           /\ worker[w].step \in {"run", "lock", "write", "refused", "over", "dead"}
           /\ worker[w].plan \in Plans \cup {<<>>}
           /\ lock = w <=> worker[w].step = "write"
    /\ \A v \in Watchers :
           /\ watcher[v].step \in {"idle", "wait", "over"}
           /\ watcher[v].next <= watcher[v].until + Poll
           /\ watcher[v].answer \in {Nil, "done", "error", "timeout"}
    /\ decided \in Nat \cup {Nil}

(* A sentinel announces the whole of one publication: whoever reads DONE   *)
(* or ERROR finds every artifact its writer published with it as that      *)
(* writer published it, whatever others that died had left there before    *)
(* or wanted to write at the same time.                                    *)
OutcomeWhole ==
    \A s \in Sentinels : Exists(s) =>
        LET w == file[s] IN
        \A i \in DOMAIN worker[w].plan : file[worker[w].plan[i]] = w

(* The outcome is decided once, by the sentinel, and every watcher is told *)
(* it: the directory implements the one-shot outcome.  In particular DONE  *)
(* and ERROR never both exist.                                             *)
Outcome == INSTANCE DelegateOutcome WITH
    outcome <- IF Exists("DONE") THEN [kind |-> "done", by |-> file["DONE"]]
               ELSE IF Exists("ERROR")
                    THEN [kind |-> "error", by |-> file["ERROR"]]
               ELSE Nil,
    answer <- [v \in Watchers |-> watcher[v].answer]

OutcomeSpec == Outcome!Spec

(* Nothing in the directory changes any more once a sentinel is there:     *)
(* a late worker cannot exchange the artifacts under a reader ("A terminal *)
(* result already exists and cannot be replaced", TerminalStateError).     *)
TerminalFrozen == [][Terminal => UNCHANGED file]_vars

(* A timeout is nearly always true: an outcome that was there more than    *)
(* one poll before the deadline is not overslept.                          *)
TimeoutHonest ==
    \A v \in Watchers :
        watcher[v].answer = "timeout" /\ decided # Nil
            => decided + Poll >= watcher[v].until

(* Whoever waits is answered, even when every worker died.                 *)
WaitsEnd == \A v \in Watchers : watcher[v].step = "wait" ~> watcher[v].step = "over"

(* A task comes to its end unless every worker of it dies: a worker that   *)
(* died with the lock, or half way through its artifacts, does not keep    *)
(* the others from publishing.                                             *)
TaskEnds == <>(Terminal \/ \A w \in Workers : worker[w].step = "dead")
=============================================================================
