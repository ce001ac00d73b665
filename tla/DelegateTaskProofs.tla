------------------------- MODULE DelegateTaskProofs -------------------------
(***************************************************************************)
(* Proofs about the directory of a delegated task, for every number of     *)
(* workers and watchers, every timeout and every poll.                     *)
(***************************************************************************)
EXTENDS DelegateTask, TLAPS

-----------------------------------------------------------------------------
(* A plan ends with its sentinel, and has no other.                        *)

Files == Artifacts \cup Sentinels

LEMMA PlanShape ==
    ASSUME NEW p \in Plans
    PROVE  /\ Len(p) \in Nat /\ Len(p) >= 1 /\ DOMAIN p = 1..Len(p)
           /\ \A i \in 1..Len(p) : p[i] \in Files /\ (p[i] \in Sentinels <=> i = Len(p))
<1>1. CASE p = <<"result", "log", "metadata", "DONE">>
  BY <1>1 DEF Files, Artifacts, Sentinels
<1>2. CASE p = <<"log", "metadata", "ERROR">>
  BY <1>2 DEF Files, Artifacts, Sentinels
<1>3. CASE p = <<"log", "ERROR">>
  BY <1>3 DEF Files, Artifacts, Sentinels
<1>4. CASE p = <<"ERROR">>
  BY <1>4 DEF Files, Artifacts, Sentinels
<1> QED BY <1>1, <1>2, <1>3, <1>4 DEF Plans

-----------------------------------------------------------------------------
(* The invariant.                                                          *)

Steps == {"run", "lock", "write", "refused", "over", "dead"}

WorkerType == [step : Steps, plan : Plans \cup {<<>>}, done : Nat]

WatcherType ==
    [step : {"idle", "wait", "over"}, until : Nat, next : Nat,
     answer : {Nil, "done", "error", "timeout"}]

Typed ==
    /\ now \in 0..(MaxTime + Poll)
    /\ file \in [Files -> Workers \cup {Nil}]
    /\ lock \in Workers \cup {Nil}
    /\ worker \in [Workers -> WorkerType]
    /\ watcher \in [Watchers -> WatcherType]
    /\ decided \in Nat \cup {Nil}

(* Only who holds the lock writes; what it has written so far is its own,  *)
(* and while something is left to write the task is not terminal.          *)
Working(w) ==
    /\ lock = w <=> worker[w].step = "write"
    /\ worker[w].step \in {"lock", "write"} => worker[w].plan \in Plans
    /\ worker[w].step = "lock" => worker[w].done = 0
    /\ worker[w].step = "write" =>
          /\ worker[w].done <= Len(worker[w].plan)
          /\ \A i \in 1..worker[w].done : file[worker[w].plan[i]] = w
          /\ worker[w].done < Len(worker[w].plan) => ~Terminal

WorkerInv == \A w \in Workers : Working(w)

Wrote(w) == worker[w].step \in {"write", "over", "dead"}

FileInv ==
    /\ \A f \in Files, w \in Workers : file[f] = w => Wrote(w)
    /\ ~(Exists("DONE") /\ Exists("ERROR"))
    /\ Terminal <=> decided # Nil
    /\ decided # Nil => decided <= now

(* A watcher never sleeps past its next look.  One whose next look is too  *)
(* late for an answer last looked a poll before it, and saw no sentinel.   *)
Waiting(v) ==
    /\ watcher[v].next <= watcher[v].until + Poll
    /\ watcher[v].answer = Nil <=> watcher[v].step # "over"
    /\ watcher[v].step = "wait" =>
          /\ now <= watcher[v].next
          /\ watcher[v].next <= now + Poll
          /\ watcher[v].next >= watcher[v].until /\ decided # Nil
                => decided + Poll >= watcher[v].next
    /\ watcher[v].answer = "timeout" =>
          /\ watcher[v].until <= now
          /\ decided # Nil => decided + Poll >= watcher[v].until

WatcherInv == \A v \in Watchers : Waiting(v)

TaskInv == Typed /\ WorkerInv /\ FileInv /\ OutcomeWhole /\ WatcherInv

-----------------------------------------------------------------------------

LEMMA NilIs ==
    /\ Nil \notin Workers /\ Nil \notin Nat /\ Nil \notin {"done", "error", "timeout"}
    /\ Timeout \in Nat /\ Timeout > 0 /\ Poll \in Nat /\ Poll > 0 /\ MaxTime \in Nat
  BY DelegateAssumption

LEMMA InitHolds == DelegateInit => TaskInv
<1> SUFFICES ASSUME DelegateInit PROVE TaskInv
  OBVIOUS
<1>1. \A f \in Files : file[f] = Nil
  BY DEF DelegateInit, Files
<1>2. ~Exists("DONE") /\ ~Exists("ERROR") /\ ~Terminal
  BY <1>1 DEF Exists, Terminal, Files, Sentinels
<1>3. Typed
  BY NilIs DEF DelegateInit, Typed, Files, WorkerType, WatcherType, Steps
<1>4. WorkerInv
  BY NilIs DEF DelegateInit, WorkerInv, Working
<1>5. FileInv
  BY <1>1, <1>2, NilIs DEF FileInv, DelegateInit
<1>6. OutcomeWhole
  BY <1>2 DEF OutcomeWhole, Sentinels
<1>7. WatcherInv
  BY NilIs DEF DelegateInit, WatcherInv, Waiting
<1> QED BY <1>3, <1>4, <1>5, <1>6, <1>7 DEF TaskInv

(* What one worker's step leaves of the others and of the watchers.        *)
LEMMA WatchersStay ==
    ASSUME TaskInv, UNCHANGED <<now, watcher, decided>>
    PROVE  WatcherInv'
  BY DEF TaskInv, WatcherInv, Waiting

LEMMA WorkerMoves ==
    ASSUME TaskInv, NEW w \in Workers, NEW r \in WorkerType, worker' = [worker EXCEPT ![w] = r]
    PROVE  /\ worker' \in [Workers -> WorkerType]
           /\ worker'[w] = r
           /\ \A u \in Workers \ {w} : worker'[u] = worker[u]
  BY DEF TaskInv, Typed

(* A worker that moves on without touching a file.                         *)
LEMMA StepKeeps ==
    ASSUME TaskInv, NEW w \in Workers, NEW r \in WorkerType, worker' = [worker EXCEPT ![w] = r],
           UNCHANGED <<now, file, watcher, decided>>,
           lock' \in Workers \cup {Nil},
           \A u \in Workers \ {w} : lock' = u <=> lock = u,
           lock' = w <=> r.step = "write",
           r.step \in {"lock", "write"} => r.plan \in Plans /\ r.done = 0,
           r.step = "write" => ~Terminal,
           Wrote(w) => r.step \in {"write", "over", "dead"} /\ r.plan = worker[w].plan
    PROVE  TaskInv'
<1>1. /\ worker' \in [Workers -> WorkerType]
      /\ worker'[w] = r
      /\ \A u \in Workers \ {w} : worker'[u] = worker[u]
  BY WorkerMoves
<1>2. /\ Terminal' <=> Terminal
      /\ \A s \in Sentinels : Exists(s)' <=> Exists(s)
      /\ Exists("DONE")' <=> Exists("DONE")
      /\ Exists("ERROR")' <=> Exists("ERROR")
  BY DEF Terminal, Exists
<1>3. Typed'
  BY <1>1 DEF TaskInv, Typed
<1>4. ASSUME NEW u \in Workers PROVE Working(u)'
  <2>1. CASE u = w
    <3>1. (Len(r.plan) \in Nat /\ Len(r.plan) >= 1) \/ r.step # "write"
      BY PlanShape
    <3> QED BY <1>1, <1>2, <2>1, <3>1 DEF Working
  <2>2. CASE u # w
    <3>1. worker'[u] = worker[u] /\ (lock' = u <=> lock = u) /\ Working(u)
      BY <1>1, <2>2 DEF TaskInv, WorkerInv
    <3> QED BY <1>2, <3>1 DEF Working
  <2> QED BY <2>1, <2>2
<1>5. FileInv'
  <2>1. ASSUME NEW f \in Files, NEW u \in Workers, file'[f] = u PROVE Wrote(u)'
    <3>1. Wrote(u)
      BY <2>1 DEF TaskInv, FileInv
    <3> QED BY <1>1, <3>1 DEF Wrote
  <2> QED BY <1>2, <2>1 DEF TaskInv, FileInv
<1>6. OutcomeWhole'
  <2> SUFFICES ASSUME NEW s \in Sentinels, Exists(s)',
                      NEW i \in DOMAIN worker'[file'[s]].plan
               PROVE  file'[worker'[file'[s]].plan[i]] = file'[s]
    BY DEF OutcomeWhole
  <2>1. s \in Files /\ file[s] \in Workers /\ file'[s] = file[s] /\ Exists(s)
    BY <1>2 DEF TaskInv, Typed, Files, Exists
  <2>2. Wrote(file[s])
    BY <2>1 DEF TaskInv, FileInv
  <2>3. worker'[file[s]].plan = worker[file[s]].plan
    BY <1>1, <2>1, <2>2
  <2> QED BY <2>1, <2>3 DEF TaskInv, OutcomeWhole
<1> QED BY <1>3, <1>4, <1>5, <1>6, WatchersStay DEF TaskInv, WorkerInv

LEMMA MoveIs ==
    ASSUME TaskInv, NEW w \in Workers, NEW step \in Steps, Moves(w, step)
    PROVE  \E r \in WorkerType : /\ worker' = [worker EXCEPT ![w] = r]
                                 /\ r.step = step
                                 /\ r.plan = worker[w].plan /\ r.done = worker[w].done
<1> DEFINE r == [worker[w] EXCEPT !.step = step]
<1>1. worker[w] \in WorkerType
  BY DEF TaskInv, Typed
<1>2. r \in WorkerType /\ r.step = step /\ r.plan = worker[w].plan /\ r.done = worker[w].done
  BY <1>1 DEF WorkerType
<1>3. worker' = [worker EXCEPT ![w] = r]
  BY DEF Moves
<1> HIDE DEF r
<1> QED BY <1>2, <1>3

LEMMA PublishesKeeps ==
    ASSUME TaskInv, NEW w \in Workers, Publishes(w)
    PROVE  TaskInv'
<1>1. PICK plan \in Plans : worker' = [worker EXCEPT ![w] = [step |-> "lock", plan |-> plan, done |-> 0]]
  BY DEF Publishes
<1> DEFINE r == [step |-> "lock", plan |-> plan, done |-> 0]
<1>2. r \in WorkerType /\ r.step = "lock" /\ r.plan = plan /\ r.done = 0
  BY DEF WorkerType, Steps
<1>3. worker[w].step = "run" /\ UNCHANGED <<now, file, lock, watcher, decided>>
  BY DEF Publishes
<1>4. lock # w /\ ~Wrote(w) /\ lock \in Workers \cup {Nil}
  BY <1>3 DEF TaskInv, WorkerInv, Working, Wrote, Typed
<1> HIDE DEF r
<1>5. worker' = [worker EXCEPT ![w] = r]
  BY <1>1 DEF r
<1> QED BY <1>2, <1>3, <1>4, <1>5, StepKeeps

LEMMA LocksKeeps ==
    ASSUME TaskInv, NEW w \in Workers, Locks(w)
    PROVE  TaskInv'
<1>1. /\ worker[w].step = "lock" /\ lock = Nil /\ UNCHANGED <<now, file, watcher, decided>>
      /\ worker[w].plan \in Plans /\ worker[w].done = 0 /\ ~Wrote(w)
  BY DEF Locks, TaskInv, WorkerInv, Working, Wrote
<1>2. CASE Terminal
  <2>1. Moves(w, "refused") /\ lock' = lock
    BY <1>2 DEF Locks
  <2>2. PICK r \in WorkerType : worker' = [worker EXCEPT ![w] = r] /\ r.step = "refused"
    BY <2>1, MoveIs DEF Steps
  <2> QED BY <1>1, <2>1, <2>2, NilIs, StepKeeps
<1>3. CASE ~Terminal
  <2>1. Moves(w, "write") /\ lock' = w
    BY <1>3 DEF Locks
  <2>2. PICK r \in WorkerType : /\ worker' = [worker EXCEPT ![w] = r] /\ r.step = "write"
                                /\ r.plan = worker[w].plan /\ r.done = worker[w].done
    BY <2>1, MoveIs DEF Steps
  <2> QED BY <1>1, <1>3, <2>1, <2>2, NilIs, StepKeeps
<1> QED BY <1>2, <1>3

LEMMA UnlocksKeeps ==
    ASSUME TaskInv, NEW w \in Workers, Unlocks(w)
    PROVE  TaskInv'
<1>1. /\ worker[w].step = "write" /\ lock' = Nil /\ UNCHANGED <<now, file, watcher, decided>>
      /\ Moves(w, "over") /\ lock = w
  BY DEF Unlocks, TaskInv, WorkerInv, Working
<1>2. PICK r \in WorkerType : /\ worker' = [worker EXCEPT ![w] = r] /\ r.step = "over"
                              /\ r.plan = worker[w].plan
  BY <1>1, MoveIs DEF Steps
<1> QED BY <1>1, <1>2, NilIs, StepKeeps

LEMMA DiesKeeps ==
    ASSUME TaskInv, NEW w \in Workers, Dies(w)
    PROVE  TaskInv'
<1>1. /\ lock' = IF lock = w THEN Nil ELSE lock
      /\ UNCHANGED <<now, file, watcher, decided>> /\ Moves(w, "dead")
      /\ lock \in Workers \cup {Nil}
  BY DEF Dies, TaskInv, Typed
<1>2. PICK r \in WorkerType : /\ worker' = [worker EXCEPT ![w] = r] /\ r.step = "dead"
                              /\ r.plan = worker[w].plan
  BY <1>1, MoveIs DEF Steps
<1> QED BY <1>1, <1>2, NilIs, StepKeeps

(* A worker puts its next file in place.                                   *)
LEMMA WritesIs ==
    ASSUME TaskInv, NEW w \in Workers, Writes(w)
    PROVE  /\ worker[w].plan \in Plans /\ worker[w].done \in Nat
           /\ worker[w].done < Len(worker[w].plan) /\ ~Terminal /\ decided = Nil
           /\ NextFile(w) \in Files
           /\ NextFile(w) \in Sentinels <=> worker[w].done + 1 = Len(worker[w].plan)
           /\ file' = [file EXCEPT ![NextFile(w)] = w]
           /\ file'[NextFile(w)] = w
           /\ \A g \in Files \ {NextFile(w)} : file'[g] = file[g]
<1>1. /\ worker[w].step = "write" /\ worker[w].done < Len(worker[w].plan)
      /\ file' = [file EXCEPT ![NextFile(w)] = w]
  BY DEF Writes
<1>2. /\ worker[w].plan \in Plans /\ ~Terminal
  BY <1>1 DEF TaskInv, WorkerInv, Working
<1>3. worker[w].done \in Nat /\ file \in [Files -> Workers \cup {Nil}]
  BY DEF TaskInv, Typed, WorkerType
<1>4. worker[w].done + 1 \in 1..Len(worker[w].plan)
  BY <1>1, <1>2, <1>3, PlanShape
<1>5. /\ NextFile(w) \in Files
      /\ NextFile(w) \in Sentinels <=> worker[w].done + 1 = Len(worker[w].plan)
  BY <1>2, <1>4, PlanShape DEF NextFile
<1>6. decided = Nil
  BY <1>2 DEF TaskInv, FileInv
<1> QED BY <1>1, <1>2, <1>3, <1>5, <1>6

LEMMA WritesKeeps ==
    ASSUME TaskInv, NEW w \in Workers, Writes(w)
    PROVE  TaskInv'
<1> DEFINE f == NextFile(w)
           r == [worker[w] EXCEPT !.done = @ + 1]
<1>1. /\ worker[w].plan \in Plans /\ worker[w].done \in Nat
      /\ worker[w].done < Len(worker[w].plan) /\ ~Terminal /\ decided = Nil
      /\ f \in Files
      /\ f \in Sentinels <=> worker[w].done + 1 = Len(worker[w].plan)
      /\ file' = [file EXCEPT ![f] = w]
      /\ file'[f] = w
      /\ \A g \in Files \ {f} : file'[g] = file[g]
  BY WritesIs
<1>2. /\ worker[w].step = "write" /\ worker' = [worker EXCEPT ![w] = r]
      /\ decided' = IF decided = Nil /\ f \in Sentinels THEN now ELSE decided
      /\ UNCHANGED <<now, lock, watcher>> /\ lock = w
  BY DEF Writes, TaskInv, WorkerInv, Working
<1>3. f = worker[w].plan[worker[w].done + 1]
  BY DEF NextFile
<1>4. worker[w] \in WorkerType
  BY DEF TaskInv, Typed
<1>5. r \in WorkerType /\ r.step = "write" /\ r.plan = worker[w].plan /\ r.done = worker[w].done + 1
  BY <1>1, <1>2, <1>4 DEF WorkerType
<1> HIDE DEF f, r
<1>6. /\ worker' \in [Workers -> WorkerType]
      /\ worker'[w] = r
      /\ \A u \in Workers \ {w} : worker'[u] = worker[u]
  BY <1>2, <1>5, WorkerMoves
<1>7. Typed'
  <2>1. file' \in [Files -> Workers \cup {Nil}]
    BY <1>1 DEF TaskInv, Typed
  <2>2. decided' \in Nat \cup {Nil} /\ now' \in 0..(MaxTime + Poll)
    BY <1>2 DEF TaskInv, Typed
  <2> QED BY <1>2, <1>6, <2>1, <2>2 DEF TaskInv, Typed
<1>8. /\ \A s \in Sentinels : Exists(s)' <=> s = f
      /\ Terminal' <=> f \in Sentinels
  <2>1. \A s \in Sentinels : s \in Files /\ file[s] = Nil
    BY <1>1 DEF Terminal, Exists, Sentinels, Files
  <2>2. \A s \in Sentinels : Exists(s)' <=> s = f
    BY <1>1, <2>1, NilIs DEF Exists
  <2> QED BY <2>2 DEF Terminal, Sentinels
<1>9. \A i \in 1..r.done : file'[r.plan[i]] = w
  <2> TAKE i \in 1..r.done
  <2>1. CASE i = worker[w].done + 1
    BY <1>1, <1>3, <1>5, <2>1
  <2>2. CASE i # worker[w].done + 1
    <3>1. i \in 1..worker[w].done
      BY <1>1, <1>5, <2>2
    <3>2. file[r.plan[i]] = w
      BY <1>2, <1>5, <3>1 DEF TaskInv, WorkerInv, Working
    <3>3. r.plan[i] \in Files
      BY <1>1, <1>5, <3>1, PlanShape
    <3> QED BY <1>1, <3>2, <3>3
  <2> QED BY <2>1, <2>2
<1>10. ASSUME NEW u \in Workers PROVE Working(u)'
  <2>1. CASE u = w
    <3>1. r.done <= Len(r.plan) /\ (r.done < Len(r.plan) => f \notin Sentinels)
      BY <1>1, <1>5, PlanShape
    <3> QED BY <1>1, <1>2, <1>5, <1>6, <1>8, <1>9, <2>1, <3>1 DEF Working
  <2>2. CASE u # w
    <3>1. worker'[u] = worker[u] /\ lock' = w /\ Working(u) /\ worker[u].step # "write"
      BY <1>2, <1>6, <2>2 DEF TaskInv, WorkerInv, Working
    <3> QED BY <2>2, <3>1 DEF Working
  <2> QED BY <2>1, <2>2
<1>11. FileInv'
  <2>1. ASSUME NEW g \in Files, NEW u \in Workers, file'[g] = u PROVE Wrote(u)'
    <3>1. CASE u = w
      BY <1>5, <1>6, <3>1 DEF Wrote
    <3>2. CASE u # w
      <4>1. file[g] = u
        BY <1>1, <2>1, <3>2
      <4>2. Wrote(u)
        BY <4>1 DEF TaskInv, FileInv
      <4> QED BY <1>6, <3>2, <4>2 DEF Wrote
    <3> QED BY <3>1, <3>2
  <2>2. ~(Exists("DONE") /\ Exists("ERROR"))'
    BY <1>8 DEF Sentinels
  <2>3. Terminal' <=> decided' # Nil
    BY <1>1, <1>2, <1>8, NilIs DEF TaskInv, Typed
  <2>4. decided' # Nil => decided' <= now'
    BY <1>1, <1>2 DEF TaskInv, Typed
  <2> QED BY <2>1, <2>2, <2>3, <2>4 DEF FileInv
<1>12. OutcomeWhole'
  <2> SUFFICES ASSUME NEW s \in Sentinels, Exists(s)',
                      NEW i \in DOMAIN worker'[file'[s]].plan
               PROVE  file'[worker'[file'[s]].plan[i]] = file'[s]
    BY DEF OutcomeWhole
  <2>1. s = f /\ file'[s] = w
    BY <1>1, <1>8
  <2>2. r.done = Len(r.plan) /\ DOMAIN r.plan = 1..Len(r.plan)
    BY <1>1, <1>5, <2>1, PlanShape
  <2> QED BY <1>6, <1>9, <2>1, <2>2
<1>13. ASSUME NEW v \in Watchers PROVE Waiting(v)'
  <2>1. Waiting(v) /\ watcher' = watcher /\ now' = now /\ decided' \in {Nil, now}
    BY <1>1, <1>2 DEF TaskInv, WatcherInv
  <2>2. watcher[v] \in WatcherType /\ now \in Nat
    BY DEF TaskInv, Typed
  <2>3. decided' # Nil => decided' = now
    BY <2>1
  <2>4. watcher[v].next \in Nat /\ watcher[v].until \in Nat
    BY <2>2 DEF WatcherType
  <2> QED BY <2>1, <2>2, <2>3, <2>4, NilIs DEF Waiting
<1> QED BY <1>7, <1>10, <1>11, <1>12, <1>13 DEF TaskInv, WorkerInv, WatcherInv

(* A watcher's step, and the clock's.                                      *)
LEMMA WatcherMoves ==
    ASSUME TaskInv, UNCHANGED <<now, file, lock, worker, decided>>,
           NEW v \in Watchers, NEW r \in WatcherType, watcher' = [watcher EXCEPT ![v] = r],
           r.next <= r.until + Poll,
           r.answer = Nil <=> r.step # "over",
           r.step = "wait" => /\ now <= r.next /\ r.next <= now + Poll
                              /\ r.next >= r.until /\ decided # Nil => decided + Poll >= r.next,
           r.answer = "timeout" => /\ r.until <= now
                                   /\ decided # Nil => decided + Poll >= r.until
    PROVE  TaskInv'
<1>1. /\ watcher' \in [Watchers -> WatcherType] /\ watcher'[v] = r
      /\ \A u \in Watchers \ {v} : watcher'[u] = watcher[u]
  BY DEF TaskInv, Typed
<1>2. Typed'
  BY <1>1 DEF TaskInv, Typed
<1>3. WorkerInv' /\ FileInv' /\ OutcomeWhole'
  BY DEF TaskInv, WorkerInv, Working, FileInv, OutcomeWhole, Terminal, Exists, Wrote
<1>4. ASSUME NEW u \in Watchers PROVE Waiting(u)'
  <2>1. CASE u = v
    BY <1>1, <2>1 DEF Waiting
  <2>2. CASE u # v
    <3>1. Waiting(u) /\ watcher'[u] = watcher[u]
      BY <1>1, <2>2 DEF TaskInv, WatcherInv
    <3> QED BY <3>1 DEF Waiting
  <2> QED BY <2>1, <2>2
<1> QED BY <1>2, <1>3, <1>4 DEF TaskInv, WatcherInv

LEMMA WatcherIs ==
    ASSUME TaskInv, NEW v \in Watchers
    PROVE  /\ watcher[v] \in WatcherType /\ Waiting(v)
           /\ watcher[v].until \in Nat /\ watcher[v].next \in Nat
           /\ now \in Nat /\ decided \in Nat \cup {Nil}
  BY DEF TaskInv, Typed, WatcherInv, WatcherType

LEMMA WaitsKeeps ==
    ASSUME TaskInv, NEW v \in Watchers, Waits(v)
    PROVE  TaskInv'
<1> DEFINE r == [step |-> "wait", until |-> now + Timeout, next |-> now, answer |-> Nil]
<1>1. watcher' = [watcher EXCEPT ![v] = r] /\ UNCHANGED <<now, file, lock, worker, decided>>
  BY DEF Waits
<1>2. r \in WatcherType /\ r.step = "wait" /\ r.until = now + Timeout /\ r.next = now
      /\ r.answer = Nil
  BY WatcherIs, NilIs DEF WatcherType
<1> HIDE DEF r
<1>3. r.answer # "timeout"
  BY <1>2, NilIs
<1>4. r.next <= r.until + Poll /\ ~(r.next >= r.until) /\ r.next <= now + Poll /\ now <= r.next
  BY <1>2, WatcherIs, NilIs
<1> QED BY <1>1, <1>2, <1>3, <1>4, WatcherMoves

LEMMA ToldIs ==
    ASSUME TaskInv, NEW v \in Watchers, NEW a \in {"done", "error", "timeout"}, Told(v, a)
    PROVE  \E r \in WatcherType :
              /\ watcher' = [watcher EXCEPT ![v] = r]
              /\ r.step = "over" /\ r.answer = a
              /\ r.until = watcher[v].until /\ r.next = watcher[v].next
<1> DEFINE r == [[watcher[v] EXCEPT !.step = "over"] EXCEPT !.answer = a]
<1>1. watcher \in [Watchers -> WatcherType]
  BY DEF TaskInv, Typed
<1>2. /\ r \in WatcherType /\ r.step = "over" /\ r.answer = a
      /\ r.until = watcher[v].until /\ r.next = watcher[v].next
  BY <1>1 DEF WatcherType
<1>3. watcher' = [watcher EXCEPT ![v] = r]
  BY <1>1 DEF Told, WatcherType
<1> HIDE DEF r
<1> QED BY <1>2, <1>3

LEMMA LooksIs ==
    ASSUME TaskInv, NEW v \in Watchers, Looks(v)
    PROVE  \/ /\ \/ Told(v, "done") /\ Exists("DONE")
                 \/ Told(v, "error") /\ Exists("ERROR") /\ ~Exists("DONE")
              /\ Terminal
           \/ watcher' = Asleep(v) /\ ~Terminal
  BY DEF Looks, TaskInv, FileInv, Terminal

LEMMA LooksKeeps ==
    ASSUME TaskInv, NEW v \in Watchers, Looks(v)
    PROVE  TaskInv'
<1>1. /\ UNCHANGED <<now, file, lock, worker, decided>>
      /\ watcher[v].step = "wait" /\ now >= watcher[v].next /\ now < watcher[v].until
  BY DEF Looks, Due
<1>2. ASSUME NEW a \in {"done", "error"}, Told(v, a) PROVE TaskInv'
  <2>1. PICK r \in WatcherType :
              /\ watcher' = [watcher EXCEPT ![v] = r]
              /\ r.step = "over" /\ r.answer = a
              /\ r.until = watcher[v].until /\ r.next = watcher[v].next
    BY <1>2, ToldIs
  <2>2. r.next <= r.until + Poll /\ r.answer # Nil /\ r.answer # "timeout"
    BY <2>1, WatcherIs, NilIs DEF Waiting
  <2> QED BY <1>1, <2>1, <2>2, WatcherMoves
<1>3. CASE watcher' = Asleep(v) /\ ~Terminal
  <2> DEFINE r == [watcher[v] EXCEPT !.next = now + Poll]
  <2>1. /\ r \in WatcherType /\ r.step = "wait" /\ r.next = now + Poll
        /\ r.until = watcher[v].until /\ r.answer = watcher[v].answer
    BY <1>1, WatcherIs, NilIs DEF WatcherType
  <2>2. watcher' = [watcher EXCEPT ![v] = r]
    BY <1>3 DEF Asleep
  <2> HIDE DEF r
  <2>3. decided = Nil
    BY <1>3 DEF TaskInv, FileInv
  <2>4. watcher[v].answer = Nil
    BY <1>1, WatcherIs DEF Waiting
  <2>5. r.answer # "timeout" /\ (r.answer = Nil <=> r.step # "over")
    BY <2>1, <2>4, NilIs
  <2>6. /\ now \in Nat /\ Poll \in Nat /\ watcher[v].until \in Nat
    BY WatcherIs, NilIs DEF TaskInv, Typed
  <2>7. /\ r.next <= r.until + Poll /\ now <= r.next /\ r.next <= now + Poll
    BY <1>1, <2>1, <2>6
  <2>8. r.step = "wait" => /\ now <= r.next /\ r.next <= now + Poll
                           /\ r.next >= r.until /\ decided # Nil => decided + Poll >= r.next
    BY <2>3, <2>7
  <2> QED BY <1>1, <2>1, <2>2, <2>5, <2>7, <2>8, WatcherMoves
<1> QED BY <1>2, <1>3, LooksIs

LEMMA GivesUpKeeps ==
    ASSUME TaskInv, NEW v \in Watchers, GivesUp(v)
    PROVE  TaskInv'
<1>1. /\ UNCHANGED <<now, file, lock, worker, decided>> /\ Told(v, "timeout")
      /\ watcher[v].step = "wait" /\ now >= watcher[v].next /\ now >= watcher[v].until
  BY DEF GivesUp, Due
<1>2. PICK r \in WatcherType :
            /\ watcher' = [watcher EXCEPT ![v] = r]
            /\ r.step = "over" /\ r.answer = "timeout"
            /\ r.until = watcher[v].until /\ r.next = watcher[v].next
  BY <1>1, ToldIs
<1>3. now = watcher[v].next
  BY <1>1, WatcherIs DEF Waiting
<1>4. decided # Nil => decided + Poll >= watcher[v].until
  BY <1>1, <1>3, WatcherIs, NilIs DEF Waiting
<1>5. r.next <= r.until + Poll /\ r.answer # Nil
  BY <1>2, WatcherIs, NilIs DEF Waiting
<1> QED BY <1>1, <1>2, <1>4, <1>5, WatcherMoves

LEMMA TickKeeps ==
    ASSUME TaskInv, Tick
    PROVE  TaskInv'
<1>1. /\ now < MaxTime + Poll /\ now' = now + 1 /\ \A v \in Watchers : ~Due(v)
      /\ UNCHANGED <<file, lock, worker, watcher, decided>>
  BY DEF Tick
<1>2. now \in Nat /\ decided \in Nat \cup {Nil}
  BY DEF TaskInv, Typed
<1>3. Typed'
  BY <1>1, <1>2, NilIs DEF TaskInv, Typed
<1>4. WorkerInv' /\ OutcomeWhole'
  BY <1>1 DEF TaskInv, WorkerInv, Working, OutcomeWhole, Terminal, Exists
<1>5. FileInv'
  <2>1. decided # Nil => decided <= now
    BY DEF TaskInv, FileInv
  <2>2. decided' # Nil => decided' <= now'
    BY <1>1, <1>2, <2>1
  <2> QED BY <1>1, <2>2 DEF TaskInv, FileInv, Terminal, Exists, Wrote
<1>6. ASSUME NEW v \in Watchers PROVE Waiting(v)'
  <2>1. Waiting(v) /\ watcher[v] \in WatcherType /\ ~Due(v)
        /\ watcher[v].until \in Nat /\ watcher[v].next \in Nat
    BY <1>1, WatcherIs
  <2>2. watcher[v].step = "wait" => now + 1 <= watcher[v].next
    BY <1>2, <2>1 DEF Due
  <2> QED BY <1>1, <1>2, <2>1, <2>2, NilIs DEF Waiting
<1> QED BY <1>3, <1>4, <1>5, <1>6 DEF TaskInv, WatcherInv

LEMMA TaskStep ==
    ASSUME TaskInv, [DelegateNext]_vars
    PROVE  TaskInv'
<1>1. CASE UNCHANGED vars
  BY <1>1 DEF vars, TaskInv, Typed, WorkerInv, Working, FileInv, OutcomeWhole, WatcherInv, Waiting,
     Terminal, Exists, Wrote
<1>2. CASE DelegateNext
  BY <1>2, PublishesKeeps, LocksKeeps, WritesKeeps, UnlocksKeeps, DiesKeeps, WaitsKeeps,
     LooksKeeps, GivesUpKeeps, TickKeeps DEF DelegateNext, WorkerStep
<1> QED BY <1>1, <1>2

-----------------------------------------------------------------------------
(* The theorems.                                                           *)

(* The invariant of the directory, its workers and its watchers.           *)
THEOREM TaskInvariant == DelegateSpec => []TaskInv
<1>1. DelegateInit => TaskInv
  BY InitHolds
<1>2. TaskInv /\ [DelegateNext]_vars => TaskInv'
  BY TaskStep
<1> QED BY <1>1, <1>2, PTL DEF DelegateSpec

(* The clock, the files, the lock, the workers and the watchers have their *)
(* types; the lock is held by whoever writes and by nobody else, and no    *)
(* watcher is ever told of a conflict (_terminal_lock, wait_for_completion *)
(* and its TerminalStateConflict).                                         *)
THEOREM DelegateTypes == DelegateSpec => []DelegateTypeOK
<1>1. TaskInv => DelegateTypeOK
  <2> SUFFICES ASSUME TaskInv PROVE DelegateTypeOK
    OBVIOUS
  <2>1. \A w \in Workers : /\ worker[w].step \in Steps
                           /\ worker[w].plan \in Plans \cup {<<>>}
                           /\ lock = w <=> worker[w].step = "write"
    BY DEF TaskInv, Typed, WorkerType, WorkerInv, Working
  <2>2. \A v \in Watchers : /\ watcher[v].step \in {"idle", "wait", "over"}
                            /\ watcher[v].next <= watcher[v].until + Poll
                            /\ watcher[v].answer \in {Nil, "done", "error", "timeout"}
    BY WatcherIs DEF WatcherType, Waiting
  <2> QED BY <2>1, <2>2 DEF TaskInv, Typed, DelegateTypeOK, Steps, Files
<1> QED BY <1>1, TaskInvariant, PTL

(* Whoever reads a sentinel finds every artifact of that publication as    *)
(* its writer wrote it, however many workers ran the task and wherever     *)
(* they died (publish_success and publish_error).                          *)
THEOREM OutcomeIsWhole == DelegateSpec => []OutcomeWhole
<1>1. TaskInv => OutcomeWhole
  BY DEF TaskInv
<1> QED BY <1>1, TaskInvariant, PTL

(* A watcher that timed out did not oversleep an outcome by more than one  *)
(* poll (wait_for_completion).                                             *)
THEOREM TimeoutIsHonest == DelegateSpec => []TimeoutHonest
<1>1. TaskInv => TimeoutHonest
  BY DEF TaskInv, WatcherInv, Waiting, TimeoutHonest
<1> QED BY <1>1, TaskInvariant, PTL

(* A directory with a sentinel is final: the lock and the look at the      *)
(* status under it stop every later writer (TerminalStateError).           *)
THEOREM TerminalIsFrozen == DelegateSpec => TerminalFrozen
<1>1. TaskInv /\ [DelegateNext]_vars => [Terminal => UNCHANGED file]_vars
  <2> SUFFICES ASSUME TaskInv, DelegateNext, Terminal PROVE UNCHANGED file
    BY DEF vars
  <2>1. ASSUME NEW w \in Workers PROVE ~Writes(w)
    BY WritesIs
  <2>2. ASSUME NEW w \in Workers, WorkerStep(w) \/ Dies(w) PROVE UNCHANGED file
    BY <2>1, <2>2 DEF WorkerStep, Publishes, Locks, Unlocks, Dies
  <2>3. ASSUME NEW v \in Watchers, Waits(v) \/ Looks(v) \/ GivesUp(v) PROVE UNCHANGED file
    BY <2>3 DEF Waits, Looks, GivesUp
  <2> QED BY <2>2, <2>3 DEF DelegateNext, Tick
<1> QED BY <1>1, TaskInvariant, PTL DEF DelegateSpec, TerminalFrozen

-----------------------------------------------------------------------------
(* The directory implements the one-shot outcome.                          *)

Outcome0 ==
    IF Exists("DONE") THEN [kind |-> "done", by |-> file["DONE"]]
    ELSE IF Exists("ERROR") THEN [kind |-> "error", by |-> file["ERROR"]]
    ELSE Nil

Answer0 == [v \in Watchers |-> watcher[v].answer]

LEMMA OutcomeKept ==
    ASSUME UNCHANGED file
    PROVE  Outcome0' = Outcome0
  BY DEF Outcome0, Exists

LEMMA OutcomeIs ==
    ASSUME TaskInv, Terminal
    PROVE  /\ Outcome0 # Nil
           /\ Exists("DONE") => Outcome0.kind = "done"
           /\ ~Exists("DONE") => Outcome0.kind = "error"
<1>1. file["DONE"] \in Workers \cup {Nil} /\ file["ERROR"] \in Workers \cup {Nil}
  BY DEF TaskInv, Typed, Files, Sentinels
<1>2. Outcome0 \in [kind : {"done", "error"}, by : Workers]
  BY <1>1 DEF Outcome0, Terminal, Exists
<1>3. /\ Exists("DONE") => Outcome0.kind = "done"
      /\ ~Exists("DONE") => Outcome0.kind = "error"
  BY DEF Outcome0, Terminal
<1> QED BY <1>2, <1>3, DelegateAssumption

LEMMA WriteDecides ==
    ASSUME TaskInv, NEW w \in Workers, Writes(w)
    PROVE  \/ Outcome0' = Outcome0
           \/ /\ Outcome0 = Nil
              /\ Outcome0' \in [kind : {"done", "error"}, by : Workers]
<1>1. /\ NextFile(w) \in Files /\ ~Terminal
      /\ file'[NextFile(w)] = w
      /\ \A g \in Files \ {NextFile(w)} : file'[g] = file[g]
  BY WritesIs
<1>2. /\ "DONE" \in Files /\ "ERROR" \in Files /\ file["DONE"] = Nil /\ file["ERROR"] = Nil
  BY <1>1 DEF Files, Sentinels, Terminal, Exists
<1>3. Outcome0 = Nil
  BY <1>2 DEF Outcome0, Exists
<1>4. CASE NextFile(w) = "DONE"
  <2>1. Outcome0' = [kind |-> "done", by |-> w]
    BY <1>1, <1>4, NilIs DEF Outcome0, Exists
  <2> QED BY <1>3, <2>1
<1>5. CASE NextFile(w) = "ERROR"
  <2>1. Outcome0' = [kind |-> "error", by |-> w]
    BY <1>1, <1>2, <1>5, NilIs DEF Outcome0, Exists
  <2> QED BY <1>3, <2>1
<1>6. CASE NextFile(w) \notin {"DONE", "ERROR"}
  <2>1. file'["DONE"] = Nil /\ file'["ERROR"] = Nil
    BY <1>1, <1>2, <1>6
  <2>2. Outcome0' = Nil
    BY <2>1 DEF Outcome0, Exists
  <2> QED BY <1>3, <2>2
<1> QED BY <1>4, <1>5, <1>6

LEMMA WatcherTold ==
    ASSUME TaskInv, NEW v \in Watchers, watcher[v].step = "wait",
           NEW a \in {"done", "error", "timeout"}, Told(v, a)
    PROVE  Answer0[v] = Nil /\ Answer0' = [Answer0 EXCEPT ![v] = a]
<1>1. watcher[v].answer = Nil
  BY WatcherIs DEF Waiting
<1>2. PICK r \in WatcherType : watcher' = [watcher EXCEPT ![v] = r] /\ r.answer = a
  BY ToldIs
<1>3. watcher \in [Watchers -> WatcherType]
  BY DEF TaskInv, Typed
<1> QED BY <1>1, <1>2, <1>3 DEF Answer0

LEMMA WatcherNotTold ==
    ASSUME TaskInv, NEW v \in Watchers, NEW r, watcher' = [watcher EXCEPT ![v] = r],
           r.answer = watcher[v].answer
    PROVE  Answer0' = Answer0
<1>1. watcher \in [Watchers -> WatcherType]
  BY DEF TaskInv, Typed
<1> QED BY <1>1 DEF Answer0

LEMMA OutcomeStep ==
    ASSUME TaskInv, [DelegateNext]_vars
    PROVE  [Outcome!Next]_<<Outcome0, Answer0>>
<1>1. ASSUME UNCHANGED watcher PROVE Answer0' = Answer0
  BY <1>1 DEF Answer0
<1>2. ASSUME NEW w \in Workers, WorkerStep(w) \/ Dies(w)
      PROVE  [Outcome!Next]_<<Outcome0, Answer0>>
  <2>1. UNCHANGED watcher
    BY <1>2 DEF WorkerStep, Publishes, Locks, Writes, Unlocks, Dies
  <2>2. CASE Writes(w)
    BY <1>1, <2>1, <2>2, WriteDecides DEF Outcome!Next, Outcome!Decide, Outcome0, Answer0
  <2>3. CASE ~Writes(w)
    <3>1. UNCHANGED file
      BY <1>2, <2>3 DEF WorkerStep, Publishes, Locks, Unlocks, Dies
    <3> QED BY <1>1, <2>1, <3>1, OutcomeKept
  <2> QED BY <2>2, <2>3
<1>3. ASSUME NEW v \in Watchers, Waits(v) \/ Looks(v) \/ GivesUp(v)
      PROVE  [Outcome!Next]_<<Outcome0, Answer0>>
  <2>1. Outcome0' = Outcome0
    BY <1>3, OutcomeKept DEF Waits, Looks, GivesUp
  <2>2. ASSUME NEW a \in {"done", "error", "timeout"}, watcher[v].step = "wait", Told(v, a),
               a = "timeout" \/ (Outcome0 # Nil /\ a = Outcome0.kind)
        PROVE  [Outcome!Next]_<<Outcome0, Answer0>>
    <3>1. Answer0[v] = Nil /\ Answer0' = [Answer0 EXCEPT ![v] = a]
      BY <2>2, WatcherTold
    <3>2. Outcome!Tell(v, a)
      BY <2>1, <2>2, <3>1 DEF Outcome!Tell, Outcome0, Answer0
    <3> QED BY <3>2 DEF Outcome!Next
  <2>3. CASE Waits(v)
    <3> DEFINE r == [step |-> "wait", until |-> now + Timeout, next |-> now, answer |-> Nil]
    <3>1. watcher' = [watcher EXCEPT ![v] = r] /\ r.answer = watcher[v].answer
      BY <2>3, WatcherIs DEF Waits, Waiting
    <3> HIDE DEF r
    <3> QED BY <2>1, <3>1, WatcherNotTold
  <2>4. CASE Looks(v)
    <3>1. watcher[v].step = "wait"
      BY <2>4 DEF Looks, Due
    <3>2. CASE Told(v, "done") /\ Exists("DONE") /\ Terminal
      BY <2>2, <3>1, <3>2, OutcomeIs
    <3>3. CASE Told(v, "error") /\ Exists("ERROR") /\ ~Exists("DONE") /\ Terminal
      BY <2>2, <3>1, <3>3, OutcomeIs
    <3>4. CASE watcher' = Asleep(v)
      <4> DEFINE r == [watcher[v] EXCEPT !.next = now + Poll]
      <4>1. watcher' = [watcher EXCEPT ![v] = r] /\ r.answer = watcher[v].answer
        BY <3>4, WatcherIs DEF Asleep, WatcherType
      <4> HIDE DEF r
      <4> QED BY <2>1, <4>1, WatcherNotTold
    <3> QED BY <2>4, <3>2, <3>3, <3>4, LooksIs
  <2>5. CASE GivesUp(v)
    BY <2>2, <2>5 DEF GivesUp, Due
  <2> QED BY <1>3, <2>3, <2>4, <2>5
<1>4. CASE Tick
  BY <1>1, <1>4, OutcomeKept DEF Tick
<1>5. CASE UNCHANGED vars
  BY <1>1, <1>5, OutcomeKept DEF vars
<1> QED BY <1>2, <1>3, <1>4, <1>5 DEF DelegateNext

LEMMA OutcomeStart ==
    ASSUME DelegateInit
    PROVE  Outcome!Init
<1>1. file["DONE"] = Nil /\ file["ERROR"] = Nil
  BY DEF DelegateInit, Sentinels
<1>2. ~Exists("DONE") /\ ~Exists("ERROR")
  BY <1>1 DEF Exists
<1>3. [v \in Watchers |-> watcher[v].answer] = [v \in Watchers |-> Nil]
  BY DEF DelegateInit
<1> QED BY <1>2, <1>3 DEF Outcome!Init

(* One outcome, decided once, and told to whoever asks: the directory      *)
(* implements what it promises the parties around a task.                  *)
THEOREM TaskImplementsOutcome == DelegateSpec => OutcomeSpec
<1>1. DelegateInit => Outcome!Init
  BY OutcomeStart
<1>2. TaskInv /\ [DelegateNext]_vars => [Outcome!Next]_<<Outcome0, Answer0>>
  BY OutcomeStep
<1> QED BY <1>1, <1>2, TaskInvariant, PTL
        DEF DelegateSpec, OutcomeSpec, Outcome!Spec, Outcome0, Answer0
=============================================================================
