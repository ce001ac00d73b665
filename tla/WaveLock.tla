------------------------------ MODULE WaveLock ------------------------------
(***************************************************************************)
(* The advisory lock around the staging phase of a wave (repo_lock.py and  *)
(* its command line wave_lock.py): one JSON file that is read, decided     *)
(* upon, and then written or removed.                                      *)
(*                                                                         *)
(* A session is a long-lived orchestrator; each of its commands is a       *)
(* process of its own, which the recorded pid may be (it is the default)   *)
(* unless the session names itself with --pid.  Writing the file is first  *)
(* truncating it: a file without content reads as no lock.                 *)
(***************************************************************************)
EXTENDS Naturals, FiniteSets

CONSTANTS
    Sessions,    \* session ids, each of one orchestrator process
    Named,       \* those that pass their own pid with --pid
    MaxUses,     \* bound on how often a session acquires or releases
    Nil

(* What the lock file says.                                                *)
LockRecord == [session : Sessions, pid : [command : BOOLEAN, of : Sessions]]

ASSUME WaveAssumption ==
    /\ Named \subseteq Sessions
    /\ MaxUses \in Nat
    /\ Nil \notin Sessions \cup LockRecord

VARIABLES
    lock,        \* the file: Nil if there is none, or a record
    session,     \* where each session is
    overlapped   \* an acquire has overlapped another, or the release of a
                 \* session that is not named (history)

vars == <<lock, session, overlapped>>

Torn == [session |-> Nil, pid |-> Nil]

(* _read_lock: no file and half a file are the same to a reader.           *)
Held == lock # Nil /\ lock # Torn

-----------------------------------------------------------------------------

WaveInit ==
    /\ lock = Nil
    /\ session = [s \in Sessions |->
                     [step |-> "idle", holds |-> FALSE, uses |-> 0]]
    /\ overlapped = FALSE

At(s, step) == session[s].step = step

Moves(s, step) == session' = [session EXCEPT ![s].step = step]

Alive(s) == ~At(s, "dead")

(* _pid_alive: the orchestrator's pid, or that of the acquire command,     *)
(* which ends once it has written the file.                                *)
PidAlive(pid) ==
    IF pid.command THEN At(pid.of, "exit") ELSE Alive(pid.of)

Acquiring(s) == session[s].step \in {"truncate", "write", "exit"}

(* A release of a session whose recorded pid is dead: the record it is     *)
(* about to remove may be reclaimed under its hands.                       *)
Leaving(s) == At(s, "unlink") /\ s \notin Named

Free(s) == Held => lock.session = s \/ ~PidAlive(lock.pid)

(* acquire(), up to the decision; a refused one raises WaveLockError.      *)
Acquires(s) ==
    /\ At(s, "idle")
    /\ session[s].uses < MaxUses
    /\ Free(s)
    /\ session' = [session EXCEPT ![s].step = "truncate", ![s].uses = @ + 1]
    /\ overlapped' = (overlapped \/ \E t \in Sessions \ {s} : Acquiring(t) \/ Leaving(t))
    /\ UNCHANGED lock

Truncates(s) ==
    /\ At(s, "truncate")
    /\ lock' = Torn
    /\ Moves(s, "write")
    /\ UNCHANGED overlapped

Writes(s) ==
    /\ At(s, "write")
    /\ lock' = [session |-> s, pid |-> [command |-> s \notin Named, of |-> s]]
    /\ Moves(s, "exit")
    /\ UNCHANGED overlapped

(* The acquire command ends and the session goes on to merge and promote.  *)
Exits(s) ==
    /\ At(s, "exit")
    /\ session' = [session EXCEPT ![s].step = "idle", ![s].holds = TRUE]
    /\ UNCHANGED <<lock, overlapped>>

(* Mutant: anyone may release.                                             *)
MayReleaseAny(s) == Held

MayRelease(s) == Held /\ lock.session = s

(* release(), up to unlink(); without a lock it answers FALSE, and another *)
(* session's is refused.  A session calls it when it is done.              *)
Releases(s) ==
    /\ At(s, "idle")
    /\ session[s].uses < MaxUses
    /\ session' = [session EXCEPT ![s].step = IF MayRelease(s) THEN "unlink" ELSE @,
                                  ![s].holds = FALSE, ![s].uses = @ + 1]
    /\ overlapped' = (overlapped \/ /\ MayRelease(s) /\ s \notin Named
                                    /\ \E t \in Sessions : Acquiring(t))
    /\ UNCHANGED lock

Unlinks(s) ==
    /\ At(s, "unlink")
    /\ lock' = Nil
    /\ Moves(s, "idle")
    /\ UNCHANGED overlapped

Dies(s) ==
    /\ Alive(s)
    /\ session' = [session EXCEPT ![s].step = "dead", ![s].holds = FALSE]
    /\ UNCHANGED <<lock, overlapped>>

WaveNext ==
    \E s \in Sessions :
        \/ Acquires(s) \/ Truncates(s) \/ Writes(s) \/ Exits(s)
        \/ Releases(s) \/ Unlinks(s) \/ Dies(s)

WaveSpec == WaveInit /\ [][WaveNext]_vars

-----------------------------------------------------------------------------

Holders == {s \in Sessions : session[s].holds}

WaveTypeOK ==
    /\ lock \in {Nil, Torn} \cup LockRecord
    /\ session \in [Sessions ->
          [step : {"idle", "truncate", "write", "exit", "unlink", "dead"},
           holds : BOOLEAN, uses : 0..MaxUses]]
    /\ overlapped \in BOOLEAN

(* Of the sessions that pass their own pid, two are in the staging phase   *)
(* at once only if an acquire has overlapped another one (the window is "a *)
(* read-then-write on one small file", acquire) or the release of a        *)
(* session without --pid: whatever is released, refused, abandoned,        *)
(* reclaimed and entered again, and whatever sessions without --pid do in  *)
(* between.                                                                *)
ExclusiveUnlessRaced == overlapped \/ Cardinality(Holders \cap Named) <= 1

(* "A second concurrent run's `acquire` fails LOUDLY" (wave_lock.py): an   *)
(* acquire that finds another session in the staging phase is refused.     *)
SecondAcquireFails ==
    [][\A s \in Sessions :
          At(s, "idle") /\ Holders \ {s} # {} => ~At(s, "truncate")']_vars
=============================================================================
