----------------------------- MODULE TaskBackend -----------------------------
(***************************************************************************)
(* The tracker's mcp backend (McpTaskBackend of tracker_mcp.py) with its   *)
(* state file (ServiceState of task_service.py) and the lock around the    *)
(* mirror command (mirror_lock.py).  Each call of the command line is a    *)
(* process of its own: it reads the state file once, when it starts, and   *)
(* every save writes all of what it has in memory.                         *)
(*                                                                         *)
(* The task service and its mirror command are external: a call of the     *)
(* service is one step and follows the rules the repository's fake service *)
(* states; a mirror run picks the writes not yet recorded as posted, posts *)
(* them, records them.  Texts, labels and provenance are left out: of what *)
(* a created issue waits for (pending) there is the body alone.  The mode  *)
(* and the mirror command are in the configuration of the checkout a call  *)
(* is made in, the state file is the user's: two calls need not agree.     *)
(***************************************************************************)
EXTENDS Naturals, Sequences, FiniteSets

CONSTANTS
    Tasks,      \* tasks of the service, to be created or there already
    Imported,   \* those that are there, keyed by their GitHub issue
    Agents,     \* names work is claimed for (holder)
    Callers,    \* callers of the command line, one call at a time each
    Modes,      \* what mcp.mirror may be: "strict", "best_effort"
    MayLag,     \* there may be no mcp.mirror_command
    MaxRuns,    \* bound on the runs the service gives
    MaxWrites,  \* bound on the writes the service takes
    MaxDeaths,  \* bound on how many calls die
    MaxCalls,   \* bound on the number of calls
    Nil

ASSUME BackendAssumption ==
    /\ Imported \subseteq Tasks
    /\ Modes \subseteq {"strict", "best_effort"} /\ MayLag \in BOOLEAN
    /\ {MaxRuns, MaxWrites, MaxDeaths, MaxCalls} \subseteq Nat
    /\ Nil \notin Agents \cup Callers \cup Tasks

VARIABLES
    row,         \* the service's tasks, with the live run of each (0: none)
    given,       \* how many runs the service has given
    writes,      \* what the service was told, with how often it is on GitHub
    bodies,      \* how often a draft's body was put above its issue's
    file,        \* the state file
    call,        \* the call each caller is in, or Nil
    lock,        \* who has the mirror lock, or Nil
    mirrors,     \* the mirror commands that are running
    acked,       \* writes whose call has ended without an error, and without
                 \* a word that GitHub does not show them yet (history)
    calls,       \* how many calls have been made
    deaths,      \* how many calls have died
    overlapped,  \* two calls have been under way at once (history)
    expired,     \* a lease has run out at the service (history)
    cut          \* a mirror run was cut off from its call (history)

service == <<row, given, writes>>
history == <<acked, calls, deaths, overlapped, expired, cut>>
vars == <<service, bodies, file, call, lock, mirrors, history>>

-----------------------------------------------------------------------------

WriteIds == 1..MaxWrites

Held == [id : 0..MaxRuns, holder : Agents \cup {Nil}]

(* One record of the state file: does it have the task's id, its issue,    *)
(* and a body that is still to be put there?                               *)
Key == [known : BOOLEAN, issue : BOOLEAN, pending : BOOLEAN]

State == [keys : [Tasks -> Key], runs : [Tasks -> Held \cup {Nil}]]

Verbs == {"claim", "release", "status", "complete", "comment", "create"}

BackendInit ==
    /\ \E mirrored \in SUBSET Imported :
          row = [t \in Tasks |->
                    [state |-> IF t \in Imported THEN "ready" ELSE "absent",
                     run |-> 0, issue |-> t \in mirrored]]
    /\ given = 0
    /\ writes = <<>>
    /\ bodies = [t \in Tasks |-> 0]
    /\ file = [keys |-> [t \in Tasks |-> [known |-> FALSE, issue |-> FALSE,
                                          pending |-> FALSE]],
               runs |-> [t \in Tasks |-> Nil]]
    /\ call = [c \in Callers |-> Nil]
    /\ lock = Nil
    /\ mirrors = {}
    /\ acked = {}
    /\ calls = 0
    /\ deaths = 0
    /\ overlapped = FALSE /\ expired = FALSE /\ cut = FALSE

At(c, step) == call[c] # Nil /\ call[c].at = step

Goes(c, step) == call' = [call EXCEPT ![c].at = step]

Ends(c) == call' = [call EXCEPT ![c] = Nil]

Acks(c, told) == acked' = IF told THEN acked ELSE acked \cup {call[c].wrote}

(* remember, forget, hold and drop: the change goes to the memory of the   *)
(* call and, with the rest of that memory, to the file.                    *)
Saves(c, mem, step) ==
    /\ file' = mem
    /\ call' = IF step = "end" THEN [call EXCEPT ![c] = Nil]
               ELSE [call EXCEPT ![c].mem = mem, ![c].at = step]

-----------------------------------------------------------------------------
(* A call starts: the state file is read, and the ref is resolved.  When   *)
(* the file has the task's id and its issue, it is; else a task ref is     *)
(* asked for at the service by its key, and so is the issue ref of an      *)
(* imported task, whose key is made of it (candidate_keys); for any other  *)
(* issue ref every task is looked at whose issue the file does not have.   *)

Resolving(tasks) == [look |-> tasks, at |-> "resolve"]

NoLook(step) == [look |-> {}, at |-> step]

Ways(t) ==
    IF file.keys[t].known /\ file.keys[t].issue THEN {NoLook("serve")}
    ELSE {Resolving({t})} \cup
         IF t \in Imported THEN {NoLook("adopt")}
         ELSE IF row[t].issue
              THEN {Resolving({u \in Tasks : row[u].state # "absent"
                                              /\ ~file.keys[u].issue})}
              ELSE {}

Begins(c, verb, t, agent) ==
    /\ call[c] = Nil
    /\ calls < MaxCalls
    /\ calls' = calls + 1
    /\ agent = Nil => verb \in {"complete", "comment", "create"}
    /\ verb \in {"comment", "create"} => agent = Nil
    /\ \E way \in IF verb = "create" THEN {NoLook("serve")} ELSE Ways(t) :
          call' = [call EXCEPT ![c] =
              [verb |-> verb, task |-> t, agent |-> agent, mem |-> file,
               look |-> way.look, at |-> way.at, next |-> "serve", of |-> t,
               run |-> 0, wrote |-> 0, told |-> FALSE]]
    /\ IF verb = "create"
       THEN /\ row[t].state = "absent"
            /\ \A d \in Callers : call[d] # Nil => call[d].task # t
       ELSE row[t].state # "absent"
    /\ overlapped' = (overlapped \/ \E d \in Callers \ {c} : call[d] # Nil)
    /\ UNCHANGED <<service, bodies, file, lock, mirrors, acked, deaths,
                   expired, cut>>

(* The service knows the task by its issue: no need to ask which issue it  *)
(* has, and nothing that is pending for it is looked at.                   *)
Adopts(c) ==
    /\ At(c, "adopt")
    /\ Saves(c, [call[c].mem EXCEPT !.keys[call[c].task] =
                    [@ EXCEPT !.known = TRUE, !.issue = TRUE]], "serve")
    /\ UNCHANGED <<service, bodies, lock, mirrors, history>>

After(c, look) == IF look = {} THEN call[c].next ELSE "resolve"

(* _remember, of one task that was read from the service.  An unmirrored   *)
(* task is passed over, unless it is the one that was asked for.           *)
Resolves(c) ==
    /\ At(c, "resolve")
    /\ \E u \in call[c].look :
          LET look == call[c].look \ {u}
              seen == row[u].issue
              key  == [call[c].mem.keys[u] EXCEPT !.known = TRUE,
                                                  !.issue = @ \/ seen]
              mem  == IF seen \/ u = call[c].task
                      THEN [call[c].mem EXCEPT !.keys[u] = key]
                      ELSE call[c].mem
              step == IF seen /\ key.pending THEN "body" ELSE After(c, look)
          IN  /\ file' = IF seen \/ u = call[c].task THEN mem ELSE file
              /\ call' = IF step = "end" THEN [call EXCEPT ![c] = Nil]
                         ELSE [call EXCEPT ![c].mem = mem, ![c].look = look,
                                           ![c].of = u, ![c].at = step]
              /\ Acks(c, step # "end" \/ call[c].told)
    /\ UNCHANGED <<service, bodies, lock, mirrors, deaths, overlapped,
                   calls, expired, cut>>

(* _apply_pending: the issue is written, then pending is forgotten.        *)
WithBody(t) == [bodies EXCEPT ![t] = IF @ < 2 THEN @ + 1 ELSE @]

PlacesBody(c) ==
    /\ At(c, "body")
    /\ bodies' = WithBody(call[c].of)
    /\ Goes(c, "forget")
    /\ UNCHANGED <<service, file, lock, mirrors, history>>

(* The service, or gh, answers with an error, which ends the call: gh may  *)
(* have written the body before it fails at the epic (group).              *)
Breaks(c) ==
    /\ \E step \in {"adopt", "resolve", "serve", "body"} : At(c, step)
    /\ bodies' \in IF At(c, "body") THEN {bodies, WithBody(call[c].of)} ELSE {bodies}
    /\ Ends(c)
    /\ UNCHANGED <<service, file, lock, mirrors, history>>

WithoutPending(c, u) == [call[c].mem EXCEPT !.keys[u].pending = FALSE]

Forgets(c) ==
    /\ At(c, "forget")
    /\ LET step == After(c, call[c].look) IN
       /\ Saves(c, WithoutPending(c, call[c].of), step)
       /\ Acks(c, step # "end" \/ call[c].told)
    /\ UNCHANGED <<service, bodies, lock, mirrors, deaths, overlapped,
                   calls, expired, cut>>

-----------------------------------------------------------------------------
(* What the verbs ask of the service.                                      *)

Run(c) == call[c].mem.runs[call[c].task]

Mine(c) == Run(c) # Nil /\ call[c].agent \in {Nil, Run(c).holder}

Current(c) == row[call[c].task].run = Run(c).id

(* A write: the service takes it, and what is left of the call goes on.    *)
Writes(c, step) ==
    /\ Len(writes) < MaxWrites
    /\ writes' = Append(writes, [task |-> call[c].task, create |->
                     call[c].verb = "create", posted |-> 0, recorded |-> FALSE])
    /\ call' = [call EXCEPT ![c].wrote = Len(writes) + 1, ![c].at = step]

(* claim: a run this machine holds for the agent is answered from the      *)
(* file; else the service gives one, or says that the task is not ready.   *)
Claims(c) ==
    /\ At(c, "serve") /\ call[c].verb = "claim"
    /\ LET t == call[c].task IN
       IF \/ Run(c) # Nil /\ Run(c).holder = call[c].agent
          \/ row[t].state # "ready"
       THEN Ends(c) /\ UNCHANGED <<row, given>>
       ELSE /\ given < MaxRuns
            /\ given' = given + 1
            /\ row' = [row EXCEPT ![t].state = "doing", ![t].run = given + 1]
            /\ call' = [call EXCEPT ![c].run = given + 1, ![c].at = "hold"]
    /\ UNCHANGED <<writes, bodies, file, lock, mirrors, history>>

Holds(c) ==
    /\ At(c, "hold")
    /\ Saves(c, [call[c].mem EXCEPT !.runs[call[c].task] =
                    [id |-> call[c].run, holder |-> call[c].agent]], "end")
    /\ UNCHANGED <<service, bodies, lock, mirrors, history>>

(* release: the service frees the lease, which it refuses when it is gone. *)
Releases(c) ==
    /\ At(c, "serve") /\ call[c].verb = "release"
    /\ IF Mine(c) /\ Current(c)
       THEN /\ row' = [row EXCEPT ![call[c].task].state = "ready",
                                  ![call[c].task].run = 0]
            /\ Goes(c, "drop")
       ELSE Ends(c) /\ UNCHANGED row
    /\ UNCHANGED <<given, writes, bodies, file, lock, mirrors, history>>

(* set_status and complete: from the holder of the run, as this machine    *)
(* knows it (complete without --holder: whoever that is), and only for the *)
(* run that is the task's at the service.                                  *)
SetsStatus(c) ==
    /\ At(c, "serve") /\ call[c].verb = "status"
    /\ IF Mine(c) /\ Current(c) THEN Writes(c, "mirror")
       ELSE Ends(c) /\ UNCHANGED writes
    /\ UNCHANGED <<row, given, bodies, file, lock, mirrors, history>>

Completes(c) ==
    /\ At(c, "serve") /\ call[c].verb = "complete"
    /\ IF Mine(c) /\ Current(c)
       THEN /\ Writes(c, "drop")
            /\ row' = [row EXCEPT ![call[c].task].state = "done",
                                  ![call[c].task].run = 0]
       ELSE Ends(c) /\ UNCHANGED <<row, writes>>
    /\ UNCHANGED <<given, bodies, file, lock, mirrors, history>>

(* Mutant: the run is taken out of the memory of the call alone.           *)
WithoutRunHere(c) == file

WithoutRun(c) == [call[c].mem EXCEPT !.runs[call[c].task] = Nil]

Drops(c) ==
    /\ At(c, "drop")
    /\ Saves(c, WithoutRun(c),
             IF call[c].verb = "complete" THEN "mirror" ELSE "end")
    /\ UNCHANGED <<service, bodies, lock, mirrors, history>>

(* comment, and log_decision like it: anybody's, on any task.              *)
Comments(c) ==
    /\ At(c, "serve") /\ call[c].verb = "comment"
    /\ Writes(c, "mirror")
    /\ UNCHANGED <<row, given, bodies, file, lock, mirrors, history>>

(* create: the task, then what the file notes of it.                       *)
Creates(c) ==
    /\ At(c, "serve") /\ call[c].verb = "create"
    /\ Writes(c, "note")
    /\ row' = [row EXCEPT ![call[c].task].state = "ready"]
    /\ UNCHANGED <<given, bodies, file, lock, mirrors, history>>

Notes(c) ==
    /\ At(c, "note")
    /\ Saves(c, [call[c].mem EXCEPT !.keys[call[c].task] =
                    [@ EXCEPT !.known = TRUE, !.pending = TRUE]], "mirror")
    /\ UNCHANGED <<service, bodies, lock, mirrors, history>>

-----------------------------------------------------------------------------
(* _mirrored: under the lock, the mirror command.  A created task is read  *)
(* again after it.                                                         *)

Posted(i) == writes[i].posted > 0

Unrecorded == {i \in DOMAIN writes : ~writes[i].recorded}

(* Mutant: a created task is not read again.                               *)
ProceedsUnread(c, told) == Ends(c) /\ Acks(c, told)

(* What is left of the call once its mirror run is over, or there is none. *)
Proceeds(c, told) ==
    IF call[c].verb = "create"
    THEN /\ call' = [call EXCEPT ![c].look = {call[c].task}, ![c].next = "end",
                                 ![c].at = "resolve", ![c].told = told]
         /\ UNCHANGED acked
    ELSE Ends(c) /\ Acks(c, told)

(* MirrorError ends the call under strict; else it goes on with a warning. *)
Fails(c) ==
    \/ "strict" \in Modes /\ Ends(c) /\ UNCHANGED acked
    \/ "best_effort" \in Modes /\ Proceeds(c, TRUE)

(* No mcp.mirror_command: the call goes on in either mode, with a notice   *)
(* that GitHub shows the write when the operator has run the mirror.       *)
Lags(c) ==
    /\ At(c, "mirror")
    /\ MayLag
    /\ Proceeds(c, TRUE)
    /\ UNCHANGED <<service, bodies, file, lock, mirrors, deaths, overlapped,
                   calls, expired, cut>>

(* Mutant: the lock is shared by all who ask for it.                       *)
FreeAnyway(c) == TRUE

Free(c) == lock = Nil

Locks(c) ==
    /\ At(c, "mirror")
    /\ Free(c)
    /\ lock' = c
    /\ mirrors' = mirrors \cup {[of |-> c, batch |-> Unrecorded, posted |-> FALSE]}
    /\ Goes(c, "mirroring")
    /\ UNCHANGED <<service, bodies, file, history>>

(* Mutant: somebody else is mirroring, so the write will be mirrored.      *)
TimesOutContent(c) ==
    /\ At(c, "mirror")
    /\ lock # Nil
    /\ Proceeds(c, FALSE)
    /\ UNCHANGED <<service, bodies, file, lock, mirrors, deaths, overlapped,
                   calls, expired, cut>>

(* mirror_lock_timeout_seconds have passed.                                *)
TimesOut(c) ==
    /\ At(c, "mirror")
    /\ lock # Nil
    /\ Fails(c)
    /\ UNCHANGED <<service, bodies, file, lock, mirrors, deaths, overlapped,
                   calls, expired, cut>>

(* External: the mirror command posts what it found, then records it, and  *)
(* gives the tasks their issues.                                           *)
MirrorPosts(m) ==
    /\ m \in mirrors /\ ~m.posted
    /\ writes' = [i \in DOMAIN writes |->
                     IF i \in m.batch /\ writes[i].posted < 2
                     THEN [writes[i] EXCEPT !.posted = @ + 1] ELSE writes[i]]
    /\ mirrors' = (mirrors \ {m}) \cup {[m EXCEPT !.posted = TRUE]}
    /\ UNCHANGED <<row, given, bodies, file, call, lock, history>>

MirrorRecords(m) ==
    /\ m \in mirrors /\ m.posted
    /\ writes' = [i \in DOMAIN writes |->
                     IF i \in m.batch THEN [writes[i] EXCEPT !.recorded = TRUE]
                     ELSE writes[i]]
    /\ row' = [t \in Tasks |-> [row[t] EXCEPT !.issue =
                  @ \/ \E i \in m.batch : writes[i].task = t]]
    /\ mirrors' = mirrors \ {m}
    /\ IF m.of = Nil THEN UNCHANGED <<call, lock, acked>>
       ELSE lock' = Nil /\ Proceeds(m.of, FALSE)
    /\ UNCHANGED <<given, bodies, file, deaths, overlapped, calls, expired, cut>>

(* The command fails, or is killed when mirror_timeout_seconds have passed,*)
(* which may be between what it posts and its record of that.              *)
MirrorFails(m) ==
    /\ m \in mirrors /\ m.of # Nil
    /\ mirrors' = mirrors \ {m}
    /\ lock' = Nil
    /\ Fails(m.of)
    /\ cut' = (cut \/ m.posted)
    /\ UNCHANGED <<service, bodies, file, deaths, overlapped, calls, expired>>

-----------------------------------------------------------------------------
(* A call dies.  The kernel takes back its lock; the mirror command it may *)
(* have started is a process of its own, and goes on.  A call whose answer *)
(* from the service is lost stops at the same points.                      *)
Dies(c) ==
    /\ call[c] # Nil
    /\ deaths < MaxDeaths
    /\ deaths' = deaths + 1
    /\ Ends(c)
    /\ lock' = IF lock = c THEN Nil ELSE lock
    /\ mirrors' = {IF m.of = c THEN [m EXCEPT !.of = Nil] ELSE m : m \in mirrors}
    /\ cut' = (cut \/ lock = c)
    /\ UNCHANGED <<service, bodies, file, acked, overlapped, calls, expired>>

(* External: the leases of a run were not renewed in time.                 *)
Expires(t) ==
    /\ row[t].run # 0
    /\ row' = [row EXCEPT ![t].state = "ready", ![t].run = 0]
    /\ expired' = TRUE
    /\ UNCHANGED <<given, writes, bodies, file, call, lock, mirrors, acked,
                   calls, deaths, overlapped, cut>>

CallStep(c) ==
    \/ \E verb \in Verbs, t \in Tasks, a \in Agents \cup {Nil} :
          Begins(c, verb, t, a)
    \/ Adopts(c) \/ Resolves(c) \/ PlacesBody(c) \/ Forgets(c) \/ Breaks(c)
    \/ Claims(c) \/ Holds(c) \/ Releases(c) \/ SetsStatus(c)
    \/ Completes(c) \/ Drops(c) \/ Comments(c) \/ Creates(c) \/ Notes(c)
    \/ Lags(c) \/ Locks(c) \/ TimesOut(c) \/ Dies(c)

BackendNext ==
    \/ \E c \in Callers : CallStep(c)
    \/ \E m \in mirrors : MirrorPosts(m) \/ MirrorRecords(m) \/ MirrorFails(m)
    \/ \E t \in Tasks : Expires(t)

BackendSpec == BackendInit /\ [][BackendNext]_vars

-----------------------------------------------------------------------------

Call ==
    [verb : Verbs, task : Tasks, agent : Agents \cup {Nil}, mem : State,
     look : SUBSET Tasks, of : Tasks, run : 0..MaxRuns, wrote : 0..MaxWrites,
     at : {"adopt", "resolve", "body", "forget", "serve", "hold", "drop", "note",
           "mirror", "mirroring"},
     next : {"serve", "end"}, told : BOOLEAN]

ASSUME NilIsNoCall == Nil \notin Call \cup Held

Write == [task : Tasks, create : BOOLEAN, posted : 0..2, recorded : BOOLEAN]

BackendTypeOK ==
    /\ row \in [Tasks -> [state : {"absent", "ready", "doing", "done"},
                          run : 0..MaxRuns, issue : BOOLEAN]]
    /\ given \in 0..MaxRuns
    /\ writes \in Seq(Write)
    /\ Len(writes) <= MaxWrites
    /\ bodies \in [Tasks -> 0..2]
    /\ file \in State
    /\ call \in [Callers -> Call \cup {Nil}]
    /\ lock \in Callers \cup {Nil}
    /\ mirrors \subseteq [of : Callers \cup {Nil}, batch : SUBSET WriteIds,
                          posted : BOOLEAN]
    /\ acked \subseteq 0..MaxWrites
    /\ calls \in 0..MaxCalls
    /\ deaths \in 0..MaxDeaths
    /\ overlapped \in BOOLEAN
    /\ expired \in BOOLEAN
    /\ cut \in BOOLEAN

(* What the lock is for (mirror_lock.py: "two concurrent runs for the same *)
(* repo can both post before either records"): however calls overlap, time *)
(* out and fail, nothing is on GitHub twice, as long as no mirror run was  *)
(* killed half way or left behind by a call that died.                     *)
PostedOnce == cut \/ \A i \in DOMAIN writes : writes[i].posted <= 1

(* A write whose call ended without an error, and without a word that      *)
(* GitHub does not show it yet, is on GitHub, although the mirror run that *)
(* posted it may have been another call's (tracker_mcp.py: "run the mirror *)
(* so GitHub catches up").                                                 *)
AckedIsPosted == \A i \in acked : Posted(i)

(* The body of a created issue is there when its create has ended like     *)
(* that; and calls that do not overlap put it there once, whichever of     *)
(* them die or fail in between: the issue is in the file before the body   *)
(* is put there, and a task with its issue in the file is not resolved.    *)
BodyPlaced ==
    /\ \A i \in acked : writes[i].create => bodies[writes[i].task] > 0
    /\ ~overlapped => \A t \in Tasks : bodies[t] <= 1

(* Calls that follow one another share the runs through the file           *)
(* (task_service.py: "claim in one step and complete in a later one see    *)
(* the same run"): between calls, and while no lease has run out, the file *)
(* has exactly the runs that are live at the service.  Calls that overlap  *)
(* overwrite each other's.                                                 *)
ClaimShared ==
    ~overlapped /\ deaths = 0 /\ ~expired /\ (\A c \in Callers : call[c] = Nil) =>
        \A t \in Tasks :
            IF row[t].run = 0 THEN file.runs[t] = Nil
            ELSE file.runs[t] # Nil /\ file.runs[t].id = row[t].run
=============================================================================
