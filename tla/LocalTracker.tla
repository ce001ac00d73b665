---------------------------- MODULE LocalTracker ----------------------------
(***************************************************************************)
(* The local issue tracker (LocalBackend of tracker.py): one file per      *)
(* issue, which every call reads and writes as a whole, and one claim file *)
(* per issue, which is created exclusively.  Agents call it from processes *)
(* of their own, without a lock.                                           *)
(*                                                                         *)
(* An issue is named by a reference to its file, which has more than one   *)
(* spelling (docs/issues/0001.md, docs/issues/./0001.md): a reference is   *)
(* resolved where a file is opened, and compared as it is written where    *)
(* blockers are concerned.                                                 *)
(*                                                                         *)
(* Title, body, labels, epic and comments are left out; a comment rewrites *)
(* the file with the rest of it as it was read.  The walk along the        *)
(* blockers is one step.                                                   *)
(***************************************************************************)
EXTENDS Naturals, FiniteSets

CONSTANTS
    Agents,      \* agent_id values, a process each
    MaxIssue,    \* bound on the issue numbers
    Seeded,      \* issues that exist at the start: 1..Seeded
    MaxCalls,    \* bound on the number of calls
    Canonical,   \* how the tracker itself writes a path (_ref_for_id)
    Refs,        \* the references in use: an issue and how its path is
                 \* written
    Empty,       \* a file that has been opened for writing
    Nil

Issues == 1..MaxIssue

(* The reference of an issue in what list() and create() return.           *)
Ref(i) == <<i, Canonical>>

Issue == [state : {"open", "closed"}, assignee : Agents \cup {Nil},
          blocked_by : SUBSET Refs]

ASSUME TrackerAssumption ==
    /\ {MaxIssue, Seeded, MaxCalls} \subseteq Nat
    /\ Seeded <= MaxIssue
    /\ \A r \in Refs : r[1] \in Issues
    /\ \A i \in Issues : Ref(i) \in Refs
    /\ {Nil, ""} \cap Agents = {} /\ Nil # ""
    /\ {Nil, Empty} \cap Issue = {} /\ Nil # Empty

Fresh == [state |-> "open", assignee |-> Nil, blocked_by |-> {}]

VARIABLES
    file,        \* the issue files: a record, Empty, or Nil
    claim,       \* the claim files: Nil, "" while just created, or an agent
    call,        \* the call each agent is in, or Nil
    held,        \* what agents have claimed and not begun to give back
    calls,       \* how many calls have been made
    overlapped,  \* two calls have been under way at once (history)
    aliased      \* a link has named the issue that it blocks by another
                 \* spelling than the canonical one (history)

vars == <<file, claim, call, held, calls, overlapped, aliased>>

-----------------------------------------------------------------------------

Exists(i) == file[i] # Nil

(* _parse_frontmatter raises on an empty file.                             *)
Readable(i) == file[i] \notin {Nil, Empty}

(* _blocked_by_or_empty, for any spelling of the issue.                    *)
BlockedBy(i) == IF Readable(i) THEN file[i].blocked_by ELSE {}

(* Mutant: only the blockers of the blocker itself are looked at.          *)
WouldCycleDirect(ref, b) == ref = b \/ ref \in BlockedBy(b[1])

(* _would_cycle: the walk from the blocker comes to the reference.         *)
WouldCycle(ref, b) ==
    \A S \in SUBSET Refs :
        b \in S /\ (\A r \in S : BlockedBy(r[1]) \subseteq S) => ref \in S

Open(i) == Readable(i) /\ file[i].state = "open"

(* ready(): open issues without an open blocker, of those that are named   *)
(* as list() names them.  It raises if any file is empty.                  *)
Ready == {i \in Issues : Open(i) /\ \A b \in Issues :
                             Ref(b) \in BlockedBy(i) => ~Open(b)}

ReadyAnswers == \A i \in Issues : file[i] # Empty

-----------------------------------------------------------------------------

TrackerInit ==
    /\ file = [i \in Issues |-> IF i <= Seeded THEN Fresh ELSE Nil]
    /\ claim = [i \in Issues |-> Nil]
    /\ call = [a \in Agents |-> Nil]
    /\ held = {}
    /\ calls = 0
    /\ overlapped = FALSE
    /\ aliased = FALSE

(* A call of an idle agent; it counts, and may overlap another.            *)
Begins(a) ==
    /\ call[a] = Nil
    /\ calls < MaxCalls
    /\ calls' = calls + 1
    /\ overlapped' = (overlapped \/ \E b \in Agents : call[b] # Nil)

At(a, step) == call[a] # Nil /\ call[a].step = step

Goes(a, next) == call' = [call EXCEPT ![a] = next]

(* A change of one field, which first reads the file and then writes it.   *)
Edit(i, field, value) ==
    [step |-> "read", issue |-> i, field |-> field, value |-> value]

(* Mutant: the claim file is looked for and only later created.            *)
ClaimsLate(a, i) ==
    /\ Begins(a)
    /\ IF claim[i] = Nil
       THEN /\ Goes(a, [step |-> "name", issue |-> i])
            /\ UNCHANGED held
       ELSE /\ held' = IF claim[i] = a THEN held \cup {<<a, i>>} ELSE held
            /\ UNCHANGED call
    /\ UNCHANGED <<file, claim, aliased>>

(* claim(): O_CREAT | O_EXCL, then the name, then the assignee.  An agent  *)
(* that has the file already is told so.                                   *)
Claims(a, i) ==
    /\ Begins(a)
    /\ IF claim[i] = Nil
       THEN /\ claim' = [claim EXCEPT ![i] = ""]
            /\ Goes(a, [step |-> "name", issue |-> i])
            /\ UNCHANGED held
       ELSE /\ held' = IF claim[i] = a THEN held \cup {<<a, i>>} ELSE held
            /\ UNCHANGED <<claim, call>>
    /\ UNCHANGED <<file, aliased>>

Names(a) ==
    /\ At(a, "name")
    /\ claim' = [claim EXCEPT ![call[a].issue] = a]
    /\ held' = held \cup {<<a, call[a].issue>>}
    /\ Goes(a, Edit(call[a].issue, "assignee", a))
    /\ UNCHANGED <<file, calls, overlapped, aliased>>

(* release(), up to unlink().                                              *)
Releases(a, i) ==
    /\ Begins(a)
    /\ claim[i] = a
    /\ Goes(a, [step |-> "unlink", issue |-> i])
    /\ held' = held \ {<<a, i>>}
    /\ UNCHANGED <<file, claim, aliased>>

Unlinks(a) ==
    /\ At(a, "unlink")
    /\ claim' = [claim EXCEPT ![call[a].issue] = Nil]
    /\ Goes(a, Edit(call[a].issue, "assignee", Nil))
    /\ UNCHANGED <<file, held, calls, overlapped, aliased>>

(* comment(), set_status(), log_decision(), and update() of the fields     *)
(* that are left out: the file is written back as it was read.             *)
Comments(a, i) ==
    /\ Begins(a)
    /\ Goes(a, [step |-> "read", issue |-> i, field |-> "none", value |-> Nil])
    /\ UNCHANGED <<file, claim, held, aliased>>

(* complete(), without its comment; and update() of the state.             *)
SetsState(a, i, state) ==
    /\ Begins(a)
    /\ Goes(a, Edit(i, "state", state))
    /\ UNCHANGED <<file, claim, held, aliased>>

(* link(): the cycle is looked for, then the list is read, and then the    *)
(* file in which the longer list is put.                                   *)
Links(a, ref, b) ==
    /\ Begins(a)
    /\ ~WouldCycle(ref, b)
    /\ Goes(a, [step |-> "list", issue |-> ref[1], add |-> {b}, drop |-> {}])
    /\ aliased' = (aliased \/ ref # Ref(ref[1]))
    /\ UNCHANGED <<file, claim, held>>

UnlinksBlocker(a, i, b) ==
    /\ Begins(a)
    /\ Goes(a, [step |-> "list", issue |-> i, add |-> {}, drop |-> {b}])
    /\ UNCHANGED <<file, claim, held, aliased>>

Lists(a) ==
    /\ At(a, "list")
    /\ LET i == call[a].issue IN
       Goes(a, IF ~Readable(i) \/ (call[a].add # {} /\ call[a].add \subseteq BlockedBy(i))
               THEN Nil
               ELSE Edit(i, "blocked_by",
                         (BlockedBy(i) \ call[a].drop) \cup call[a].add))
    /\ UNCHANGED <<file, claim, held, calls, overlapped, aliased>>

(* create(): the number after the highest one.                             *)
Creates(a) ==
    /\ Begins(a)
    /\ \E i \in Issues :
          /\ \A j \in Issues : Exists(j) => j < i
          /\ i = 1 \/ Exists(i - 1)
          /\ Goes(a, [step |-> "truncate", issue |-> i, text |-> Fresh])
    /\ UNCHANGED <<file, claim, held, aliased>>

Reads(a) ==
    /\ At(a, "read")
    /\ LET c == call[a]  text == file[c.issue] IN
       Goes(a, IF ~Readable(c.issue) THEN Nil
               ELSE [step |-> "truncate", issue |-> c.issue,
                     text |-> IF c.field = "none" THEN text
                              ELSE [text EXCEPT ![c.field] = c.value]])
    /\ UNCHANGED <<file, claim, held, calls, overlapped, aliased>>

(* write_text() opens the file, which empties it, and writes what ends the *)
(* call.                                                                   *)
Truncates(a) ==
    /\ At(a, "truncate")
    /\ file' = [file EXCEPT ![call[a].issue] = Empty]
    /\ Goes(a, [call[a] EXCEPT !.step = "write"])
    /\ UNCHANGED <<claim, held, calls, overlapped, aliased>>

Writes(a) ==
    /\ At(a, "write")
    /\ file' = [file EXCEPT ![call[a].issue] = call[a].text]
    /\ Goes(a, Nil)
    /\ UNCHANGED <<claim, held, calls, overlapped, aliased>>

(* A call is killed or raises: its agent was told nothing.                 *)
Dies(a) ==
    /\ call[a] # Nil
    /\ Goes(a, Nil)
    /\ UNCHANGED <<file, claim, held, calls, overlapped, aliased>>

AgentStep(a) ==
    \/ \E i \in Issues :
          \/ Claims(a, i) \/ Releases(a, i) \/ Comments(a, i)
          \/ \E s \in {"open", "closed"} : SetsState(a, i, s)
          \/ \E b \in Refs : UnlinksBlocker(a, i, b)
    \/ \E ref, b \in Refs : Links(a, ref, b)
    \/ Creates(a)
    \/ Names(a) \/ Unlinks(a) \/ Lists(a) \/ Reads(a) \/ Truncates(a)
    \/ Writes(a) \/ Dies(a)

TrackerNext == \E a \in Agents : AgentStep(a)

TrackerSpec == TrackerInit /\ [][TrackerNext]_vars

-----------------------------------------------------------------------------

Call ==
    [step : {"name", "unlink"}, issue : Issues]
        \cup [step : {"list"}, issue : Issues, add : SUBSET Refs,
              drop : SUBSET Refs]
        \cup [step : {"truncate", "write"}, issue : Issues, text : Issue]

ReadCall(c) ==
    /\ DOMAIN c = {"step", "issue", "field", "value"}
    /\ c.step = "read" /\ c.issue \in Issues
    /\ \/ c.field = "none"
       \/ c.field = "assignee" /\ c.value \in Agents \cup {Nil}
       \/ c.field = "state" /\ c.value \in {"open", "closed"}
       \/ c.field = "blocked_by" /\ c.value \in SUBSET Refs

TrackerTypeOK ==
    /\ file \in [Issues -> Issue \cup {Empty, Nil}]
    /\ claim \in [Issues -> Agents \cup {"", Nil}]
    /\ DOMAIN call = Agents
    /\ \A a \in Agents : call[a] \in Call \cup {Nil} \/ ReadCall(call[a])
    /\ held \subseteq Agents \X Issues
    /\ calls \in 0..MaxCalls
    /\ overlapped \in BOOLEAN
    /\ aliased \in BOOLEAN

(* "Two workers racing here must not both be told they won" (claim): an    *)
(* issue has one holder, and the claim file names it, whatever calls       *)
(* overlap or die.                                                         *)
OneHolder ==
    \A h \in held : claim[h[2]] = h[1]

(* "ready() returning a silently shorter list is the failure mode this     *)
(* prevents" (_would_cycle): while an issue is open, some issue is ready,  *)
(* whatever was linked, unlinked, closed, opened again and created, under  *)
(* whatever spelling of the blocker, and whatever call died, as long as    *)
(* no two calls have ever overlapped, no link has named the issue that is  *)
(* blocked by another spelling, and no call has died while it had a file   *)
(* open for writing, after which ready() does not answer at all.           *)
NeverWedged ==
    /\ ~overlapped
    /\ ~aliased
    /\ ReadyAnswers
    /\ \E i \in Issues : Open(i)
    => Ready # {}
=============================================================================
