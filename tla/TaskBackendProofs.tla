-------------------------- MODULE TaskBackendProofs --------------------------
(***************************************************************************)
(* What the mirror lock and the mirror promise, for any tasks, agents,     *)
(* callers, modes and bounds: nothing is posted twice unless a mirror run  *)
(* was cut off, what was acknowledged is posted, an issue created through  *)
(* the service has its body, and calls that follow each other share a run. *)
(***************************************************************************)
EXTENDS TaskBackend, SequenceTheorems, TLAPS

LEMMA CallerCalls ==
    ASSUME BackendTypeOK, NEW c \in Callers, call[c] # Nil
    PROVE  call[c] \in Call
  BY DEF BackendTypeOK

LEMMA MemKeys ==
    ASSUME NEW m \in State, NEW u \in Tasks, NEW k \in Key
    PROVE  [m EXCEPT !.keys[u] = k] \in State
  BY DEF State

LEMMA MemRuns ==
    ASSUME NEW m \in State, NEW u \in Tasks, NEW r \in Held \cup {Nil}
    PROVE  [m EXCEPT !.runs[u] = r] \in State
  BY DEF State

LEMMA WritesFunction ==
    ASSUME BackendTypeOK
    PROVE  /\ Len(writes) \in 0..MaxWrites
           /\ DOMAIN writes = 1..Len(writes)
           /\ DOMAIN writes \subseteq WriteIds
           /\ \A i \in DOMAIN writes : writes[i] \in Write
  <1>1. Len(writes) \in Nat /\ DOMAIN writes = 1..Len(writes) /\ Len(writes) <= MaxWrites
    BY DEF BackendTypeOK
  <1>2. \A i \in DOMAIN writes : writes[i] \in Write
    BY DEF BackendTypeOK
  <1>3. MaxWrites \in Nat
    BY BackendAssumption
  <1> QED BY <1>1, <1>2, <1>3 DEF WriteIds

LEMMA SameLength ==
    ASSUME BackendTypeOK, NEW s, DOMAIN s = DOMAIN writes,
           s = [i \in DOMAIN s |-> s[i]], \A i \in DOMAIN s : s[i] \in Write
    PROVE  s \in Seq(Write) /\ Len(s) = Len(writes)
  <1>1. Len(writes) \in Nat /\ DOMAIN writes = 1..Len(writes)
    BY DEF BackendTypeOK
  <1>2. s \in [1..Len(writes) -> Write]
    BY <1>1
  <1>3. s \in Seq(Write)
    BY <1>1, <1>2, SeqDef
  <1> QED BY <1>1, <1>3

(* The next step of one call.                                              *)
LEMMA GoesTypes ==
    ASSUME BackendTypeOK, NEW c \in Callers, call[c] # Nil,
           NEW x \in Call, call' = [call EXCEPT ![c] = x]
    PROVE  call' \in [Callers -> Call \cup {Nil}]
  BY DEF BackendTypeOK

LEMMA EndsTypes ==
    ASSUME BackendTypeOK, NEW c \in Callers, Ends(c)
    PROVE  /\ call' \in [Callers -> Call \cup {Nil}]
           /\ \A d \in Callers : call'[d] # Nil => call'[d] = call[d]
  BY DEF BackendTypeOK, Ends

LEMMA MovesTypes ==
    ASSUME BackendTypeOK, NEW c \in Callers, call[c] # Nil,
           NEW at \in {"adopt", "resolve", "body", "forget", "serve", "hold", "drop", "note",
                       "mirror", "mirroring"},
           Goes(c, at)
    PROVE  call' \in [Callers -> Call \cup {Nil}]
  <1>1. call[c] \in Call
    BY CallerCalls
  <1>2. [call[c] EXCEPT !.at = at] \in Call
    BY <1>1 DEF Call
  <1>3. call' = [call EXCEPT ![c] = [call[c] EXCEPT !.at = at]]
    BY DEF Goes, BackendTypeOK
  <1> QED BY <1>2, <1>3, GoesTypes

LEMMA SavesTypes ==
    ASSUME BackendTypeOK, NEW c \in Callers, call[c] # Nil, NEW mem \in State,
           NEW at \in {"adopt", "resolve", "body", "forget", "serve", "hold", "drop", "note",
                       "mirror", "mirroring", "end"},
           Saves(c, mem, at)
    PROVE  call' \in [Callers -> Call \cup {Nil}] /\ file' \in State
  <1>1. call[c] \in Call
    BY CallerCalls
  <1>2. CASE at = "end"
    BY <1>2 DEF Saves, BackendTypeOK
  <1>3. CASE at # "end"
    <2>1. [call[c] EXCEPT !.mem = mem, !.at = at] \in Call
      BY <1>1, <1>3 DEF Call
    <2>2. call' = [call EXCEPT ![c] = [call[c] EXCEPT !.mem = mem, !.at = at]]
      BY <1>3 DEF Saves, BackendTypeOK
    <2> QED BY <2>1, <2>2, GoesTypes DEF Saves
  <1> QED BY <1>2, <1>3

LEMMA WritesTypes ==
    ASSUME BackendTypeOK, NEW c \in Callers, call[c] # Nil,
           NEW at \in {"mirror", "drop", "note"}, Writes(c, at)
    PROVE  /\ call' \in [Callers -> Call \cup {Nil}]
           /\ writes' \in Seq(Write) /\ Len(writes') = Len(writes) + 1
           /\ Len(writes') <= MaxWrites
           /\ call'[c] = [call[c] EXCEPT !.wrote = Len(writes) + 1, !.at = at]
           /\ \A d \in Callers \ {c} : call'[d] = call[d]
           /\ writes'[Len(writes) + 1].posted = 0
           /\ writes'[Len(writes) + 1].recorded = FALSE
           /\ \A i \in DOMAIN writes : writes'[i] = writes[i]
  <1>1. call[c] \in Call /\ call[c].task \in Tasks
    BY CallerCalls DEF Call
  <1>2. MaxWrites \in Nat /\ Len(writes) \in Nat
    BY BackendAssumption, WritesFunction
  <1>3. Len(writes) < MaxWrites
    BY DEF Writes
  <1>4. [call[c] EXCEPT !.wrote = Len(writes) + 1, !.at = at] \in Call
    <2>1. Len(writes) + 1 \in 0..MaxWrites
      BY <1>2, <1>3
    <2> QED BY <1>1, <2>1 DEF Call
  <1>5. call' = [call EXCEPT ![c] = [call[c] EXCEPT !.wrote = Len(writes) + 1, !.at = at]]
    BY DEF Writes, BackendTypeOK
  <1>6. call' \in [Callers -> Call \cup {Nil}]
    BY <1>4, <1>5, GoesTypes
  <1> DEFINE e == [task |-> call[c].task, create |-> call[c].verb = "create",
                   posted |-> 0, recorded |-> FALSE]
  <1>7. e \in Write /\ e.posted = 0 /\ e.recorded = FALSE
    BY <1>1 DEF Write
  <1>8. writes' = Append(writes, e)
    BY DEF Writes
  <1> HIDE DEF e
  <1>9. writes \in Seq(Write)
    BY DEF BackendTypeOK
  <1>10. /\ writes' \in Seq(Write) /\ Len(writes') = Len(writes) + 1
         /\ writes'[Len(writes) + 1] = e
         /\ \A i \in 1..Len(writes) : writes'[i] = writes[i]
    BY <1>7, <1>8, <1>9, AppendProperties
  <1>11. call'[c] = [call[c] EXCEPT !.wrote = Len(writes) + 1, !.at = at]
         /\ \A d \in Callers \ {c} : call'[d] = call[d]
    BY <1>5 DEF BackendTypeOK
  <1> QED BY <1>2, <1>3, <1>6, <1>7, <1>10, <1>11, WritesFunction

-----------------------------------------------------------------------------
(* Types.                                                                  *)

LEMMA ResolvesMem ==
    ASSUME BackendTypeOK, NEW c \in Callers, call[c] # Nil, NEW u \in Tasks, NEW seen \in BOOLEAN
    PROVE  [call[c].mem EXCEPT !.keys[u] =
              [call[c].mem.keys[u] EXCEPT !.known = TRUE, !.issue = @ \/ seen]] \in State
  <1>1. call[c].mem \in State
    BY CallerCalls DEF Call
  <1>2. call[c].mem.keys[u] \in Key
    BY <1>1 DEF State
  <1>3. [call[c].mem.keys[u] EXCEPT !.known = TRUE, !.issue = @ \/ seen] \in Key
    BY <1>2 DEF Key
  <1> QED BY <1>1, <1>3, MemKeys

(* A mirror command that was not left behind by its call is waited for,    *)
(* under the lock, and it is the only one of these.                        *)
LockInv ==
    /\ \A m \in mirrors : m.of # Nil => lock = m.of /\ At(m.of, "mirroring")
    /\ \A m, n \in mirrors : m.of # Nil /\ n.of # Nil => m = n
    /\ lock # Nil => \E m \in mirrors : m.of = lock

(* The rows of the service, and a row whose state and run are set.         *)
Rows == [Tasks -> [state : {"absent", "ready", "doing", "done"},
                   run : 0..MaxRuns, issue : BOOLEAN]]

LEMMA RowMoves ==
    ASSUME NEW rows \in Rows, NEW k \in Tasks,
           NEW s \in {"absent", "ready", "doing", "done"}, NEW r \in 0..MaxRuns
    PROVE  [rows EXCEPT ![k].state = s, ![k].run = r] \in Rows
  BY DEF Rows

(* The ways a ref is resolved by: nothing is looked at that the file knows *)
(* with its issue.                                                         *)
LEMMA WaysTypes ==
    ASSUME NEW t \in Tasks, NEW way \in Ways(t)
    PROVE  /\ way.look \in SUBSET Tasks /\ way.at \in {"adopt", "resolve", "serve"}
           /\ way.at # "resolve" => way.look = {}
           /\ \A u \in way.look : /\ ~(file.keys[u].known /\ file.keys[u].issue)
                                  /\ u = t \/ row[u].state # "absent"
  <1>1. \/ way = NoLook("serve") \/ way = NoLook("adopt")
        \/ ~(file.keys[t].known /\ file.keys[t].issue) /\ way = Resolving({t})
        \/ way = Resolving({u \in Tasks : row[u].state # "absent" /\ ~file.keys[u].issue})
    BY DEF Ways
  <1> QED BY <1>1 DEF NoLook, Resolving

LEMMA AdoptsMem ==
    ASSUME NEW m \in State, NEW u \in Tasks
    PROVE  [m EXCEPT !.keys[u] = [@ EXCEPT !.known = TRUE, !.issue = TRUE]] \in State
  <1>1. m.keys[u] \in Key
    BY DEF State
  <1>2. [m.keys[u] EXCEPT !.known = TRUE, !.issue = TRUE] \in Key
    BY <1>1 DEF Key
  <1> QED BY <1>2, MemKeys

LEMMA BackendTypesStep ==
    BackendTypeOK /\ LockInv /\ [BackendNext]_vars => BackendTypeOK'
  <1> SUFFICES ASSUME BackendTypeOK, LockInv, [BackendNext]_vars PROVE BackendTypeOK'
    OBVIOUS
  <1> USE DEF service, history
  <1>0. /\ row \in Rows /\ given \in 0..MaxRuns /\ writes \in Seq(Write) /\ Len(writes) <= MaxWrites
        /\ bodies \in [Tasks -> 0..2] /\ file \in State /\ call \in [Callers -> Call \cup {Nil}]
        /\ lock \in Callers \cup {Nil} /\ acked \subseteq 0..MaxWrites
        /\ calls \in 0..MaxCalls /\ deaths \in 0..MaxDeaths
        /\ mirrors \subseteq [of : Callers \cup {Nil}, batch : SUBSET WriteIds, posted : BOOLEAN]
    BY Zenon DEF BackendTypeOK, Rows
  <1>b. overlapped \in BOOLEAN /\ expired \in BOOLEAN /\ cut \in BOOLEAN
    BY Zenon DEF BackendTypeOK
  <1>n. MaxRuns \in Nat /\ MaxCalls \in Nat /\ MaxDeaths \in Nat /\ MaxWrites \in Nat
    BY BackendAssumption
  <1>wrote. ASSUME NEW c \in Callers, call[c] # Nil, NEW told, Acks(c, told)
            PROVE  acked' \subseteq 0..MaxWrites
    BY <1>0, <1>wrote, CallerCalls DEF Call, Acks
  <1>shape. ASSUME NEW c \in Callers, call[c] # Nil
            PROVE  /\ call[c].mem \in State /\ call[c].task \in Tasks /\ call[c].of \in Tasks
                   /\ call[c].agent \in Agents \cup {Nil} /\ call[c].run \in 0..MaxRuns
                   /\ call[c].look \in SUBSET Tasks /\ call[c].next \in {"serve", "end"}
    BY <1>shape, CallerCalls DEF Call
  <1>keys. ASSUME NEW mem \in State, NEW u \in Tasks
           PROVE  /\ [mem EXCEPT !.keys[u].pending = FALSE] \in State
                  /\ [mem EXCEPT !.keys[u] =
                        [@ EXCEPT !.known = TRUE, !.pending = TRUE]] \in State
    <2>1. mem.keys[u] \in Key
      BY DEF State
    <2>2. /\ [mem.keys[u] EXCEPT !.pending = FALSE] \in Key
          /\ [mem.keys[u] EXCEPT !.known = TRUE, !.pending = TRUE] \in Key
      BY <2>1 DEF Key
    <2> QED BY <2>2, MemKeys
  <1>1. ASSUME NEW c \in Callers, NEW verb \in Verbs, NEW t \in Tasks,
               NEW agent \in Agents \cup {Nil}, Begins(c, verb, t, agent)
        PROVE  BackendTypeOK'
    <2>1. PICK way \in IF verb = "create" THEN {NoLook("serve")} ELSE Ways(t) :
            call' = [call EXCEPT ![c] =
              [verb |-> verb, task |-> t, agent |-> agent, mem |-> file,
               look |-> way.look, at |-> way.at, next |-> "serve", of |-> t,
               run |-> 0, wrote |-> 0, told |-> FALSE]]
      BY <1>1, Zenon DEF Begins
    <2>2. way.look \in SUBSET Tasks /\ way.at \in {"adopt", "resolve", "serve"}
      BY WaysTypes DEF NoLook
    <2> DEFINE x == [verb |-> verb, task |-> t, agent |-> agent, mem |-> file,
               look |-> way.look, at |-> way.at, next |-> "serve", of |-> t,
               run |-> 0, wrote |-> 0, told |-> FALSE]
    <2>3. x \in Call
      BY <1>0, <1>n, <2>2 DEF Call
    <2> HIDE DEF x
    <2>4. call' \in [Callers -> Call \cup {Nil}]
      BY <1>0, <2>1, <2>3 DEF x
    <2>5. calls < MaxCalls /\ calls' = calls + 1
      BY <1>1, Zenon DEF Begins
    <2>6. calls' \in 0..MaxCalls
      BY <1>0, <1>n, <2>5
    <2>7. overlapped' \in BOOLEAN
      BY <1>1, Zenon DEF Begins
    <2>8. UNCHANGED <<row, given, writes, bodies, file, lock, mirrors, acked, deaths, expired, cut>>
      BY <1>1, Zenon DEF Begins
    <2> QED BY <1>0, <1>b, <2>4, <2>6, <2>7, <2>8, Zenon DEF BackendTypeOK, Rows
  <1>2. ASSUME NEW c \in Callers, Resolves(c) PROVE BackendTypeOK'
    <2>0. call[c] # Nil
      BY <1>2 DEF Resolves, At
    <2>1. PICK u \in call[c].look :
          LET look == call[c].look \ {u}
              seen == row[u].issue
              key  == [call[c].mem.keys[u] EXCEPT !.known = TRUE, !.issue = @ \/ seen]
              mem  == IF seen \/ u = call[c].task
                      THEN [call[c].mem EXCEPT !.keys[u] = key]
                      ELSE call[c].mem
              step == IF seen /\ key.pending THEN "body" ELSE After(c, look)
          IN  /\ file' = IF seen \/ u = call[c].task THEN mem ELSE file
              /\ call' = IF step = "end" THEN [call EXCEPT ![c] = Nil]
                         ELSE [call EXCEPT ![c].mem = mem, ![c].look = look,
                                           ![c].of = u, ![c].at = step]
              /\ Acks(c, step # "end" \/ call[c].told)
      BY <1>2 DEF Resolves
    <2>2. u \in Tasks
      BY <1>shape, <2>0
    <2> DEFINE look == call[c].look \ {u}
               seen == row[u].issue
               key  == [call[c].mem.keys[u] EXCEPT !.known = TRUE, !.issue = @ \/ seen]
               mem  == IF seen \/ u = call[c].task
                       THEN [call[c].mem EXCEPT !.keys[u] = key]
                       ELSE call[c].mem
               step == IF seen /\ key.pending THEN "body" ELSE After(c, look)
    <2>3. seen \in BOOLEAN
      BY <1>0, <2>2 DEF Rows
    <2>4. mem \in State
      BY <1>shape, <2>0, <2>2, <2>3, ResolvesMem
    <2>5. look \in SUBSET Tasks
      BY <1>shape, <2>0
    <2>6. step \in {"resolve", "body", "serve", "end"}
      BY <1>shape, <2>0 DEF After
    <2>7. /\ file' = mem \/ file' = file
          /\ IF step = "end" THEN call' = [call EXCEPT ![c] = Nil]
             ELSE call' = [call EXCEPT ![c].mem = mem, ![c].look = look,
                                       ![c].of = u, ![c].at = step]
          /\ Acks(c, step # "end" \/ call[c].told)
      BY <2>1, Zenon
    <2> HIDE DEF look, seen, key, mem, step
    <2>8. file' \in State /\ acked' \subseteq 0..MaxWrites
      BY <1>0, <1>wrote, <2>0, <2>4, <2>7
    <2>9. call' \in [Callers -> Call \cup {Nil}]
      <3>1. CASE step = "end"
        BY <1>0, <2>7, <3>1
      <3>2. CASE step # "end"
        <4> DEFINE x == [call[c] EXCEPT !.mem = mem, !.look = look, !.of = u, !.at = step]
        <4>1. x \in Call
          BY <2>0, <2>2, <2>4, <2>5, <2>6, <3>2, CallerCalls DEF Call
        <4>2. call' = [call EXCEPT ![c] = x]
          BY <1>0, <2>7, <3>2
        <4> HIDE DEF x
        <4> QED BY <2>0, <4>1, <4>2, GoesTypes
      <3> QED BY <3>1, <3>2
    <2>10. UNCHANGED <<row, given, writes, bodies, lock, mirrors, deaths, overlapped, calls, expired, cut>>
      BY <1>2, Zenon DEF Resolves
    <2> QED BY <1>0, <1>b, <2>8, <2>9, <2>10, Zenon DEF BackendTypeOK, Rows
  <1>3. ASSUME NEW c \in Callers, PlacesBody(c) PROVE BackendTypeOK'
    <2>0. call[c] # Nil
      BY <1>3 DEF PlacesBody, At
    <2>1. call' \in [Callers -> Call \cup {Nil}]
      BY <1>3, <2>0, MovesTypes DEF PlacesBody
    <2>2. bodies' \in [Tasks -> 0..2]
      BY <1>0, <1>3, <1>shape, <2>0 DEF PlacesBody, WithBody
    <2>u. UNCHANGED <<row, given, writes, file, lock, mirrors, acked, deaths, overlapped, calls, expired, cut>>
      BY <1>3, Zenon DEF PlacesBody
    <2> QED BY <1>0, <1>b, <2>1, <2>2, <2>u, Zenon DEF BackendTypeOK, Rows
  <1>4. ASSUME NEW c \in Callers, Forgets(c) PROVE BackendTypeOK'
    <2>0. call[c] # Nil
      BY <1>4 DEF Forgets, At
    <2> DEFINE mem == WithoutPending(c, call[c].of)
               step == After(c, call[c].look)
    <2>1. mem \in State
      BY <1>shape, <1>keys, <2>0 DEF WithoutPending
    <2>2. step \in {"resolve", "serve", "end"}
      BY <1>shape, <2>0 DEF After
    <2>3. Saves(c, mem, step) /\ Acks(c, step # "end" \/ call[c].told)
      BY <1>4 DEF Forgets
    <2> HIDE DEF mem, step
    <2>4. call' \in [Callers -> Call \cup {Nil}] /\ file' \in State
      BY <2>0, <2>1, <2>2, <2>3, SavesTypes
    <2>5. acked' \subseteq 0..MaxWrites
      BY <1>0, <1>wrote, <2>0, <2>3
    <2>u. UNCHANGED <<row, given, writes, bodies, lock, mirrors, deaths, overlapped, calls, expired, cut>>
      BY <1>4, Zenon DEF Forgets
    <2> QED BY <1>0, <1>b, <2>4, <2>5, <2>u, Zenon DEF BackendTypeOK, Rows
  <1>5. ASSUME NEW c \in Callers, Claims(c) PROVE BackendTypeOK'
    <2>0. call[c] # Nil
      BY <1>5 DEF Claims, At
    <2> DEFINE Typed == /\ row' \in Rows /\ given' \in 0..MaxRuns
                        /\ call' \in [Callers -> Call \cup {Nil}]
    <2>1. ASSUME Ends(c), row' = row, given' = given PROVE Typed
      BY <1>0, <2>1, EndsTypes
    <2> DEFINE t == call[c].task
    <2>2. ASSUME given < MaxRuns, given' = given + 1,
                 row' = [row EXCEPT ![t].state = "doing", ![t].run = given + 1],
                 call' = [call EXCEPT ![c].run = given + 1, ![c].at = "hold"]
          PROVE  Typed
      <3>1. given + 1 \in 0..MaxRuns
        BY <1>0, <1>n, <2>2
      <3>2. row' \in Rows /\ given' \in 0..MaxRuns
        <4>1. t \in Tasks
          BY <1>shape, <2>0
        <4>2. row' = [row EXCEPT ![t].state = "doing", ![t].run = given + 1]
          BY <2>2
        <4>3. given' \in 0..MaxRuns
          BY <2>2, <3>1
        <4> HIDE DEF t, Typed
        <4>4. row' \in Rows
          BY <1>0, <3>1, <4>1, <4>2, RowMoves
        <4> QED BY <4>3, <4>4
      <3>3. [call[c] EXCEPT !.run = given + 1, !.at = "hold"] \in Call
        BY <2>0, <3>1, CallerCalls DEF Call
      <3>4. call' = [call EXCEPT ![c] = [call[c] EXCEPT !.run = given + 1, !.at = "hold"]]
        BY <1>0, <2>2
      <3> QED BY <2>0, <3>2, <3>3, <3>4, GoesTypes
    <2>3. Typed
      <3> HIDE DEF Typed
      <3> QED BY <1>5, <2>1, <2>2 DEF Claims
    <2>u. UNCHANGED <<writes, bodies, file, lock, mirrors, acked, deaths, overlapped, calls, expired, cut>>
      BY <1>5, Zenon DEF Claims
    <2> QED BY <1>0, <1>b, <2>3, <2>u, Zenon DEF BackendTypeOK, Rows
  <1>6. ASSUME NEW c \in Callers, Holds(c) PROVE BackendTypeOK'
    <2>0. call[c] # Nil
      BY <1>6 DEF Holds, At
    <2> DEFINE mem == [call[c].mem EXCEPT !.runs[call[c].task] =
                          [id |-> call[c].run, holder |-> call[c].agent]]
    <2>1. mem \in State
      BY <1>shape, <1>6, <2>0, MemRuns DEF Held, Holds
    <2>2. Saves(c, mem, "end")
      BY <1>6 DEF Holds
    <2> HIDE DEF mem
    <2>3. call' \in [Callers -> Call \cup {Nil}] /\ file' \in State
      BY <2>0, <2>1, <2>2, SavesTypes
    <2>u. UNCHANGED <<row, given, writes, bodies, lock, mirrors, acked, deaths, overlapped, calls, expired, cut>>
      BY <1>6, Zenon DEF Holds
    <2> QED BY <1>0, <1>b, <2>3, <2>u, Zenon DEF BackendTypeOK, Rows
  <1>7. ASSUME NEW c \in Callers, Releases(c) PROVE BackendTypeOK'
    <2>0. call[c] # Nil
      BY <1>7 DEF Releases, At
    <2> DEFINE Typed == row' \in Rows /\ call' \in [Callers -> Call \cup {Nil}]
    <2>1. ASSUME Ends(c), row' = row PROVE Typed
      BY <1>0, <2>1, EndsTypes
    <2>2. ASSUME Goes(c, "drop"),
                 row' = [row EXCEPT ![call[c].task].state = "ready", ![call[c].task].run = 0]
          PROVE  Typed
      <3>1. row' \in Rows
        <4>1. 0 \in 0..MaxRuns /\ call[c].task \in Tasks
          BY <1>n, <1>shape, <2>0
        <4> QED BY <1>0, <2>2, <4>1, RowMoves
      <3> QED BY <2>0, <2>2, <3>1, MovesTypes
    <2>3. Typed
      <3> HIDE DEF Typed
      <3> QED BY <1>7, <2>1, <2>2 DEF Releases
    <2>u. UNCHANGED <<given, writes, bodies, file, lock, mirrors, acked, deaths, overlapped, calls, expired, cut>>
      BY <1>7, Zenon DEF Releases
    <2> QED BY <1>0, <1>b, <2>3, <2>u, Zenon DEF BackendTypeOK, Rows
  <1>8. ASSUME NEW c \in Callers, SetsStatus(c) PROVE BackendTypeOK'
    <2>0. call[c] # Nil
      BY <1>8 DEF SetsStatus, At
    <2>1. \/ Writes(c, "mirror")
          \/ Ends(c) /\ writes' = writes
      BY <1>8 DEF SetsStatus
    <2>2. call' \in [Callers -> Call \cup {Nil}] /\ writes' \in Seq(Write) /\ Len(writes') <= MaxWrites
      BY <1>0, <2>0, <2>1, EndsTypes, WritesTypes
    <2>u. UNCHANGED <<row, given, bodies, file, lock, mirrors, acked, deaths, overlapped, calls, expired, cut>>
      BY <1>8, Zenon DEF SetsStatus
    <2> QED BY <1>0, <1>b, <2>2, <2>u, Zenon DEF BackendTypeOK, Rows
  <1>9. ASSUME NEW c \in Callers, Completes(c) PROVE BackendTypeOK'
    <2>0. call[c] # Nil
      BY <1>9 DEF Completes, At
    <2>1. \/ /\ Writes(c, "drop")
             /\ row' = [row EXCEPT ![call[c].task].state = "done", ![call[c].task].run = 0]
          \/ Ends(c) /\ writes' = writes /\ row' = row
      BY <1>9 DEF Completes
    <2>2. call' \in [Callers -> Call \cup {Nil}] /\ writes' \in Seq(Write) /\ Len(writes') <= MaxWrites
      BY <1>0, <2>0, <2>1, EndsTypes, WritesTypes
    <2>3. row' \in Rows
      <3> DEFINE t == call[c].task
      <3>1. 0 \in 0..MaxRuns /\ t \in Tasks
        BY <1>n, <1>shape, <2>0
      <3>2. row' = [row EXCEPT ![t].state = "done", ![t].run = 0] \/ row' = row
        BY <2>1
      <3> HIDE DEF t
      <3>3. [row EXCEPT ![t].state = "done", ![t].run = 0] \in Rows
        BY <1>0, <3>1, RowMoves
      <3> QED BY <1>0, <3>2, <3>3
    <2>u. UNCHANGED <<given, bodies, file, lock, mirrors, acked, deaths, overlapped, calls, expired, cut>>
      BY <1>9, Zenon DEF Completes
    <2> QED BY <1>0, <1>b, <2>2, <2>3, <2>u, Zenon DEF BackendTypeOK, Rows
  <1>10. ASSUME NEW c \in Callers, Drops(c) PROVE BackendTypeOK'
    <2>0. call[c] # Nil
      BY <1>10 DEF Drops, At
    <2> DEFINE mem == WithoutRun(c)
               step == IF call[c].verb = "complete" THEN "mirror" ELSE "end"
    <2>1. mem \in State
      BY <1>shape, <2>0, MemRuns DEF WithoutRun
    <2>2. Saves(c, mem, step) /\ step \in {"mirror", "end"}
      BY <1>10 DEF Drops
    <2> HIDE DEF mem, step
    <2>3. call' \in [Callers -> Call \cup {Nil}] /\ file' \in State
      BY <2>0, <2>1, <2>2, SavesTypes
    <2>u. UNCHANGED <<row, given, writes, bodies, lock, mirrors, acked, deaths, overlapped, calls, expired, cut>>
      BY <1>10, Zenon DEF Drops
    <2> QED BY <1>0, <1>b, <2>3, <2>u, Zenon DEF BackendTypeOK, Rows
  <1>11. ASSUME NEW c \in Callers, Comments(c) PROVE BackendTypeOK'
    <2>0. call[c] # Nil
      BY <1>11 DEF Comments, At
    <2>1. call' \in [Callers -> Call \cup {Nil}] /\ writes' \in Seq(Write) /\ Len(writes') <= MaxWrites
      BY <1>11, <2>0, WritesTypes DEF Comments
    <2>u. UNCHANGED <<row, given, bodies, file, lock, mirrors, acked, deaths, overlapped, calls, expired, cut>>
      BY <1>11, Zenon DEF Comments
    <2> QED BY <1>0, <1>b, <2>1, <2>u, Zenon DEF BackendTypeOK, Rows
  <1>12. ASSUME NEW c \in Callers, Creates(c) PROVE BackendTypeOK'
    <2>0. call[c] # Nil
      BY <1>12 DEF Creates, At
    <2>1. call' \in [Callers -> Call \cup {Nil}] /\ writes' \in Seq(Write) /\ Len(writes') <= MaxWrites
      BY <1>12, <2>0, WritesTypes DEF Creates
    <2>2. row' \in Rows
      BY <1>0, <1>12, <1>shape, <2>0 DEF Creates, Rows
    <2>u. UNCHANGED <<given, bodies, file, lock, mirrors, acked, deaths, overlapped, calls, expired, cut>>
      BY <1>12, Zenon DEF Creates
    <2> QED BY <1>0, <1>b, <2>1, <2>2, <2>u, Zenon DEF BackendTypeOK, Rows
  <1>13. ASSUME NEW c \in Callers, Notes(c) PROVE BackendTypeOK'
    <2>0. call[c] # Nil
      BY <1>13 DEF Notes, At
    <2> DEFINE mem == [call[c].mem EXCEPT !.keys[call[c].task] =
                          [@ EXCEPT !.known = TRUE, !.pending = TRUE]]
    <2>1. mem \in State
      BY <1>shape, <1>keys, <2>0
    <2>2. Saves(c, mem, "mirror")
      BY <1>13 DEF Notes
    <2> HIDE DEF mem
    <2>3. call' \in [Callers -> Call \cup {Nil}] /\ file' \in State
      BY <2>0, <2>1, <2>2, SavesTypes
    <2>u. UNCHANGED <<row, given, writes, bodies, lock, mirrors, acked, deaths, overlapped, calls, expired, cut>>
      BY <1>13, Zenon DEF Notes
    <2> QED BY <1>0, <1>b, <2>3, <2>u, Zenon DEF BackendTypeOK, Rows
  <1>14. ASSUME NEW c \in Callers, Locks(c) PROVE BackendTypeOK'
    <2>0. call[c] # Nil
      BY <1>14 DEF Locks, At
    <2>1. call' \in [Callers -> Call \cup {Nil}]
      BY <1>14, <2>0, MovesTypes DEF Locks
    <2>2. lock' \in Callers \cup {Nil}
      BY <1>14 DEF Locks
    <2>3. mirrors' \subseteq [of : Callers \cup {Nil}, batch : SUBSET WriteIds, posted : BOOLEAN]
      <3>1. Unrecorded \subseteq WriteIds
        BY WritesFunction DEF Unrecorded
      <3>2. [of |-> c, batch |-> Unrecorded, posted |-> FALSE] \in
               [of : Callers \cup {Nil}, batch : SUBSET WriteIds, posted : BOOLEAN]
        BY <3>1
      <3>3. mirrors' = mirrors \cup {[of |-> c, batch |-> Unrecorded, posted |-> FALSE]}
        BY <1>14 DEF Locks
      <3> QED BY <1>0, <3>2, <3>3
    <2>u. UNCHANGED <<row, given, writes, bodies, file, acked, deaths, overlapped, calls, expired, cut>>
      BY <1>14, Zenon DEF Locks
    <2> QED BY <1>0, <1>b, <2>1, <2>2, <2>3, <2>u, Zenon DEF BackendTypeOK, Rows
  <1>over. ASSUME NEW c \in Callers, call[c] # Nil,
                  (\E told \in BOOLEAN : Proceeds(c, told)) \/ Fails(c)
           PROVE  call' \in [Callers -> Call \cup {Nil}] /\ acked' \subseteq 0..MaxWrites
    <2>1. CASE Ends(c) /\ acked' = acked
      BY <1>0, <2>1, EndsTypes
    <2>2. ASSUME NEW told \in BOOLEAN, Proceeds(c, told)
          PROVE  call' \in [Callers -> Call \cup {Nil}] /\ acked' \subseteq 0..MaxWrites
      <3> DEFINE x == [call[c] EXCEPT !.look = {call[c].task}, !.next = "end",
                                      !.at = "resolve", !.told = told]
      <3>1. x \in Call
        BY <1>over, CallerCalls DEF Call
      <3>2. \/ Ends(c) /\ Acks(c, told)
            \/ call' = [call EXCEPT ![c] = x] /\ acked' = acked
        BY <1>0, <2>2 DEF Proceeds
      <3> HIDE DEF x
      <3> QED BY <1>0, <1>over, <1>wrote, <3>1, <3>2, EndsTypes, GoesTypes
    <2> QED BY <1>over, <2>1, <2>2 DEF Fails
  <1>15. ASSUME NEW c \in Callers, TimesOut(c) PROVE BackendTypeOK'
    <2>0. call[c] # Nil
      BY <1>15 DEF TimesOut, At
    <2>1. call' \in [Callers -> Call \cup {Nil}] /\ acked' \subseteq 0..MaxWrites
      BY <1>15, <1>over, <2>0 DEF TimesOut
    <2>u. UNCHANGED <<row, given, writes, bodies, file, lock, mirrors, deaths, overlapped, calls, expired, cut>>
      BY <1>15, Zenon DEF TimesOut
    <2> QED BY <1>0, <1>b, <2>1, <2>u, Zenon DEF BackendTypeOK, Rows
  <1>22. ASSUME NEW c \in Callers, Lags(c) PROVE BackendTypeOK'
    <2>0. call[c] # Nil /\ Proceeds(c, TRUE)
      BY <1>22 DEF Lags, At
    <2>1. call' \in [Callers -> Call \cup {Nil}] /\ acked' \subseteq 0..MaxWrites
      BY <1>over, <2>0
    <2>u. UNCHANGED <<row, given, writes, bodies, file, lock, mirrors, deaths, overlapped, calls, expired, cut>>
      BY <1>22, Zenon DEF Lags
    <2> QED BY <1>0, <1>b, <2>1, <2>u, Zenon DEF BackendTypeOK, Rows
  <1>23. ASSUME NEW c \in Callers, Adopts(c) PROVE BackendTypeOK'
    <2>0. call[c] # Nil
      BY <1>23 DEF Adopts, At
    <2> DEFINE mem == [call[c].mem EXCEPT !.keys[call[c].task] =
                          [@ EXCEPT !.known = TRUE, !.issue = TRUE]]
    <2>1. mem \in State
      BY <1>shape, <2>0, AdoptsMem
    <2>2. Saves(c, mem, "serve")
      BY <1>23 DEF Adopts
    <2> HIDE DEF mem
    <2>3. call' \in [Callers -> Call \cup {Nil}] /\ file' \in State
      BY <2>0, <2>1, <2>2, SavesTypes
    <2>u. UNCHANGED <<row, given, writes, bodies, lock, mirrors, acked, deaths, overlapped, calls, expired, cut>>
      BY <1>23, Zenon DEF Adopts
    <2> QED BY <1>0, <1>b, <2>3, <2>u, Zenon DEF BackendTypeOK, Rows
  <1>24. ASSUME NEW c \in Callers, Breaks(c) PROVE BackendTypeOK'
    <2>0. call[c] # Nil /\ Ends(c) /\ (bodies' = bodies \/ bodies' = WithBody(call[c].of))
      BY <1>24 DEF Breaks, At
    <2>1. call' \in [Callers -> Call \cup {Nil}]
      BY <2>0, EndsTypes
    <2>2. bodies' \in [Tasks -> 0..2]
      BY <1>0, <1>shape, <2>0 DEF WithBody
    <2>u. UNCHANGED <<row, given, writes, file, lock, mirrors, acked, deaths, overlapped, calls, expired, cut>>
      BY <1>24, Zenon DEF Breaks
    <2> QED BY <1>0, <1>b, <2>1, <2>2, <2>u, Zenon DEF BackendTypeOK, Rows
  <1>16. ASSUME NEW c \in Callers, Dies(c) PROVE BackendTypeOK'
    <2>1. call' \in [Callers -> Call \cup {Nil}]
      BY <1>16, EndsTypes DEF Dies
    <2>2. deaths < MaxDeaths /\ deaths' = deaths + 1 /\ lock' \in {lock, Nil}
      BY <1>16, Zenon DEF Dies
    <2>3. deaths' \in 0..MaxDeaths /\ lock' \in Callers \cup {Nil}
      BY <1>0, <1>n, <2>2
    <2>4. mirrors' = {IF m.of = c THEN [m EXCEPT !.of = Nil] ELSE m : m \in mirrors}
      BY <1>16, Zenon DEF Dies
    <2>5. mirrors' \subseteq [of : Callers \cup {Nil}, batch : SUBSET WriteIds, posted : BOOLEAN]
      BY <1>0, <2>4
    <2>6. cut' \in BOOLEAN
      BY <1>16, Zenon DEF Dies
    <2>u. UNCHANGED <<row, given, writes, bodies, file, acked, overlapped, calls, expired>>
      BY <1>16, Zenon DEF Dies
    <2> QED BY <1>0, <1>b, <2>1, <2>3, <2>5, <2>6, <2>u, Zenon DEF BackendTypeOK, Rows
  <1>m. ASSUME NEW m \in mirrors
        PROVE  /\ m.of # Nil => call[m.of] # Nil
               /\ m.of \in Callers \cup {Nil} /\ m.batch \in SUBSET WriteIds /\ m.posted \in BOOLEAN
    BY <1>0 DEF LockInv, At
  <1>17. ASSUME NEW m \in mirrors, MirrorPosts(m) PROVE BackendTypeOK'
    <2> DEFINE step(i) == IF i \in m.batch /\ writes[i].posted < 2
                          THEN [writes[i] EXCEPT !.posted = @ + 1] ELSE writes[i]
    <2>1. writes' = [i \in DOMAIN writes |-> step(i)]
      BY <1>17 DEF MirrorPosts
    <2>2. \A i \in DOMAIN writes : step(i) \in Write
      BY WritesFunction DEF Write
    <2> HIDE DEF step
    <2>3. DOMAIN writes' = DOMAIN writes /\ writes' = [i \in DOMAIN writes' |-> writes'[i]]
      BY <2>1
    <2>4. \A i \in DOMAIN writes' : writes'[i] \in Write
      BY <2>1, <2>2
    <2>5. writes' \in Seq(Write) /\ Len(writes') = Len(writes)
      BY <2>3, <2>4, SameLength
    <2>6. mirrors' = (mirrors \ {m}) \cup {[m EXCEPT !.posted = TRUE]}
      BY <1>17 DEF MirrorPosts
    <2>7. mirrors' \subseteq [of : Callers \cup {Nil}, batch : SUBSET WriteIds, posted : BOOLEAN]
      BY <1>0, <2>6
    <2>u. UNCHANGED <<row, given, bodies, file, call, lock, acked, deaths, overlapped, calls, expired, cut>>
      BY <1>17, Zenon DEF MirrorPosts
    <2> QED BY <1>0, <1>b, <2>5, <2>7, <2>u, Zenon DEF BackendTypeOK, Rows
  <1>18. ASSUME NEW m \in mirrors, MirrorRecords(m) PROVE BackendTypeOK'
    <2> DEFINE step(i) == IF i \in m.batch THEN [writes[i] EXCEPT !.recorded = TRUE]
                          ELSE writes[i]
    <2>1. writes' = [i \in DOMAIN writes |-> step(i)]
      BY <1>18 DEF MirrorRecords
    <2>2. \A i \in DOMAIN writes : step(i) \in Write
      BY WritesFunction DEF Write
    <2> HIDE DEF step
    <2>3. DOMAIN writes' = DOMAIN writes /\ writes' = [i \in DOMAIN writes' |-> writes'[i]]
      BY <2>1
    <2>4. \A i \in DOMAIN writes' : writes'[i] \in Write
      BY <2>1, <2>2
    <2>5. writes' \in Seq(Write) /\ Len(writes') = Len(writes)
      BY <2>3, <2>4, SameLength
    <2>6. mirrors' \subseteq mirrors
      BY <1>18 DEF MirrorRecords
    <2>7. row' \in Rows
      <3>1. row' = [t \in Tasks |-> [row[t] EXCEPT !.issue =
                      @ \/ \E i \in m.batch : writes[i].task = t]]
        BY <1>18 DEF MirrorRecords
      <3> QED BY <1>0, <3>1 DEF Rows
    <2>8. lock' \in Callers \cup {Nil} /\ call' \in [Callers -> Call \cup {Nil}]
          /\ acked' \subseteq 0..MaxWrites
      <3>1. CASE m.of = Nil
        <4>1. UNCHANGED <<call, lock, acked>>
          BY <1>18, <3>1, Zenon DEF MirrorRecords
        <4> QED BY <1>0, <4>1
      <3>2. CASE m.of # Nil
        <4>1. lock' = Nil /\ Proceeds(m.of, FALSE) /\ m.of \in Callers
          BY <1>18, <1>m, <3>2 DEF MirrorRecords
        <4> QED BY <1>m, <1>over, <3>2, <4>1
      <3> QED BY <3>1, <3>2
    <2>u. UNCHANGED <<given, bodies, file, deaths, overlapped, calls, expired, cut>>
      BY <1>18, Zenon DEF MirrorRecords
    <2> QED BY <1>0, <1>b, <2>5, <2>6, <2>7, <2>8, <2>u, Zenon DEF BackendTypeOK, Rows
  <1>19. ASSUME NEW m \in mirrors, MirrorFails(m) PROVE BackendTypeOK'
    <2>1. m.of \in Callers /\ lock' = Nil /\ Fails(m.of) /\ mirrors' \subseteq mirrors
      BY <1>19, <1>m DEF MirrorFails
    <2>2. call' \in [Callers -> Call \cup {Nil}] /\ acked' \subseteq 0..MaxWrites
      BY <1>19, <1>m, <1>over, <2>1 DEF MirrorFails
    <2>3. cut' \in BOOLEAN
      BY <1>19, Zenon DEF MirrorFails
    <2>u. UNCHANGED <<row, given, writes, bodies, file, deaths, overlapped, calls, expired>>
      BY <1>19, Zenon DEF MirrorFails
    <2> QED BY <1>0, <1>b, <2>1, <2>2, <2>3, <2>u, Zenon DEF BackendTypeOK, Rows
  <1>20. ASSUME NEW t \in Tasks, Expires(t) PROVE BackendTypeOK'
    <2>1. row' = [row EXCEPT ![t].state = "ready", ![t].run = 0] /\ 0 \in 0..MaxRuns
      BY <1>n, <1>20 DEF Expires
    <2>2. row' \in Rows
      BY <1>0, <2>1, RowMoves
    <2>3. expired' \in BOOLEAN
      BY <1>20 DEF Expires
    <2>u. UNCHANGED <<given, writes, bodies, file, call, lock, mirrors, acked, calls,
                      deaths, overlapped, cut>>
      BY <1>20, Zenon DEF Expires
    <2> QED BY <1>0, <1>b, <2>2, <2>3, <2>u, Zenon DEF BackendTypeOK, Rows
  <1>21. CASE UNCHANGED vars
    BY <1>0, <1>b, <1>21, Zenon DEF vars, BackendTypeOK, Rows
  <1> QED BY <1>1, <1>2, <1>3, <1>4, <1>5, <1>6, <1>7, <1>8, <1>9, <1>10, <1>11,
             <1>12, <1>13, <1>14, <1>15, <1>16, <1>17, <1>18, <1>19, <1>20, <1>21,
             <1>22, <1>23, <1>24
          DEF BackendNext, CallStep

-----------------------------------------------------------------------------
(* The lock.                                                               *)

(* Steps of a call that is not at its mirror run.                          *)
LEMMA LockElsewhere ==
    ASSUME BackendTypeOK, LockInv, NEW c \in Callers, ~At(c, "mirroring"),
           lock' = lock, mirrors' = mirrors,
           \A d \in Callers \ {c} : call'[d] = call[d]
    PROVE  LockInv'
  <1>1. \A m \in mirrors : m.of # Nil => m.of # c /\ m.of \in Callers
    BY DEF LockInv, BackendTypeOK
  <1>2. \A m \in mirrors : m.of # Nil => call'[m.of] = call[m.of]
    BY <1>1
  <1> QED BY <1>2 DEF LockInv, At

LEMMA OthersStay ==
    ASSUME BackendTypeOK, NEW c \in Callers, NEW x, call' = [call EXCEPT ![c] = x]
    PROVE  \A d \in Callers \ {c} : call'[d] = call[d]
  BY DEF BackendTypeOK

Others(c) == \A d \in Callers \ {c} : call'[d] = call[d]

(* A step of a call that has nothing to do with the mirror's runs.         *)
PlainStep(c) ==
    \/ \E verb \in Verbs, t \in Tasks, a \in Agents \cup {Nil} : Begins(c, verb, t, a)
    \/ Adopts(c) \/ Resolves(c) \/ PlacesBody(c) \/ Forgets(c) \/ Breaks(c)
    \/ Claims(c) \/ Holds(c) \/ Releases(c) \/ SetsStatus(c)
    \/ Completes(c) \/ Drops(c) \/ Comments(c) \/ Creates(c) \/ Notes(c)
    \/ Lags(c) \/ TimesOut(c)

LEMMA EndsOthers ==
    ASSUME BackendTypeOK, NEW c \in Callers, Ends(c)
    PROVE  call'[c] = Nil /\ Others(c)
  BY DEF BackendTypeOK, Ends, Others

LEMMA GoesOthers ==
    ASSUME BackendTypeOK, NEW c \in Callers, NEW at, call[c] # Nil, Goes(c, at)
    PROVE  call'[c] = [call[c] EXCEPT !.at = at] /\ Others(c)
  BY DEF BackendTypeOK, Goes, Others

LEMMA SavesOthers ==
    ASSUME BackendTypeOK, NEW c \in Callers, NEW mem, NEW at, call[c] # Nil, Saves(c, mem, at)
    PROVE  /\ Others(c)
           /\ call'[c] = IF at = "end" THEN Nil
                         ELSE [call[c] EXCEPT !.mem = mem, !.at = at]
  BY DEF BackendTypeOK, Saves, Others

LEMMA WritesOthers ==
    ASSUME BackendTypeOK, NEW c \in Callers, NEW at, call[c] # Nil, Writes(c, at)
    PROVE  /\ Others(c)
           /\ call'[c] = [call[c] EXCEPT !.wrote = Len(writes) + 1, !.at = at]
  BY DEF BackendTypeOK, Writes, Others

(* Proceeds: a create goes back to reading its task.                       *)
LEMMA ProceedsEffect ==
    ASSUME BackendTypeOK, NEW c \in Callers, call[c] # Nil,
           NEW told \in BOOLEAN, Proceeds(c, told)
    PROVE  /\ Others(c)
           /\ call[c].verb # "create" => call'[c] = Nil /\ Acks(c, told)
           /\ call[c].verb = "create" =>
                /\ acked' = acked /\ call'[c] # Nil
                /\ call'[c].verb = "create" /\ call'[c].task = call[c].task
                /\ call'[c].wrote = call[c].wrote /\ call'[c].mem = call[c].mem
                /\ call'[c].look = {call[c].task} /\ call'[c].next = "end"
                /\ call'[c].at = "resolve" /\ call'[c].told = told
  <1>1. call[c] \in Call /\ call[c].task \in Tasks
    BY CallerCalls DEF Call
  <1>2. CASE call[c].verb # "create"
    BY <1>2, EndsOthers DEF Proceeds
  <1>3. CASE call[c].verb = "create"
    <2> DEFINE x == [call[c] EXCEPT !.look = {call[c].task}, !.next = "end",
                                    !.at = "resolve", !.told = told]
    <2>1. acked' = acked /\ call' = [call EXCEPT ![c] = x]
      BY <1>3 DEF Proceeds, BackendTypeOK
    <2>2. x \in Call
      BY <1>1 DEF Call
    <2>3. call'[c] = x /\ Others(c)
      BY <2>1 DEF BackendTypeOK, Others
    <2>4. /\ x.verb = call[c].verb /\ x.task = call[c].task /\ x.wrote = call[c].wrote
          /\ x.mem = call[c].mem /\ x.look = {call[c].task} /\ x.next = "end"
          /\ x.at = "resolve" /\ x.told = told
      BY <1>1 DEF Call
    <2> HIDE DEF x
    <2> QED BY <1>3, <2>1, <2>2, <2>3, <2>4, NilIsNoCall
  <1> QED BY <1>2, <1>3

(* No mirror run, or none that went well: nothing is acknowledged, and if  *)
(* the call goes on it has told so.                                        *)
LEMMA BehindEffect ==
    ASSUME BackendTypeOK, NEW c \in Callers, call[c] # Nil,
           Fails(c) \/ Proceeds(c, TRUE)
    PROVE  /\ Others(c) /\ acked' = acked
           /\ call'[c] # Nil =>
                /\ call[c].verb = "create"
                /\ call'[c].verb = "create" /\ call'[c].task = call[c].task
                /\ call'[c].wrote = call[c].wrote /\ call'[c].mem = call[c].mem
                /\ call'[c].look = {call[c].task} /\ call'[c].next = "end"
                /\ call'[c].at = "resolve" /\ call'[c].told = TRUE
  <1>1. CASE Ends(c) /\ acked' = acked
    BY <1>1, EndsOthers
  <1>2. CASE Proceeds(c, TRUE)
    BY <1>2, ProceedsEffect DEF Acks
  <1> QED BY <1>1, <1>2 DEF Fails

LEMMA PlainKeepsLock ==
    ASSUME BackendTypeOK, NEW c \in Callers, PlainStep(c)
    PROVE  lock' = lock /\ mirrors' = mirrors /\ cut' = cut
           /\ ~At(c, "mirroring") /\ Others(c)
  <1> DEFINE Goal == /\ lock' = lock /\ mirrors' = mirrors /\ cut' = cut
                     /\ ~At(c, "mirroring") /\ Others(c)
  <1> USE DEF service, history
  <1>1. ASSUME NEW verb \in Verbs, NEW t \in Tasks, NEW a \in Agents \cup {Nil},
               Begins(c, verb, t, a)
        PROVE  Goal
    <2>1. PICK x : call' = [call EXCEPT ![c] = x]
      BY <1>1, Zenon DEF Begins
    <2>2. call[c] = Nil /\ UNCHANGED <<lock, mirrors, cut>>
      BY <1>1, Zenon DEF Begins
    <2> QED BY <2>1, <2>2, OthersStay DEF Others, At
  <1>2. ASSUME Resolves(c) PROVE Goal
    <2>1. Others(c)
      BY <1>2 DEF Resolves, Others, BackendTypeOK
    <2> QED BY <1>2, <2>1 DEF Resolves, At
  <1>3. ASSUME PlacesBody(c) PROVE Goal
    BY <1>3, GoesOthers DEF PlacesBody, At
  <1>4. ASSUME Forgets(c) PROVE Goal
    BY <1>4, SavesOthers DEF Forgets, At
  <1>5. ASSUME Claims(c) PROVE Goal
    <2>1. Others(c)
      BY <1>5 DEF Claims, Ends, Others, BackendTypeOK
    <2> QED BY <1>5, <2>1 DEF Claims, At
  <1>6. ASSUME Holds(c) PROVE Goal
    BY <1>6, SavesOthers DEF Holds, At
  <1>7. ASSUME Releases(c) PROVE Goal
    BY <1>7, GoesOthers, EndsOthers DEF Releases, At
  <1>8. ASSUME SetsStatus(c) PROVE Goal
    BY <1>8, WritesOthers, EndsOthers DEF SetsStatus, At
  <1>9. ASSUME Completes(c) PROVE Goal
    BY <1>9, WritesOthers, EndsOthers DEF Completes, At
  <1>10. ASSUME Drops(c) PROVE Goal
    BY <1>10, SavesOthers DEF Drops, At
  <1>11. ASSUME Comments(c) PROVE Goal
    BY <1>11, WritesOthers DEF Comments, At
  <1>12. ASSUME Creates(c) PROVE Goal
    BY <1>12, WritesOthers DEF Creates, At
  <1>13. ASSUME Notes(c) PROVE Goal
    BY <1>13, SavesOthers DEF Notes, At
  <1>14. ASSUME TimesOut(c) \/ Lags(c) PROVE Goal
    <2>1. call[c] # Nil /\ (Fails(c) \/ Proceeds(c, TRUE))
      BY <1>14 DEF TimesOut, Lags, At
    <2>2. Others(c)
      BY <2>1, BehindEffect
    <2> QED BY <1>14, <2>2 DEF TimesOut, Lags, At
  <1>15. ASSUME Adopts(c) PROVE Goal
    BY <1>15, SavesOthers DEF Adopts, At
  <1>16. ASSUME Breaks(c) PROVE Goal
    BY <1>16, EndsOthers DEF Breaks, At
  <1> QED BY <1>1, <1>2, <1>3, <1>4, <1>5, <1>6, <1>7, <1>8, <1>9, <1>10, <1>11,
             <1>12, <1>13, <1>14, <1>15, <1>16 DEF PlainStep

(* The commands that still run when the run of m is over.                  *)
LEMMA LockGone ==
    ASSUME BackendTypeOK, LockInv, NEW m \in mirrors, m.of # Nil,
           mirrors' = mirrors \ {m}
    PROVE  \A n \in mirrors' : n.of = Nil
  BY DEF LockInv

LEMMA LockStep == BackendTypeOK /\ LockInv /\ [BackendNext]_vars => LockInv'
  <1> SUFFICES ASSUME BackendTypeOK, LockInv, [BackendNext]_vars PROVE LockInv'
    OBVIOUS
  <1>1. ASSUME NEW c \in Callers, PlainStep(c) PROVE LockInv'
    BY <1>1, PlainKeepsLock, LockElsewhere DEF Others
  <1>2. ASSUME NEW c \in Callers, Locks(c) PROVE LockInv'
    <2>1. /\ lock = Nil /\ lock' = c /\ call[c] # Nil /\ Goes(c, "mirroring")
          /\ mirrors' = mirrors \cup {[of |-> c, batch |-> Unrecorded, posted |-> FALSE]}
      BY <1>2 DEF Locks, Free, At
    <2>2. \A m \in mirrors : m.of = Nil
      BY <2>1, BackendAssumption DEF LockInv, BackendTypeOK
    <2>3. call'[c] # Nil /\ call'[c].at = "mirroring" /\ Others(c)
      <3>1. call[c] \in Call
        BY <2>1, CallerCalls
      <3>2. [call[c] EXCEPT !.at = "mirroring"] \in Call
            /\ [call[c] EXCEPT !.at = "mirroring"].at = "mirroring"
        BY <3>1 DEF Call
      <3> QED BY <2>1, <3>2, GoesOthers, NilIsNoCall
    <2>4. c # Nil
      BY BackendAssumption
    <2> DEFINE new == [of |-> c, batch |-> Unrecorded, posted |-> FALSE]
    <2>5. new.of = c /\ mirrors' = mirrors \cup {new}
      BY <2>1
    <2> HIDE DEF new
    <2>6. \A m \in mirrors' : m.of # Nil => m = new
      BY <2>2, <2>5
    <2> QED BY <2>1, <2>3, <2>4, <2>5, <2>6 DEF LockInv, At
  <1>3. ASSUME NEW m \in mirrors, MirrorPosts(m) PROVE LockInv'
    <2> DEFINE new == [m EXCEPT !.posted = TRUE]
    <2>1. mirrors' = (mirrors \ {m}) \cup {new} /\ call' = call /\ lock' = lock
      BY <1>3 DEF MirrorPosts, history
    <2>2. new.of = m.of
      BY DEF BackendTypeOK
    <2> HIDE DEF new
    <2> QED BY <2>1, <2>2 DEF LockInv, At
  <1>4. ASSUME NEW m \in mirrors, MirrorRecords(m) PROVE LockInv'
    <2>1. mirrors' = mirrors \ {m}
      BY <1>4 DEF MirrorRecords
    <2>2. CASE m.of = Nil
      <3>1. UNCHANGED <<call, lock>>
        BY <1>4, <2>2, Zenon DEF MirrorRecords
      <3> QED BY <2>1, <2>2, <3>1 DEF LockInv, At
    <2>3. CASE m.of # Nil
      <3>1. lock' = Nil /\ \A n \in mirrors' : n.of = Nil
        BY <1>4, <2>1, <2>3, LockGone DEF MirrorRecords
      <3> QED BY <3>1 DEF LockInv
    <2> QED BY <2>2, <2>3
  <1>5. ASSUME NEW m \in mirrors, MirrorFails(m) PROVE LockInv'
    <2>1. m.of # Nil /\ mirrors' = mirrors \ {m} /\ lock' = Nil
      BY <1>5 DEF MirrorFails
    <2>2. \A n \in mirrors' : n.of = Nil
      BY <2>1, LockGone
    <2> QED BY <2>1, <2>2 DEF LockInv
  <1>6. ASSUME NEW c \in Callers, Dies(c) PROVE LockInv'
    <2>1. /\ call[c] # Nil /\ Ends(c) /\ lock' = IF lock = c THEN Nil ELSE lock
          /\ mirrors' = {IF m.of = c THEN [m EXCEPT !.of = Nil] ELSE m : m \in mirrors}
      BY <1>6, Zenon DEF Dies
    <2>2. c # Nil /\ Others(c)
      BY <2>1, BackendAssumption, EndsOthers
    <2>3. \A m \in mirrors : m.of \in Callers \cup {Nil} /\ [m EXCEPT !.of = Nil].of = Nil
      BY DEF BackendTypeOK
    <2>4. ASSUME NEW n \in mirrors', n.of # Nil PROVE n \in mirrors /\ n.of # c
      BY <2>1, <2>3, <2>4
    <2>5. \A n \in mirrors : n.of # c => n \in mirrors'
      BY <2>1
    <2>6. ASSUME NEW n \in mirrors', n.of # Nil PROVE lock' = n.of /\ At(n.of, "mirroring")'
      BY <2>1, <2>2, <2>3, <2>4, <2>6 DEF LockInv, At, Others
    <2>7. lock' # Nil => \E n \in mirrors' : n.of = lock'
      BY <2>1, <2>5 DEF LockInv
    <2> QED BY <2>4, <2>6, <2>7 DEF LockInv
  <1>7. ASSUME NEW t \in Tasks, Expires(t) PROVE LockInv'
    BY <1>7 DEF Expires, LockInv, At
  <1>8. CASE UNCHANGED vars
    BY <1>8 DEF vars, LockInv, At
  <1> QED BY <1>1, <1>2, <1>3, <1>4, <1>5, <1>6, <1>7, <1>8
          DEF BackendNext, CallStep, PlainStep

LEMMA TypesAndLock == BackendSpec => [](BackendTypeOK /\ LockInv)
  <1>1. BackendInit => BackendTypeOK
    <2> SUFFICES ASSUME BackendInit PROVE BackendTypeOK
      OBVIOUS
    <2>n. MaxRuns \in Nat /\ MaxCalls \in Nat /\ MaxDeaths \in Nat /\ MaxWrites \in Nat
      BY BackendAssumption
    <2>r. PICK mirrored \in SUBSET Imported :
             row = [t \in Tasks |->
                       [state |-> IF t \in Imported THEN "ready" ELSE "absent",
                        run |-> 0, issue |-> t \in mirrored]]
      BY Zenon DEF BackendInit
    <2>a. file = [keys |-> [t \in Tasks |-> [known |-> FALSE, issue |-> FALSE,
                                             pending |-> FALSE]],
                  runs |-> [t \in Tasks |-> Nil]]
      BY Zenon DEF BackendInit
    <2>b. /\ given = 0 /\ calls = 0 /\ deaths = 0 /\ writes = <<>>
          /\ lock = Nil /\ mirrors = {} /\ acked = {}
      BY Zenon DEF BackendInit
    <2>c. bodies = [t \in Tasks |-> 0] /\ call = [c \in Callers |-> Nil]
      BY Zenon DEF BackendInit
    <2>d. overlapped = FALSE /\ expired = FALSE /\ cut = FALSE
      BY Zenon DEF BackendInit
    <2>1. row \in [Tasks -> [state : {"absent", "ready", "doing", "done"},
                             run : 0..MaxRuns, issue : BOOLEAN]]
      BY <2>n, <2>r
    <2>2. file \in State
      BY <2>a DEF State, Key
    <2>3. writes \in Seq(Write) /\ Len(writes) <= MaxWrites
      BY <2>n, <2>b
    <2>4. given \in 0..MaxRuns /\ calls \in 0..MaxCalls /\ deaths \in 0..MaxDeaths
      BY <2>n, <2>b
    <2>5. call \in [Callers -> Call \cup {Nil}] /\ bodies \in [Tasks -> 0..2]
      BY <2>c
    <2>6. /\ lock \in Callers \cup {Nil} /\ acked \subseteq 0..MaxWrites
          /\ mirrors \subseteq [of : Callers \cup {Nil}, batch : SUBSET WriteIds, posted : BOOLEAN]
      BY <2>b
    <2>7. overlapped \in BOOLEAN /\ expired \in BOOLEAN /\ cut \in BOOLEAN
      BY <2>d
    <2> QED BY <2>1, <2>2, <2>3, <2>4, <2>5, <2>6, <2>7, Zenon DEF BackendTypeOK
  <1>2. BackendInit => LockInv
    BY DEF BackendInit, LockInv
  <1> QED BY <1>1, <1>2, BackendTypesStep, LockStep, PTL DEF BackendSpec

(* The service's rows, the state file and the calls are well formed, for   *)
(* any tasks, agents, callers and bounds.                                  *)
THEOREM BackendTypes == BackendSpec => []BackendTypeOK
  BY TypesAndLock, PTL

-----------------------------------------------------------------------------
(* What is posted.                                                         *)

(* While no mirror run was cut off, the batch of the one that runs is what *)
(* nobody else has posted: the writes posted and not yet recorded are in   *)
(* the batch of the run that posted them, which still has the lock.        *)
PostInv ==
    /\ \A m \in mirrors : m.of # Nil
    /\ \A m \in mirrors : \A i \in m.batch :
          /\ i \in DOMAIN writes
          /\ ~m.posted => writes[i].posted = 0
    /\ \A i \in DOMAIN writes :
          /\ writes[i].posted <= 1
          /\ writes[i].posted > 0 /\ ~writes[i].recorded =>
                \E m \in mirrors : m.posted /\ i \in m.batch

(* The writes stay what they are, or there is one more.                    *)
Grows ==
    \/ writes' = writes
    \/ /\ DOMAIN writes' = DOMAIN writes \cup {Len(writes) + 1}
       /\ \A i \in DOMAIN writes : writes'[i] = writes[i]
       /\ writes'[Len(writes) + 1].posted = 0
       /\ writes'[Len(writes) + 1].recorded = FALSE

LEMMA WritesGrow ==
    ASSUME BackendTypeOK, NEW c \in Callers, call[c] # Nil,
           NEW at \in {"mirror", "drop", "note"}, Writes(c, at)
    PROVE  Grows
  <1>1. Len(writes) \in Nat /\ DOMAIN writes = 1..Len(writes)
    BY WritesFunction
  <1>2. /\ writes' \in Seq(Write) /\ Len(writes') = Len(writes) + 1
        /\ writes'[Len(writes) + 1].posted = 0
        /\ writes'[Len(writes) + 1].recorded = FALSE
        /\ \A i \in DOMAIN writes : writes'[i] = writes[i]
    BY WritesTypes
  <1>3. DOMAIN writes' = 1..(Len(writes) + 1)
    BY <1>1, <1>2
  <1> QED BY <1>1, <1>2, <1>3 DEF Grows

LEMMA PlainGrows ==
    ASSUME BackendTypeOK, NEW c \in Callers, PlainStep(c)
    PROVE  Grows
  <1> USE DEF service, history
  <1>1. ASSUME NEW verb \in Verbs, NEW t \in Tasks, NEW a \in Agents \cup {Nil},
               Begins(c, verb, t, a)
        PROVE  Grows
    <2>1. writes' = writes
      BY <1>1, Zenon DEF Begins
    <2> QED BY <2>1 DEF Grows
  <1>2. CASE SetsStatus(c)
    BY <1>2, WritesGrow DEF SetsStatus, At, Grows
  <1>3. CASE Completes(c)
    BY <1>3, WritesGrow DEF Completes, At, Grows
  <1>4. CASE Comments(c)
    BY <1>4, WritesGrow DEF Comments, At
  <1>5. CASE Creates(c)
    BY <1>5, WritesGrow DEF Creates, At
  <1>6. ASSUME \/ Resolves(c) \/ PlacesBody(c) \/ Forgets(c) \/ Claims(c)
               \/ Holds(c) \/ Releases(c) \/ Drops(c) \/ Notes(c) \/ TimesOut(c)
               \/ Lags(c) \/ Adopts(c) \/ Breaks(c)
        PROVE  Grows
    <2>1. writes' = writes
      BY <1>6, Zenon DEF Resolves, PlacesBody, Forgets, Claims, Holds, Releases,
                         Drops, Notes, TimesOut, Lags, Adopts, Breaks
    <2> QED BY <2>1 DEF Grows
  <1> QED BY <1>1, <1>2, <1>3, <1>4, <1>5, <1>6 DEF PlainStep

LEMMA PostStep ==
    ASSUME BackendTypeOK, LockInv, cut \/ PostInv, [BackendNext]_vars
    PROVE  (cut \/ PostInv)'
  <1>w. /\ Len(writes) \in Nat /\ DOMAIN writes = 1..Len(writes)
        /\ Len(writes) + 1 \notin DOMAIN writes
        /\ \A i \in DOMAIN writes : writes[i] \in Write
    BY WritesFunction
  <1>1. ASSUME NEW c \in Callers, PlainStep(c) PROVE (cut \/ PostInv)'
    <2>1. mirrors' = mirrors /\ cut' = cut
      BY <1>1, PlainKeepsLock
    <2>2. Grows
      BY <1>1, PlainGrows
    <2>3. ASSUME PostInv PROVE PostInv'
      <3>1. CASE writes' = writes
        BY <2>1, <2>3, <3>1 DEF PostInv
      <3>2. CASE writes' # writes
        <4>1. /\ DOMAIN writes' = DOMAIN writes \cup {Len(writes) + 1}
              /\ \A i \in DOMAIN writes : writes'[i] = writes[i]
              /\ writes'[Len(writes) + 1].posted = 0
          BY <2>2, <3>2 DEF Grows
        <4> QED BY <2>1, <2>3, <4>1, <1>w DEF PostInv
      <3> QED BY <3>1, <3>2
    <2> QED BY <2>1, <2>3
  <1>2. ASSUME NEW c \in Callers, Locks(c) PROVE (cut \/ PostInv)'
    <2> DEFINE new == [of |-> c, batch |-> Unrecorded, posted |-> FALSE]
    <2>1. /\ lock = Nil /\ writes' = writes /\ cut' = cut
          /\ mirrors' = mirrors \cup {new}
      BY <1>2 DEF Locks, Free, service, history
    <2>2. ASSUME PostInv PROVE PostInv'
      <3>1. mirrors = {}
        BY <2>1, <2>2 DEF PostInv, LockInv
      <3>2. mirrors' = {new} /\ new.of # Nil /\ ~new.posted
        BY <2>1, <3>1, BackendAssumption
      <3>3. \A i \in new.batch : i \in DOMAIN writes /\ ~writes[i].recorded
        BY DEF Unrecorded
      <3>4. \A i \in DOMAIN writes : writes[i].posted > 0 => writes[i].recorded
        BY <2>2, <3>1 DEF PostInv
      <3>5. \A i \in DOMAIN writes : writes[i].posted \in 0..2 /\ writes[i].posted <= 1
        BY <1>w, <2>2 DEF PostInv, Write
      <3> HIDE DEF new
      <3>6. \A i \in new.batch : writes[i].posted = 0
        BY <3>3, <3>4, <3>5
      <3> QED BY <2>1, <3>2, <3>3, <3>4, <3>5, <3>6 DEF PostInv
    <2> QED BY <2>1, <2>2
  <1>3. ASSUME NEW m \in mirrors, MirrorPosts(m) PROVE (cut \/ PostInv)'
    <2> DEFINE new == [m EXCEPT !.posted = TRUE]
    <2>1. /\ ~m.posted /\ mirrors' = (mirrors \ {m}) \cup {new} /\ cut' = cut
          /\ writes' = [i \in DOMAIN writes |->
                           IF i \in m.batch /\ writes[i].posted < 2
                           THEN [writes[i] EXCEPT !.posted = @ + 1] ELSE writes[i]]
      BY <1>3, Zenon DEF MirrorPosts, history
    <2>2. new.of = m.of /\ new.batch = m.batch /\ new.posted = TRUE
      BY DEF BackendTypeOK
    <2>3. ASSUME PostInv PROVE PostInv'
      <3>1. mirrors' = {new} /\ m.of # Nil /\ \A n \in mirrors : n = m
        BY <2>1, <2>3 DEF PostInv, LockInv
      <3>2. \A i \in m.batch : i \in DOMAIN writes /\ writes[i].posted = 0
        BY <2>1, <2>3 DEF PostInv
      <3>3. \A i \in m.batch : writes'[i].posted = 1
        BY <2>1, <3>2, <1>w DEF Write
      <3>4. \A i \in DOMAIN writes \ m.batch :
               writes'[i] = writes[i] /\ ~(writes[i].posted > 0 /\ ~writes[i].recorded)
        BY <2>1, <2>3, <3>1 DEF PostInv
      <3>5. DOMAIN writes' = DOMAIN writes
        BY <2>1
      <3>6. \A i \in DOMAIN writes : writes[i].posted <= 1
        BY <2>3 DEF PostInv
      <3> HIDE DEF new
      <3>7. \A i \in DOMAIN writes' :
               /\ writes'[i].posted <= 1
               /\ writes'[i].posted > 0 /\ ~writes'[i].recorded => i \in new.batch
        BY <2>2, <3>3, <3>4, <3>5, <3>6
      <3> QED BY <2>2, <3>1, <3>2, <3>5, <3>7 DEF PostInv
    <2> QED BY <2>1, <2>3
  <1>4. ASSUME NEW m \in mirrors, MirrorRecords(m) PROVE (cut \/ PostInv)'
    <2>1. /\ m.posted /\ mirrors' = mirrors \ {m} /\ cut' = cut
          /\ writes' = [i \in DOMAIN writes |->
                           IF i \in m.batch THEN [writes[i] EXCEPT !.recorded = TRUE]
                           ELSE writes[i]]
      BY <1>4, Zenon DEF MirrorRecords
    <2>2. ASSUME PostInv PROVE PostInv'
      <3>1. mirrors' = {} /\ \A n \in mirrors : n = m
        BY <2>1, <2>2 DEF PostInv, LockInv
      <3>2. \A i \in DOMAIN writes \ m.batch :
               writes'[i] = writes[i] /\ ~(writes[i].posted > 0 /\ ~writes[i].recorded)
        BY <2>1, <2>2, <3>1 DEF PostInv
      <3>3. \A i \in m.batch : i \in DOMAIN writes
        BY <2>2 DEF PostInv
      <3>4. \A i \in m.batch : writes'[i].recorded /\ writes'[i].posted = writes[i].posted
        BY <2>1, <3>3, <1>w DEF Write
      <3>5. DOMAIN writes' = DOMAIN writes /\ \A i \in DOMAIN writes : writes[i].posted <= 1
        BY <2>1, <2>2 DEF PostInv
      <3> QED BY <3>1, <3>2, <3>3, <3>4, <3>5 DEF PostInv
    <2> QED BY <2>1, <2>2
  <1>5. ASSUME NEW m \in mirrors, MirrorFails(m) PROVE (cut \/ PostInv)'
    <2>1. mirrors' = mirrors \ {m} /\ writes' = writes /\ (cut' \/ (~cut /\ ~m.posted))
      BY <1>5, Zenon DEF MirrorFails, service
    <2>2. ASSUME ~cut, ~m.posted PROVE PostInv'
      <3>1. PostInv
        BY <2>2
      <3>2. \A n \in mirrors : n = m
        BY <3>1 DEF PostInv, LockInv
      <3>3. mirrors' = {}
        BY <2>1, <3>2
      <3> QED BY <2>1, <2>2, <3>1, <3>2, <3>3 DEF PostInv
    <2> QED BY <2>1, <2>2
  <1>6. ASSUME NEW c \in Callers, Dies(c) PROVE (cut \/ PostInv)'
    <2>1. /\ writes' = writes /\ (cut' \/ (~cut /\ lock # c))
          /\ mirrors' = {IF m.of = c THEN [m EXCEPT !.of = Nil] ELSE m : m \in mirrors}
      BY <1>6, Zenon DEF Dies, service
    <2>2. ASSUME ~cut, lock # c PROVE PostInv'
      <3>1. PostInv
        BY <2>2
      <3>2. \A m \in mirrors : m.of # c
        BY <2>2, BackendAssumption DEF LockInv
      <3>3. mirrors' = mirrors
        BY <2>1, <3>2
      <3> QED BY <2>1, <3>1, <3>3 DEF PostInv
    <2> QED BY <2>1, <2>2
  <1>7. ASSUME NEW t \in Tasks, Expires(t) PROVE (cut \/ PostInv)'
    <2>1. UNCHANGED <<writes, mirrors, cut>>
      BY <1>7, Zenon DEF Expires
    <2> QED BY <2>1 DEF PostInv
  <1>8. CASE UNCHANGED vars
    <2>1. UNCHANGED <<writes, mirrors, cut>>
      BY <1>8, Zenon DEF vars, service, history
    <2> QED BY <2>1 DEF PostInv
  <1> QED BY <1>1, <1>2, <1>3, <1>4, <1>5, <1>6, <1>7, <1>8
          DEF BackendNext, CallStep, PlainStep

(* However many calls there are, nothing is on GitHub twice while no       *)
(* mirror run was cut off: the lock is what keeps two runs apart.          *)
THEOREM PostedOnceTheorem == BackendSpec => []PostedOnce
  <1>1. BackendInit => cut \/ PostInv
    <2>1. BackendInit => mirrors = {} /\ writes = <<>>
      BY Zenon DEF BackendInit
    <2> QED BY <2>1 DEF PostInv
  <1>2. BackendTypeOK /\ LockInv /\ (cut \/ PostInv) /\ [BackendNext]_vars
           => (cut \/ PostInv)'
    BY PostStep
  <1>3. cut \/ PostInv => PostedOnce
    BY DEF PostInv, PostedOnce
  <1> QED BY <1>1, <1>2, <1>3, TypesAndLock, PTL DEF BackendSpec

-----------------------------------------------------------------------------
(* What is acknowledged.                                                   *)

OnGitHub(i, w) == i \in DOMAIN w /\ w[i].posted > 0

(* What a call k has behind it where it is: it goes back to the resolving  *)
(* of its task only when its write is posted, or when it has told that it  *)
(* may not be, and it comes to its mirror run only with a write.           *)
Due(k, w) ==
    /\ k.next = "end" => /\ k.at \in {"resolve", "body", "forget"}
                         /\ k.told \/ OnGitHub(k.wrote, w)
    /\ \/ k.at \in {"mirror", "note", "mirroring"}
       \/ k.at = "drop" /\ k.verb = "complete"
       => k.wrote \in DOMAIN w

AckedInv ==
    /\ \A i \in acked : OnGitHub(i, writes)
    /\ \A i \in DOMAIN writes : writes[i].recorded => writes[i].posted > 0
    /\ \A m \in mirrors : \A i \in m.batch :
          i \in DOMAIN writes /\ (m.posted => writes[i].posted > 0)
    /\ \A m \in mirrors : m.of # Nil =>
          LET i == call[m.of].wrote IN
          i \in DOMAIN writes /\ (i \in m.batch \/ writes[i].recorded)
    /\ \A c \in Callers : call[c] # Nil => Due(call[c], writes)

(* No write is lost, and none of what is known of one.                     *)
Advances(w, v) ==
    /\ DOMAIN w \subseteq DOMAIN v
    /\ \A i \in DOMAIN w : /\ w[i].posted > 0 => v[i].posted > 0
                           /\ w[i].recorded => v[i].recorded

LEMMA DueStays ==
    ASSUME NEW k, NEW w, NEW v, Advances(w, v), Due(k, w)
    PROVE  Due(k, v)
  BY DEF Advances, Due, OnGitHub

LEMMA GrowsAdvances ==
    ASSUME BackendTypeOK, Grows
    PROVE  Advances(writes, writes')
  BY DEF Grows, Advances

(* What a plain step of c leaves: its call is in order, and what it        *)
(* acknowledges is posted.                                                 *)
InOrder(c) ==
    /\ call'[c] # Nil => Due(call'[c], writes')
    /\ \A i \in acked' \ acked : OnGitHub(i, writes)

LEMMA WritesInOrder ==
    ASSUME BackendTypeOK, NEW c \in Callers, call[c] # Nil,
           NEW at \in {"mirror", "drop", "note"}, Writes(c, at), At(c, "serve"),
           Due(call[c], writes), acked' = acked
    PROVE  InOrder(c)
  <1>1. call[c] \in Call /\ call[c].at = "serve"
    BY CallerCalls DEF At
  <1>2. call'[c] = [call[c] EXCEPT !.wrote = Len(writes) + 1, !.at = at]
    BY WritesOthers
  <1>3. call'[c].wrote = Len(writes) + 1 /\ call'[c].at = at /\ call'[c].next = call[c].next
    BY <1>1, <1>2 DEF Call
  <1>4. call[c].next # "end"
    BY <1>1 DEF Due
  <1>5. Len(writes) + 1 \in DOMAIN writes'
    <2>1. writes' \in Seq(Write) /\ Len(writes') = Len(writes) + 1
      BY WritesTypes
    <2>2. Len(writes) \in Nat
      BY WritesFunction
    <2> QED BY <2>1, <2>2
  <1> QED BY <1>3, <1>4, <1>5 DEF InOrder, Due

LEMMA ResolvesInOrder ==
    ASSUME BackendTypeOK, NEW c \in Callers, Resolves(c), Due(call[c], writes)
    PROVE  InOrder(c)
  <1>1. call[c] # Nil /\ call[c].at = "resolve"
    BY DEF Resolves, At
  <1>2. call[c] \in Call
    BY <1>1, CallerCalls
  <1>3. writes' = writes
    BY Zenon DEF Resolves, service
  <1> DEFINE look(u) == call[c].look \ {u}
             seen(u) == row[u].issue
             key(u) == [call[c].mem.keys[u] EXCEPT !.known = TRUE, !.issue = @ \/ seen(u)]
             mem(u) == IF seen(u) \/ u = call[c].task
                       THEN [call[c].mem EXCEPT !.keys[u] = key(u)] ELSE call[c].mem
             to(u) == IF seen(u) /\ key(u).pending THEN "body" ELSE After(c, look(u))
  <1>u. PICK u : /\ call' = IF to(u) = "end" THEN [call EXCEPT ![c] = Nil]
                            ELSE [call EXCEPT ![c].mem = mem(u), ![c].look = look(u),
                                              ![c].of = u, ![c].at = to(u)]
                 /\ Acks(c, to(u) # "end" \/ call[c].told)
    BY DEF Resolves
  <1>v. to(u) \in {"body", "resolve", call[c].next}
    BY DEF After
  <1> HIDE DEF look, mem, to
  <1> DEFINE step == to(u)
  <1>4. /\ step \in {"body", "resolve", call[c].next}
        /\ call' = IF step = "end" THEN [call EXCEPT ![c] = Nil]
                   ELSE [call EXCEPT ![c].mem = mem(u), ![c].look = look(u),
                                     ![c].of = u, ![c].at = step]
        /\ Acks(c, step # "end" \/ call[c].told)
    BY <1>u, <1>v
  <1> HIDE DEF step
  <1>5. CASE step = "end"
    <2>1. call'[c] = Nil
      BY <1>4, <1>5 DEF BackendTypeOK
    <2>2. call[c].told \/ OnGitHub(call[c].wrote, writes)
      BY <1>4, <1>5 DEF Due
    <2> QED BY <1>4, <1>5, <2>1, <2>2 DEF InOrder, Acks
  <1>6. CASE step # "end"
    <2>1. call'[c] = [call[c] EXCEPT !.mem = mem(u), !.look = look(u), !.of = u,
                                     !.at = step]
      BY <1>4, <1>6 DEF BackendTypeOK
    <2>2. /\ call'[c].at = step /\ call'[c].next = call[c].next
          /\ call'[c].wrote = call[c].wrote /\ call'[c].told = call[c].told
      BY <1>2, <2>1 DEF Call
    <2>3. call[c].next \in {"serve", "end"}
      BY <1>2 DEF Call
    <2> QED BY <1>3, <1>4, <1>6, <2>2, <2>3 DEF InOrder, Due, Acks
  <1> QED BY <1>5, <1>6

LEMMA EndsInOrder ==
    ASSUME BackendTypeOK, NEW c \in Callers, Ends(c), acked' = acked
    PROVE  InOrder(c)
  BY EndsOthers DEF InOrder

LEMMA MovesInOrder ==
    ASSUME BackendTypeOK, NEW c \in Callers, call[c] # Nil, writes' = writes, acked' = acked,
           call'[c] # Nil => /\ call'[c].next = call[c].next
                             /\ call'[c].wrote = call[c].wrote
                             /\ call'[c].verb = call[c].verb
                             /\ call'[c].told = call[c].told,
           Due(call[c], writes),
           call'[c] # Nil => \/ call'[c].at = "forget" /\ call[c].at = "body"
                             \/ /\ call'[c].at \in {"hold", "drop"}
                                /\ call[c].at = "serve" /\ call[c].verb \in {"claim", "release"}
                             \/ call'[c].at = "serve" /\ call[c].at = "adopt"
                             \/ /\ call'[c].at = "mirror"
                                /\ call[c].at \in {"drop", "note"}
                                /\ call[c].at = "drop" => call[c].verb = "complete"
    PROVE  InOrder(c)
  BY DEF InOrder, Due

LEMMA PlainInOrder ==
    ASSUME BackendTypeOK, NEW c \in Callers, PlainStep(c),
           call[c] # Nil => Due(call[c], writes)
    PROVE  InOrder(c)
  <1> USE DEF service, history
  <1>1. ASSUME NEW verb \in Verbs, NEW t \in Tasks, NEW a \in Agents \cup {Nil},
               Begins(c, verb, t, a)
        PROVE  InOrder(c)
    <2>1. acked' = acked
      BY <1>1, Zenon DEF Begins
    <2>2. PICK way \in IF verb = "create" THEN {NoLook("serve")} ELSE Ways(t) :
            call' = [call EXCEPT ![c] =
              [verb |-> verb, task |-> t, agent |-> a, mem |-> file,
               look |-> way.look, at |-> way.at, next |-> "serve", of |-> t,
               run |-> 0, wrote |-> 0, told |-> FALSE]]
      BY <1>1, Zenon DEF Begins
    <2>w. way.at \in {"adopt", "resolve", "serve"}
      BY WaysTypes DEF NoLook
    <2>3. call'[c].next = "serve" /\ call'[c].at \in {"adopt", "serve", "resolve"}
      BY <2>2, <2>w DEF BackendTypeOK
    <2> QED BY <2>1, <2>3 DEF InOrder, Due
  <1>2. CASE Resolves(c)
    BY <1>2, ResolvesInOrder DEF Resolves, At
  <1>3. CASE PlacesBody(c)
    <2>1. /\ writes' = writes /\ acked' = acked /\ Goes(c, "forget")
          /\ call[c] # Nil /\ call[c].at = "body"
      BY <1>3 DEF PlacesBody, At
    <2>2. call'[c] = [call[c] EXCEPT !.at = "forget"] /\ call[c] \in Call
      BY <2>1, GoesOthers, CallerCalls
    <2>3. /\ call'[c].at = "forget" /\ call'[c].next = call[c].next
          /\ call'[c].wrote = call[c].wrote /\ call'[c].verb = call[c].verb
          /\ call'[c].told = call[c].told
      BY <2>2 DEF Call
    <2> QED BY <2>1, <2>3, MovesInOrder
  <1>4. CASE Forgets(c)
    <2> DEFINE step == After(c, call[c].look)
    <2>1. /\ writes' = writes /\ call[c] # Nil /\ call[c].at = "forget"
          /\ Saves(c, WithoutPending(c, call[c].of), step)
          /\ Acks(c, step # "end" \/ call[c].told)
      BY <1>4 DEF Forgets, At
    <2>2. call[c] \in Call /\ call[c].next \in {"serve", "end"}
      BY <2>1, CallerCalls DEF Call
    <2>3. step \in {"resolve", call[c].next}
      BY DEF After
    <2> HIDE DEF step
    <2>4. CASE step = "end"
      <3>1. call'[c] = Nil
        BY <2>1, <2>4, SavesOthers
      <3>2. call[c].told \/ OnGitHub(call[c].wrote, writes)
        BY <2>1, <2>3, <2>4 DEF Due
      <3> QED BY <2>1, <2>4, <3>1, <3>2 DEF InOrder, Acks
    <2>5. CASE step # "end"
      <3>1. call'[c] = [call[c] EXCEPT !.mem = WithoutPending(c, call[c].of), !.at = step]
        BY <2>1, <2>5, SavesOthers
      <3>2. /\ call'[c].at = step /\ call'[c].next = call[c].next
            /\ call'[c].wrote = call[c].wrote /\ call'[c].told = call[c].told
        BY <2>2, <3>1 DEF Call
      <3> QED BY <2>1, <2>2, <2>3, <2>5, <3>2 DEF InOrder, Due, Acks
    <2> QED BY <2>4, <2>5
  <1>5. CASE Claims(c)
    <2>1. /\ writes' = writes /\ acked' = acked
          /\ call[c] # Nil /\ call[c].at = "serve" /\ call[c].verb = "claim"
      BY <1>5 DEF Claims, At
    <2>2. call[c] \in Call
      BY <2>1, CallerCalls
    <2>3. CASE Ends(c)
      BY <2>1, <2>3, EndsInOrder
    <2>4. CASE call' = [call EXCEPT ![c].run = given + 1, ![c].at = "hold"]
      <3>1. call'[c] = [call[c] EXCEPT !.run = given + 1, !.at = "hold"]
        BY <2>4 DEF BackendTypeOK
      <3>2. /\ call'[c].at = "hold" /\ call'[c].next = call[c].next
            /\ call'[c].wrote = call[c].wrote /\ call'[c].verb = call[c].verb
            /\ call'[c].told = call[c].told
        BY <2>2, <3>1 DEF Call
      <3> QED BY <2>1, <3>2, MovesInOrder
    <2> QED BY <1>5, <2>3, <2>4 DEF Claims
  <1>6. CASE Holds(c)
    BY <1>6, SavesOthers DEF Holds, At, InOrder
  <1>7. CASE Releases(c)
    <2>1. /\ writes' = writes /\ acked' = acked
          /\ call[c] # Nil /\ call[c].at = "serve" /\ call[c].verb = "release"
      BY <1>7 DEF Releases, At
    <2>2. call[c] \in Call
      BY <2>1, CallerCalls
    <2>3. CASE Ends(c)
      BY <2>1, <2>3, EndsInOrder
    <2>4. CASE Goes(c, "drop")
      <3>1. call'[c] = [call[c] EXCEPT !.at = "drop"]
        BY <2>1, <2>4, GoesOthers
      <3>2. /\ call'[c].at = "drop" /\ call'[c].next = call[c].next
            /\ call'[c].wrote = call[c].wrote /\ call'[c].verb = call[c].verb
            /\ call'[c].told = call[c].told
        BY <2>2, <3>1 DEF Call
      <3> QED BY <2>1, <3>2, MovesInOrder
    <2> QED BY <1>7, <2>3, <2>4 DEF Releases
  <1>8. CASE SetsStatus(c)
    BY <1>8, WritesInOrder, EndsInOrder DEF SetsStatus, At
  <1>9. CASE Completes(c)
    BY <1>9, WritesInOrder, EndsInOrder DEF Completes, At
  <1>10. CASE Drops(c)
    <2>1. /\ writes' = writes /\ acked' = acked /\ call[c] # Nil /\ call[c].at = "drop"
          /\ Saves(c, WithoutRun(c), IF call[c].verb = "complete" THEN "mirror" ELSE "end")
      BY <1>10 DEF Drops, At
    <2>2. call[c] \in Call
      BY <2>1, CallerCalls
    <2>3. CASE call[c].verb # "complete"
      BY <2>1, <2>3, SavesOthers DEF InOrder
    <2>4. CASE call[c].verb = "complete"
      <3>1. call'[c] = [call[c] EXCEPT !.mem = WithoutRun(c), !.at = "mirror"]
        BY <2>1, <2>4, SavesOthers
      <3>2. /\ call'[c].at = "mirror" /\ call'[c].next = call[c].next
            /\ call'[c].wrote = call[c].wrote /\ call'[c].verb = call[c].verb
            /\ call'[c].told = call[c].told
        BY <2>2, <3>1 DEF Call
      <3> QED BY <2>1, <2>4, <3>2, MovesInOrder
    <2> QED BY <2>3, <2>4
  <1>11. CASE Comments(c)
    BY <1>11, WritesInOrder DEF Comments, At
  <1>12. CASE Creates(c)
    BY <1>12, WritesInOrder DEF Creates, At
  <1>13. CASE Notes(c)
    <2>1. /\ writes' = writes /\ acked' = acked /\ call[c] # Nil /\ call[c].at = "note"
          /\ \E mem : Saves(c, mem, "mirror")
      BY <1>13 DEF Notes, At
    <2>2. call[c] \in Call
      BY <2>1, CallerCalls
    <2>m. PICK mem : Saves(c, mem, "mirror")
      BY <2>1
    <2>n. call[c] # Nil
      BY <2>1
    <2>3. call'[c] = [call[c] EXCEPT !.mem = mem, !.at = "mirror"]
      BY <2>m, <2>n, SavesOthers
    <2>4. /\ call'[c].at = "mirror" /\ call'[c].next = call[c].next
          /\ call'[c].wrote = call[c].wrote /\ call'[c].verb = call[c].verb
          /\ call'[c].told = call[c].told
      BY <2>2, <2>3 DEF Call
    <2> QED BY <2>1, <2>4, MovesInOrder
  <1>14. ASSUME TimesOut(c) \/ Lags(c) PROVE InOrder(c)
    <2>1. call[c] # Nil /\ (Fails(c) \/ Proceeds(c, TRUE))
      BY <1>14 DEF TimesOut, Lags, At
    <2> QED BY <2>1, BehindEffect DEF InOrder, Due
  <1>15. CASE Adopts(c)
    <2>1. /\ writes' = writes /\ acked' = acked /\ call[c] # Nil /\ call[c].at = "adopt"
          /\ \E mem : Saves(c, mem, "serve")
      BY <1>15 DEF Adopts, At
    <2>m. PICK mem : Saves(c, mem, "serve")
      BY <2>1
    <2>n. call[c] # Nil
      BY <2>1
    <2>o. call'[c] = [call[c] EXCEPT !.mem = mem, !.at = "serve"]
      BY <2>m, <2>n, SavesOthers
    <2>2. call'[c] = [call[c] EXCEPT !.mem = mem, !.at = "serve"] /\ call[c] \in Call
      BY <2>o, <2>n, CallerCalls
    <2>3. /\ call'[c].at = "serve" /\ call'[c].next = call[c].next
          /\ call'[c].wrote = call[c].wrote /\ call'[c].verb = call[c].verb
          /\ call'[c].told = call[c].told
      BY <2>2 DEF Call
    <2> QED BY <2>1, <2>3, MovesInOrder
  <1>16. CASE Breaks(c)
    BY <1>16, EndsInOrder DEF Breaks
  <1> QED BY <1>1, <1>2, <1>3, <1>4, <1>5, <1>6, <1>7, <1>8, <1>9, <1>10, <1>11,
             <1>12, <1>13, <1>14, <1>15, <1>16 DEF PlainStep

LEMMA AckedStep ==
    ASSUME BackendTypeOK, LockInv, AckedInv, [BackendNext]_vars
    PROVE  AckedInv'
  <1>w. \A i \in DOMAIN writes : writes[i] \in Write
    BY WritesFunction
  <1>a. /\ \A i \in acked : OnGitHub(i, writes)
        /\ \A i \in DOMAIN writes : writes[i].recorded => writes[i].posted > 0
        /\ \A m \in mirrors : \A i \in m.batch :
              i \in DOMAIN writes /\ (m.posted => writes[i].posted > 0)
        /\ \A m \in mirrors : m.of # Nil =>
              /\ call[m.of].wrote \in DOMAIN writes
              /\ call[m.of].wrote \in m.batch \/ writes[call[m.of].wrote].recorded
        /\ \A c \in Callers : call[c] # Nil => Due(call[c], writes)
    BY DEF AckedInv
  <1>m. \A m \in mirrors : m.of # Nil => m.of \in Callers /\ call[m.of] # Nil
    BY DEF LockInv, At, BackendTypeOK
  <1>1. ASSUME NEW c \in Callers, PlainStep(c) PROVE AckedInv'
    <2>1. mirrors' = mirrors /\ Others(c) /\ ~At(c, "mirroring")
      BY <1>1, PlainKeepsLock
    <2>2. Grows
      BY <1>1, PlainGrows
    <2>3. Advances(writes, writes')
      BY <2>2, GrowsAdvances
    <2>4. InOrder(c)
      BY <1>1, <1>a, PlainInOrder
    <2>5. \A i \in acked' : OnGitHub(i, writes')
      BY <1>a, <2>3, <2>4 DEF InOrder, Advances, OnGitHub
    <2>6. \A i \in DOMAIN writes' : writes'[i].recorded => writes'[i].posted > 0
      BY <1>a, <2>2 DEF Grows
    <2>7. \A m \in mirrors' : \A i \in m.batch :
             i \in DOMAIN writes' /\ (m.posted => writes'[i].posted > 0)
      BY <1>a, <2>1, <2>3 DEF Advances
    <2>8. \A m \in mirrors : m.of # Nil => call'[m.of] = call[m.of]
      BY <1>m, <2>1 DEF LockInv, Others
    <2>9. \A m \in mirrors' : m.of # Nil =>
             /\ call'[m.of].wrote \in DOMAIN writes'
             /\ call'[m.of].wrote \in m.batch \/ writes'[call'[m.of].wrote].recorded
      BY <1>a, <2>1, <2>3, <2>8 DEF Advances
    <2>10. \A d \in Callers : call'[d] # Nil => Due(call'[d], writes')
      BY <1>a, <2>1, <2>3, <2>4, DueStays DEF InOrder, Others
    <2> QED BY <2>5, <2>6, <2>7, <2>9, <2>10 DEF AckedInv
  <1>2. ASSUME NEW c \in Callers, Locks(c) PROVE AckedInv'
    <2> DEFINE new == [of |-> c, batch |-> Unrecorded, posted |-> FALSE]
    <2>1. /\ lock = Nil /\ writes' = writes /\ acked' = acked
          /\ mirrors' = mirrors \cup {new}
          /\ call[c] # Nil /\ call[c].at = "mirror" /\ Goes(c, "mirroring")
      BY <1>2 DEF Locks, Free, At, service, history
    <2>2. call'[c] = [call[c] EXCEPT !.at = "mirroring"] /\ Others(c) /\ call[c] \in Call
      BY <2>1, GoesOthers, CallerCalls
    <2>3. /\ call'[c].at = "mirroring" /\ call'[c].next = call[c].next
          /\ call'[c].wrote = call[c].wrote
      BY <2>2 DEF Call
    <2>4. Due(call[c], writes)
      BY <1>a, <2>1
    <2>5. Due(call'[c], writes') /\ call'[c].wrote \in DOMAIN writes
      BY <2>1, <2>3, <2>4 DEF Due
    <2>6. \A m \in mirrors : m.of = Nil
      BY <1>m, <2>1, BackendAssumption DEF LockInv
    <2>7. /\ new.of = c /\ new.posted = FALSE
          /\ \A i \in DOMAIN writes : i \in new.batch \/ writes[i].recorded
          /\ \A i \in new.batch : i \in DOMAIN writes
      BY DEF Unrecorded
    <2> HIDE DEF new
    <2>8. \A m \in mirrors' : m.of # Nil => m = new
      BY <2>1, <2>6
    <2>9. \A d \in Callers : call'[d] # Nil => Due(call'[d], writes')
      BY <1>a, <2>1, <2>2, <2>5 DEF Others
    <2> QED BY <1>a, <2>1, <2>5, <2>7, <2>8, <2>9 DEF AckedInv
  <1>3. ASSUME NEW m \in mirrors, MirrorPosts(m) PROVE AckedInv'
    <2> DEFINE new == [m EXCEPT !.posted = TRUE]
    <2>1. /\ mirrors' = (mirrors \ {m}) \cup {new} /\ acked' = acked /\ call' = call
          /\ writes' = [i \in DOMAIN writes |->
                           IF i \in m.batch /\ writes[i].posted < 2
                           THEN [writes[i] EXCEPT !.posted = @ + 1] ELSE writes[i]]
      BY <1>3, Zenon DEF MirrorPosts, history
    <2>2. new.of = m.of /\ new.batch = m.batch /\ new.posted = TRUE
      BY DEF BackendTypeOK
    <2> HIDE DEF new
    <2>d. DOMAIN writes' = DOMAIN writes
      BY <2>1
    <2>p. \A i \in DOMAIN writes : /\ writes[i].posted > 0 => writes'[i].posted > 0
                                   /\ i \in m.batch => writes'[i].posted > 0
      BY <1>w, <2>1 DEF Write
    <2>r. \A i \in DOMAIN writes : /\ writes[i].recorded => writes'[i].recorded
                                   /\ writes'[i].recorded => writes[i].recorded
      BY <1>w, <2>1 DEF Write
    <2>4. Advances(writes, writes')
      BY <2>d, <2>p, <2>r, Zenon DEF Advances
    <2>3. \A i \in DOMAIN writes' : writes'[i].recorded => writes'[i].posted > 0
      BY <1>a, <2>d, <2>p, <2>r
    <2>5. \A d \in Callers : call'[d] # Nil => Due(call'[d], writes')
      BY <1>a, <2>1, <2>4, DueStays
    <2>6. \A n \in mirrors' : n.of # Nil =>
             /\ call[n.of].wrote \in DOMAIN writes
             /\ call[n.of].wrote \in n.batch \/ writes[call[n.of].wrote].recorded
      BY <1>a, <2>1, <2>2
    <2>7. \A n \in mirrors' : \A i \in n.batch :
             i \in DOMAIN writes' /\ (n.posted => writes'[i].posted > 0)
      <3>1. \A n \in mirrors' : n \in mirrors \/ n.batch = m.batch
        BY <2>1, <2>2
      <3>2. \A n \in mirrors' : \A i \in n.batch : i \in DOMAIN writes
        BY <1>a, <3>1
      <3>3. \A n \in mirrors' : n.posted => n \in mirrors \/ n.batch = m.batch
        BY <3>1
      <3> QED BY <1>a, <2>d, <2>p, <3>1, <3>2
    <2>8. call' = call /\ acked' = acked
      BY <2>1
    <2>9. \A i \in acked' : OnGitHub(i, writes')
      BY <1>a, <2>d, <2>p, <2>8, Zenon DEF OnGitHub
    <2>10. \A n \in mirrors' : n.of # Nil =>
             /\ call'[n.of].wrote \in DOMAIN writes'
             /\ call'[n.of].wrote \in n.batch \/ writes'[call'[n.of].wrote].recorded
      BY <2>6, <2>8, <2>d, <2>r
    <2> QED BY <2>10, <2>3, <2>5, <2>6, <2>7, <2>8, <2>9 DEF AckedInv
  <1>4. ASSUME NEW m \in mirrors, MirrorRecords(m) PROVE AckedInv'
    <2>1. /\ m.posted /\ mirrors' = mirrors \ {m}
          /\ writes' = [i \in DOMAIN writes |->
                           IF i \in m.batch THEN [writes[i] EXCEPT !.recorded = TRUE]
                           ELSE writes[i]]
      BY <1>4, Zenon DEF MirrorRecords
    <2>d. DOMAIN writes' = DOMAIN writes
      BY <2>1
    <2>p. \A i \in DOMAIN writes : writes'[i].posted = writes[i].posted
      BY <1>w, <2>1 DEF Write
    <2>r. \A i \in DOMAIN writes : /\ writes[i].recorded => writes'[i].recorded
                                   /\ i \notin m.batch => writes'[i] = writes[i]
      BY <1>w, <2>1 DEF Write
    <2>2. \A i \in DOMAIN writes : writes[i].posted > 0 => writes'[i].posted > 0
      BY <2>p
    <2>3. Advances(writes, writes')
      BY <2>d, <2>2, <2>r, Zenon DEF Advances
    <2>4. \A i \in DOMAIN writes' : writes'[i].recorded => writes'[i].posted > 0
      <3>1. \A i \in DOMAIN writes : i \in m.batch => writes[i].posted > 0
        BY <1>a, <2>1
      <3> QED BY <1>a, <2>d, <2>p, <2>r, <3>1
    <2>5. \A n \in mirrors' : \A i \in n.batch :
             i \in DOMAIN writes' /\ (n.posted => writes'[i].posted > 0)
      BY <1>a, <2>1, <2>d, <2>p
    <2>6. CASE m.of = Nil
      <3>1. call' = call /\ acked' = acked
        BY <1>4, <2>6, Zenon DEF MirrorRecords
      <3>2. \A d \in Callers : call'[d] # Nil => Due(call'[d], writes')
        BY <1>a, <3>1, <2>3, DueStays
      <3>3. \A i \in acked' : OnGitHub(i, writes')
        BY <1>a, <3>1, <2>d, <2>2, Zenon DEF OnGitHub
      <3>4. \A n \in mirrors' : n.of # Nil =>
               /\ call'[n.of].wrote \in DOMAIN writes'
               /\ call'[n.of].wrote \in n.batch \/ writes'[call'[n.of].wrote].recorded
        BY <1>a, <3>1, <2>1, <2>d, <2>r
      <3> QED BY <2>4, <2>5, <3>2, <3>3, <3>4 DEF AckedInv
    <2>7. CASE m.of # Nil
      <3> DEFINE c == m.of
      <3>1. c \in Callers /\ call[c] # Nil /\ Proceeds(c, FALSE)
        BY <1>4, <1>m, <2>7, Zenon DEF MirrorRecords
      <3>2. \A n \in mirrors' : n.of = Nil
        BY <2>1, <2>7, LockGone
      <3>3. OnGitHub(call[c].wrote, writes')
        <4>1. OnGitHub(call[m.of].wrote, writes)
          BY <1>a, <2>1, <2>7 DEF OnGitHub
        <4> QED BY <4>1, <2>d, <2>p, <2>2 DEF OnGitHub
      <3>4. call[c] \in Call
        BY <3>1, CallerCalls
      <3> HIDE DEF c
      <3>5. /\ Others(c) /\ (call'[c] # Nil => Due(call'[c], writes'))
            /\ acked' \subseteq acked \cup {call[c].wrote}
        <4>1. \/ call'[c] = Nil /\ acked' = acked \cup {call[c].wrote}
              \/ /\ acked' = acked /\ call'[c].at = "resolve"
                 /\ call'[c].wrote = call[c].wrote
          BY <3>1, ProceedsEffect DEF Acks
        <4>2. Others(c)
          BY <3>1, ProceedsEffect
        <4> QED BY <3>3, <4>1, <4>2 DEF Due
      <3>6. \A d \in Callers : call'[d] # Nil => Due(call'[d], writes')
        BY <1>a, <2>3, <3>5, DueStays DEF Others
      <3>7. \A i \in acked' : OnGitHub(i, writes')
        <4>1. \A i \in acked : OnGitHub(i, writes')
          BY <1>a, <2>d, <2>2, Zenon DEF OnGitHub
        <4> QED BY <3>3, <3>5, <4>1
      <3> QED BY <2>4, <2>5, <3>2, <3>6, <3>7 DEF AckedInv
    <2> QED BY <2>6, <2>7
  <1>5. ASSUME NEW m \in mirrors, MirrorFails(m) PROVE AckedInv'
    <2>1. mirrors' = mirrors \ {m} /\ writes' = writes /\ m.of # Nil
      BY <1>5, Zenon DEF MirrorFails, service
    <2> DEFINE c == m.of
    <2>c. c \in Callers /\ call[c] # Nil /\ Fails(c)
      BY <1>5, <1>m, <2>1, Zenon DEF MirrorFails
    <2> HIDE DEF c
    <2>2. Others(c) /\ acked' = acked /\ (call'[c] # Nil => Due(call'[c], writes))
      BY <2>c, BehindEffect DEF Due
    <2>3. \A n \in mirrors' : n.of = Nil
      BY <2>1, LockGone
    <2>4. \A d \in Callers : call'[d] # Nil => Due(call'[d], writes)
      BY <1>a, <2>2 DEF Others
    <2> QED BY <1>a, <2>1, <2>2, <2>3, <2>4 DEF AckedInv
  <1>6. ASSUME NEW c \in Callers, Dies(c) PROVE AckedInv'
    <2>1. /\ writes' = writes /\ acked' = acked /\ Ends(c)
          /\ mirrors' = {IF m.of = c THEN [m EXCEPT !.of = Nil] ELSE m : m \in mirrors}
      BY <1>6, Zenon DEF Dies, service
    <2>2. \A d \in Callers : call'[d] # Nil => Due(call'[d], writes)
      BY <1>a, <2>1, EndsTypes
    <2>3. \A m \in mirrors : /\ [m EXCEPT !.of = Nil].of = Nil
                             /\ [m EXCEPT !.of = Nil].batch = m.batch
                             /\ [m EXCEPT !.of = Nil].posted = m.posted
      BY DEF BackendTypeOK
    <2>4. ASSUME NEW n \in mirrors'
          PROVE  \E m \in mirrors : /\ n.batch = m.batch /\ n.posted = m.posted
                                    /\ n.of # Nil => n = m /\ n.of # c
      BY <2>1, <2>3
    <2>5. Others(c)
      BY <2>1, EndsOthers
    <2>6. \A n \in mirrors' : n.of # Nil =>
             /\ call'[n.of].wrote \in DOMAIN writes
             /\ call'[n.of].wrote \in n.batch \/ writes[call'[n.of].wrote].recorded
      BY <1>a, <1>m, <2>4, <2>5 DEF Others
    <2>7. \A n \in mirrors' : \A i \in n.batch :
             i \in DOMAIN writes /\ (n.posted => writes[i].posted > 0)
      BY <1>a, <2>4
    <2> QED BY <1>a, <2>1, <2>2, <2>6, <2>7 DEF AckedInv
  <1>7. ASSUME NEW t \in Tasks, Expires(t) PROVE AckedInv'
    <2>1. UNCHANGED <<writes, mirrors, call, acked>>
      BY <1>7, Zenon DEF Expires
    <2> QED BY <2>1 DEF AckedInv
  <1>8. CASE UNCHANGED vars
    <2>1. UNCHANGED <<writes, mirrors, call, acked>>
      BY <1>8, Zenon DEF vars, service, history
    <2> QED BY <2>1 DEF AckedInv
  <1> QED BY <1>1, <1>2, <1>3, <1>4, <1>5, <1>6, <1>7, <1>8
          DEF BackendNext, CallStep, PlainStep

(* A call that ends well, and without a word that GitHub is behind, has    *)
(* its write there, whichever call's mirror run it was that posted it; for *)
(* any mode, and with or without a mirror command.                         *)
THEOREM AckedIsPostedTheorem == BackendSpec => []AckedIsPosted
  <1>1. BackendInit => AckedInv
    <2>1. BackendInit => /\ mirrors = {} /\ writes = <<>> /\ acked = {}
                         /\ call = [c \in Callers |-> Nil]
      BY Zenon DEF BackendInit
    <2> QED BY <2>1 DEF AckedInv
  <1>2. BackendTypeOK /\ LockInv /\ AckedInv /\ [BackendNext]_vars => AckedInv'
    BY AckedStep
  <1>3. AckedInv => AckedIsPosted
    BY DEF AckedInv, AckedIsPosted, OnGitHub, Posted
  <1> QED BY <1>1, <1>2, <1>3, TypesAndLock, PTL DEF BackendSpec

-----------------------------------------------------------------------------
(* What the steps of a call do to the call and to the file.                *)

(* The call k goes on as l: it is for the same task and has the same write *)
(* and the same run.                                                       *)
Continues(k, l) ==
    /\ l # Nil
    /\ l.verb = k.verb /\ l.task = k.task /\ l.next = k.next
    /\ l.run = k.run /\ l.agent = k.agent /\ l.told = k.told

(* The file f has the task's id and its issue: no ref to it is resolved.   *)
Seen(t, f) == f.keys[t].known /\ f.keys[t].issue

LEMMA ResolvesEffect ==
    ASSUME BackendTypeOK, NEW c \in Callers, Resolves(c)
    PROVE  \E u \in call[c].look : \E mem \in State :
             LET k == call[c]
                 look == k.look \ {u}
                 step == IF row[u].issue /\ k.mem.keys[u].pending THEN "body"
                         ELSE IF look = {} THEN k.next ELSE "resolve"
             IN  /\ mem.runs = k.mem.runs
                 /\ \A t \in Tasks : mem.keys[t].pending = k.mem.keys[t].pending
                 /\ \A t \in Tasks : t # u => mem.keys[t] = k.mem.keys[t]
                 /\ row[u].issue \/ Seen(u, k.mem) => Seen(u, mem)
                 /\ file' = mem \/ (mem = k.mem /\ file' = file)
                 /\ step = "end" => call'[c] = Nil /\ Acks(c, k.told)
                 /\ step # "end" =>
                      /\ Continues(k, call'[c]) /\ acked' = acked
                      /\ call'[c].wrote = k.wrote /\ call'[c].mem = mem
                      /\ call'[c].look = look /\ call'[c].of = u /\ call'[c].at = step
  <1>1. call[c] # Nil /\ call[c].at = "resolve"
    BY DEF Resolves, At
  <1>2. call[c] \in Call
    BY <1>1, CallerCalls
  <1>3. call[c].mem \in State /\ call[c].look \subseteq Tasks
    BY <1>2 DEF Call
  <1> DEFINE look(u) == call[c].look \ {u}
             seen(u) == row[u].issue
             key(u) == [call[c].mem.keys[u] EXCEPT !.known = TRUE, !.issue = @ \/ seen(u)]
             mem(u) == IF seen(u) \/ u = call[c].task
                       THEN [call[c].mem EXCEPT !.keys[u] = key(u)] ELSE call[c].mem
             to(u) == IF seen(u) /\ key(u).pending THEN "body" ELSE After(c, look(u))
  <1>u. PICK u \in call[c].look :
             /\ file' = IF seen(u) \/ u = call[c].task THEN mem(u) ELSE file
             /\ call' = IF to(u) = "end" THEN [call EXCEPT ![c] = Nil]
                        ELSE [call EXCEPT ![c].mem = mem(u), ![c].look = look(u),
                                          ![c].of = u, ![c].at = to(u)]
             /\ Acks(c, to(u) # "end" \/ call[c].told)
    BY DEF Resolves
  <1>4. u \in Tasks /\ row[u].issue \in BOOLEAN
    BY <1>3 DEF BackendTypeOK
  <1>5. call[c].mem.keys[u] \in Key
    BY <1>3, <1>4 DEF State
  <1>6. /\ key(u).pending = call[c].mem.keys[u].pending
        /\ key(u).known /\ (key(u).issue <=> call[c].mem.keys[u].issue \/ row[u].issue)
    BY <1>4, <1>5 DEF Key
  <1>7. mem(u) \in State
    BY <1>1, <1>3, <1>4, ResolvesMem
  <1>8. /\ mem(u).runs = call[c].mem.runs
        /\ \A t \in Tasks : mem(u).keys[t].pending = call[c].mem.keys[t].pending
        /\ \A t \in Tasks : t # u => mem(u).keys[t] = call[c].mem.keys[t]
        /\ row[u].issue \/ Seen(u, call[c].mem) => Seen(u, mem(u))
    <2>1. \/ mem(u) = call[c].mem /\ ~row[u].issue
         \/ mem(u) = [call[c].mem EXCEPT !.keys[u] = key(u)]
      OBVIOUS
    <2> HIDE DEF key, mem
    <2>2. CASE mem(u) = [call[c].mem EXCEPT !.keys[u] = key(u)]
      BY <1>3, <1>4, <1>6, <2>2 DEF State, Seen
    <2> QED BY <2>1, <2>2
  <1>9. file' = mem(u) \/ (mem(u) = call[c].mem /\ file' = file)
    BY <1>u
  <1>10. to(u) = IF row[u].issue /\ call[c].mem.keys[u].pending THEN "body"
                 ELSE IF look(u) = {} THEN call[c].next ELSE "resolve"
    BY <1>6 DEF After
  <1> HIDE DEF seen, key, mem, to
  <1>11. to(u) = "end" => call'[c] = Nil /\ Acks(c, call[c].told)
    BY <1>u DEF BackendTypeOK, Acks
  <1>12. to(u) # "end" =>
           /\ acked' = acked
           /\ call'[c] = [call[c] EXCEPT !.mem = mem(u), !.look = look(u), !.of = u,
                                         !.at = to(u)]
    BY <1>u DEF BackendTypeOK, Acks
  <1>13. to(u) \in {"body", "resolve", "serve", "end"}
    BY <1>2, <1>10 DEF Call
  <1> HIDE DEF look
  <1>14. to(u) # "end" =>
           /\ Continues(call[c], call'[c])
           /\ call'[c].wrote = call[c].wrote /\ call'[c].mem = mem(u)
           /\ call'[c].look = look(u) /\ call'[c].of = u /\ call'[c].at = to(u)
    <2> SUFFICES ASSUME to(u) # "end"
                 PROVE  /\ Continues(call[c], call'[c])
                        /\ call'[c].wrote = call[c].wrote /\ call'[c].mem = mem(u)
                        /\ call'[c].look = look(u) /\ call'[c].of = u /\ call'[c].at = to(u)
      OBVIOUS
    <2>0. look(u) \in SUBSET Tasks
      BY <1>3 DEF look
    <2>1. [call[c] EXCEPT !.mem = mem(u), !.look = look(u), !.of = u, !.at = to(u)] \in Call
      BY <1>2, <1>4, <1>7, <1>13, <2>0 DEF Call
    <2>2. call'[c] # Nil
      BY <1>12, <2>1, NilIsNoCall
    <2> QED BY <1>2, <1>12, <2>2 DEF Call, Continues
  <1> QED BY <1>7, <1>8, <1>9, <1>10, <1>11, <1>12, <1>14 DEF look

LEMMA SavesEffect ==
    ASSUME BackendTypeOK, NEW c \in Callers, call[c] # Nil, NEW mem \in State,
           NEW at \in {"adopt", "resolve", "body", "forget", "serve", "hold", "drop", "note",
                       "mirror", "mirroring", "end"},
           Saves(c, mem, at)
    PROVE  /\ file' = mem
           /\ at = "end" => call'[c] = Nil
           /\ at # "end" =>
                /\ Continues(call[c], call'[c])
                /\ call'[c].wrote = call[c].wrote /\ call'[c].mem = mem
                /\ call'[c].look = call[c].look /\ call'[c].of = call[c].of
                /\ call'[c].at = at
  <1>1. call[c] \in Call
    BY CallerCalls
  <1>2. file' = mem
    BY DEF Saves
  <1>3. call'[c] = IF at = "end" THEN Nil ELSE [call[c] EXCEPT !.mem = mem, !.at = at]
    BY SavesOthers
  <1>4. at # "end" => [call[c] EXCEPT !.mem = mem, !.at = at] \in Call
    BY <1>1 DEF Call
  <1> QED BY <1>1, <1>2, <1>3, <1>4, NilIsNoCall DEF Call, Continues

LEMMA GoesEffect ==
    ASSUME BackendTypeOK, NEW c \in Callers, call[c] # Nil,
           NEW at \in {"adopt", "resolve", "body", "forget", "serve", "hold", "drop", "note",
                       "mirror", "mirroring"},
           Goes(c, at)
    PROVE  /\ Continues(call[c], call'[c])
           /\ call'[c].wrote = call[c].wrote /\ call'[c].mem = call[c].mem
           /\ call'[c].look = call[c].look /\ call'[c].of = call[c].of
           /\ call'[c].at = at
  <1>1. call[c] \in Call
    BY CallerCalls
  <1>2. call'[c] = [call[c] EXCEPT !.at = at]
    BY GoesOthers
  <1>3. [call[c] EXCEPT !.at = at] \in Call
    BY <1>1 DEF Call
  <1> QED BY <1>1, <1>2, <1>3, NilIsNoCall DEF Call, Continues

LEMMA WritesEffect ==
    ASSUME BackendTypeOK, NEW c \in Callers, call[c] # Nil,
           NEW at \in {"mirror", "drop", "note"}, Writes(c, at)
    PROVE  /\ Continues(call[c], call'[c])
           /\ call'[c].wrote = Len(writes) + 1 /\ call'[c].mem = call[c].mem
           /\ call'[c].look = call[c].look /\ call'[c].of = call[c].of
           /\ call'[c].at = at
           /\ Len(writes) + 1 \in DOMAIN writes' /\ Len(writes) \in Nat
           /\ writes'[Len(writes) + 1].task = call[c].task
           /\ writes'[Len(writes) + 1].create <=> call[c].verb = "create"
  <1>1. call[c] \in Call
    BY CallerCalls
  <1>2. /\ call'[c] = [call[c] EXCEPT !.wrote = Len(writes) + 1, !.at = at]
        /\ Len(writes') = Len(writes) + 1 /\ writes' \in Seq(Write)
        /\ Len(writes') <= MaxWrites /\ call' \in [Callers -> Call \cup {Nil}]
    BY WritesTypes
  <1>3. Len(writes) \in Nat /\ writes \in Seq(Write)
    BY WritesFunction DEF BackendTypeOK
  <1> DEFINE e == [task |-> call[c].task, create |-> call[c].verb = "create",
                   posted |-> 0, recorded |-> FALSE]
  <1>4. /\ e \in Write /\ e.task = call[c].task /\ e.create = (call[c].verb = "create")
    BY <1>1 DEF Write, Call
  <1>5. writes' = Append(writes, e)
    BY DEF Writes
  <1> HIDE DEF e
  <1>6. writes'[Len(writes) + 1] = e
    BY <1>3, <1>4, <1>5, AppendProperties
  <1>7. Len(writes) + 1 \in DOMAIN writes'
    BY <1>2, <1>3
  <1>8. call'[c] # Nil
    <2>1. Len(writes) + 1 \in 0..MaxWrites
      BY <1>2, <1>3, BackendAssumption
    <2>2. [call[c] EXCEPT !.wrote = Len(writes) + 1, !.at = at] \in Call
      BY <1>1, <2>1 DEF Call
    <2> QED BY <1>2, <2>2, NilIsNoCall
  <1>9. /\ Continues(call[c], call'[c])
        /\ call'[c].wrote = Len(writes) + 1 /\ call'[c].mem = call[c].mem
        /\ call'[c].look = call[c].look /\ call'[c].of = call[c].of
        /\ call'[c].at = at
    BY <1>1, <1>2, <1>8 DEF Call, Continues
  <1> QED BY <1>3, <1>4, <1>6, <1>7, <1>9

LEMMA BeginsEffect ==
    ASSUME BackendTypeOK, NEW c \in Callers, NEW verb \in Verbs, NEW t \in Tasks,
           NEW a \in Agents \cup {Nil}, Begins(c, verb, t, a)
    PROVE  /\ call[c] = Nil /\ call'[c] # Nil
           /\ call'[c].verb = verb /\ call'[c].task = t /\ call'[c].mem = file
           /\ call'[c].wrote = 0 /\ call'[c].next = "serve" /\ ~call'[c].told
           /\ call'[c].at \in {"serve", "resolve", "adopt"}
           /\ call'[c].look \subseteq Tasks
           /\ call'[c].at # "resolve" => call'[c].look = {}
           /\ \A u \in call'[c].look : row[u].state # "absent" /\ ~Seen(u, file)
           /\ verb = "create" <=> row[t].state = "absent"
           /\ verb = "create" => call'[c].at = "serve"
           /\ UNCHANGED <<row, given, writes, bodies, file, acked, deaths, expired>>
           /\ overlapped' = (overlapped \/ \E d \in Callers \ {c} : call[d] # Nil)
  <1>1. PICK way \in IF verb = "create" THEN {NoLook("serve")} ELSE Ways(t) :
            call' = [call EXCEPT ![c] =
              [verb |-> verb, task |-> t, agent |-> a, mem |-> file,
               look |-> way.look, at |-> way.at, next |-> "serve", of |-> t,
               run |-> 0, wrote |-> 0, told |-> FALSE]]
    BY Zenon DEF Begins
  <1>2. /\ call[c] = Nil
        /\ verb = "create" <=> row[t].state = "absent"
        /\ UNCHANGED <<row, given, writes, bodies, file, acked, deaths, expired>>
        /\ overlapped' = (overlapped \/ \E d \in Callers \ {c} : call[d] # Nil)
    BY Zenon DEF Begins, service
  <1> DEFINE x == [verb |-> verb, task |-> t, agent |-> a, mem |-> file,
               look |-> way.look, at |-> way.at, next |-> "serve", of |-> t,
               run |-> 0, wrote |-> 0, told |-> FALSE]
  <1>3. /\ way.look \in SUBSET Tasks /\ way.at \in {"adopt", "resolve", "serve"}
        /\ way.at # "resolve" => way.look = {}
        /\ \A u \in way.look : row[u].state # "absent" /\ ~Seen(u, file)
        /\ verb = "create" => way.at = "serve"
    <2>1. CASE verb = "create"
      <3>1. way = NoLook("serve")
        BY <1>1, <2>1
      <3> QED BY <3>1 DEF NoLook
    <2>2. CASE verb # "create"
      <3>1. way \in Ways(t)
        BY <1>1, <2>2
      <3> QED BY <1>2, <2>2, <3>1, WaysTypes DEF Seen
    <2> QED BY <2>1, <2>2
  <1>4. x \in Call
    BY <1>3, BackendAssumption DEF Call, BackendTypeOK
  <1>5. call'[c] = x
    BY <1>1 DEF BackendTypeOK
  <1>6. /\ x.verb = verb /\ x.task = t /\ x.mem = file /\ x.wrote = 0 /\ x.next = "serve"
        /\ x.at = way.at /\ x.look = way.look /\ x.told = FALSE
    OBVIOUS
  <1> HIDE DEF x
  <1> QED BY <1>2, <1>3, <1>4, <1>5, <1>6, NilIsNoCall

(* Adopts: the file learns of the task and of its issue.                   *)
LEMMA AdoptsEffect ==
    ASSUME BackendTypeOK, NEW c \in Callers, Adopts(c)
    PROVE  \E mem \in State :
             LET k == call[c] IN
             /\ k # Nil /\ k.at = "adopt"
             /\ mem.runs = k.mem.runs
             /\ \A t \in Tasks : /\ mem.keys[t].pending = k.mem.keys[t].pending
                                 /\ t # k.task => mem.keys[t] = k.mem.keys[t]
                                 /\ Seen(t, k.mem) => Seen(t, mem)
             /\ file' = mem
             /\ Continues(k, call'[c]) /\ call'[c].wrote = k.wrote
             /\ call'[c].mem = mem /\ call'[c].look = k.look /\ call'[c].at = "serve"
             /\ UNCHANGED <<row, writes, bodies, acked>>
  <1> DEFINE k == call[c]
             mem == [k.mem EXCEPT !.keys[k.task] =
                        [@ EXCEPT !.known = TRUE, !.issue = TRUE]]
  <1>1. /\ k # Nil /\ k.at = "adopt" /\ Saves(c, mem, "serve")
        /\ UNCHANGED <<row, writes, bodies, acked>>
    BY DEF Adopts, At, service, history
  <1>2. k \in Call /\ k.mem \in State /\ k.task \in Tasks
    BY <1>1, CallerCalls DEF Call
  <1>3. mem \in State
    BY <1>2, AdoptsMem
  <1>4. /\ mem.runs = k.mem.runs
        /\ \A t \in Tasks : /\ mem.keys[t].pending = k.mem.keys[t].pending
                            /\ t # k.task => mem.keys[t] = k.mem.keys[t]
                            /\ Seen(t, k.mem) => Seen(t, mem)
    <2> DEFINE key == [k.mem.keys[k.task] EXCEPT !.known = TRUE, !.issue = TRUE]
    <2>1. k.mem.keys[k.task] \in Key
      BY <1>2 DEF State
    <2>2. key.pending = k.mem.keys[k.task].pending /\ key.known /\ key.issue
      BY <2>1 DEF Key
    <2>3. mem = [k.mem EXCEPT !.keys[k.task] = key]
      BY <1>2 DEF State
    <2> HIDE DEF k, key, mem
    <2> QED BY <1>2, <2>2, <2>3 DEF State, Seen
  <1> HIDE DEF mem
  <1>5. /\ file' = mem /\ Continues(k, call'[c]) /\ call'[c].wrote = k.wrote
        /\ call'[c].mem = mem /\ call'[c].look = k.look /\ call'[c].at = "serve"
    BY <1>1, <1>3, SavesEffect
  <1> QED BY <1>1, <1>3, <1>4, <1>5

-----------------------------------------------------------------------------
(* What create promises.                                                   *)

(* A create has its write behind it when its task is mirrored, and its     *)
(* note of the pending body when the task is read again; if it has not     *)
(* told that GitHub is behind, the task has its issue then, and the issue  *)
(* its body when the create forgets about it.  No other call ends before   *)
(* it was served.                                                          *)
Under(k, w, r, b) ==
    /\ k.wrote \in {0} \cup DOMAIN w
    /\ k.wrote # 0 => /\ w[k.wrote].task = k.task
                      /\ w[k.wrote].create <=> k.verb = "create"
    /\ k.verb # "create" => k.next = "serve"
    /\ k.verb = "create" =>
         /\ k.at # "adopt"
         /\ k.at \in {"mirror", "mirroring"} => k.mem.keys[k.task].pending
         /\ k.at \in {"resolve", "body", "forget"} => k.wrote # 0 /\ k.next = "end"
         /\ k.at = "resolve" => \/ k.told
                                \/ /\ k.look = {k.task} /\ k.mem.keys[k.task].pending
                                   /\ r[k.task].issue
         /\ k.at \in {"body", "forget"} => k.told \/ (k.look = {} /\ k.of = k.task)
         /\ k.at = "forget" => k.told \/ b[k.task] > 0

(* A write that is recorded has given its task an issue, and a create that *)
(* was acknowledged has its body there.                                    *)
PlacedInv ==
    /\ \A i \in DOMAIN writes : writes[i].recorded => row[writes[i].task].issue
    /\ \A c \in Callers : call[c] # Nil => Under(call[c], writes, row, bodies)
    /\ \A i \in acked : writes[i].create => bodies[writes[i].task] > 0

(* Writes keep what they say, tasks their issues and issues their bodies.  *)
Onward(w, r, b, v, s, a) ==
    /\ \A i \in DOMAIN w : /\ i \in DOMAIN v /\ v[i].task = w[i].task
                           /\ v[i].create = w[i].create
    /\ \A t \in Tasks : /\ r[t].issue => s[t].issue
                        /\ b[t] > 0 => a[t] > 0

LEMMA UnderStays ==
    ASSUME NEW k \in Call, NEW w, NEW r, NEW b, NEW v, NEW s, NEW a,
           Onward(w, r, b, v, s, a), Under(k, w, r, b)
    PROVE  Under(k, v, s, a)
  <1>1. k.task \in Tasks
    BY DEF Call
  <1> QED BY <1>1 DEF Under, Onward

LEMMA IssueStays ==
    ASSUME NEW rows \in Rows, NEW k \in Tasks, NEW s, NEW r, NEW t \in Tasks
    PROVE  /\ [rows EXCEPT ![k].state = s, ![k].run = r][t].issue = rows[t].issue
           /\ [rows EXCEPT ![k].state = s][t].issue = rows[t].issue
  BY DEF Rows

LEMMA PlainOnward ==
    ASSUME BackendTypeOK, NEW c \in Callers, PlainStep(c)
    PROVE  Onward(writes, row, bodies, writes', row', bodies')
  <1> USE DEF service, history
  <1>0. /\ row \in Rows /\ bodies \in [Tasks -> 0..2]
        /\ call[c] # Nil => call[c].task \in Tasks /\ call[c].of \in Tasks
    BY CallerCalls, Zenon DEF BackendTypeOK, Rows, Call
  <1>1. \A i \in DOMAIN writes : i \in DOMAIN writes' /\ writes'[i] = writes[i]
    BY PlainGrows DEF Grows
  <1>2. \A t \in Tasks : row[t].issue => row'[t].issue
    <2>1. CASE row' = row
      BY <2>1
    <2>2. CASE Claims(c)
      <3> DEFINE rows(k) == [row EXCEPT ![k].state = "doing", ![k].run = given + 1]
      <3>1. row' = row \/ (call[c] # Nil /\ row' = rows(call[c].task))
        BY <2>2 DEF Claims, At
      <3>2. \A k, t \in Tasks : rows(k)[t].issue = row[t].issue
        BY <1>0 DEF Rows
      <3> HIDE DEF rows
      <3> QED BY <1>0, <3>1, <3>2
    <2>3. CASE Releases(c)
      <3> DEFINE rows(k) == [row EXCEPT ![k].state = "ready", ![k].run = 0]
      <3>1. row' = row \/ (call[c] # Nil /\ row' = rows(call[c].task))
        BY <2>3 DEF Releases, At
      <3>2. \A k, t \in Tasks : rows(k)[t].issue = row[t].issue
        BY <1>0 DEF Rows
      <3> HIDE DEF rows
      <3> QED BY <1>0, <3>1, <3>2
    <2>4. CASE Completes(c)
      <3> DEFINE rows(k) == [row EXCEPT ![k].state = "done", ![k].run = 0]
      <3>1. row' = row \/ (call[c] # Nil /\ row' = rows(call[c].task))
        BY <2>4 DEF Completes, At
      <3>2. \A k, t \in Tasks : rows(k)[t].issue = row[t].issue
        BY <1>0 DEF Rows
      <3> HIDE DEF rows
      <3> QED BY <1>0, <3>1, <3>2
    <2>5. CASE Creates(c)
      <3>1. call[c] # Nil /\ row' = [row EXCEPT ![call[c].task].state = "ready"]
        BY <2>5 DEF Creates, At
      <3> QED BY <1>0, <3>1, IssueStays
    <2>6. ASSUME \/ \E verb \in Verbs, t \in Tasks, a \in Agents \cup {Nil} :
                       Begins(c, verb, t, a)
                 \/ Resolves(c) \/ PlacesBody(c) \/ Forgets(c) \/ Holds(c)
                 \/ SetsStatus(c) \/ Drops(c) \/ Comments(c) \/ Notes(c) \/ TimesOut(c)
                 \/ Lags(c) \/ Adopts(c) \/ Breaks(c)
          PROVE  row' = row
      BY <2>6, Zenon DEF Begins, Resolves, PlacesBody, Forgets, Holds, SetsStatus,
                         Drops, Comments, Notes, TimesOut, Lags, Adopts, Breaks
    <2> QED BY <2>1, <2>2, <2>3, <2>4, <2>5, <2>6 DEF PlainStep
  <1>3. \A t \in Tasks : bodies[t] > 0 => bodies'[t] > 0
    <2>1. CASE bodies' = bodies
      BY <2>1
    <2>2. CASE PlacesBody(c) \/ Breaks(c)
      <3>1. call[c] # Nil /\ (bodies' = bodies \/ bodies' = WithBody(call[c].of))
        BY <2>2 DEF PlacesBody, Breaks, At
      <3> QED BY <1>0, <3>1 DEF WithBody
    <2>3. ASSUME \/ \E verb \in Verbs, t \in Tasks, a \in Agents \cup {Nil} :
                       Begins(c, verb, t, a)
                 \/ Resolves(c) \/ Forgets(c) \/ Claims(c) \/ Holds(c) \/ Releases(c)
                 \/ SetsStatus(c) \/ Completes(c) \/ Drops(c) \/ Comments(c)
                 \/ Creates(c) \/ Notes(c) \/ TimesOut(c) \/ Lags(c) \/ Adopts(c)
          PROVE  bodies' = bodies
      BY <2>3, Zenon DEF Begins, Resolves, Forgets, Claims, Holds, Releases, SetsStatus,
                         Completes, Drops, Comments, Creates, Notes, TimesOut, Lags, Adopts
    <2> QED BY <2>1, <2>2, <2>3 DEF PlainStep
  <1> QED BY <1>1, <1>2, <1>3, Zenon DEF Onward

(* What a plain step of c leaves: its call is under way as it should be,   *)
(* and the create it acknowledges has its body.                            *)
Placed(c) ==
    /\ call'[c] # Nil => Under(call'[c], writes', row', bodies')
    /\ \A i \in acked' \ acked : writes'[i].create => bodies'[writes'[i].task] > 0

LEMMA WritesPlaced ==
    ASSUME BackendTypeOK, NEW c \in Callers, call[c] # Nil,
           NEW at \in {"mirror", "drop", "note"}, Writes(c, at),
           Under(call[c], writes', row', bodies'),
           call[c].verb = "create" => at = "note",
           acked' = acked
    PROVE  Placed(c)
  <1>1. /\ Continues(call[c], call'[c]) /\ call'[c].at = at
        /\ call'[c].wrote = Len(writes) + 1 /\ Len(writes) \in Nat
        /\ Len(writes) + 1 \in DOMAIN writes'
        /\ writes'[Len(writes) + 1].task = call[c].task
        /\ writes'[Len(writes) + 1].create <=> call[c].verb = "create"
    BY WritesEffect
  <1>2. Len(writes) + 1 # 0
    BY <1>1
  <1> DEFINE k == call[c]
             l == call'[c]
  <1>3. /\ l.task = k.task /\ l.verb = k.verb /\ l.next = k.next /\ l.at = at
        /\ l.wrote \in DOMAIN writes'
        /\ writes'[l.wrote].task = l.task
        /\ writes'[l.wrote].create <=> l.verb = "create"
        /\ k.verb # "create" => k.next = "serve"
    BY <1>1 DEF Continues, Under
  <1> HIDE DEF k, l
  <1>4. Under(l, writes', row', bodies')
    BY <1>3 DEF Under, k
  <1> QED BY <1>4 DEF Placed, l

(* A call that goes on without a mirror run, or after one that failed.     *)
LEMMA BehindPlaced ==
    ASSUME BackendTypeOK, AckedInv, NEW c \in Callers, call[c] # Nil,
           call[c].at \in {"mirror", "mirroring"},
           Fails(c) \/ Proceeds(c, TRUE), Under(call[c], writes', row', bodies')
    PROVE  Placed(c)
  <1>1. /\ acked' = acked
        /\ call'[c] # Nil =>
             /\ call'[c].verb = "create" /\ call[c].verb = "create"
             /\ call'[c].task = call[c].task /\ call'[c].wrote = call[c].wrote
             /\ call'[c].next = "end" /\ call'[c].at = "resolve" /\ call'[c].told = TRUE
    BY BehindEffect
  <1>2. call[c].wrote # 0
    <2>1. Due(call[c], writes)
      BY DEF AckedInv
    <2>2. call[c].wrote \in DOMAIN writes
      BY <2>1 DEF Due
    <2>3. DOMAIN writes \subseteq WriteIds /\ 0 \notin WriteIds
      BY WritesFunction, BackendAssumption DEF WriteIds
    <2> QED BY <2>2, <2>3
  <1> QED BY <1>1, <1>2 DEF Placed, Under

LEMMA PlainPlaced ==
    ASSUME BackendTypeOK, AckedInv, PlacedInv, NEW c \in Callers, PlainStep(c)
    PROVE  Placed(c)
  <1> USE DEF service, history
  <1>0. ASSUME call[c] # Nil
        PROVE  /\ call[c] \in Call /\ Due(call[c], writes)
               /\ Under(call[c], writes, row, bodies)
               /\ Under(call[c], writes', row', bodies')
    <2>1. call[c] \in Call /\ Due(call[c], writes) /\ Under(call[c], writes, row, bodies)
      BY <1>0, CallerCalls DEF AckedInv, PlacedInv
    <2> QED BY <2>1, PlainOnward, UnderStays
  <1>1. ASSUME NEW verb \in Verbs, NEW t \in Tasks, NEW a \in Agents \cup {Nil},
               Begins(c, verb, t, a)
        PROVE  Placed(c)
    <2>1. /\ call'[c].verb = verb /\ call'[c].wrote = 0 /\ call'[c].next = "serve"
          /\ call'[c].at \in {"serve", "resolve", "adopt"}
          /\ verb = "create" => call'[c].at = "serve"
          /\ acked' = acked
      BY <1>1, BeginsEffect
    <2> QED BY <2>1 DEF Placed, Under
  <1>2. CASE Resolves(c)
    <2>0. /\ call[c] # Nil /\ call[c].at = "resolve"
          /\ writes' = writes /\ row' = row /\ bodies' = bodies
      BY <1>2 DEF Resolves, At
    <2> DEFINE k == call[c]
               look(u) == k.look \ {u}
               to(u) == IF row[u].issue /\ k.mem.keys[u].pending THEN "body"
                        ELSE IF look(u) = {} THEN k.next ELSE "resolve"
    <2>1. PICK u \in k.look :
             /\ to(u) = "end" => call'[c] = Nil /\ Acks(c, k.told)
             /\ to(u) # "end" =>
                  /\ Continues(k, call'[c]) /\ acked' = acked
                  /\ call'[c].wrote = k.wrote
                  /\ call'[c].look = look(u) /\ call'[c].of = u /\ call'[c].at = to(u)
      BY <1>2, ResolvesEffect
    <2>2. Under(k, writes, row, bodies) /\ k.next \in {"serve", "end"}
      BY <1>0, <2>0 DEF Call
    <2>t. CASE k.verb = "create" /\ k.told
      <3>1. k.wrote # 0 /\ k.next = "end"
        BY <2>0, <2>2, <2>t DEF Under
      <3>2. CASE to(u) = "end"
        <4>1. call'[c] = Nil /\ acked' = acked
          BY <2>1, <2>t, <3>2 DEF Acks
        <4> QED BY <4>1 DEF Placed
      <3>3. CASE to(u) # "end"
        <4>1. /\ Continues(k, call'[c]) /\ acked' = acked /\ call'[c].wrote = k.wrote
              /\ call'[c].at \in {"body", "resolve"}
          BY <2>1, <3>1, <3>3
        <4> HIDE DEF k, to, look
        <4> QED BY <2>0, <2>2, <2>t, <3>1, <4>1 DEF Placed, Under, Continues
      <3> QED BY <3>2, <3>3
    <2>3. CASE k.verb = "create" /\ ~k.told
      <3>1. /\ u = k.task /\ look(u) = {} /\ to(u) = "body" /\ k.next = "end"
            /\ k.wrote # 0
        BY <2>0, <2>2, <2>3 DEF Under
      <3>2. /\ Continues(k, call'[c]) /\ acked' = acked /\ call'[c].wrote = k.wrote
            /\ call'[c].look = {} /\ call'[c].of = k.task /\ call'[c].at = "body"
        BY <2>1, <3>1
      <3> HIDE DEF k, to, look
      <3> QED BY <2>0, <2>2, <2>3, <3>1, <3>2 DEF Placed, Under, Continues
    <2>4. CASE k.verb # "create"
      <3>1. k.next = "serve" /\ to(u) # "end"
        BY <2>2, <2>4 DEF Under
      <3>2. /\ Continues(k, call'[c]) /\ acked' = acked /\ call'[c].wrote = k.wrote
        BY <2>1, <3>1
      <3> HIDE DEF k, to, look
      <3> QED BY <2>0, <2>2, <2>4, <3>1, <3>2 DEF Placed, Under, Continues
    <2> QED BY <2>t, <2>3, <2>4
  <1>3. CASE PlacesBody(c)
    <2>1. /\ call[c] # Nil /\ call[c].at = "body" /\ Goes(c, "forget") /\ acked' = acked
          /\ bodies' = WithBody(call[c].of)
      BY <1>3 DEF PlacesBody, At
    <2>2. /\ Continues(call[c], call'[c]) /\ call'[c].wrote = call[c].wrote
          /\ call'[c].look = call[c].look /\ call'[c].of = call[c].of
          /\ call'[c].at = "forget"
      BY <2>1, GoesEffect
    <2>3. Under(call[c], writes', row', bodies') /\ call[c].of \in Tasks
      BY <1>0, <2>1 DEF Call
    <2>4. bodies'[call[c].of] > 0
      <3>1. bodies \in [Tasks -> 0..2]
        BY DEF BackendTypeOK
      <3>2. \A t \in Tasks : WithBody(t)[t] > 0
        BY <3>1 DEF WithBody
      <3>3. \A t \in Tasks : bodies' = WithBody(t) => bodies'[t] > 0
        BY <3>2
      <3>4. PICK t : t = call[c].of
        OBVIOUS
      <3> QED BY <2>1, <2>3, <3>3, <3>4
    <2> QED BY <2>1, <2>2, <2>3, <2>4 DEF Placed, Under, Continues
  <1>4. CASE Forgets(c)
    <2> DEFINE k == call[c]
               step == After(c, k.look)
               mem == WithoutPending(c, k.of)
    <2>1. /\ k # Nil /\ k.at = "forget" /\ Saves(c, mem, step)
          /\ Acks(c, step # "end" \/ k.told)
          /\ writes' = writes /\ bodies' = bodies
      BY <1>4 DEF Forgets, At
    <2>2. Under(k, writes', row', bodies') /\ k \in Call
      BY <1>0, <2>1
    <2>3. step = IF k.look = {} THEN k.next ELSE "resolve"
      BY DEF After
    <2>4. mem \in State /\ step \in {"resolve", "serve", "end"}
      <3>1. k.mem \in State /\ k.of \in Tasks /\ k.next \in {"serve", "end"}
        BY <2>2 DEF Call
      <3>2. k.mem.keys[k.of] \in Key
        BY <3>1 DEF State
      <3>3. [k.mem.keys[k.of] EXCEPT !.pending = FALSE] \in Key
        BY <3>2 DEF Key
      <3> QED BY <2>3, <3>1, <3>3, MemKeys DEF WithoutPending
    <2> HIDE DEF step, mem
    <2>5. /\ step = "end" => call'[c] = Nil
          /\ step # "end" =>
                /\ Continues(k, call'[c]) /\ call'[c].wrote = k.wrote
                /\ call'[c].at = step
      BY <2>1, <2>4, SavesEffect
    <2> HIDE DEF k
    <2>6. CASE k.verb = "create"
      <3>1. CASE step = "end"
        <4>1. /\ k.wrote \in DOMAIN writes' /\ k.wrote # 0
              /\ writes'[k.wrote].task = k.task /\ (k.told \/ bodies'[k.task] > 0)
          BY <2>1, <2>2, <2>6 DEF Under
        <4> QED BY <2>1, <2>5, <3>1, <4>1 DEF Placed, Acks, k
      <3>2. CASE step # "end"
        <4>1. acked' = acked /\ k.told /\ k.wrote # 0 /\ k.next = "end" /\ step = "resolve"
          BY <2>1, <2>2, <2>3, <2>4, <2>6, <3>2 DEF Under, Acks
        <4> QED BY <2>2, <2>5, <2>6, <3>2, <4>1 DEF Placed, Under, Continues
      <3> QED BY <3>1, <3>2
    <2>7. CASE k.verb # "create"
      <3>1. k.next = "serve" /\ step # "end"
        BY <2>2, <2>3, <2>7 DEF Under
      <3> QED BY <2>1, <2>2, <2>5, <2>7, <3>1 DEF Placed, Under, Continues, Acks
    <2> QED BY <2>6, <2>7
  <1>5. CASE Claims(c)
    <2>1. acked' = acked /\ call[c] # Nil /\ call[c].verb = "claim"
      BY <1>5 DEF Claims, At
    <2>2. CASE Ends(c)
      BY <2>1, <2>2, EndsOthers DEF Placed
    <2>3. CASE call' = [call EXCEPT ![c].run = given + 1, ![c].at = "hold"]
      <3>1. call'[c] = [call[c] EXCEPT !.run = given + 1, !.at = "hold"]
        BY <2>3 DEF BackendTypeOK
      <3>2. Under(call[c], writes', row', bodies') /\ call[c] \in Call
        BY <1>0, <2>1
      <3>3. /\ call'[c].verb = "claim" /\ call'[c].task = call[c].task
            /\ call'[c].next = call[c].next /\ call'[c].wrote = call[c].wrote
        BY <2>1, <3>1, <3>2 DEF Call
      <3> QED BY <2>1, <3>2, <3>3 DEF Placed, Under
    <2> QED BY <1>5, <2>2, <2>3 DEF Claims
  <1>6. CASE Holds(c)
    <2>1. acked' = acked /\ call[c] # Nil /\ \E mem : Saves(c, mem, "end")
      BY <1>6 DEF Holds, At
    <2> QED BY <2>1, SavesOthers DEF Placed
  <1>7. CASE Releases(c)
    <2>1. acked' = acked /\ call[c] # Nil /\ call[c].verb = "release"
      BY <1>7 DEF Releases, At
    <2>2. CASE Ends(c)
      BY <2>1, <2>2, EndsOthers DEF Placed
    <2>3. CASE Goes(c, "drop")
      <3>1. Continues(call[c], call'[c]) /\ call'[c].wrote = call[c].wrote
        BY <2>1, <2>3, GoesEffect
      <3>2. Under(call[c], writes', row', bodies')
        BY <1>0, <2>1
      <3> QED BY <2>1, <3>1, <3>2 DEF Placed, Under, Continues
    <2> QED BY <1>7, <2>2, <2>3 DEF Releases
  <1>8. ASSUME SetsStatus(c) \/ Completes(c) \/ Comments(c) \/ Creates(c)
        PROVE  Placed(c)
    <2>1. /\ call[c] # Nil /\ acked' = acked
          /\ \/ Ends(c)
             \/ Writes(c, "mirror") /\ call[c].verb # "create"
             \/ Writes(c, "drop") /\ call[c].verb # "create"
             \/ Writes(c, "note")
      BY <1>8 DEF SetsStatus, Completes, Comments, Creates, At
    <2>2. Under(call[c], writes', row', bodies')
      BY <1>0, <2>1
    <2> QED BY <2>1, <2>2, WritesPlaced, EndsOthers DEF Placed
  <1>9. CASE Drops(c)
    <2>1. /\ call[c] # Nil /\ acked' = acked /\ call[c].at = "drop"
          /\ Saves(c, WithoutRun(c), IF call[c].verb = "complete" THEN "mirror" ELSE "end")
      BY <1>9 DEF Drops, At
    <2>2. call[c] \in Call
      BY <2>1, CallerCalls
    <2>3. CASE call[c].verb # "complete"
      BY <2>1, <2>3, SavesOthers DEF Placed
    <2>4. CASE call[c].verb = "complete"
      <3>1. call'[c] = [call[c] EXCEPT !.mem = WithoutRun(c), !.at = "mirror"]
        BY <2>1, <2>4, SavesOthers
      <3>2. /\ call'[c].next = call[c].next /\ call'[c].wrote = call[c].wrote
            /\ call'[c].verb = call[c].verb /\ call'[c].task = call[c].task
        BY <2>2, <3>1 DEF Call
      <3>3. Under(call[c], writes', row', bodies')
        BY <1>0, <2>1
      <3> QED BY <2>1, <2>4, <3>2, <3>3 DEF Placed, Under
    <2> QED BY <2>3, <2>4
  <1>10. CASE Notes(c)
    <2> DEFINE k == call[c]
               mem == [k.mem EXCEPT !.keys[k.task] =
                          [@ EXCEPT !.known = TRUE, !.pending = TRUE]]
    <2>1. /\ k # Nil /\ k.at = "note" /\ acked' = acked /\ Saves(c, mem, "mirror")
      BY <1>10 DEF Notes, At
    <2>2. k \in Call /\ Due(k, writes) /\ Under(k, writes', row', bodies')
      BY <1>0, <2>1
    <2>3. k.mem \in State /\ k.task \in Tasks
      BY <2>2 DEF Call
    <2>4. mem \in State /\ mem.keys[k.task].pending
      <3>1. k.mem.keys[k.task] \in Key
        BY <2>3 DEF State
      <3> DEFINE key == [k.mem.keys[k.task] EXCEPT !.known = TRUE, !.pending = TRUE]
      <3>2. key \in Key /\ key.pending
        BY <3>1 DEF Key
      <3>3. mem = [k.mem EXCEPT !.keys[k.task] = key]
        BY <2>3 DEF State
      <3> HIDE DEF key, mem, k
      <3>4. mem \in State
        BY <2>3, <3>2, <3>3, MemKeys
      <3>5. mem.keys[k.task] = key
        BY <2>3, <3>3 DEF State
      <3> QED BY <3>2, <3>4, <3>5
    <2> HIDE DEF mem
    <2>5. /\ Continues(k, call'[c]) /\ call'[c].wrote = k.wrote
          /\ call'[c].mem = mem /\ call'[c].at = "mirror"
      BY <2>1, <2>4, SavesEffect
    <2> HIDE DEF k
    <2> QED BY <2>1, <2>2, <2>4, <2>5 DEF Placed, Under, Continues
  <1>11. ASSUME TimesOut(c) \/ Lags(c) PROVE Placed(c)
    <2>1. /\ call[c] # Nil /\ call[c].at = "mirror"
          /\ Fails(c) \/ Proceeds(c, TRUE)
      BY <1>11 DEF TimesOut, Lags, At
    <2> QED BY <1>0, <2>1, BehindPlaced
  <1>12. CASE Adopts(c)
    <2>1. /\ call[c] # Nil /\ call[c].at = "adopt" /\ acked' = acked
          /\ Continues(call[c], call'[c]) /\ call'[c].wrote = call[c].wrote
          /\ call'[c].at = "serve"
      BY <1>12, AdoptsEffect
    <2>2. Under(call[c], writes', row', bodies')
      BY <1>0, <2>1
    <2> QED BY <2>1, <2>2 DEF Placed, Under, Continues
  <1>13. CASE Breaks(c)
    BY <1>13, EndsOthers DEF Breaks, Placed
  <1> QED BY <1>1, <1>2, <1>3, <1>4, <1>5, <1>6, <1>7, <1>8, <1>9, <1>10, <1>11, <1>12, <1>13
          DEF PlainStep

LEMMA PlacedStep ==
    ASSUME BackendTypeOK, LockInv, AckedInv, PlacedInv, [BackendNext]_vars
    PROVE  PlacedInv'
  <1> USE DEF service, history
  <1>a. /\ \A i \in DOMAIN writes : writes[i].recorded => row[writes[i].task].issue
        /\ \A c \in Callers : call[c] # Nil => Under(call[c], writes, row, bodies)
        /\ \A i \in acked : writes[i].create => bodies[writes[i].task] > 0
    BY DEF PlacedInv
  <1>w. /\ \A i \in DOMAIN writes : writes[i] \in Write /\ writes[i].task \in Tasks
        /\ acked \subseteq DOMAIN writes
        /\ \A c \in Callers : call[c] # Nil => call[c] \in Call
    BY WritesFunction, CallerCalls DEF Write, AckedInv, OnGitHub
  <1>o. ASSUME Onward(writes, row, bodies, writes', row', bodies')
        PROVE  /\ \A c \in Callers : call[c] # Nil => Under(call[c], writes', row', bodies')
               /\ \A i \in acked : writes'[i].create => bodies'[writes'[i].task] > 0
    <2>1. \A c \in Callers : call[c] # Nil => Under(call[c], writes', row', bodies')
      BY <1>a, <1>w, <1>o, UnderStays
    <2> QED BY <1>a, <1>w, <1>o, <2>1 DEF Onward
  <1>1. ASSUME NEW c \in Callers, PlainStep(c) PROVE PlacedInv'
    <2>1. Others(c) /\ Placed(c) /\ Onward(writes, row, bodies, writes', row', bodies')
      BY <1>1, PlainKeepsLock, PlainPlaced, PlainOnward
    <2>2. Grows
      BY <1>1, PlainGrows
    <2>3. \A i \in DOMAIN writes' : writes'[i].recorded => row'[writes'[i].task].issue
      BY <1>a, <1>w, <2>1, <2>2 DEF Grows, Onward
    <2>4. \A d \in Callers : call'[d] # Nil => Under(call'[d], writes', row', bodies')
      BY <1>o, <2>1 DEF Others, Placed
    <2>5. \A i \in acked' : writes'[i].create => bodies'[writes'[i].task] > 0
      BY <1>o, <2>1 DEF Placed
    <2> QED BY <2>3, <2>4, <2>5 DEF PlacedInv
  <1>2. ASSUME NEW c \in Callers, Locks(c) PROVE PlacedInv'
    <2>1. /\ call[c] # Nil /\ call[c].at = "mirror" /\ Goes(c, "mirroring")
          /\ UNCHANGED <<row, writes, bodies, acked>>
      BY <1>2, Zenon DEF Locks, At
    <2>2. /\ Others(c) /\ Continues(call[c], call'[c]) /\ call'[c].wrote = call[c].wrote
          /\ call'[c].mem = call[c].mem /\ call'[c].at = "mirroring"
      BY <2>1, GoesEffect, GoesOthers
    <2>3. Under(call'[c], writes, row, bodies)
      BY <1>a, <2>1, <2>2 DEF Under, Continues
    <2> QED BY <1>a, <2>1, <2>2, <2>3 DEF PlacedInv, Others
  <1>3. ASSUME NEW m \in mirrors, MirrorPosts(m) PROVE PlacedInv'
    <2>1. /\ writes' = [i \in DOMAIN writes |->
                           IF i \in m.batch /\ writes[i].posted < 2
                           THEN [writes[i] EXCEPT !.posted = @ + 1] ELSE writes[i]]
          /\ UNCHANGED <<row, bodies, call, acked>>
      BY <1>3, Zenon DEF MirrorPosts
    <2>2. /\ DOMAIN writes' = DOMAIN writes
          /\ \A i \in DOMAIN writes : /\ writes'[i].task = writes[i].task
                                      /\ writes'[i].create = writes[i].create
                                      /\ writes'[i].recorded = writes[i].recorded
      BY <1>w, <2>1 DEF Write
    <2>3. Onward(writes, row, bodies, writes', row', bodies')
      BY <2>1, <2>2, Zenon DEF Onward
    <2>4. \A i \in DOMAIN writes' : writes'[i].recorded => row'[writes'[i].task].issue
      BY <1>a, <2>1, <2>2
    <2> QED BY <1>o, <2>1, <2>3, <2>4 DEF PlacedInv
  <1>4. ASSUME NEW m \in mirrors, MirrorRecords(m) PROVE PlacedInv'
    <2>1. /\ writes' = [i \in DOMAIN writes |->
                           IF i \in m.batch THEN [writes[i] EXCEPT !.recorded = TRUE]
                           ELSE writes[i]]
          /\ row' = [t \in Tasks |-> [row[t] EXCEPT !.issue =
                       @ \/ \E i \in m.batch : writes[i].task = t]]
          /\ bodies' = bodies
      BY <1>4, Zenon DEF MirrorRecords
    <2>2. /\ DOMAIN writes' = DOMAIN writes
          /\ \A i \in DOMAIN writes : /\ writes'[i].task = writes[i].task
                                      /\ writes'[i].create = writes[i].create
                                      /\ i \notin m.batch => writes'[i] = writes[i]
      BY <1>w, <2>1 DEF Write
    <2>3. \A t \in Tasks :
             row'[t].issue = (row[t].issue \/ \E i \in m.batch : writes[i].task = t)
      BY <2>1 DEF BackendTypeOK
    <2>4. Onward(writes, row, bodies, writes', row', bodies')
      BY <2>1, <2>2, <2>3 DEF Onward
    <2>5. \A i \in DOMAIN writes' : writes'[i].recorded => row'[writes'[i].task].issue
      BY <1>a, <1>w, <2>2, <2>3
    <2>6. CASE m.of = Nil
      <3>1. call' = call /\ acked' = acked
        BY <1>4, <2>6, Zenon DEF MirrorRecords
      <3> QED BY <1>o, <2>4, <2>5, <3>1 DEF PlacedInv
    <2>7. CASE m.of # Nil
      <3> DEFINE c == m.of
                 k == call[c]
      <3>1. c \in Callers /\ call[c] # Nil /\ call[c].at = "mirroring"
            /\ Proceeds(c, FALSE)
        <4>1. c \in Callers /\ At(c, "mirroring")
          BY <2>7 DEF LockInv, BackendTypeOK
        <4> QED BY <1>4, <2>7, <4>1 DEF MirrorRecords, At
      <3>2. /\ k.wrote \in DOMAIN writes
            /\ k.wrote \in m.batch \/ writes[k.wrote].recorded
        BY <2>7 DEF AckedInv
      <3>3. /\ Under(k, writes, row, bodies) /\ Under(k, writes', row', bodies')
            /\ k \in Call /\ k.wrote # 0
        <4>1. DOMAIN writes \subseteq WriteIds
          BY WritesFunction
        <4>2. 0 \notin WriteIds
          BY BackendAssumption DEF WriteIds
        <4> QED BY <1>a, <1>o, <1>w, <2>4, <3>1, <3>2, <4>1, <4>2
      <3>4. row'[k.task].issue
        <4>1. k.task \in Tasks /\ writes[k.wrote].task = k.task
          BY <3>3 DEF Under, Call
        <4> QED BY <1>a, <2>3, <3>2, <4>1
      <3>5. /\ Others(c)
            /\ k.verb # "create" => call'[c] = Nil /\ Acks(c, FALSE)
            /\ k.verb = "create" =>
                 /\ acked' = acked
                 /\ call'[c].verb = "create" /\ call'[c].task = k.task
                 /\ call'[c].wrote = k.wrote /\ call'[c].mem = k.mem
                 /\ call'[c].look = {k.task} /\ call'[c].next = "end"
                 /\ call'[c].at = "resolve"
        BY <3>1, ProceedsEffect
      <3>6. k.at = "mirroring"
        BY <3>1
      <3> HIDE DEF k, c
      <3>7. call'[c] # Nil => Under(call'[c], writes', row', bodies')
        BY <3>3, <3>4, <3>5, <3>6 DEF Under
      <3>8. \A i \in acked' : writes'[i].create => bodies'[writes'[i].task] > 0
        <4>1. k.verb # "create" => ~writes'[k.wrote].create
          BY <3>3 DEF Under
        <4>2. acked' = acked \/ (k.verb # "create" /\ acked' = acked \cup {k.wrote})
          BY <3>5 DEF Acks, k
        <4> QED BY <1>o, <2>4, <4>1, <4>2
      <3>9. \A d \in Callers : call'[d] # Nil => Under(call'[d], writes', row', bodies')
        BY <1>o, <2>4, <3>5, <3>7 DEF Others
      <3> QED BY <2>5, <3>8, <3>9 DEF PlacedInv
    <2> QED BY <2>6, <2>7
  <1>5. ASSUME NEW m \in mirrors, MirrorFails(m) PROVE PlacedInv'
    <2>1. UNCHANGED <<row, writes, bodies>> /\ m.of # Nil
      BY <1>5, Zenon DEF MirrorFails
    <2> DEFINE c == m.of
    <2>2. c \in Callers /\ call[c] # Nil /\ call[c].at = "mirroring" /\ Fails(c)
      <3>1. c \in Callers /\ At(c, "mirroring")
        BY <2>1 DEF LockInv, BackendTypeOK
      <3>2. Fails(c)
        BY <1>5, Zenon DEF MirrorFails
      <3> QED BY <3>1, <3>2 DEF At
    <2> HIDE DEF c
    <2>3. Under(call[c], writes', row', bodies')
      BY <1>a, <2>1, <2>2
    <2>4. Placed(c) /\ Others(c) /\ acked' = acked
      BY <2>2, <2>3, BehindPlaced, BehindEffect
    <2> QED BY <1>a, <2>1, <2>4 DEF PlacedInv, Placed, Others
  <1>6. ASSUME NEW c \in Callers, Dies(c) PROVE PlacedInv'
    <2>1. UNCHANGED <<row, writes, bodies, acked>> /\ Ends(c)
      BY <1>6, Zenon DEF Dies
    <2>2. \A d \in Callers : call'[d] # Nil => call'[d] = call[d]
      BY <2>1, EndsTypes
    <2> QED BY <1>a, <2>1, <2>2 DEF PlacedInv
  <1>7. ASSUME NEW t \in Tasks, Expires(t) PROVE PlacedInv'
    <2>1. /\ UNCHANGED <<writes, bodies, call, acked>>
          /\ row' = [row EXCEPT ![t].state = "ready", ![t].run = 0]
      BY <1>7, Zenon DEF Expires
    <2>2. \A u \in Tasks : row'[u].issue = row[u].issue
      BY <2>1 DEF BackendTypeOK
    <2>3. Onward(writes, row, bodies, writes', row', bodies')
      BY <2>1, <2>2 DEF Onward
    <2> QED BY <1>a, <1>o, <1>w, <2>1, <2>2, <2>3 DEF PlacedInv
  <1>8. CASE UNCHANGED vars
    <2>1. UNCHANGED <<row, writes, bodies, call, acked>>
      BY <1>8, Zenon DEF vars
    <2> QED BY <2>1 DEF PlacedInv
  <1> QED BY <1>1, <1>2, <1>3, <1>4, <1>5, <1>6, <1>7, <1>8
          DEF BackendNext, CallStep, PlainStep

-----------------------------------------------------------------------------
(* Calls that follow one another.                                          *)

(* k is the one call that is under way, or Nil.                            *)
Alone(k, made) ==
    \/ k = Nil /\ \A d \in Callers : made[d] = Nil
    \/ \E c \in Callers : /\ k # Nil /\ k = made[c]
                          /\ \A d \in Callers \ {c} : made[d] = Nil

Fresh(t, b, f) == b[t] = 0 /\ ~f.keys[t].pending /\ ~f.keys[t].issue

(* What is not yet created is unknown, and a body that is there and still  *)
(* pending is of a task whose issue the file has: it is not resolved again.*)
Tidy(r, b, f) ==
    \A t \in Tasks :
        /\ r[t].state = "absent" => Fresh(t, b, f) /\ r[t].run = 0
        /\ b[t] <= 1
        /\ b[t] = 1 /\ f.keys[t].pending => Seen(t, f)

(* Where the call k stands with the bodies: it has the file's memory, looks*)
(* at nothing whose issue is in the file, and puts a body only where there *)
(* is none.                                                                *)
Once(k, r, b, f) ==
    /\ Tidy(r, b, f)
    /\ k # Nil =>
          /\ k.mem = f
          /\ \A u \in k.look : r[u].state # "absent" /\ ~Seen(u, f)
          /\ k.at = "adopt" => k.look = {}
          /\ k.at = "body" => b[k.of] = 0 /\ Seen(k.of, f)
          /\ k.at = "note" => Fresh(k.task, b, f)
          /\ r[k.task].state = "absent" <=> k.verb = "create" /\ k.at = "serve"
          /\ k.verb = "create" =>
                /\ k.at # "adopt"
                /\ k.at \in {"mirror", "mirroring"} => ~f.keys[k.task].issue
                /\ k.at \in {"resolve", "body", "forget"} => k.next = "end"

Agrees(t, r, f) ==
    IF r[t].run = 0 THEN f.runs[t] = Nil
    ELSE f.runs[t] # Nil /\ f.runs[t].id = r[t].run

(* While no lease runs out and no call dies, the file has the service's    *)
(* runs, all but the one the call k has just been given or has just given  *)
(* back.                                                                   *)
Shared(k, r, f) ==
    /\ \A t \in Tasks : r[t].state \in {"absent", "ready", "done"} => r[t].run = 0
    /\ \A t \in Tasks :
          \/ Agrees(t, r, f)
          \/ k # Nil /\ k.task = t /\ k.at \in {"hold", "drop"}
    /\ k # Nil /\ k.at = "hold" => r[k.task].run = k.run /\ k.run # 0
    /\ k # Nil /\ k.at = "drop" => r[k.task].run = 0

SeqInv ==
    ~overlapped => \E k \in Call \cup {Nil} :
        /\ Alone(k, call)
        /\ Once(k, row, bodies, file)
        /\ ~expired /\ deaths = 0 => Shared(k, row, file)

(* From k to l: nothing but the issues, and what the file knows of them.   *)
LEMMA QuietKeeps ==
    ASSUME NEW k, NEW l, NEW r, NEW s, NEW b, NEW f, NEW g, Once(k, r, b, f),
           \A t \in Tasks : s[t].state = r[t].state /\ s[t].run = r[t].run,
           \A t \in Tasks : /\ g.keys[t].pending = f.keys[t].pending
                            /\ Seen(t, f) => Seen(t, g)
                            /\ r[t].state = "absent" => ~g.keys[t].issue,
           g.runs = f.runs,
           k # Nil => k.at \notin {"hold", "drop"},
           l # Nil => /\ l.mem = g /\ l.task \in Tasks /\ l.look \subseteq Tasks
                      /\ l.at \in {"serve", "adopt", "resolve", "mirror", "mirroring"}
                      /\ \A u \in l.look : r[u].state # "absent" /\ ~Seen(u, g)
                      /\ l.at = "adopt" => l.look = {}
                      /\ r[l.task].state = "absent" <=> l.verb = "create" /\ l.at = "serve"
                      /\ l.verb = "create" =>
                            /\ l.at # "adopt"
                            /\ l.at \in {"mirror", "mirroring"} => ~g.keys[l.task].issue
                            /\ l.at = "resolve" => l.next = "end"
    PROVE  Once(l, s, b, g) /\ (Shared(k, r, f) => Shared(l, s, g))
  <1>1. Tidy(s, b, g)
    BY DEF Once, Tidy, Fresh
  <1>2. Once(l, s, b, g)
    BY <1>1 DEF Once
  <1>3. ASSUME Shared(k, r, f) PROVE Shared(l, s, g)
    BY <1>3 DEF Shared, Agrees
  <1> QED BY <1>2, <1>3

(* How a caller's step moves the one call on.                              *)
Orderly(c) ==
    /\ Once(call'[c], row', bodies', file')
    /\ Shared(call[c], row, file) => Shared(call'[c], row', file')

(* A body put where there is none, for a task whose issue the file has.    *)
LEMMA BodyTidy ==
    ASSUME NEW r, NEW f, NEW u \in Tasks, bodies \in [Tasks -> 0..2],
           Tidy(r, bodies, f), bodies[u] = 0, Seen(u, f)
    PROVE  Tidy(r, WithBody(u), f)
  <1>1. WithBody(u)[u] = 1 /\ \A t \in Tasks : t # u => WithBody(u)[t] = bodies[t]
    BY DEF WithBody
  <1>2. r[u].state # "absent"
    BY DEF Tidy, Fresh, Seen
  <1> QED BY <1>1, <1>2 DEF Tidy, Fresh

(* A call that ends before it has touched a run.                           *)
LEMMA StopsOrderly ==
    ASSUME BackendTypeOK, NEW c \in Callers, call[c] # Nil,
           Once(call[c], row, bodies, file),
           call[c].at \notin {"hold", "drop"}, call'[c] = Nil,
           \A t \in Tasks : row'[t].state = row[t].state /\ row'[t].run = row[t].run,
           UNCHANGED file, Tidy(row, bodies', file)
    PROVE  Orderly(c)
  <1> DEFINE k == call[c]
  <1>1. Tidy(row', bodies', file')
    BY DEF Tidy
  <1>2. Once(Nil, row', bodies', file')
    BY <1>1 DEF Once
  <1>3. k # Nil /\ k.at \notin {"hold", "drop"}
    OBVIOUS
  <1> HIDE DEF k
  <1>4. ASSUME Shared(k, row, file) PROVE Shared(Nil, row', file')
    BY <1>3, <1>4 DEF Shared, Agrees
  <1> QED BY <1>2, <1>4 DEF Orderly, k

(* A call that is done with, or waits for the mirror, or is a create that  *)
(* reads its task again.                                                   *)
LEMMA LeavesOrderly ==
    ASSUME BackendTypeOK, NEW c \in Callers, call[c] # Nil,
           Once(call[c], row, bodies, file),
           call[c].at \in {"serve", "mirror", "mirroring"},
           \A t \in Tasks : row'[t].state = row[t].state /\ row'[t].run = row[t].run,
           UNCHANGED <<bodies, file>>,
           call'[c] # Nil =>
              /\ call'[c].mem = call[c].mem /\ call'[c].task = call[c].task
              /\ call'[c].verb = call[c].verb
              /\ \/ /\ call'[c].at \in {"mirror", "mirroring"}
                    /\ call'[c].look = call[c].look
                    /\ call[c].at = "serve" => call[c].verb # "create"
                 \/ /\ call'[c].at = "resolve" /\ call'[c].look = {call[c].task}
                    /\ call[c].verb = "create" /\ call'[c].next = "end"
                    /\ call[c].at # "serve"
    PROVE  Orderly(c)
  <1> DEFINE k == call[c]
             l == call'[c]
  <1>1. k # Nil /\ k.task \in Tasks /\ k.mem = file /\ k.look \subseteq Tasks
    BY CallerCalls DEF Once, Call
  <1>2. Once(k, row, bodies, file) /\ k.at \in {"serve", "mirror", "mirroring"}
    OBVIOUS
  <1>3. l # Nil =>
          /\ l.mem = k.mem /\ l.task = k.task /\ l.verb = k.verb
          /\ \/ /\ l.at \in {"mirror", "mirroring"} /\ l.look = k.look
                /\ k.at = "serve" => k.verb # "create"
             \/ /\ l.at = "resolve" /\ l.look = {k.task}
                /\ k.verb = "create" /\ l.next = "end" /\ k.at # "serve"
    OBVIOUS
  <1> HIDE DEF k, l
  <1>4. l # Nil => /\ l.mem = file' /\ l.task \in Tasks /\ l.look \subseteq Tasks
                   /\ l.at \in {"serve", "adopt", "resolve", "mirror", "mirroring"}
                   /\ \A u \in l.look : row[u].state # "absent" /\ ~Seen(u, file')
                   /\ l.at = "adopt" => l.look = {}
                   /\ row[l.task].state = "absent" <=> l.verb = "create" /\ l.at = "serve"
                   /\ l.verb = "create" =>
                         /\ l.at # "adopt"
                         /\ l.at \in {"mirror", "mirroring"} => ~file'.keys[l.task].issue
                         /\ l.at = "resolve" => l.next = "end"
    BY <1>1, <1>2, <1>3 DEF Once, Seen
  <1>5. /\ \A t \in Tasks : /\ file'.keys[t].pending = file.keys[t].pending
                            /\ Seen(t, file) => Seen(t, file')
                            /\ row[t].state = "absent" => ~file'.keys[t].issue
        /\ file'.runs = file.runs
    BY <1>2 DEF Once, Tidy, Fresh
  <1>6. Once(l, row', bodies, file') /\ (Shared(k, row, file) => Shared(l, row', file'))
    BY <1>2, <1>4, <1>5, QuietKeeps
  <1> QED BY <1>6 DEF Orderly, k, l

(* A create that goes on without a mirror run, or after one.               *)
LEMMA BehindOrderly ==
    ASSUME BackendTypeOK, NEW c \in Callers, call[c] # Nil,
           Once(call[c], row, bodies, file),
           call[c].at \in {"mirror", "mirroring"},
           \/ Fails(c)
           \/ \E told \in BOOLEAN : Proceeds(c, told),
           \A t \in Tasks : row'[t].state = row[t].state /\ row'[t].run = row[t].run,
           UNCHANGED <<bodies, file>>
    PROVE  Orderly(c)
  <1>1. call'[c] # Nil =>
              /\ call'[c].mem = call[c].mem /\ call'[c].task = call[c].task
              /\ call'[c].verb = call[c].verb /\ call[c].verb = "create"
              /\ call'[c].at = "resolve" /\ call'[c].look = {call[c].task}
              /\ call'[c].next = "end"
    BY BehindEffect, ProceedsEffect
  <1> QED BY <1>1, LeavesOrderly

LEMMA BreaksOrderly ==
    ASSUME BackendTypeOK, NEW c \in Callers, Once(call[c], row, bodies, file), Breaks(c)
    PROVE  Orderly(c)
  <1> DEFINE k == call[c]
  <1>1. /\ k # Nil /\ k.at \in {"adopt", "resolve", "serve", "body"}
        /\ call'[c] = Nil /\ UNCHANGED <<row, file>>
        /\ bodies' = bodies \/ (k.at = "body" /\ bodies' = WithBody(k.of))
    BY EndsOthers DEF Breaks, At, service
  <1>2. Once(k, row, bodies, file) /\ bodies \in [Tasks -> 0..2] /\ k.of \in Tasks
    BY <1>1, CallerCalls DEF BackendTypeOK, Call
  <1>3. Tidy(row, bodies', file)
    <2>1. CASE bodies' = bodies
      BY <1>2, <2>1 DEF Once
    <2>2. CASE k.at = "body" /\ bodies' = WithBody(k.of)
      BY <1>1, <1>2, <2>2, BodyTidy DEF Once
    <2> QED BY <1>1, <2>1, <2>2
  <1> QED BY <1>1, <1>2, <1>3, StopsOrderly

(* A claim that gets its run.                                              *)
LEMMA ClaimsOrderly ==
    ASSUME BackendTypeOK, NEW c \in Callers, Once(call[c], row, bodies, file), Claims(c)
    PROVE  Orderly(c)
  <1> DEFINE k == call[c]
             l == call'[c]
  <1>1. /\ k # Nil /\ k.at = "serve" /\ k.verb = "claim"
        /\ UNCHANGED <<bodies, file>>
    BY Zenon DEF Claims, At
  <1>2. k \in Call /\ k.task \in Tasks /\ k.mem = file
    BY <1>1, CallerCalls DEF Once, Call
  <1>3. CASE Ends(c) /\ row' = row
    <2>1. l = Nil
      BY <1>3, EndsOthers
    <2>2. Tidy(row, bodies', file)
      BY <1>1 DEF Once
    <2> QED BY <1>1, <1>3, <2>1, <2>2, StopsOrderly
  <1>4. CASE ~(Ends(c) /\ row' = row)
    <2>1. /\ row' = [row EXCEPT ![k.task].state = "doing", ![k.task].run = given + 1]
          /\ call' = [call EXCEPT ![c].run = given + 1, ![c].at = "hold"]
          /\ given < MaxRuns
      BY <1>4 DEF Claims
    <2>2. given + 1 \in 0..MaxRuns /\ given + 1 # 0
      BY <2>1, BackendAssumption DEF BackendTypeOK
    <2>3. l = [k EXCEPT !.run = given + 1, !.at = "hold"]
      BY <2>1 DEF BackendTypeOK
    <2>4. /\ l.mem = k.mem /\ l.task = k.task /\ l.at = "hold" /\ l.run = given + 1
          /\ l.verb = "claim" /\ l.look = k.look /\ l # Nil
      <3>1. [k EXCEPT !.run = given + 1, !.at = "hold"] \in Call
        BY <1>2, <2>2 DEF Call
      <3>2. l # Nil
        BY <2>3, <3>1, NilIsNoCall
      <3> QED BY <1>1, <1>2, <2>3, <3>2 DEF Call
    <2>5. /\ row'[k.task].state = "doing" /\ row'[k.task].run = given + 1
          /\ \A t \in Tasks : t # k.task => row'[t] = row[t]
      <3>1. row \in Rows
        BY DEF BackendTypeOK, Rows
      <3> DEFINE u == k.task
      <3>2. row' = [row EXCEPT ![u].state = "doing", ![u].run = given + 1] /\ u \in Tasks
        BY <1>2, <2>1
      <3> HIDE DEF k, u
      <3>3. /\ row'[u].state = "doing" /\ row'[u].run = given + 1
            /\ \A t \in Tasks : t # u => row'[t] = row[t]
        BY <3>1, <3>2 DEF Rows
      <3> QED BY <3>3 DEF u
    <2>k. Once(k, row, bodies, file)
      OBVIOUS
    <2> HIDE DEF k, l
    <2>t. k.look \subseteq Tasks
      BY <1>2 DEF Call
    <2>6. Once(l, row', bodies', file')
      <3>1. Tidy(row', bodies', file')
        BY <1>1, <2>5, <2>k DEF Once, Tidy
      <3>2. \A u \in k.look : row'[u].state # "absent"
        BY <2>5, <2>k, <2>t, <1>1 DEF Once
      <3> QED BY <1>1, <1>2, <2>4, <2>5, <2>k, <3>1, <3>2 DEF Once
    <2>7. ASSUME Shared(k, row, file) PROVE Shared(l, row', file')
      BY <1>1, <1>2, <2>2, <2>4, <2>5, <2>7 DEF Shared, Agrees
    <2> QED BY <2>6, <2>7 DEF Orderly, k, l
  <1> QED BY <1>3, <1>4

(* Release, and complete: the run is given back.                           *)
LEMMA GivesBackOrderly ==
    ASSUME BackendTypeOK, NEW c \in Callers, Once(call[c], row, bodies, file),
           call[c] # Nil, call[c].at = "serve", call[c].verb # "create",
           NEW s \in {"ready", "done"},
           row' = [row EXCEPT ![call[c].task].state = s, ![call[c].task].run = 0],
           Continues(call[c], call'[c]), call'[c].mem = call[c].mem, call'[c].at = "drop",
           call'[c].look = call[c].look, UNCHANGED <<bodies, file>>
    PROVE  Orderly(c)
  <1> DEFINE k == call[c]
             l == call'[c]
  <1>1. k \in Call /\ k.task \in Tasks /\ k.mem = file /\ k.look \subseteq Tasks
    BY CallerCalls DEF Once, Call
  <1>2. /\ row'[k.task].state = s /\ row'[k.task].run = 0
        /\ \A t \in Tasks : t # k.task => row'[t] = row[t]
    <2>1. row \in Rows
      BY DEF BackendTypeOK, Rows
    <2> DEFINE u == k.task
    <2>2. row' = [row EXCEPT ![u].state = s, ![u].run = 0] /\ u \in Tasks
      BY <1>1
    <2> HIDE DEF k, u
    <2>3. /\ row'[u].state = s /\ row'[u].run = 0
          /\ \A t \in Tasks : t # u => row'[t] = row[t]
      BY <2>1, <2>2 DEF Rows
    <2> QED BY <2>3 DEF u
  <1>3. /\ k # Nil /\ k.at = "serve" /\ k.verb # "create"
        /\ Continues(k, l) /\ l.mem = k.mem /\ l.at = "drop" /\ l.look = k.look
        /\ bodies' = bodies /\ file' = file /\ Once(k, row, bodies, file)
        /\ s # "absent"
    OBVIOUS
  <1> HIDE DEF k, l
  <1>4. Once(l, row', bodies', file')
    <2>1. Tidy(row', bodies', file')
      BY <1>2, <1>3 DEF Once, Tidy
    <2>2. \A u \in k.look : row'[u].state # "absent"
      BY <1>1, <1>2, <1>3 DEF Once
    <2> QED BY <1>1, <1>2, <1>3, <2>1, <2>2 DEF Once, Continues
  <1>5. ASSUME Shared(k, row, file) PROVE Shared(l, row', file')
    <2>1. l.task = k.task /\ l.at = "drop" /\ l # Nil /\ file' = file
      BY <1>3 DEF Continues
    <2>2. \A t \in Tasks : t # k.task => Agrees(t, row', file')
      BY <1>2, <1>3, <1>5 DEF Shared, Agrees
    <2>3. \A t \in Tasks : row'[t].state \in {"absent", "ready", "done"} => row'[t].run = 0
      BY <1>2, <1>5 DEF Shared
    <2> QED BY <1>2, <2>1, <2>2, <2>3 DEF Shared
  <1> QED BY <1>4, <1>5 DEF Orderly, k, l

(* Hold and drop: the file learns of it.                                   *)
LEMMA RunsSet ==
    ASSUME NEW m \in State, NEW k \in Tasks, NEW r
    PROVE  LET n == [m EXCEPT !.runs[k] = r] IN
           /\ n.runs[k] = r /\ n.keys = m.keys
           /\ \A t \in Tasks : t # k => n.runs[t] = m.runs[t]
  BY DEF State

LEMMA HoldsOrderly ==
    ASSUME BackendTypeOK, NEW c \in Callers, Once(call[c], row, bodies, file), Holds(c)
    PROVE  Orderly(c)
  <1> DEFINE k == call[c]
             run == [id |-> k.run, holder |-> k.agent]
             mem == [k.mem EXCEPT !.runs[k.task] = run]
  <1>1. /\ k # Nil /\ k.at = "hold" /\ Saves(c, mem, "end")
        /\ UNCHANGED <<row, bodies>>
    BY DEF Holds, At, service
  <1>2. k \in Call /\ k.task \in Tasks /\ k.mem = file /\ file \in State
    BY <1>1, CallerCalls DEF Once, Call, BackendTypeOK
  <1>3. run \in Held /\ run.id = k.run
    BY <1>2 DEF Held, Call
  <1>4. /\ mem.runs[k.task] = run /\ mem.keys = file.keys
        /\ \A t \in Tasks : t # k.task => mem.runs[t] = file.runs[t]
    BY <1>2, RunsSet
  <1>5. call'[c] = Nil /\ file' = mem
    BY <1>1, SavesOthers DEF Saves
  <1>6. Once(k, row, bodies, file) /\ run # Nil
    BY <1>3, NilIsNoCall
  <1> HIDE DEF k, mem, run
  <1>7. Once(Nil, row', bodies', file')
    BY <1>1, <1>4, <1>5, <1>6 DEF Once, Tidy, Fresh, Seen
  <1>8. ASSUME Shared(k, row, file) PROVE Shared(Nil, row', file')
    BY <1>1, <1>2, <1>3, <1>4, <1>5, <1>6, <1>8 DEF Shared, Agrees
  <1> QED BY <1>5, <1>7, <1>8 DEF Orderly, k

LEMMA DropsOrderly ==
    ASSUME BackendTypeOK, NEW c \in Callers, Once(call[c], row, bodies, file), Drops(c)
    PROVE  Orderly(c)
  <1> DEFINE k == call[c]
             l == call'[c]
             mem == [k.mem EXCEPT !.runs[k.task] = Nil]
  <1>1. /\ k # Nil /\ k.at = "drop" /\ UNCHANGED <<row, bodies>>
        /\ Saves(c, mem, IF k.verb = "complete" THEN "mirror" ELSE "end")
    BY DEF Drops, At, service, WithoutRun
  <1>2. k \in Call /\ k.task \in Tasks /\ k.mem = file /\ file \in State
    BY <1>1, CallerCalls DEF Once, Call, BackendTypeOK
  <1>3. /\ mem.runs[k.task] = Nil /\ mem.keys = file.keys
        /\ \A t \in Tasks : t # k.task => mem.runs[t] = file.runs[t]
    BY <1>2, RunsSet
  <1>4. mem \in State
    BY <1>2, MemRuns
  <1> HIDE DEF mem
  <1>5. /\ file' = mem
        /\ l # Nil => /\ k.verb = "complete" /\ Continues(k, l)
                      /\ l.mem = mem /\ l.look = k.look /\ l.at = "mirror"
    BY <1>1, <1>4, SavesEffect
  <1>6. Once(k, row, bodies, file)
    OBVIOUS
  <1> HIDE DEF k, l
  <1>7. Once(l, row', bodies', file')
    <2>1. Tidy(row', bodies', file')
      BY <1>1, <1>3, <1>5, <1>6 DEF Once, Tidy, Fresh, Seen
    <2> QED BY <1>1, <1>3, <1>5, <1>6, <2>1 DEF Once, Seen, Continues
  <1>8. ASSUME Shared(k, row, file) PROVE Shared(l, row', file')
    BY <1>1, <1>2, <1>3, <1>5, <1>8 DEF Shared, Agrees, Continues
  <1> QED BY <1>7, <1>8 DEF Orderly, k, l

LEMMA ResolvesOrderly ==
    ASSUME BackendTypeOK, NEW c \in Callers, Once(call[c], row, bodies, file), Resolves(c)
    PROVE  Orderly(c)
  <1> DEFINE k == call[c]
             l == call'[c]
             look(u) == k.look \ {u}
             to(u) == IF row[u].issue /\ k.mem.keys[u].pending THEN "body"
                      ELSE IF look(u) = {} THEN k.next ELSE "resolve"
  <1>1. k # Nil /\ k.at = "resolve" /\ UNCHANGED <<row, bodies>>
    BY DEF Resolves, At, service
  <1>2. k \in Call /\ k.task \in Tasks /\ k.mem = file /\ k.look \subseteq Tasks
        /\ k.next \in {"serve", "end"}
    BY <1>1, CallerCalls DEF Once, Call
  <1>3. PICK u \in k.look, mem \in State :
             /\ mem.runs = k.mem.runs
             /\ \A t \in Tasks : mem.keys[t].pending = k.mem.keys[t].pending
             /\ \A t \in Tasks : t # u => mem.keys[t] = k.mem.keys[t]
             /\ row[u].issue \/ Seen(u, k.mem) => Seen(u, mem)
             /\ file' = mem \/ (mem = k.mem /\ file' = file)
             /\ to(u) = "end" => l = Nil
             /\ to(u) # "end" =>
                  /\ Continues(k, l) /\ l.mem = mem /\ l.look = look(u)
                  /\ l.of = u /\ l.at = to(u)
    BY ResolvesEffect
  <1>4. /\ file' = mem /\ mem.runs = file.runs
        /\ \A t \in Tasks : mem.keys[t].pending = file.keys[t].pending
        /\ \A t \in Tasks : t # u => mem.keys[t] = file.keys[t]
        /\ row[u].issue \/ Seen(u, file) => Seen(u, mem)
    BY <1>2, <1>3
  <1>5. Once(k, row, bodies, file) /\ u \in Tasks /\ u \in k.look
    BY <1>2
  <1>n. k # Nil /\ k.at = "resolve"
    BY <1>1
  <1>6. CASE to(u) = "body"
    <2>1. /\ Continues(k, l) /\ l.mem = mem /\ l.of = u /\ l.at = "body"
          /\ l.look = k.look \ {u}
      BY <1>3, <1>6
    <2>2. file.keys[u].pending /\ row[u].issue
      BY <1>2, <1>6
    <2> HIDE DEF k, l, to, look
    <2>3. bodies[u] = 0
      <3>1. ~Seen(u, file)
        BY <1>n, <1>5 DEF Once
      <3>2. bodies[u] \in 0..2 /\ bodies[u] <= 1 /\ bodies[u] # 1
        BY <1>5, <2>2, <3>1 DEF Once, Tidy, BackendTypeOK
      <3> QED BY <3>2
    <2>4. Tidy(row, bodies, mem)
      <3>1. row[u].state # "absent"
        BY <1>n, <1>5 DEF Once
      <3> QED BY <1>4, <1>5, <2>3, <3>1 DEF Once, Tidy, Fresh, Seen
    <2>5. \A v \in l.look : row[v].state # "absent" /\ ~Seen(v, mem)
      BY <1>2, <1>4, <1>5, <1>n, <2>1 DEF Once, Seen
    <2>6. Seen(u, mem)
      BY <1>4, <2>2
    <2>7. Once(l, row', bodies', file')
      BY <1>1, <1>4, <1>5, <1>n, <2>1, <2>3, <2>4, <2>5, <2>6 DEF Once, Continues
    <2>8. ASSUME Shared(k, row, file) PROVE Shared(l, row', file')
      BY <1>1, <1>4, <1>n, <2>1, <2>8 DEF Shared, Agrees
    <2> QED BY <2>7, <2>8 DEF Orderly, k, l
  <1>7. CASE to(u) # "body"
    <2>1. l # Nil => /\ Continues(k, l) /\ l.mem = mem /\ l.look = k.look \ {u}
                     /\ l.at \in {"resolve", "serve"} /\ l.at \in {"resolve", k.next}
      BY <1>2, <1>3, <1>7
    <2> HIDE DEF to, look, k, l
    <2>2. \A t \in Tasks : /\ mem.keys[t].pending = file.keys[t].pending
                           /\ Seen(t, file) => Seen(t, mem)
                           /\ row[t].state = "absent" => ~mem.keys[t].issue
      <3>1. row[u].state # "absent"
        BY <1>n, <1>5 DEF Once
      <3> QED BY <1>4, <1>5, <3>1 DEF Once, Tidy, Fresh, Seen
    <2>3. l # Nil => /\ l.mem = mem /\ l.task \in Tasks /\ l.look \subseteq Tasks
                     /\ l.at \in {"serve", "adopt", "resolve", "mirror", "mirroring"}
                     /\ \A v \in l.look : row[v].state # "absent" /\ ~Seen(v, mem)
                     /\ l.at = "adopt" => l.look = {}
                     /\ row[l.task].state = "absent" <=> l.verb = "create" /\ l.at = "serve"
                     /\ l.verb = "create" =>
                           /\ l.at # "adopt"
                           /\ l.at \in {"mirror", "mirroring"} => ~mem.keys[l.task].issue
                           /\ l.at = "resolve" => l.next = "end"
      BY <1>2, <1>4, <1>5, <1>n, <2>1 DEF Once, Seen, Continues
    <2>4. Once(l, row, bodies, mem) /\ (Shared(k, row, file) => Shared(l, row, mem))
      BY <1>n, <1>4, <1>5, <2>2, <2>3, QuietKeeps
    <2> QED BY <1>1, <1>4, <2>4 DEF Orderly, k, l
  <1> QED BY <1>6, <1>7

LEMMA AdoptsOrderly ==
    ASSUME BackendTypeOK, NEW c \in Callers, Once(call[c], row, bodies, file), Adopts(c)
    PROVE  Orderly(c)
  <1> DEFINE k == call[c]
             l == call'[c]
  <1>1. PICK mem \in State :
             /\ k # Nil /\ k.at = "adopt"
             /\ mem.runs = k.mem.runs
             /\ \A t \in Tasks : /\ mem.keys[t].pending = k.mem.keys[t].pending
                                 /\ t # k.task => mem.keys[t] = k.mem.keys[t]
                                 /\ Seen(t, k.mem) => Seen(t, mem)
             /\ file' = mem
             /\ Continues(k, l) /\ l.mem = mem /\ l.look = k.look /\ l.at = "serve"
             /\ UNCHANGED <<row, bodies>>
    BY AdoptsEffect
  <1>2. k.task \in Tasks /\ k.mem = file /\ Once(k, row, bodies, file)
    BY <1>1, CallerCalls DEF Once, Call
  <1> HIDE DEF k, l
  <1>3. /\ k.look = {} /\ row[k.task].state # "absent" /\ k.verb # "create"
    BY <1>1, <1>2 DEF Once
  <1>4. \A t \in Tasks : /\ mem.keys[t].pending = file.keys[t].pending
                         /\ Seen(t, file) => Seen(t, mem)
                         /\ row[t].state = "absent" => ~mem.keys[t].issue
    BY <1>1, <1>2, <1>3 DEF Once, Tidy, Fresh
  <1>5. l # Nil => /\ l.mem = mem /\ l.task \in Tasks /\ l.look \subseteq Tasks
                   /\ l.at \in {"serve", "adopt", "resolve", "mirror", "mirroring"}
                   /\ \A v \in l.look : row[v].state # "absent" /\ ~Seen(v, mem)
                   /\ l.at = "adopt" => l.look = {}
                   /\ row[l.task].state = "absent" <=> l.verb = "create" /\ l.at = "serve"
                   /\ l.verb = "create" =>
                         /\ l.at # "adopt"
                         /\ l.at \in {"mirror", "mirroring"} => ~mem.keys[l.task].issue
                         /\ l.at = "resolve" => l.next = "end"
    BY <1>1, <1>2, <1>3 DEF Continues
  <1>6. mem.runs = file.runs /\ k.at \notin {"hold", "drop"}
    BY <1>1, <1>2
  <1>7. Once(l, row, bodies, mem) /\ (Shared(k, row, file) => Shared(l, row, mem))
    BY <1>2, <1>4, <1>5, <1>6, QuietKeeps
  <1> QED BY <1>1, <1>7 DEF Orderly, k, l

LEMMA PlacesOrderly ==
    ASSUME BackendTypeOK, NEW c \in Callers, Once(call[c], row, bodies, file), PlacesBody(c)
    PROVE  Orderly(c)
  <1> DEFINE k == call[c]
             l == call'[c]
  <1>1. /\ k # Nil /\ k.at = "body" /\ Goes(c, "forget") /\ UNCHANGED <<row, file>>
        /\ bodies' = WithBody(k.of)
    BY DEF PlacesBody, At, service
  <1>2. k \in Call /\ k.of \in Tasks /\ k.mem = file
    BY <1>1, CallerCalls DEF Once, Call
  <1>3. /\ Continues(k, l) /\ l.mem = k.mem /\ l.of = k.of /\ l.look = k.look
        /\ l.at = "forget"
    BY <1>1, GoesEffect
  <1>4. Once(k, row, bodies, file) /\ bodies \in [Tasks -> 0..2]
    BY DEF BackendTypeOK
  <1> HIDE DEF k, l
  <1>5. Tidy(row', bodies', file')
    <2>1. Tidy(row, bodies, file) /\ bodies[k.of] = 0 /\ Seen(k.of, file)
      BY <1>1, <1>4 DEF Once
    <2>2. Tidy(row, WithBody(k.of), file)
      BY <1>2, <1>4, <2>1, BodyTidy
    <2> QED BY <1>1, <2>2
  <1>6. Once(l, row', bodies', file')
    BY <1>1, <1>2, <1>3, <1>4, <1>5 DEF Once, Continues
  <1>7. ASSUME Shared(k, row, file) PROVE Shared(l, row', file')
    BY <1>1, <1>3, <1>7 DEF Shared, Agrees
  <1> QED BY <1>6, <1>7 DEF Orderly, k, l

LEMMA ForgetsOrderly ==
    ASSUME BackendTypeOK, NEW c \in Callers, Once(call[c], row, bodies, file), Forgets(c)
    PROVE  Orderly(c)
  <1> DEFINE k == call[c]
             l == call'[c]
             step == After(c, k.look)
             key == [k.mem.keys[k.of] EXCEPT !.pending = FALSE]
             mem == [k.mem EXCEPT !.keys[k.of] = key]
  <1>1. /\ k # Nil /\ k.at = "forget" /\ UNCHANGED <<row, bodies>>
        /\ Saves(c, WithoutPending(c, k.of), step)
    BY DEF Forgets, At, service
  <1>2. k \in Call /\ k.of \in Tasks /\ k.task \in Tasks /\ k.mem = file /\ file \in State
        /\ k.next \in {"serve", "end"}
    BY <1>1, CallerCalls DEF Once, Call, BackendTypeOK
  <1>3. step \in {"resolve", k.next}
    BY DEF After
  <1>4. k.mem.keys[k.of] \in Key
    BY <1>2 DEF State
  <1>5. key \in Key /\ key.pending = FALSE
    BY <1>4 DEF Key
  <1>6. WithoutPending(c, k.of) = mem
    BY DEF WithoutPending
  <1> HIDE DEF key, step
  <1>k. key.known = k.mem.keys[k.of].known /\ key.issue = k.mem.keys[k.of].issue
    BY <1>4 DEF Key, key
  <1>7. /\ mem \in State /\ mem.runs = file.runs
        /\ ~mem.keys[k.of].pending
        /\ \A t \in Tasks : /\ t # k.of => mem.keys[t] = file.keys[t]
                            /\ mem.keys[t].issue = file.keys[t].issue
                            /\ Seen(t, mem) = Seen(t, file)
    <2>1. mem \in State
      BY <1>2, <1>5, MemKeys
    <2>2. k.of \in Tasks /\ key.known = file.keys[k.of].known /\ key.issue = file.keys[k.of].issue
      BY <1>2, <1>k
    <2>3. mem = [file EXCEPT !.keys[k.of] = key]
      BY <1>2
    <2> HIDE DEF mem, k
    <2>4. /\ mem.runs = file.runs /\ mem.keys[k.of] = key
          /\ \A t \in Tasks : t # k.of => mem.keys[t] = file.keys[t]
      BY <1>2, <2>2, <2>3 DEF State
    <2> QED BY <1>5, <2>1, <2>2, <2>4 DEF Seen
  <1> HIDE DEF mem
  <1>8. /\ file' = mem
        /\ l # Nil => /\ Continues(k, l) /\ l.mem = mem /\ l.look = k.look
                      /\ l.at = step /\ step # "end"
    BY <1>1, <1>2, <1>3, <1>6, <1>7, SavesEffect
  <1>9. Once(k, row, bodies, file) /\ k.look \subseteq Tasks
    BY <1>2 DEF Call
  <1> HIDE DEF k, l
  <1>10. Tidy(row, bodies, mem)
    BY <1>7, <1>9 DEF Once, Tidy, Fresh
  <1>11. Once(l, row', bodies', file')
    BY <1>1, <1>2, <1>3, <1>7, <1>8, <1>9, <1>10 DEF Once, Continues
  <1>12. ASSUME Shared(k, row, file) PROVE Shared(l, row', file')
    BY <1>1, <1>2, <1>3, <1>7, <1>8, <1>12 DEF Shared, Agrees
  <1> QED BY <1>11, <1>12 DEF Orderly, k, l

LEMMA CreatesOrderly ==
    ASSUME BackendTypeOK, NEW c \in Callers, Once(call[c], row, bodies, file), Creates(c)
    PROVE  Orderly(c)
  <1> DEFINE k == call[c]
             l == call'[c]
             u == k.task
  <1>1. /\ k # Nil /\ k.at = "serve" /\ k.verb = "create" /\ Writes(c, "note")
        /\ row' = [row EXCEPT ![u].state = "ready"] /\ UNCHANGED <<bodies, file>>
    BY DEF Creates, At
  <1>2. k \in Call /\ u \in Tasks /\ k.mem = file
    BY <1>1, CallerCalls DEF Once, Call
  <1>3. Continues(k, l) /\ l.mem = k.mem /\ l.look = k.look /\ l.at = "note"
    BY <1>1, WritesEffect
  <1>4. Once(k, row, bodies, file) /\ row \in Rows
    BY DEF BackendTypeOK, Rows
  <1>5. row[u].state = "absent" /\ Fresh(u, bodies, file)
    BY <1>1, <1>2, <1>4 DEF Once, Tidy
  <1>u. u = k.task /\ k.look \subseteq Tasks
    BY <1>2 DEF Call
  <1> HIDE DEF k, l, u
  <1>6. /\ row'[u].state = "ready" /\ row'[u].run = row[u].run
        /\ \A t \in Tasks : t # u => row'[t] = row[t]
    BY <1>1, <1>2, <1>4 DEF Rows
  <1>7. Tidy(row', bodies, file)
    BY <1>4, <1>6 DEF Once, Tidy
  <1>8. \A v \in k.look : row'[v].state # "absent"
    BY <1>1, <1>4, <1>6, <1>u DEF Once
  <1>9. Once(l, row', bodies', file')
    BY <1>1, <1>2, <1>3, <1>4, <1>5, <1>6, <1>7, <1>8, <1>u DEF Once, Continues
  <1>10. ASSUME Shared(k, row, file) PROVE Shared(l, row', file')
    BY <1>1, <1>2, <1>3, <1>5, <1>6, <1>10 DEF Shared, Agrees
  <1> QED BY <1>9, <1>10 DEF Orderly, k, l

LEMMA NotesOrderly ==
    ASSUME BackendTypeOK, NEW c \in Callers, Once(call[c], row, bodies, file), Notes(c)
    PROVE  Orderly(c)
  <1> DEFINE k == call[c]
             l == call'[c]
             u == k.task
             key == [k.mem.keys[u] EXCEPT !.known = TRUE, !.pending = TRUE]
             mem == [k.mem EXCEPT !.keys[u] = key]
  <1>1. /\ k # Nil /\ k.at = "note" /\ UNCHANGED <<row, bodies>>
        /\ Saves(c, [k.mem EXCEPT !.keys[u] = [@ EXCEPT !.known = TRUE, !.pending = TRUE]],
                 "mirror")
    BY DEF Notes, At, service
  <1>2. k \in Call /\ u \in Tasks /\ k.mem = file /\ file \in State
    BY <1>1, CallerCalls DEF Once, Call, BackendTypeOK
  <1>3. k.mem.keys[u] \in Key
    BY <1>2 DEF State
  <1>4. key \in Key /\ key.issue = k.mem.keys[u].issue
    BY <1>3 DEF Key
  <1>5. Saves(c, mem, "mirror")
    BY <1>1
  <1> HIDE DEF key
  <1>6. mem \in State
    BY <1>2, <1>4, MemKeys
  <1>7. /\ mem.runs = file.runs
        /\ \A t \in Tasks : t # u => mem.keys[t] = file.keys[t]
        /\ mem.keys[u].issue = file.keys[u].issue
    BY <1>2, <1>4 DEF State
  <1> HIDE DEF mem
  <1>8. /\ file' = mem /\ Continues(k, l) /\ l.mem = mem /\ l.look = k.look
        /\ l.at = "mirror"
    BY <1>1, <1>5, <1>6, SavesEffect
  <1>9. Once(k, row, bodies, file) /\ u = k.task /\ k.look \subseteq Tasks
    BY <1>2 DEF Call
  <1>n. k # Nil /\ k.at = "note"
    BY <1>1
  <1> HIDE DEF k, l, u
  <1>10. Fresh(u, bodies, file) /\ row[u].state # "absent"
    BY <1>9, <1>n DEF Once
  <1>i. ~mem.keys[u].issue
    BY <1>7, <1>10 DEF Fresh
  <1>11. Tidy(row, bodies, mem)
    <2>1. bodies[u] = 0
      BY <1>10 DEF Fresh
    <2> QED BY <1>7, <1>9, <1>10, <2>1 DEF Once, Tidy, Fresh, Seen
  <1>12. \A v \in k.look : row[v].state # "absent" /\ ~Seen(v, mem)
    BY <1>7, <1>9, <1>i, <1>n DEF Once, Seen
  <1>13. Once(l, row', bodies', file')
    BY <1>1, <1>8, <1>9, <1>10, <1>11, <1>12, <1>i DEF Once, Continues
  <1>14. ASSUME Shared(k, row, file) PROVE Shared(l, row', file')
    BY <1>n, <1>1, <1>7, <1>8, <1>14 DEF Shared, Agrees
  <1> QED BY <1>13, <1>14 DEF Orderly, k, l

LEMMA PlainOrderly ==
    ASSUME BackendTypeOK, NEW c \in Callers, PlainStep(c),
           Once(call[c], row, bodies, file)
    PROVE  Orderly(c)
  <1> USE DEF service, history
  <1>1. ASSUME NEW verb \in Verbs, NEW t \in Tasks, NEW a \in Agents \cup {Nil},
               Begins(c, verb, t, a)
        PROVE  Orderly(c)
    <2> DEFINE l == call'[c]
    <2>1. /\ call[c] = Nil /\ l.mem = file /\ l.task = t /\ l.verb = verb
          /\ l.at \in {"serve", "resolve", "adopt"}
          /\ l # Nil /\ l.look \subseteq Tasks /\ (l.at # "resolve" => l.look = {})
          /\ \A u \in l.look : row[u].state # "absent" /\ ~Seen(u, file)
          /\ verb = "create" <=> row[t].state = "absent"
          /\ verb = "create" => l.at = "serve"
          /\ UNCHANGED <<row, bodies, file>>
      BY <1>1, BeginsEffect
    <2>2. Once(Nil, row, bodies, file)
      BY <2>1
    <2>k. \A u \in Tasks : row[u].state = "absent" => ~file.keys[u].issue
      BY <2>2 DEF Once, Tidy, Fresh
    <2> HIDE DEF l
    <2>3. Once(l, row, bodies, file) /\ (Shared(Nil, row, file) => Shared(l, row, file))
      BY <2>1, <2>2, <2>k, QuietKeeps
    <2> QED BY <2>1, <2>3 DEF Orderly, l
  <1>2. ASSUME SetsStatus(c) \/ Comments(c) PROVE Orderly(c)
    <2>1. /\ call[c] # Nil /\ call[c].at = "serve" /\ call[c].verb \in {"status", "comment"}
          /\ UNCHANGED <<row, bodies, file>> /\ (Ends(c) \/ Writes(c, "mirror"))
      BY <1>2 DEF SetsStatus, Comments, At
    <2>2. call'[c] # Nil =>
              /\ call'[c].mem = call[c].mem /\ call'[c].task = call[c].task
              /\ call'[c].verb = call[c].verb /\ call'[c].at = "mirror"
              /\ call'[c].look = call[c].look
      BY <2>1, EndsOthers, WritesEffect DEF Continues
    <2>3. call[c].verb # "create"
      BY <2>1
    <2> QED BY <2>1, <2>2, <2>3, LeavesOrderly
  <1>3. CASE Releases(c)
    <2>1. /\ call[c] # Nil /\ call[c].at = "serve" /\ call[c].verb = "release"
          /\ UNCHANGED <<bodies, file>>
      BY <1>3 DEF Releases, At
    <2>2. CASE Ends(c) /\ row' = row
      BY <2>1, <2>2, EndsOthers, LeavesOrderly
    <2>3. CASE /\ Goes(c, "drop")
               /\ row' = [row EXCEPT ![call[c].task].state = "ready",
                                     ![call[c].task].run = 0]
      <3>1. /\ Continues(call[c], call'[c]) /\ call'[c].mem = call[c].mem
            /\ call'[c].look = call[c].look /\ call'[c].at = "drop"
        BY <2>1, <2>3, GoesEffect
      <3> QED BY <2>1, <2>3, <3>1, GivesBackOrderly
    <2> QED BY <1>3, <2>2, <2>3 DEF Releases
  <1>4. CASE Completes(c)
    <2>1. /\ call[c] # Nil /\ call[c].at = "serve" /\ call[c].verb = "complete"
          /\ UNCHANGED <<bodies, file>>
      BY <1>4 DEF Completes, At
    <2>2. CASE Ends(c) /\ row' = row
      BY <2>1, <2>2, EndsOthers, LeavesOrderly
    <2>3. CASE /\ Writes(c, "drop")
               /\ row' = [row EXCEPT ![call[c].task].state = "done",
                                     ![call[c].task].run = 0]
      <3>1. /\ Continues(call[c], call'[c]) /\ call'[c].mem = call[c].mem
            /\ call'[c].look = call[c].look /\ call'[c].at = "drop"
        BY <2>1, <2>3, WritesEffect
      <3> QED BY <2>1, <2>3, <3>1, GivesBackOrderly
    <2> QED BY <1>4, <2>2, <2>3 DEF Completes
  <1>5. ASSUME TimesOut(c) \/ Lags(c) PROVE Orderly(c)
    <2>1. /\ call[c] # Nil /\ call[c].at = "mirror" /\ UNCHANGED <<row, bodies, file>>
          /\ Fails(c) \/ Proceeds(c, TRUE)
      BY <1>5 DEF TimesOut, Lags, At
    <2> QED BY <2>1, BehindOrderly
  <1> QED BY <1>1, <1>2, <1>3, <1>4, <1>5, ResolvesOrderly, PlacesOrderly, ForgetsOrderly,
             ClaimsOrderly, HoldsOrderly, DropsOrderly, CreatesOrderly, NotesOrderly,
             AdoptsOrderly, BreaksOrderly
          DEF PlainStep

LEMMA AloneIs ==
    ASSUME NEW k, Alone(k, call), NEW c \in Callers,
           call[c] # Nil \/ \A d \in Callers \ {c} : call[d] = Nil
    PROVE  k = call[c] /\ \A d \in Callers \ {c} : call[d] = Nil
  BY DEF Alone

LEMMA AloneStays ==
    ASSUME NEW c \in Callers, Others(c), \A d \in Callers \ {c} : call[d] = Nil
    PROVE  Alone(call'[c], call')
  BY DEF Alone, Others

(* The one call that there is goes on in good order.                       *)
LEMMA SeqGoesOn ==
    ASSUME BackendTypeOK, BackendTypeOK', NEW c \in Callers, SeqInv, ~overlapped,
           call[c] # Nil \/ \A d \in Callers \ {c} : call[d] = Nil,
           Others(c), expired' = expired, deaths' = deaths,
           Once(call[c], row, bodies, file) => Orderly(c)
    PROVE  SeqInv'
  <1>1. PICK k \in Call \cup {Nil} : /\ Alone(k, call) /\ Once(k, row, bodies, file)
                                     /\ ~expired /\ deaths = 0 => Shared(k, row, file)
    BY DEF SeqInv
  <1>2. k = call[c] /\ \A d \in Callers \ {c} : call[d] = Nil
    BY <1>1, AloneIs
  <1> DEFINE l == call'[c]
  <1>3. /\ Once(l, row', bodies', file')
        /\ ~expired' /\ deaths' = 0 => Shared(l, row', file')
    BY <1>1, <1>2 DEF Orderly
  <1>4. Alone(l, call') /\ l \in Call \cup {Nil}
    BY <1>2, AloneStays DEF BackendTypeOK
  <1> HIDE DEF l
  <1> QED BY <1>3, <1>4 DEF SeqInv

(* No call goes on: only issues, and the leases that run out.              *)
LEMMA SeqStays ==
    ASSUME BackendTypeOK, SeqInv, ~overlapped, UNCHANGED <<call, bodies, file, deaths>>,
           \A t \in Tasks : \/ row'[t].state = row[t].state /\ row'[t].run = row[t].run
                            \/ expired' /\ row'[t].state = "ready" /\ row[t].run # 0,
           expired' \/ (~expired /\ \A t \in Tasks : /\ row'[t].state = row[t].state
                                                     /\ row'[t].run = row[t].run)
    PROVE  SeqInv'
  <1>1. PICK k \in Call \cup {Nil} : /\ Alone(k, call) /\ Once(k, row, bodies, file)
                                     /\ ~expired /\ deaths = 0 => Shared(k, row, file)
    BY DEF SeqInv
  <1>2. k # Nil => k.task \in Tasks
    BY DEF Call
  <1>3. Once(k, row', bodies', file')
    <2>1. Tidy(row', bodies', file')
      BY <1>1 DEF Once, Tidy
    <2>2. \A t \in Tasks : row'[t].state = "absent" <=> row[t].state = "absent"
      BY <1>1 DEF Once, Tidy
    <2>3. k # Nil => k.look \subseteq Tasks
      BY DEF Call
    <2> QED BY <1>1, <1>2, <2>1, <2>2, <2>3 DEF Once
  <1>4. ~expired' /\ deaths' = 0 => Shared(k, row', file')
    BY <1>1, <1>2 DEF Shared, Agrees
  <1> QED BY <1>1, <1>3, <1>4 DEF SeqInv

LEMMA SeqStep == BackendTypeOK /\ LockInv /\ SeqInv /\ [BackendNext]_vars => SeqInv'
  <1> USE DEF service, history
  <1> SUFFICES ASSUME BackendTypeOK, LockInv, SeqInv, [BackendNext]_vars, ~overlapped'
               PROVE  SeqInv'
    BY DEF SeqInv
  <1>t. BackendTypeOK'
    BY BackendTypesStep
  <1>d. deaths \in Nat /\ overlapped \in BOOLEAN
    BY BackendAssumption DEF BackendTypeOK
  <1>1. ASSUME NEW c \in Callers, PlainStep(c) PROVE SeqInv'
    <2>1. Others(c)
      BY <1>1, PlainKeepsLock
    <2>2. CASE \E verb \in Verbs, t \in Tasks, a \in Agents \cup {Nil} :
                  Begins(c, verb, t, a)
      <3>1. /\ expired' = expired /\ deaths' = deaths
            /\ overlapped' = (overlapped \/ \E d \in Callers \ {c} : call[d] # Nil)
        BY <2>2, Zenon DEF Begins
      <3>2. ~overlapped /\ \A d \in Callers \ {c} : call[d] = Nil
        BY <3>1
      <3>3. Once(call[c], row, bodies, file) => Orderly(c)
        BY <1>1, PlainOrderly
      <3> QED BY <1>t, <2>1, <3>1, <3>2, <3>3, SeqGoesOn
    <2>3. ASSUME \/ Resolves(c) \/ PlacesBody(c) \/ Forgets(c) \/ Claims(c) \/ Holds(c)
                 \/ Releases(c) \/ SetsStatus(c) \/ Completes(c) \/ Drops(c)
                 \/ Comments(c) \/ Creates(c) \/ Notes(c) \/ TimesOut(c)
                 \/ Lags(c) \/ Adopts(c) \/ Breaks(c)
          PROVE  SeqInv'
      <3>1. UNCHANGED <<expired, deaths, overlapped>>
        BY <2>3, Zenon DEF Resolves, PlacesBody, Forgets, Claims, Holds, Releases,
                SetsStatus, Completes, Drops, Comments, Creates, Notes, TimesOut,
                Lags, Adopts, Breaks
      <3>2. call[c] # Nil
        BY <2>3, Zenon DEF Resolves, PlacesBody, Forgets, Claims, Holds, Releases,
                SetsStatus, Completes, Drops, Comments, Creates, Notes, TimesOut,
                Lags, Adopts, Breaks, At
      <3>3. ~overlapped
        BY <3>1
      <3>4. Once(call[c], row, bodies, file) => Orderly(c)
        BY <1>1, PlainOrderly
      <3> QED BY <1>t, <2>1, <3>1, <3>2, <3>3, <3>4, SeqGoesOn
    <2> QED BY <1>1, <2>2, <2>3, Zenon DEF PlainStep
  <1>2. ASSUME NEW c \in Callers, Locks(c) PROVE SeqInv'
    <2>1. /\ call[c] # Nil /\ call[c].at = "mirror" /\ Goes(c, "mirroring")
          /\ UNCHANGED <<row, bodies, file, expired, deaths, overlapped>>
      BY <1>2, Zenon DEF Locks, At
    <2>2. /\ Others(c) /\ Continues(call[c], call'[c])
          /\ call'[c].mem = call[c].mem /\ call'[c].look = call[c].look
          /\ call'[c].at = "mirroring"
      BY <2>1, GoesEffect, GoesOthers
    <2>3. ~overlapped
      BY <2>1
    <2>4. ASSUME Once(call[c], row, bodies, file) PROVE Orderly(c)
      BY <2>1, <2>2, <2>4, LeavesOrderly DEF Continues
    <2> QED BY <1>t, <2>1, <2>2, <2>3, <2>4, SeqGoesOn
  <1>3. ASSUME NEW m \in mirrors, MirrorPosts(m) PROVE SeqInv'
    <2>1. UNCHANGED <<row, bodies, file, call, expired, deaths, overlapped>>
      BY <1>3, Zenon DEF MirrorPosts
    <2> QED BY <2>1 DEF SeqInv
  <1>4. ASSUME NEW m \in mirrors, MirrorRecords(m) PROVE SeqInv'
    <2>1. /\ row' = [t \in Tasks |-> [row[t] EXCEPT !.issue =
                       @ \/ \E i \in m.batch : writes[i].task = t]]
          /\ UNCHANGED <<bodies, file, expired, deaths, overlapped>>
      BY <1>4, Zenon DEF MirrorRecords
    <2>2. \A t \in Tasks : row'[t].state = row[t].state /\ row'[t].run = row[t].run
      BY <2>1 DEF BackendTypeOK
    <2>3. ~overlapped
      BY <2>1
    <2>4. CASE m.of = Nil
      <3>1. call' = call
        BY <1>4, <2>4, Zenon DEF MirrorRecords
      <3>2. expired \in BOOLEAN
        BY DEF BackendTypeOK
      <3> QED BY <2>1, <2>2, <2>3, <3>1, <3>2, SeqStays
    <2>5. CASE m.of # Nil
      <3> DEFINE c == m.of
      <3>1. c \in Callers /\ call[c] # Nil /\ call[c].at = "mirroring" /\ Proceeds(c, FALSE)
        <4>1. c \in Callers /\ At(c, "mirroring")
          BY <2>5 DEF LockInv, BackendTypeOK
        <4> QED BY <1>4, <2>5, <4>1 DEF MirrorRecords, At
      <3> HIDE DEF c
      <3>2. Others(c)
        BY <3>1, ProceedsEffect
      <3>3. ASSUME Once(call[c], row, bodies, file) PROVE Orderly(c)
        BY <2>1, <2>2, <3>1, <3>3, BehindOrderly
      <3> QED BY <1>t, <2>1, <2>3, <3>1, <3>2, <3>3, SeqGoesOn
    <2> QED BY <2>4, <2>5
  <1>5. ASSUME NEW m \in mirrors, MirrorFails(m) PROVE SeqInv'
    <2>1. m.of # Nil /\ UNCHANGED <<row, bodies, file, expired, deaths, overlapped>>
      BY <1>5, Zenon DEF MirrorFails
    <2>2. ~overlapped
      BY <2>1
    <2> DEFINE c == m.of
    <2>3. /\ c \in Callers /\ call[c] # Nil /\ call[c].at = "mirroring" /\ Fails(c)
      <3>1. c \in Callers /\ At(c, "mirroring")
        BY <2>1 DEF LockInv, BackendTypeOK
      <3>2. Fails(c)
        BY <1>5, Zenon DEF MirrorFails
      <3> QED BY <3>1, <3>2 DEF At
    <2> HIDE DEF c
    <2>4. Others(c)
      BY <2>3, BehindEffect
    <2>5. ASSUME Once(call[c], row, bodies, file) PROVE Orderly(c)
      BY <2>1, <2>3, <2>5, BehindOrderly
    <2> QED BY <1>t, <2>1, <2>2, <2>3, <2>4, <2>5, SeqGoesOn
  <1>6. ASSUME NEW c \in Callers, Dies(c) PROVE SeqInv'
    <2>1. /\ deaths' = deaths + 1 /\ call[c] # Nil /\ Ends(c)
          /\ UNCHANGED <<row, bodies, file, overlapped>>
      BY <1>6, Zenon DEF Dies
    <2>2. PICK k \in Call \cup {Nil} : Alone(k, call) /\ Once(k, row, bodies, file)
      BY <2>1 DEF SeqInv
    <2>3. call'[c] = Nil /\ Others(c) /\ \A d \in Callers \ {c} : call[d] = Nil
      BY <2>1, <2>2, EndsOthers, AloneIs
    <2>4. Alone(Nil, call')
      BY <2>3, AloneStays
    <2>5. Once(Nil, row', bodies', file')
      BY <2>1, <2>2 DEF Once
    <2>6. deaths' # 0
      BY <1>d, <2>1
    <2> QED BY <2>4, <2>5, <2>6 DEF SeqInv
  <1>7. ASSUME NEW t \in Tasks, Expires(t) PROVE SeqInv'
    <2>1. /\ row[t].run # 0 /\ row' = [row EXCEPT ![t].state = "ready", ![t].run = 0]
          /\ expired' = TRUE /\ UNCHANGED <<bodies, file, call, deaths, overlapped>>
      BY <1>7, Zenon DEF Expires
    <2>2. /\ row'[t].state = "ready"
          /\ \A u \in Tasks : u # t => row'[u] = row[u]
      BY <2>1 DEF BackendTypeOK
    <2>3. ~overlapped
      BY <2>1
    <2>4. \A u \in Tasks :
             \/ row'[u].state = row[u].state /\ row'[u].run = row[u].run
             \/ expired' /\ row'[u].state = "ready" /\ row[u].run # 0
      BY <2>1, <2>2
    <2> QED BY <2>1, <2>3, <2>4, SeqStays
  <1>8. CASE UNCHANGED vars
    <2>1. UNCHANGED <<row, bodies, file, call, expired, deaths, overlapped>>
      BY <1>8, Zenon DEF vars
    <2> QED BY <2>1 DEF SeqInv
  <1> QED BY <1>1, <1>2, <1>3, <1>4, <1>5, <1>6, <1>7, <1>8
          DEF BackendNext, CallStep, PlainStep

LEMMA SeqInit == BackendInit => SeqInv
  <1> SUFFICES ASSUME BackendInit PROVE SeqInv
    OBVIOUS
  <1>r. PICK mirrored \in SUBSET Imported :
           row = [t \in Tasks |->
                     [state |-> IF t \in Imported THEN "ready" ELSE "absent",
                      run |-> 0, issue |-> t \in mirrored]]
    BY Zenon DEF BackendInit
  <1>1. /\ file = [keys |-> [t \in Tasks |-> [known |-> FALSE, issue |-> FALSE,
                                              pending |-> FALSE]],
                   runs |-> [t \in Tasks |-> Nil]]
        /\ bodies = [t \in Tasks |-> 0] /\ call = [c \in Callers |-> Nil]
    BY Zenon DEF BackendInit
  <1>2. \A t \in Tasks : /\ row[t].run = 0 /\ bodies[t] = 0 /\ file.runs[t] = Nil
                         /\ ~file.keys[t].pending /\ ~file.keys[t].issue
    BY <1>r, <1>1
  <1>3. Alone(Nil, call)
    BY <1>1 DEF Alone
  <1>4. Once(Nil, row, bodies, file) /\ Shared(Nil, row, file)
    BY <1>2 DEF Once, Tidy, Fresh, Shared, Agrees
  <1> QED BY <1>3, <1>4 DEF SeqInv

LEMMA Sequential == BackendSpec => []SeqInv
  BY SeqInit, SeqStep, TypesAndLock, PTL DEF BackendSpec

(* However calls overlap, time out, fail and die, in any mode, with or     *)
(* without a mirror command: a create that ends well, and without a word   *)
(* that GitHub is behind, has its body in the issue; and calls that follow *)
(* one another never put a body there again, whichever of them broke off.  *)
THEOREM BodyPlacedTheorem == BackendSpec => []BodyPlaced
  <1>1. BackendInit => AckedInv /\ PlacedInv
    <2>1. BackendInit => /\ mirrors = {} /\ writes = <<>> /\ acked = {}
                         /\ call = [c \in Callers |-> Nil]
      BY Zenon DEF BackendInit
    <2> QED BY <2>1 DEF AckedInv, PlacedInv
  <1>2. BackendTypeOK /\ LockInv /\ (AckedInv /\ PlacedInv) /\ [BackendNext]_vars
           => (AckedInv /\ PlacedInv)'
    BY AckedStep, PlacedStep
  <1>3. AckedInv /\ PlacedInv /\ SeqInv => BodyPlaced
    <2>1. SeqInv => (~overlapped => \A t \in Tasks : bodies[t] <= 1)
      BY DEF SeqInv, Once, Tidy
    <2> QED BY <2>1 DEF PlacedInv, BodyPlaced
  <1> QED BY <1>1, <1>2, <1>3, TypesAndLock, Sequential, PTL DEF BackendSpec

(* Between calls that follow one another the state file has exactly the    *)
(* runs that are live at the service, while no call has died and no lease  *)
(* has run out.                                                            *)
THEOREM ClaimSharedTheorem == BackendSpec => []ClaimShared
  <1>1. SeqInv => ClaimShared
    <2> SUFFICES ASSUME SeqInv, ~overlapped, deaths = 0, ~expired,
                        \A c \in Callers : call[c] = Nil, NEW t \in Tasks
                 PROVE  Agrees(t, row, file)
      BY DEF ClaimShared, Agrees
    <2>1. PICK k : Alone(k, call) /\ Shared(k, row, file)
      BY DEF SeqInv
    <2>2. k = Nil
      BY <2>1 DEF Alone
    <2> QED BY <2>1, <2>2 DEF Shared
  <1> QED BY <1>1, Sequential, PTL

=============================================================================
