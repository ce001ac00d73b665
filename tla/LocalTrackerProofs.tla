------------------------- MODULE LocalTrackerProofs -------------------------
(***************************************************************************)
(* The claims of the local tracker for any agents, any bounds on issues    *)
(* and calls, and any interleaving and death of calls; and that blockers   *)
(* never form a circle as long as no two calls overlap.                    *)
(***************************************************************************)
EXTENDS LocalTracker, TLAPS

CallOK(c) == c \in Call \cup {Nil} \/ ReadCall(c)

(* What a call of another step leaves alone.                               *)
LEMMA NextCall ==
    ASSUME TrackerTypeOK, NEW a \in Agents, NEW c, CallOK(c), Goes(a, c)
    PROVE  /\ DOMAIN call' = Agents
           /\ \A b \in Agents : CallOK(call'[b])
           /\ call'[a] = c
           /\ \A b \in Agents \ {a} : call'[b] = call[b]
  BY DEF TrackerTypeOK, Goes, CallOK

LEMMA CallShapes ==
    ASSUME NEW a \in Agents, TrackerTypeOK, call[a] # Nil
    PROVE  /\ call[a].issue \in Issues
           /\ At(a, "truncate") \/ At(a, "write") => call[a].text \in Issue
           /\ At(a, "list") => /\ call[a].add \in SUBSET Refs
                               /\ call[a].drop \in SUBSET Refs
           /\ At(a, "read") => ReadCall(call[a])
  BY DEF TrackerTypeOK, Call, ReadCall, At

LEMMA EditTypes ==
    ASSUME NEW i \in Issues, NEW field, NEW value,
           \/ field = "assignee" /\ value \in Agents \cup {Nil}
           \/ field = "state" /\ value \in {"open", "closed"}
           \/ field = "blocked_by" /\ value \in SUBSET Refs
    PROVE  CallOK(Edit(i, field, value))
  BY DEF CallOK, Edit, ReadCall

LEMMA FileTypes ==
    ASSUME TrackerTypeOK, NEW i \in Issues
    PROVE  /\ BlockedBy(i) \in SUBSET Refs
           /\ Readable(i) => file[i] \in Issue
  BY DEF TrackerTypeOK, BlockedBy, Readable, Issue

(* What a call writes after it read the file.                              *)
Edited(c) ==
    IF c.field = "none" THEN file[c.issue]
    ELSE [file[c.issue] EXCEPT ![c.field] = c.value]

LEMMA EditedTypes ==
    ASSUME TrackerTypeOK, NEW a \in Agents, At(a, "read"), Readable(call[a].issue)
    PROVE  /\ Edited(call[a]) \in Issue
           /\ Edited(call[a]).blocked_by =
                 IF call[a].field = "blocked_by" THEN call[a].value
                 ELSE BlockedBy(call[a].issue)
  <1> DEFINE c == call[a]
  <1>1. ReadCall(c) /\ c.issue \in Issues /\ file[c.issue] \in Issue
    BY CallShapes, FileTypes DEF At
  <1>2. BlockedBy(c.issue) = file[c.issue].blocked_by
    BY DEF BlockedBy
  <1>3. CASE c.field = "none"
    BY <1>1, <1>2, <1>3 DEF Edited
  <1>4. CASE c.field = "assignee"
    BY <1>1, <1>2, <1>4 DEF Edited, Issue, ReadCall
  <1>5. CASE c.field = "state"
    BY <1>1, <1>2, <1>5 DEF Edited, Issue, ReadCall
  <1>6. CASE c.field = "blocked_by"
    BY <1>1, <1>2, <1>6 DEF Edited, Issue, ReadCall
  <1> QED BY <1>1, <1>3, <1>4, <1>5, <1>6 DEF ReadCall

LEMMA ReadsGoes ==
    ASSUME NEW a, Reads(a)
    PROVE  Goes(a, IF ~Readable(call[a].issue) THEN Nil
                   ELSE [step |-> "truncate", issue |-> call[a].issue,
                         text |-> Edited(call[a])])
  BY DEF Reads, Edited

-----------------------------------------------------------------------------
(* Types.                                                                  *)

LEMMA TypesStep == TrackerTypeOK /\ [TrackerNext]_vars => TrackerTypeOK'
  <1> SUFFICES ASSUME TrackerTypeOK, [TrackerNext]_vars PROVE TrackerTypeOK'
    OBVIOUS
  <1>nil. CallOK(Nil)
    BY DEF CallOK
  <1> DEFINE Others == /\ file' \in [Issues -> Issue \cup {Empty, Nil}]
                       /\ claim' \in [Issues -> Agents \cup {"", Nil}]
                       /\ held' \subseteq Agents \X Issues
                       /\ calls' \in 0..MaxCalls
                       /\ overlapped' \in BOOLEAN
                       /\ aliased' \in BOOLEAN
             Calls == /\ DOMAIN call' = Agents
                      /\ \A b \in Agents : CallOK(call'[b])
  <1>goal. Others /\ Calls => TrackerTypeOK'
    BY DEF TrackerTypeOK, CallOK, ReadCall
  <1>beg. ASSUME NEW a \in Agents, Begins(a)
          PROVE  calls' \in 0..MaxCalls /\ overlapped' \in BOOLEAN
    <2>1. MaxCalls \in Nat
      BY TrackerAssumption
    <2>2. calls' \in 0..MaxCalls
      <3>1. calls < MaxCalls /\ calls' = calls + 1
        BY <1>beg, Zenon DEF Begins
      <3>2. calls \in 0..MaxCalls
        BY Zenon DEF TrackerTypeOK
      <3> QED BY <2>1, <3>1, <3>2
    <2>3. overlapped' \in BOOLEAN
      BY <1>beg, Zenon DEF Begins
    <2> QED BY <2>2, <2>3
  <1>1. ASSUME NEW a \in Agents, NEW i \in Issues, Claims(a, i) PROVE Others /\ Calls
    <2>1. Calls
      <3>1. CASE claim[i] = Nil
        <4>1. CallOK([step |-> "name", issue |-> i])
          BY DEF CallOK, Call
        <4> QED BY <1>1, <3>1, <4>1, NextCall DEF Claims
      <3>2. CASE claim[i] # Nil
        BY <1>1, <3>2 DEF Claims, TrackerTypeOK, CallOK
      <3> QED BY <3>1, <3>2
    <2>2. Begins(a)
      BY <1>1 DEF Claims
    <2>3. /\ file' \in [Issues -> Issue \cup {Empty, Nil}]
          /\ claim' \in [Issues -> Agents \cup {"", Nil}]
          /\ aliased' \in BOOLEAN
      BY <1>1 DEF Claims, TrackerTypeOK
    <2>4. held' \subseteq Agents \X Issues
      <3>1. held \subseteq Agents \X Issues /\ <<a, i>> \in Agents \X Issues
        BY DEF TrackerTypeOK
      <3>2. held' = held \/ held' = held \cup {<<a, i>>}
        BY <1>1, Zenon DEF Claims
      <3> QED BY <3>1, <3>2
    <2> QED BY <1>beg, <2>1, <2>2, <2>3, <2>4
  <1>2. ASSUME NEW a \in Agents, NEW i \in Issues, Releases(a, i) PROVE Others /\ Calls
    <2>1. CallOK([step |-> "unlink", issue |-> i])
      BY DEF CallOK, Call
    <2> QED BY <1>2, <1>beg, <2>1, NextCall DEF Releases, TrackerTypeOK
  <1>3. ASSUME NEW a \in Agents, NEW i \in Issues, Comments(a, i) PROVE Others /\ Calls
    <2>1. CallOK([step |-> "read", issue |-> i, field |-> "none", value |-> Nil])
      BY DEF CallOK, ReadCall
    <2> QED BY <1>3, <1>beg, <2>1, NextCall DEF Comments, TrackerTypeOK
  <1>4. ASSUME NEW a \in Agents, NEW i \in Issues, NEW s \in {"open", "closed"},
               SetsState(a, i, s)
        PROVE  Others /\ Calls
    <2>1. CallOK(Edit(i, "state", s))
      BY EditTypes
    <2> QED BY <1>4, <1>beg, <2>1, NextCall DEF SetsState, TrackerTypeOK
  <1>5. ASSUME NEW a \in Agents, NEW i \in Issues, NEW b \in Refs,
               UnlinksBlocker(a, i, b)
        PROVE  Others /\ Calls
    <2>1. CallOK([step |-> "list", issue |-> i, add |-> {}, drop |-> {b}])
      BY DEF CallOK, Call
    <2> QED BY <1>5, <1>beg, <2>1, NextCall DEF UnlinksBlocker, TrackerTypeOK
  <1>13. ASSUME NEW a \in Agents, NEW ref \in Refs, NEW b \in Refs, Links(a, ref, b)
         PROVE  Others /\ Calls
    <2>1. CallOK([step |-> "list", issue |-> ref[1], add |-> {b}, drop |-> {}])
      BY TrackerAssumption DEF CallOK, Call
    <2>2. aliased' \in BOOLEAN
      BY <1>13, Zenon DEF Links
    <2> QED BY <1>13, <1>beg, <2>1, <2>2, NextCall DEF Links, TrackerTypeOK
  <1>6. ASSUME NEW a \in Agents, Creates(a) PROVE Others /\ Calls
    <2>1. PICK i \in Issues :
             Goes(a, [step |-> "truncate", issue |-> i, text |-> Fresh])
      BY <1>6 DEF Creates
    <2>2. CallOK([step |-> "truncate", issue |-> i, text |-> Fresh])
      BY DEF CallOK, Call, Issue, Fresh
    <2> QED BY <1>6, <1>beg, <2>1, <2>2, NextCall DEF Creates, TrackerTypeOK
  <1>7. ASSUME NEW a \in Agents, Names(a) \/ Unlinks(a) PROVE Others /\ Calls
    <2>1. call[a].issue \in Issues
      BY <1>7, CallShapes DEF Names, Unlinks, At
    <2>2. /\ CallOK(Edit(call[a].issue, "assignee", a))
          /\ CallOK(Edit(call[a].issue, "assignee", Nil))
      BY <2>1, EditTypes
    <2>3. Calls
      BY <1>7, <2>2, NextCall DEF Names, Unlinks
    <2>4. claim' \in [Issues -> Agents \cup {"", Nil}]
      BY <1>7, <2>1 DEF Names, Unlinks, TrackerTypeOK
    <2>5. held' \subseteq Agents \X Issues
      <3>1. held \subseteq Agents \X Issues /\ <<a, call[a].issue>> \in Agents \X Issues
        BY <2>1 DEF TrackerTypeOK
      <3>2. held' = held \/ held' = held \cup {<<a, call[a].issue>>}
        BY <1>7, Zenon DEF Names, Unlinks
      <3> QED BY <3>1, <3>2
    <2>6. /\ file' = file /\ calls' = calls /\ overlapped' = overlapped
          /\ aliased' = aliased
      BY <1>7 DEF Names, Unlinks
    <2> QED BY <2>3, <2>4, <2>5, <2>6 DEF TrackerTypeOK
  <1>8. ASSUME NEW a \in Agents, Lists(a) PROVE Others /\ Calls
    <2> DEFINE i == call[a].issue
               B == (BlockedBy(i) \ call[a].drop) \cup call[a].add
    <2>1. i \in Issues /\ B \in SUBSET Refs
      BY <1>8, CallShapes, FileTypes DEF Lists, At
    <2>2. CallOK(Edit(i, "blocked_by", B))
      BY <2>1, EditTypes
    <2>3. Calls
      BY <1>8, <1>nil, <2>2, NextCall DEF Lists
    <2> QED BY <1>8, <2>3 DEF Lists, TrackerTypeOK
  <1>9. ASSUME NEW a \in Agents, Reads(a) PROVE Others /\ Calls
    <2>1. At(a, "read") /\ call[a].issue \in Issues
      BY <1>9, CallShapes DEF Reads, At
    <2>2. Readable(call[a].issue) =>
             CallOK([step |-> "truncate", issue |-> call[a].issue, text |-> Edited(call[a])])
      BY <2>1, EditedTypes DEF CallOK, Call
    <2>3. Calls
      BY <1>9, <1>nil, <2>2, ReadsGoes, NextCall
    <2> QED BY <1>9, <2>3 DEF Reads, TrackerTypeOK
  <1>10. ASSUME NEW a \in Agents, Writes(a) PROVE Others /\ Calls
    <2>1. call[a].issue \in Issues /\ call[a].text \in Issue
      BY <1>10, CallShapes DEF Writes, At
    <2>2. Calls
      BY <1>10, <1>nil, NextCall DEF Writes
    <2> QED BY <1>10, <2>1, <2>2 DEF Writes, TrackerTypeOK
  <1>14. ASSUME NEW a \in Agents, Truncates(a) PROVE Others /\ Calls
    <2> DEFINE c == [call[a] EXCEPT !.step = "write"]
    <2>1. /\ call[a].issue \in Issues /\ call[a].text \in Issue
          /\ At(a, "truncate")
      BY <1>14, CallShapes DEF Truncates, At
    <2>2. call[a] \in Call
      BY <2>1 DEF TrackerTypeOK, ReadCall, At
    <2>3. CallOK(c)
      BY <2>1, <2>2 DEF CallOK, Call, At
    <2>4. Calls
      BY <1>14, <2>3, NextCall DEF Truncates
    <2> QED BY <1>14, <2>1, <2>4 DEF Truncates, TrackerTypeOK
  <1>11. ASSUME NEW a \in Agents, Dies(a) PROVE Others /\ Calls
    BY <1>11, <1>nil, NextCall DEF Dies, TrackerTypeOK
  <1>12. CASE UNCHANGED vars
    BY <1>12 DEF vars, TrackerTypeOK, ReadCall
  <1> HIDE DEF Others, Calls
  <1> QED BY <1>goal, <1>1, <1>2, <1>3, <1>4, <1>5, <1>6, <1>7, <1>8, <1>9, <1>10,
             <1>11, <1>12, <1>13, <1>14 DEF TrackerNext, AgentStep

(* Files, claim files and calls are well formed, for any agents and bounds.*)
THEOREM TrackerTypes == TrackerSpec => []TrackerTypeOK
  <1>1. TrackerInit => TrackerTypeOK
    <2> SUFFICES ASSUME TrackerInit PROVE TrackerTypeOK
      OBVIOUS
    <2>1. file \in [Issues -> Issue \cup {Empty, Nil}]
      BY DEF TrackerInit, Fresh, Issue
    <2>2. MaxCalls \in Nat
      BY TrackerAssumption
    <2>3. call = [a \in Agents |-> Nil] /\ claim \in [Issues -> Agents \cup {"", Nil}]
      BY DEF TrackerInit
    <2>4. held \subseteq Agents \X Issues /\ calls \in 0..MaxCalls
      BY <2>2 DEF TrackerInit
    <2>5. overlapped \in BOOLEAN /\ aliased \in BOOLEAN
      BY DEF TrackerInit
    <2> QED BY <2>1, <2>3, <2>4, <2>5 DEF TrackerTypeOK
  <1> QED BY <1>1, TypesStep, PTL DEF TrackerSpec

-----------------------------------------------------------------------------
(* One holder.  A claim file that was just created is being named by one   *)
(* call at the most, and one that is about to go is held by nobody.        *)

Naming(a, i) == At(a, "name") /\ call[a].issue = i
Unlinking(a, i) == At(a, "unlink") /\ call[a].issue = i

HeldInv ==
    \A a \in Agents, i \in Issues : <<a, i>> \in held => claim[i] = a
NamingInv ==
    \A a \in Agents, i \in Issues :
        Naming(a, i) => claim[i] = "" /\ \A b \in Agents : Naming(b, i) => b = a
UnlinkingInv ==
    \A a \in Agents, i \in Issues :
        Unlinking(a, i) => claim[i] = a /\ <<a, i>> \notin held

HolderInv == HeldInv /\ NamingInv /\ UnlinkingInv

(* An agent's next call leaves what others do alone.                       *)
LEMMA NextStage ==
    ASSUME TrackerTypeOK, NEW a \in Agents, NEW c, CallOK(c), Goes(a, c)
    PROVE  \A b \in Agents, j \in Issues :
             /\ Naming(b, j)' <=> IF b = a THEN c # Nil /\ c.step = "name" /\ c.issue = j
                                  ELSE Naming(b, j)
             /\ Unlinking(b, j)' <=> IF b = a THEN c # Nil /\ c.step = "unlink" /\ c.issue = j
                                     ELSE Unlinking(b, j)
  BY NextCall DEF Naming, Unlinking, At

LEMMA HolderStep ==
    TrackerTypeOK /\ HolderInv /\ [TrackerNext]_vars => HolderInv'
  <1> SUFFICES ASSUME TrackerTypeOK, HolderInv, [TrackerNext]_vars PROVE HolderInv'
    OBVIOUS
  <1>names. "" \notin Agents /\ Nil \notin Agents /\ Nil # ""
    BY TrackerAssumption
  <1>claim. claim \in [Issues -> Agents \cup {"", Nil}]
    BY DEF TrackerTypeOK
  <1>same. ASSUME NEW a \in Agents, NEW c, CallOK(c), Goes(a, c),
                  c = Nil \/ c.step \notin {"name", "unlink"},
                  claim' = claim, held' = held
           PROVE  HolderInv'
    <2>1. \A b \in Agents, j \in Issues :
             (Naming(b, j)' => Naming(b, j)) /\ (Unlinking(b, j)' => Unlinking(b, j))
      BY <1>same, NextStage
    <2> QED BY <1>same, <2>1 DEF HolderInv, HeldInv, NamingInv, UnlinkingInv
  <1>ok. ASSUME NEW a \in Agents, TrackerNext
         PROVE  CallOK(call'[a])
    BY <1>ok, TypesStep DEF TrackerTypeOK, CallOK, ReadCall
  <1>1. ASSUME NEW a \in Agents, NEW i \in Issues, Claims(a, i) PROVE HolderInv'
    <2>idle. \A j \in Issues : ~Naming(a, j) /\ ~Unlinking(a, j)
      BY <1>1 DEF Claims, Begins, Naming, Unlinking, At
    <2>1. CASE claim[i] = Nil
      <3> DEFINE c == [step |-> "name", issue |-> i]
      <3>1. held' = held /\ Goes(a, c)
        BY <1>1, <2>1 DEF Claims
      <3>2. CallOK(c)
        BY DEF CallOK, Call
      <3>3. \A b \in Agents, j \in Issues :
               /\ Naming(b, j)' => Naming(b, j) \/ (b = a /\ j = i)
               /\ Unlinking(b, j)' => Unlinking(b, j)
        BY <3>1, <3>2, NextStage
      <3>4. claim'[i] = "" /\ \A j \in Issues : j # i => claim'[j] = claim[j]
        BY <1>1, <1>claim, <2>1 DEF Claims
      <3>5. held' = held
        BY <3>1
      <3>10. HeldInv'
        BY <1>names, <2>1, <3>3, <3>4, <3>5 DEF HolderInv, HeldInv, NamingInv, UnlinkingInv
      <3>11. NamingInv'
        BY <1>names, <2>1, <3>3, <3>4, <3>5 DEF HolderInv, HeldInv, NamingInv, UnlinkingInv
      <3>12. UnlinkingInv'
        BY <1>names, <2>1, <3>3, <3>4, <3>5 DEF HolderInv, HeldInv, NamingInv, UnlinkingInv
      <3> QED BY <3>10, <3>11, <3>12 DEF HolderInv
    <2>2. CASE claim[i] # Nil
      <3>1. claim' = claim /\ call' = call
        BY <1>1, <2>2 DEF Claims
      <3>2. held' = held \/ (claim[i] = a /\ held' = held \cup {<<a, i>>})
        BY <1>1, <2>2, Zenon DEF Claims
      <3>3. \A b \in Agents, j \in Issues :
               (Naming(b, j)' <=> Naming(b, j)) /\ (Unlinking(b, j)' <=> Unlinking(b, j))
        BY <3>1 DEF Naming, Unlinking, At
      <3>4. \A b \in Agents, j \in Issues : <<b, j>> \in held' =>
               <<b, j>> \in held \/ (claim[i] = a /\ b = a /\ j = i)
        BY <3>2
      <3>5. claim' = claim
        BY <3>1
      <3>10. HeldInv'
        BY <2>idle, <3>5, <3>3, <3>4 DEF HolderInv, HeldInv, NamingInv, UnlinkingInv
      <3>11. NamingInv'
        BY <2>idle, <3>5, <3>3, <3>4 DEF HolderInv, HeldInv, NamingInv, UnlinkingInv
      <3>12. UnlinkingInv'
        <4>1. ASSUME NEW b \in Agents, NEW j \in Issues, Unlinking(b, j)
              PROVE  claim[j] = b /\ <<b, j>> \notin held'
          BY <2>idle, <3>4, <4>1 DEF HolderInv, UnlinkingInv
        <4> QED BY <3>3, <3>5, <4>1 DEF UnlinkingInv
      <3> QED BY <3>10, <3>11, <3>12 DEF HolderInv
    <2> QED BY <2>1, <2>2
  <1>2. ASSUME NEW a \in Agents, NEW i \in Issues, Releases(a, i) PROVE HolderInv'
    <2> DEFINE c == [step |-> "unlink", issue |-> i]
    <2>1. claim[i] = a /\ claim' = claim /\ held' = held \ {<<a, i>>} /\ Goes(a, c)
      BY <1>2 DEF Releases
    <2>2. CallOK(c)
      BY DEF CallOK, Call
    <2>3. \A b \in Agents, j \in Issues :
             /\ Naming(b, j)' => Naming(b, j)
             /\ Unlinking(b, j)' => Unlinking(b, j) \/ (b = a /\ j = i)
      BY <2>1, <2>2, NextStage
    <2> QED BY <2>1, <2>3 DEF HolderInv, HeldInv, NamingInv, UnlinkingInv
  <1>3. ASSUME NEW a \in Agents, Names(a) PROVE HolderInv'
    <2>i. PICK i \in Issues : i = call[a].issue
      BY <1>3, CallShapes DEF Names, At
    <2>1. At(a, "name") /\ Goes(a, Edit(i, "assignee", a))
      BY <1>3, <2>i DEF Names
    <2>2. CallOK(Edit(i, "assignee", a)) /\ Edit(i, "assignee", a).step = "read"
      BY EditTypes DEF Edit
    <2>3. \A b \in Agents, j \in Issues :
             /\ Naming(b, j)' => Naming(b, j) /\ b # a
             /\ Unlinking(b, j)' => Unlinking(b, j) /\ b # a
      BY <2>1, <2>2, NextStage
    <2>4. Naming(a, i)
      BY <2>1, <2>i DEF Naming
    <2>5. claim'[i] = a /\ \A j \in Issues : j # i => claim'[j] = claim[j]
      BY <1>3, <1>claim, <2>i DEF Names
    <2>6. \A b \in Agents, j \in Issues : <<b, j>> \in held' =>
             <<b, j>> \in held \/ (b = a /\ j = i)
      BY <1>3, <2>i DEF Names
    <2>7. /\ \A b \in Agents, j \in Issues : <<b, j>> \in held => claim[j] = b
          /\ \A b \in Agents, j \in Issues : Naming(b, j) =>
                claim[j] = "" /\ \A d \in Agents : Naming(d, j) => d = b
          /\ \A b \in Agents, j \in Issues :
                Unlinking(b, j) => claim[j] = b /\ <<b, j>> \notin held
      BY DEF HolderInv, HeldInv, NamingInv, UnlinkingInv
    <2>8. ASSUME NEW b \in Agents, NEW j \in Issues
          PROVE  /\ <<b, j>> \in held' => claim'[j] = b
                 /\ Naming(b, j)' =>
                       claim'[j] = "" /\ \A d \in Agents : Naming(d, j)' => d = b
                 /\ Unlinking(b, j)' => claim'[j] = b /\ <<b, j>> \notin held'
      <3>1. CASE j = i
        <4>1. <<b, i>> \notin held /\ ~Unlinking(b, i)
          BY <1>names, <2>4, <2>7
        <4>2. Naming(b, i) => b = a
          BY <2>4, <2>7
        <4>3. <<b, i>> \in held' => claim'[i] = b
          BY <2>5, <2>6, <4>1
        <4> QED BY <2>3, <3>1, <4>1, <4>2, <4>3
      <3>2. CASE j # i
        BY <2>3, <2>5, <2>6, <2>7, <3>2
      <3> QED BY <3>1, <3>2
    <2> QED BY <2>8 DEF HolderInv, HeldInv, NamingInv, UnlinkingInv
  <1>4. ASSUME NEW a \in Agents, Unlinks(a) PROVE HolderInv'
    <2>i. PICK i \in Issues : i = call[a].issue
      BY <1>4, CallShapes DEF Unlinks, At
    <2>1. At(a, "unlink") /\ Goes(a, Edit(i, "assignee", Nil))
      BY <1>4, <2>i DEF Unlinks
    <2>2. CallOK(Edit(i, "assignee", Nil)) /\ Edit(i, "assignee", Nil).step = "read"
      BY EditTypes DEF Edit
    <2>3. \A b \in Agents, j \in Issues :
             /\ Naming(b, j)' => Naming(b, j) /\ b # a
             /\ Unlinking(b, j)' => Unlinking(b, j) /\ b # a
      BY <2>1, <2>2, NextStage
    <2>4. Unlinking(a, i)
      BY <2>1, <2>i DEF Unlinking
    <2>5. claim'[i] = Nil /\ \A j \in Issues : j # i => claim'[j] = claim[j]
      BY <1>4, <1>claim, <2>i DEF Unlinks
    <2>6. held' = held
      BY <1>4 DEF Unlinks
    <2>7. /\ \A b \in Agents, j \in Issues : <<b, j>> \in held => claim[j] = b
          /\ \A b \in Agents, j \in Issues : Naming(b, j) =>
                claim[j] = "" /\ \A d \in Agents : Naming(d, j) => d = b
          /\ \A b \in Agents, j \in Issues :
                Unlinking(b, j) => claim[j] = b /\ <<b, j>> \notin held
      BY DEF HolderInv, HeldInv, NamingInv, UnlinkingInv
    <2>8. ASSUME NEW b \in Agents, NEW j \in Issues
          PROVE  /\ <<b, j>> \in held' => claim'[j] = b
                 /\ Naming(b, j)' =>
                       claim'[j] = "" /\ \A d \in Agents : Naming(d, j)' => d = b
                 /\ Unlinking(b, j)' => claim'[j] = b /\ <<b, j>> \notin held'
      <3>1. CASE j = i
        BY <1>names, <2>3, <2>4, <2>5, <2>6, <2>7, <3>1
      <3>2. CASE j # i
        BY <2>3, <2>5, <2>6, <2>7, <3>2
      <3> QED BY <3>1, <3>2
    <2> QED BY <2>8 DEF HolderInv, HeldInv, NamingInv, UnlinkingInv
  <1>5. ASSUME NEW a \in Agents, NEW i \in Issues,
               \/ Comments(a, i)
               \/ \E s \in {"open", "closed"} : SetsState(a, i, s)
               \/ \E b \in Refs : UnlinksBlocker(a, i, b)
               \/ \E ref, b \in Refs : Links(a, ref, b) /\ ref[1] = i
        PROVE  HolderInv'
    <2>1. PICK c : /\ Goes(a, c) /\ c.step \in {"read", "list"}
                   /\ claim' = claim /\ held' = held
      BY <1>5 DEF Comments, SetsState, Links, UnlinksBlocker, Edit
    <2>2. TrackerNext
      BY <1>5 DEF TrackerNext, AgentStep
    <2>3. CallOK(c)
      BY <1>ok, <2>1, <2>2 DEF Goes, TrackerTypeOK
    <2> QED BY <1>same, <2>1, <2>3
  <1>6. ASSUME NEW a \in Agents,
               \/ Creates(a) \/ Lists(a) \/ Reads(a) \/ Truncates(a)
               \/ Writes(a) \/ Dies(a)
        PROVE  HolderInv'
    <2>1. PICK c : /\ Goes(a, c)
                   /\ c = Nil \/ c.step \in {"read", "truncate", "write"}
                   /\ claim' = claim /\ held' = held
      <3>1. CASE Creates(a) BY <3>1 DEF Creates
      <3>2. CASE Lists(a) BY <3>2 DEF Lists, Edit
      <3>3. CASE Reads(a) BY <3>3, ReadsGoes DEF Reads
      <3>4. CASE Writes(a) BY <3>4 DEF Writes
      <3>5. CASE Dies(a) BY <3>5 DEF Dies
      <3>6. CASE Truncates(a)
        <4>1. [call[a] EXCEPT !.step = "write"].step = "write"
          <5>1. At(a, "truncate") /\ call[a] # Nil
            BY <3>6 DEF Truncates, At
          <5>2. call[a] \in Call
            BY <5>1 DEF TrackerTypeOK, ReadCall, At
          <5> QED BY <5>1, <5>2 DEF Call, At
        <4> QED BY <3>6, <4>1 DEF Truncates
      <3> QED BY <1>6, <3>1, <3>2, <3>3, <3>4, <3>5, <3>6
    <2>2. TrackerNext
      BY <1>6 DEF TrackerNext, AgentStep
    <2>3. CallOK(c)
      BY <1>ok, <2>1, <2>2 DEF Goes, TrackerTypeOK
    <2> QED BY <1>same, <2>1, <2>3
  <1>7. CASE UNCHANGED vars
    <2>1. \A b \in Agents, j \in Issues :
             (Naming(b, j)' <=> Naming(b, j)) /\ (Unlinking(b, j)' <=> Unlinking(b, j))
      BY <1>7 DEF vars, Naming, Unlinking, At
    <2> QED BY <1>7, <2>1 DEF vars, HolderInv, HeldInv, NamingInv, UnlinkingInv
  <1>8. \A ref \in Refs : ref[1] \in Issues
    BY TrackerAssumption
  <1> QED BY <1>1, <1>2, <1>3, <1>4, <1>5, <1>6, <1>7, <1>8 DEF TrackerNext, AgentStep

(* An issue has one holder and the claim file names it, whatever calls     *)
(* overlap or die, for any number of agents.                               *)
THEOREM OneHolderTheorem == TrackerSpec => []OneHolder
  <1>1. TrackerInit => HolderInv
    BY DEF TrackerInit, HolderInv, HeldInv, NamingInv, UnlinkingInv, Naming, Unlinking, At
  <1>2. TrackerTypeOK /\ HolderInv => OneHolder
    <2>1. TrackerTypeOK => held \subseteq Agents \X Issues
      BY DEF TrackerTypeOK
    <2> QED BY <2>1 DEF HolderInv, HeldInv, OneHolder
  <1> QED BY <1>1, <1>2, HolderStep, TrackerTypes, PTL DEF TrackerSpec

-----------------------------------------------------------------------------
(* Blockers.  A relation has no circle when every set of issues has one    *)
(* that nothing in the set blocks; while calls follow one another, and     *)
(* name the issue they block as the tracker does, what a call is about to  *)
(* write leaves it so.  Only the blockers that are named as the tracker    *)
(* does count, for these are the ones ready() looks at.                    *)

Acyclic(B) ==
    \A S \in SUBSET Issues : S # {} => \E i \in S : B[i] \cap S = {}

Named(X) == {j \in Issues : Ref(j) \in X}

Blockers == [i \in Issues |-> Named(BlockedBy(i))]

Become(i, X) == [Blockers EXCEPT ![i] = Named(X)]

SerialInv ==
    ~overlapped /\ ~aliased =>
        /\ Acyclic(Blockers)
        /\ \A a, b \in Agents : call[a] # Nil /\ call[b] # Nil => a = b
        /\ \A a \in Agents :
              /\ At(a, "list") =>
                    Acyclic(Become(call[a].issue,
                                   BlockedBy(call[a].issue) \cup call[a].add))
              /\ At(a, "read") /\ call[a].field = "blocked_by" =>
                    Acyclic(Become(call[a].issue, call[a].value))
              /\ At(a, "truncate") \/ At(a, "write") =>
                    Acyclic(Become(call[a].issue, call[a].text.blocked_by))

LEMMA FewerBlockers ==
    ASSUME NEW B, NEW C, Acyclic(B), \A i \in Issues : C[i] \subseteq B[i]
    PROVE  Acyclic(C)
  BY DEF Acyclic

(* A blocker that WouldCycle lets pass closes no circle, if the issue that *)
(* it is to block is named as the tracker does: the walk has left a set of *)
(* references that is closed under blockers and does not hold that name.   *)
LEMMA LinkKeepsAcyclic ==
    ASSUME TrackerTypeOK, Acyclic(Blockers), NEW i \in Issues, NEW b \in Refs,
           ~WouldCycle(Ref(i), b)
    PROVE  Acyclic(Become(i, BlockedBy(i) \cup {b}))
  <1> DEFINE C == Become(i, BlockedBy(i) \cup {b})
  <1>1. PICK W \in SUBSET Refs :
           /\ b \in W /\ Ref(i) \notin W
           /\ \A r \in W : BlockedBy(r[1]) \subseteq W
    BY DEF WouldCycle
  <1> DEFINE R == Named(W)
  <1>2. /\ \A j \in Issues : j # i => C[j] = Blockers[j]
        /\ C[i] \subseteq Blockers[i] \cup R
    BY <1>1 DEF Blockers, Become, Named
  <1>3. i \notin R /\ \A j \in R : Blockers[j] \subseteq R
    <2>1. \A j \in Issues : Ref(j)[1] = j
      BY DEF Ref
    <2>2. \A j \in R : BlockedBy(j) \subseteq W
      BY <1>1, <2>1 DEF Named
    <2> QED BY <1>1, <2>2 DEF Named, Blockers
  <1>4. R \subseteq Issues
    BY DEF Named
  <1> HIDE DEF C, R
  <1>5. ASSUME NEW S \in SUBSET Issues, S # {}
        PROVE  \E j \in S : C[j] \cap S = {}
    <2>1. CASE S \cap R = {}
      <3>1. PICK j \in S : Blockers[j] \cap S = {}
        BY <1>5 DEF Acyclic
      <3>2. C[j] \subseteq Blockers[j] \cup R
        BY <1>2
      <3> QED BY <2>1, <3>1, <3>2
    <2>2. CASE S \cap R # {}
      <3>1. PICK j \in S \cap R : Blockers[j] \cap (S \cap R) = {}
        BY <1>5, <2>2 DEF Acyclic
      <3>2. C[j] = Blockers[j] /\ Blockers[j] \subseteq R
        BY <1>2, <1>3, <1>4, <3>1
      <3> QED BY <3>1, <3>2
    <2> QED BY <2>1, <2>2
  <1> QED BY <1>5 DEF Acyclic, C

(* While there was no overlap, the agent whose call it is is alone.        *)
LEMMA Alone ==
    ASSUME TrackerTypeOK, SerialInv, NEW a \in Agents, ~overlapped', ~aliased',
           aliased => aliased',
           \/ Begins(a)
           \/ call[a] # Nil /\ overlapped' = overlapped
    PROVE  /\ ~overlapped /\ ~aliased
           /\ Acyclic(Blockers)
           /\ \A b \in Agents \ {a} : call[b] = Nil
  <1>1. CASE Begins(a)
    <2>1. ~overlapped /\ \A b \in Agents : call[b] = Nil
      BY <1>1, Zenon DEF Begins
    <2> QED BY <2>1 DEF SerialInv
  <1>2. CASE call[a] # Nil /\ overlapped' = overlapped
    BY <1>2 DEF SerialInv
  <1> QED BY <1>1, <1>2

(* What has to be shown of a step that changes no file: the call it leads  *)
(* to may do what it is about to.                                          *)
Safe(c) ==
    \/ c = Nil
    \/ c.step \in {"name", "unlink"}
    \/ /\ c.step = "list"
       /\ Acyclic(Become(c.issue, BlockedBy(c.issue) \cup c.add))
    \/ /\ c.step = "read"
       /\ c.field = "blocked_by" => Acyclic(Become(c.issue, c.value))
    \/ /\ c.step \in {"truncate", "write"}
       /\ Acyclic(Become(c.issue, c.text.blocked_by))

LEMMA SafeStep ==
    ASSUME TrackerTypeOK, SerialInv, NEW a \in Agents, NEW c, CallOK(c), Goes(a, c),
           file' = file, ~overlapped', ~aliased', aliased => aliased',
           ~overlapped /\ ~aliased /\ Acyclic(Blockers) => Safe(c),
           \/ Begins(a)
           \/ call[a] # Nil /\ overlapped' = overlapped
    PROVE  SerialInv'
  <1>1. /\ ~overlapped /\ ~aliased /\ Acyclic(Blockers) /\ Safe(c)
        /\ \A b \in Agents \ {a} : call[b] = Nil
    BY Alone
  <1>2. call'[a] = c /\ \A b \in Agents \ {a} : call'[b] = Nil
    BY <1>1, NextCall
  <1>3. Blockers' = Blockers /\ \A i : BlockedBy(i)' = BlockedBy(i)
    BY DEF Blockers, BlockedBy, Readable
  <1>5. At(a, "list")' =>
           Acyclic(Become(call[a].issue, BlockedBy(call[a].issue) \cup call[a].add))'
    BY <1>1, <1>2, <1>3 DEF Safe, At, Become
  <1>6. At(a, "read")' /\ call'[a].field = "blocked_by" =>
           Acyclic(Become(call[a].issue, call[a].value))'
    BY <1>1, <1>2, <1>3 DEF Safe, At, Become
  <1>7. At(a, "truncate")' \/ At(a, "write")' =>
           Acyclic(Become(call[a].issue, call[a].text.blocked_by))'
    BY <1>1, <1>2, <1>3 DEF Safe, At, Become
  <1>8. Acyclic(Blockers)'
    BY <1>1, <1>3
  <1>9. \A b \in Agents : call'[b] # Nil => b = a
    BY <1>2
  <1> QED
    BY <1>5, <1>6, <1>7, <1>8, <1>9 DEF SerialInv, At

LEMMA SerialStep ==
    TrackerTypeOK /\ SerialInv /\ [TrackerNext]_vars => SerialInv'
  <1> SUFFICES ASSUME TrackerTypeOK, SerialInv, [TrackerNext]_vars, ~overlapped',
                      ~aliased'
               PROVE  SerialInv'
    BY DEF SerialInv
  <1>nil. CallOK(Nil) /\ Safe(Nil)
    BY DEF CallOK, Safe
  <1>same. ASSUME NEW i \in Issues, NEW X, X \subseteq BlockedBy(i), Acyclic(Blockers)
           PROVE  Acyclic(Become(i, X))
    <2>1. \A j \in Issues : Become(i, X)[j] \subseteq Blockers[j]
      BY <1>same DEF Become, Blockers, Named
    <2> QED BY <1>same, <2>1, FewerBlockers
  <1>1. ASSUME NEW a \in Agents, NEW i \in Issues, Claims(a, i) PROVE SerialInv'
    <2>1. CASE claim[i] = Nil
      <3> DEFINE c == [step |-> "name", issue |-> i]
      <3>1. CallOK(c) /\ Safe(c)
        BY DEF CallOK, Call, Safe
      <3>2. Goes(a, c) /\ Begins(a) /\ file' = file /\ aliased' = aliased
        BY <1>1, <2>1 DEF Claims
      <3> HIDE DEF c
      <3> QED BY <3>1, <3>2, SafeStep
    <2>2. CASE claim[i] # Nil
      <3>1. call' = call /\ file' = file /\ aliased' = aliased /\ Begins(a)
        BY <1>1, <2>2 DEF Claims
      <3>2. Acyclic(Blockers) /\ \A b \in Agents : call'[b] = Nil
        BY <3>1, Alone DEF Begins
      <3>3. Blockers' = Blockers
        BY <3>1 DEF Blockers, BlockedBy, Readable
      <3> QED BY <3>2, <3>3 DEF SerialInv, At
    <2> QED BY <2>1, <2>2
  <1>2. ASSUME NEW a \in Agents, NEW i \in Issues, Releases(a, i) PROVE SerialInv'
    <2> DEFINE c == [step |-> "unlink", issue |-> i]
    <2>1. CallOK(c) /\ Safe(c)
      BY DEF CallOK, Call, Safe
    <2>2. Goes(a, c) /\ Begins(a) /\ file' = file /\ aliased' = aliased
      BY <1>2 DEF Releases
    <2> HIDE DEF c
    <2> QED BY <2>1, <2>2, SafeStep
  <1>3. ASSUME NEW a \in Agents, NEW i \in Issues, Comments(a, i) PROVE SerialInv'
    <2> DEFINE c == [step |-> "read", issue |-> i, field |-> "none", value |-> Nil]
    <2>1. CallOK(c) /\ Safe(c)
      BY DEF CallOK, ReadCall, Safe
    <2>2. Goes(a, c) /\ Begins(a) /\ file' = file /\ aliased' = aliased
      BY <1>3 DEF Comments
    <2> HIDE DEF c
    <2> QED BY <2>1, <2>2, SafeStep
  <1>4. ASSUME NEW a \in Agents, NEW i \in Issues, NEW x \in {"open", "closed"},
               SetsState(a, i, x)
        PROVE  SerialInv'
    <2> DEFINE c == Edit(i, "state", x)
    <2>1. CallOK(c) /\ Safe(c)
      BY EditTypes DEF Safe, Edit
    <2>2. Goes(a, c) /\ Begins(a) /\ file' = file /\ aliased' = aliased
      BY <1>4 DEF SetsState
    <2> HIDE DEF c
    <2> QED BY <2>1, <2>2, SafeStep
  <1>5. ASSUME NEW a \in Agents, NEW ref \in Refs, NEW b \in Refs, Links(a, ref, b)
        PROVE  SerialInv'
    <2> DEFINE i == ref[1]
               c == [step |-> "list", issue |-> i, add |-> {b}, drop |-> {}]
    <2>1. CallOK(c) /\ i \in Issues
      BY TrackerAssumption DEF CallOK, Call
    <2>2. /\ Goes(a, c) /\ Begins(a) /\ file' = file /\ ~WouldCycle(ref, b)
          /\ aliased => aliased'
          /\ ref = Ref(i)
      BY <1>5 DEF Links
    <2>3. Acyclic(Blockers) => Safe(c)
      BY <2>1, <2>2, LinkKeepsAcyclic DEF Safe
    <2> HIDE DEF c, i
    <2> QED BY <2>1, <2>2, <2>3, SafeStep
  <1>6. ASSUME NEW a \in Agents, NEW i \in Issues, NEW b \in Refs,
               UnlinksBlocker(a, i, b)
        PROVE  SerialInv'
    <2> DEFINE c == [step |-> "list", issue |-> i, add |-> {}, drop |-> {b}]
    <2>1. CallOK(c)
      BY DEF CallOK, Call
    <2>2. Goes(a, c) /\ Begins(a) /\ file' = file /\ aliased' = aliased
      BY <1>6 DEF UnlinksBlocker
    <2>3. Acyclic(Blockers) => Safe(c)
      BY <1>same DEF Safe
    <2> HIDE DEF c
    <2> QED BY <2>1, <2>2, <2>3, SafeStep
  <1>7. ASSUME NEW a \in Agents, Creates(a) PROVE SerialInv'
    <2>1. PICK i \in Issues :
             Goes(a, [step |-> "truncate", issue |-> i, text |-> Fresh])
      BY <1>7 DEF Creates
    <2> DEFINE c == [step |-> "truncate", issue |-> i, text |-> Fresh]
    <2>2. CallOK(c)
      BY DEF CallOK, Call, Issue, Fresh
    <2>3. Acyclic(Blockers) => Safe(c)
      BY <1>same DEF Safe, Fresh
    <2>4. Goes(a, c) /\ Begins(a) /\ file' = file /\ aliased' = aliased
      BY <1>7, <2>1 DEF Creates
    <2> HIDE DEF c
    <2> QED BY <2>2, <2>3, <2>4, SafeStep
  <1>8. ASSUME NEW a \in Agents, NEW v \in Agents \cup {Nil}, At(a, "name") \/ At(a, "unlink"),
               Goes(a, Edit(call[a].issue, "assignee", v)),
               file' = file, overlapped' = overlapped, aliased' = aliased
        PROVE  SerialInv'
    <2> DEFINE c == Edit(call[a].issue, "assignee", v)
    <2>1. CallOK(c) /\ Safe(c) /\ call[a] # Nil
      BY <1>8, EditTypes, CallShapes DEF Safe, Edit, At
    <2> HIDE DEF c
    <2> QED BY <1>8, <2>1, SafeStep DEF c
  <1>9. ASSUME NEW a \in Agents, Names(a) \/ Unlinks(a) PROVE SerialInv'
    BY <1>8, <1>9 DEF Names, Unlinks
  <1>10. ASSUME NEW a \in Agents, Lists(a) PROVE SerialInv'
    <2> DEFINE i == call[a].issue
               B == (BlockedBy(i) \ call[a].drop) \cup call[a].add
    <2>1. At(a, "list") /\ call[a] # Nil /\ i \in Issues /\ B \in SUBSET Refs
      BY <1>10, CallShapes, FileTypes DEF Lists, At
    <2>2. CallOK(Edit(i, "blocked_by", B))
      BY <2>1, EditTypes
    <2>3. Acyclic(Become(i, BlockedBy(i) \cup call[a].add))
      <3>1. ~overlapped /\ ~aliased
        BY <1>10 DEF Lists
      <3> QED BY <2>1, <3>1 DEF SerialInv
    <2>4. \A j \in Issues : Become(i, B)[j] \subseteq Become(i, BlockedBy(i) \cup call[a].add)[j]
      BY <2>1 DEF Become, Blockers, Named
    <2>5. Acyclic(Become(i, B))
      BY <2>3, <2>4, FewerBlockers
    <2>6. Safe(Edit(i, "blocked_by", B))
      BY <2>5 DEF Safe, Edit
    <2>7. \/ Goes(a, Nil)
          \/ Goes(a, Edit(i, "blocked_by", B))
      BY <1>10 DEF Lists
    <2>8. file' = file /\ overlapped' = overlapped /\ aliased' = aliased
      BY <1>10 DEF Lists
    <2> HIDE DEF i, B
    <2> QED BY <1>nil, <2>1, <2>2, <2>6, <2>7, <2>8, SafeStep
  <1>11. ASSUME NEW a \in Agents, Reads(a) PROVE SerialInv'
    <2> DEFINE c == [step |-> "truncate", issue |-> call[a].issue, text |-> Edited(call[a])]
    <2>1. /\ At(a, "read") /\ call[a] # Nil /\ call[a].issue \in Issues
          /\ file' = file /\ overlapped' = overlapped /\ aliased' = aliased
      BY <1>11, CallShapes DEF Reads, At
    <2>2. CASE ~Readable(call[a].issue)
      <3>1. Goes(a, Nil)
        BY <1>11, <2>2, ReadsGoes
      <3> QED BY <1>nil, <2>1, <3>1, SafeStep
    <2>3. CASE Readable(call[a].issue)
      <3>1. Goes(a, c)
        BY <1>11, <2>3, ReadsGoes
      <3>2. CallOK(c)
        BY <2>1, <2>3, EditedTypes DEF CallOK, Call
      <3>3. ASSUME ~overlapped, ~aliased, Acyclic(Blockers)
            PROVE  Acyclic(Become(call[a].issue, Edited(call[a]).blocked_by))
        <4>1. CASE call[a].field = "blocked_by"
          BY <2>1, <2>3, <3>3, <4>1, EditedTypes DEF SerialInv
        <4>2. CASE call[a].field # "blocked_by"
          BY <1>same, <2>1, <2>3, <3>3, <4>2, EditedTypes
        <4> QED BY <4>1, <4>2
      <3>4. ~overlapped /\ ~aliased /\ Acyclic(Blockers) => Safe(c)
        BY <3>3 DEF Safe
      <3> HIDE DEF c
      <3> QED BY <2>1, <3>1, <3>2, <3>4, SafeStep
    <2> QED BY <2>2, <2>3
  <1>12. ASSUME NEW a \in Agents, Truncates(a) \/ Writes(a) PROVE SerialInv'
    <2> DEFINE i == call[a].issue
               X == call[a].text.blocked_by
    <2>1. /\ At(a, "truncate") \/ At(a, "write")
          /\ call[a] # Nil /\ overlapped' = overlapped /\ aliased' = aliased
          /\ \A j \in Issues : j # i => file'[j] = file[j]
      BY <1>12 DEF Truncates, Writes, At, TrackerTypeOK
    <2>2. i \in Issues /\ call[a].text \in Issue
      BY <2>1, CallShapes
    <2>3. ~overlapped /\ ~aliased /\ \A b \in Agents \ {a} : call[b] = Nil
      BY <2>1, Alone
    <2>4. Acyclic(Become(i, X)) /\ Acyclic(Blockers)
      BY <2>1, <2>3 DEF SerialInv
    <2>5. \A j \in Issues : j # i => Blockers'[j] = Blockers[j]
      BY <2>1 DEF Blockers, BlockedBy, Readable
    <2>6. CASE Truncates(a)
      <3> DEFINE c == [call[a] EXCEPT !.step = "write"]
      <3>1. At(a, "truncate") /\ Goes(a, c) /\ file' = [file EXCEPT ![i] = Empty]
        BY <2>6 DEF Truncates
      <3>2. call[a] \in Call
        BY <2>1, <3>1 DEF TrackerTypeOK, ReadCall, At
      <3>3. CallOK(c) /\ c.step = "write" /\ c.issue = i /\ c.text = call[a].text
        BY <3>1, <3>2 DEF CallOK, Call, At
      <3> HIDE DEF c
      <3>4. call'[a] = c /\ \A b \in Agents \ {a} : call'[b] = Nil
        BY <2>3, <3>1, <3>3, NextCall
      <3>5. Blockers'[i] = {}
        BY <2>2, <3>1 DEF TrackerTypeOK, Blockers, BlockedBy, Readable, Named
      <3>6. Acyclic(Blockers')
        <4>1. \A j \in Issues : Blockers'[j] \subseteq Blockers[j]
          BY <2>5, <3>5
        <4> QED BY <2>4, <4>1, FewerBlockers
      <3>7. PICK C : C = [Blockers' EXCEPT ![i] = Named(X)]
        OBVIOUS
      <3>8. \A j \in Issues : C[j] \subseteq Become(i, X)[j]
        BY <2>5, <3>7 DEF Become, Blockers
      <3>9. Acyclic(C)
        BY <2>4, <3>8, FewerBlockers
      <3>10. \A b \in Agents : call'[b] # Nil => b = a
        BY <3>4
      <3>11. Acyclic(Become(call[a].issue, call[a].text.blocked_by))'
        BY <3>3, <3>4, <3>7, <3>9 DEF Become, Acyclic, Named, Ref
      <3>12. ~At(a, "list")' /\ ~At(a, "read")'
        BY <3>3, <3>4 DEF At
      <3>13. Acyclic(Blockers)'
        BY <3>6 DEF Acyclic
      <3> QED BY <3>10, <3>11, <3>12, <3>13 DEF SerialInv, At
    <2>7. CASE Writes(a)
      <3>1. Goes(a, Nil) /\ file' = [file EXCEPT ![i] = call[a].text]
        BY <2>7 DEF Writes
      <3>2. \A b \in Agents : call'[b] = Nil
        BY <1>nil, <2>3, <3>1, NextCall
      <3>3. Blockers'[i] \subseteq Named(X)
        BY <2>2, <3>1 DEF TrackerTypeOK, Blockers, BlockedBy, Readable, Named
      <3>4. \A j \in Issues : Blockers'[j] \subseteq Become(i, X)[j]
        BY <2>2, <2>5, <3>3 DEF Become, Blockers
      <3>5. Acyclic(Blockers')
        BY <2>4, <3>4, FewerBlockers
      <3> QED BY <3>2, <3>5 DEF SerialInv, At, Acyclic
    <2> QED BY <1>12, <2>6, <2>7
  <1>13. ASSUME NEW a \in Agents, Dies(a) PROVE SerialInv'
    BY <1>nil, <1>13, SafeStep DEF Dies
  <1>14. CASE UNCHANGED vars
    <2>1. /\ call' = call /\ overlapped' = overlapped /\ aliased' = aliased
          /\ Blockers' = Blockers /\ \A i : BlockedBy(i)' = BlockedBy(i)
      BY <1>14 DEF vars, Blockers, BlockedBy, Readable
    <2>2. ~overlapped /\ ~aliased
      BY <2>1
    <2>3. Acyclic(Blockers)'
      BY <2>1, <2>2 DEF SerialInv
    <2>4. ASSUME NEW a \in Agents
          PROVE  /\ At(a, "list")' =>
                       Acyclic(Become(call[a].issue,
                                      BlockedBy(call[a].issue) \cup call[a].add))'
                 /\ At(a, "read")' /\ call'[a].field = "blocked_by" =>
                       Acyclic(Become(call[a].issue, call[a].value))'
                 /\ At(a, "truncate")' \/ At(a, "write")' =>
                       Acyclic(Become(call[a].issue, call[a].text.blocked_by))'
      BY <2>1, <2>2 DEF SerialInv, At, Become
    <2>5. \A a, b \in Agents : call'[a] # Nil /\ call'[b] # Nil => a = b
      BY <2>1, <2>2 DEF SerialInv
    <2> QED BY <2>3, <2>4, <2>5 DEF SerialInv
  <1> QED BY <1>1, <1>2, <1>3, <1>4, <1>5, <1>6, <1>7, <1>9, <1>10, <1>11, <1>12,
             <1>13, <1>14 DEF TrackerNext, AgentStep

(* As long as no two calls overlap, links name the issue that is blocked   *)
(* as the tracker does and ready() answers, an open issue means that some  *)
(* issue is ready, for any number of issues, any spellings of the blockers *)
(* and whatever call dies.                                                 *)
THEOREM NeverWedgedTheorem == TrackerSpec => []NeverWedged
  <1>1. TrackerInit => SerialInv
    <2> SUFFICES ASSUME TrackerInit PROVE SerialInv
      OBVIOUS
    <2>1. \A i \in Issues : Blockers[i] = {}
      BY DEF TrackerInit, Blockers, BlockedBy, Readable, Fresh, Named
    <2>2. Acyclic(Blockers)
      BY <2>1 DEF Acyclic
    <2> QED BY <2>2 DEF TrackerInit, SerialInv, At
  <1>2. TrackerTypeOK /\ SerialInv => NeverWedged
    <2> SUFFICES ASSUME TrackerTypeOK, SerialInv, ~overlapped, ~aliased,
                        NEW k \in Issues, Open(k)
                 PROVE  Ready # {}
      BY DEF NeverWedged
    <2> DEFINE S == {i \in Issues : Open(i)}
    <2>1. PICK i \in S : Blockers[i] \cap S = {}
      BY DEF SerialInv, Acyclic
    <2>2. \A b \in Issues : Ref(b) \in BlockedBy(i) => ~Open(b)
      BY <2>1 DEF Blockers, Named
    <2> QED BY <2>1, <2>2 DEF Ready
  <1> QED BY <1>1, <1>2, SerialStep, TrackerTypes, PTL DEF TrackerSpec
=============================================================================
