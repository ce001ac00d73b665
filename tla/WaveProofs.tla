----------------------------- MODULE WaveProofs -----------------------------
(***************************************************************************)
(* Proofs about waves.  The lock around the staging phase, for any number  *)
(* of sessions, with and without --pid: two sessions that pass their pid   *)
(* get into it only if acquires overlap, or an acquire and the release of  *)
(* a session without.  Then the planning of waves, for any tickets,        *)
(* dependencies, gates and closed tickets.                                 *)
(***************************************************************************)
EXTENDS WaveLock, WavePlanning, FiniteSetTheorems, TLAPS

-----------------------------------------------------------------------------
(* The wave lock.                                                          *)

(* The record that a session writes.                                       *)
Own(s) == [session |-> s, pid |-> [command |-> s \notin Named, of |-> s]]

(* As long as nothing has overlapped: at most one acquire is under way and *)
(* no session without --pid is about to remove the file then, what it      *)
(* decided stays true until it truncates the file, the file is empty until *)
(* it writes it; who is about to remove the file finds its own record      *)
(* there, and so does who holds the lock by its own pid unless it is just  *)
(* writing it again.                                                       *)
Orderly ==
    /\ \A s, t \in Sessions : Acquiring(s) /\ Acquiring(t) => s = t
    /\ \A s, t \in Sessions : ~(Acquiring(s) /\ Leaving(t))
    /\ \A s \in Sessions :
          /\ At(s, "truncate") => Free(s)
          /\ At(s, "write") => lock = Torn
          /\ At(s, "exit") \/ At(s, "unlink") => lock = Own(s)
          /\ session[s].holds /\ s \in Named /\ ~At(s, "write")
               => Alive(s) /\ lock = Own(s)
          /\ At(s, "unlink") => ~session[s].holds

WaveInv ==
    /\ WaveTypeOK
    /\ lock \in LockRecord => lock = Own(lock.session)
    /\ overlapped \/ Orderly

(* Records of different sessions differ, and none is an empty file.        *)
LEMMA Records ==
    ASSUME NEW s \in Sessions
    PROVE  /\ Own(s) \in LockRecord
           /\ Own(s) # Nil /\ Own(s) # Torn
           /\ Own(s).session = s /\ Own(s).pid.of = s
           /\ Own(s).pid.command = (s \notin Named)
           /\ \A t \in Sessions : Own(t) = Own(s) => t = s
<1>1. Own(s) \in LockRecord
  BY DEF Own, LockRecord
<1>2. Own(s) # Torn
  <2>1. Own(s).session # Torn.session
    BY WaveAssumption DEF Own, Torn
  <2> QED BY <2>1
<1>3. /\ Own(s).session = s /\ Own(s).pid.of = s
      /\ Own(s).pid.command = (s \notin Named)
      /\ \A t \in Sessions : Own(t).session = t
  BY DEF Own
<1> QED BY <1>1, <1>2, <1>3, WaveAssumption

(* A lock whose session lives, by its own pid, is not free for another.    *)
LEMMA Guarded ==
    ASSUME NEW s \in Sessions, NEW t \in Sessions, s # t, s \in Named,
           lock = Own(s), Alive(s)
    PROVE  ~Free(t)
<1>1. /\ Own(s) # Nil /\ Own(s) # Torn
      /\ Own(s).session = s /\ Own(s).pid.of = s /\ ~Own(s).pid.command
  BY Records
<1> QED BY <1>1 DEF Free, Held, PidAlive

(* Who can be dead stays dead while nothing is being written: a lock that  *)
(* is free for an acquire remains so.                                      *)
LEMMA StaysFree ==
    ASSUME WaveTypeOK, lock \in LockRecord => lock = Own(lock.session),
           NEW s \in Sessions, Free(s), lock' = lock,
           \A t \in Sessions : /\ Alive(t)' => Alive(t)
                               /\ At(t, "exit")' => At(t, "exit")
    PROVE  Free(s)'
<1>1. CASE ~Held \/ lock.session = s
  BY <1>1 DEF Free, Held
<1>2. CASE Held /\ lock.session # s
  <2>1. lock = Own(lock.session) /\ lock.session \in Sessions
    BY <1>2 DEF WaveTypeOK, Held, LockRecord
  <2>2. lock.pid.of \in Sessions
    BY <2>1, Records
  <2>3. ~PidAlive(lock.pid)
    BY <1>2 DEF Free
  <2>4. ~PidAlive(lock.pid)'
    BY <2>2, <2>3 DEF PidAlive
  <2> QED BY <2>4 DEF Free
<1> QED BY <1>1, <1>2

(* A session that moves leaves the others where they are.                  *)
LEMMA Elsewhere ==
    ASSUME WaveTypeOK, NEW s \in Sessions, NEW r,
           session' = [session EXCEPT ![s] = r]
    PROVE  /\ session'[s] = r
           /\ \A t \in Sessions \ {s} : session'[t] = session[t]
BY DEF WaveTypeOK

(* Taking a lock that is free keeps the invariant.                         *)
LEMMA AcquiresInv ==
    ASSUME WaveInv, NEW s \in Sessions, Acquires(s)
    PROVE  WaveInv'
<1> DEFINE r == [step |-> "truncate", holds |-> session[s].holds,
                 uses |-> session[s].uses + 1]
<1>0. /\ WaveTypeOK /\ lock' = lock /\ At(s, "idle") /\ Free(s)
      /\ session[s].uses < MaxUses /\ MaxUses \in Nat
      /\ overlapped' = (overlapped \/ \E t \in Sessions \ {s} :
                                        Acquiring(t) \/ Leaving(t))
  BY WaveAssumption DEF WaveInv, Acquires
<1>1. session' = [session EXCEPT ![s] = r]
  BY <1>0 DEF Acquires, WaveTypeOK
<1>2. r.step = "truncate" /\ r.holds = session[s].holds
  OBVIOUS
<1>3. WaveTypeOK'
  <2>1. r \in [step : {"idle", "truncate", "write", "exit", "unlink", "dead"},
               holds : BOOLEAN, uses : 0..MaxUses]
    BY <1>0 DEF WaveTypeOK
  <2> HIDE DEF r
  <2> QED BY <1>0, <1>1, <2>1 DEF WaveTypeOK
<1> HIDE DEF r
<1>4. session'[s] = r /\ \A t \in Sessions \ {s} : session'[t] = session[t]
  BY <1>0, <1>1, Elsewhere
<1>5. CASE ~overlapped'
  <2>1. Orderly /\ \A t \in Sessions \ {s} : ~Acquiring(t) /\ ~Leaving(t)
    BY <1>0, <1>5 DEF WaveInv
  <2>2. Orderly'
    <3>1. \A t \in Sessions \ {s} : ~Acquiring(t)'
      BY <1>4, <2>1 DEF Acquiring
    <3>2. \A t \in Sessions : Alive(t)' = Alive(t)
      BY <1>0, <1>2, <1>4 DEF Alive, At
    <3>3. Free(s)'
      <4>1. \A t \in Sessions : At(t, "exit")' => At(t, "exit")
        BY <1>2, <1>4 DEF At
      <4> QED BY <1>0, <3>2, <4>1, StaysFree DEF WaveInv
    <3>4. \A t \in Sessions \ {s} :
             /\ ~At(t, "truncate")' /\ ~At(t, "write")' /\ ~At(t, "exit")'
             /\ At(t, "unlink")' = At(t, "unlink")
      BY <1>4, <3>1 DEF Acquiring, At
    <3>5. At(s, "truncate")' /\ ~At(s, "write")' /\ ~At(s, "exit")'
          /\ ~At(s, "unlink")'
      BY <1>2, <1>4 DEF At
    <3>6. \A t \in Sessions : ~Leaving(t)'
      BY <2>1, <3>4, <3>5 DEF Leaving
    <3> QED
      BY <1>0, <1>2, <1>4, <2>1, <3>1, <3>2, <3>3, <3>4, <3>5, <3>6
      DEF Orderly, At
  <2> QED BY <1>0, <1>3, <2>2 DEF WaveInv
<1> QED BY <1>0, <1>3, <1>5 DEF WaveInv

(* Under way, and the only one: nobody else holds the lock by its own pid, *)
(* for the file is not theirs, and nobody removes it.                      *)
LEMMA Alone ==
    ASSUME WaveInv, Orderly, NEW s \in Sessions, Acquiring(s)
    PROVE  \A t \in Sessions \ {s} :
              /\ ~(session[t].holds /\ t \in Named)
              /\ ~At(t, "unlink") /\ ~Acquiring(t)
<1> SUFFICES ASSUME NEW t \in Sessions \ {s}
             PROVE  /\ ~(session[t].holds /\ t \in Named)
                    /\ ~At(t, "unlink") /\ ~Acquiring(t)
  OBVIOUS
<1>1. ~Acquiring(t) /\ ~Leaving(t)
  BY DEF Orderly
<1>2. t \in Named => lock # Own(t) \/ ~Alive(t)
  <2>1. CASE At(s, "truncate")
    BY <2>1, Guarded DEF Orderly
  <2>2. CASE At(s, "write")
    BY <2>2, Records DEF Orderly
  <2>3. CASE At(s, "exit")
    BY <2>3, Records DEF Orderly
  <2> QED BY <2>1, <2>2, <2>3 DEF Acquiring, At
<1>3. ~At(t, "write") /\ (At(t, "unlink") => Alive(t) /\ t \in Named)
  BY <1>1 DEF Acquiring, At, Alive, Leaving
<1> QED BY <1>1, <1>2, <1>3 DEF Orderly

(* The steps of a session that is under way.                               *)
LEMMA GoesOnInv ==
    ASSUME WaveInv, NEW s \in Sessions,
           Truncates(s) \/ Writes(s) \/ Exits(s)
    PROVE  WaveInv'
<1>0. /\ WaveTypeOK /\ overlapped' = overlapped
      /\ session[s] \in [step : {"idle", "truncate", "write", "exit",
                                 "unlink", "dead"},
                         holds : BOOLEAN, uses : 0..MaxUses]
      /\ Acquiring(s) /\ Alive(s)
  BY DEF WaveInv, WaveTypeOK, Truncates, Writes, Exits, Acquiring, Alive, At
<1>1. \/ /\ Truncates(s) /\ lock' = Torn
         /\ session' = [session EXCEPT ![s].step = "write"]
      \/ /\ Writes(s) /\ lock' = Own(s)
         /\ session' = [session EXCEPT ![s].step = "exit"]
      \/ /\ Exits(s) /\ lock' = lock
         /\ session' = [session EXCEPT ![s].step = "idle", ![s].holds = TRUE]
  BY DEF Truncates, Writes, Exits, Moves, Own
<1>2. /\ \A t \in Sessions \ {s} : session'[t] = session[t]
      /\ session' \in [Sessions ->
            [step : {"idle", "truncate", "write", "exit", "unlink", "dead"},
             holds : BOOLEAN, uses : 0..MaxUses]]
      /\ Truncates(s) => At(s, "write")' /\ session'[s].holds = session[s].holds
      /\ Writes(s) => At(s, "exit")' /\ session'[s].holds = session[s].holds
      /\ Exits(s) => At(s, "idle")' /\ session'[s].holds
      /\ Truncates(s) => At(s, "truncate")
      /\ Writes(s) => At(s, "write")
      /\ Exits(s) => At(s, "exit")
  BY <1>0, <1>1 DEF WaveTypeOK, At, Truncates, Writes, Exits
<1>3. WaveTypeOK'
  BY <1>0, <1>1, <1>2, Records DEF WaveTypeOK
<1>4. (lock \in LockRecord => lock = Own(lock.session))'
  <2>1. Torn \notin LockRecord
    BY WaveAssumption DEF Torn, LockRecord
  <2>2. Own(s) = Own(Own(s).session)
    BY Records
  <2> QED BY <1>1, <2>1, <2>2 DEF WaveInv
<1>5. CASE ~overlapped
  <2>1. Orderly
    BY <1>5 DEF WaveInv
  <2>2. \A t \in Sessions \ {s} :
           /\ ~(session[t].holds /\ t \in Named)
           /\ ~At(t, "unlink") /\ ~Acquiring(t)
    BY <1>0, <2>1, Alone
  <2>3. \A t \in Sessions \ {s} :
           /\ ~(session'[t].holds /\ t \in Named)
           /\ ~At(t, "unlink")' /\ ~Acquiring(t)'
           /\ ~At(t, "truncate")' /\ ~At(t, "write")' /\ ~At(t, "exit")'
    BY <1>2, <2>2 DEF At, Acquiring
  <2>4. CASE Truncates(s)
    <3>1. lock' = Torn /\ At(s, "write")'
      BY <1>1, <1>2, <2>4 DEF At
    <3>2. ~At(s, "truncate")' /\ ~At(s, "exit")' /\ ~At(s, "unlink")'
      BY <3>1 DEF At
    <3> QED BY <1>3, <1>4, <2>3, <3>1, <3>2 DEF WaveInv, Orderly, Leaving
  <2>5. CASE Writes(s)
    <3>1. lock' = Own(s) /\ At(s, "exit")'
      BY <1>1, <1>2, <2>5 DEF At
    <3>2. ~At(s, "truncate")' /\ ~At(s, "write")' /\ ~At(s, "unlink")' /\ Alive(s)'
      BY <3>1 DEF At, Alive
    <3> QED BY <1>3, <1>4, <2>3, <3>1, <3>2 DEF WaveInv, Orderly, Leaving
  <2>6. CASE Exits(s)
    <3>1. lock' = Own(s) /\ At(s, "idle")'
      BY <1>1, <1>2, <2>1, <2>6 DEF At, Orderly
    <3>2. /\ ~At(s, "truncate")' /\ ~At(s, "write")' /\ ~At(s, "unlink")'
          /\ ~At(s, "exit")' /\ ~Acquiring(s)' /\ Alive(s)'
      BY <3>1 DEF At, Alive, Acquiring
    <3> QED BY <1>3, <1>4, <2>3, <3>1, <3>2 DEF WaveInv, Orderly, Leaving
  <2> QED BY <2>4, <2>5, <2>6, <1>1
<1> QED BY <1>0, <1>3, <1>4, <1>5 DEF WaveInv

(* A session that gives the lock up, or dies.                              *)
LEMMA LeavesInv ==
    ASSUME WaveInv, NEW s \in Sessions,
           Releases(s) \/ Unlinks(s) \/ Dies(s)
    PROVE  WaveInv'
<1>0. /\ WaveTypeOK /\ overlapped' \in BOOLEAN /\ (overlapped => overlapped')
      /\ session[s] \in [step : {"idle", "truncate", "write", "exit",
                                 "unlink", "dead"},
                         holds : BOOLEAN, uses : 0..MaxUses]
      /\ ~overlapped' /\ Releases(s) /\ MayRelease(s) /\ s \notin Named
            => \A t \in Sessions : ~Acquiring(t)
  BY DEF WaveInv, WaveTypeOK, Releases, Unlinks, Dies
<1>1. /\ \A t \in Sessions \ {s} : session'[t] = session[t]
      /\ session' \in [Sessions ->
            [step : {"idle", "truncate", "write", "exit", "unlink", "dead"},
             holds : BOOLEAN, uses : 0..MaxUses]]
      /\ Releases(s) => /\ lock' = lock /\ ~session'[s].holds /\ At(s, "idle")
                        /\ \/ At(s, "unlink")' /\ MayRelease(s)
                           \/ At(s, "idle")'
      /\ Unlinks(s) => /\ lock' = Nil /\ session'[s].holds = session[s].holds
                       /\ At(s, "unlink") /\ At(s, "idle")'
      /\ Dies(s) => lock' = lock /\ ~session'[s].holds /\ At(s, "dead")'
  <2>1. CASE Releases(s)
    <3>1. PICK step \in {"idle", "unlink"} :
             /\ step = "unlink" => MayRelease(s)
             /\ session' = [session EXCEPT ![s].step = step, ![s].holds = FALSE,
                                         ![s].uses = @ + 1]
      BY <1>0, <2>1 DEF Releases, At, WaveTypeOK
    <3>2. lock' = lock /\ At(s, "idle") /\ session[s].uses + 1 \in 0..MaxUses
      BY <1>0, <2>1, WaveAssumption DEF Releases, At
    <3>3. ~Unlinks(s) /\ ~Dies(s)
      <4>1. ~Unlinks(s)
        BY <3>2 DEF Unlinks, At
      <4>2. session'[s].step = step
        BY <1>0, <3>1 DEF WaveTypeOK
      <4>3. ~Dies(s)
        BY <1>0, <4>2 DEF Dies, WaveTypeOK
      <4> QED BY <4>1, <4>3
    <3> QED BY <1>0, <3>1, <3>2, <3>3 DEF WaveTypeOK, At
  <2>2. CASE Unlinks(s)
    BY <1>0, <2>2 DEF WaveTypeOK, Unlinks, Moves, At, Releases, Dies
  <2>3. CASE Dies(s)
    <3>1. lock' = lock /\ session'[s].step = "dead" /\ ~session'[s].holds
      BY <1>0, <2>3 DEF WaveTypeOK, Dies
    <3>2. ~Releases(s)
      BY <1>0, <3>1 DEF Releases, At, WaveTypeOK
    <3>3. ~Unlinks(s)
      BY <1>0, <3>1 DEF Unlinks, Moves, WaveTypeOK
    <3> QED BY <1>0, <2>3, <3>1, <3>2, <3>3 DEF WaveTypeOK, Dies, At
  <2> QED BY <2>1, <2>2, <2>3
<1>2. WaveTypeOK'
  BY <1>0, <1>1 DEF WaveTypeOK
<1>3. (lock \in LockRecord => lock = Own(lock.session))'
  BY <1>1, WaveAssumption DEF WaveInv
<1>4. CASE ~overlapped'
  <2>1. Orderly
    BY <1>0, <1>4 DEF WaveInv
  <2>2. ~At(s, "truncate")' /\ ~At(s, "write")' /\ ~At(s, "exit")' /\ ~Acquiring(s)'
    BY <1>1 DEF At, Acquiring
  <2>3. \A t \in Sessions \ {s} :
           /\ \A step : At(t, step)' = At(t, step)
           /\ Acquiring(t)' = Acquiring(t) /\ Alive(t)' = Alive(t)
           /\ Leaving(t)' = Leaving(t)
    BY <1>1 DEF At, Acquiring, Alive, Leaving
  <2>4. \A t, u \in Sessions : Acquiring(t)' /\ Acquiring(u)' => t = u
    BY <2>1, <2>2, <2>3 DEF Orderly
  <2>5. \A t \in Sessions \ {s} : At(t, "truncate")' => Free(t)'
    <3> SUFFICES ASSUME NEW t \in Sessions \ {s}, At(t, "truncate")
                 PROVE  Free(t)'
      BY <2>3
    <3>1. CASE lock' = Nil
      BY <3>1 DEF Free, Held
    <3>2. CASE lock' = lock
      <4>1. Releases(s) \/ Dies(s) \/ Unlinks(s) => Alive(s)
        BY DEF Releases, Dies, Unlinks, Alive, At
      <4>2. \A u \in Sessions : /\ Alive(u)' => Alive(u)
                                /\ At(u, "exit")' => At(u, "exit")
        BY <2>2, <2>3, <4>1
      <4> QED BY <1>0, <2>1, <3>2, <4>2, StaysFree DEF Orderly, WaveInv
    <3> QED BY <1>1, <3>1, <3>2
  <2>6. \A t \in Sessions \ {s} :
           /\ At(t, "write")' => lock' = Torn
           /\ At(t, "exit")' \/ At(t, "unlink")' => lock' = Own(t)
           /\ session'[t].holds /\ t \in Named /\ ~At(t, "write")'
                => Alive(t)' /\ lock' = Own(t)
           /\ At(t, "unlink")' => ~session'[t].holds
    <3>1. CASE lock' = lock
      BY <1>1, <2>1, <2>3, <3>1 DEF Orderly
    <3>2. CASE Unlinks(s)
      <4>1. lock = Own(s)
        BY <1>1, <2>1, <3>2 DEF Orderly
      <4>2. \A t \in Sessions \ {s} :
               /\ ~At(t, "write") /\ ~At(t, "exit") /\ ~At(t, "unlink")
               /\ ~(session[t].holds /\ t \in Named)
        BY <2>1, <4>1, Records DEF Orderly
      <4> QED BY <1>1, <2>3, <4>2
    <3> QED BY <1>1, <3>1, <3>2
  <2>7. /\ At(s, "unlink")' => lock' = Own(s) /\ ~session'[s].holds
        /\ ~session'[s].holds
    <3>1. ~session'[s].holds
      BY <1>1, <2>1 DEF Orderly
    <3>2. ASSUME At(s, "unlink")' PROVE lock' = Own(s)
      <4>1. MayRelease(s) /\ lock' = lock
        BY <1>1, <3>2 DEF At
      <4> QED BY <1>0, <4>1 DEF MayRelease, Held, WaveTypeOK, WaveInv
    <3> QED BY <3>1, <3>2
  <2>8. \A t, u \in Sessions : ~(Acquiring(t)' /\ Leaving(u)')
    <3> SUFFICES ASSUME NEW t \in Sessions, NEW u \in Sessions,
                        Acquiring(t)', Leaving(u)'
                 PROVE  FALSE
      OBVIOUS
    <3>1. t # s /\ Acquiring(t)
      BY <2>2, <2>3
    <3>2. u = s
      BY <2>1, <2>3, <3>1 DEF Orderly
    <3>3. At(s, "unlink")' /\ s \notin Named
      BY <3>2 DEF Leaving
    <3>4. Releases(s) /\ MayRelease(s)
      BY <1>1, <3>3 DEF At
    <3> QED BY <1>0, <1>4, <3>1, <3>3, <3>4
  <2>9. Orderly'
    BY <2>2, <2>4, <2>5, <2>6, <2>7, <2>8 DEF Orderly
  <2> QED BY <1>2, <1>3, <2>9 DEF WaveInv
<1> QED BY <1>0, <1>2, <1>3, <1>4 DEF WaveInv

(* The invariant, whoever passes a pid.                                    *)
LEMMA WaveInvariant == WaveSpec => []WaveInv
<1>1. WaveInit => WaveInv
  <2> SUFFICES ASSUME WaveInit PROVE WaveInv
    OBVIOUS
  <2>1. lock = Nil /\ lock \notin LockRecord /\ overlapped = FALSE
    BY WaveAssumption DEF WaveInit
  <2>3. session \in [Sessions ->
           [step : {"idle", "truncate", "write", "exit", "unlink", "dead"},
            holds : BOOLEAN, uses : 0..MaxUses]]
    BY WaveAssumption DEF WaveInit
  <2>4. WaveTypeOK
    BY <2>1, <2>3 DEF WaveTypeOK
  <2>2. Orderly
    BY DEF WaveInit, Orderly, Acquiring, Leaving, At
  <2> QED BY <2>1, <2>2, <2>4 DEF WaveInv
<1>2. WaveInv /\ [WaveNext]_vars => WaveInv'
  <2> SUFFICES ASSUME WaveInv, [WaveNext]_vars PROVE WaveInv'
    OBVIOUS
  <2>1. CASE UNCHANGED vars
    BY <2>1 DEF vars, WaveInv, WaveTypeOK, Orderly, Acquiring, At, Free, Held,
                PidAlive, Alive, Leaving
  <2> QED BY <2>1, AcquiresInv, GoesOnInv, LeavesInv DEF WaveNext
<1> QED BY <1>1, <1>2, PTL DEF WaveSpec

(* Whoever else comes without --pid: two sessions that pass their own pid  *)
(* get into the staging phase at once only if acquires overlap, or an      *)
(* acquire and the release of a session without (repo_lock.py acquire: "It *)
(* narrows the collision window").                                         *)
THEOREM WaveExclusion == WaveSpec => []ExclusiveUnlessRaced
<1>1. WaveInv => ExclusiveUnlessRaced
  <2> DEFINE H == Holders \cap Named
  <2> SUFFICES ASSUME WaveInv, ~overlapped PROVE Cardinality(H) <= 1
    BY DEF ExclusiveUnlessRaced
  <2>1. Orderly
    BY DEF WaveInv
  <2>2. \A s, t \in H : s = t
    <3> SUFFICES ASSUME NEW s \in H, NEW t \in H, s # t PROVE FALSE
      OBVIOUS
    <3>1. CASE Acquiring(s) \/ Acquiring(t)
      BY <2>1, <3>1, Alone DEF Holders
    <3>2. CASE ~Acquiring(s) /\ ~Acquiring(t)
      <4>1. lock = Own(s) /\ lock = Own(t)
        BY <2>1, <3>2 DEF Orderly, Holders, Acquiring, At
      <4> QED BY <4>1, Records DEF Holders
    <3> QED BY <3>1, <3>2
  <2> HIDE DEF H
  <2>3. CASE H = {}
    BY <2>3, FS_EmptySet
  <2>4. CASE H # {}
    <3>1. PICK s : H = {s}
      BY <2>2, <2>4
    <3>2. Cardinality({s}) = 1
      BY FS_Singleton
    <3> QED BY <3>1, <3>2
  <2> QED BY <2>3, <2>4
<1> QED BY <1>1, WaveInvariant, PTL

(* The file and the sessions have their types.                             *)
THEOREM WaveTypes == WaveSpec => []WaveTypeOK
<1>1. WaveInv => WaveTypeOK
  BY DEF WaveInv
<1> QED BY <1>1, WaveInvariant, PTL

-----------------------------------------------------------------------------
(* Wave planning.                                                          *)

(* The inductive invariant: what is held back was bound to be, everything  *)
(* that is of itself is as soon as the waves are begun, and a plan that is *)
(* done has nothing left.                                                  *)
Bound == \A S \in SUBSET Open : Spread(S) => blocked \subseteq S

PlanInv ==
    /\ PlanTypeOK
    /\ phase # "cycle" => NoCycle
    /\ phase \in {"seed", "spread", "cycle"} => waves = <<>>
    /\ phase \in {"seed", "cycle"} => blocked = {}
    /\ phase = "spread" => \A n \in Open : HeldBack(n) => n \in blocked
    /\ phase \in {"place", "done"} => Spread(blocked)
    /\ Bound
    /\ WavesOrdered
    /\ phase = "done" => Remaining = {}

(* While tickets remain there is a wave: among them one depends on none of *)
(* the others, and all else it depends on has been placed.                 *)
LEMMA WaveExists ==
    ASSUME PlanTypeOK, NoCycle, Spread(blocked), Remaining # {}
    PROVE  Wave # {}
<1>1. Remaining \in SUBSET Issues
  BY DEF Remaining, Open
<1>2. PICK n \in Remaining : deps[n] \cap Remaining = {}
  BY <1>1 DEF NoCycle
<1>3. n \in Open /\ n \notin blocked /\ n \in Issues
  BY DEF Remaining, Open
<1>4. ~HeldBack(n) /\ deps[n] \cap blocked = {}
  BY <1>3 DEF Spread
<1>5. ASSUME NEW d \in deps[n] PROVE d \in Placed
  <2>1. d \in Issues \cup closed
    BY <1>4 DEF HeldBack
  <2>2. CASE d \in closed
    BY <2>2 DEF Placed
  <2>3. CASE d \in Open
    <3>1. d \notin blocked /\ d \notin Remaining
      BY <1>2, <1>4
    <3> QED BY <3>1, <2>3 DEF Remaining
  <2> QED BY <2>1, <2>2, <2>3 DEF Open
<1> QED BY <1>5 DEF Wave

(* The deadlock guard of plan_waves is never needed ("Should not happen    *)
(* for a cycle-free, correctly-blocked graph").                            *)
LEMMA NoGuard == PlanInv => GuardUnreached
BY WaveExists DEF PlanInv, GuardUnreached

(* A plan starts with nothing placed and nothing held back.                *)
LEMMA PlanInitInv == PlanInit => PlanInv
<1> SUFFICES ASSUME PlanInit PROVE PlanInv
  OBVIOUS
<1> USE DEF PlanInit
<1>1. PlanTypeOK
  BY DEF PlanTypeOK, Open
<1>2. Bound
  BY DEF Bound
<1>3. WavesOrdered
  BY DEF WavesOrdered
<1> QED BY <1>1, <1>2, <1>3 DEF PlanInv

(* Nothing about the input changes, nor what it says.                      *)
LEMMA SameInput ==
    ASSUME UNCHANGED input
    PROVE  /\ deps' = deps /\ closed' = closed /\ gated' = gated
           /\ Open' = Open /\ NoCycle' = NoCycle
           /\ \A n : HeldBack(n)' = HeldBack(n)
           /\ \A S : Spread(S)' = Spread(S)
BY DEF input, Open, NoCycle, HeldBack, Spread

(* The seeds are all held back of themselves.                              *)
LEMMA SeedsInv == PlanInv /\ Seeds => PlanInv'
<1> SUFFICES ASSUME PlanInv, Seeds PROVE PlanInv'
  OBVIOUS
<1>1. /\ phase = "seed" /\ phase' = "spread" /\ UNCHANGED input
      /\ waves = <<>> /\ waves' = waves
      /\ blocked' = {n \in Open : HeldBack(n)}
  BY DEF Seeds, PlanInv
<1>2. PlanTypeOK'
  BY <1>1, SameInput DEF PlanTypeOK, PlanInv
<1>3. Bound'
  BY <1>1, SameInput DEF Bound, Spread
<1>4. WavesOrdered'
  BY <1>1 DEF WavesOrdered
<1> QED BY <1>1, <1>2, <1>3, <1>4, SameInput DEF PlanInv

(* What a held-back ticket holds back is bound to be.                      *)
LEMMA SpreadsInv ==
    ASSUME NEW n \in Issues, PlanInv, Spreads(n) PROVE PlanInv'
<1>1. /\ phase = "spread" /\ phase' = phase /\ UNCHANGED input
      /\ waves = <<>> /\ waves' = waves /\ n \in Waiting
      /\ blocked' = blocked \cup {n}
  BY DEF Spreads, PlanInv
<1>2. n \in Open /\ deps[n] \cap blocked # {}
  BY <1>1 DEF Waiting
<1>3. PlanTypeOK'
  BY <1>1, <1>2, SameInput DEF PlanTypeOK, PlanInv
<1>4. Bound'
  <2> SUFFICES ASSUME NEW S \in SUBSET Open, Spread(S)
               PROVE  blocked \cup {n} \subseteq S
    BY <1>1, SameInput DEF Bound
  <2>1. blocked \subseteq S
    BY DEF PlanInv, Bound
  <2> QED BY <2>1, <1>2 DEF Spread
<1>5. WavesOrdered'
  BY <1>1 DEF WavesOrdered
<1> QED BY <1>1, <1>3, <1>4, <1>5, SameInput DEF PlanInv

(* When nothing is left to hold back, the held back are closed under       *)
(* dependency.                                                             *)
LEMMA SettlesInv == PlanInv /\ Settles => PlanInv'
<1> SUFFICES ASSUME PlanInv, Settles PROVE PlanInv'
  OBVIOUS
<1>1. /\ phase = "spread" /\ phase' = "place" /\ UNCHANGED input
      /\ waves = <<>> /\ waves' = waves /\ blocked' = blocked
      /\ Waiting = {}
  BY DEF Settles, PlanInv
<1>2. Spread(blocked)
  BY <1>1 DEF Spread, Waiting, PlanInv
<1>3. Spread(blocked)'
  BY <1>1, <1>2 DEF Spread, input, Open, HeldBack
<1>4. PlanTypeOK' /\ Bound'
  BY <1>1, SameInput DEF PlanTypeOK, Bound, PlanInv
<1>5. WavesOrdered'
  BY <1>1 DEF WavesOrdered
<1> QED BY <1>1, <1>3, <1>4, <1>5, SameInput DEF PlanInv

(* A wave is placed after the waves it depends on.                         *)
LEMMA PlacesInv == PlanInv /\ Places => PlanInv'
<1> SUFFICES ASSUME PlanInv, Places PROVE PlanInv'
  OBVIOUS
<1>1. phase = "place" /\ Remaining # {} /\ UNCHANGED input /\ Wave # {}
  BY NoGuard DEF Places, GuardUnreached
<1>2. phase' = phase /\ blocked' = blocked /\ waves' = Append(waves, Wave)
  BY <1>1 DEF Places
<1>3. waves \in Seq(SUBSET Issues) /\ Wave \in SUBSET Issues
  BY DEF PlanInv, PlanTypeOK, Wave, Remaining, Open
<1>4. PlanTypeOK'
  BY <1>1, <1>2, <1>3, SameInput DEF PlanTypeOK, PlanInv
<1>5. Spread(blocked)' /\ Bound'
  BY <1>1, <1>2, SameInput DEF Spread, Bound, PlanInv, input, Open, HeldBack
<1>6. WavesOrdered'
  <2> DEFINE k == Len(waves)
  <2>1. /\ k \in Nat /\ DOMAIN waves = 1..k /\ DOMAIN waves' = 1..(k+1)
        /\ \A i \in 1..k : waves'[i] = waves[i]
        /\ waves'[k+1] = Wave
    BY <1>2, <1>3
  <2> HIDE DEF k
  <2> SUFFICES ASSUME NEW i \in 1..(k+1), NEW n \in waves'[i]
               PROVE  /\ n \in Open \ blocked
                      /\ \A d \in deps[n] : d \in closed
                             \/ \E j \in 1..(i-1) : d \in waves'[j]
                      /\ \A j \in 1..(k+1) : n \in waves'[j] => j = i
    BY <1>1, <1>2, <2>1, SameInput DEF WavesOrdered
  <2>2. \A m \in Wave : /\ m \in Open \ blocked /\ deps[m] \subseteq Placed
                        /\ \A j \in 1..k : m \notin waves[j]
    BY <2>1 DEF Wave, Remaining, Placed
  <2>3. WavesOrdered
    BY DEF PlanInv
  <2>4. CASE i \in 1..k
    <3>1. n \in waves[i]
      BY <2>1, <2>4
    <3>2. \A j \in 1..(i-1) : waves'[j] = waves[j]
      BY <2>1, <2>4
    <3>3. \A j \in 1..(k+1) : n \in waves'[j] => j = i
      BY <2>1, <2>2, <2>3, <2>4, <3>1 DEF WavesOrdered
    <3> QED BY <2>1, <2>3, <2>4, <3>1, <3>2, <3>3 DEF WavesOrdered
  <2>5. CASE i = k+1
    <3>1. n \in Wave
      BY <2>1, <2>5
    <3>2. ASSUME NEW d \in deps[n], d \notin closed
          PROVE  \E j \in 1..(i-1) : d \in waves'[j]
      <4>1. PICK j \in 1..k : d \in waves[j]
        BY <2>1, <2>2, <3>1, <3>2 DEF Placed
      <4> QED BY <2>1, <2>5, <4>1
    <3> QED BY <2>1, <2>2, <2>5, <3>1, <3>2
  <2> QED BY <2>1, <2>4, <2>5
<1> QED BY <1>1, <1>2, <1>4, <1>5, <1>6, SameInput DEF PlanInv

(* A plan ends with nothing remaining.                                     *)
LEMMA EndsInv == PlanInv /\ Ends => PlanInv'
<1> SUFFICES ASSUME PlanInv, Ends PROVE PlanInv'
  OBVIOUS
<1>1. /\ phase = "place" /\ phase' = "done" /\ UNCHANGED input
      /\ waves' = waves /\ blocked' = blocked /\ Remaining = {}
  BY DEF Ends
<1>2. Remaining' = {}
  BY <1>1 DEF Remaining, Open, Placed, input
<1>3. Spread(blocked)' /\ Bound' /\ PlanTypeOK' /\ WavesOrdered'
  BY <1>1, SameInput
     DEF Spread, Bound, PlanTypeOK, WavesOrdered, PlanInv, input, Open, HeldBack
<1> QED BY <1>1, <1>2, <1>3, SameInput DEF PlanInv

(* The invariant of the algorithm.                                         *)
THEOREM PlanInvariant == PlanSpec => []PlanInv
<1>1. PlanInv /\ [PlanNext]_planVars => PlanInv'
  <2> SUFFICES ASSUME PlanInv, [PlanNext]_planVars PROVE PlanInv'
    OBVIOUS
  <2>1. CASE UNCHANGED planVars
    BY <2>1 DEF planVars, input, PlanInv, PlanTypeOK, Bound, WavesOrdered, Spread,
                HeldBack, Remaining, Placed, Open, NoCycle
  <2> QED BY <2>1, SeedsInv, SpreadsInv, SettlesInv, PlacesInv, EndsInv
          DEF PlanNext
<1> QED BY PlanInitInv, <1>1, PTL DEF PlanSpec

(* Every step of the algorithm keeps its variables in their types.         *)
THEOREM PlanTypes == PlanSpec => []PlanTypeOK
<1>1. PlanInv => PlanTypeOK
  BY DEF PlanInv
<1> QED BY <1>1, PlanInvariant, PTL

(* No ticket is launched before what it depends on, twice, or although it  *)
(* is held back (plan_waves).                                              *)
THEOREM WavesTheorem == PlanSpec => []WavesOrdered
<1>1. PlanInv => WavesOrdered
  BY DEF PlanInv
<1> QED BY <1>1, PlanInvariant, PTL

(* The deadlock guard is dead code, for every input.                       *)
THEOREM GuardTheorem == PlanSpec => []GuardUnreached
BY NoGuard, PlanInvariant, PTL

(* A finished plan holds back exactly the dependents of what is held back  *)
(* of itself, and places everything else that is open.                     *)
THEOREM ExactTheorem == PlanSpec => []PlanExact
<1>1. PlanInv => PlanExact
  <2> SUFFICES ASSUME PlanInv, phase = "done" PROVE PlanExact
    BY DEF PlanExact
  <2>1. Spread(blocked) /\ Bound /\ Remaining = {} /\ WavesOrdered
    BY DEF PlanInv
  <2>2. UNION {waves[i] : i \in DOMAIN waves} \subseteq Open
    BY <2>1 DEF WavesOrdered
  <2>3. Open \subseteq blocked \cup UNION {waves[i] : i \in DOMAIN waves}
    BY <2>1 DEF Remaining, Placed, Open
  <2>4. blocked \subseteq Open
    BY DEF PlanInv, PlanTypeOK
  <2> QED BY <2>1, <2>2, <2>3, <2>4 DEF PlanExact, Bound
<1> QED BY <1>1, PlanInvariant, PTL
=============================================================================
