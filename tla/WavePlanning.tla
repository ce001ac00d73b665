---------------------------- MODULE WavePlanning ----------------------------
(***************************************************************************)
(* Wave planning (planning.py, plan_waves): from the dependencies of the   *)
(* tickets of an epic to batches that can be built one after the other,    *)
(* and the tickets that are held back.  One action per round of the        *)
(* algorithm's loops; the order in which a round visits tickets is any.    *)
(***************************************************************************)
EXTENDS Naturals, Sequences, FiniteSets

CONSTANTS
    Issues,    \* the tickets of the epic
    Others     \* other tickets a dependency may name

ASSUME PlanAssumption == IsFiniteSet(Issues) /\ Issues \cap Others = {}

Tickets == Issues \cup Others

VARIABLES
    deps,      \* input: what each ticket of the epic depends on
    closed,    \* input: tickets that are closed
    gated,     \* input: tickets that cannot be built
    phase,     \* how far the algorithm is
    blocked,   \* tickets held back so far
    waves      \* the waves so far

input == <<deps, closed, gated>>
planVars == <<input, phase, blocked, waves>>

-----------------------------------------------------------------------------

(* _detect_cycle finds none: every set of tickets of the epic has one that *)
(* depends on none of the set.                                             *)
NoCycle ==
    \A S \in SUBSET Issues :
        S # {} => \E n \in S : deps[n] \cap S = {}

Open == Issues \ closed

(* Mutant: a dependency outside of the epic is somebody else's business.   *)
HeldBackGated(n) == n \in gated

(* reason_for: what holds a ticket back of itself.                         *)
HeldBack(n) == n \in gated \/ \E d \in deps[n] : d \notin Issues \cup closed

Placed == closed \cup UNION {waves[i] : i \in DOMAIN waves}

Remaining == Open \ (blocked \cup Placed)

(* Mutant: a ticket goes with the first of its dependencies.               *)
WaveEager ==
    {n \in Remaining : deps[n] = {} \/ deps[n] \cap Placed # {}}

Wave == {n \in Remaining : deps[n] \subseteq Placed}

-----------------------------------------------------------------------------

PlanInit ==
    /\ deps \in [Issues -> SUBSET Tickets]
    /\ closed \in SUBSET Tickets
    /\ gated \in SUBSET Issues
    /\ phase = IF NoCycle THEN "seed" ELSE "cycle"
    /\ blocked = {}
    /\ waves = <<>>

Seeds ==
    /\ phase = "seed"
    /\ blocked' = {n \in Open : HeldBack(n)}
    /\ phase' = "spread"
    /\ UNCHANGED <<input, waves>>

(* Mutant: with something held back, a ticket waits for any open one.      *)
WaitingForAny ==
    {n \in Open \ blocked : blocked # {} /\ deps[n] \cap Open # {}}

Waiting == {n \in Open \ blocked : deps[n] \cap blocked # {}}

(* Blocking spreads to dependents until a round changes nothing.           *)
Spreads(n) ==
    /\ phase = "spread"
    /\ n \in Waiting
    /\ blocked' = blocked \cup {n}
    /\ UNCHANGED <<input, phase, waves>>

Settles ==
    /\ phase = "spread"
    /\ Waiting = {}
    /\ phase' = "place"
    /\ UNCHANGED <<input, blocked, waves>>

(* The next wave; an empty one is the deadlock guard, which holds back     *)
(* what is left.                                                           *)
Places ==
    /\ phase = "place"
    /\ Remaining # {}
    /\ IF Wave # {}
       THEN waves' = Append(waves, Wave) /\ UNCHANGED <<phase, blocked>>
       ELSE blocked' = blocked \cup Remaining /\ phase' = "done"
            /\ UNCHANGED waves
    /\ UNCHANGED input

Ends ==
    /\ phase = "place"
    /\ Remaining = {}
    /\ phase' = "done"
    /\ UNCHANGED <<input, blocked, waves>>

PlanNext == Seeds \/ (\E n \in Issues : Spreads(n)) \/ Settles \/ Places \/ Ends

PlanSpec == PlanInit /\ [][PlanNext]_planVars

-----------------------------------------------------------------------------

PlanTypeOK ==
    /\ deps \in [Issues -> SUBSET Tickets]
    /\ closed \subseteq Tickets
    /\ gated \subseteq Issues
    /\ phase \in {"seed", "spread", "place", "done", "cycle"}
    /\ blocked \subseteq Open
    /\ waves \in Seq(SUBSET Issues)

(* No ticket is launched before what it depends on: the dependencies of a  *)
(* ticket of a wave are closed or in earlier waves; nor is one launched    *)
(* twice, or although it is held back or closed.                           *)
WavesOrdered ==
    \A i \in DOMAIN waves : \A n \in waves[i] :
        /\ n \in Open \ blocked
        /\ \A d \in deps[n] : d \in closed \/ \E j \in 1..(i-1) : d \in waves[j]
        /\ \A j \in DOMAIN waves : n \in waves[j] => j = i

(* "Should not happen for a cycle-free, correctly-blocked graph": the      *)
(* deadlock guard of plan_waves is never needed.                           *)
GuardUnreached == phase = "place" /\ Remaining # {} => Wave # {}

(* What the plan holds back is exactly what depends, directly or through   *)
(* other open tickets, on one that is held back of itself; everything else *)
(* that is open is in a wave.                                              *)
Spread(S) ==
    /\ \A n \in Open : HeldBack(n) => n \in S
    /\ \A n \in Open : deps[n] \cap S # {} => n \in S

PlanExact ==
    phase = "done" =>
        /\ Spread(blocked)
        /\ \A S \in SUBSET Open : Spread(S) => blocked \subseteq S
        /\ Open = blocked \cup UNION {waves[i] : i \in DOMAIN waves}
=============================================================================
