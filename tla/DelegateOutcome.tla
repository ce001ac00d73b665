--------------------------- MODULE DelegateOutcome ---------------------------
(***************************************************************************)
(* What the task directory promises the parties around a delegated task:   *)
(* one outcome, decided once by one of its workers, and everyone who asks  *)
(* is told that outcome or that the wait was too long.                     *)
(***************************************************************************)

CONSTANTS Workers, Watchers, Nil

VARIABLES
    outcome,   \* Nil, or what was decided, and by whom
    answer     \* what each watcher was told

Init == outcome = Nil /\ answer = [v \in Watchers |-> Nil]

Decide(o) ==
    /\ outcome = Nil
    /\ outcome' = o
    /\ UNCHANGED answer

Tell(v, a) ==
    /\ answer[v] = Nil
    /\ a = "timeout" \/ (outcome # Nil /\ a = outcome.kind)
    /\ answer' = [answer EXCEPT ![v] = a]
    /\ UNCHANGED outcome

Next ==
    \/ \E o \in [kind : {"done", "error"}, by : Workers] : Decide(o)
    \/ \E v \in Watchers, a \in {"done", "error", "timeout"} : Tell(v, a)

Spec == Init /\ [][Next]_<<outcome, answer>>
=============================================================================
