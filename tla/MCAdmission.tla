----------------------------- MODULE MCAdmission -----------------------------
(* Small instance of the admission policy: what is proposed.               *)
EXTENDS Admission, TLC

CONSTANTS a, i1, v1, gr, k1, k2

Env(base, key, human, refs, ops) ==
    [graph |-> gr, id |-> key, key |-> key, base |-> base, human |-> human,
     flagged |-> \E i \in DOMAIN ops : ops[i].type \in ApprovalRequired,
     evidence |-> refs, ops |-> ops]

Prop(model, cost, env) == [env |-> env, model |-> model, cost |-> cost]

Plan == <<[type |-> "add_intent_node", intent |-> i1],
          [type |-> "record_evidence", evidence |-> v1],
          [type |-> "add_execution_node", node |-> a, intent |-> i1,
           life |-> "admitted", gate |-> "active", group |-> Nil]>>
Turn(from, to) ==
    <<[type |-> "transition_node", node |-> a, from |-> from, to |-> to]>>

(* A plan that needs a human, from a model in its own name and in a        *)
(* human's, and from a human; and, citing the evidence it records, a node  *)
(* that is blocked and would be taken back.                                *)
MCProposals ==
    { Prop(TRUE, 1, Env(0, 1, FALSE, {}, Plan)),
      Prop(TRUE, 1, Env(0, 2, TRUE, {}, Plan)),
      Prop(FALSE, 3, Env(0, 3, TRUE, {}, Plan)),
      Prop(TRUE, 1, Env(1, 4, FALSE, {v1}, Turn("ready", "blocked"))),
      Prop(FALSE, 1, Env(2, 5, FALSE, {v1}, Turn("blocked", "ready"))) }

(* The model's plan may wait for a human.                                  *)
MCParked == {p \in MCProposals : p.env.ops = Plan /\ ~p.env.human}

MCEnvelopes == {p.env : p \in Everything}

Symmetric == Permutations(Clerks)
=============================================================================
