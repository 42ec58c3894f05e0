---------------------------- MODULE MCSupervisor ----------------------------
(* Instances of Supervisor for TLC. *)
EXTENDS Supervisor, TLC

CONSTANTS t1, t2, a1, a2, shell

OneSkilled == {<<a1, shell>>}

Task(deps, caps) == [deps |-> deps, caps |-> caps]
Nothing == [new |-> <<>>, updated |-> <<>>, retry |-> {}, assign |-> <<>>,
            review |-> {}, replan |-> FALSE]

PlanTwo == [Nothing EXCEPT !.new = t1 :> Task({}, {}) @@ t2 :> Task({t1}, {shell})]
HandOut == [Nothing EXCEPT !.assign = t1 :> [agent |-> a1, caps |-> {}],
                           !.review = {<<t1, a1>>}]

(* A plan of two tasks, the second after the first; a remediation that     *)
(* retries the first; a replan that puts the first after the second, and   *)
(* one that forgets to turn the second around and so closes a cycle; an    *)
(* assignment of the Supervisor's own with a review by the same agent.     *)
Repertoire ==
  {Nothing, PlanTwo, HandOut,
   [Nothing EXCEPT !.retry = {t1}],
   [Nothing EXCEPT !.updated = t1 :> Task({t2}, {}) @@ t2 :> Task({}, {shell}), !.replan = TRUE],
   [Nothing EXCEPT !.updated = t1 :> Task({t2}, {}), !.replan = TRUE]}
=============================================================================
