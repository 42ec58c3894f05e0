------------------------------ MODULE TaskBoard ------------------------------
(***************************************************************************)
(* What the Core state of a supervised workflow promises about each task,  *)
(* whoever proposes, schedules and runs it: a batch posts, reopens and     *)
(* hands out tasks all at once or not at all; a task handed out is started *)
(* by one runner, who alone reports how it ended; a task that is done      *)
(* stays done, and only a failed one is opened again.                      *)
(***************************************************************************)

CONSTANTS Tasks, Runners,
          None    \* nobody: not a runner

VARIABLES
  status,     \* where each task stands
  runner      \* who runs it

vars == <<status, runner>>

Statuses ==
  {"absent", "pending", "assigned", "executing", "completed", "failed"}

Init ==
  /\ status = [t \in Tasks |-> "absent"]
  /\ runner = [t \in Tasks |-> None]

(* A batch moves any number of tasks at once: it posts unknown ones, opens *)
(* failed ones again, and hands out those that are pending by then.        *)
Moves ==
  {<<"absent", "pending">>, <<"absent", "assigned">>, <<"pending", "assigned">>,
   <<"failed", "pending">>, <<"failed", "assigned">>}

Batch ==
  /\ status' \in [Tasks -> Statuses]
  /\ \A t \in Tasks : status'[t] = status[t] \/ <<status[t], status'[t]>> \in Moves
  /\ UNCHANGED runner

Start(t, r) ==
  /\ status[t] = "assigned"
  /\ status' = [status EXCEPT ![t] = "executing"]
  /\ runner' = [runner EXCEPT ![t] = r]

Finish(t, outcome) ==
  /\ status[t] = "executing"
  /\ status' = [status EXCEPT ![t] = outcome]
  /\ runner' = [runner EXCEPT ![t] = None]

Next ==
  \/ Batch
  \/ \E t \in Tasks, r \in Runners : Start(t, r)
  \/ \E t \in Tasks, outcome \in {"completed", "failed"} : Finish(t, outcome)

Spec == Init /\ [][Next]_vars
===============================================================================
