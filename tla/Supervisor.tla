----------------------------- MODULE Supervisor -----------------------------
(***************************************************************************)
(* internal/supervisor: the deterministic control plane around an          *)
(* untrusted Supervisor.  The Core state holds the task graph; every       *)
(* change to it is a batch of proposals that is validated, authorised and  *)
(* applied under one lock (state.go), or a transition of one task at the   *)
(* execution boundary (execute.go).  A driver is one Workflow.Run, or a    *)
(* caller that ticks the scheduler in a loop and replans as the            *)
(* concurrency tests do; the drivers share the Scheduler, the Applier and  *)
(* the Executor, and interleave at every read and every lock.              *)
(*                                                                         *)
(* The Supervisor answers Plan and Replan with any batch of Batches.  The  *)
(* directory of agents and the policy of the authorizer are not the        *)
(* program's own: an operator may take agents, skills and permissions      *)
(* away at any time.  A task's tenant is one more capability here; the     *)
(* cost guardrail, the Locked flag (which no code sets), the persistence   *)
(* hook (which only tests give) and the observers are left out.            *)
(***************************************************************************)
EXTENDS Naturals, FiniteSets

CONSTANTS
  Tasks, Agents, Caps, Drivers, None,
  Skilled,          \* the pairs <<agent, capability>> of the directory
  Batches,          \* what the Supervisor may propose
  MaxConcurrency, MaxAgentFanout, MaxTaskDepth,
  MaxReplanCount, MaxReviewRounds, MaxTicks,
  MaxRevocations    \* bound: how much the operator takes away

Static == [deps : SUBSET Tasks, caps : SUBSET Caps]

(* A batch of proposals in the order new, updated, retry, assign, review,  *)
(* which no batch that is accepted can be told apart from.  "replan": the  *)
(* batch holds a ReplanProposal; only that can update tasks.               *)
Batch ==
  [new     : UNION {[S -> Static] : S \in SUBSET Tasks},
   updated : UNION {[S -> Static] : S \in SUBSET Tasks},
   retry   : SUBSET Tasks,
   assign  : UNION {[S -> [agent : Agents, caps : SUBSET Caps]] : S \in SUBSET Tasks},
   review  : SUBSET (Tasks \X Agents),
   replan  : BOOLEAN]

ASSUME SupervisorAssumption ==
  /\ None \notin Tasks \cup Agents \cup Drivers
  /\ Skilled \subseteq Agents \X Caps
  /\ \A b \in Batches : b \in Batch /\ (DOMAIN b.updated # {} => b.replan)
  /\ {MaxConcurrency, MaxAgentFanout, MaxTaskDepth, MaxReplanCount,
      MaxReviewRounds, MaxTicks, MaxRevocations} \subseteq Nat
  /\ IsFiniteSet(Tasks) /\ IsFiniteSet(Agents)

VARIABLES
  \* CoreState
  status,      \* each task's status, "absent" when it is not in the graph
  static,      \* its dependencies and required capabilities
  assignee,    \* the assignment map
  replans, reviews,
  \* the live directory and the policy
  registered, skills, denied,
  \* the Scheduler all drivers share
  reported,    \* tasks already reported as blocked
  \* each driver
  at,          \* where it stands in Run
  ticks,
  trigger,     \* an event of this tick warrants a Replan
  queue,       \* tasks of this tick still to be dispatched
  pick,        \* the task and agent selected last, to be assigned
  seen,        \* the snapshot of its tick, or of the outcome it reports
  exec         \* its executions, by driver and task

core == <<status, static, assignee, replans, reviews>>
world == <<registered, skills, denied>>
driver == <<at, ticks, trigger, queue, pick, seen>>
vars == <<core, world, reported, driver, exec>>

-----------------------------------------------------------------------------
(* Readiness, derived from a graph.  A wrong variant takes a task that     *)
(* waits for one that is ready.                                            *)

Known == {t \in Tasks : status[t] # "absent"}
NotBlocked(st, sc) == {t \in Tasks : /\ st[t] = "pending"
                                     /\ \A u \in sc[t].deps : st[u] # "failed"}
Ready(st, sc)   == {t \in Tasks : /\ st[t] = "pending"
                                  /\ \A u \in sc[t].deps : st[u] = "completed"}
Blocked(st, sc) == {t \in Tasks : /\ st[t] = "pending"
                                  /\ \E u \in sc[t].deps : st[u] = "failed"}
Active(st)      == {t \in Tasks : st[t] \in {"assigned", "executing"}}

-----------------------------------------------------------------------------
(* The gate: validate, authorise, apply.                                   *)

StaticAfter(b) ==
  [t \in Tasks |-> IF t \in DOMAIN b.updated THEN b.updated[t]
                   ELSE IF t \in DOMAIN b.new THEN b.new[t]
                   ELSE static[t]]

KnownAfter(b) == Known \cup DOMAIN b.new

WellFormed(b) ==
  /\ DOMAIN b.new \cap Known = {}
  /\ \A t \in DOMAIN b.new : b.new[t].deps \subseteq KnownAfter(b)
  /\ DOMAIN b.updated \cup DOMAIN b.assign \cup b.retry \subseteq KnownAfter(b)
  /\ \A r \in b.review : r[1] \in KnownAfter(b)

AgentsFit(b) ==
  /\ \A t \in DOMAIN b.assign :
       /\ b.assign[t].agent \in registered
       /\ \A c \in b.assign[t].caps : <<b.assign[t].agent, c>> \in skills
  /\ \A r \in b.review : r[2] \in registered /\ r[2] # assignee[r[1]]

(* Some layering of at most MaxTaskDepth layers puts every task above its  *)
(* dependencies: the graph has no cycle and is not too deep.               *)
Layered(b) ==
  \E layer \in [Tasks -> 1..MaxTaskDepth] :
    \A t \in KnownAfter(b) : \A u \in StaticAfter(b)[t].deps : layer[u] < layer[t]

WithinLimits(b) ==
  /\ Cardinality({b.assign[t].agent : t \in DOMAIN b.assign}) <= MaxAgentFanout
  /\ b.replan => replans < MaxReplanCount
  /\ b.review # {} => reviews + Cardinality(b.review) <= MaxReviewRounds
  /\ Layered(b)

Authorized(b) ==
  /\ \A t \in DOMAIN b.assign : /\ b.assign[t].agent \notin denied
                                /\ b.assign[t].caps \cap denied = {}
  /\ \A r \in b.review : r[2] \notin denied

\* What applying checks again, task by task, while it builds the next state.
\* Wrong variants let a retry open any task that ended, and assign any task.
RetriesEnded(b) ==
  /\ \A t \in b.retry : status[t] \in {"failed", "completed"}
  /\ \A t \in DOMAIN b.assign : status[t] = "pending" \/ t \in DOMAIN b.new \cup b.retry
AssignsAny(b) == \A t \in b.retry : status[t] = "failed"
Applicable(b) ==
  /\ \A t \in b.retry : status[t] = "failed"
  /\ \A t \in DOMAIN b.assign : status[t] = "pending" \/ t \in DOMAIN b.new \cup b.retry

Accepted(b) ==
  WellFormed(b) /\ AgentsFit(b) /\ WithinLimits(b) /\ Authorized(b) /\ Applicable(b)

Apply(b) ==
  /\ status' = [t \in Tasks |-> IF t \in DOMAIN b.assign THEN "assigned"
                                ELSE IF t \in DOMAIN b.new \cup b.retry THEN "pending"
                                ELSE status[t]]
  /\ static' = StaticAfter(b)
  /\ assignee' = [t \in Tasks |-> IF t \in DOMAIN b.assign THEN b.assign[t].agent
                                  ELSE IF t \in b.retry THEN None
                                  ELSE assignee[t]]
  /\ replans' = IF b.replan THEN replans + 1 ELSE replans
  /\ reviews' = reviews + Cardinality(b.review)

Transition(t, from, to) ==
  IF status[t] = from THEN [status EXCEPT ![t] = to] ELSE status

-----------------------------------------------------------------------------
Idle == [at |-> "idle", agent |-> None, caps |-> {}, fit |-> FALSE]
NoSnapshot == [status |-> [t \in Tasks |-> "absent"],
               static |-> [t \in Tasks |-> [deps |-> {}, caps |-> {}]]]

Init ==
  /\ status = NoSnapshot.status /\ static = NoSnapshot.static
  /\ assignee = [t \in Tasks |-> None]
  /\ replans = 0 /\ reviews = 0
  /\ registered = Agents /\ skills = Skilled /\ denied = {}
  /\ reported = {}
  /\ at = [d \in Drivers |-> "plan"]
  /\ ticks = [d \in Drivers |-> 0]
  /\ trigger = [d \in Drivers |-> FALSE]
  /\ queue = [d \in Drivers |-> {}]
  /\ pick = [d \in Drivers |-> [task |-> None, agent |-> None]]
  /\ seen = [d \in Drivers |-> NoSnapshot]
  /\ exec = [d \in Drivers |-> [t \in Tasks |-> Idle]]

Goto(d, place) == at' = [at EXCEPT ![d] = place]

(* The Supervisor's proposals are applied, and the driver goes on with the *)
(* next tick; a batch the gate refuses ends the run with its error.        *)
Propose(d, b) ==
  /\ \/ Goto(d, "tick") /\ Accepted(b) /\ Apply(b)
     \/ Goto(d, "error") /\ ~Accepted(b) /\ UNCHANGED core
  /\ UNCHANGED <<world, reported, ticks, trigger, queue, pick, seen, exec>>

Plan(d) ==
  /\ at[d] = "plan"
  /\ \E b \in Batches : Propose(d, b)

(* firstReplanTrigger found an event: the Supervisor may remediate.        *)
Replan(d) ==
  /\ at[d] = "replan"
  /\ \E b \in Batches : Propose(d, b)

(* The Supervisor itself fails: the run ends with that error.              *)
SupervisorFails(d) ==
  /\ at[d] \in {"plan", "replan"}
  /\ Goto(d, "error")
  /\ UNCHANGED <<core, world, reported, ticks, trigger, queue, pick, seen, exec>>

(* A tick reads the graph, reports what is newly blocked, and takes as     *)
(* many ready tasks as the concurrency limit leaves room for.              *)
TickStarts(d) ==
  /\ at[d] = "tick"
  /\ ticks[d] < MaxTicks
  /\ LET ready == Ready(status, static)
         blocked == Blocked(status, static)
         active == Cardinality(Active(status))
         room == IF active < MaxConcurrency THEN MaxConcurrency - active ELSE 0
     IN /\ \E q \in SUBSET ready :
             /\ Cardinality(q) = IF room < Cardinality(ready) THEN room ELSE Cardinality(ready)
             /\ queue' = [queue EXCEPT ![d] = q]
        /\ trigger' = [trigger EXCEPT ![d] = blocked \ reported # {}]
        /\ reported' = reported \cup blocked
  /\ ticks' = [ticks EXCEPT ![d] = @ + 1]
  /\ seen' = [seen EXCEPT ![d] = [status |-> status, static |-> static]]
  /\ Goto(d, "dispatch")
  /\ UNCHANGED <<core, world, pick, exec>>

TickLimit(d) ==
  /\ at[d] = "tick"
  /\ ticks[d] = MaxTicks
  /\ Goto(d, "limit")
  /\ UNCHANGED <<core, world, reported, ticks, trigger, queue, pick, seen, exec>>

Eligible(caps) == {a \in registered : \A c \in caps : <<a, c>> \in skills}

Skip(d, t) ==
  /\ trigger' = [trigger EXCEPT ![d] = TRUE]
  /\ queue' = [queue EXCEPT ![d] = @ \ {t}]

(* The agent is selected from the directory as it is now, for the          *)
(* capabilities the snapshot names.                                        *)
Select(d, t) ==
  /\ at[d] = "dispatch"
  /\ pick[d].task = None
  /\ t \in queue[d]
  /\ \/ /\ \E a \in Eligible(seen[d].static[t].caps) :
             pick' = [pick EXCEPT ![d] = [task |-> t, agent |-> a]]
        /\ UNCHANGED <<trigger, queue>>
     \/ /\ Eligible(seen[d].static[t].caps) = {}
        /\ Skip(d, t)
        /\ UNCHANGED pick
  /\ UNCHANGED <<core, world, reported, at, ticks, seen, exec>>

Assignment(d) ==
  LET t == pick[d].task
  IN [new |-> <<>>, updated |-> <<>>, retry |-> {}, review |-> {}, replan |-> FALSE,
      assign |-> [u \in {t} |-> [agent |-> pick[d].agent, caps |-> seen[d].static[t].caps]]]

(* The assignment goes through the same gate as the Supervisor's batches.  *)
(* When it passes, the execution starts on a goroutine of its own.         *)
Assign(d) ==
  /\ at[d] = "dispatch"
  /\ pick[d].task # None
  /\ LET t == pick[d].task
     IN \/ /\ Accepted(Assignment(d))
           /\ Apply(Assignment(d))
           /\ exec' = [exec EXCEPT ![d][t].at = "called"]
           /\ queue' = [queue EXCEPT ![d] = @ \ {t}]
           /\ UNCHANGED trigger
        \/ /\ ~Accepted(Assignment(d))
           /\ Skip(d, t)
           /\ UNCHANGED <<core, exec>>
  /\ pick' = [pick EXCEPT ![d] = [task |-> None, agent |-> None]]
  /\ UNCHANGED <<world, reported, at, ticks, seen>>

-----------------------------------------------------------------------------
(* The execution boundary, one step per read and per lock.                 *)

Unfit(a, caps) == a \notin registered \/ \E c \in caps : <<a, c>> \notin skills
Refused(a, caps) == a \in denied \/ caps \cap denied # {}

Ends(d, t, triggers) ==
  /\ exec' = [exec EXCEPT ![d][t] = Idle]
  /\ trigger' = [trigger EXCEPT ![d] = @ \/ triggers]

InBoundary == <<static, assignee, replans, reviews, world, reported,
                at, ticks, queue, pick, seen>>

(* Execute takes its snapshot: the assignee and the capabilities required. *)
(* "fit" is a history variable: nothing had been revoked at this moment.   *)
Executes(d, t) ==
  /\ exec[d][t].at = "called"
  /\ exec' = [exec EXCEPT ![d][t] =
       [at |-> "held", agent |-> assignee[t], caps |-> static[t].caps,
        fit |-> ~Unfit(assignee[t], static[t].caps) /\ ~Refused(assignee[t], static[t].caps)]]
  /\ UNCHANGED <<InBoundary, status, trigger>>

(* The assignee's existence, capabilities and tenant in the live directory. *)
Revalidates(d, t) ==
  /\ exec[d][t].at = "held"
  /\ IF Unfit(exec[d][t].agent, exec[d][t].caps)
     THEN Ends(d, t, TRUE)
     ELSE exec' = [exec EXCEPT ![d][t].at = "valid"] /\ UNCHANGED trigger
  /\ UNCHANGED <<InBoundary, status>>

\* The policy decides again; a wrong variant trusts what Apply decided.
TrustsApply(d, t) ==
  /\ exec[d][t].at = "valid"
  /\ exec' = [exec EXCEPT ![d][t].at = "cleared"]
  /\ UNCHANGED <<InBoundary, status, trigger>>
Reauthorizes(d, t) ==
  /\ exec[d][t].at = "valid"
  /\ IF Refused(exec[d][t].agent, exec[d][t].caps)
     THEN Ends(d, t, TRUE)
     ELSE exec' = [exec EXCEPT ![d][t].at = "cleared"] /\ UNCHANGED trigger
  /\ UNCHANGED <<InBoundary, status>>

MarkExecuting(d, t) ==
  /\ exec[d][t].at = "cleared"
  /\ status' = Transition(t, "assigned", "executing")
  /\ IF status[t] = "assigned"
     THEN exec' = [exec EXCEPT ![d][t].at = "running"] /\ UNCHANGED trigger
     ELSE Ends(d, t, TRUE)
  /\ UNCHANGED InBoundary

(* The provider answers, or fails, or its time is up.                      *)
ProviderReturns(d, t) ==
  /\ exec[d][t].at = "running"
  /\ \/ status' = Transition(t, "executing", "completed") /\ Ends(d, t, FALSE)
     \/ status' = Transition(t, "executing", "failed") /\ Ends(d, t, TRUE)
  /\ UNCHANGED InBoundary

-----------------------------------------------------------------------------
(* wg.Wait: everything the tick dispatched has ended, and its events and   *)
(* its snapshot go out of scope.                                           *)
TickEnds(d) ==
  /\ at[d] = "dispatch"
  /\ queue[d] = {}
  /\ \A t \in Tasks : exec[d][t].at = "idle"
  /\ Goto(d, IF trigger[d] THEN "replan" ELSE "status")
  /\ trigger' = [trigger EXCEPT ![d] = FALSE]
  /\ seen' = [seen EXCEPT ![d] = NoSnapshot]
  /\ UNCHANGED <<core, world, reported, ticks, queue, pick, exec>>

\* WorkflowStatus of a fresh snapshot: complete when every task has ended.  A
\* wrong variant starts counting ticks again whenever tasks are left.
CompletionForgets(d) ==
  /\ at[d] = "status"
  /\ IF \E t \in Known : status[t] \notin {"completed", "failed"}
     THEN Goto(d, "tick") /\ ticks' = [ticks EXCEPT ![d] = 0]
     ELSE Goto(d, "failed") /\ UNCHANGED ticks
  /\ UNCHANGED <<core, world, reported, trigger, queue, pick, seen, exec>>
Completion(d) ==
  /\ at[d] = "status"
  /\ \/ /\ \E t \in Known : status[t] \notin {"completed", "failed"}
        /\ Goto(d, "tick")
        /\ UNCHANGED seen
     \/ /\ \A t \in Known : status[t] \in {"completed", "failed"}
        /\ Goto(d, IF \E t \in Known : status[t] = "failed" THEN "failed" ELSE "succeeded")
        /\ seen' = [seen EXCEPT ![d] = [status |-> status, static |-> static]]
  /\ UNCHANGED <<core, world, reported, ticks, trigger, queue, pick, exec>>

-----------------------------------------------------------------------------
(* The operator takes an agent, a skill or a permission away.              *)
Revocations ==
  Cardinality(Agents \ registered) + Cardinality(Skilled \ skills) + Cardinality(denied)

Revoke ==
  /\ Revocations < MaxRevocations
  /\ \/ /\ \E a \in registered : registered' = registered \ {a}
        /\ UNCHANGED <<skills, denied>>
     \/ /\ \E s \in skills : skills' = skills \ {s}
        /\ UNCHANGED <<registered, denied>>
     \/ /\ \E x \in (Agents \cup Caps) \ denied : denied' = denied \cup {x}
        /\ UNCHANGED <<registered, skills>>
  /\ UNCHANGED <<core, reported, driver, exec>>

DriverStep(d) ==
  \/ SupervisorFails(d) \/ Plan(d) \/ Replan(d)
  \/ TickStarts(d) \/ TickLimit(d) \/ TickEnds(d) \/ Completion(d)
  \/ \E t \in Tasks : Select(d, t)
  \/ Assign(d)

ExecutionStep(d) ==
  \E t \in Tasks : \/ Executes(d, t) \/ Revalidates(d, t) \/ Reauthorizes(d, t)
                  \/ MarkExecuting(d, t) \/ ProviderReturns(d, t)

Progress == \E d \in Drivers : DriverStep(d) \/ ExecutionStep(d)

Next == Progress \/ Revoke

Spec == Init /\ [][Next]_vars

(* While some goroutine can run, one of them does: the Supervisor answers  *)
(* or fails, and MaxExecutionTime bounds an execution.  Nothing is assumed *)
(* of the operator, nor that the drivers share the processor fairly.       *)
FairSpec == Spec /\ WF_vars(Progress)

-----------------------------------------------------------------------------
Statuses ==
  {"absent", "pending", "assigned", "executing", "completed", "failed"}
Graphs == [status : [Tasks -> Statuses], static : [Tasks -> Static]]
Executions ==
  [at : {"idle", "called", "held", "valid", "cleared", "running"},
   agent : Agents \cup {None}, caps : SUBSET Caps, fit : BOOLEAN]

(* Every variable has its type; the replan and review counters stay within *)
(* the guardrails whatever the drivers propose at the same time.           *)
TypeOK ==
  /\ status \in [Tasks -> Statuses] /\ static \in [Tasks -> Static]
  /\ assignee \in [Tasks -> Agents \cup {None}]
  /\ replans \in 0..MaxReplanCount /\ reviews \in 0..MaxReviewRounds
  /\ registered \in SUBSET Agents /\ skills \in SUBSET Skilled
  /\ denied \in SUBSET (Agents \cup Caps)
  /\ reported \in SUBSET Tasks
  /\ at \in [Drivers -> {"plan", "tick", "dispatch", "replan", "status",
                         "succeeded", "failed", "limit", "error"}]
  /\ ticks \in [Drivers -> 0..MaxTicks]
  /\ trigger \in [Drivers -> BOOLEAN]
  /\ queue \in [Drivers -> SUBSET Tasks]
  /\ pick \in [Drivers -> [task : Tasks \cup {None}, agent : Agents \cup {None}]]
  /\ seen \in [Drivers -> Graphs]
  /\ exec \in [Drivers -> [Tasks -> Executions]]

(* A task is dispatched on a snapshot; by the time it runs, replans of     *)
(* other drivers and the ends of other executions have gone by.  Every     *)
(* dependency that snapshot names is still completed then                  *)
(* (ReadinessReady, scheduler.go: nothing undoes a completed task).        *)
StartsReady ==
  \A d \in Drivers, t \in Tasks :
    exec[d][t].at = "running" =>
      \A u \in seen[d].static[t].deps : status[u] = "completed"

(* A revocation made before Execute took its snapshot is never passed      *)
(* over: an agent runs a task only if it was registered, had every         *)
(* capability the task required and was permitted by then (execute.go).    *)
RunnerWasCleared ==
  \A d \in Drivers, t \in Tasks : exec[d][t].at = "running" => exec[d][t].fit

(* A run that reported success reported it of tasks that all completed,    *)
(* and none of them is opened or run again by another driver afterwards    *)
(* (workflow.go: never Succeeded unless the graph confirms it).            *)
SuccessIsTrue ==
  \A d \in Drivers : at[d] = "succeeded" =>
    \A t \in Tasks : seen[d].status[t] # "absent" => status[t] = "completed"

(* However drivers and executions interleave, the graph is a task board:   *)
(* batches are atomic, one execution at a time runs a task, and it alone   *)
(* ends it (state.go, scheduler_concurrency_test.go).                      *)
RunnerOf(t) ==
  IF \E d \in Drivers : exec[d][t].at = "running"
  THEN CHOOSE d \in Drivers : exec[d][t].at = "running"
  ELSE None

Board == INSTANCE TaskBoard
           WITH Runners <- Drivers, runner <- [t \in Tasks |-> RunnerOf(t)]
Refines == Board!Spec

(* Every run comes to an end, even one whose tasks wait for something that *)
(* never comes (workflow.go: MaxWorkflowTicks bounds how long).            *)
WorkflowEnds ==
  \A d \in Drivers : <>(at[d] \in {"succeeded", "failed", "limit", "error"})
===============================================================================
