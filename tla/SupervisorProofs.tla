-------------------------- MODULE SupervisorProofs --------------------------
(***************************************************************************)
(* Proofs about Supervisor, for any tasks, agents, drivers, batches of     *)
(* proposals and limits: the type invariant with the guardrails' bounds,   *)
(* that a task runs on completed dependencies and a cleared agent, that a  *)
(* reported success stays true, and that the graph is a TaskBoard.         *)
(***************************************************************************)
EXTENDS Supervisor, TLAPS, FiniteSetTheorems

-----------------------------------------------------------------------------
(* The inductive invariant.                                                *)

(* An execution under way belongs to a driver inside its tick and to a     *)
(* task in the status the execution has brought it to.                     *)
ExecutionsHold ==
  \A d \in Drivers, t \in Tasks :
    /\ exec[d][t].at \in {"called", "held", "valid", "cleared"} => status[t] = "assigned"
    /\ exec[d][t].at = "running" => status[t] = "executing"
    /\ exec[d][t].at # "idle" => at[d] = "dispatch"

OneExecution ==
  \A d, e \in Drivers, t \in Tasks :
    exec[d][t].at # "idle" /\ exec[e][t].at # "idle" => d = e

ExecutingIsRun ==
  \A t \in Tasks : status[t] = "executing" => \E d \in Drivers : exec[d][t].at = "running"

(* What had been revoked when Execute began is still there to be caught.   *)
UnfitIsCaught ==
  \A d \in Drivers, t \in Tasks : ~exec[d][t].fit =>
    /\ exec[d][t].at = "held" => \/ Unfit(exec[d][t].agent, exec[d][t].caps)
                                 \/ Refused(exec[d][t].agent, exec[d][t].caps)
    /\ exec[d][t].at = "valid" => Refused(exec[d][t].agent, exec[d][t].caps)
    /\ exec[d][t].at \notin {"cleared", "running"}

(* A driver dispatches only inside a tick, what it picked is in its queue, *)
(* and what it dispatches was ready when the tick began.                   *)
DispatchInTick ==
  \A d \in Drivers : /\ queue[d] # {} => at[d] = "dispatch"
                     /\ pick[d].task # None => pick[d].task \in queue[d]

DispatchReady ==
  \A d \in Drivers, t \in Tasks : t \in queue[d] \/ exec[d][t].at # "idle" =>
    \A u \in seen[d].static[t].deps : status[u] = "completed"

IInv ==
  /\ TypeOK
  /\ ExecutionsHold
  /\ OneExecution
  /\ ExecutingIsRun
  /\ UnfitIsCaught
  /\ DispatchInTick
  /\ DispatchReady
  /\ SuccessIsTrue

-----------------------------------------------------------------------------
(* The gate.                                                               *)

(* What the applied part of a batch is made of. *)
Typed(b) ==
  /\ \A t \in DOMAIN b.new : b.new[t] \in Static
  /\ \A t \in DOMAIN b.updated : b.updated[t] \in Static
  /\ b.review \in SUBSET (Tasks \X Agents)
  /\ b.replan \in BOOLEAN

LEMMA BatchTyped ==
  ASSUME NEW b \in Batches
  PROVE  Typed(b)
  <1>1. b \in Batch
    BY SupervisorAssumption
  <1>2. PICK S \in SUBSET Tasks : b.new \in [S -> Static]
    BY <1>1 DEF Batch
  <1>3. PICK U \in SUBSET Tasks : b.updated \in [U -> Static]
    BY <1>1 DEF Batch
  <1>4. QED
    BY <1>1, <1>2, <1>3 DEF Typed, Batch

LEMMA AssignmentTyped ==
  ASSUME NEW d \in Drivers
  PROVE  Typed(Assignment(d))
  BY DEF Typed, Assignment

(* How a batch may move a task. *)
Moved(from, to) ==
  /\ from \in {"absent", "pending", "failed"}
  /\ to \in {"pending", "assigned"}
  /\ from # to

LEMMA ApplyMoves ==
  ASSUME TypeOK, NEW b, Accepted(b), Apply(b), NEW t \in Tasks
  PROVE  status'[t] = status[t] \/ Moved(status[t], status'[t])
  <1>1. CASE t \in DOMAIN b.assign
    BY <1>1 DEF TypeOK, Accepted, Applicable, WellFormed, Apply, Moved, Statuses, Known
  <1>2. CASE t \notin DOMAIN b.assign /\ t \in DOMAIN b.new \cup b.retry
    BY <1>2 DEF TypeOK, Accepted, Applicable, WellFormed, Apply, Moved, Statuses, Known
  <1>3. CASE t \notin DOMAIN b.assign /\ t \notin DOMAIN b.new \cup b.retry
    BY <1>3 DEF Apply
  <1>4. QED
    BY <1>1, <1>2, <1>3

(* The counters stay within the guardrails. *)
LEMMA ApplyCounts ==
  ASSUME TypeOK, NEW b, Typed(b), Accepted(b), Apply(b)
  PROVE  replans' \in 0..MaxReplanCount /\ reviews' \in 0..MaxReviewRounds
  <1>1. replans' \in 0..MaxReplanCount
    BY SupervisorAssumption DEF TypeOK, Accepted, WithinLimits, Apply
  <1>2. IsFiniteSet(Tasks \X Agents)
    BY SupervisorAssumption, FS_Product
  <1>3. IsFiniteSet(b.review)
    BY <1>2, FS_Subset DEF Typed
  <1>4. Cardinality(b.review) \in Nat
    BY <1>3, FS_CardinalityType
  <1>5. b.review = {} => Cardinality(b.review) = 0
    BY FS_EmptySet
  <1>6. b.review # {} => reviews + Cardinality(b.review) <= MaxReviewRounds
    BY DEF Accepted, WithinLimits
  <1>7. reviews' \in 0..MaxReviewRounds
    BY <1>4, <1>5, <1>6, SupervisorAssumption DEF TypeOK, Apply
  <1>8. QED
    BY <1>1, <1>7

LEMMA ApplyType ==
  ASSUME TypeOK, NEW b, Typed(b), Accepted(b), Apply(b)
  PROVE  /\ status' \in [Tasks -> Statuses]
         /\ static' \in [Tasks -> Static]
         /\ assignee' \in [Tasks -> Agents \cup {None}]
  <1>1. status' \in [Tasks -> Statuses]
    BY DEF TypeOK, Apply, Statuses
  <1>2. static' \in [Tasks -> Static]
    BY DEF TypeOK, Apply, StaticAfter, Typed
  <1>3. \A t \in DOMAIN b.assign : b.assign[t].agent \in Agents
    BY DEF TypeOK, Accepted, AgentsFit
  <1>4. assignee' \in [Tasks -> Agents \cup {None}]
    BY <1>3 DEF TypeOK, Apply
  <1>5. QED
    BY <1>1, <1>2, <1>4

-----------------------------------------------------------------------------
(* Every step preserves the invariant.                                     *)

LEMMA InitIInv == Init => IInv
  <1> SUFFICES ASSUME Init PROVE IInv
    OBVIOUS
  <1>1. NoSnapshot \in Graphs
    BY DEF NoSnapshot, Graphs, Statuses, Static
  <1>2. TypeOK
    BY <1>1, SupervisorAssumption DEF Init, TypeOK, Idle, Executions, NoSnapshot, Statuses, Static
  <1>3. \A d \in Drivers, t \in Tasks : exec[d][t] = Idle
    BY DEF Init
  <1>4. /\ \A t \in Tasks : status[t] = "absent"
        /\ \A d \in Drivers : at[d] = "plan" /\ queue[d] = {} /\ pick[d].task = None
    BY DEF Init, NoSnapshot
  <1>5. ExecutionsHold /\ OneExecution /\ UnfitIsCaught
    BY <1>3 DEF ExecutionsHold, OneExecution, UnfitIsCaught, Idle
  <1>6. ExecutingIsRun /\ DispatchInTick /\ SuccessIsTrue
    BY <1>4 DEF ExecutingIsRun, DispatchInTick, SuccessIsTrue
  <1>7. DispatchReady
    BY <1>3, <1>4 DEF DispatchReady, Idle
  <1>8. QED
    BY <1>2, <1>5, <1>6, <1>7 DEF IInv

LEMMA ProposeStep ==
  ASSUME IInv, NEW d \in Drivers, NEW b \in Batches,
         at[d] \in {"plan", "replan"}, Propose(d, b)
  PROVE  IInv'
  <1> USE DEF IInv
  <1>1. PICK to \in {"tick", "error"} : at' = [at EXCEPT ![d] = to]
    BY DEF Propose, Goto
  <1>2. UNCHANGED <<world, reported, ticks, trigger, queue, pick, seen, exec>>
    BY DEF Propose
  <1>3. /\ status' \in [Tasks -> Statuses] /\ static' \in [Tasks -> Static]
        /\ assignee' \in [Tasks -> Agents \cup {None}]
        /\ replans' \in 0..MaxReplanCount /\ reviews' \in 0..MaxReviewRounds
        /\ \A t \in Tasks : status'[t] = status[t] \/ Moved(status[t], status'[t])
    <2>1. CASE Accepted(b) /\ Apply(b)
      BY <2>1, BatchTyped, ApplyType, ApplyCounts, ApplyMoves
    <2>2. CASE UNCHANGED core
      BY <2>2 DEF core, TypeOK
    <2>3. QED
      BY <2>1, <2>2 DEF Propose
  <1>4. TypeOK'
    BY <1>1, <1>2, <1>3 DEF TypeOK, world
  <1>5. ExecutionsHold'
    <2> SUFFICES ASSUME NEW e \in Drivers, NEW t \in Tasks, exec[e][t].at # "idle"
                 PROVE  /\ exec[e][t].at \in {"called", "held", "valid", "cleared"}
                             => status'[t] = "assigned"
                        /\ exec[e][t].at = "running" => status'[t] = "executing"
                        /\ at'[e] = "dispatch"
      BY <1>2 DEF ExecutionsHold
    <2>1. at[e] = "dispatch"
      BY DEF ExecutionsHold
    <2>2. at'[e] = "dispatch"
      BY <1>1, <2>1 DEF TypeOK
    <2>3. status'[t] = status[t] \/ Moved(status[t], status'[t])
      BY <1>3
    <2>4. QED
      BY <2>2, <2>3 DEF ExecutionsHold, Moved
  <1>6. OneExecution'
    BY <1>2 DEF OneExecution
  <1>7. ExecutingIsRun'
    BY <1>2, <1>3 DEF ExecutingIsRun, Moved
  <1>8. UnfitIsCaught'
    BY <1>2 DEF UnfitIsCaught, Unfit, Refused, world
  <1>9. DispatchInTick'
    BY <1>1, <1>2 DEF DispatchInTick, TypeOK
  <1>10. DispatchReady'
    <2>1. \A e \in Drivers, t \in Tasks : seen[e].static[t].deps \subseteq Tasks
      BY DEF TypeOK, Graphs, Static
    <2>2. QED
      BY <1>2, <1>3, <2>1 DEF DispatchReady, Moved
  <1>11. SuccessIsTrue'
    BY <1>1, <1>2, <1>3 DEF SuccessIsTrue, TypeOK, Moved
  <1>12. QED
    BY <1>4, <1>5, <1>6, <1>7, <1>8, <1>9, <1>10, <1>11

(* Steps of a driver that leave the graph, its executions and its queue    *)
(* alone and go to a place outside the tick.                               *)
LEMMA GotoStep ==
  ASSUME IInv, NEW d \in Drivers, NEW to \in {"error", "limit", "tick", "failed"},
         Goto(d, to), at[d] \notin {"dispatch"},
         UNCHANGED <<core, world, reported, ticks, trigger, queue, pick, seen, exec>>
  PROVE  IInv'
  <1> USE DEF IInv
  <1>1. at' = [at EXCEPT ![d] = to]
    BY DEF Goto
  <1>2. TypeOK'
    BY <1>1 DEF TypeOK, core, world
  <1>3. ExecutionsHold' /\ OneExecution' /\ ExecutingIsRun'
    BY <1>1 DEF ExecutionsHold, OneExecution, ExecutingIsRun, core, TypeOK
  <1>4. UnfitIsCaught'
    BY DEF UnfitIsCaught, Unfit, Refused, world
  <1>5. DispatchInTick' /\ DispatchReady'
    BY <1>1 DEF DispatchInTick, DispatchReady, core, TypeOK
  <1>6. SuccessIsTrue'
    BY <1>1 DEF SuccessIsTrue, core, TypeOK
  <1>7. QED
    BY <1>2, <1>3, <1>4, <1>5, <1>6

LEMMA TickStartsStep ==
  ASSUME IInv, NEW d \in Drivers, TickStarts(d)
  PROVE  IInv'
  <1> USE DEF IInv
  <1>1. PICK q \in SUBSET Ready(status, static) : queue' = [queue EXCEPT ![d] = q]
    BY DEF TickStarts
  <1>2. PICK s \in BOOLEAN : trigger' = [trigger EXCEPT ![d] = s]
    <2>1. (Blocked(status, static) \ reported # {}) \in BOOLEAN
      OBVIOUS
    <2>2. QED
      BY <2>1 DEF TickStarts
  <1>3. /\ at[d] = "tick" /\ at' = [at EXCEPT ![d] = "dispatch"]
        /\ seen' = [seen EXCEPT ![d] = [status |-> status, static |-> static]]
        /\ ticks[d] < MaxTicks /\ ticks' = [ticks EXCEPT ![d] = @ + 1]
        /\ reported' = reported \cup Blocked(status, static)
        /\ UNCHANGED <<core, world, pick, exec>>
    BY DEF TickStarts, Goto
  <1>4. Ready(status, static) \subseteq Tasks /\ Blocked(status, static) \subseteq Tasks
    BY DEF Ready, Blocked
  <1>5. [status |-> status, static |-> static] \in Graphs
    BY DEF TypeOK, Graphs
  <1>6. ticks' \in [Drivers -> 0..MaxTicks]
    BY <1>3, SupervisorAssumption DEF TypeOK
  <1>7. TypeOK'
    BY <1>1, <1>2, <1>3, <1>4, <1>5, <1>6 DEF TypeOK, core, world
  <1>8. ExecutionsHold' /\ OneExecution' /\ ExecutingIsRun'
    BY <1>3 DEF ExecutionsHold, OneExecution, ExecutingIsRun, core, TypeOK
  <1>9. UnfitIsCaught'
    BY <1>3 DEF UnfitIsCaught, Unfit, Refused, world
  <1>10. DispatchInTick'
    BY <1>1, <1>3 DEF DispatchInTick, TypeOK
  <1>11. DispatchReady'
    <2> SUFFICES ASSUME NEW e \in Drivers, NEW t \in Tasks,
                        t \in queue'[e] \/ exec'[e][t].at # "idle",
                        NEW u \in seen'[e].static[t].deps
                 PROVE  status'[u] = "completed"
      BY DEF DispatchReady
    <2>1. CASE e = d
      <3>1. exec[d][t].at = "idle"
        BY <1>3 DEF ExecutionsHold
      <3>2. t \in Ready(status, static)
        BY <1>1, <1>3, <2>1, <3>1 DEF TypeOK
      <3>3. seen'[d].static = static
        BY <1>3 DEF TypeOK
      <3>4. QED
        BY <1>3, <2>1, <3>2, <3>3 DEF Ready, core
    <2>2. CASE e # d
      BY <1>1, <1>3, <2>2 DEF DispatchReady, core, TypeOK
    <2>3. QED
      BY <2>1, <2>2
  <1>12. SuccessIsTrue'
    BY <1>3 DEF SuccessIsTrue, core, TypeOK
  <1>13. QED
    BY <1>7, <1>8, <1>9, <1>10, <1>11, <1>12

LEMMA TickEndsStep ==
  ASSUME IInv, NEW d \in Drivers, TickEnds(d)
  PROVE  IInv'
  <1> USE DEF IInv
  <1>1. PICK to \in {"replan", "status"} : at' = [at EXCEPT ![d] = to]
    BY DEF TickEnds, Goto
  <1>2. /\ at[d] = "dispatch" /\ queue[d] = {} /\ \A t \in Tasks : exec[d][t].at = "idle"
        /\ trigger' = [trigger EXCEPT ![d] = FALSE]
        /\ seen' = [seen EXCEPT ![d] = NoSnapshot]
        /\ UNCHANGED <<core, world, reported, ticks, queue, pick, exec>>
    BY DEF TickEnds
  <1>3. NoSnapshot \in Graphs
    BY DEF NoSnapshot, Graphs, Statuses, Static
  <1>4. TypeOK'
    BY <1>1, <1>2, <1>3 DEF TypeOK, core, world
  <1>5. ExecutionsHold' /\ OneExecution' /\ ExecutingIsRun'
    BY <1>1, <1>2 DEF ExecutionsHold, OneExecution, ExecutingIsRun, core, TypeOK
  <1>6. UnfitIsCaught'
    BY <1>2 DEF UnfitIsCaught, Unfit, Refused, world
  <1>7. DispatchInTick'
    BY <1>1, <1>2 DEF DispatchInTick, TypeOK
  <1>8. DispatchReady'
    BY <1>2 DEF DispatchReady, core, TypeOK
  <1>9. SuccessIsTrue'
    BY <1>1, <1>2 DEF SuccessIsTrue, core, TypeOK
  <1>10. QED
    BY <1>4, <1>5, <1>6, <1>7, <1>8, <1>9

(* The run reports an outcome, with the snapshot it is of. *)
LEMMA OutcomeStep ==
  ASSUME IInv, NEW d \in Drivers, at[d] = "status",
         \A t \in Known : status[t] \in {"completed", "failed"},
         Goto(d, IF \E t \in Known : status[t] = "failed" THEN "failed" ELSE "succeeded"),
         seen' = [seen EXCEPT ![d] = [status |-> status, static |-> static]],
         UNCHANGED <<core, world, reported, ticks, trigger, queue, pick, exec>>
  PROVE  IInv'
  <1> USE DEF IInv
  <1>1. PICK to \in {"failed", "succeeded"} :
          /\ at' = [at EXCEPT ![d] = to]
          /\ to = "succeeded" => \A t \in Known : status[t] # "failed"
    BY DEF Goto
  <1>2. [status |-> status, static |-> static] \in Graphs
    BY DEF TypeOK, Graphs
  <1>3. TypeOK'
    BY <1>1, <1>2 DEF TypeOK, core, world
  <1>4. ExecutionsHold' /\ OneExecution' /\ ExecutingIsRun'
    BY <1>1 DEF ExecutionsHold, OneExecution, ExecutingIsRun, core, TypeOK
  <1>5. UnfitIsCaught'
    BY DEF UnfitIsCaught, Unfit, Refused, world
  <1>6. DispatchInTick'
    BY <1>1 DEF DispatchInTick, TypeOK
  <1>7. DispatchReady'
    <2>1. queue[d] = {} /\ \A t \in Tasks : exec[d][t].at = "idle"
      BY DEF DispatchInTick, ExecutionsHold
    <2>2. \A e \in Drivers : e # d => seen'[e] = seen[e]
      BY DEF TypeOK
    <2>3. QED
      BY <2>1, <2>2 DEF DispatchReady, core
  <1>8. SuccessIsTrue'
    BY <1>1 DEF SuccessIsTrue, Known, core, TypeOK
  <1>9. QED
    BY <1>3, <1>4, <1>5, <1>6, <1>7, <1>8

LEMMA SelectStep ==
  ASSUME IInv, NEW d \in Drivers, NEW t \in Tasks, Select(d, t)
  PROVE  IInv'
  <1> USE DEF IInv
  <1>1. /\ at[d] = "dispatch" /\ t \in queue[d] /\ pick[d].task = None
        /\ UNCHANGED <<core, world, reported, at, ticks, seen, exec>>
    BY DEF Select
  <1>2. \/ /\ \E a \in Agents : pick' = [pick EXCEPT ![d] = [task |-> t, agent |-> a]]
           /\ UNCHANGED <<trigger, queue>>
        \/ Skip(d, t) /\ UNCHANGED pick
    BY DEF Select, Eligible, TypeOK
  <1>3. TypeOK' /\ DispatchInTick'
    <2>1. ASSUME NEW a \in Agents, pick' = [pick EXCEPT ![d] = [task |-> t, agent |-> a]],
                 UNCHANGED <<trigger, queue>>
          PROVE  TypeOK' /\ DispatchInTick'
      <3>1. [task |-> t, agent |-> a] \in [task : Tasks \cup {None}, agent : Agents \cup {None}]
        OBVIOUS
      <3>2. TypeOK'
        BY <1>1, <2>1, <3>1 DEF TypeOK, core, world
      <3>3. DispatchInTick'
        BY <1>1, <2>1 DEF TypeOK, DispatchInTick
      <3>4. QED
        BY <3>2, <3>3
    <2>2. CASE Skip(d, t) /\ UNCHANGED pick
      BY <1>1, <2>2 DEF TypeOK, DispatchInTick, Skip, core, world
    <2>3. QED
      BY <1>2, <2>1, <2>2
  <1>4. ExecutionsHold' /\ OneExecution' /\ ExecutingIsRun'
    BY <1>1 DEF ExecutionsHold, OneExecution, ExecutingIsRun, core
  <1>5. UnfitIsCaught'
    BY <1>1 DEF UnfitIsCaught, Unfit, Refused, world
  <1>6. DispatchReady'
    <2>1. \A e \in Drivers : queue'[e] \subseteq queue[e]
      <3>1. CASE UNCHANGED queue
        BY <3>1
      <3>2. CASE queue' = [queue EXCEPT ![d] = @ \ {t}]
        BY <3>2 DEF TypeOK
      <3>3. QED
        BY <1>2, <3>1, <3>2 DEF Skip
    <2>2. seen' = seen /\ exec' = exec /\ status' = status
      BY <1>1 DEF core
    <2>3. SUFFICES ASSUME NEW e \in Drivers, NEW u \in Tasks,
                          u \in queue'[e] \/ exec[e][u].at # "idle"
                   PROVE  \A v \in seen[e].static[u].deps : status[v] = "completed"
      BY <2>2 DEF DispatchReady
    <2>4. u \in queue[e] \/ exec[e][u].at # "idle"
      BY <2>1, <2>3
    <2>5. QED
      BY <2>4 DEF DispatchReady
  <1>7. SuccessIsTrue'
    BY <1>1 DEF SuccessIsTrue, core
  <1>8. QED
    BY <1>3, <1>4, <1>5, <1>6, <1>7

LEMMA AssignStep ==
  ASSUME IInv, NEW d \in Drivers, Assign(d)
  PROVE  IInv'
  <1> DEFINE t == pick[d].task
             b == Assignment(d)
  <1>1. /\ at[d] = "dispatch" /\ t # None
        /\ pick' = [pick EXCEPT ![d] = [task |-> None, agent |-> None]]
        /\ queue' = [queue EXCEPT ![d] = @ \ {t}]
        /\ UNCHANGED <<world, reported, at, ticks, seen>>
    BY DEF Assign, Skip
  <1>2. t \in Tasks /\ t \in queue[d]
    BY <1>1 DEF IInv, TypeOK, DispatchInTick
  <1>3. \/ /\ Accepted(b) /\ Apply(b)
           /\ exec' = [exec EXCEPT ![d][t].at = "called"]
           /\ UNCHANGED trigger
        \/ /\ trigger' = [trigger EXCEPT ![d] = TRUE]
           /\ UNCHANGED <<core, exec>>
    BY DEF Assign, Skip
  <1>4. DispatchInTick'
    BY <1>1 DEF IInv, DispatchInTick, TypeOK
  <1>5. CASE UNCHANGED <<core, exec>> /\ trigger' = [trigger EXCEPT ![d] = TRUE]
    <2>1. TypeOK'
      BY <1>1, <1>5 DEF IInv, TypeOK, core, world
    <2>2. ExecutionsHold' /\ OneExecution' /\ ExecutingIsRun'
      BY <1>1, <1>5 DEF IInv, ExecutionsHold, OneExecution, ExecutingIsRun, core
    <2>3. UnfitIsCaught'
      BY <1>1, <1>5 DEF IInv, UnfitIsCaught, Unfit, Refused, world
    <2>4. DispatchReady'
      <3>1. \A e \in Drivers : queue'[e] \subseteq queue[e]
        BY <1>1 DEF IInv, TypeOK
      <3>2. QED
        BY <1>1, <1>5, <3>1 DEF IInv, DispatchReady, core
    <2>5. SuccessIsTrue'
      BY <1>1, <1>5 DEF IInv, SuccessIsTrue, core
    <2>6. QED
      BY <1>4, <2>1, <2>2, <2>3, <2>4, <2>5 DEF IInv
  <1>6. CASE /\ Accepted(b) /\ Apply(b)
             /\ exec' = [exec EXCEPT ![d][t].at = "called"] /\ UNCHANGED trigger
    <2>1. /\ status' \in [Tasks -> Statuses] /\ static' \in [Tasks -> Static]
          /\ assignee' \in [Tasks -> Agents \cup {None}]
          /\ replans' \in 0..MaxReplanCount /\ reviews' \in 0..MaxReviewRounds
      BY <1>6, AssignmentTyped, ApplyType, ApplyCounts DEF IInv
    <2>2. /\ \A u \in Tasks : u # t => status'[u] = status[u]
          /\ status[t] = "pending" /\ status'[t] = "assigned"
      <3>1. DOMAIN b.new = {} /\ b.retry = {} /\ DOMAIN b.assign = {t}
        BY DEF Assignment
      <3>2. QED
        BY <1>2, <1>6, <3>1 DEF Apply, Accepted, Applicable
    <2> HIDE DEF t, b
    <2>3. \A e \in Drivers, u \in Tasks :
            exec'[e][u] = IF e = d /\ u = t THEN [exec[d][t] EXCEPT !.at = "called"]
                          ELSE exec[e][u]
      BY <1>2, <1>6 DEF IInv, TypeOK
    <2>4. \A e \in Drivers : exec[e][t].at = "idle"
      <3> SUFFICES ASSUME NEW e \in Drivers PROVE exec[e][t].at = "idle"
        OBVIOUS
      <3>1. exec[e][t] \in Executions
        BY <1>2 DEF IInv, TypeOK
      <3>2. status[t] \notin {"assigned", "executing"}
        BY <2>2
      <3>3. QED
        BY <1>2, <3>1, <3>2 DEF IInv, ExecutionsHold, Executions
    <2>5. /\ exec'[d][t].at = "called" /\ exec'[d][t].fit = exec[d][t].fit
          /\ exec'[d][t] \in Executions
      <3>1. exec[d][t] \in Executions /\ exec'[d][t] = [exec[d][t] EXCEPT !.at = "called"]
        BY <1>2, <2>3 DEF IInv, TypeOK
      <3>2. QED
        BY <3>1 DEF Executions
    <2>6. TypeOK'
      <3>1. exec' \in [Drivers -> [Tasks -> Executions]]
        BY <1>2, <1>6, <2>3, <2>5 DEF IInv, TypeOK
      <3>2. QED
        BY <1>1, <1>6, <2>1, <3>1 DEF IInv, TypeOK, world
    <2>7. ExecutionsHold'
      BY <1>1, <1>2, <2>2, <2>3, <2>4, <2>5 DEF IInv, ExecutionsHold
    <2>8. OneExecution'
      BY <1>2, <2>3, <2>4, <2>5 DEF IInv, OneExecution
    <2>9. ExecutingIsRun'
      BY <1>2, <2>2, <2>3 DEF IInv, ExecutingIsRun
    <2>10. UnfitIsCaught'
      <3>1. \A e \in Drivers, u \in Tasks :
              exec'[e][u] = exec[e][u] \/ exec'[e][u].at = "called"
        BY <2>3, <2>5
      <3>2. QED
        BY <1>1, <3>1 DEF IInv, UnfitIsCaught, Unfit, Refused, world
    <2>11. DispatchReady'
      <3>1. \A e \in Drivers : queue'[e] \subseteq queue[e]
        BY <1>1 DEF IInv, TypeOK
      <3>2. \A e \in Drivers, u \in Tasks : seen[e].static[u].deps \subseteq Tasks
        BY DEF IInv, TypeOK, Graphs, Static
      <3>3. QED
        BY <1>1, <1>2, <2>2, <2>3, <3>1, <3>2 DEF IInv, DispatchReady
    <2>12. SuccessIsTrue'
      BY <1>1, <1>2, <2>2 DEF IInv, SuccessIsTrue
    <2>13. QED
      BY <1>4, <2>6, <2>7, <2>8, <2>9, <2>10, <2>11, <2>12 DEF IInv
  <1>7. QED
    BY <1>3, <1>5, <1>6

(* Any step of one execution: it goes on as x, and its task's status to s. *)
LEMMA ExecutionMoves ==
  ASSUME IInv, NEW d \in Drivers, NEW t \in Tasks, NEW x \in Executions, NEW s \in Statuses,
         exec[d][t].at # "idle",
         exec' = [exec EXCEPT ![d][t] = x],
         status' = [status EXCEPT ![t] = s],
         trigger' \in [Drivers -> BOOLEAN],
         UNCHANGED InBoundary,
         x.at = "idle" => s # "executing",
         x.at \in {"called", "held", "valid", "cleared"} => s = "assigned",
         x.at = "running" => s = "executing",
         ~x.fit => /\ x.at = "held" => Unfit(x.agent, x.caps) \/ Refused(x.agent, x.caps)
                   /\ x.at = "valid" => Refused(x.agent, x.caps)
                   /\ x.at \notin {"cleared", "running"}
  PROVE  IInv'
  <1> USE DEF IInv
  <1>1. \A e \in Drivers, u \in Tasks :
          exec'[e][u] = IF e = d /\ u = t THEN x ELSE exec[e][u]
    BY DEF TypeOK
  <1>2. exec' \in [Drivers -> [Tasks -> Executions]]
    BY DEF TypeOK
  <1>3. \A u \in Tasks : status'[u] = IF u = t THEN s ELSE status[u]
    BY DEF TypeOK
  <1>4. TypeOK'
    BY <1>2 DEF TypeOK, InBoundary, world
  <1>5. at[d] = "dispatch" /\ status[t] \in {"assigned", "executing"}
    <2>1. exec[d][t] \in Executions
      BY DEF TypeOK
    <2>2. QED
      BY <2>1 DEF ExecutionsHold, Executions
  <1>6. \A e \in Drivers : e # d => exec[e][t].at = "idle"
    BY DEF OneExecution
  <1>7. ExecutionsHold'
    <2> SUFFICES ASSUME NEW e \in Drivers, NEW u \in Tasks
                 PROVE  /\ exec'[e][u].at \in {"called", "held", "valid", "cleared"}
                             => status'[u] = "assigned"
                        /\ exec'[e][u].at = "running" => status'[u] = "executing"
                        /\ exec'[e][u].at # "idle" => at'[e] = "dispatch"
      BY DEF ExecutionsHold
    <2>1. CASE u = t
      BY <1>1, <1>3, <1>5, <1>6, <2>1 DEF InBoundary
    <2>2. CASE u # t
      BY <1>1, <1>3, <2>2 DEF InBoundary, ExecutionsHold
    <2>3. QED
      BY <2>1, <2>2
  <1>8. OneExecution'
    BY <1>1, <1>6 DEF OneExecution
  <1>9. ExecutingIsRun'
    <2> SUFFICES ASSUME NEW u \in Tasks, status'[u] = "executing"
                 PROVE  \E e \in Drivers : exec'[e][u].at = "running"
      BY DEF ExecutingIsRun
    <2>1. CASE u = t
      BY <1>1, <1>3, <2>1 DEF Executions
    <2>2. CASE u # t
      BY <1>1, <1>3, <2>2 DEF ExecutingIsRun
    <2>3. QED
      BY <2>1, <2>2
  <1>10. UnfitIsCaught'
    <2> SUFFICES ASSUME NEW e \in Drivers, NEW u \in Tasks, ~exec'[e][u].fit
                 PROVE  /\ exec'[e][u].at = "held" =>
                             \/ Unfit(exec[e][u].agent, exec[e][u].caps)'
                             \/ Refused(exec[e][u].agent, exec[e][u].caps)'
                        /\ exec'[e][u].at = "valid" => Refused(exec[e][u].agent, exec[e][u].caps)'
                        /\ exec'[e][u].at \notin {"cleared", "running"}
      BY DEF UnfitIsCaught
    <2>1. CASE e = d /\ u = t
      BY <1>1, <2>1 DEF Unfit, Refused, InBoundary, world
    <2>2. CASE ~(e = d /\ u = t)
      <3>1. exec'[e][u] = exec[e][u] /\ UNCHANGED <<registered, skills, denied>>
        BY <1>1, <2>2 DEF InBoundary, world
      <3>2. ~exec[e][u].fit
        BY <3>1
      <3>3. Unfit(exec[e][u].agent, exec[e][u].caps)' <=> Unfit(exec[e][u].agent, exec[e][u].caps)
        <4>1. /\ exec'[e][u].agent = exec[e][u].agent /\ exec'[e][u].caps = exec[e][u].caps
              /\ registered' = registered /\ skills' = skills
          BY <3>1
        <4> DEFINE a == exec[e][u].agent
                   caps == exec[e][u].caps
        <4>2. a' = a /\ caps' = caps
          BY <4>1
        <4>3. (a \notin registered \/ \E c \in caps : <<a, c>> \notin skills)' <=>
              (a \notin registered \/ \E c \in caps : <<a, c>> \notin skills)
          <5> HIDE DEF a, caps
          <5>1. QED
            BY <4>1, <4>2
        <4>4. QED
          BY <4>3 DEF Unfit
      <3>4. Refused(exec[e][u].agent, exec[e][u].caps)' <=> Refused(exec[e][u].agent, exec[e][u].caps)
        BY <3>1 DEF Refused
      <3>5. QED
        BY <3>1, <3>2, <3>3, <3>4 DEF UnfitIsCaught
    <2>3. QED
      BY <2>1, <2>2
  <1>11. DispatchInTick'
    BY DEF DispatchInTick, InBoundary
  <1>12. DispatchReady'
    <2>1. \A e \in Drivers, u \in Tasks : seen[e].static[u].deps \subseteq Tasks
      BY DEF TypeOK, Graphs, Static
    <2>2. QED
      BY <1>1, <1>3, <1>5, <2>1 DEF DispatchReady, InBoundary
  <1>13. SuccessIsTrue'
    BY <1>3, <1>5 DEF SuccessIsTrue, InBoundary
  <1>14. QED
    BY <1>4, <1>7, <1>8, <1>9, <1>10, <1>11, <1>12, <1>13

LEMMA IdleType == Idle \in Executions /\ Idle.at = "idle" /\ Idle.fit = FALSE
  BY DEF Idle, Executions

(* The execution is over, its task left in status s. *)
LEMMA EndsStep ==
  ASSUME IInv, NEW d \in Drivers, NEW t \in Tasks, NEW s \in Statuses \ {"executing"},
         exec[d][t].at # "idle", NEW triggers \in BOOLEAN, Ends(d, t, triggers),
         status' = [status EXCEPT ![t] = s], UNCHANGED InBoundary
  PROVE  IInv'
  <1>1. trigger' \in [Drivers -> BOOLEAN]
    <2>1. (trigger[d] \/ triggers) \in BOOLEAN
      OBVIOUS
    <2>2. trigger' = [trigger EXCEPT ![d] = trigger[d] \/ triggers]
      BY DEF Ends
    <2>3. trigger \in [Drivers -> BOOLEAN]
      BY DEF IInv, TypeOK
    <2>4. QED
      BY <2>1, <2>2, <2>3
  <1>2. exec' = [exec EXCEPT ![d][t] = Idle]
    BY DEF Ends
  <1>3. QED
    BY <1>1, <1>2, IdleType, ExecutionMoves

LEMMA ExecutesStep ==
  ASSUME IInv, NEW d \in Drivers, NEW t \in Tasks, Executes(d, t)
  PROVE  IInv'
  <1> DEFINE x == [at |-> "held", agent |-> assignee[t], caps |-> static[t].caps,
                   fit |-> /\ ~Unfit(assignee[t], static[t].caps)
                           /\ ~Refused(assignee[t], static[t].caps)]
  <1>1. x \in Executions
    BY DEF IInv, TypeOK, Executions, Static
  <1>2. status[t] = "assigned" /\ status' = [status EXCEPT ![t] = "assigned"]
    BY DEF IInv, TypeOK, ExecutionsHold, Executes
  <1>3. exec' = [exec EXCEPT ![d][t] = x] /\ UNCHANGED InBoundary
    BY DEF Executes
  <1>4. exec[d][t].at # "idle" /\ trigger' \in [Drivers -> BOOLEAN]
    BY DEF Executes, IInv, TypeOK
  <1>5. /\ x.at = "held"
        /\ ~x.fit => Unfit(x.agent, x.caps) \/ Refused(x.agent, x.caps)
    OBVIOUS
  <1>6. "assigned" \in Statuses
    BY DEF Statuses
  <1> HIDE DEF x
  <1>7. QED
    BY <1>1, <1>2, <1>3, <1>4, <1>5, <1>6, ExecutionMoves

LEMMA RevalidatesStep ==
  ASSUME IInv, NEW d \in Drivers, NEW t \in Tasks, Revalidates(d, t)
  PROVE  IInv'
  <1>1. status[t] = "assigned" /\ status' = [status EXCEPT ![t] = "assigned"]
    BY DEF IInv, TypeOK, ExecutionsHold, Revalidates
  <1>2. "assigned" \in Statuses \ {"executing"}
    BY DEF Statuses
  <1>3. exec[d][t].at = "held" /\ UNCHANGED InBoundary
    BY DEF Revalidates
  <1>4. CASE Unfit(exec[d][t].agent, exec[d][t].caps)
    <2>1. Ends(d, t, TRUE)
      BY <1>4 DEF Revalidates
    <2>2. QED
      BY <1>1, <1>2, <1>3, <2>1, EndsStep
  <1>5. CASE ~Unfit(exec[d][t].agent, exec[d][t].caps)
    <2> DEFINE x == [exec[d][t] EXCEPT !.at = "valid"]
    <2>1. exec[d][t] \in Executions /\ trigger \in [Drivers -> BOOLEAN]
      BY DEF IInv, TypeOK
    <2>2. /\ x \in Executions /\ x.at = "valid" /\ x.fit = exec[d][t].fit
          /\ x.agent = exec[d][t].agent /\ x.caps = exec[d][t].caps
      BY <2>1 DEF Executions
    <2>3. exec' = [exec EXCEPT ![d][t] = x] /\ trigger' = trigger
      BY <1>5, <2>1 DEF Revalidates, IInv, TypeOK
    <2>4. ~x.fit => Refused(x.agent, x.caps)
      BY <1>3, <1>5, <2>2 DEF IInv, UnfitIsCaught
    <2> HIDE DEF x
    <2>5. QED
      BY <1>1, <1>2, <1>3, <2>1, <2>2, <2>3, <2>4, ExecutionMoves
  <1>6. QED
    BY <1>4, <1>5

LEMMA ReauthorizesStep ==
  ASSUME IInv, NEW d \in Drivers, NEW t \in Tasks, Reauthorizes(d, t)
  PROVE  IInv'
  <1>1. status[t] = "assigned" /\ status' = [status EXCEPT ![t] = "assigned"]
    BY DEF IInv, TypeOK, ExecutionsHold, Reauthorizes
  <1>2. "assigned" \in Statuses \ {"executing"}
    BY DEF Statuses
  <1>3. exec[d][t].at = "valid" /\ UNCHANGED InBoundary
    BY DEF Reauthorizes
  <1>4. CASE Refused(exec[d][t].agent, exec[d][t].caps)
    <2>1. Ends(d, t, TRUE)
      BY <1>4 DEF Reauthorizes
    <2>2. QED
      BY <1>1, <1>2, <1>3, <2>1, EndsStep
  <1>5. CASE ~Refused(exec[d][t].agent, exec[d][t].caps)
    <2> DEFINE x == [exec[d][t] EXCEPT !.at = "cleared"]
    <2>1. exec[d][t] \in Executions /\ trigger \in [Drivers -> BOOLEAN]
      BY DEF IInv, TypeOK
    <2>2. x \in Executions /\ x.at = "cleared" /\ x.fit = exec[d][t].fit
      BY <2>1 DEF Executions
    <2>3. exec' = [exec EXCEPT ![d][t] = x] /\ trigger' = trigger
      BY <1>5, <2>1 DEF Reauthorizes, IInv, TypeOK
    <2>4. x.fit
      BY <1>3, <1>5, <2>2 DEF IInv, UnfitIsCaught
    <2> HIDE DEF x
    <2>5. QED
      BY <1>1, <1>2, <1>3, <2>1, <2>2, <2>3, <2>4, ExecutionMoves
  <1>6. QED
    BY <1>4, <1>5

LEMMA MarkExecutingStep ==
  ASSUME IInv, NEW d \in Drivers, NEW t \in Tasks, MarkExecuting(d, t)
  PROVE  /\ IInv'
         /\ status[t] = "assigned" /\ status' = [status EXCEPT ![t] = "executing"]
         /\ exec'[d][t].at = "running" /\ exec' = [exec EXCEPT ![d][t] = exec'[d][t]]
  <1> DEFINE x == [exec[d][t] EXCEPT !.at = "running"]
  <1>1. exec[d][t].at = "cleared" /\ UNCHANGED InBoundary
    BY DEF MarkExecuting
  <1>2. status[t] = "assigned"
    BY <1>1 DEF IInv, ExecutionsHold
  <1>3. status' = [status EXCEPT ![t] = "executing"] /\ "executing" \in Statuses
    BY <1>2 DEF MarkExecuting, Transition, Statuses
  <1>4. exec[d][t] \in Executions /\ trigger \in [Drivers -> BOOLEAN]
    BY DEF IInv, TypeOK
  <1>5. x \in Executions /\ x.at = "running" /\ x.fit = exec[d][t].fit
    BY <1>4 DEF Executions
  <1>6. exec' = [exec EXCEPT ![d][t] = x] /\ trigger' = trigger
    BY <1>2, <1>4 DEF MarkExecuting, IInv, TypeOK
  <1>7. x.fit
    BY <1>1, <1>5 DEF IInv, UnfitIsCaught
  <1>8. exec'[d][t] = x
    BY <1>6 DEF IInv, TypeOK
  <1> HIDE DEF x
  <1>9. IInv'
    BY <1>1, <1>3, <1>4, <1>5, <1>6, <1>7, ExecutionMoves
  <1>10. QED
    BY <1>2, <1>3, <1>5, <1>6, <1>8, <1>9

LEMMA ProviderReturnsStep ==
  ASSUME IInv, NEW d \in Drivers, NEW t \in Tasks, ProviderReturns(d, t)
  PROVE  /\ IInv'
         /\ status[t] = "executing" /\ exec' = [exec EXCEPT ![d][t] = Idle]
         /\ \E s \in {"completed", "failed"} : status' = [status EXCEPT ![t] = s]
  <1>1. exec[d][t].at = "running" /\ UNCHANGED InBoundary
    BY DEF ProviderReturns
  <1>2. status[t] = "executing"
    BY <1>1 DEF IInv, ExecutionsHold
  <1>3. PICK s \in {"completed", "failed"}, triggers \in BOOLEAN :
          status' = [status EXCEPT ![t] = s] /\ Ends(d, t, triggers)
    BY <1>2 DEF ProviderReturns, Transition
  <1>4. s \in Statuses \ {"executing"}
    BY DEF Statuses
  <1>5. IInv'
    BY <1>1, <1>3, <1>4, EndsStep
  <1>6. QED
    BY <1>2, <1>3, <1>5 DEF Ends

LEMMA RevokeStep ==
  ASSUME IInv, Revoke
  PROVE  IInv'
  <1> USE DEF IInv
  <1>1. /\ registered' \subseteq registered /\ skills' \subseteq skills
        /\ denied \subseteq denied' /\ denied' \in SUBSET (Agents \cup Caps)
    BY DEF Revoke, TypeOK
  <1>2. UNCHANGED <<core, reported, driver, exec>>
    BY DEF Revoke
  <1>3. TypeOK'
    BY <1>1, <1>2 DEF TypeOK, core, driver
  <1>4. ExecutionsHold' /\ OneExecution' /\ ExecutingIsRun'
    BY <1>2 DEF ExecutionsHold, OneExecution, ExecutingIsRun, core, driver
  <1>5. UnfitIsCaught'
    BY <1>1, <1>2 DEF UnfitIsCaught, Unfit, Refused
  <1>6. DispatchInTick' /\ DispatchReady' /\ SuccessIsTrue'
    BY <1>2 DEF DispatchInTick, DispatchReady, SuccessIsTrue, core, driver
  <1>7. QED
    BY <1>3, <1>4, <1>5, <1>6

LEMMA NextIInv == IInv /\ [Next]_vars => IInv'
  <1> SUFFICES ASSUME IInv, [Next]_vars PROVE IInv'
    OBVIOUS
  <1>1. ASSUME NEW d \in Drivers, SupervisorFails(d) PROVE IInv'
    BY <1>1, GotoStep DEF SupervisorFails
  <1>2. ASSUME NEW d \in Drivers, Plan(d) \/ Replan(d) PROVE IInv'
    BY <1>2, ProposeStep DEF Plan, Replan
  <1>3. ASSUME NEW d \in Drivers, TickLimit(d) PROVE IInv'
    BY <1>3, GotoStep DEF TickLimit
  <1>4. ASSUME NEW d \in Drivers, Completion(d) PROVE IInv'
    <2>1. CASE Goto(d, "tick") /\ UNCHANGED seen
      BY <1>4, <2>1, GotoStep DEF Completion
    <2>2. CASE \A t \in Known : status[t] \in {"completed", "failed"}
      BY <1>4, <2>2, OutcomeStep DEF Completion
    <2>3. QED
      BY <1>4, <2>1, <2>2 DEF Completion
  <1>5. ASSUME NEW d \in Drivers, DriverStep(d) PROVE IInv'
    BY <1>1, <1>2, <1>3, <1>4, <1>5, TickStartsStep, TickEndsStep, SelectStep, AssignStep
       DEF DriverStep
  <1>6. ASSUME NEW d \in Drivers, ExecutionStep(d) PROVE IInv'
    BY <1>6, ExecutesStep, RevalidatesStep, ReauthorizesStep, MarkExecutingStep,
       ProviderReturnsStep DEF ExecutionStep
  <1>7. CASE UNCHANGED vars
    <2>1. TypeOK'
      BY <1>7 DEF IInv, TypeOK, vars, core, world, driver
    <2>2. QED
      BY <1>7, <2>1 DEF IInv, ExecutionsHold, OneExecution, ExecutingIsRun, UnfitIsCaught,
         Unfit, Refused, DispatchInTick, DispatchReady, SuccessIsTrue,
         vars, core, world, driver
  <1>8. QED
    BY <1>5, <1>6, <1>7, RevokeStep DEF Next, Progress

-----------------------------------------------------------------------------
(* What follows for every behaviour.                                       *)

THEOREM Invariance == Spec => []IInv
  BY InitIInv, NextIInv, PTL DEF Spec

(* The types, and with them the bounds of the replan and review counters,  *)
(* hold however many drivers propose at once (validate.go, checkGuardrails *)
(* inside applyGated's lock).                                              *)
THEOREM TypeCorrect == Spec => []TypeOK
  <1>1. IInv => TypeOK
    BY DEF IInv
  <1>2. QED
    BY <1>1, Invariance, PTL

(* No task runs before what it was dispatched after has completed.         *)
THEOREM RunsWhenReady == Spec => []StartsReady
  <1>1. IInv => StartsReady
    BY DEF IInv, StartsReady, DispatchReady
  <1>2. QED
    BY <1>1, Invariance, PTL

(* No agent runs a task it had lost the right to when Execute began.       *)
THEOREM RunsWhenCleared == Spec => []RunnerWasCleared
  <1>1. IInv => RunnerWasCleared
    BY DEF IInv, RunnerWasCleared, UnfitIsCaught
  <1>2. QED
    BY <1>1, Invariance, PTL

(* A success, once reported, stays true of the tasks it was reported of.   *)
THEOREM SuccessStaysTrue == Spec => []SuccessIsTrue
  <1>1. IInv => SuccessIsTrue
    BY DEF IInv
  <1>2. QED
    BY <1>1, Invariance, PTL

-----------------------------------------------------------------------------
(* The graph is a task board.                                              *)

LEMMA RunnerIs ==
  ASSUME OneExecution, NEW d \in Drivers, NEW t \in Tasks, exec[d][t].at = "running"
  PROVE  RunnerOf(t) = d
  <1>1. \E e \in Drivers : exec[e][t].at = "running"
    OBVIOUS
  <1>2. RunnerOf(t) \in Drivers /\ exec[RunnerOf(t)][t].at = "running"
    BY <1>1 DEF RunnerOf
  <1>3. QED
    BY <1>2 DEF OneExecution

LEMMA RunnerNone ==
  ASSUME NEW t \in Tasks, \A d \in Drivers : exec[d][t].at # "running"
  PROVE  RunnerOf(t) = None
  BY DEF RunnerOf

(* The runner of a task is who it was if its executions run as they did.   *)
LEMMA RunnerStays ==
  ASSUME OneExecution, OneExecution', NEW t \in Tasks,
         \A d \in Drivers : exec'[d][t].at = "running" <=> exec[d][t].at = "running"
  PROVE  RunnerOf(t)' = RunnerOf(t)
  <1>1. CASE \E d \in Drivers : exec[d][t].at = "running"
    <2>1. PICK d \in Drivers : exec[d][t].at = "running"
      BY <1>1
    <2>2. RunnerOf(t) = d
      BY <2>1, RunnerIs
    <2>3. exec'[d][t].at = "running"
      BY <2>1
    <2>4. RunnerOf(t)' = d
      <3>1. (RunnerOf(t) \in Drivers /\ exec[RunnerOf(t)][t].at = "running")'
        BY <2>3 DEF RunnerOf
      <3>2. QED
        BY <2>3, <3>1 DEF OneExecution
    <2>5. QED
      BY <2>2, <2>4
  <1>2. CASE \A d \in Drivers : exec[d][t].at # "running"
    <2>1. RunnerOf(t) = None
      BY <1>2, RunnerNone
    <2>2. RunnerOf(t)' = None
      BY <1>2 DEF RunnerOf
    <2>3. QED
      BY <2>1, <2>2
  <1>3. QED
    BY <1>1, <1>2

LEMMA InitBoard == Init => Board!Init
  <1> SUFFICES ASSUME Init PROVE Board!Init
    OBVIOUS
  <1>1. \A t \in Tasks : RunnerOf(t) = None
    <2> TAKE t \in Tasks
    <2>1. \A d \in Drivers : exec[d][t].at # "running"
      BY DEF Init, Idle
    <2>2. QED
      BY <2>1, RunnerNone
  <1>2. status = [t \in Tasks |-> "absent"]
    BY DEF Init, NoSnapshot
  <1>3. QED
    BY <1>1, <1>2 DEF Board!Init

LEMMA GateOnBoard ==
  ASSUME IInv, IInv', NEW b, Accepted(b), Apply(b),
         \A d \in Drivers, t \in Tasks :
           exec'[d][t].at = "running" <=> exec[d][t].at = "running"
  PROVE  Board!Batch
  <1>1. status' \in [Tasks -> Statuses]
    BY DEF IInv, TypeOK
  <1>2. \A t \in Tasks : status'[t] = status[t] \/ Moved(status[t], status'[t])
    BY ApplyMoves DEF IInv
  <1>3. \A t \in Tasks : RunnerOf(t)' = RunnerOf(t)
    BY RunnerStays DEF IInv
  <1>4. \A t \in Tasks : Moved(status[t], status'[t]) =>
                           <<status[t], status'[t]>> \in Board!Moves
    BY DEF Moved, Board!Moves
  <1>5. QED
    BY <1>1, <1>2, <1>3, <1>4 DEF Board!Batch, Board!Statuses, Statuses

LEMMA StutterOnBoard ==
  ASSUME IInv, IInv', status' = status,
         \A d \in Drivers, t \in Tasks :
           exec'[d][t].at = "running" <=> exec[d][t].at = "running"
  PROVE  UNCHANGED Board!vars
  <1>1. \A t \in Tasks : RunnerOf(t)' = RunnerOf(t)
    BY RunnerStays DEF IInv
  <1>2. QED
    BY <1>1 DEF Board!vars

LEMMA StartOnBoard ==
  ASSUME IInv, IInv', NEW d \in Drivers, NEW t \in Tasks, MarkExecuting(d, t)
  PROVE  Board!Start(t, d)
  <1>1. /\ status[t] = "assigned" /\ status' = [status EXCEPT ![t] = "executing"]
        /\ exec'[d][t].at = "running" /\ exec' = [exec EXCEPT ![d][t] = exec'[d][t]]
    BY MarkExecutingStep
  <1>2. \A e \in Drivers, u \in Tasks : u # t => exec'[e][u] = exec[e][u]
    BY <1>1 DEF IInv, TypeOK
  <1>3. \A u \in Tasks : u # t => RunnerOf(u)' = RunnerOf(u)
    BY <1>2, RunnerStays DEF IInv
  <1>4. RunnerOf(t)' = d
    <2>1. (RunnerOf(t) \in Drivers /\ exec[RunnerOf(t)][t].at = "running")'
      BY <1>1 DEF RunnerOf
    <2>2. QED
      BY <1>1, <2>1 DEF IInv, OneExecution
  <1>5. QED
    BY <1>1, <1>3, <1>4 DEF Board!Start

LEMMA FinishOnBoard ==
  ASSUME IInv, IInv', NEW d \in Drivers, NEW t \in Tasks, ProviderReturns(d, t)
  PROVE  \E outcome \in {"completed", "failed"} : Board!Finish(t, outcome)
  <1>1. /\ status[t] = "executing" /\ exec' = [exec EXCEPT ![d][t] = Idle]
        /\ exec[d][t].at = "running"
    BY ProviderReturnsStep DEF ProviderReturns
  <1>2. PICK s \in {"completed", "failed"} : status' = [status EXCEPT ![t] = s]
    BY ProviderReturnsStep
  <1>3. /\ \A e \in Drivers, u \in Tasks : u # t => exec'[e][u] = exec[e][u]
        /\ exec'[d][t] = Idle /\ \A e \in Drivers : e # d => exec'[e][t] = exec[e][t]
    BY <1>1 DEF IInv, TypeOK
  <1>4. \A u \in Tasks : u # t => RunnerOf(u)' = RunnerOf(u)
    BY <1>3, RunnerStays DEF IInv
  <1>5. \A e \in Drivers : exec'[e][t].at # "running"
    BY <1>1, <1>3, IdleType DEF IInv, OneExecution
  <1>6. RunnerOf(t)' = None
    BY <1>5 DEF RunnerOf
  <1>7. Board!Finish(t, s)
    BY <1>1, <1>2, <1>4, <1>6 DEF Board!Finish
  <1>8. QED
    BY <1>7

LEMMA NextBoard == IInv /\ IInv' /\ [Next]_vars => [Board!Next]_(Board!vars)
  <1> SUFFICES ASSUME IInv, IInv', [Next]_vars PROVE [Board!Next]_(Board!vars)
    OBVIOUS
  <1>1. ASSUME status' = status, exec' = exec PROVE UNCHANGED Board!vars
    BY <1>1, StutterOnBoard
  <1>2. ASSUME NEW d \in Drivers, Plan(d) \/ Replan(d) PROVE [Board!Next]_(Board!vars)
    <2>1. PICK b \in Batches : Propose(d, b)
      BY <1>2 DEF Plan, Replan
    <2>2. CASE Accepted(b) /\ Apply(b)
      BY <2>1, <2>2, GateOnBoard DEF Propose, Board!Next
    <2>3. CASE UNCHANGED core
      BY <2>1, <2>3, <1>1 DEF Propose, core
    <2>4. QED
      BY <2>1, <2>2, <2>3 DEF Propose
  <1>3. ASSUME NEW d \in Drivers, Assign(d) PROVE [Board!Next]_(Board!vars)
    <2>1. CASE UNCHANGED <<core, exec>>
      BY <2>1, <1>1 DEF core
    <2>2. CASE Accepted(Assignment(d)) /\ Apply(Assignment(d))
               /\ exec' = [exec EXCEPT ![d][pick[d].task].at = "called"]
      <3>1. pick[d].task \in Tasks /\ pick[d].task \in DOMAIN Assignment(d).assign
        BY <1>3 DEF Assign, IInv, TypeOK, Assignment
      <3>2. status[pick[d].task] \notin {"executing"}
        <4>1. DOMAIN Assignment(d).new = {} /\ Assignment(d).retry = {}
          BY DEF Assignment
        <4>2. QED
          BY <2>2, <3>1, <4>1 DEF Accepted, Applicable
      <3>3. \A e \in Drivers, t \in Tasks :
              exec'[e][t].at = "running" <=> exec[e][t].at = "running"
        BY <2>2, <3>1, <3>2 DEF IInv, TypeOK, ExecutionsHold, Executions
      <3>4. QED
        BY <2>2, <3>3, GateOnBoard DEF Board!Next
    <2>3. QED
      BY <1>3, <2>1, <2>2 DEF Assign
  <1>4. ASSUME NEW d \in Drivers, DriverStep(d) PROVE [Board!Next]_(Board!vars)
    <2>1. CASE \/ SupervisorFails(d) \/ TickStarts(d) \/ TickLimit(d) \/ TickEnds(d)
               \/ Completion(d) \/ \E t \in Tasks : Select(d, t)
      BY <2>1, <1>1 DEF SupervisorFails, TickStarts, TickLimit, TickEnds, Completion, Select, core
    <2>2. QED
      BY <1>2, <1>3, <1>4, <2>1 DEF DriverStep
  <1>5. ASSUME NEW d \in Drivers, NEW t \in Tasks,
               Executes(d, t) \/ Revalidates(d, t) \/ Reauthorizes(d, t)
        PROVE  UNCHANGED Board!vars
    <2>1. status' = status /\ exec[d][t].at # "running" /\ exec[d][t] \in Executions
      <3>1. status' = status
        BY <1>5 DEF Executes, Revalidates, Reauthorizes
      <3>2. exec[d][t].at # "running"
        BY <1>5 DEF Executes, Revalidates, Reauthorizes
      <3>3. exec[d][t] \in Executions
        BY DEF IInv, TypeOK
      <3>4. QED
        BY <3>1, <3>2, <3>3
    <2>2. /\ \A e \in Drivers, u \in Tasks : ~(e = d /\ u = t) => exec'[e][u] = exec[e][u]
          /\ exec'[d][t].at # "running"
      BY <1>5, <2>1, IdleType
         DEF Executes, Revalidates, Reauthorizes, Ends, IInv, TypeOK, Executions
    <2>3. QED
      BY <2>1, <2>2, StutterOnBoard
  <1>6. ASSUME NEW d \in Drivers, ExecutionStep(d) PROVE [Board!Next]_(Board!vars)
    BY <1>5, <1>6, StartOnBoard, FinishOnBoard DEF ExecutionStep, Board!Next
  <1>7. CASE Revoke \/ UNCHANGED vars
    BY <1>7, <1>1 DEF Revoke, vars, core
  <1>8. QED
    BY <1>4, <1>6, <1>7 DEF Next, Progress

(* The Core state, its Scheduler, Executor and any number of drivers       *)
(* implement the task board.                                               *)
THEOREM Implements == Spec => Refines
  <1>1. Init => Board!Init
    BY InitBoard
  <1>2. IInv /\ IInv' /\ [Next]_vars => [Board!Next]_(Board!vars)
    BY NextBoard
  <1>3. QED
    BY <1>1, <1>2, Invariance, PTL DEF Spec, Refines, Board!Spec

===============================================================================
