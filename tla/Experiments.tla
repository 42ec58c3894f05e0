---------------------------- MODULE Experiments ----------------------------
(***************************************************************************)
(* The experiment control plane (internal/performance) over the ledger in  *)
(* the SQLite store (internal/store).  A routing decision about a task is  *)
(* captured, gated, and may reserve one execution of an experiment's       *)
(* challenger; whatever it selects is then assigned and run, and the       *)
(* observer of that run settles the admission it finds under the task.     *)
(*                                                                         *)
(* The store has ONE connection.  A reservation that is refused returns    *)
(* without ending its transaction, so the connection stays with it until   *)
(* the context of that decision ends.                                      *)
(*                                                                         *)
(* Bounds: every decision is made once, MaxFaults failing calls.           *)
(***************************************************************************)
EXTENDS Integers, FiniteSets

CONSTANTS
  None,
  Decisions,
  Tasks,
  TaskOf,          \* the task a decision is about
  Allocated,       \* decisions whose bucket falls to the challenger
  MaxExecutions,   \* limits of the experiment; 0 is no limit
  MaxConcurrent,
  MaxFailures,
  MaxFaults        \* bound: calls of the store that fail

ASSUME ExperimentsAssumption ==
  /\ IsFiniteSet(Decisions)
  /\ None \notin Decisions
  /\ TaskOf \in [Decisions -> Tasks]
  /\ Allocated \subseteq Decisions
  /\ {MaxExecutions, MaxConcurrent, MaxFailures, MaxFaults} \subseteq Nat

VARIABLES
  exp,         \* the row of the experiment
  row,         \* the reservation of each decision
  conn,        \* whose refused transaction holds the connection, or None
  gone,        \* decisions whose context has ended
  faults,      \* calls of the store that failed
  pendingDecision,   \* by task: the decision captured last
  pendingAdmission,  \* by task: the admission given last
  assigned,    \* by task: the decision it was assigned by
  at,          \* where each decision stands
  outcome,     \* how its execution ended
  attached,    \* the decision whose evaluations got that outcome
  credited     \* the admission it was counted for

ledger == <<exp, row>>
store == <<conn, gone, faults>>
pending == <<pendingDecision, pendingAdmission>>
run == <<assigned, outcome, attached, credited>>
vars == <<ledger, store, pending, run, at>>

-----------------------------------------------------------------------------
(* A call of the store.                                                    *)

Served(d) == conn = None /\ d \notin gone /\ UNCHANGED faults
Fails(d) ==
  \/ d \in gone /\ UNCHANGED faults
  \/ conn = None /\ faults < MaxFaults /\ faults' = faults + 1

Goes(d, stage) == at' = [at EXCEPT ![d] = stage]

-----------------------------------------------------------------------------
(* The ledger.                                                             *)

\* A wrong variant does not count the executions under way.
FullOfConsumed == \/ MaxExecutions > 0 /\ exp.consumed >= MaxExecutions
                  \/ MaxConcurrent > 0 /\ exp.reserved >= MaxConcurrent
Full == \/ MaxExecutions > 0 /\ exp.consumed + exp.reserved >= MaxExecutions
        \/ MaxConcurrent > 0 /\ exp.reserved >= MaxConcurrent

\* A wrong variant trusts the state the gate has seen.
RefusedIfFull == Full
Refused == exp.state # "enabled" \/ Full

Dropped(n) == IF n > 0 THEN n - 1 ELSE 0

Settled(kind) ==
  [exp EXCEPT !.reserved = Dropped(@),
              !.released = IF kind = "released" THEN @ + 1 ELSE @,
              !.consumed = IF kind = "consumed" THEN @ + 1 ELSE @]

Counted(failed) ==
  LET n == exp.failures + (IF failed THEN 1 ELSE 0) IN
  [exp EXCEPT !.missing = Dropped(@), !.failures = n,
              !.state = IF MaxFailures > 0 /\ n >= MaxFailures /\ @ = "enabled"
                        THEN "stopped" ELSE @]

-----------------------------------------------------------------------------
Init ==
  /\ exp = [state |-> "enabled", reserved |-> 0, consumed |-> 0, released |-> 0,
            failures |-> 0, missing |-> 0]
  /\ row = [d \in Decisions |-> "none"]
  /\ conn = None /\ gone = {} /\ faults = 0
  /\ pendingDecision = [t \in Tasks |-> None]
  /\ pendingAdmission = [t \in Tasks |-> None]
  /\ assigned = [t \in Tasks |-> None]
  /\ at = [d \in Decisions |-> "new"]
  /\ outcome = [d \in Decisions |-> "none"]
  /\ attached = [d \in Decisions |-> None]
  /\ credited = [d \in Decisions |-> None]

-----------------------------------------------------------------------------
(* A decision is captured and gated.                                       *)

Remember(d) == pendingDecision' = [pendingDecision EXCEPT ![TaskOf[d]] = d]

\* The snapshot is saved, then evaluated; without both there is no admission.
ObserveRoutingDecision(d) ==
  /\ at[d] = "new" /\ assigned[TaskOf[d]] = None
  /\ \/ Served(d) /\ Remember(d) /\ Goes(d, "captured")
     \/ Fails(d) /\ Goes(d, "denied")
        /\ (Remember(d) \/ UNCHANGED pendingDecision)
  /\ UNCHANGED <<ledger, conn, gone, pendingAdmission, run>>

Gate(d) ==
  /\ at[d] = "captured"
  /\ \/ /\ Served(d)
        /\ Goes(d, IF exp.state = "enabled" /\ d \in Allocated
                   THEN "eligible" ELSE "denied")
     \/ Fails(d) /\ Goes(d, "denied")
  /\ UNCHANGED <<ledger, conn, gone, pending, run>>

ReserveExperiment(d) ==
  /\ at[d] = "eligible"
  /\ \/ /\ Served(d) /\ Refused
        /\ conn' = d /\ Goes(d, "denied")
        /\ UNCHANGED ledger
     \/ /\ Served(d) /\ ~Refused
        /\ row' = [row EXCEPT ![d] = "reserved"]
        /\ exp' = [exp EXCEPT !.reserved = @ + 1]
        /\ Goes(d, "reserved")
        /\ UNCHANGED conn
     \/ Fails(d) /\ Goes(d, "denied") /\ UNCHANGED <<ledger, conn>>
  /\ UNCHANGED <<gone, pending, run>>

\* The refusal is put on the audit trail and the champion answered.
Deny(d) ==
  /\ at[d] = "denied"
  /\ Served(d) \/ Fails(d)
  /\ Goes(d, "champion")
  /\ UNCHANGED <<ledger, conn, gone, pending, run>>

SaveAdmission(d) ==
  /\ at[d] = "reserved"
  /\ \/ Served(d) /\ Goes(d, "saved")
     \/ Fails(d) /\ Goes(d, "unsaved")
  /\ UNCHANGED <<ledger, conn, gone, pending, run>>

ReleaseExperiment(d) ==
  /\ at[d] = "unsaved"
  /\ \/ /\ Served(d)
        /\ IF row[d] = "reserved"
           THEN row' = [row EXCEPT ![d] = "released"] /\ exp' = Settled("released")
           ELSE UNCHANGED ledger
     \/ Fails(d) /\ UNCHANGED ledger
  /\ Goes(d, "champion")
  /\ UNCHANGED <<conn, gone, pending, run>>

Admit(d) ==
  /\ at[d] = "saved"
  /\ \/ Served(d) /\ exp' = [exp EXCEPT !.missing = @ + 1]
     \/ Fails(d) /\ UNCHANGED exp
  /\ pendingAdmission' = [pendingAdmission EXCEPT ![TaskOf[d]] = d]
  /\ Goes(d, "challenger")
  /\ UNCHANGED <<row, conn, gone, pendingDecision, run>>

-----------------------------------------------------------------------------
(* The agent selected is assigned and run.                                 *)

\* A task that someone has assigned meanwhile is refused; so is one the
\* gate of the supervisor turns down.
Apply(d) ==
  /\ at[d] \in {"champion", "challenger"}
  /\ \/ /\ assigned[TaskOf[d]] = None
        /\ assigned' = [assigned EXCEPT ![TaskOf[d]] = d]
        /\ Goes(d, "assigned")
     \/ Goes(d, "dropped") /\ UNCHANGED assigned
  /\ UNCHANGED <<ledger, store, pending, outcome, attached, credited>>

\* Refused at the boundary: no observer runs, the task stays assigned.
Execute(d) ==
  /\ at[d] = "assigned"
  /\ \/ Goes(d, "dropped") /\ UNCHANGED outcome
     \/ \E o \in {"completed", "failed"} :
          outcome' = [outcome EXCEPT ![d] = o] /\ Goes(d, "ran")
  /\ UNCHANGED <<ledger, store, pending, assigned, attached, credited>>

\* A failed task goes back to pending, be its outcome observed or not.
Retry(t) ==
  /\ assigned[t] # None /\ outcome[assigned[t]] = "failed"
  /\ assigned' = [assigned EXCEPT ![t] = None]
  /\ UNCHANGED <<ledger, store, pending, outcome, attached, credited, at>>

-----------------------------------------------------------------------------
(* The observer of an execution.                                           *)

\* Wrong variant: the admission is read, not taken.
KeepPending(t) == UNCHANGED pendingAdmission
TakePending(t) == pendingAdmission' = [pendingAdmission EXCEPT ![t] = None]

ObserveExecution(d) ==
  LET t == TaskOf[d] IN
  /\ at[d] = "ran"
  /\ TakePending(t)
  /\ pendingDecision' = [pendingDecision EXCEPT ![t] = None]
  /\ attached' = [attached EXCEPT ![d] = pendingDecision[t]]
  /\ credited' = [credited EXCEPT ![d] = pendingAdmission[t]]
  /\ Goes(d, IF pendingAdmission[t] = None THEN "done" ELSE "observed")
  /\ UNCHANGED <<ledger, store, assigned, outcome>>

\* Like a refusal, a reservation that is not there leaves its transaction open.
ConsumeExperiment(d) ==
  LET c == credited[d] IN
  /\ at[d] = "observed"
  /\ \/ /\ Served(d)
        /\ IF row[c] = "reserved"
           THEN /\ row' = [row EXCEPT ![c] = "consumed"] /\ exp' = Settled("consumed")
                /\ UNCHANGED conn
           ELSE conn' = d /\ UNCHANGED ledger
     \/ Fails(d) /\ UNCHANGED <<ledger, conn>>
  /\ Goes(d, "consumed")
  /\ UNCHANGED <<gone, pending, run>>

RecordChallengerExecutionOutcome(d) ==
  /\ at[d] = "consumed"
  /\ \/ Served(d) /\ exp' = Counted(outcome[d] = "failed")
     \/ Fails(d) /\ UNCHANGED exp
  /\ Goes(d, "done")
  /\ UNCHANGED <<row, conn, gone, pending, run>>

-----------------------------------------------------------------------------
(* The operator, and the context of a decision.                            *)

Kill ==
  /\ conn = None /\ exp.state # "killed"
  /\ exp' = [exp EXCEPT !.state = "killed"]
  /\ UNCHANGED <<row, store, pending, run, at>>

\* database/sql rolls back what a transaction of that context had open.
EndContext(d) ==
  /\ d \notin gone
  /\ gone' = gone \cup {d}
  /\ conn' = IF conn = d THEN None ELSE conn
  /\ UNCHANGED <<ledger, faults, pending, run, at>>

Step(d) ==
  \/ ObserveRoutingDecision(d) \/ Gate(d) \/ ReserveExperiment(d) \/ Deny(d)
  \/ SaveAdmission(d) \/ ReleaseExperiment(d) \/ Admit(d)
  \/ Apply(d) \/ Execute(d)
  \/ ObserveExecution(d) \/ ConsumeExperiment(d)
  \/ RecordChallengerExecutionOutcome(d)

Next ==
  \/ \E d \in Decisions : Step(d) \/ EndContext(d)
  \/ \E t \in Tasks : Retry(t)
  \/ Kill

Spec == Init /\ [][Next]_vars

\* Every decision goes on while it can; nothing says that a context ends.
FairSpec == Spec /\ \A d \in Decisions : WF_vars(Step(d))

-----------------------------------------------------------------------------
Stages == {"new", "captured", "eligible", "reserved", "saved", "unsaved",
           "denied", "champion", "challenger", "assigned", "ran", "observed",
           "consumed", "done", "dropped"}

TypeOK ==
  /\ exp \in [state : {"enabled", "stopped", "killed"}, reserved : Nat,
              consumed : Nat, released : Nat, failures : Nat, missing : Nat]
  /\ row \in [Decisions -> {"none", "reserved", "released", "consumed"}]
  /\ conn \in Decisions \cup {None}
  /\ gone \subseteq Decisions
  /\ faults \in Nat
  /\ pendingDecision \in [Tasks -> Decisions \cup {None}]
  /\ pendingAdmission \in [Tasks -> Decisions \cup {None}]
  /\ assigned \in [Tasks -> Decisions \cup {None}]
  /\ at \in [Decisions -> Stages]
  /\ outcome \in [Decisions -> {"none", "completed", "failed"}]
  /\ attached \in [Decisions -> Decisions \cup {None}]
  /\ credited \in [Decisions -> Decisions \cup {None}]

InRow(kind) == {d \in Decisions : row[d] = kind}

\* The counters of the experiment are what its reservations say, and the
\* executions spent and under way are within both limits: a stale read of the
\* counters, in a gate long before the reservation, admits nobody too many.
\* (store.go, ReserveExperiment; ADR 0011, "an atomic budget reservation".)
LedgerHolds ==
  /\ exp.reserved = Cardinality(InRow("reserved"))
  /\ exp.consumed = Cardinality(InRow("consumed"))
  /\ exp.released = Cardinality(InRow("released"))
  /\ MaxExecutions > 0 => exp.consumed + exp.reserved <= MaxExecutions
  /\ MaxConcurrent > 0 => exp.reserved <= MaxConcurrent

\* An admission is settled by one execution at most, and by one of its own
\* task, however decisions and retries of the task overlap; its reservation
\* was not given back before.  (production_coordinator.go, ObserveExecution.)
OutcomeOnce ==
  \A d, e \in Decisions :
    /\ credited[d] # None => /\ TaskOf[credited[d]] = TaskOf[d]
                             /\ row[credited[d]] \in {"reserved", "consumed"}
    /\ credited[d] # None /\ credited[d] = credited[e] => d = e

\* Once the failures of the challenger have reached their limit, or the
\* operator has killed the experiment, nothing is reserved any more, whatever
\* was gated before.  (experiment.go, RecordChallengerExecutionOutcome.)
StopIsFinal ==
  [][\A d \in Decisions : row[d] = "none" /\ row'[d] = "reserved" =>
       /\ exp.state = "enabled"
       /\ MaxFailures > 0 => exp.failures < MaxFailures]_vars

\* A decision whose gate has failed is answered with the champion.  (ADR 0011,
\* "Any unavailable or failed gate selects the Champion".)
RefusedGetsChampion ==
  \A d \in Decisions : at[d] = "denied" ~> at[d] # "denied"
=============================================================================
