-------------------------- MODULE ExperimentsProofs --------------------------
(***************************************************************************)
(* Proofs about Experiments, for any decisions, tasks and limits: types,   *)
(* the ledger and its limits, that every admission is settled once and by  *)
(* an execution of its task, and that a stop is final.                     *)
(***************************************************************************)
EXTENDS Experiments, FiniteSetTheorems, TLAPS

Early == {"new", "captured", "eligible"}
Held == {"reserved", "saved", "unsaved"}

(* Where a decision stands says what its reservation is.                   *)
StagesAgree ==
  \A d \in Decisions :
    /\ at[d] \in Early => row[d] = "none"
    /\ at[d] \in Held => row[d] = "reserved"
    /\ at[d] \in {"observed", "consumed"} => credited[d] # None

(* An admission that is pending is of its task and nobody has it.          *)
PendingIsOwed ==
  \A t \in Tasks : pendingAdmission[t] # None =>
    LET c == pendingAdmission[t] IN
    /\ TaskOf[c] = t
    /\ row[c] = "reserved"
    /\ at[c] \notin Early \cup Held
    /\ \A e \in Decisions : credited[e] # c

CreditedIsPast ==
  \A e \in Decisions : credited[e] # None => at[credited[e]] \notin Early \cup Held

StopSaysSo == MaxFailures > 0 /\ exp.state = "enabled" => exp.failures < MaxFailures

IInv == TypeOK /\ StagesAgree /\ PendingIsOwed /\ CreditedIsPast /\ OutcomeOnce

-----------------------------------------------------------------------------
(* The step types.                                                         *)

ExpType == [state : {"enabled", "stopped", "killed"}, reserved : Nat,
            consumed : Nat, released : Nat, failures : Nat, missing : Nat]

LEMMA DroppedType == \A n \in Nat : Dropped(n) \in Nat
  BY DEF Dropped

LEMMA SettledFacts ==
  ASSUME exp \in ExpType, NEW kind
  PROVE  /\ Settled(kind) \in ExpType
         /\ Settled(kind).reserved = Dropped(exp.reserved)
         /\ Settled(kind).released = exp.released + (IF kind = "released" THEN 1 ELSE 0)
         /\ Settled(kind).consumed = exp.consumed + (IF kind = "consumed" THEN 1 ELSE 0)
         /\ Settled(kind).state = exp.state /\ Settled(kind).failures = exp.failures
  <1> DEFINE r == Dropped(exp.reserved)
             l == IF kind = "released" THEN exp.released + 1 ELSE exp.released
             c == IF kind = "consumed" THEN exp.consumed + 1 ELSE exp.consumed
  <1>1. r \in Nat /\ l \in Nat /\ c \in Nat
    BY DroppedType DEF ExpType
  <1>2. Settled(kind) = [exp EXCEPT !.reserved = r, !.released = l, !.consumed = c]
    BY DEF Settled
  <1>3. /\ l = exp.released + (IF kind = "released" THEN 1 ELSE 0)
        /\ c = exp.consumed + (IF kind = "consumed" THEN 1 ELSE 0)
    BY DEF ExpType
  <1> HIDE DEF r, l, c
  <1>4. QED
    BY <1>1, <1>2, <1>3 DEF ExpType, r

LEMMA CountedFacts ==
  ASSUME exp \in ExpType, NEW f \in BOOLEAN
  PROVE  /\ Counted(f) \in ExpType
         /\ Counted(f).reserved = exp.reserved
         /\ Counted(f).released = exp.released
         /\ Counted(f).consumed = exp.consumed
         /\ MaxFailures > 0 /\ Counted(f).state = "enabled" =>
              Counted(f).failures < MaxFailures
  <1> DEFINE n == exp.failures + (IF f THEN 1 ELSE 0)
             m == Dropped(exp.missing)
             s == IF MaxFailures > 0 /\ n >= MaxFailures /\ exp.state = "enabled"
                  THEN "stopped" ELSE exp.state
  <1>1. n \in Nat /\ m \in Nat /\ s \in {"enabled", "stopped", "killed"}
    BY DroppedType DEF ExpType
  <1>2. Counted(f) = [exp EXCEPT !.missing = m, !.failures = n, !.state = s]
    BY DEF Counted
  <1>3. MaxFailures > 0 /\ s = "enabled" => n < MaxFailures
    BY <1>1, ExperimentsAssumption
  <1> HIDE DEF n, m, s
  <1>4. QED
    BY <1>1, <1>2, <1>3 DEF ExpType

LEMMA RecordedFacts ==
  ASSUME exp \in ExpType, NEW d \in Decisions, RecordChallengerExecutionOutcome(d)
  PROVE  /\ exp' \in ExpType
         /\ exp'.reserved = exp.reserved
         /\ exp'.released = exp.released
         /\ exp'.consumed = exp.consumed
         /\ StopSaysSo => StopSaysSo'
  <1> DEFINE f == outcome[d] = "failed"
  <1>1. exp' = Counted(f) \/ exp' = exp
    BY DEF RecordChallengerExecutionOutcome
  <1>2. f \in BOOLEAN
    OBVIOUS
  <1> HIDE DEF f
  <1>3. QED
    BY <1>1, <1>2, CountedFacts DEF StopSaysSo

LEMMA TypeInit == Init => TypeOK
  BY DEF Init, TypeOK, Stages

LEMMA TypeStep == TypeOK /\ [Next]_vars => TypeOK'
  <1> SUFFICES ASSUME TypeOK, [Next]_vars PROVE TypeOK'
    OBVIOUS
  <1> USE ExperimentsAssumption
  <1>1. ASSUME NEW d \in Decisions, ObserveRoutingDecision(d) PROVE TypeOK'
    BY <1>1 DEF TypeOK, Stages, ObserveRoutingDecision, Served, Fails, Goes, Remember, ledger, store, pending, run
  <1>2. ASSUME NEW d \in Decisions, Gate(d) PROVE TypeOK'
    BY <1>2 DEF TypeOK, Stages, Gate, Served, Fails, Goes, Remember, ledger, store, pending, run
  <1>3. ASSUME NEW d \in Decisions, ReserveExperiment(d) PROVE TypeOK'
    BY <1>3 DEF TypeOK, Stages, ReserveExperiment, Served, Fails, Goes, Remember, ledger, store, pending, run
  <1>4. ASSUME NEW d \in Decisions, Deny(d) PROVE TypeOK'
    BY <1>4 DEF TypeOK, Stages, Deny, Served, Fails, Goes, Remember, ledger, store, pending, run
  <1>5. ASSUME NEW d \in Decisions, SaveAdmission(d) PROVE TypeOK'
    BY <1>5 DEF TypeOK, Stages, SaveAdmission, Served, Fails, Goes, Remember, ledger, store, pending, run
  <1>6. ASSUME NEW d \in Decisions, ReleaseExperiment(d) PROVE TypeOK'
    BY SettledFacts, <1>6 DEF TypeOK, ExpType, Stages, ReleaseExperiment, Served, Fails, Goes, Remember, ledger, store, pending, run
  <1>7. ASSUME NEW d \in Decisions, Admit(d) PROVE TypeOK'
    BY <1>7 DEF TypeOK, Stages, Admit, Served, Fails, Goes, Remember, ledger, store, pending, run
  <1>8. ASSUME NEW d \in Decisions, Apply(d) PROVE TypeOK'
    BY <1>8 DEF TypeOK, Stages, Apply, Served, Fails, Goes, Remember, ledger, store, pending, run
  <1>9. ASSUME NEW d \in Decisions, Execute(d) PROVE TypeOK'
    BY <1>9 DEF TypeOK, Stages, Execute, Served, Fails, Goes, Remember, ledger, store, pending, run
  <1>10. ASSUME NEW d \in Decisions, ObserveExecution(d) PROVE TypeOK'
    BY <1>10 DEF TypeOK, Stages, ObserveExecution, Served, Fails, Goes, Remember, ledger, store, pending, run, TakePending
  <1>11. ASSUME NEW d \in Decisions, ConsumeExperiment(d) PROVE TypeOK'
    BY SettledFacts, <1>11 DEF TypeOK, ExpType, Stages, ConsumeExperiment, Served, Fails, Goes, Remember, ledger, store, pending, run
  <1>12. ASSUME NEW d \in Decisions, RecordChallengerExecutionOutcome(d) PROVE TypeOK'
    <2>1. exp' \in ExpType
      BY <1>12, RecordedFacts DEF TypeOK, ExpType
    <2>2. QED
      BY <1>12, <2>1 DEF TypeOK, ExpType, Stages, RecordChallengerExecutionOutcome, Served, Fails, Goes, ledger, store, pending, run
  <1>13. ASSUME NEW d \in Decisions, EndContext(d) PROVE TypeOK'
    BY <1>13 DEF TypeOK, Stages, EndContext, Served, Fails, Goes, Remember, ledger, store, pending, run
  <1>14. ASSUME NEW t \in Tasks, Retry(t) PROVE TypeOK'
    BY <1>14 DEF TypeOK, Retry, ledger, store, pending, run
  <1>15. ASSUME Kill PROVE TypeOK'
    BY <1>15 DEF TypeOK, Kill, ledger, store, pending, run
  <1>16. ASSUME UNCHANGED vars PROVE TypeOK'
    BY <1>16 DEF TypeOK, vars, ledger, store, pending, run
  <1>17. QED
    BY <1>1, <1>2, <1>3, <1>4, <1>5, <1>6, <1>7, <1>8, <1>9, <1>10, <1>11, <1>12, <1>13, <1>14, <1>15, <1>16 DEF Next, Step

(* Every variable keeps its type, for all decisions and limits.            *)
THEOREM TypeCorrect == Spec => []TypeOK
  BY TypeInit, TypeStep, PTL DEF Spec

-----------------------------------------------------------------------------
(* Admissions: where each decision stands, and whose admission is whose.   *)

LEMMA AdmissionsInit == Init => StagesAgree /\ PendingIsOwed /\ CreditedIsPast /\ OutcomeOnce
  BY DEF Init, StagesAgree, PendingIsOwed, CreditedIsPast, OutcomeOnce, Early, Held

LEMMA AdmissionsStep ==
  IInv /\ [Next]_vars =>
    (StagesAgree /\ PendingIsOwed /\ CreditedIsPast /\ OutcomeOnce)'
  <1> DEFINE Goal == (StagesAgree /\ PendingIsOwed /\ CreditedIsPast /\ OutcomeOnce)'
  <1> SUFFICES ASSUME IInv, [Next]_vars PROVE Goal
    BY DEF StagesAgree, PendingIsOwed, CreditedIsPast, OutcomeOnce
  <1> USE ExperimentsAssumption DEF IInv
  <1>1. ASSUME NEW d \in Decisions, ObserveRoutingDecision(d) PROVE Goal
    <2>1. StagesAgree'
      BY <1>1 DEF StagesAgree, PendingIsOwed, CreditedIsPast, OutcomeOnce, Early, Held, TypeOK, ObserveRoutingDecision, Served, Fails, Goes, Remember, ledger, store, pending, run
    <2>2. PendingIsOwed'
      BY <1>1 DEF StagesAgree, PendingIsOwed, CreditedIsPast, OutcomeOnce, Early, Held, TypeOK, ObserveRoutingDecision, Served, Fails, Goes, Remember, ledger, store, pending, run
    <2>3. CreditedIsPast'
      BY <1>1 DEF StagesAgree, PendingIsOwed, CreditedIsPast, OutcomeOnce, Early, Held, TypeOK, ObserveRoutingDecision, Served, Fails, Goes, Remember, ledger, store, pending, run
    <2>4. OutcomeOnce'
      BY <1>1 DEF StagesAgree, PendingIsOwed, CreditedIsPast, OutcomeOnce, Early, Held, TypeOK, ObserveRoutingDecision, Served, Fails, Goes, Remember, ledger, store, pending, run
    <2>5. QED
      BY <2>1, <2>2, <2>3, <2>4
  <1>2. ASSUME NEW d \in Decisions, Gate(d) PROVE Goal
    <2>1. StagesAgree'
      BY <1>2 DEF StagesAgree, PendingIsOwed, CreditedIsPast, OutcomeOnce, Early, Held, TypeOK, Gate, Served, Fails, Goes, Remember, ledger, store, pending, run
    <2>2. PendingIsOwed'
      BY <1>2 DEF StagesAgree, PendingIsOwed, CreditedIsPast, OutcomeOnce, Early, Held, TypeOK, Gate, Served, Fails, Goes, Remember, ledger, store, pending, run
    <2>3. CreditedIsPast'
      BY <1>2 DEF StagesAgree, PendingIsOwed, CreditedIsPast, OutcomeOnce, Early, Held, TypeOK, Gate, Served, Fails, Goes, Remember, ledger, store, pending, run
    <2>4. OutcomeOnce'
      BY <1>2 DEF StagesAgree, PendingIsOwed, CreditedIsPast, OutcomeOnce, Early, Held, TypeOK, Gate, Served, Fails, Goes, Remember, ledger, store, pending, run
    <2>5. QED
      BY <2>1, <2>2, <2>3, <2>4
  <1>3. ASSUME NEW d \in Decisions, ReserveExperiment(d) PROVE Goal
    <2>1. StagesAgree'
      BY <1>3 DEF StagesAgree, PendingIsOwed, CreditedIsPast, OutcomeOnce, Early, Held, TypeOK, ReserveExperiment, Served, Fails, Goes, Remember, ledger, store, pending, run
    <2>2. PendingIsOwed'
      BY <1>3 DEF StagesAgree, PendingIsOwed, CreditedIsPast, OutcomeOnce, Early, Held, TypeOK, ReserveExperiment, Served, Fails, Goes, Remember, ledger, store, pending, run
    <2>3. CreditedIsPast'
      BY <1>3 DEF StagesAgree, PendingIsOwed, CreditedIsPast, OutcomeOnce, Early, Held, TypeOK, ReserveExperiment, Served, Fails, Goes, Remember, ledger, store, pending, run
    <2>4. OutcomeOnce'
      BY <1>3 DEF StagesAgree, PendingIsOwed, CreditedIsPast, OutcomeOnce, Early, Held, TypeOK, ReserveExperiment, Served, Fails, Goes, Remember, ledger, store, pending, run
    <2>5. QED
      BY <2>1, <2>2, <2>3, <2>4
  <1>4. ASSUME NEW d \in Decisions, Deny(d) PROVE Goal
    <2>1. StagesAgree'
      BY <1>4 DEF StagesAgree, PendingIsOwed, CreditedIsPast, OutcomeOnce, Early, Held, TypeOK, Deny, Served, Fails, Goes, Remember, ledger, store, pending, run
    <2>2. PendingIsOwed'
      BY <1>4 DEF StagesAgree, PendingIsOwed, CreditedIsPast, OutcomeOnce, Early, Held, TypeOK, Deny, Served, Fails, Goes, Remember, ledger, store, pending, run
    <2>3. CreditedIsPast'
      BY <1>4 DEF StagesAgree, PendingIsOwed, CreditedIsPast, OutcomeOnce, Early, Held, TypeOK, Deny, Served, Fails, Goes, Remember, ledger, store, pending, run
    <2>4. OutcomeOnce'
      BY <1>4 DEF StagesAgree, PendingIsOwed, CreditedIsPast, OutcomeOnce, Early, Held, TypeOK, Deny, Served, Fails, Goes, Remember, ledger, store, pending, run
    <2>5. QED
      BY <2>1, <2>2, <2>3, <2>4
  <1>5. ASSUME NEW d \in Decisions, SaveAdmission(d) PROVE Goal
    <2>1. StagesAgree'
      BY <1>5 DEF StagesAgree, PendingIsOwed, CreditedIsPast, OutcomeOnce, Early, Held, TypeOK, SaveAdmission, Served, Fails, Goes, Remember, ledger, store, pending, run
    <2>2. PendingIsOwed'
      BY <1>5 DEF StagesAgree, PendingIsOwed, CreditedIsPast, OutcomeOnce, Early, Held, TypeOK, SaveAdmission, Served, Fails, Goes, Remember, ledger, store, pending, run
    <2>3. CreditedIsPast'
      BY <1>5 DEF StagesAgree, PendingIsOwed, CreditedIsPast, OutcomeOnce, Early, Held, TypeOK, SaveAdmission, Served, Fails, Goes, Remember, ledger, store, pending, run
    <2>4. OutcomeOnce'
      BY <1>5 DEF StagesAgree, PendingIsOwed, CreditedIsPast, OutcomeOnce, Early, Held, TypeOK, SaveAdmission, Served, Fails, Goes, Remember, ledger, store, pending, run
    <2>5. QED
      BY <2>1, <2>2, <2>3, <2>4
  <1>6. ASSUME NEW d \in Decisions, ReleaseExperiment(d) PROVE Goal
    <2>1. StagesAgree'
      BY <1>6 DEF StagesAgree, PendingIsOwed, CreditedIsPast, OutcomeOnce, Early, Held, TypeOK, ReleaseExperiment, Served, Fails, Goes, Remember, ledger, store, pending, run
    <2>2. PendingIsOwed'
      BY <1>6 DEF StagesAgree, PendingIsOwed, CreditedIsPast, OutcomeOnce, Early, Held, TypeOK, ReleaseExperiment, Served, Fails, Goes, Remember, ledger, store, pending, run
    <2>3. CreditedIsPast'
      BY <1>6 DEF StagesAgree, PendingIsOwed, CreditedIsPast, OutcomeOnce, Early, Held, TypeOK, ReleaseExperiment, Served, Fails, Goes, Remember, ledger, store, pending, run
    <2>4. OutcomeOnce'
      BY <1>6 DEF StagesAgree, PendingIsOwed, CreditedIsPast, OutcomeOnce, Early, Held, TypeOK, ReleaseExperiment, Served, Fails, Goes, Remember, ledger, store, pending, run
    <2>5. QED
      BY <2>1, <2>2, <2>3, <2>4
  <1>7. ASSUME NEW d \in Decisions, Admit(d) PROVE Goal
    <2>1. StagesAgree'
      BY <1>7 DEF StagesAgree, PendingIsOwed, CreditedIsPast, OutcomeOnce, Early, Held, TypeOK, Admit, Served, Fails, Goes, Remember, ledger, store, pending, run
    <2>2. PendingIsOwed'
      BY <1>7 DEF StagesAgree, PendingIsOwed, CreditedIsPast, OutcomeOnce, Early, Held, TypeOK, Admit, Served, Fails, Goes, Remember, ledger, store, pending, run
    <2>3. CreditedIsPast'
      BY <1>7 DEF StagesAgree, PendingIsOwed, CreditedIsPast, OutcomeOnce, Early, Held, TypeOK, Admit, Served, Fails, Goes, Remember, ledger, store, pending, run
    <2>4. OutcomeOnce'
      BY <1>7 DEF StagesAgree, PendingIsOwed, CreditedIsPast, OutcomeOnce, Early, Held, TypeOK, Admit, Served, Fails, Goes, Remember, ledger, store, pending, run
    <2>5. QED
      BY <2>1, <2>2, <2>3, <2>4
  <1>8. ASSUME NEW d \in Decisions, Apply(d) PROVE Goal
    <2>1. StagesAgree'
      BY <1>8 DEF StagesAgree, PendingIsOwed, CreditedIsPast, OutcomeOnce, Early, Held, TypeOK, Apply, Served, Fails, Goes, Remember, ledger, store, pending, run
    <2>2. PendingIsOwed'
      BY <1>8 DEF StagesAgree, PendingIsOwed, CreditedIsPast, OutcomeOnce, Early, Held, TypeOK, Apply, Served, Fails, Goes, Remember, ledger, store, pending, run
    <2>3. CreditedIsPast'
      BY <1>8 DEF StagesAgree, PendingIsOwed, CreditedIsPast, OutcomeOnce, Early, Held, TypeOK, Apply, Served, Fails, Goes, Remember, ledger, store, pending, run
    <2>4. OutcomeOnce'
      BY <1>8 DEF StagesAgree, PendingIsOwed, CreditedIsPast, OutcomeOnce, Early, Held, TypeOK, Apply, Served, Fails, Goes, Remember, ledger, store, pending, run
    <2>5. QED
      BY <2>1, <2>2, <2>3, <2>4
  <1>9. ASSUME NEW d \in Decisions, Execute(d) PROVE Goal
    <2>1. StagesAgree'
      BY <1>9 DEF StagesAgree, PendingIsOwed, CreditedIsPast, OutcomeOnce, Early, Held, TypeOK, Execute, Served, Fails, Goes, Remember, ledger, store, pending, run
    <2>2. PendingIsOwed'
      BY <1>9 DEF StagesAgree, PendingIsOwed, CreditedIsPast, OutcomeOnce, Early, Held, TypeOK, Execute, Served, Fails, Goes, Remember, ledger, store, pending, run
    <2>3. CreditedIsPast'
      BY <1>9 DEF StagesAgree, PendingIsOwed, CreditedIsPast, OutcomeOnce, Early, Held, TypeOK, Execute, Served, Fails, Goes, Remember, ledger, store, pending, run
    <2>4. OutcomeOnce'
      BY <1>9 DEF StagesAgree, PendingIsOwed, CreditedIsPast, OutcomeOnce, Early, Held, TypeOK, Execute, Served, Fails, Goes, Remember, ledger, store, pending, run
    <2>5. QED
      BY <2>1, <2>2, <2>3, <2>4
  <1>10. ASSUME NEW d \in Decisions, ObserveExecution(d) PROVE Goal
    <2>1. StagesAgree'
      BY <1>10 DEF StagesAgree, PendingIsOwed, CreditedIsPast, OutcomeOnce, Early, Held, TypeOK, ObserveExecution, Served, Fails, Goes, Remember, ledger, store, pending, run, TakePending
    <2>2. PendingIsOwed'
      BY <1>10 DEF StagesAgree, PendingIsOwed, CreditedIsPast, OutcomeOnce, Early, Held, TypeOK, ObserveExecution, Served, Fails, Goes, Remember, ledger, store, pending, run, TakePending
    <2>3. CreditedIsPast'
      BY <1>10 DEF StagesAgree, PendingIsOwed, CreditedIsPast, OutcomeOnce, Early, Held, TypeOK, ObserveExecution, Served, Fails, Goes, Remember, ledger, store, pending, run, TakePending
    <2>4. OutcomeOnce'
      BY <1>10 DEF StagesAgree, PendingIsOwed, CreditedIsPast, OutcomeOnce, Early, Held, TypeOK, ObserveExecution, Served, Fails, Goes, Remember, ledger, store, pending, run, TakePending
    <2>5. QED
      BY <2>1, <2>2, <2>3, <2>4
  <1>11. ASSUME NEW d \in Decisions, ConsumeExperiment(d) PROVE Goal
    <2>1. StagesAgree'
      BY <1>11 DEF StagesAgree, PendingIsOwed, CreditedIsPast, OutcomeOnce, Early, Held, TypeOK, ConsumeExperiment, Served, Fails, Goes, Remember, ledger, store, pending, run
    <2>2. PendingIsOwed'
      BY <1>11 DEF StagesAgree, PendingIsOwed, CreditedIsPast, OutcomeOnce, Early, Held, TypeOK, ConsumeExperiment, Served, Fails, Goes, Remember, ledger, store, pending, run
    <2>3. CreditedIsPast'
      BY <1>11 DEF StagesAgree, PendingIsOwed, CreditedIsPast, OutcomeOnce, Early, Held, TypeOK, ConsumeExperiment, Served, Fails, Goes, Remember, ledger, store, pending, run
    <2>4. OutcomeOnce'
      BY <1>11 DEF StagesAgree, PendingIsOwed, CreditedIsPast, OutcomeOnce, Early, Held, TypeOK, ConsumeExperiment, Served, Fails, Goes, Remember, ledger, store, pending, run
    <2>5. QED
      BY <2>1, <2>2, <2>3, <2>4
  <1>12. ASSUME NEW d \in Decisions, RecordChallengerExecutionOutcome(d) PROVE Goal
    <2>1. StagesAgree'
      BY <1>12 DEF StagesAgree, PendingIsOwed, CreditedIsPast, OutcomeOnce, Early, Held, TypeOK, RecordChallengerExecutionOutcome, Served, Fails, Goes, Remember, ledger, store, pending, run
    <2>2. PendingIsOwed'
      BY <1>12 DEF StagesAgree, PendingIsOwed, CreditedIsPast, OutcomeOnce, Early, Held, TypeOK, RecordChallengerExecutionOutcome, Served, Fails, Goes, Remember, ledger, store, pending, run
    <2>3. CreditedIsPast'
      BY <1>12 DEF StagesAgree, PendingIsOwed, CreditedIsPast, OutcomeOnce, Early, Held, TypeOK, RecordChallengerExecutionOutcome, Served, Fails, Goes, Remember, ledger, store, pending, run
    <2>4. OutcomeOnce'
      BY <1>12 DEF StagesAgree, PendingIsOwed, CreditedIsPast, OutcomeOnce, Early, Held, TypeOK, RecordChallengerExecutionOutcome, Served, Fails, Goes, Remember, ledger, store, pending, run
    <2>5. QED
      BY <2>1, <2>2, <2>3, <2>4
  <1>13. ASSUME NEW d \in Decisions, EndContext(d) PROVE Goal
    <2>1. StagesAgree'
      BY <1>13 DEF StagesAgree, PendingIsOwed, CreditedIsPast, OutcomeOnce, Early, Held, TypeOK, EndContext, Served, Fails, Goes, Remember, ledger, store, pending, run
    <2>2. PendingIsOwed'
      BY <1>13 DEF StagesAgree, PendingIsOwed, CreditedIsPast, OutcomeOnce, Early, Held, TypeOK, EndContext, Served, Fails, Goes, Remember, ledger, store, pending, run
    <2>3. CreditedIsPast'
      BY <1>13 DEF StagesAgree, PendingIsOwed, CreditedIsPast, OutcomeOnce, Early, Held, TypeOK, EndContext, Served, Fails, Goes, Remember, ledger, store, pending, run
    <2>4. OutcomeOnce'
      BY <1>13 DEF StagesAgree, PendingIsOwed, CreditedIsPast, OutcomeOnce, Early, Held, TypeOK, EndContext, Served, Fails, Goes, Remember, ledger, store, pending, run
    <2>5. QED
      BY <2>1, <2>2, <2>3, <2>4
  <1>14. ASSUME NEW t \in Tasks, Retry(t) PROVE Goal
    BY <1>14 DEF StagesAgree, PendingIsOwed, CreditedIsPast, OutcomeOnce, Early, Held, TypeOK, Retry, ledger, store, pending, run
  <1>15. ASSUME Kill PROVE Goal
    BY <1>15 DEF StagesAgree, PendingIsOwed, CreditedIsPast, OutcomeOnce, Early, Held, TypeOK, Kill, ledger, store, pending, run
  <1>16. ASSUME UNCHANGED vars PROVE Goal
    BY <1>16 DEF StagesAgree, PendingIsOwed, CreditedIsPast, OutcomeOnce, Early, Held, TypeOK, vars, ledger, store, pending, run
  <1> HIDE DEF Goal
  <1>17. QED
    BY <1>1, <1>2, <1>3, <1>4, <1>5, <1>6, <1>7, <1>8, <1>9, <1>10, <1>11, <1>12, <1>13, <1>14, <1>15, <1>16 DEF Next, Step

(* Admissions are settled once, each by an execution of its own task.      *)
THEOREM SettledOnce == Spec => []OutcomeOnce
  <1>1. Init => IInv
    BY TypeInit, AdmissionsInit DEF IInv
  <1>2. IInv /\ [Next]_vars => IInv'
    BY TypeStep, AdmissionsStep DEF IInv
  <1>3. IInv => OutcomeOnce
    BY DEF IInv
  <1>4. QED
    BY <1>1, <1>2, <1>3, PTL DEF Spec

-----------------------------------------------------------------------------
(* The ledger.                                                             *)

(* What a reservation that changes does to the numbers of reservations.    *)
LEMMA RowMoves ==
  ASSUME row \in [Decisions -> {"none", "reserved", "released", "consumed"}],
         NEW d \in Decisions,
         NEW k \in {"reserved", "released", "consumed"}, row[d] # k,
         row' = [row EXCEPT ![d] = k],
         NEW q \in {"reserved", "released", "consumed"}
  PROVE  /\ Cardinality(InRow(q)) \in Nat
         /\ Cardinality(InRow(q))' = Cardinality(InRow(q))
              + (IF q = k THEN 1 ELSE 0) - (IF q = row[d] THEN 1 ELSE 0)
         /\ q = row[d] => Cardinality(InRow(q)) > 0
  <1>1. IsFiniteSet(InRow(q))
    BY ExperimentsAssumption, FS_Subset DEF InRow
  <1>2. Cardinality(InRow(q)) \in Nat
    BY <1>1, FS_CardinalityType
  <1>3. CASE q = k
    <2>1. InRow(q)' = InRow(q) \cup {d} /\ d \notin InRow(q)
      BY <1>3 DEF InRow
    <2>2. QED
      BY <1>1, <1>2, <1>3, <2>1, FS_AddElement
  <1>4. CASE q # k /\ q = row[d]
    <2>1. InRow(q)' = InRow(q) \ {d} /\ d \in InRow(q)
      BY <1>4 DEF InRow
    <2>2. Cardinality(InRow(q)) # 0
      BY <1>1, <2>1, FS_EmptySet
    <2>3. QED
      BY <1>1, <1>2, <1>4, <2>1, <2>2, FS_RemoveElement
  <1>5. CASE q # k /\ q # row[d]
    <2>1. InRow(q)' = InRow(q)
      BY <1>5 DEF InRow
    <2>2. QED
      BY <1>2, <1>5, <2>1
  <1>6. QED
    BY <1>3, <1>4, <1>5

(* A reservation that is settled leaves the ledger balanced.               *)
LEMMA SettlingBalances ==
  ASSUME TypeOK, LedgerHolds,
         NEW c \in Decisions, row[c] = "reserved",
         NEW kind \in {"released", "consumed"},
         row' = [row EXCEPT ![c] = kind], exp' = Settled(kind)
  PROVE  LedgerHolds'
  <1>1. exp \in ExpType
    BY DEF TypeOK, ExpType
  <1>2. /\ exp'.reserved = exp.reserved - 1 /\ exp.reserved > 0
        /\ exp'.released = exp.released + (IF kind = "released" THEN 1 ELSE 0)
        /\ exp'.consumed = exp.consumed + (IF kind = "consumed" THEN 1 ELSE 0)
    <2>1. exp.reserved > 0
      BY RowMoves DEF TypeOK, LedgerHolds
    <2>2. QED
      BY <1>1, <2>1, SettledFacts DEF Dropped, ExpType
  <1>3. \A q \in {"reserved", "released", "consumed"} :
          Cardinality(InRow(q))' = Cardinality(InRow(q))
              + (IF q = kind THEN 1 ELSE 0) - (IF q = "reserved" THEN 1 ELSE 0)
    BY RowMoves DEF TypeOK
  <1>4. exp.reserved \in Nat /\ exp.consumed \in Nat /\ exp.released \in Nat
    BY <1>1 DEF ExpType
  <1>5. /\ exp'.reserved = Cardinality(InRow("reserved"))'
        /\ exp'.consumed = Cardinality(InRow("consumed"))'
        /\ exp'.released = Cardinality(InRow("released"))'
    BY <1>2, <1>3, <1>4 DEF LedgerHolds
  <1>6. /\ MaxExecutions > 0 => exp'.consumed + exp'.reserved <= MaxExecutions
        /\ MaxConcurrent > 0 => exp'.reserved <= MaxConcurrent
    BY <1>2, <1>4, ExperimentsAssumption DEF LedgerHolds
  <1>7. QED
    BY <1>5, <1>6 DEF LedgerHolds

LEMMA LedgerInit == Init => LedgerHolds
  <1> SUFFICES ASSUME Init PROVE LedgerHolds
    OBVIOUS
  <1>1. \A q \in {"reserved", "released", "consumed"} : InRow(q) = {}
    BY DEF Init, InRow
  <1>2. QED
    BY <1>1, FS_EmptySet, ExperimentsAssumption DEF Init, LedgerHolds

LEMMA LedgerStep == IInv /\ LedgerHolds /\ [Next]_vars => LedgerHolds'
  <1> SUFFICES ASSUME IInv, LedgerHolds, [Next]_vars PROVE LedgerHolds'
    OBVIOUS
  <1> DEFINE Still == /\ row' = row /\ exp'.reserved = exp.reserved
                      /\ exp'.consumed = exp.consumed /\ exp'.released = exp.released
  <1>1. TypeOK /\ StagesAgree /\ exp \in ExpType
    BY DEF IInv, TypeOK, ExpType
  <1>2. ASSUME Still PROVE LedgerHolds'
    <2>1. \A q \in {"reserved", "released", "consumed"} : InRow(q)' = InRow(q)
      BY <1>2 DEF InRow
    <2>2. QED
      BY <1>2, <2>1 DEF LedgerHolds
  <1>3. ASSUME NEW d \in Decisions, ReserveExperiment(d) PROVE LedgerHolds'
    <2>1. CASE UNCHANGED ledger
      BY <1>2, <2>1 DEF ledger
    <2>2. CASE ~UNCHANGED ledger
      <3>1. /\ row[d] = "none" /\ ~Full
            /\ row' = [row EXCEPT ![d] = "reserved"]
            /\ exp' = [exp EXCEPT !.reserved = @ + 1]
        BY <1>1, <1>3, <2>2 DEF ReserveExperiment, Refused, StagesAgree, Early
      <3>2. /\ exp'.reserved = exp.reserved + 1 /\ exp'.consumed = exp.consumed
            /\ exp'.released = exp.released
            /\ exp.reserved \in Nat /\ exp.consumed \in Nat
        BY <1>1, <3>1 DEF ExpType
      <3>3. \A q \in {"reserved", "released", "consumed"} :
              Cardinality(InRow(q))' = Cardinality(InRow(q)) + (IF q = "reserved" THEN 1 ELSE 0)
        <4>1. ASSUME NEW q \in {"reserved", "released", "consumed"}
              PROVE  /\ Cardinality(InRow(q)) \in Nat
                     /\ Cardinality(InRow(q))' = Cardinality(InRow(q))
                          + (IF q = "reserved" THEN 1 ELSE 0) - (IF q = row[d] THEN 1 ELSE 0)
          BY <1>1, <3>1, RowMoves DEF TypeOK
        <4>2. \A q \in {"reserved", "released", "consumed"} : q # row[d]
          BY <3>1
        <4>3. QED
          BY <4>1, <4>2
      <3>4. /\ exp'.reserved = Cardinality(InRow("reserved"))'
            /\ exp'.consumed = Cardinality(InRow("consumed"))'
            /\ exp'.released = Cardinality(InRow("released"))'
        BY <1>1, <3>2, <3>3 DEF LedgerHolds, ExpType
      <3>5. /\ MaxExecutions > 0 => exp'.consumed + exp'.reserved <= MaxExecutions
            /\ MaxConcurrent > 0 => exp'.reserved <= MaxConcurrent
        BY <3>1, <3>2, ExperimentsAssumption DEF Full
      <3>6. QED
        BY <3>4, <3>5 DEF LedgerHolds
    <2>3. QED
      BY <2>1, <2>2
  <1>4. ASSUME NEW d \in Decisions, ReleaseExperiment(d) PROVE LedgerHolds'
    <2>1. CASE UNCHANGED ledger
      BY <1>2, <2>1 DEF ledger
    <2>2. CASE ~UNCHANGED ledger
      BY <1>1, <1>4, <2>2, SettlingBalances DEF ReleaseExperiment
    <2>3. QED
      BY <2>1, <2>2
  <1>5. ASSUME NEW d \in Decisions, ConsumeExperiment(d) PROVE LedgerHolds'
    <2>1. CASE UNCHANGED ledger
      BY <1>2, <2>1 DEF ledger
    <2>2. CASE ~UNCHANGED ledger
      <3>1. PICK c \in Decisions : credited[d] = c
        BY <1>1, <1>5 DEF TypeOK, StagesAgree, ConsumeExperiment
      <3>2. row[c] = "reserved" /\ row' = [row EXCEPT ![c] = "consumed"] /\ exp' = Settled("consumed")
        BY <1>5, <2>2, <3>1 DEF ConsumeExperiment
      <3>3. QED
        BY <1>1, <3>2, SettlingBalances
    <2>3. QED
      BY <2>1, <2>2
  <1>6. ASSUME NEW d \in Decisions, Admit(d) PROVE LedgerHolds'
    BY <1>1, <1>2, <1>6 DEF Admit, ExpType
  <1>7. ASSUME NEW d \in Decisions, RecordChallengerExecutionOutcome(d) PROVE LedgerHolds'
    <2>1. row' = row
      BY <1>7 DEF RecordChallengerExecutionOutcome
    <2>2. QED
      BY <1>1, <1>2, <1>7, <2>1, RecordedFacts
  <1>8. ASSUME Kill PROVE LedgerHolds'
    BY <1>1, <1>2, <1>8 DEF Kill, ExpType
  <1>9. ASSUME NEW d \in Decisions,
               \/ ObserveRoutingDecision(d) \/ Gate(d) \/ Deny(d) \/ SaveAdmission(d)
               \/ Apply(d) \/ Execute(d) \/ ObserveExecution(d) \/ EndContext(d)
        PROVE  UNCHANGED ledger
    BY <1>9 DEF ObserveRoutingDecision, Gate, Deny, SaveAdmission, Apply, Execute,
                ObserveExecution, EndContext
  <1>10. ASSUME NEW t \in Tasks, Retry(t) PROVE UNCHANGED ledger
    BY <1>10 DEF Retry
  <1>11. UNCHANGED ledger => LedgerHolds'
    BY <1>2 DEF ledger
  <1>12. UNCHANGED vars => UNCHANGED ledger
    BY DEF vars
  <1>13. QED
    BY <1>3, <1>4, <1>5, <1>6, <1>7, <1>8, <1>9, <1>10, <1>11, <1>12 DEF Next, Step

(* The counters are what the reservations say, and within both limits.     *)
THEOREM LedgerBalances == Spec => []LedgerHolds
  <1>1. Init => IInv /\ LedgerHolds
    BY TypeInit, AdmissionsInit, LedgerInit DEF IInv
  <1>2. IInv /\ LedgerHolds /\ [Next]_vars => (IInv /\ LedgerHolds)'
    BY TypeStep, AdmissionsStep, LedgerStep DEF IInv
  <1>3. QED
    BY <1>1, <1>2, PTL DEF Spec

-----------------------------------------------------------------------------
(* The stop.                                                               *)

LEMMA StopStep == TypeOK /\ StopSaysSo /\ [Next]_vars => StopSaysSo'
  <1> SUFFICES ASSUME TypeOK, StopSaysSo, [Next]_vars PROVE StopSaysSo'
    OBVIOUS
  <1>1. exp \in ExpType
    BY DEF TypeOK, ExpType
  <1>2. ASSUME NEW d \in Decisions, RecordChallengerExecutionOutcome(d) PROVE StopSaysSo'
    BY <1>1, <1>2, RecordedFacts
  <1>3. ASSUME NEW d \in Decisions, ReserveExperiment(d) PROVE StopSaysSo'
    BY <1>1, <1>3 DEF ReserveExperiment, ledger, StopSaysSo, ExpType
  <1>4. ASSUME NEW d \in Decisions, ReleaseExperiment(d) \/ ConsumeExperiment(d)
        PROVE  StopSaysSo'
    BY <1>1, <1>4, SettledFacts DEF ReleaseExperiment, ConsumeExperiment, ledger, StopSaysSo
  <1>5. ASSUME NEW d \in Decisions, Admit(d) PROVE StopSaysSo'
    BY <1>1, <1>5 DEF Admit, StopSaysSo, ExpType
  <1>6. ASSUME Kill PROVE StopSaysSo'
    BY <1>1, <1>6 DEF Kill, StopSaysSo, ExpType
  <1>7. ASSUME NEW d \in Decisions,
               \/ ObserveRoutingDecision(d) \/ Gate(d) \/ Deny(d) \/ SaveAdmission(d)
               \/ Apply(d) \/ Execute(d) \/ ObserveExecution(d) \/ EndContext(d)
        PROVE  exp' = exp
    BY <1>7 DEF ObserveRoutingDecision, Gate, Deny, SaveAdmission, Apply, Execute,
                ObserveExecution, EndContext, ledger
  <1>8. ASSUME NEW t \in Tasks, Retry(t) PROVE exp' = exp
    BY <1>8 DEF Retry, ledger
  <1>9. UNCHANGED vars => exp' = exp
    BY DEF vars, ledger
  <1>10. exp' = exp => StopSaysSo'
    BY DEF StopSaysSo
  <1>11. QED
    BY <1>2, <1>3, <1>4, <1>5, <1>6, <1>7, <1>8, <1>9, <1>10 DEF Next, Step

(* Nothing is reserved once the failures are at their limit, or after the  *)
(* operator's kill.                                                        *)
THEOREM StoppedReservesNothing == Spec => StopIsFinal
  <1> DEFINE Reserves == \A d \in Decisions : row[d] = "none" /\ row'[d] = "reserved" =>
               /\ exp.state = "enabled"
               /\ MaxFailures > 0 => exp.failures < MaxFailures
  <1>1. Init => TypeOK /\ StopSaysSo
    BY TypeInit DEF Init, StopSaysSo
  <1>2. TypeOK /\ StopSaysSo /\ [Next]_vars => (TypeOK /\ StopSaysSo)'
    BY TypeStep, StopStep
  <1>3. TypeOK /\ StopSaysSo /\ [Next]_vars => [Reserves]_vars
    <2> SUFFICES ASSUME TypeOK, StopSaysSo, [Next]_vars,
                        NEW d \in Decisions, row[d] = "none", row'[d] = "reserved"
                 PROVE  exp.state = "enabled"
      BY DEF StopSaysSo
    <2>1. ASSUME NEW e \in Decisions, ReserveExperiment(e) PROVE exp.state = "enabled"
      BY <2>1 DEF ReserveExperiment, Refused, ledger
    <2>2. ASSUME NEW e \in Decisions, ReleaseExperiment(e) \/ ConsumeExperiment(e) PROVE FALSE
      BY <2>2 DEF ReleaseExperiment, ConsumeExperiment, ledger, TypeOK
    <2>3. ASSUME NEW e \in Decisions,
                 \/ ObserveRoutingDecision(e) \/ Gate(e) \/ Deny(e) \/ SaveAdmission(e)
                 \/ Apply(e) \/ Execute(e) \/ ObserveExecution(e) \/ EndContext(e)
                 \/ Admit(e) \/ RecordChallengerExecutionOutcome(e)
          PROVE  FALSE
      BY <2>3 DEF ObserveRoutingDecision, Gate, Deny, SaveAdmission, Apply, Execute,
                  ObserveExecution, EndContext, Admit, RecordChallengerExecutionOutcome, ledger
    <2>4. ASSUME NEW t \in Tasks, Retry(t) PROVE FALSE
      BY <2>4 DEF Retry, ledger
    <2>5. ASSUME Kill PROVE FALSE
      BY <2>5 DEF Kill
    <2>6. ~UNCHANGED vars
      BY DEF vars, ledger
    <2>7. QED
      BY <2>1, <2>2, <2>3, <2>4, <2>5, <2>6 DEF Next, Step
  <1>4. QED
    BY <1>1, <1>2, <1>3, PTL DEF Spec, StopIsFinal
=============================================================================
