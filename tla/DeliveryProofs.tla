----------------------------- MODULE DeliveryProofs -----------------------------
(***************************************************************************)
(* Proofs about Delivery, for any processes, deliveries and limits: a      *)
(* delivery whose invocation failed is kept in the outbox or among the     *)
(* dead letters until its participant has answered it, is in both only     *)
(* while it is buried or after a crash, and pays for no quota wait.        *)
(***************************************************************************)
EXTENDS Delivery, FiniteSetTheorems, TLAPS

LEMMA FailedType ==
  ASSUME NEW h \in Health
  PROVE  Failed(h) \in Health
  <1> DEFINE n == IF h.fails < Threshold THEN h.fails + 1 ELSE Threshold
  <1>1. n \in 0..Threshold
    BY DeliveryAssumption DEF Health
  <1>2. ((n >= Threshold) \/ h.open) \in BOOLEAN
    BY <1>1, DeliveryAssumption DEF Health
  <1>3. Failed(h) = [h EXCEPT !.fails = n, !.open = (n >= Threshold) \/ h.open]
    BY DEF Failed
  <1> HIDE DEF n
  <1>4. QED
    BY <1>1, <1>2, <1>3 DEF Health

LEMMA AfterType ==
  ASSUME NEW h \in Health, NEW result \in Returned, NEW g \in After(h, result)
  PROVE  g \in Health
  <1>1. CASE result = "ok"
    <2>1. 0 \in 0..Threshold
      BY DeliveryAssumption
    <2>2. g = [h EXCEPT !.fails = 0, !.open = FALSE]
      BY <1>1 DEF After
    <2>3. QED
      BY <2>1, <2>2 DEF Health
  <1>2. CASE result = "quota"
    <2>1. PICK w \in {h.wait, TRUE} : g = [Failed(h) EXCEPT !.open = h.open, !.wait = w]
      BY <1>2 DEF After
    <2>2. Failed(h) \in Health /\ h.open \in BOOLEAN /\ w \in BOOLEAN
      BY <2>1, FailedType DEF Health
    <2>3. QED
      BY <2>1, <2>2 DEF Health
  <1>3. CASE result \notin {"ok", "quota"}
    BY <1>3, FailedType DEF After
  <1>4. QED
    BY <1>1, <1>2, <1>3

(* The harness returns: the history, the agents' health and the count of quota errors. *)
LEMMA ReturnType ==
  ASSUME TypeOK, NEW p \in Procs, NEW d \in Deliveries, NEW result \in Returned, Return(p, d, result)
  PROVE  /\ memory' \in [Procs -> [Agents -> Health]]
         /\ stored' \in [Agents -> Health]
         /\ heard' \in [Deliveries -> {"nothing", "error", "answer"}]
         /\ quotas' \in 0..MaxQuotas
  <1>1. AgentOf[d] \in Agents /\ memory[p][AgentOf[d]] \in Health
    BY DeliveryAssumption DEF TypeOK
  <1>2. PICK h \in After(memory[p][AgentOf[d]], result) :
          /\ memory' = [memory EXCEPT ![p][AgentOf[d]] = h]
          /\ stored' = [stored EXCEPT ![AgentOf[d]] = h]
    BY DEF Return
  <1>3. h \in Health
    BY <1>1, <1>2, AfterType
  <1>4. memory' \in [Procs -> [Agents -> Health]] /\ stored' \in [Agents -> Health]
    BY <1>1, <1>2, <1>3 DEF TypeOK
  <1>5. heard' \in [Deliveries -> {"nothing", "error", "answer"}]
    BY DEF Return, TypeOK
  <1>6. quotas' \in 0..MaxQuotas
    BY DeliveryAssumption DEF Return, TypeOK
  <1>7. QED
    BY <1>4, <1>5, <1>6

(* A dispatch or a retry that is under way moves to another place. *)
LEMMA MoveDispatch ==
  ASSUME TypeOK, NEW d \in Deliveries, disp[d] # None,
         NEW to \in Results \cup {"start", "running", "queued", "queued, quota"}
  PROVE  /\ [disp EXCEPT ![d].at = to] \in [Deliveries -> Dispatched \cup {None}]
         /\ disp[d].proc \in Procs
  <1>1. disp[d] \in Dispatched
    BY DEF TypeOK
  <1>2. [disp[d] EXCEPT !.at = to] \in Dispatched /\ disp[d].proc \in Procs
    BY <1>1 DEF Dispatched
  <1>3. QED
    BY <1>2 DEF TypeOK

LEMMA MoveWork ==
  ASSUME TypeOK, NEW p \in Procs, work[p] # None, NEW to \in Results \cup {"running", "delete"}
  PROVE  /\ [work EXCEPT ![p].at = to] \in [Procs -> Work \cup {None}]
         /\ work[p].d \in Deliveries
  <1>1. work[p] \in Work
    BY DEF TypeOK
  <1>2. [work[p] EXCEPT !.at = to] \in Work /\ work[p].d \in Deliveries
    BY <1>1 DEF Work
  <1>3. QED
    BY <1>2 DEF TypeOK

(* The outbox after a row was rescheduled or its attempt given back. *)
LEMMA OutboxType ==
  ASSUME TypeOK, NEW d \in Deliveries
  PROVE  /\ outbox[d] # None => /\ outbox[d].attempt \in Nat
                               /\ outbox[d].due \in BOOLEAN
                               /\ [outbox[d] EXCEPT !.due = FALSE] \in OutboxRow
                               /\ [outbox[d] EXCEPT !.due = TRUE] \in OutboxRow
         /\ DeferRetry(d) => outbox' \in [Deliveries -> OutboxRow \cup {None}]
  <1>1. outbox[d] # None => outbox[d] \in OutboxRow
    BY DEF TypeOK
  <1>2. outbox[d] # None => outbox[d].attempt \in Nat /\ outbox[d].due \in BOOLEAN
    BY <1>1 DEF OutboxRow
  <1>3. outbox[d] # None => /\ [outbox[d] EXCEPT !.due = FALSE] \in OutboxRow
                           /\ [outbox[d] EXCEPT !.due = TRUE] \in OutboxRow
    BY <1>1 DEF OutboxRow
  <1>4. ASSUME DeferRetry(d) PROVE outbox' \in [Deliveries -> OutboxRow \cup {None}]
    <2> DEFINE n == IF outbox[d].attempt > 0 THEN outbox[d].attempt - 1 ELSE 0
    <2>1. outbox[d] # None => n \in Nat
      BY <1>2
    <2>2. outbox' = [outbox EXCEPT ![d] = IF outbox[d] = None THEN None ELSE [attempt |-> n, due |-> FALSE]]
      BY <1>4 DEF DeferRetry, TypeOK
    <2>3. outbox[d] # None => [attempt |-> n, due |-> FALSE] \in OutboxRow
      <3> HIDE DEF n
      <3>1. QED
        BY <2>1 DEF OutboxRow
    <2> HIDE DEF n
    <2>4. QED
      BY <2>2, <2>3 DEF TypeOK
  <1>5. QED
    BY <1>2, <1>3, <1>4

(* A retry is claimed: the row's attempt is counted, in the batch too. *)
LEMMA ClaimFacts ==
  ASSUME TypeOK, NEW p \in Procs, ClaimRetries(p)
  PROVE  \E S \in SUBSET Deliveries :
           /\ \A d \in S : outbox[d] # None
           /\ \A d \in S : outbox[d].attempt + 1 \in Nat
           /\ outbox' = [d \in Deliveries |->
                IF d \in S THEN [attempt |-> outbox[d].attempt + 1, due |-> FALSE] ELSE outbox[d]]
           /\ batch' = [batch EXCEPT ![p] = {[d |-> d, attempt |-> outbox[d].attempt + 1] : d \in S}]
  <1>1. PICK S \in SUBSET Due :
           /\ outbox' = [d \in Deliveries |->
                IF d \in S THEN [attempt |-> outbox[d].attempt + 1, due |-> FALSE] ELSE outbox[d]]
           /\ batch' = [batch EXCEPT ![p] = {[d |-> d, attempt |-> outbox[d].attempt + 1] : d \in S}]
    BY DEF ClaimRetries
  <1>2. S \in SUBSET Deliveries /\ \A d \in S : outbox[d] # None
    BY <1>1 DEF Due
  <1>3. \A d \in S : outbox[d].attempt + 1 \in Nat
    <2> TAKE d \in S
    <2>1. d \in Deliveries /\ outbox[d] # None
      BY <1>2
    <2>2. outbox[d].attempt \in Nat
      BY <2>1, OutboxType
    <2>3. QED
      BY <2>2
  <1>4. QED
    BY <1>1, <1>2, <1>3

(* TypeOK is an invariant: what the store, the dispatches and the retry loops *)
(* hold has its type.                                                       *)
THEOREM TypeCorrect == Spec => []TypeOK
  <1>1. Init => TypeOK
    <2>1. Healthy \in Health
      BY DeliveryAssumption DEF Healthy, Health
    <2>2. QED
      BY <2>1, DeliveryAssumption DEF Init, TypeOK
  <1>2. TypeOK /\ [Next]_vars => TypeOK'
    <2> SUFFICES ASSUME TypeOK, [Next]_vars PROVE TypeOK'
      OBVIOUS
    <2> USE DEF rows, health, history
    <2>1. ASSUME NEW d \in Deliveries, DispatchOverBudget(d) PROVE TypeOK'
      BY <2>1 DEF DispatchOverBudget, DispatchAt, TypeOK
    <2>2. ASSUME NEW d \in Deliveries, DispatchInvokes(d) PROVE TypeOK'
      <3>1. PICK to \in Admitted(disp[d].proc, AgentOf[d]) : disp' = [disp EXCEPT ![d].at = to]
        BY <2>2 DEF DispatchInvokes
      <3>2. to \in Results \cup {"running"}
        BY <3>1 DEF Admitted, Results, Returned
      <3>3. disp' \in [Deliveries -> Dispatched \cup {None}]
        BY <2>2, <3>1, <3>2, MoveDispatch DEF DispatchInvokes, DispatchAt
      <3>4. QED
        BY <2>2, <3>3 DEF DispatchInvokes, TypeOK
    <2>3. ASSUME NEW d \in Deliveries, DispatchReturns(d) PROVE TypeOK'
      <3>1. PICK result \in Returned :
              Return(disp[d].proc, d, result) /\ disp' = [disp EXCEPT ![d].at = result]
        BY <2>3 DEF DispatchReturns
      <3>2. disp[d].proc \in Procs /\ disp' \in [Deliveries -> Dispatched \cup {None}]
        BY <2>3, <3>1, MoveDispatch DEF DispatchReturns, DispatchAt, Results
      <3>3. /\ memory' \in [Procs -> [Agents -> Health]] /\ stored' \in [Agents -> Health]
            /\ heard' \in [Deliveries -> {"nothing", "error", "answer"}] /\ quotas' \in 0..MaxQuotas
        BY <3>1, <3>2, ReturnType
      <3>4. QED
        BY <2>3, <3>2, <3>3 DEF DispatchReturns, TypeOK
    <2>4. ASSUME NEW d \in Deliveries, Deliver(d) PROVE TypeOK'
      <3>1. PICK s \in {"delivered", "skipped", "failed"} : status' = [status EXCEPT ![d] = s]
        BY <2>4 DEF Deliver
      <3>2. QED
        BY <2>4, <3>1 DEF Deliver, TypeOK
    <2>5. ASSUME NEW d \in Deliveries, Enqueue(d) PROVE TypeOK'
      <3>1. disp' \in [Deliveries -> Dispatched \cup {None}]
        BY <2>5, MoveDispatch DEF Enqueue, DispatchAt
      <3>2. [attempt |-> 1, due |-> FALSE] \in OutboxRow
        BY DEF OutboxRow
      <3>3. QED
        BY <2>5, <3>1, <3>2 DEF Enqueue, TypeOK
    <2>6. ASSUME NEW d \in Deliveries, NoteFailure(d) PROVE TypeOK'
      BY <2>6 DEF NoteFailure, TypeOK
    <2>7. ASSUME NEW d \in Deliveries, CallerLeaves(d) PROVE TypeOK'
      <3>1. disp[d].proc \in Procs /\ AgentOf[d] \in Agents
        BY <2>7, MoveDispatch, DeliveryAssumption DEF CallerLeaves
      <3>2. memory' \in [Procs -> [Agents -> Health]]
        BY <2>7, <3>1, FailedType DEF CallerLeaves, TypeOK
      <3>3. QED
        BY <2>7, <3>2 DEF CallerLeaves, TypeOK
    <2>8. ASSUME NEW d \in Deliveries, BecomesDue(d) PROVE TypeOK'
      BY <2>8, OutboxType DEF BecomesDue, TypeOK
    <2>9. ASSUME NEW p \in Procs, NEW d \in Deliveries, Skip(p, d) PROVE TypeOK'
      <3>1. PICK s \in {"pending", "skipped"} : status' = [status EXCEPT ![d] = s]
        BY <2>9 DEF Skip
      <3>2. QED
        BY <2>9, <3>1 DEF Skip, TypeOK
    <2>10. ASSUME NEW p \in Procs, NEW d \in Deliveries, Dispatch(p, d) PROVE TypeOK'
      <3>1. [proc |-> p, at |-> "start"] \in Dispatched
        BY DEF Dispatched
      <3>2. QED
        BY <2>10, <3>1 DEF Dispatch, TypeOK
    <2>11. ASSUME NEW p \in Procs, NEW d \in Deliveries, RequeueDeadLetter(p, d) PROVE TypeOK'
      <3>1. [attempt |-> 0, due |-> TRUE] \in OutboxRow
        BY DEF OutboxRow
      <3>2. QED
        BY <2>11, <3>1 DEF RequeueDeadLetter, TypeOK
    <2>12. ASSUME NEW p \in Procs, ClaimRetries(p) PROVE TypeOK'
      <3>1. PICK S \in SUBSET Deliveries :
              /\ \A d \in S : outbox[d].attempt + 1 \in Nat
              /\ outbox' = [d \in Deliveries |->
                   IF d \in S THEN [attempt |-> outbox[d].attempt + 1, due |-> FALSE] ELSE outbox[d]]
              /\ batch' = [batch EXCEPT ![p] = {[d |-> d, attempt |-> outbox[d].attempt + 1] : d \in S}]
        BY <2>12, ClaimFacts
      <3>2. \A d \in S : /\ [attempt |-> outbox[d].attempt + 1, due |-> FALSE] \in OutboxRow
                         /\ [d |-> d, attempt |-> outbox[d].attempt + 1] \in Item
        BY <3>1 DEF OutboxRow, Item
      <3>3. outbox' \in [Deliveries -> OutboxRow \cup {None}]
        BY <3>1, <3>2 DEF TypeOK
      <3>4. batch' \in [Procs -> SUBSET Item]
        BY <3>1, <3>2 DEF TypeOK
      <3>5. QED
        BY <2>12, <3>3, <3>4 DEF ClaimRetries, TypeOK
    <2>13. ASSUME NEW p \in Procs, Start(p) PROVE TypeOK'
      <3>1. PICK i \in batch[p] :
              /\ \E to \in IF p \in Equipped THEN Admitted(p, AgentOf[i.d]) ELSE {"transient"} :
                   work' = [work EXCEPT ![p] = [d |-> i.d, attempt |-> i.attempt, at |-> to]]
              /\ batch' = [batch EXCEPT ![p] = @ \ {i}]
        BY <2>13 DEF Start
      <3>2. PICK to \in Results \cup {"running"} :
              work' = [work EXCEPT ![p] = [d |-> i.d, attempt |-> i.attempt, at |-> to]]
        BY <3>1 DEF Admitted, Results, Returned
      <3>3. [d |-> i.d, attempt |-> i.attempt, at |-> to] \in Work
        <4>1. i \in Item
          BY <3>1 DEF TypeOK
        <4>2. QED
          BY <4>1 DEF Item, Work
      <3>4. QED
        BY <2>13, <3>1, <3>2, <3>3 DEF Start, TypeOK
    <2>14. ASSUME NEW p \in Procs, RetryReturns(p) PROVE TypeOK'
      <3>1. PICK result \in Returned :
              Return(p, work[p].d, result) /\ work' = [work EXCEPT ![p].at = result]
        BY <2>14 DEF RetryReturns
      <3>2. work[p].d \in Deliveries /\ work' \in [Procs -> Work \cup {None}]
        BY <2>14, <3>1, MoveWork DEF RetryReturns, WorkAt, Results
      <3>3. /\ memory' \in [Procs -> [Agents -> Health]] /\ stored' \in [Agents -> Health]
            /\ heard' \in [Deliveries -> {"nothing", "error", "answer"}] /\ quotas' \in 0..MaxQuotas
        BY <3>1, <3>2, ReturnType
      <3>4. QED
        BY <2>14, <3>2, <3>3 DEF RetryReturns, TypeOK
    <2>15. ASSUME NEW p \in Procs, CompleteAnswered(p) PROVE TypeOK'
      BY <2>15, MoveWork DEF CompleteAnswered, WorkAt, TypeOK
    <2>16. ASSUME NEW p \in Procs, CompleteDeferred(p) PROVE TypeOK'
      <3>1. work[p].d \in Deliveries /\ DeferRetry(work[p].d)
        BY <2>16, MoveWork DEF CompleteDeferred, WorkAt
      <3>2. outbox' \in [Deliveries -> OutboxRow \cup {None}]
        BY <3>1, OutboxType
      <3>3. QED
        BY <2>16, <3>2 DEF CompleteDeferred, TypeOK
    <2>17. ASSUME NEW p \in Procs, CompleteForRetry(p) PROVE TypeOK'
      <3>1. work[p].d \in Deliveries
        BY <2>17, MoveWork DEF CompleteForRetry, Worthwhile, WorkAt
      <3>2. outbox' \in [Deliveries -> OutboxRow \cup {None}]
        BY <2>17, <3>1, OutboxType DEF CompleteForRetry, TypeOK
      <3>3. tries' \in [Deliveries -> Nat]
        BY <2>17, <3>1 DEF CompleteForRetry, Counted, TypeOK
      <3>4. QED
        BY <2>17, <3>2, <3>3 DEF CompleteForRetry, TypeOK
    <2>18. ASSUME NEW p \in Procs, CompleteDead(p) PROVE TypeOK'
      <3>1. /\ work[p].d \in Deliveries /\ work[p].at \in Results
            /\ work' \in [Procs -> Work \cup {None}]
        BY <2>18, MoveWork DEF CompleteDead, Buries, WorkAt
      <3>2. dead' \in [Deliveries -> Results \cup {None}]
        BY <2>18, <3>1 DEF CompleteDead, TypeOK
      <3>3. tries' \in [Deliveries -> Nat]
        BY <2>18, <3>1 DEF CompleteDead, Counted, TypeOK
      <3>4. QED
        BY <2>18, <3>1, <3>2, <3>3 DEF CompleteDead, TypeOK
    <2>19. ASSUME NEW p \in Procs, DeleteDead(p) PROVE TypeOK'
      BY <2>19, MoveWork DEF DeleteDead, WorkAt, TypeOK
    <2>20. ASSUME NEW p \in Procs, Restart(p) PROVE TypeOK'
      <3>1. tries' \in [Deliveries -> Nat]
        BY <2>20 DEF Restart, TypeOK
      <3>2. disp' \in [Deliveries -> Dispatched \cup {None}]
        BY <2>20 DEF Restart, TypeOK
      <3>3. memory' \in [Procs -> [Agents -> Health]]
        BY <2>20 DEF Restart, TypeOK
      <3>4. crashes' \in 0..MaxCrashes
        BY <2>20, DeliveryAssumption DEF Restart, TypeOK
      <3>5. QED
        BY <2>20, <3>1, <3>2, <3>3, <3>4 DEF Restart, TypeOK
    <2>21. ASSUME NEW p \in Procs, NEW a \in Agents, BarLifts(p, a) PROVE TypeOK'
      <3>1. \A h \in Health : [h EXCEPT !.open = FALSE] \in Health /\ [h EXCEPT !.wait = FALSE] \in Health
        BY DEF Health
      <3>2. PICK h \in {[memory[p][a] EXCEPT !.open = FALSE], [memory[p][a] EXCEPT !.wait = FALSE]} :
              memory' = [memory EXCEPT ![p][a] = h]
        BY <2>21 DEF BarLifts
      <3>3. memory[p][a] \in Health
        BY DEF TypeOK
      <3>4. h \in Health
        BY <3>1, <3>2, <3>3
      <3>5. memory' \in [Procs -> [Agents -> Health]]
        BY <3>2, <3>4 DEF TypeOK
      <3>6. QED
        BY <2>21, <3>5 DEF BarLifts, TypeOK
    <2>22. CASE Idle \/ UNCHANGED vars
      BY <2>22 DEF Idle, vars, TypeOK
    <2>23. QED
      BY <2>1, <2>2, <2>3, <2>4, <2>5, <2>6, <2>7, <2>8, <2>9, <2>10, <2>11, <2>12, <2>13, <2>14, <2>15, <2>16, <2>17, <2>18, <2>19, <2>20, <2>21, <2>22 DEF Next, Complete
  <1>3. QED
    BY <1>1, <1>2, PTL DEF Spec

-------------------------------------------------------------------------------
(* The inductive invariant of FailedIsKept.  Whatever a dispatch, a retry   *)
(* loop, the outbox or the dead letters hold after a failed invocation was  *)
(* enqueued, an answer was heard where a delivery is taken for answered,    *)
(* and the row about to be deleted has its dead letter.                     *)

Answered(d) == heard[d] = "answer"

DispatchesKnow ==
  \A d \in Deliveries :
    /\ DispatchAt(d, {"queued", "queued, quota"}) => d \in enqueued
    /\ DispatchAt(d, {"ok"}) => Answered(d)
RowsAreEnqueued ==
  /\ \A d \in Deliveries : outbox[d] # None \/ dead[d] # None => d \in enqueued
  /\ \A p \in Procs : \A i \in batch[p] : i.d \in enqueued
  /\ \A p \in Procs : work[p] # None => work[p].d \in enqueued
WorkKnows ==
  \A p \in Procs :
    /\ WorkAt(p, {"ok"}) => Answered(work[p].d)
    /\ WorkAt(p, {"delete"}) => \/ work[p].d \in requeued
                                \/ dead[work[p].d] # None
                                \/ Answered(work[p].d)

IInv == TypeOK /\ FailedIsKept /\ DispatchesKnow /\ RowsAreEnqueued /\ WorkKnows

(* A harness's return takes no answer back, and an answer is heard. *)
LEMMA ReturnHeard ==
  ASSUME TypeOK, NEW p \in Procs, NEW d \in Deliveries, NEW result \in Returned, Return(p, d, result)
  PROVE  /\ \A e \in Deliveries : Answered(e) => Answered(e)'
         /\ result = "ok" => Answered(d)'
  BY DEF Return, Answered, TypeOK

LEMMA InductiveInit == Init => IInv
  <1> SUFFICES ASSUME Init PROVE IInv
    OBVIOUS
  <1>1. Healthy \in Health
    BY DeliveryAssumption DEF Healthy, Health
  <1>2. TypeOK
    BY <1>1, DeliveryAssumption DEF Init, TypeOK
  <1>3. FailedIsKept /\ DispatchesKnow /\ RowsAreEnqueued /\ WorkKnows
    BY DEF Init, FailedIsKept, DispatchesKnow, RowsAreEnqueued, WorkKnows, DispatchAt, WorkAt
  <1>4. QED
    BY <1>2, <1>3 DEF IInv

(* What the moves of a dispatch, of a retry and of a row come down to. *)
LEMMA DispatchMoves ==
  ASSUME TypeOK, NEW d \in Deliveries, disp[d] # None,
         NEW to \in Results \cup {"start", "running", "queued", "queued, quota"},
         disp' = [disp EXCEPT ![d].at = to]
  PROVE  /\ disp'[d].at = to
         /\ \A e \in Deliveries \ {d} : disp'[e] = disp[e]
  <1>1. disp[d] \in Dispatched
    BY DEF TypeOK
  <1>2. disp'[d] = [disp[d] EXCEPT !.at = to] /\ \A e \in Deliveries \ {d} : disp'[e] = disp[e]
    BY DEF TypeOK
  <1>3. QED
    BY <1>1, <1>2 DEF Dispatched

LEMMA WorkMoves ==
  ASSUME TypeOK, NEW p \in Procs, work[p] # None, NEW to \in Results \cup {"running", "delete"},
         work' = [work EXCEPT ![p].at = to]
  PROVE  /\ work'[p] # None /\ work'[p].at = to /\ work'[p].d = work[p].d
         /\ \A q \in Procs \ {p} : work'[q] = work[q]
  <1>1. work[p] \in Work
    BY DEF TypeOK
  <1>2. work'[p] = [work[p] EXCEPT !.at = to] /\ \A q \in Procs \ {p} : work'[q] = work[q]
    BY DEF TypeOK
  <1>3. [work[p] EXCEPT !.at = to] \in Work
    BY <1>1 DEF Work
  <1>4. QED
    BY <1>1, <1>2, <1>3, NoneAssumption DEF Work

LEMMA RowsStay ==
  ASSUME TypeOK, NEW d \in Deliveries,
         \/ BecomesDue(d)
         \/ DeferRetry(d)
         \/ outbox' = [outbox EXCEPT ![d] = IF @ = None THEN None ELSE [@ EXCEPT !.due = FALSE]]
         \/ \E p \in Procs : ClaimRetries(p)
  PROVE  \A e \in Deliveries : outbox'[e] # None <=> outbox[e] # None
  <1>1. CASE BecomesDue(d)
    BY <1>1, OutboxType, NoneAssumption DEF BecomesDue, TypeOK
  <1>2. CASE DeferRetry(d)
    <2> DEFINE n == IF outbox[d].attempt > 0 THEN outbox[d].attempt - 1 ELSE 0
    <2>1. outbox[d] # None => n \in Nat
      <3>1. outbox[d] # None => outbox[d].attempt \in Nat
        BY OutboxType
      <3>2. QED
        BY <3>1
    <2>2. outbox' = [outbox EXCEPT ![d] = IF outbox[d] = None THEN None ELSE [attempt |-> n, due |-> FALSE]]
      BY <1>2 DEF DeferRetry, TypeOK
    <2> HIDE DEF n
    <2>3. outbox[d] # None => [attempt |-> n, due |-> FALSE] # None
      <3>1. outbox[d] # None => [attempt |-> n, due |-> FALSE] \in OutboxRow
        BY <2>1 DEF OutboxRow
      <3>2. QED
        BY <3>1, NoneAssumption
    <2>4. QED
      BY <2>2, <2>3 DEF TypeOK
  <1>3. CASE outbox' = [outbox EXCEPT ![d] = IF @ = None THEN None ELSE [@ EXCEPT !.due = FALSE]]
    BY <1>3, OutboxType, NoneAssumption DEF TypeOK
  <1>4. CASE \E p \in Procs : ClaimRetries(p)
    <2>1. PICK p \in Procs : ClaimRetries(p)
      BY <1>4
    <2>2. PICK S \in SUBSET Deliveries :
            /\ \A e \in S : outbox[e] # None
            /\ \A e \in S : outbox[e].attempt + 1 \in Nat
            /\ outbox' = [e \in Deliveries |->
                 IF e \in S THEN [attempt |-> outbox[e].attempt + 1, due |-> FALSE] ELSE outbox[e]]
      BY <2>1, ClaimFacts
    <2>3. \A e \in S : [attempt |-> outbox[e].attempt + 1, due |-> FALSE] # None
      <3>1. \A e \in S : [attempt |-> outbox[e].attempt + 1, due |-> FALSE] \in OutboxRow
        BY <2>2 DEF OutboxRow
      <3>2. QED
        BY <3>1, NoneAssumption
    <2>4. QED
      BY <2>2, <2>3
  <1>5. QED
    BY <1>1, <1>2, <1>3, <1>4

LEMMA InductiveStep ==
  ASSUME IInv, Next
  PROVE  FailedIsKept' /\ DispatchesKnow' /\ RowsAreEnqueued' /\ WorkKnows'
  <1> USE DEF rows, health, history
  <1>1. TypeOK /\ FailedIsKept /\ DispatchesKnow /\ RowsAreEnqueued /\ WorkKnows
    BY DEF IInv
  <1>2. ASSUME NEW d \in Deliveries, DispatchOverBudget(d)
       PROVE  FailedIsKept' /\ DispatchesKnow' /\ RowsAreEnqueued' /\ WorkKnows'
    BY <1>2, <1>1 DEF DispatchOverBudget, DispatchAt, WorkAt, TypeOK, FailedIsKept, DispatchesKnow, RowsAreEnqueued, WorkKnows, Answered
  <1>3. ASSUME NEW d \in Deliveries, DispatchInvokes(d)
       PROVE  FailedIsKept' /\ DispatchesKnow' /\ RowsAreEnqueued' /\ WorkKnows'
    <2>1. PICK to \in Admitted(disp[d].proc, AgentOf[d]) : disp' = [disp EXCEPT ![d].at = to]
      BY <1>3 DEF DispatchInvokes
    <2>2. to \in {"running", "waiting", "permanent"} /\ disp[d] # None
      BY <1>3, <2>1 DEF Admitted, DispatchInvokes, DispatchAt
    <2>3. disp'[d].at = to /\ \A e \in Deliveries \ {d} : disp'[e] = disp[e]
      BY <1>1, <2>1, <2>2, DispatchMoves DEF Results, Returned
    <2>4. DispatchesKnow'
      BY <1>3, <1>1, <2>2, <2>3 DEF DispatchInvokes, DispatchesKnow, DispatchAt, Answered
    <2>5. QED
      BY <1>3, <1>1, <2>4 DEF DispatchInvokes, WorkAt, FailedIsKept, RowsAreEnqueued, WorkKnows, Answered
  <1>4. ASSUME NEW d \in Deliveries, DispatchReturns(d)
       PROVE  FailedIsKept' /\ DispatchesKnow' /\ RowsAreEnqueued' /\ WorkKnows'
    <2>1. PICK result \in Returned :
            Return(disp[d].proc, d, result) /\ disp' = [disp EXCEPT ![d].at = result]
      BY <1>4 DEF DispatchReturns
    <2>2. disp[d] # None /\ disp[d].proc \in Procs /\ result \in Results
      BY <1>4, <1>1, MoveDispatch DEF DispatchReturns, DispatchAt, Results
    <2>3. disp'[d].at = result /\ \A e \in Deliveries \ {d} : disp'[e] = disp[e]
      BY <1>1, <2>1, <2>2, DispatchMoves
    <2>4. /\ \A e \in Deliveries : Answered(e) => Answered(e)'
          /\ result = "ok" => Answered(d)'
      BY <1>1, <2>1, <2>2, ReturnHeard
    <2>5. DispatchesKnow'
      BY <1>4, <1>1, <2>3, <2>4 DEF DispatchReturns, DispatchesKnow, DispatchAt, Returned
    <2>6. FailedIsKept'
      BY <1>4, <1>1, <2>4 DEF DispatchReturns, FailedIsKept, Answered
    <2>7. WorkKnows'
      BY <1>4, <1>1, <2>4 DEF DispatchReturns, WorkKnows, WorkAt, TypeOK, Work
    <2>8. QED
      BY <1>4, <1>1, <2>5, <2>6, <2>7 DEF DispatchReturns, RowsAreEnqueued
  <1>5. ASSUME NEW d \in Deliveries, Deliver(d)
       PROVE  FailedIsKept' /\ DispatchesKnow' /\ RowsAreEnqueued' /\ WorkKnows'
    BY <1>5, <1>1 DEF Deliver, DispatchAt, WorkAt, TypeOK, FailedIsKept, DispatchesKnow, RowsAreEnqueued, WorkKnows, Answered
  <1>6. ASSUME NEW d \in Deliveries, Enqueue(d)
       PROVE  FailedIsKept' /\ DispatchesKnow' /\ RowsAreEnqueued' /\ WorkKnows'
    <2>1. disp[d] # None /\ disp[d].at # "ok"
      BY <1>6 DEF Enqueue, DispatchAt
    <2>2. /\ disp'[d].at \in {"queued", "queued, quota"}
          /\ \A e \in Deliveries \ {d} : disp'[e] = disp[e]
      BY <1>6, <1>1, <2>1, DispatchMoves DEF Enqueue
    <2>3. DispatchesKnow'
      BY <1>6, <1>1, <2>2 DEF Enqueue, DispatchesKnow, DispatchAt, Answered
    <2>4. outbox'[d] # None /\ \A e \in Deliveries \ {d} : outbox'[e] = outbox[e]
      <3>1. [attempt |-> 1, due |-> FALSE] \in OutboxRow
        BY DEF OutboxRow
      <3>2. QED
        BY <1>6, <1>1, <3>1, NoneAssumption DEF Enqueue, TypeOK
    <2>5. FailedIsKept' /\ RowsAreEnqueued' /\ WorkKnows'
      BY <1>6, <1>1, <2>4 DEF Enqueue, FailedIsKept, RowsAreEnqueued, WorkKnows, WorkAt, Answered
    <2>6. QED
      BY <2>3, <2>5
  <1>7. ASSUME NEW d \in Deliveries, NoteFailure(d)
       PROVE  FailedIsKept' /\ DispatchesKnow' /\ RowsAreEnqueued' /\ WorkKnows'
    BY <1>7, <1>1 DEF NoteFailure, DispatchAt, WorkAt, TypeOK, FailedIsKept, DispatchesKnow, RowsAreEnqueued, WorkKnows, Answered
  <1>8. ASSUME NEW d \in Deliveries, CallerLeaves(d)
       PROVE  FailedIsKept' /\ DispatchesKnow' /\ RowsAreEnqueued' /\ WorkKnows'
    BY <1>8, <1>1 DEF CallerLeaves, DispatchAt, WorkAt, TypeOK, FailedIsKept, DispatchesKnow, RowsAreEnqueued, WorkKnows, Answered
  <1>9. ASSUME NEW d \in Deliveries, BecomesDue(d)
       PROVE  FailedIsKept' /\ DispatchesKnow' /\ RowsAreEnqueued' /\ WorkKnows'
    <2>1. \A e \in Deliveries : outbox'[e] # None <=> outbox[e] # None
      BY <1>9, <1>1, RowsStay
    <2>2. QED
      BY <1>9, <1>1, <2>1 DEF BecomesDue, DispatchAt, WorkAt, FailedIsKept, DispatchesKnow,
                            RowsAreEnqueued, WorkKnows, Answered
  <1>10. ASSUME NEW p \in Procs, NEW d \in Deliveries, Skip(p, d)
       PROVE  FailedIsKept' /\ DispatchesKnow' /\ RowsAreEnqueued' /\ WorkKnows'
    BY <1>10, <1>1 DEF Skip, DispatchAt, WorkAt, TypeOK, FailedIsKept, DispatchesKnow, RowsAreEnqueued, WorkKnows, Answered
  <1>11. ASSUME NEW p \in Procs, NEW d \in Deliveries, Dispatch(p, d)
       PROVE  FailedIsKept' /\ DispatchesKnow' /\ RowsAreEnqueued' /\ WorkKnows'
    BY <1>11, <1>1 DEF Dispatch, DispatchAt, WorkAt, TypeOK, FailedIsKept, DispatchesKnow, RowsAreEnqueued, WorkKnows, Answered
  <1>12. ASSUME NEW p \in Procs, NEW d \in Deliveries, RequeueDeadLetter(p, d)
       PROVE  FailedIsKept' /\ DispatchesKnow' /\ RowsAreEnqueued' /\ WorkKnows'
    BY <1>12, <1>1 DEF RequeueDeadLetter, DispatchAt, WorkAt, TypeOK, FailedIsKept, DispatchesKnow, RowsAreEnqueued, WorkKnows, Answered
  <1>13. ASSUME NEW p \in Procs, ClaimRetries(p)
       PROVE  FailedIsKept' /\ DispatchesKnow' /\ RowsAreEnqueued' /\ WorkKnows'
    <2>1. PICK S \in SUBSET Deliveries :
            /\ \A d \in S : outbox[d] # None
            /\ batch' = [batch EXCEPT ![p] = {[d |-> d, attempt |-> outbox[d].attempt + 1] : d \in S}]
      BY <1>13, <1>1, ClaimFacts
    <2>2. \A e \in Deliveries : outbox'[e] # None <=> outbox[e] # None
      BY <1>13, <1>1, RowsStay
    <2>3. RowsAreEnqueued'
      <3>1. \A q \in Procs : \A i \in batch'[q] : i.d \in enqueued
        BY <1>1, <2>1 DEF RowsAreEnqueued, TypeOK
      <3>2. QED
        BY <1>13, <1>1, <2>2, <3>1 DEF ClaimRetries, RowsAreEnqueued
    <2>4. QED
      BY <1>13, <1>1, <2>2, <2>3 DEF ClaimRetries, DispatchAt, WorkAt, FailedIsKept, DispatchesKnow,
                                  WorkKnows, Answered
  <1>14. ASSUME NEW p \in Procs, Start(p)
       PROVE  FailedIsKept' /\ DispatchesKnow' /\ RowsAreEnqueued' /\ WorkKnows'
    <2>1. PICK i \in batch[p] :
            /\ \E to \in IF p \in Equipped THEN Admitted(p, AgentOf[i.d]) ELSE {"transient"} :
                 work' = [work EXCEPT ![p] = [d |-> i.d, attempt |-> i.attempt, at |-> to]]
            /\ batch' = [batch EXCEPT ![p] = @ \ {i}]
      BY <1>14 DEF Start
    <2>2. PICK to \in {"running", "waiting", "permanent", "transient"} :
            work' = [work EXCEPT ![p] = [d |-> i.d, attempt |-> i.attempt, at |-> to]]
      BY <2>1 DEF Admitted
    <2>3. work'[p].d = i.d /\ work'[p].at = to /\ \A q \in Procs \ {p} : work'[q] = work[q]
      BY <1>1, <2>2 DEF TypeOK
    <2>4. RowsAreEnqueued'
      <3>1. i.d \in enqueued /\ \A q \in Procs : batch'[q] \subseteq batch[q]
        BY <1>1, <2>1 DEF RowsAreEnqueued, TypeOK
      <3>2. QED
        BY <1>14, <1>1, <2>3, <3>1 DEF Start, RowsAreEnqueued
    <2>5. WorkKnows'
      BY <1>14, <1>1, <2>3 DEF Start, WorkKnows, WorkAt, Answered
    <2>6. QED
      BY <1>14, <1>1, <2>4, <2>5 DEF Start, DispatchAt, FailedIsKept, DispatchesKnow, Answered
  <1>15. ASSUME NEW p \in Procs, RetryReturns(p)
       PROVE  FailedIsKept' /\ DispatchesKnow' /\ RowsAreEnqueued' /\ WorkKnows'
    <2>1. PICK result \in Returned :
            Return(p, work[p].d, result) /\ work' = [work EXCEPT ![p].at = result]
      BY <1>15 DEF RetryReturns
    <2>2. work[p] # None /\ work[p].d \in Deliveries /\ result \in Results
      BY <1>15, <1>1, MoveWork DEF RetryReturns, WorkAt, Results
    <2>3. /\ work'[p].at = result /\ work'[p].d = work[p].d
          /\ \A q \in Procs \ {p} : work'[q] = work[q]
      BY <1>1, <2>1, <2>2, WorkMoves
    <2>4. /\ \A e \in Deliveries : Answered(e) => Answered(e)'
          /\ result = "ok" => Answered(work[p].d)'
      <3>1. \A e \in Deliveries : Answered(e) => Answered(e)'
        BY <1>1, <2>1, <2>2, ReturnHeard
      <3>2. result = "ok" => heard'[work[p].d] = "answer"
        BY <1>1, <2>1, <2>2 DEF Return, TypeOK
      <3>3. result = "ok" => heard'[work'[p].d] = "answer"
        BY <2>3, <3>2
      <3>4. QED
        BY <3>1, <3>3 DEF Answered
    <2>5. WorkKnows'
      BY <1>15, <1>1, <2>2, <2>3, <2>4 DEF RetryReturns, WorkKnows, WorkAt, Returned, TypeOK, Work
    <2>6. DispatchesKnow' /\ FailedIsKept'
      BY <1>15, <1>1, <2>4 DEF RetryReturns, DispatchesKnow, DispatchAt, FailedIsKept, Answered
    <2>7. RowsAreEnqueued'
      BY <1>15, <1>1, <2>2, <2>3 DEF RetryReturns, RowsAreEnqueued
    <2>8. QED
      BY <2>5, <2>6, <2>7
  <1>16. ASSUME NEW p \in Procs, CompleteAnswered(p)
       PROVE  FailedIsKept' /\ DispatchesKnow' /\ RowsAreEnqueued' /\ WorkKnows'
    BY <1>16, <1>1 DEF CompleteAnswered, DispatchAt, WorkAt, TypeOK, FailedIsKept, DispatchesKnow, RowsAreEnqueued, WorkKnows, Answered
  <1>17. ASSUME NEW p \in Procs, CompleteDeferred(p)
       PROVE  FailedIsKept' /\ DispatchesKnow' /\ RowsAreEnqueued' /\ WorkKnows'
    <2>1. work[p].d \in Deliveries /\ DeferRetry(work[p].d)
      BY <1>17, <1>1, MoveWork DEF CompleteDeferred, WorkAt
    <2>2. \A e \in Deliveries : outbox'[e] # None <=> outbox[e] # None
      BY <1>1, <2>1, RowsStay
    <2>3. work'[p] = None /\ \A q \in Procs \ {p} : work'[q] = work[q]
      BY <1>17, <1>1 DEF CompleteDeferred, TypeOK
    <2>4. FailedIsKept' /\ DispatchesKnow'
      BY <1>17, <1>1, <2>2 DEF CompleteDeferred, DispatchAt, FailedIsKept, DispatchesKnow, Answered
    <2>5. RowsAreEnqueued'
      BY <1>17, <1>1, <2>2, <2>3 DEF CompleteDeferred, RowsAreEnqueued
    <2>6. WorkKnows'
      BY <1>17, <1>1, <2>3 DEF CompleteDeferred, WorkAt, WorkKnows, Answered
    <2>7. QED
      BY <2>4, <2>5, <2>6
  <1>18. ASSUME NEW p \in Procs, CompleteForRetry(p)
       PROVE  FailedIsKept' /\ DispatchesKnow' /\ RowsAreEnqueued' /\ WorkKnows'
    <2>1. /\ work[p].d \in Deliveries
          /\ outbox' = [outbox EXCEPT ![work[p].d] = IF @ = None THEN None ELSE [@ EXCEPT !.due = FALSE]]
      BY <1>18, <1>1, MoveWork DEF CompleteForRetry, Worthwhile, WorkAt
    <2>2. \A e \in Deliveries : outbox'[e] # None <=> outbox[e] # None
      BY <1>1, <2>1, RowsStay
    <2>3. work'[p] = None /\ \A q \in Procs \ {p} : work'[q] = work[q]
      BY <1>18, <1>1 DEF CompleteForRetry, TypeOK
    <2>4. FailedIsKept' /\ DispatchesKnow'
      BY <1>18, <1>1, <2>2 DEF CompleteForRetry, DispatchAt, FailedIsKept, DispatchesKnow, Answered
    <2>5. RowsAreEnqueued'
      BY <1>18, <1>1, <2>2, <2>3 DEF CompleteForRetry, RowsAreEnqueued
    <2>6. WorkKnows'
      BY <1>18, <1>1, <2>3 DEF CompleteForRetry, WorkAt, WorkKnows, Answered
    <2>7. QED
      BY <2>4, <2>5, <2>6
  <1>19. ASSUME NEW p \in Procs, CompleteDead(p)
       PROVE  FailedIsKept' /\ DispatchesKnow' /\ RowsAreEnqueued' /\ WorkKnows'
    <2>1. work[p] # None /\ work[p].d \in Deliveries /\ work[p].at \in Results /\ work[p].d \in enqueued
      BY <1>19, <1>1, MoveWork DEF CompleteDead, Buries, WorkAt, RowsAreEnqueued
    <2>2. /\ work'[p].at = "delete" /\ work'[p].d = work[p].d
          /\ \A q \in Procs \ {p} : work'[q] = work[q]
      BY <1>19, <1>1, <2>1, WorkMoves DEF CompleteDead
    <2>3. /\ \A e \in Deliveries \ {work[p].d} : dead'[e] = dead[e]
          /\ dead'[work[p].d] = IF outbox[work[p].d] = None THEN dead[work[p].d] ELSE work[p].at
      BY <1>19, <1>1, <2>1 DEF CompleteDead, TypeOK
    <2>4. \A e \in Deliveries : dead[e] # None => dead'[e] # None
      BY <2>1, <2>3, NoneAssumption
    <2>5. \/ work[p].d \in requeued \/ dead'[work[p].d] # None \/ Answered(work[p].d)
      BY <1>1, <2>1, <2>3, NoneAssumption DEF FailedIsKept, Answered
    <2>6. FailedIsKept' /\ DispatchesKnow'
      BY <1>19, <1>1, <2>4 DEF CompleteDead, FailedIsKept, DispatchesKnow, DispatchAt, Answered
    <2>7. RowsAreEnqueued'
      BY <1>19, <1>1, <2>1, <2>2, <2>3 DEF CompleteDead, RowsAreEnqueued
    <2>8. WorkKnows'
      BY <1>19, <1>1, <2>2, <2>4, <2>5 DEF CompleteDead, WorkKnows, WorkAt, Answered, TypeOK, Work
    <2>9. QED
      BY <2>6, <2>7, <2>8
  <1>20. ASSUME NEW p \in Procs, DeleteDead(p)
       PROVE  FailedIsKept' /\ DispatchesKnow' /\ RowsAreEnqueued' /\ WorkKnows'
    BY <1>20, <1>1 DEF DeleteDead, DispatchAt, WorkAt, TypeOK, FailedIsKept, DispatchesKnow, RowsAreEnqueued, WorkKnows, Answered
  <1>21. ASSUME NEW p \in Procs, Restart(p)
       PROVE  FailedIsKept' /\ DispatchesKnow' /\ RowsAreEnqueued' /\ WorkKnows'
    BY <1>21, <1>1 DEF Restart, DispatchAt, WorkAt, TypeOK, FailedIsKept, DispatchesKnow, RowsAreEnqueued, WorkKnows, Answered
  <1>22. ASSUME NEW p \in Procs, NEW a \in Agents, BarLifts(p, a)
       PROVE  FailedIsKept' /\ DispatchesKnow' /\ RowsAreEnqueued' /\ WorkKnows'
    BY <1>22, <1>1 DEF BarLifts, DispatchAt, WorkAt, TypeOK, FailedIsKept, DispatchesKnow, RowsAreEnqueued, WorkKnows, Answered
  <1>23. CASE Idle
    BY <1>23, <1>1 DEF Idle, vars, DispatchAt, WorkAt, TypeOK, FailedIsKept, DispatchesKnow, RowsAreEnqueued, WorkKnows, Answered
  <1>24. QED
    BY <1>2, <1>3, <1>4, <1>5, <1>6, <1>7, <1>8, <1>9, <1>10, <1>11, <1>12, <1>13, <1>14, <1>15, <1>16, <1>17, <1>18, <1>19, <1>20, <1>21, <1>22, <1>23 DEF Next, Complete

LEMMA InvariantHolds == Spec => []IInv
  <1>1. IInv /\ [Next]_vars => FailedIsKept' /\ DispatchesKnow' /\ RowsAreEnqueued' /\ WorkKnows'
    <2> SUFFICES ASSUME IInv, [Next]_vars
                 PROVE  FailedIsKept' /\ DispatchesKnow' /\ RowsAreEnqueued' /\ WorkKnows'
      OBVIOUS
    <2>1. CASE Next
      BY <2>1, InductiveStep
    <2>2. CASE UNCHANGED vars
      BY <2>2 DEF vars, IInv, FailedIsKept, DispatchesKnow, RowsAreEnqueued, WorkKnows,
                  DispatchAt, WorkAt, Answered
    <2>3. QED
      BY <2>1, <2>2
  <1> DEFINE Rest == FailedIsKept /\ DispatchesKnow /\ RowsAreEnqueued /\ WorkKnows
  <1>2. Init => Rest
    BY InductiveInit DEF IInv
  <1>3. TypeOK /\ Rest /\ [Next]_vars => Rest'
    BY <1>1 DEF IInv
  <1>4. TypeOK /\ Rest => IInv
    BY DEF IInv
  <1> HIDE DEF Rest
  <1>5. QED
    BY <1>2, <1>3, <1>4, TypeCorrect, PTL DEF Spec

(* README.md, Retry and dead-letter handling: a delivery whose invocation   *)
(* failed is in the outbox or a dead letter until it was answered.          *)
THEOREM FailedDeliveriesAreKept == Spec => []FailedIsKept
  <1>1. IInv => FailedIsKept
    BY DEF IInv
  <1>2. QED
    BY <1>1, InvariantHolds, PTL

-------------------------------------------------------------------------------
(* A delivery is dispatched once and enqueued at most once by its dispatch,  *)
(* and a retry loop holds an item of it at most once.                        *)

FirstOnce ==
  \A d \in Deliveries :
    /\ status[d] = "none" => disp[d] = None /\ d \notin enqueued
    /\ DispatchAt(d, Results \cup {"start", "running"}) => d \notin enqueued
OneItemEach ==
  \A p \in Procs :
    /\ \A i, j \in batch[p] : i.d = j.d => i = j
    /\ work[p] # None => \A i \in batch[p] : i.d # work[p].d

LEMMA OnceStep ==
  ASSUME TypeOK, FirstOnce, OneItemEach, Next
  PROVE  FirstOnce' /\ OneItemEach'
  <1> USE DEF rows, health, history
  <1>1. ASSUME UNCHANGED <<batch, work>> PROVE OneItemEach'
    BY <1>1 DEF OneItemEach
  <1>2. ASSUME UNCHANGED <<status, disp, enqueued>> PROVE FirstOnce'
    BY <1>2 DEF FirstOnce, DispatchAt
  <1>3. ASSUME NEW d \in Deliveries, DispatchOverBudget(d) \/ Deliver(d) \/ NoteFailure(d) \/ CallerLeaves(d)
        PROVE  FirstOnce' /\ OneItemEach'
    <2>1. /\ disp' = [disp EXCEPT ![d] = None] /\ disp[d] # None
          /\ enqueued' = enqueued /\ UNCHANGED <<batch, work>>
          /\ status' = status \/ \E s \in {"skipped", "delivered", "failed", "pending"} : status' = [status EXCEPT ![d] = s]
      BY <1>3 DEF DispatchOverBudget, Deliver, NoteFailure, CallerLeaves, DispatchAt
    <2>2. QED
      BY <1>1, <2>1 DEF FirstOnce, DispatchAt, TypeOK
  <1>4. ASSUME NEW d \in Deliveries, DispatchInvokes(d) \/ DispatchReturns(d)
        PROVE  FirstOnce' /\ OneItemEach'
    <2>1. /\ DispatchAt(d, {"start", "running"}) /\ enqueued' = enqueued /\ status' = status
          /\ UNCHANGED <<batch, work>>
      BY <1>4 DEF DispatchInvokes, DispatchReturns, DispatchAt
    <2>2. PICK to \in Results \cup {"running"} : disp' = [disp EXCEPT ![d].at = to]
      BY <1>4 DEF DispatchInvokes, DispatchReturns, Admitted, Results, Returned
    <2>3. \A e \in Deliveries \ {d} : disp'[e] = disp[e]
      BY <2>1, <2>2, DispatchMoves DEF DispatchAt
    <2>4. FirstOnce'
      BY <2>1, <2>3 DEF FirstOnce, DispatchAt
    <2>5. QED
      BY <1>1, <2>1, <2>4
  <1>5. ASSUME NEW d \in Deliveries, Enqueue(d) PROVE FirstOnce' /\ OneItemEach'
    <2>1. PICK to \in {"queued", "queued, quota"} : disp' = [disp EXCEPT ![d].at = to]
      BY <1>5 DEF Enqueue
    <2>2. disp'[d].at = to /\ \A e \in Deliveries \ {d} : disp'[e] = disp[e]
      BY <1>5, <2>1, DispatchMoves DEF Enqueue, DispatchAt
    <2>3. status[d] # "none"
      BY <1>5 DEF Enqueue, DispatchAt, FirstOnce
    <2>4. to \notin Results \cup {"start", "running"}
      BY <2>1 DEF Results, Returned
    <2>5. FirstOnce'
      BY <1>5, <2>2, <2>3, <2>4 DEF Enqueue, FirstOnce, DispatchAt
    <2>6. QED
      BY <1>1, <1>5, <2>5 DEF Enqueue
  <1>6. ASSUME NEW p \in Procs, NEW d \in Deliveries, Skip(p, d) PROVE FirstOnce' /\ OneItemEach'
    BY <1>1, <1>6 DEF Skip, FirstOnce, DispatchAt, TypeOK
  <1>7. ASSUME NEW p \in Procs, NEW d \in Deliveries, Dispatch(p, d) PROVE FirstOnce' /\ OneItemEach'
    <2>1. /\ status' = [status EXCEPT ![d] = "processing"]
          /\ disp' = [disp EXCEPT ![d] = [proc |-> p, at |-> "start"]]
          /\ enqueued' = enqueued /\ d \notin enqueued
      BY <1>7 DEF Dispatch, FirstOnce
    <2>2. FirstOnce'
      BY <2>1 DEF FirstOnce, DispatchAt, TypeOK
    <2>3. QED
      BY <1>1, <1>7, <2>2 DEF Dispatch
  <1>8. ASSUME NEW d \in Deliveries, \/ BecomesDue(d) \/ \E p \in Procs : RequeueDeadLetter(p, d)
        PROVE  FirstOnce' /\ OneItemEach'
    BY <1>1, <1>2, <1>8 DEF BecomesDue, RequeueDeadLetter
  <1>9. ASSUME NEW p \in Procs, ClaimRetries(p) PROVE FirstOnce' /\ OneItemEach'
    <2>1. PICK S \in SUBSET Deliveries :
            batch' = [batch EXCEPT ![p] = {[d |-> d, attempt |-> outbox[d].attempt + 1] : d \in S}]
      BY <1>9, ClaimFacts
    <2>2. work[p] = None /\ UNCHANGED <<status, disp, enqueued, work>>
      BY <1>9 DEF ClaimRetries
    <2>3. \A i, j \in batch'[p] : i.d = j.d => i = j
      BY <2>1 DEF TypeOK
    <2>4. \A q \in Procs \ {p} : batch'[q] = batch[q]
      BY <2>1 DEF TypeOK
    <2>5. OneItemEach'
      BY <2>2, <2>3, <2>4 DEF OneItemEach
    <2>6. QED
      BY <1>2, <2>2, <2>5
  <1>10. ASSUME NEW p \in Procs, Start(p) PROVE FirstOnce' /\ OneItemEach'
    <2>1. PICK i \in batch[p] :
            /\ \E to \in IF p \in Equipped THEN Admitted(p, AgentOf[i.d]) ELSE {"transient"} :
                 work' = [work EXCEPT ![p] = [d |-> i.d, attempt |-> i.attempt, at |-> to]]
            /\ batch' = [batch EXCEPT ![p] = @ \ {i}]
      BY <1>10 DEF Start
    <2>2. work'[p].d = i.d /\ \A q \in Procs \ {p} : work'[q] = work[q]
      BY <2>1 DEF TypeOK
    <2>3. batch'[p] = batch[p] \ {i} /\ \A q \in Procs \ {p} : batch'[q] = batch[q]
      BY <2>1 DEF TypeOK
    <2>4. OneItemEach'
      BY <2>1, <2>2, <2>3 DEF OneItemEach
    <2>5. QED
      BY <1>2, <1>10, <2>4 DEF Start
  <1>11. ASSUME NEW p \in Procs, RetryReturns(p) \/ CompleteDead(p) PROVE FirstOnce' /\ OneItemEach'
    <2>1. PICK to \in Results \cup {"running", "delete"} : work' = [work EXCEPT ![p].at = to]
      BY <1>11 DEF RetryReturns, CompleteDead, Results
    <2>2. work[p] # None /\ UNCHANGED <<status, disp, enqueued, batch>>
      BY <1>11 DEF RetryReturns, CompleteDead, Buries, WorkAt
    <2>3. work'[p].d = work[p].d /\ \A q \in Procs \ {p} : work'[q] = work[q]
      BY <2>1, <2>2, WorkMoves
    <2>4. OneItemEach'
      BY <2>2, <2>3 DEF OneItemEach
    <2>5. QED
      BY <1>2, <2>2, <2>4
  <1>12. ASSUME NEW p \in Procs,
                \/ CompleteAnswered(p) \/ CompleteDeferred(p) \/ CompleteForRetry(p) \/ DeleteDead(p)
         PROVE  FirstOnce' /\ OneItemEach'
    <2>1. work' = [work EXCEPT ![p] = None] /\ UNCHANGED <<status, disp, enqueued, batch>>
      BY <1>12 DEF CompleteAnswered, CompleteDeferred, CompleteForRetry, DeleteDead
    <2>2. OneItemEach'
      BY <2>1 DEF OneItemEach, TypeOK
    <2>3. QED
      BY <1>2, <2>1, <2>2
  <1>13. ASSUME NEW p \in Procs, Restart(p) PROVE FirstOnce' /\ OneItemEach'
    <2>1. OneItemEach'
      BY <1>13 DEF Restart, OneItemEach, TypeOK
    <2>2. FirstOnce'
      BY <1>13 DEF Restart, FirstOnce, DispatchAt, TypeOK
    <2>3. QED
      BY <2>1, <2>2
  <1>14. ASSUME NEW p \in Procs, NEW a \in Agents, BarLifts(p, a) PROVE FirstOnce' /\ OneItemEach'
    BY <1>1, <1>2, <1>14 DEF BarLifts
  <1>15. CASE Idle
    BY <1>1, <1>2, <1>15 DEF Idle, vars
  <1>16. QED
    BY <1>3, <1>4, <1>5, <1>6, <1>7, <1>8, <1>9, <1>10, <1>11, <1>12, <1>13, <1>14, <1>15 DEF Next, Complete

LEMMA OnceHolds == Spec => [](FirstOnce /\ OneItemEach)
  <1> DEFINE Once == FirstOnce /\ OneItemEach
  <1>1. Init => Once
    BY DEF Init, FirstOnce, OneItemEach, DispatchAt
  <1>2. TypeOK /\ Once /\ [Next]_vars => Once'
    <2>1. TypeOK /\ Once /\ Next => Once'
      BY OnceStep
    <2>2. Once /\ UNCHANGED vars => Once'
      BY DEF vars, FirstOnce, OneItemEach, DispatchAt
    <2>3. QED
      BY <2>1, <2>2
  <1> HIDE DEF Once
  <1>3. Spec => []Once
    BY <1>1, <1>2, TypeCorrect, PTL DEF Spec
  <1>4. QED
    BY <1>3 DEF Once

-------------------------------------------------------------------------------
(* DeadOrQueued: CompleteRetry is the only step that leaves a row beside a   *)
(* dead letter, and until it has deleted the row its process is between the  *)
(* two statements or has died.                                               *)

Deleting(q, d) == WorkAt(q, {"delete"}) /\ work[q].d = d

LEMMA DeadOrQueuedStep ==
  ASSUME TypeOK, TypeOK', RowsAreEnqueued, FirstOnce, DeadOrQueued, Next
  PROVE  DeadOrQueued'
  <1> USE DEF rows, health, history
  <1>1. crashes \in Nat /\ crashes' \in Nat
    BY DeliveryAssumption DEF TypeOK
  <1>2. ASSUME crashes' = crashes,
               \A q \in Procs : \A e \in Deliveries : Deleting(q, e) => Deleting(q, e)',
               \A e \in Deliveries : dead'[e] # None /\ outbox'[e] # None => dead[e] # None /\ outbox[e] # None
        PROVE  DeadOrQueued'
    BY <1>2 DEF DeadOrQueued, Deleting
  <1>3. ASSUME UNCHANGED <<dead, work, crashes>>,
               \A e \in Deliveries : outbox'[e] # None => outbox[e] # None
        PROVE  DeadOrQueued'
    BY <1>2, <1>3 DEF Deleting, WorkAt
  <1>4. ASSUME NEW d \in Deliveries,
               \/ DispatchOverBudget(d) \/ DispatchInvokes(d) \/ DispatchReturns(d)
               \/ Deliver(d) \/ NoteFailure(d) \/ CallerLeaves(d)
               \/ \E p \in Procs : Skip(p, d) \/ Dispatch(p, d)
        PROVE  DeadOrQueued'
    BY <1>3, <1>4 DEF DispatchOverBudget, DispatchInvokes, DispatchReturns, Deliver, NoteFailure,
                      CallerLeaves, Skip, Dispatch
  <1>5. ASSUME NEW d \in Deliveries, Enqueue(d) PROVE DeadOrQueued'
    <2>1. dead[d] = None
      BY <1>5 DEF Enqueue, DispatchAt, FirstOnce, RowsAreEnqueued
    <2>2. \A e \in Deliveries \ {d} : outbox'[e] = outbox[e]
      BY <1>5 DEF Enqueue, TypeOK
    <2>3. UNCHANGED <<dead, work, crashes>>
      BY <1>5 DEF Enqueue
    <2>4. QED
      BY <1>2, <2>1, <2>2, <2>3 DEF Deleting, WorkAt
  <1>6. ASSUME NEW p \in Procs, NEW d \in Deliveries, RequeueDeadLetter(p, d) PROVE DeadOrQueued'
    <2>1. dead'[d] = None /\ \A e \in Deliveries \ {d} : dead'[e] = dead[e] /\ outbox'[e] = outbox[e]
      BY <1>6 DEF RequeueDeadLetter, TypeOK
    <2>2. UNCHANGED <<work, crashes>>
      BY <1>6 DEF RequeueDeadLetter
    <2>3. QED
      BY <1>2, <2>1, <2>2 DEF Deleting, WorkAt
  <1>7. ASSUME NEW d \in Deliveries, BecomesDue(d) PROVE DeadOrQueued'
    BY <1>3, <1>7, RowsStay DEF BecomesDue
  <1>8. ASSUME NEW p \in Procs, ClaimRetries(p) PROVE DeadOrQueued'
    <2>1. \A e \in Deliveries : outbox'[e] # None <=> outbox[e] # None
      BY <1>8, RowsStay
    <2>2. QED
      BY <1>3, <1>8, <2>1 DEF ClaimRetries
  <1>9. ASSUME NEW p \in Procs, ~ WorkAt(p, {"delete"}), \A q \in Procs \ {p} : work'[q] = work[q],
               UNCHANGED <<dead, crashes>>, \A e \in Deliveries : outbox'[e] # None => outbox[e] # None
        PROVE  DeadOrQueued'
    BY <1>2, <1>9 DEF Deleting, WorkAt
  <1>10. ASSUME NEW p \in Procs, Start(p) \/ RetryReturns(p) PROVE DeadOrQueued'
    <2>1. ~ WorkAt(p, {"delete"}) /\ UNCHANGED <<dead, crashes, outbox>>
      BY <1>10 DEF Start, RetryReturns, WorkAt
    <2>2. \A q \in Procs \ {p} : work'[q] = work[q]
      BY <1>10 DEF Start, RetryReturns, TypeOK
    <2>3. QED
      BY <1>9, <2>1, <2>2
  <1>11. ASSUME NEW p \in Procs, CompleteAnswered(p) \/ CompleteDeferred(p) \/ CompleteForRetry(p)
         PROVE  DeadOrQueued'
    <2>1. work[p] # None /\ work[p].d \in Deliveries /\ work[p].at # "delete"
      BY <1>11, MoveWork DEF CompleteAnswered, CompleteDeferred, CompleteForRetry, Worthwhile, WorkAt
    <2>2. \A e \in Deliveries : outbox'[e] # None => outbox[e] # None
      <3>1. CASE CompleteAnswered(p)
        BY <3>1, <2>1 DEF CompleteAnswered, TypeOK
      <3>2. CASE CompleteDeferred(p)
        BY <3>2, <2>1, RowsStay DEF CompleteDeferred
      <3>3. CASE CompleteForRetry(p)
        BY <3>3, <2>1, RowsStay DEF CompleteForRetry
      <3>4. QED
        BY <1>11, <3>1, <3>2, <3>3
    <2>3. UNCHANGED <<dead, crashes>> /\ \A q \in Procs \ {p} : work'[q] = work[q]
      BY <1>11 DEF CompleteAnswered, CompleteDeferred, CompleteForRetry, TypeOK
    <2>4. QED
      BY <1>9, <2>1, <2>2, <2>3 DEF WorkAt
  <1>12. ASSUME NEW p \in Procs, CompleteDead(p) PROVE DeadOrQueued'
    <2>1. work[p] # None /\ work[p].d \in Deliveries /\ work[p].at # "delete"
      BY <1>12, MoveWork DEF CompleteDead, Buries, WorkAt, Results, Returned
    <2>2. /\ work'[p] # None /\ work'[p].at = "delete" /\ work'[p].d = work[p].d
          /\ \A q \in Procs \ {p} : work'[q] = work[q]
      BY <1>12, <2>1, WorkMoves DEF CompleteDead
    <2>3. Deleting(p, work[p].d)'
      BY <2>2 DEF Deleting, WorkAt
    <2>4. \A e \in Deliveries \ {work[p].d} : dead'[e] = dead[e]
      BY <1>12, <2>1 DEF CompleteDead, TypeOK
    <2>5. UNCHANGED <<outbox, crashes>>
      BY <1>12 DEF CompleteDead
    <2>6. QED
      BY <2>1, <2>2, <2>3, <2>4, <2>5 DEF DeadOrQueued, Deleting, WorkAt
  <1>13. ASSUME NEW p \in Procs, DeleteDead(p) PROVE DeadOrQueued'
    <2>1. work[p].d \in Deliveries
      BY <1>13, MoveWork DEF DeleteDead, WorkAt
    <2>2. /\ outbox'[work[p].d] = None
          /\ \A e \in Deliveries \ {work[p].d} : outbox'[e] = outbox[e]
          /\ \A q \in Procs \ {p} : work'[q] = work[q]
      BY <1>13, <2>1 DEF DeleteDead, TypeOK
    <2>3. QED
      BY <1>13, <2>2 DEF DeleteDead, DeadOrQueued, WorkAt
  <1>14. ASSUME NEW p \in Procs, Restart(p) PROVE DeadOrQueued'
    <2>1. crashes' > 0
      BY <1>1, <1>14 DEF Restart
    <2>2. QED
      BY <2>1 DEF DeadOrQueued
  <1>15. ASSUME NEW p \in Procs, NEW a \in Agents, BarLifts(p, a) PROVE DeadOrQueued'
    BY <1>3, <1>15 DEF BarLifts
  <1>16. CASE Idle
    BY <1>3, <1>16 DEF Idle, vars
  <1>17. QED
    BY <1>4, <1>5, <1>6, <1>7, <1>8, <1>10, <1>11, <1>12, <1>13, <1>14, <1>15, <1>16 DEF Next, Complete

(* CompleteRetry moves a row to the dead letters: no delivery is in both, but *)
(* between its two statements or after a process that died there.            *)
THEOREM NotDeadAndQueued == Spec => []DeadOrQueued
  <1>1. Init => DeadOrQueued
    BY DEF Init, DeadOrQueued
  <1>2. /\ TypeOK /\ TypeOK' /\ IInv /\ FirstOnce /\ OneItemEach
        /\ DeadOrQueued /\ [Next]_vars
        => DeadOrQueued'
    <2>1. CASE UNCHANGED vars
      BY <2>1 DEF vars, DeadOrQueued, WorkAt
    <2>2. QED
      BY <2>1, DeadOrQueuedStep DEF IInv
  <1>3. QED
    BY <1>1, <1>2, TypeCorrect, InvariantHolds, OnceHolds, PTL DEF Spec

-------------------------------------------------------------------------------
(* QuotaWaitsAreFree: a claim counts an attempt and makes its process a      *)
(* holder; whoever stops holding the item counts a try, gives the attempt    *)
(* back or deletes the row.                                                  *)

Holders(d) == {p \in Procs : Holds(p, d)}

LEMMA HoldersCount ==
  ASSUME NEW d \in Deliveries
  PROVE  Cardinality(Holders(d)) \in Nat /\ (Holders(d) # {} => Cardinality(Holders(d)) > 0)
  <1>1. IsFiniteSet(Holders(d))
    BY DeliveryAssumption, FS_Subset DEF Holders
  <1>2. QED
    BY <1>1, FS_CardinalityType, FS_EmptySet

(* Who else holds d when only process p moves. *)
LEMMA HoldersChange ==
  ASSUME NEW p \in Procs, NEW d \in Deliveries,
         \A q \in Procs \ {p} : batch'[q] = batch[q] /\ work'[q] = work[q]
  PROVE  /\ (Holds(p, d) <=> Holds(p, d)') => Cardinality(Holders(d)') = Cardinality(Holders(d))
         /\ ~ Holds(p, d) /\ Holds(p, d)' => Cardinality(Holders(d)') = Cardinality(Holders(d)) + 1
         /\ Holds(p, d) /\ ~ Holds(p, d)' => Cardinality(Holders(d)') = Cardinality(Holders(d)) - 1
  <1>1. IsFiniteSet(Holders(d))
    BY DeliveryAssumption, FS_Subset DEF Holders
  <1>2. \A q \in Procs \ {p} : Holds(q, d)' <=> Holds(q, d)
    BY DEF Holds, WorkAt
  <1>3. CASE Holds(p, d) <=> Holds(p, d)'
    <2>1. Holders(d)' = Holders(d)
      BY <1>2, <1>3 DEF Holders
    <2>2. QED
      BY <1>3, <2>1
  <1>4. CASE ~ Holds(p, d) /\ Holds(p, d)'
    <2>1. Holders(d)' = Holders(d) \cup {p} /\ p \notin Holders(d)
      BY <1>2, <1>4 DEF Holders
    <2>2. QED
      BY <1>1, <1>4, <2>1, FS_AddElement
  <1>5. CASE Holds(p, d) /\ ~ Holds(p, d)'
    <2>1. Holders(d)' = Holders(d) \ {p} /\ p \in Holders(d)
      BY <1>2, <1>5 DEF Holders
    <2>2. QED
      BY <1>1, <1>5, <2>1, FS_RemoveElement
  <1>6. QED
    BY <1>3, <1>4, <1>5

Balanced(d) ==
  outbox[d] # None /\ d \notin requeued => outbox[d].attempt = tries[d] + Cardinality(Holders(d))

LEMMA BalancedIsFree == QuotaWaitsAreFree <=> \A d \in Deliveries : Balanced(d)
  BY DEF QuotaWaitsAreFree, Balanced, Holders

LEMMA QuotaStep ==
  ASSUME TypeOK, TypeOK', RowsAreEnqueued, FirstOnce, OneItemEach, Next,
         NEW d \in Deliveries, Balanced(d)
  PROVE  Balanced(d)'
  <1> USE DEF rows, health, history
  <1> DEFINE n == Cardinality(Holders(d))
  <1>1. n \in Nat /\ tries[d] \in Nat /\ (outbox[d] # None => outbox[d].attempt \in Nat)
    BY HoldersCount, OutboxType DEF TypeOK
  <1>2. ASSUME outbox'[d] # None => outbox[d] # None /\ outbox'[d].attempt = outbox[d].attempt,
               UNCHANGED <<batch, work, tries, requeued>>
        PROVE  Balanced(d)'
    <2>1. Holders(d)' = Holders(d)
      BY <1>2 DEF Holders, Holds, WorkAt
    <2>2. QED
      BY <1>2, <2>1 DEF Balanced
  <1>3. ASSUME NEW e \in Deliveries,
               \/ DispatchOverBudget(e) \/ DispatchInvokes(e) \/ DispatchReturns(e)
               \/ Deliver(e) \/ NoteFailure(e) \/ CallerLeaves(e)
               \/ \E p \in Procs : Skip(p, e) \/ Dispatch(p, e)
        PROVE  Balanced(d)'
    BY <1>2, <1>3 DEF DispatchOverBudget, DispatchInvokes, DispatchReturns, Deliver, NoteFailure,
                      CallerLeaves, Skip, Dispatch
  <1>4. ASSUME NEW e \in Deliveries, Enqueue(e) PROVE Balanced(d)'
    <2>1. UNCHANGED <<batch, work, requeued>>
      BY <1>4 DEF Enqueue
    <2>2. CASE e = d
      <3>1. d \notin enqueued
        BY <1>4, <2>2 DEF Enqueue, DispatchAt, FirstOnce
      <3>2. \A p \in Procs : ~ Holds(p, d)
        BY <3>1 DEF Holds, WorkAt, RowsAreEnqueued
      <3>3. Holders(d)' = {}
        BY <2>1, <3>2 DEF Holders, Holds, WorkAt
      <3>4. outbox'[d].attempt = 1 /\ tries'[d] = 1
        BY <1>4, <2>2 DEF Enqueue, TypeOK
      <3>5. QED
        BY <3>3, <3>4, FS_EmptySet DEF Balanced
    <2>3. CASE e # d
      <3>1. outbox'[d] = outbox[d] /\ tries'[d] = tries[d]
        BY <1>4, <2>3 DEF Enqueue, TypeOK
      <3>2. Holders(d)' = Holders(d)
        BY <2>1 DEF Holders, Holds, WorkAt
      <3>3. QED
        BY <2>1, <3>1, <3>2 DEF Balanced
    <2>4. QED
      BY <2>2, <2>3
  <1>5. ASSUME NEW p \in Procs, NEW e \in Deliveries, RequeueDeadLetter(p, e) PROVE Balanced(d)'
    <2>1. CASE e = d
      BY <1>5, <2>1 DEF RequeueDeadLetter, Balanced
    <2>2. CASE e # d
      <3>1. outbox'[d] = outbox[d] /\ UNCHANGED <<batch, work, tries>> /\ (d \in requeued' <=> d \in requeued)
        BY <1>5, <2>2 DEF RequeueDeadLetter, TypeOK
      <3>2. Holders(d)' = Holders(d)
        BY <3>1 DEF Holders, Holds, WorkAt
      <3>3. QED
        BY <3>1, <3>2 DEF Balanced
    <2>3. QED
      BY <2>1, <2>2
  <1>6. ASSUME NEW e \in Deliveries, BecomesDue(e) PROVE Balanced(d)'
    <2>1. outbox[d] # None => [outbox[d] EXCEPT !.due = TRUE].attempt = outbox[d].attempt
      BY DEF TypeOK, OutboxRow
    <2>2. outbox'[d] = IF e = d THEN [outbox[d] EXCEPT !.due = TRUE] ELSE outbox[d]
      BY <1>6 DEF BecomesDue, TypeOK
    <2>3. QED
      BY <1>2, <1>6, <2>1, <2>2 DEF BecomesDue
  <1>7. ASSUME NEW p \in Procs, ClaimRetries(p) PROVE Balanced(d)'
    <2>1. PICK S \in SUBSET Deliveries :
            /\ \A e \in S : outbox[e] # None
            /\ outbox' = [e \in Deliveries |->
                 IF e \in S THEN [attempt |-> outbox[e].attempt + 1, due |-> FALSE] ELSE outbox[e]]
            /\ batch' = [batch EXCEPT ![p] = {[d |-> e, attempt |-> outbox[e].attempt + 1] : e \in S}]
      BY <1>7, ClaimFacts
    <2>2. batch[p] = {} /\ work[p] = None /\ UNCHANGED <<work, tries, requeued>>
      BY <1>7 DEF ClaimRetries
    <2>3. \A q \in Procs \ {p} : batch'[q] = batch[q] /\ work'[q] = work[q]
      BY <2>1, <2>2 DEF TypeOK
    <2>4. ~ Holds(p, d)
      BY <2>2 DEF Holds, WorkAt
    <2>5. batch'[p] = {[d |-> e, attempt |-> outbox[e].attempt + 1] : e \in S}
      BY <2>1 DEF TypeOK
    <2>6. Holds(p, d)' <=> d \in S
      <3>1. Holds(p, d)' <=> \E i \in batch'[p] : i.d = d
        BY <2>2 DEF Holds, WorkAt
      <3>2. \A i \in batch'[p] : i.d \in S
        BY <2>5
      <3>3. d \in S => \E i \in batch'[p] : i.d = d
        <4> DEFINE item == [d |-> d, attempt |-> outbox[d].attempt + 1]
        <4>1. d \in S => item \in batch'[p]
          BY <2>5
        <4>2. item.d = d
          OBVIOUS
        <4>3. QED
          BY <4>1, <4>2
      <3>4. QED
        BY <3>1, <3>2, <3>3
    <2>7. CASE d \in S
      <3>1. Cardinality(Holders(d)') = n + 1
        BY <2>3, <2>4, <2>6, <2>7, HoldersChange
      <3>2. outbox'[d].attempt = outbox[d].attempt + 1 /\ outbox[d] # None
        BY <2>1, <2>7
      <3>3. QED
        BY <1>1, <2>2, <3>1, <3>2 DEF Balanced
    <2>8. CASE d \notin S
      <3>1. Cardinality(Holders(d)') = n
        BY <2>3, <2>4, <2>6, <2>8, HoldersChange
      <3>2. outbox'[d] = outbox[d]
        BY <2>1, <2>8
      <3>3. QED
        BY <2>2, <3>1, <3>2 DEF Balanced
    <2>9. QED
      BY <2>7, <2>8
  <1>8. ASSUME NEW p \in Procs, Holds(p, d) <=> Holds(p, d)',
               \A q \in Procs \ {p} : batch'[q] = batch[q] /\ work'[q] = work[q],
               outbox'[d] = outbox[d] \/ outbox'[d] = None, UNCHANGED <<tries, requeued>>
        PROVE  Balanced(d)'
    BY <1>8, HoldersChange DEF Balanced
  <1>9. ASSUME NEW p \in Procs, Start(p) PROVE Balanced(d)'
    <2>1. PICK i \in batch[p] :
            /\ \E to \in IF p \in Equipped THEN Admitted(p, AgentOf[i.d]) ELSE {"transient"} :
                 work' = [work EXCEPT ![p] = [d |-> i.d, attempt |-> i.attempt, at |-> to]]
            /\ batch' = [batch EXCEPT ![p] = @ \ {i}]
      BY <1>9 DEF Start
    <2>2. PICK to \in Results \cup {"running"} :
            work' = [work EXCEPT ![p] = [d |-> i.d, attempt |-> i.attempt, at |-> to]]
      BY <2>1 DEF Admitted, Results, Returned
    <2>3. work[p] = None /\ UNCHANGED <<outbox, tries, requeued>>
      BY <1>9 DEF Start
    <2>4. /\ work'[p] = [d |-> i.d, attempt |-> i.attempt, at |-> to]
          /\ batch'[p] = batch[p] \ {i}
          /\ \A q \in Procs \ {p} : batch'[q] = batch[q] /\ work'[q] = work[q]
      BY <2>1, <2>2 DEF TypeOK
    <2>5. work'[p] # None
      <3>1. i \in Item
        BY DEF TypeOK
      <3>2. work'[p] \in Work
        BY <2>4, <3>1 DEF Work, Item
      <3>3. QED
        BY <3>2, NoneAssumption
    <2>6. Holds(p, d)' <=> (i.d = d \/ \E j \in batch[p] \ {i} : j.d = d)
      BY <2>4, <2>5 DEF Holds, WorkAt
    <2>7. Holds(p, d) <=> \E j \in batch[p] : j.d = d
      BY <2>3 DEF Holds, WorkAt
    <2>8. QED
      BY <1>8, <2>1, <2>3, <2>4, <2>6, <2>7
  <1>10. ASSUME NEW p \in Procs, RetryReturns(p) PROVE Balanced(d)'
    <2>1. PICK result \in Returned : work' = [work EXCEPT ![p].at = result]
      BY <1>10 DEF RetryReturns
    <2>2. /\ work[p] # None /\ work[p].at = "running" /\ result \in Results
          /\ UNCHANGED <<outbox, batch, tries, requeued>>
      BY <1>10, <2>1 DEF RetryReturns, WorkAt, Results
    <2>3. /\ work'[p] # None /\ work'[p].at = result /\ work'[p].d = work[p].d
          /\ \A q \in Procs \ {p} : work'[q] = work[q]
      BY <2>1, <2>2, WorkMoves
    <2>4. Holds(p, d) <=> Holds(p, d)'
      BY <2>2, <2>3 DEF Holds, WorkAt
    <2>5. QED
      BY <1>8, <2>2, <2>3, <2>4
  <1>11. ASSUME NEW p \in Procs, CompleteAnswered(p) \/ DeleteDead(p) PROVE Balanced(d)'
    <2>1. work[p] # None /\ work[p].d \in Deliveries /\ UNCHANGED <<batch, tries, requeued>>
      BY <1>11, MoveWork DEF CompleteAnswered, DeleteDead, WorkAt
    <2>2. /\ outbox' = [outbox EXCEPT ![work[p].d] = None]
          /\ work' = [work EXCEPT ![p] = None]
      BY <1>11 DEF CompleteAnswered, DeleteDead
    <2>3. CASE work[p].d = d
      BY <2>1, <2>2, <2>3 DEF Balanced, TypeOK
    <2>4. CASE work[p].d # d
      <3>1. Holds(p, d) <=> Holds(p, d)'
        BY <2>1, <2>2, <2>4 DEF Holds, WorkAt, TypeOK
      <3>2. /\ outbox'[d] = outbox[d]
            /\ \A q \in Procs \ {p} : batch'[q] = batch[q] /\ work'[q] = work[q]
        BY <2>1, <2>2, <2>4 DEF TypeOK
      <3>3. QED
        BY <1>8, <2>1, <3>1, <3>2
    <2>5. QED
      BY <2>3, <2>4
  <1>12. ASSUME NEW p \in Procs, CompleteDeferred(p) \/ CompleteForRetry(p) \/ CompleteDead(p)
         PROVE  Balanced(d)'
    <2>1. work[p] # None /\ work[p].d \in Deliveries /\ work[p].at \in Results
      BY <1>12, MoveWork DEF CompleteDeferred, CompleteForRetry, CompleteDead, Buries, Worthwhile,
                             WorkAt, Results, Returned
    <2>2. UNCHANGED <<batch, requeued>>
      BY <1>12 DEF CompleteDeferred, CompleteForRetry, CompleteDead
    <2>3. \A q \in Procs \ {p} : batch'[q] = batch[q] /\ work'[q] = work[q]
      BY <1>12, <2>2 DEF CompleteDeferred, CompleteForRetry, CompleteDead, TypeOK
    <2>4. work'[p] = None \/ (work'[p].at = "delete" /\ work'[p].d = work[p].d)
      <3>1. CASE CompleteDead(p)
        BY <2>1, <3>1, WorkMoves DEF CompleteDead
      <3>2. QED
        BY <1>12, <3>1 DEF CompleteDeferred, CompleteForRetry, TypeOK
    <2>5. "delete" \notin Results \cup {"running"}
      BY DEF Results, Returned
    <2>6. CASE work[p].d # d
      <3>1. Holds(p, d) <=> Holds(p, d)'
        BY <2>1, <2>2, <2>4, <2>6 DEF Holds, WorkAt
      <3>2. outbox'[d] = outbox[d] /\ tries'[d] = tries[d]
        BY <1>12, <2>1, <2>6 DEF CompleteDeferred, DeferRetry, CompleteForRetry, CompleteDead, Counted, TypeOK
      <3>3. QED
        BY <2>2, <2>3, <3>1, <3>2, HoldersChange DEF Balanced
    <2>7. CASE work[p].d = d
      <3>1. Holds(p, d)
        BY <2>1, <2>7 DEF Holds, WorkAt
      <3>2. ~ Holds(p, d)'
        BY <2>1, <2>2, <2>4, <2>5, <2>7 DEF Holds, WorkAt, OneItemEach
      <3>3. Cardinality(Holders(d)') = n - 1 /\ n > 0
        BY <2>3, <3>1, <3>2, HoldersChange, HoldersCount DEF Holders
      <3>4. CASE CompleteDeferred(p)
        <4>1. outbox[d] # None => outbox'[d].attempt = IF outbox[d].attempt > 0 THEN outbox[d].attempt - 1 ELSE 0
          BY <2>7, <3>4 DEF CompleteDeferred, DeferRetry, TypeOK
        <4>2. outbox[d] = None => outbox'[d] = None
          BY <2>7, <3>4 DEF CompleteDeferred, DeferRetry, TypeOK
        <4>3. tries'[d] = tries[d]
          BY <3>4 DEF CompleteDeferred
        <4>4. QED
          BY <1>1, <2>2, <3>3, <4>1, <4>2, <4>3 DEF Balanced
      <3>5. CASE CompleteForRetry(p) \/ CompleteDead(p)
        <4>1. tries'[d] = tries[d] + 1
          BY <2>1, <2>7, <3>5 DEF CompleteForRetry, CompleteDead, Counted, TypeOK
        <4>2. outbox[d] # None => [outbox[d] EXCEPT !.due = FALSE].attempt = outbox[d].attempt
          BY DEF TypeOK, OutboxRow
        <4>3. \/ outbox'[d] = outbox[d]
              \/ outbox'[d] = IF outbox[d] = None THEN None ELSE [outbox[d] EXCEPT !.due = FALSE]
          BY <2>7, <3>5 DEF CompleteForRetry, CompleteDead, TypeOK
        <4>4. outbox'[d] # None => outbox[d] # None /\ outbox'[d].attempt = outbox[d].attempt
          BY <4>2, <4>3
        <4>5. QED
          BY <1>1, <2>2, <3>3, <4>1, <4>4 DEF Balanced
      <3>6. QED
        BY <1>12, <3>4, <3>5
    <2>8. QED
      BY <2>6, <2>7
  <1>13. ASSUME NEW p \in Procs, Restart(p) PROVE Balanced(d)'
    <2>1. /\ ~ Holds(p, d)'
          /\ \A q \in Procs \ {p} : batch'[q] = batch[q] /\ work'[q] = work[q]
      BY <1>13 DEF Restart, Holds, WorkAt, TypeOK
    <2>2. tries'[d] = IF Holds(p, d) THEN tries[d] + 1 ELSE tries[d]
      BY <1>13 DEF Restart
    <2>3. UNCHANGED <<outbox, requeued>>
      BY <1>13 DEF Restart
    <2>4. Cardinality(Holders(d)') = IF Holds(p, d) THEN n - 1 ELSE n
      BY <2>1, HoldersChange
    <2>5. QED
      BY <1>1, <2>2, <2>3, <2>4 DEF Balanced
  <1>14. ASSUME NEW p \in Procs, NEW a \in Agents, BarLifts(p, a) PROVE Balanced(d)'
    BY <1>2, <1>14 DEF BarLifts
  <1>15. CASE Idle
    BY <1>2, <1>15 DEF Idle, vars
  <1>16. QED
    BY <1>3, <1>4, <1>5, <1>6, <1>7, <1>9, <1>10, <1>11, <1>12, <1>13, <1>14, <1>15 DEF Next, Complete

(* README.md, Provider quota waits: the attempts on a row are the tries that  *)
(* failed or died and those under way, and no quota wait is among them.       *)
THEOREM QuotaWaitsCostNothing == Spec => []QuotaWaitsAreFree
  <1> DEFINE Free == \A d \in Deliveries : Balanced(d)
  <1>1. Init => Free
    BY DEF Init, Balanced
  <1>2. /\ TypeOK /\ TypeOK' /\ IInv /\ FirstOnce /\ OneItemEach
        /\ Free /\ [Next]_vars
        => Free'
    <2>1. CASE UNCHANGED vars
      BY <2>1 DEF vars, Balanced, Holders, Holds, WorkAt
    <2>2. QED
      BY <2>1, QuotaStep DEF IInv
  <1>3. Free => QuotaWaitsAreFree
    BY BalancedIsFree
  <1> HIDE DEF Free
  <1>4. QED
    BY <1>1, <1>2, <1>3, TypeCorrect, InvariantHolds, OnceHolds, PTL DEF Spec

===============================================================================
