------------------------------- MODULE Delivery -------------------------------
(***************************************************************************)
(* Deliveries of space events to participants (internal/collaboration/     *)
(* engine.go: dispatchParticipantEvent, the dispatch of Publish, retryLoop *)
(* and processRetryBatch), the circuit breaker and quota wait in front of  *)
(* every harness (operations.go), and the retry outbox and dead letters    *)
(* (internal/store/store.go).  Engine processes share the database; each   *)
(* has its own retry loop and its own view of the agents' health.          *)
(*                                                                         *)
(* A delivery is one event for one participant.  Times are abstracted to   *)
(* whether they have passed, budgets and privacy rules to whether they     *)
(* admit a delivery, an answer's messages and findings to the fact of it.  *)
(***************************************************************************)
EXTENDS Integers, FiniteSets

CONSTANTS
  Procs,        \* engine processes on the same database
  Equipped,     \* those that have the participants' harnesses
  Deliveries,   \* deliveries of events to participants
  Agents,       \* agents behind the participants
  AgentOf,      \* AgentOf[d]: the agent of delivery d's participant
  MaxAttempts,  \* attempts before a delivery is dead (5 in the code)
  BatchSize,    \* retries claimed at once (20 in the code)
  Threshold,    \* failures in a row that open a circuit breaker
  MaxQuotas,    \* bound on quota errors of the providers
  MaxRequeues,  \* bound on dead letters an operator requeues
  MaxCrashes,   \* bound on process deaths
  None          \* no row, no work

ASSUME DeliveryAssumption ==
  /\ Equipped \subseteq Procs /\ IsFiniteSet(Procs)
  /\ AgentOf \in [Deliveries -> Agents]
  /\ MaxAttempts \in Nat \ {0} /\ BatchSize \in Nat \ {0} /\ Threshold \in Nat \ {0}
  /\ MaxQuotas \in Nat /\ MaxRequeues \in Nat /\ MaxCrashes \in Nat

\* What comes of an invocation: the harness answers or returns an error, which
\* ClassifyError puts in one of three classes, or before() refuses to invoke it
\* because its circuit is open or a quota wait is on ("waiting").
Returned == {"ok", "transient", "permanent", "quota"}
Results == Returned \cup {"waiting"}

Health == [fails : 0..Threshold, open : BOOLEAN, wait : BOOLEAN]
OutboxRow == [attempt : Nat, due : BOOLEAN]
Item == [d : Deliveries, attempt : Nat]
Dispatched == [proc : Procs, at : Results \cup {"start", "running", "queued", "queued, quota"}]
Work == [d : Deliveries, attempt : Nat, at : Results \cup {"running", "delete"}]

ASSUME NoneAssumption ==
  None \notin Results /\ None \notin OutboxRow /\ None \notin Dispatched /\ None \notin Work

VARIABLES
  status,     \* status[d]: event_deliveries.status, or "none"
  disp,       \* disp[d]: the process dispatching d and where it is, or None
  outbox,     \* outbox[d]: the row of delivery_retry_outbox, or None
  dead,       \* dead[d]: the error of the row of delivery_dead_letters, or None
  batch,      \* batch[p]: claimed items the retry loop of p has still to start
  work,       \* work[p]: the item p's retry loop is busy with and where, or None
  memory,     \* memory[p][a]: agent a's health as process p has it
  stored,     \* stored[a]: the row of agent_health
  enqueued,   \* history: deliveries that were put in the outbox
  heard,      \* history: heard[d]: what the harness has returned for d so far
  requeued,   \* history: deliveries an operator has requeued
  tries,      \* history: the first attempt at d, and those since that failed, were
              \* refused or died, but no quota waits
  quotas, crashes

vars == <<status, disp, outbox, dead, batch, work, memory, stored,
          enqueued, heard, requeued, tries, quotas, crashes>>

rows == <<status, outbox, dead>>
health == <<memory, stored>>
history == <<enqueued, heard, requeued, tries, crashes>>

Healthy == [fails |-> 0, open |-> FALSE, wait |-> FALSE]

Init ==
  /\ status = [d \in Deliveries |-> "none"]
  /\ disp = [d \in Deliveries |-> None]
  /\ outbox = [d \in Deliveries |-> None]
  /\ dead = [d \in Deliveries |-> None]
  /\ batch = [p \in Procs |-> {}]
  /\ work = [p \in Procs |-> None]
  /\ memory = [p \in Procs |-> [a \in Agents |-> Healthy]]
  /\ stored = [a \in Agents |-> Healthy]
  /\ enqueued = {} /\ requeued = {}
  /\ heard = [d \in Deliveries |-> "nothing"]
  /\ tries = [d \in Deliveries |-> 0]
  /\ quotas = 0 /\ crashes = 0

\* CompleteRetry holds the store's mutex over both of its statements; the mutex
\* is of this process only.
WorkAt(p, places) == work[p] # None /\ work[p].at \in places

StoreFree(p) == ~ WorkAt(p, {"delete"})

-------------------------------------------------------------------------------
(* operationState: before and after every invocation of a harness.         *)

Barred(p, a) == memory[p][a].open \/ memory[p][a].wait

\* Where an invocation goes from here: to the harness, or back with a refusal.  One
\* for a global limit or a missing approval is an error nothing retries.
Admitted(p, a) == IF Barred(p, a) THEN {"waiting"} ELSE {"running", "permanent"}

Failed(h) ==
  LET n == IF h.fails < Threshold THEN h.fails + 1 ELSE Threshold IN
  [h EXCEPT !.fails = n, !.open = (n >= Threshold) \/ h.open]

\* A quota error counts as a failure, opens no circuit, and starts a wait when it
\* reports a reset time.
After(h, result) ==
  IF result = "ok" THEN {[h EXCEPT !.fails = 0, !.open = FALSE]}
  ELSE IF result = "quota" THEN
    {[Failed(h) EXCEPT !.open = h.open, !.wait = w] : w \in {h.wait, TRUE}}
  ELSE {Failed(h)}

\* The harness returns to process p, which notes and stores the agent's health.
Return(p, d, result) ==
  /\ result \in Returned
  /\ result = "quota" => quotas < MaxQuotas
  /\ quotas' = IF result = "quota" THEN quotas + 1 ELSE quotas
  /\ \E h \in After(memory[p][AgentOf[d]], result) :
       /\ memory' = [memory EXCEPT ![p][AgentOf[d]] = h]
       /\ stored' = [stored EXCEPT ![AgentOf[d]] = h]
  /\ heard' = [heard EXCEPT ![d] = IF @ = "answer" \/ result = "ok" THEN "answer" ELSE "error"]

-------------------------------------------------------------------------------
(* The first attempt, in the process that publishes the event.             *)

\* The participant is not invoked: it is external, inactive, or kept out by the
\* cooldown, a pause or the privacy policy.
Skip(p, d) ==
  /\ StoreFree(p)
  /\ status[d] = "none"
  /\ \E s \in {"pending", "skipped"} : status' = [status EXCEPT ![d] = s]
  /\ UNCHANGED <<disp, outbox, dead, batch, work, health, history, quotas>>

Dispatch(p, d) ==
  /\ p \in Equipped /\ StoreFree(p)
  /\ status[d] = "none"
  /\ status' = [status EXCEPT ![d] = "processing"]
  /\ disp' = [disp EXCEPT ![d] = [proc |-> p, at |-> "start"]]
  /\ UNCHANGED <<outbox, dead, batch, work, health, history, quotas>>

DispatchAt(d, places) == disp[d] # None /\ disp[d].at \in places

\* The space's budget does not admit the delivery, or a token limit cannot be kept.
DispatchOverBudget(d) ==
  /\ DispatchAt(d, {"start"}) /\ StoreFree(disp[d].proc)
  /\ status' = [status EXCEPT ![d] = "skipped"]
  /\ disp' = [disp EXCEPT ![d] = None]
  /\ UNCHANGED <<outbox, dead, batch, work, health, history, quotas>>

DispatchInvokes(d) ==
  /\ DispatchAt(d, {"start"})
  /\ \E to \in Admitted(disp[d].proc, AgentOf[d]) : disp' = [disp EXCEPT ![d].at = to]
  /\ UNCHANGED <<rows, batch, work, health, history, quotas>>

DispatchReturns(d) ==
  /\ DispatchAt(d, {"running"}) /\ StoreFree(disp[d].proc)
  /\ \E result \in Returned :
       /\ Return(disp[d].proc, d, result)
       /\ disp' = [disp EXCEPT ![d].at = result]
  /\ UNCHANGED <<rows, batch, work, enqueued, requeued, tries, crashes>>

\* The answer is charged and saved; the budget or the store may refuse it.
Deliver(d) ==
  /\ DispatchAt(d, {"ok"}) /\ StoreFree(disp[d].proc)
  /\ \E s \in {"delivered", "skipped", "failed"} : status' = [status EXCEPT ![d] = s]
  /\ disp' = [disp EXCEPT ![d] = None]
  /\ UNCHANGED <<outbox, dead, batch, work, health, history, quotas>>

\* A failed invocation goes to the outbox before anything else.
Enqueue(d) ==
  /\ DispatchAt(d, Results \ {"ok"}) /\ StoreFree(disp[d].proc)
  /\ outbox' = [outbox EXCEPT ![d] = [attempt |-> 1, due |-> FALSE]]
  /\ disp' = [disp EXCEPT ![d].at = IF @ = "quota" THEN "queued, quota" ELSE "queued"]
  /\ enqueued' = enqueued \cup {d}
  /\ tries' = [tries EXCEPT ![d] = 1]
  /\ UNCHANGED <<status, dead, batch, work, health, heard, requeued, quotas, crashes>>

\* The reservation is rolled back and the delivery's status follows; in the wrong
\* variant it does not wait for the outbox.
NoteFailureFirst(d) ==
  /\ DispatchAt(d, Results \ {"ok"}) /\ StoreFree(disp[d].proc)
  /\ status' = [status EXCEPT ![d] = IF disp[d].at = "quota" THEN "pending" ELSE "failed"]
  /\ disp' = [disp EXCEPT ![d] = None]
  /\ UNCHANGED <<outbox, dead, batch, work, health, history, quotas>>
NoteFailure(d) ==
  /\ DispatchAt(d, {"queued", "queued, quota"}) /\ StoreFree(disp[d].proc)
  /\ status' = [status EXCEPT ![d] = IF disp[d].at = "queued" THEN "failed" ELSE "pending"]
  /\ disp' = [disp EXCEPT ![d] = None]
  /\ UNCHANGED <<outbox, dead, batch, work, health, history, quotas>>

\* The publisher's context is done: the invocation ends with an error, and neither
\* the outbox, the health nor the delivery's status is written any more.
CallerLeaves(d) ==
  /\ disp[d] # None
  /\ LET p == disp[d].proc  a == AgentOf[d] IN
       memory' = IF disp[d].at = "running" THEN [memory EXCEPT ![p][a] = Failed(@)] ELSE memory
  /\ disp' = [disp EXCEPT ![d] = None]
  /\ UNCHANGED <<rows, batch, work, stored, history, quotas>>

-------------------------------------------------------------------------------
(* The retry loop: processRetryBatch on the outbox.                        *)

\* A wrong variant leaves out rows that are out of attempts.
DueBelowLimit == {d \in Deliveries : outbox[d] # None /\ outbox[d].due /\ outbox[d].attempt < MaxAttempts}
Due == {d \in Deliveries : outbox[d] # None /\ outbox[d].due}

\* ClaimRetries counts the attempt and pushes the next one five minutes ahead.
ClaimRetries(p) ==
  /\ batch[p] = {} /\ work[p] = None
  /\ \E S \in (SUBSET Due) \ {{}} :
       /\ Cardinality(S) = BatchSize \/ (Cardinality(S) < BatchSize /\ S = Due)
       /\ outbox' = [d \in Deliveries |->
            IF d \in S THEN [attempt |-> outbox[d].attempt + 1, due |-> FALSE] ELSE outbox[d]]
       /\ batch' = [batch EXCEPT ![p] = {[d |-> d, attempt |-> outbox[d].attempt + 1] : d \in S}]
  /\ UNCHANGED <<status, disp, dead, work, health, history, quotas>>

\* The items of a batch are taken one after the other; without a harness for the
\* participant the item is treated like one with a transient error.
Start(p) ==
  /\ work[p] = None
  /\ \E i \in batch[p] :
       /\ \E to \in IF p \in Equipped THEN Admitted(p, AgentOf[i.d]) ELSE {"transient"} :
            work' = [work EXCEPT ![p] = [d |-> i.d, attempt |-> i.attempt, at |-> to]]
       /\ batch' = [batch EXCEPT ![p] = @ \ {i}]
  /\ UNCHANGED <<rows, disp, health, history, quotas>>

RetryReturns(p) ==
  /\ WorkAt(p, {"running"})
  /\ \E result \in Returned :
       /\ Return(p, work[p].d, result)
       /\ work' = [work EXCEPT ![p].at = result]
  /\ UNCHANGED <<rows, disp, batch, enqueued, requeued, tries, crashes>>

\* Only these errors are worth another attempt, and only for so long.
Worthwhile(p) == WorkAt(p, {"transient"}) /\ work[p].attempt < MaxAttempts

Counted(d) == tries' = [tries EXCEPT ![d] = @ + 1]

\* CompleteRetry after an answer.
CompleteAnswered(p) ==
  /\ WorkAt(p, {"ok"})
  /\ outbox' = [outbox EXCEPT ![work[p].d] = None]
  /\ work' = [work EXCEPT ![p] = None]
  /\ UNCHANGED <<status, disp, dead, batch, health, history, quotas>>

\* DeferRetry: the attempt is given back.  A wrong variant keeps it.
DeferCounted(d) ==
  outbox' = [outbox EXCEPT ![d] = IF @ = None THEN None ELSE [@ EXCEPT !.due = FALSE]]
DeferRetry(d) ==
  outbox' = [outbox EXCEPT ![d] =
    IF @ = None THEN None
    ELSE [attempt |-> IF @.attempt > 0 THEN @.attempt - 1 ELSE 0, due |-> FALSE]]

CompleteDeferred(p) ==
  /\ WorkAt(p, {"quota"})
  /\ DeferRetry(work[p].d)
  /\ work' = [work EXCEPT ![p] = None]
  /\ UNCHANGED <<status, disp, dead, batch, health, history, quotas>>

CompleteForRetry(p) ==
  /\ Worthwhile(p)
  /\ LET d == work[p].d IN
       /\ outbox' = [outbox EXCEPT ![d] = IF @ = None THEN None ELSE [@ EXCEPT !.due = FALSE]]
       /\ Counted(d)
  /\ work' = [work EXCEPT ![p] = None]
  /\ UNCHANGED <<status, disp, dead, batch, health, enqueued, heard, requeued, quotas, crashes>>

\* CompleteRetry copies the row, if it is still there, to the dead letters, and
\* then deletes it: two statements and no transaction.
Buries(p) == WorkAt(p, (Results \ {"ok", "quota"})) /\ ~ Worthwhile(p)

CompleteDead(p) ==
  /\ Buries(p)
  /\ LET d == work[p].d IN
       /\ dead' = [dead EXCEPT ![d] = IF outbox[d] = None THEN @ ELSE work[p].at]
       /\ Counted(d)
  /\ work' = [work EXCEPT ![p].at = "delete"]
  /\ UNCHANGED <<status, disp, outbox, batch, health, enqueued, heard, requeued, quotas, crashes>>

DeleteDead(p) ==
  /\ WorkAt(p, {"delete"})
  /\ outbox' = [outbox EXCEPT ![work[p].d] = None]
  /\ work' = [work EXCEPT ![p] = None]
  /\ UNCHANGED <<status, disp, dead, batch, health, history, quotas>>

-------------------------------------------------------------------------------
(* Operators, time and deaths.                                             *)

\* operations.requeue_dead_letter, in process p; the wrong variant leaves the
\* dead letter.
RequeueCopies(p, d) ==
  /\ Cardinality(requeued) < MaxRequeues
  /\ StoreFree(p)
  /\ dead[d] # None
  /\ outbox' = [outbox EXCEPT ![d] = [attempt |-> 0, due |-> TRUE]]
  /\ requeued' = requeued \cup {d}
  /\ UNCHANGED <<status, disp, dead, batch, work, health, enqueued, heard, tries, quotas, crashes>>
RequeueDeadLetter(p, d) ==
  /\ Cardinality(requeued) < MaxRequeues
  /\ StoreFree(p)
  /\ dead[d] # None
  /\ outbox' = [outbox EXCEPT ![d] = [attempt |-> 0, due |-> TRUE]]
  /\ dead' = [dead EXCEPT ![d] = None]
  /\ requeued' = requeued \cup {d}
  /\ UNCHANGED <<status, disp, batch, work, health, enqueued, heard, tries, quotas, crashes>>

\* A retry is due, or the five minutes of a claim have passed.
BecomesDue(d) ==
  /\ outbox[d] # None /\ ~ outbox[d].due
  /\ outbox' = [outbox EXCEPT ![d].due = TRUE]
  /\ UNCHANGED <<status, disp, dead, batch, work, health, history, quotas>>

\* A cooldown or a quota wait is over.
BarLifts(p, a) ==
  /\ Barred(p, a)
  /\ \E h \in {[memory[p][a] EXCEPT !.open = FALSE], [memory[p][a] EXCEPT !.wait = FALSE]} :
       memory' = [memory EXCEPT ![p][a] = h]
  /\ UNCHANGED <<rows, disp, batch, work, stored, history, quotas>>

\* Process p dies and is started again with the health that was stored last.
Holds(p, d) == (\E i \in batch[p] : i.d = d) \/ (WorkAt(p, (Results \cup {"running"})) /\ work[p].d = d)
Restart(p) ==
  /\ crashes < MaxCrashes
  /\ crashes' = crashes + 1
  /\ batch' = [batch EXCEPT ![p] = {}]
  /\ work' = [work EXCEPT ![p] = None]
  /\ tries' = [d \in Deliveries |-> IF Holds(p, d) THEN tries[d] + 1 ELSE tries[d]]
  /\ disp' = [d \in Deliveries |-> IF disp[d] # None /\ disp[d].proc = p THEN None ELSE disp[d]]
  /\ memory' = [memory EXCEPT ![p] = stored]
  /\ UNCHANGED <<rows, stored, enqueued, heard, requeued, quotas>>

\* Nothing is left to do until an event is published or a dead letter requeued.
Idle ==
  /\ \A d \in Deliveries : status[d] # "none" /\ disp[d] = None /\ outbox[d] = None
  /\ \A p \in Procs : batch[p] = {} /\ work[p] = None
  /\ UNCHANGED vars

Complete(p) ==
  \/ CompleteAnswered(p) \/ CompleteDeferred(p) \/ CompleteForRetry(p)
  \/ CompleteDead(p) \/ DeleteDead(p)

Next ==
  \/ \E d \in Deliveries :
       \/ DispatchOverBudget(d) \/ DispatchInvokes(d) \/ DispatchReturns(d)
       \/ Deliver(d) \/ Enqueue(d) \/ NoteFailure(d)
       \/ CallerLeaves(d) \/ BecomesDue(d)
  \/ \E p \in Procs, d \in Deliveries : Skip(p, d) \/ Dispatch(p, d) \/ RequeueDeadLetter(p, d)
  \/ \E p \in Procs : ClaimRetries(p) \/ Start(p) \/ RetryReturns(p) \/ Complete(p) \/ Restart(p)
  \/ \E p \in Procs, a \in Agents : BarLifts(p, a)
  \/ Idle

Spec == Init /\ [][Next]_vars

\* Every process has a retry loop on a ticker; harnesses return and time passes.
Fairness ==
  /\ \A p \in Procs : WF_vars(ClaimRetries(p)) /\ WF_vars(Start(p) \/ RetryReturns(p) \/ Complete(p))
  /\ \A d \in Deliveries : WF_vars(BecomesDue(d))

FairSpec == Spec /\ Fairness

-------------------------------------------------------------------------------
(* Properties.                                                             *)

TypeOK ==
  /\ status \in [Deliveries -> {"none", "pending", "processing", "skipped", "failed", "delivered"}]
  /\ disp \in [Deliveries -> Dispatched \cup {None}]
  /\ outbox \in [Deliveries -> OutboxRow \cup {None}]
  /\ dead \in [Deliveries -> Results \cup {None}]
  /\ batch \in [Procs -> SUBSET Item]
  /\ work \in [Procs -> Work \cup {None}]
  /\ memory \in [Procs -> [Agents -> Health]] /\ stored \in [Agents -> Health]
  /\ enqueued \subseteq Deliveries /\ requeued \subseteq Deliveries
  /\ heard \in [Deliveries -> {"nothing", "error", "answer"}]
  /\ tries \in [Deliveries -> Nat]
  /\ quotas \in 0..MaxQuotas /\ crashes \in 0..MaxCrashes

\* README.md, Retry and dead-letter handling: a delivery whose invocation failed
\* is in the outbox or a dead letter until the participant has answered it,
\* whichever processes retry it, die or come late.  (A dead letter that one
\* process requeues while another is about to delete its row is the exception.)
FailedIsKept ==
  \A d \in Deliveries :
    /\ status[d] = "failed" => d \in enqueued \/ heard[d] = "answer"
    /\ d \in enqueued \ requeued => outbox[d] # None \/ dead[d] # None \/ heard[d] = "answer"

\* README.md, Provider quota waits: they do not consume a normal retry attempt.
\* The attempts of a row in the outbox are the tries that failed and those under
\* way, in whichever process, with no quota wait among them.
QuotaWaitsAreFree ==
  \A d \in Deliveries : outbox[d] # None /\ d \notin requeued =>
    outbox[d].attempt = tries[d] + Cardinality({p \in Procs : Holds(p, d)})

\* A delivery is not retried once it is dead, nor dead once it is requeued, except
\* between the two statements of CompleteRetry or after a process died there.
DeadOrQueued ==
  \A d \in Deliveries : dead[d] # None /\ outbox[d] # None =>
    crashes > 0 \/ \E p \in Procs : WorkAt(p, {"delete"}) /\ work[p].d = d

\* What is put in the outbox leaves it, as an answer or a dead letter, if the
\* provider's quota errors end; a row whose attempts died with their processes too.
EnqueuedIsSettled == \A d \in Deliveries : outbox[d] # None ~> outbox[d] = None

===============================================================================
