------------------------------ MODULE DurableJobs ------------------------------
(***************************************************************************)
(* The durable job runtime: internal/jobs/runtime.go on the durable_jobs   *)
(* and control_leases tables (internal/store/store.go, postgres_jobs.go),  *)
(* with the callers that write those rows from outside the runtime: the    *)
(* dashboard (internal/webui/api.go) and the workflow adapter              *)
(* (internal/workflow/durable.go).                                         *)
(*                                                                         *)
(* Each worker process polls on a ticker.  A tick starts one RunOnce per   *)
(* free slot; RunOnce claims a batch of jobs in one transaction and then   *)
(* runs them one after the other, storing the outcome of each.  lease_owner*)
(* is stored with a claim and never read again, so it is left out; times   *)
(* are abstracted to whether they have passed.                             *)
(***************************************************************************)
EXTENDS Naturals, FiniteSets, Sequences

CONSTANTS
  Procs,         \* worker processes
  Slots,         \* RunOnce calls a process may have in flight (Concurrency)
  Jobs,          \* job IDs
  MaxAttempts,   \* MaxAttempts[j]: the max_attempts column
  Limit,         \* jobs a RunOnce claims at most
  Leader,        \* whether the workers are configured with a leader lease
  MaxActions,    \* bound on dashboard and adapter calls
  MaxCrashes,    \* bound on process deaths and store errors
  None           \* no row, no owner

Threads == Procs \X Slots

Statuses == {"pending", "queued", "running", "retry", "completed", "dead", "cancelled"}

\* A row of durable_jobs.  due: next_run_at has passed; lease: lease_until is
\* NULL, in the future, or in the past.
Row == [status : Statuses, attempts : Nat, due : BOOLEAN, lease : {"null", "held", "expired"}]

\* A claimed job as RunOnce holds it, attempts as read back after the claim.
Claimed == [job : Jobs, attempts : Nat]

ASSUME JobsAssumption ==
  /\ IsFiniteSet(Jobs)
  /\ MaxAttempts \in [Jobs -> Nat \ {0}]
  /\ Limit \in Nat \ {0}
  /\ Leader \in BOOLEAN
  /\ MaxActions \in Nat /\ MaxCrashes \in Nat
  /\ None \notin Procs /\ None \notin Row

VARIABLES
  row,       \* row[j]: the row of job j, or None
  batch,     \* batch[t]: claimed jobs thread t has still to record; the first is in its handler
  started,   \* threads that a tick has started and that have not claimed yet
  leader,    \* the owner of an unexpired leader lease, or None
  claims,    \* history: claims per job; a claim calls the handler at most once
  actions,   \* dashboard and adapter calls so far
  crashes    \* process deaths and store errors so far

vars == <<row, batch, started, leader, claims, actions, crashes>>

HasStatus(j, statuses) == row[j] # None /\ row[j].status \in statuses
Busy(t) == t \in started \/ batch[t] # <<>>
Runs(t, j) == \E i \in DOMAIN batch[t] : batch[t][i].job = j
Held(j) == \E t \in Threads : Runs(t, j)

Init ==
  /\ row = [j \in Jobs |-> None]
  /\ batch = [t \in Threads |-> <<>>]
  /\ started = {}
  /\ leader = None
  /\ claims = [j \in Jobs |-> 0]
  /\ actions = 0
  /\ crashes = 0

-------------------------------------------------------------------------------
(* Rows written from outside the workers.                                  *)

New(status) == [status |-> status, attempts |-> 0, due |-> TRUE, lease |-> "null"]

\* Runtime.Submit, `jobs submit` and the dashboard insert a pending row, the
\* workflow adapter a queued one.
CreateJob(j, status) ==
  /\ row[j] = None
  /\ row' = [row EXCEPT ![j] = New(status)]
  /\ UNCHANGED <<batch, started, leader, claims, actions, crashes>>

Submit(j) == CreateJob(j, "pending")
SubmitWorkflow(j) == CreateJob(j, "queued")

\* UpdateJob: any status over any status, and the lease cleared.
UpdateJob(j, status, due) == [row[j] EXCEPT !.status = status, !.due = due, !.lease = "null"]

Act(j, new) ==
  /\ actions < MaxActions
  /\ row[j] # None
  /\ row' = [row EXCEPT ![j] = new]
  /\ actions' = actions + 1
  /\ UNCHANGED <<batch, started, leader, claims, crashes>>

Cancel(j) == Act(j, UpdateJob(j, "cancelled", row[j].due))        \* POST /jobs/{id}/action
RetryFromDashboard(j) == Act(j, UpdateJob(j, "queued", TRUE))     \* POST /jobs/{id}/action
CancelWorkflow(j) == Act(j, UpdateJob(j, "cancelled", TRUE))      \* JobAdapter.Cancel

-------------------------------------------------------------------------------
(* The workers.                                                            *)

MayLead(p) == leader \in {None, p}

\* One tick of Run: take or renew the leader lease, then fill the free slots.
Tick(p) ==
  /\ Leader => MayLead(p)
  /\ leader' = IF Leader THEN p ELSE leader
  /\ started' = started \cup {t \in {p} \X Slots : ~ Busy(t)}
  /\ UNCHANGED <<row, batch, claims, actions, crashes>>

\* Three wrong variants: by the lease alone, without retries, and of dead jobs too.
ClaimableByLease(j) ==
  HasStatus(j, {"pending", "retry", "running"}) /\ row[j].due /\ row[j].lease # "held"
ClaimableOnce(j) == HasStatus(j, {"pending"}) /\ row[j].due /\ row[j].lease # "held"
ClaimableDead(j) ==
  HasStatus(j, {"pending", "retry", "dead"}) /\ row[j].due /\ row[j].lease # "held"
Claimable(j) == HasStatus(j, {"pending", "retry"}) /\ row[j].due /\ row[j].lease # "held"

Claim(j) ==
  [row[j] EXCEPT !.status = "running", !.attempts = row[j].attempts + 1, !.lease = "held"]

\* Some order of a set of jobs: the claim orders them by next_run_at.
Orders(S) == {f \in [1..Cardinality(S) -> S] : \A i, k \in DOMAIN f : f[i] = f[k] => i = k}

\* ClaimJobs: one transaction claims as many due jobs as the limit allows.
ClaimJobs(t) ==
  /\ t \in started
  /\ started' = started \ {t}
  /\ \E S \in SUBSET {j \in Jobs : Claimable(j)} :
       /\ \/ Cardinality(S) = Limit
          \/ Cardinality(S) < Limit /\ S = {j \in Jobs : Claimable(j)}
       /\ row' = [j \in Jobs |-> IF j \in S THEN Claim(j) ELSE row[j]]
       /\ \E order \in Orders(S) :
            batch' = [batch EXCEPT ![t] =
              [i \in 1..Cardinality(S) |-> [job |-> order[i], attempts |-> Claim(order[i]).attempts]]]
       /\ claims' = [j \in Jobs |-> IF j \in S THEN claims[j] + 1 ELSE claims[j]]
  /\ UNCHANGED <<leader, actions, crashes>>

\* The outcome of a handler that has returned an error, and a wrong variant
\* that allows one attempt too many.
OutcomeOneLate(claimed) ==
  IF claimed.attempts > MaxAttempts[claimed.job] THEN "dead" ELSE "retry"
Outcome(claimed) ==
  IF claimed.attempts >= MaxAttempts[claimed.job] THEN "dead" ELSE "retry"

\* The thread records one job and goes on with the next of its batch.
Record(t, status, due) ==
  LET j == Head(batch[t]).job IN
  /\ row' = [row EXCEPT ![j] = UpdateJob(j, status, due)]
  /\ batch' = [batch EXCEPT ![t] = Tail(@)]
  /\ UNCHANGED <<started, leader, claims, actions, crashes>>

\* The tenant is no longer authorised: the handler is not called.
DenyTenant(t) == batch[t] # <<>> /\ Record(t, "dead", TRUE)

HandlerSucceeds(t) == batch[t] # <<>> /\ Record(t, "completed", TRUE)

\* The job is due again once its backoff has passed.
HandlerFails(t) == batch[t] # <<>> /\ Record(t, Outcome(Head(batch[t])), FALSE)

\* Reading back the claimed rows or storing an outcome fails: RunOnce returns and
\* drops what it had claimed.  When it is the denial of a tenant that cannot be
\* stored, RunOnce goes on with the next job of the batch.
StoreError(t) ==
  /\ crashes < MaxCrashes
  /\ batch[t] # <<>>
  /\ batch' \in {[batch EXCEPT ![t] = <<>>], [batch EXCEPT ![t] = Tail(@)]}
  /\ crashes' = crashes + 1
  /\ UNCHANGED <<row, started, leader, claims, actions>>

\* A process dies and is started again; a shutdown also releases its leader
\* lease.  The context of the handlers is cancelled, and with it the UpdateJob
\* that would have recorded them.
Restart(p) ==
  /\ crashes < MaxCrashes
  /\ batch' = [t \in Threads |-> IF t[1] = p THEN <<>> ELSE batch[t]]
  /\ started' = {t \in started : t[1] # p}
  /\ leader' \in IF leader = p THEN {p, None} ELSE {leader}
  /\ crashes' = crashes + 1
  /\ UNCHANGED <<row, claims, actions>>

-------------------------------------------------------------------------------
(* Time.                                                                   *)

BackoffPasses(j) ==
  /\ row[j] # None /\ ~ row[j].due
  /\ row' = [row EXCEPT ![j].due = TRUE]
  /\ UNCHANGED <<batch, started, leader, claims, actions, crashes>>

LeaseExpires(j) ==
  /\ row[j] # None /\ row[j].lease = "held"
  /\ row' = [row EXCEPT ![j].lease = "expired"]
  /\ UNCHANGED <<batch, started, leader, claims, actions, crashes>>

LeaderExpires ==
  /\ leader # None
  /\ leader' = None
  /\ UNCHANGED <<row, batch, started, claims, actions, crashes>>

Next ==
  \/ \E j \in Jobs : \/ Submit(j) \/ SubmitWorkflow(j)
                     \/ Cancel(j) \/ RetryFromDashboard(j) \/ CancelWorkflow(j)
                     \/ BackoffPasses(j) \/ LeaseExpires(j)
  \/ \E p \in Procs : Tick(p) \/ Restart(p)
  \/ \E t \in Threads : \/ ClaimJobs(t) \/ DenyTenant(t) \/ HandlerSucceeds(t)
                        \/ HandlerFails(t) \/ StoreError(t)
  \/ LeaderExpires

Spec == Init /\ [][Next]_vars

\* Tickers tick, transactions end, handlers return and time passes.
Fairness ==
  /\ \A p \in Procs : WF_vars(Tick(p))
  /\ \A t \in Threads : WF_vars(ClaimJobs(t)) /\ WF_vars(HandlerSucceeds(t) \/ HandlerFails(t))
  /\ \A j \in Jobs : WF_vars(BackoffPasses(j)) /\ WF_vars(LeaseExpires(j))
  /\ WF_vars(LeaderExpires)

FairSpec == Spec /\ Fairness

-------------------------------------------------------------------------------
(* Properties.                                                             *)

TypeOK ==
  /\ row \in [Jobs -> Row \cup {None}]
  /\ batch \in [Threads -> Seq(Claimed)]
  /\ started \subseteq Threads
  /\ leader \in Procs \cup {None}
  /\ claims \in [Jobs -> Nat]
  /\ actions \in 0..MaxActions /\ crashes \in 0..MaxCrashes

\* docs/durable-jobs.md: workers claim jobs atomically.  No job is in two
\* handlers at once, or twice in a batch, in any number of processes, whatever
\* leases expire and whoever cancels or retries it meanwhile.
OneRunnerPerJob ==
  \A t, u \in Threads : \A i \in DOMAIN batch[t], k \in DOMAIN batch[u] :
    batch[t][i].job = batch[u][k].job => t = u /\ i = k

\* docs/durable-jobs.md: failed handlers go to dead after max_attempts.  A job is
\* never claimed more often than that, whatever a dashboard asks for, and a worker
\* that is restarted, loses a lease or shares a batch between jobs included.
ClaimsWithinAttempts == \A j \in Jobs : claims[j] <= MaxAttempts[j]

\* The inductive form of these two: a job in a batch is not claimable, and the
\* attempts a thread decides on are those of the row, which count the claims.
HeldIsNotClaimable ==
  \A t \in Threads : \A i \in DOMAIN batch[t] :
    HasStatus(batch[t][i].job, {"running", "queued", "cancelled"})

AttemptsCountClaims ==
  /\ \A j \in Jobs : /\ row[j] = None => claims[j] = 0
                     /\ row[j] # None => row[j].attempts = claims[j]
                     /\ HasStatus(j, {"pending", "retry"}) => claims[j] < MaxAttempts[j]
                     /\ claims[j] <= MaxAttempts[j]
  /\ \A t \in Threads : \A i \in DOMAIN batch[t] :
       batch[t][i].attempts = claims[batch[t][i].job]

\* The runtime never takes back a job that it has recorded as completed or dead,
\* or that was cancelled when no handler had it: only dashboard and adapter calls
\* change such a row.
Settled(j) ==
  HasStatus(j, {"completed", "dead", "cancelled"}) /\ ~ Held(j)
SettledStays ==
  [][\A j \in Jobs : Settled(j) /\ actions' = actions => row'[j] = [row[j] EXCEPT !.due = row'[j].due]]_vars

\* A job a worker may claim is eventually claimed or cancelled, whatever crashes
\* and leader changes happen first (RunOnce, Run).
ClaimableIsClaimed ==
  \A j \in Jobs : HasStatus(j, {"pending", "retry"}) ~> ~ HasStatus(j, {"pending", "retry"})

\* docs/durable-jobs.md: the lease of a crashed worker expires and another
\* worker can claim the job.
LostJobIsReclaimed ==
  \A j \in Jobs :
    HasStatus(j, {"running"}) /\ ~ Held(j) ~> (HasStatus(j, {"running"}) => Held(j))

===============================================================================
