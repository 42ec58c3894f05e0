--------------------------- MODULE DurableJobsProofs ---------------------------
(***************************************************************************)
(* Proofs about DurableJobs, for every number of processes, slots and      *)
(* jobs, any limit and any attempts: a job has one runner at a time, is    *)
(* not claimed more often than max_attempts, and stays once it is over.    *)
(***************************************************************************)
EXTENDS DurableJobs, FiniteSetTheorems, TLAPS

LEMMA TailFacts ==
  ASSUME NEW s \in Seq(Claimed), s # <<>>
  PROVE  /\ Head(s) = s[1] /\ 1 \in DOMAIN s /\ Head(s) \in Claimed
         /\ Tail(s) \in Seq(Claimed)
         /\ \A i \in DOMAIN Tail(s) : /\ i \in Nat \ {0} /\ i + 1 \in DOMAIN s
                                      /\ Tail(s)[i] = s[i + 1]
  OBVIOUS

LEMMA ElementFacts ==
  ASSUME NEW s \in Seq(Claimed)
  PROVE  \A i \in DOMAIN s : i \in Nat \ {0} /\ s[i] \in Claimed
  OBVIOUS

LEMMA UpdateType ==
  ASSUME TypeOK, NEW j \in Jobs, row[j] # None, NEW s \in Statuses, NEW d \in BOOLEAN
  PROVE  /\ UpdateJob(j, s, d) \in Row
         /\ UpdateJob(j, s, d).status = s
         /\ UpdateJob(j, s, d).attempts = row[j].attempts
         /\ row[j].due \in BOOLEAN
  <1>1. row[j] \in Row
    BY DEF TypeOK
  <1>2. QED
    BY <1>1 DEF UpdateJob, Row

LEMMA ClaimType ==
  ASSUME TypeOK, NEW j \in Jobs, row[j] # None
  PROVE  /\ Claim(j) \in Row
         /\ Claim(j).status = "running"
         /\ Claim(j).attempts = row[j].attempts + 1
  <1>1. row[j] \in Row
    BY DEF TypeOK
  <1>2. row[j].attempts + 1 \in Nat /\ "running" \in Statuses
    BY <1>1 DEF Row, Statuses
  <1>3. QED
    BY <1>1, <1>2 DEF Claim, Row

(* None is the absence of a row. *)
LEMMA NoneIsNoRow == None \notin Row
  BY JobsAssumption

LEMMA ClaimNotNone ==
  ASSUME TypeOK, NEW j \in Jobs, row[j] # None
  PROVE  Claim(j) # None
  BY ClaimType, NoneIsNoRow

(* What a claim does, without the choice of an order. *)
LEMMA ClaimFacts ==
  ASSUME TypeOK, NEW t \in Threads, ClaimJobs(t)
  PROVE  \E S \in SUBSET Jobs :
           /\ \A j \in S : HasStatus(j, {"pending", "retry"})
           /\ row' = [j \in Jobs |-> IF j \in S THEN Claim(j) ELSE row[j]]
           /\ claims' = [j \in Jobs |-> IF j \in S THEN claims[j] + 1 ELSE claims[j]]
           /\ batch' = [batch EXCEPT ![t] = batch'[t]]
           /\ batch'[t] \in Seq(Claimed)
           /\ \A i \in DOMAIN batch'[t] :
                /\ batch'[t][i].job \in S
                /\ batch'[t][i].attempts = row[batch'[t][i].job].attempts + 1
           /\ \A i, k \in DOMAIN batch'[t] : batch'[t][i].job = batch'[t][k].job => i = k
  <1>1. PICK S \in SUBSET {j \in Jobs : Claimable(j)} :
          /\ row' = [j \in Jobs |-> IF j \in S THEN Claim(j) ELSE row[j]]
          /\ \E order \in Orders(S) :
               batch' = [batch EXCEPT ![t] =
                 [i \in 1..Cardinality(S) |->
                   [job |-> order[i], attempts |-> Claim(order[i]).attempts]]]
          /\ claims' = [j \in Jobs |-> IF j \in S THEN claims[j] + 1 ELSE claims[j]]
    BY DEF ClaimJobs
  <1>2. PICK order \in Orders(S) :
          batch' = [batch EXCEPT ![t] =
            [i \in 1..Cardinality(S) |->
              [job |-> order[i], attempts |-> Claim(order[i]).attempts]]]
    BY <1>1
  <1> DEFINE b == [i \in 1..Cardinality(S) |->
                    [job |-> order[i], attempts |-> Claim(order[i]).attempts]]
  <1>3. S \subseteq Jobs /\ Cardinality(S) \in Nat
    <2>1. S \subseteq Jobs
      BY <1>1
    <2>2. IsFiniteSet(S)
      BY <2>1, JobsAssumption, FS_Subset
    <2>3. QED
      BY <2>1, <2>2, FS_CardinalityType
  <1>4. \A j \in S : HasStatus(j, {"pending", "retry"}) /\ row[j] # None
    BY <1>1 DEF Claimable, HasStatus
  <1>5. \A i \in 1..Cardinality(S) : order[i] \in S
    BY <1>2 DEF Orders
  <1>6. \A i \in 1..Cardinality(S) :
          /\ Claim(order[i]).attempts = row[order[i]].attempts + 1
          /\ Claim(order[i]).attempts \in Nat
    <2> TAKE i \in 1..Cardinality(S)
    <2>1. order[i] \in Jobs /\ row[order[i]] # None
      BY <1>3, <1>4, <1>5
    <2>2. Claim(order[i]) \in Row
      BY <2>1, ClaimType
    <2>3. QED
      BY <2>1, <2>2, ClaimType DEF Row
  <1>7. b \in Seq(Claimed) /\ DOMAIN b = 1..Cardinality(S)
    <2>1. \A i \in 1..Cardinality(S) :
            [job |-> order[i], attempts |-> Claim(order[i]).attempts] \in Claimed
      BY <1>3, <1>5, <1>6 DEF Claimed
    <2>2. QED
      BY <2>1, <1>3
  <1>8. batch'[t] = b
    BY <1>2 DEF TypeOK
  <1>9. \A i, k \in 1..Cardinality(S) : order[i] = order[k] => i = k
    BY <1>2 DEF Orders
  <1>10. /\ \A i \in DOMAIN b : b[i].job \in S /\ b[i].attempts = row[b[i].job].attempts + 1
         /\ \A i, k \in DOMAIN b : b[i].job = b[k].job => i = k
    BY <1>5, <1>6, <1>7, <1>9
  <1>11. batch' = [batch EXCEPT ![t] = batch'[t]]
    BY <1>2, <1>8
  <1>12. /\ batch'[t] \in Seq(Claimed)
         /\ \A i \in DOMAIN batch'[t] :
              /\ batch'[t][i].job \in S
              /\ batch'[t][i].attempts = row[batch'[t][i].job].attempts + 1
         /\ \A i, k \in DOMAIN batch'[t] : batch'[t][i].job = batch'[t][k].job => i = k
    <2> HIDE DEF b
    <2>1. QED
      BY <1>7, <1>8, <1>10
  <1>13. QED
    BY <1>1, <1>3, <1>4, <1>11, <1>12

(* What recording an outcome does. *)
LEMMA RecordFacts ==
  ASSUME TypeOK, NEW t \in Threads, batch[t] # <<>>, NEW s \in Statuses, NEW d \in BOOLEAN,
         Record(t, s, d)
  PROVE  LET j == batch[t][1].job
         IN  /\ j \in Jobs /\ 1 \in DOMAIN batch[t] /\ Head(batch[t]) = batch[t][1]
             /\ row' = [row EXCEPT ![j] = UpdateJob(j, s, d)]
             /\ batch' = [batch EXCEPT ![t] = Tail(batch[t])]
             /\ UNCHANGED <<started, leader, claims, actions, crashes>>
  <1>1. batch[t] \in Seq(Claimed)
    BY DEF TypeOK
  <1>2. Head(batch[t]) = batch[t][1] /\ 1 \in DOMAIN batch[t] /\ Head(batch[t]) \in Claimed
    BY <1>1, TailFacts
  <1>3. QED
    BY <1>2 DEF Record, Claimed

(* The three ways a handler ends. *)
LEMMA Recorded ==
  ASSUME TypeOK, NEW t \in Threads, DenyTenant(t) \/ HandlerSucceeds(t) \/ HandlerFails(t)
  PROVE  /\ batch[t] # <<>>
         /\ \E s \in Statuses, d \in BOOLEAN :
              /\ Record(t, s, d)
              /\ s = "retry" => Head(batch[t]).attempts < MaxAttempts[Head(batch[t]).job]
              /\ s \in {"dead", "completed", "retry"}
  <1>1. CASE DenyTenant(t)
    BY <1>1 DEF DenyTenant, Statuses
  <1>2. CASE HandlerSucceeds(t)
    BY <1>2 DEF HandlerSucceeds, Statuses
  <1>3. CASE HandlerFails(t)
    <2> DEFINE h == Head(batch[t])
    <2>1. batch[t] # <<>> /\ Record(t, Outcome(h), FALSE)
      BY <1>3 DEF HandlerFails
    <2>2. h.job \in Jobs /\ h.attempts \in Nat
      BY <2>1, TailFacts DEF TypeOK, Claimed
    <2>3. /\ Outcome(h) \in {"dead", "retry"}
          /\ Outcome(h) = "retry" => h.attempts < MaxAttempts[h.job]
      BY <2>2, JobsAssumption DEF Outcome
    <2>4. QED
      BY <2>1, <2>3 DEF Statuses
  <1>4. QED
    BY <1>1, <1>2, <1>3

(* Dashboard and adapter calls. *)
LEMMA Acted ==
  ASSUME TypeOK, HeldIsNotClaimable,
         NEW j \in Jobs, Cancel(j) \/ RetryFromDashboard(j) \/ CancelWorkflow(j)
  PROVE  \E s \in {"queued", "cancelled"}, d \in BOOLEAN :
           /\ row[j] # None /\ actions < MaxActions /\ actions' = actions + 1
           /\ row' = [row EXCEPT ![j] = UpdateJob(j, s, d)]
           /\ UpdateJob(j, s, d) \in Row
           /\ UpdateJob(j, s, d).status = s
           /\ UpdateJob(j, s, d).attempts = row[j].attempts
           /\ UNCHANGED <<batch, started, leader, claims, crashes>>
  <1>1. row[j] # None
    BY DEF Cancel, RetryFromDashboard, CancelWorkflow, Act
  <1>2. row[j].due \in BOOLEAN
    BY <1>1 DEF TypeOK, Row
  <1>3. QED
    BY <1>1, <1>2, UpdateType
    DEF Cancel, RetryFromDashboard, CancelWorkflow, Act, Statuses

(***************************************************************************)
(* Type correctness of the tables and of the batches workers hold.         *)
(***************************************************************************)
LEMMA TypeStep ==
  ASSUME TypeOK, HeldIsNotClaimable, [Next]_vars
  PROVE  TypeOK'
  <1>1. ASSUME NEW j \in Jobs, Submit(j) \/ SubmitWorkflow(j) PROVE TypeOK'
    <2>1. New("pending") \in Row /\ New("queued") \in Row
      BY DEF New, Row, Statuses
    <2>2. QED
      BY <1>1, <2>1 DEF TypeOK, Submit, SubmitWorkflow, CreateJob
  <1>2. ASSUME NEW j \in Jobs, Cancel(j) \/ RetryFromDashboard(j) \/ CancelWorkflow(j) PROVE TypeOK'
    <2>1. PICK s \in {"queued", "cancelled"}, d \in BOOLEAN :
            /\ actions < MaxActions /\ actions' = actions + 1
            /\ row' = [row EXCEPT ![j] = UpdateJob(j, s, d)]
            /\ UpdateJob(j, s, d) \in Row
            /\ UNCHANGED <<batch, started, leader, claims, crashes>>
      BY <1>2, Acted
    <2>2. QED
      BY <2>1, JobsAssumption DEF TypeOK
  <1>3. ASSUME NEW j \in Jobs, BackoffPasses(j) \/ LeaseExpires(j) PROVE TypeOK'
    <2>1. row[j] \in Row
      BY <1>3 DEF TypeOK, BackoffPasses, LeaseExpires
    <2>2. [row[j] EXCEPT !.due = TRUE] \in Row /\ [row[j] EXCEPT !.lease = "expired"] \in Row
      BY <2>1 DEF Row
    <2>3. row' \in [Jobs -> Row \cup {None}]
      BY <1>3, <2>2 DEF TypeOK, BackoffPasses, LeaseExpires
    <2>4. QED
      BY <1>3, <2>3 DEF TypeOK, BackoffPasses, LeaseExpires
  <1>4. ASSUME NEW p \in Procs, Tick(p) PROVE TypeOK'
    BY <1>4 DEF TypeOK, Tick, Threads
  <1>5. ASSUME NEW p \in Procs, Restart(p) PROVE TypeOK'
    BY <1>5, JobsAssumption DEF TypeOK, Restart
  <1>6. ASSUME NEW t \in Threads, ClaimJobs(t) PROVE TypeOK'
    <2>1. PICK S \in SUBSET Jobs :
           /\ \A j \in S : HasStatus(j, {"pending", "retry"})
           /\ row' = [j \in Jobs |-> IF j \in S THEN Claim(j) ELSE row[j]]
           /\ claims' = [j \in Jobs |-> IF j \in S THEN claims[j] + 1 ELSE claims[j]]
           /\ batch' = [batch EXCEPT ![t] = batch'[t]]
           /\ batch'[t] \in Seq(Claimed)
      BY <1>6, ClaimFacts
    <2>2. \A j \in S : Claim(j) \in Row
      BY <2>1, ClaimType DEF HasStatus
    <2>3. row' \in [Jobs -> Row \cup {None}] /\ claims' \in [Jobs -> Nat]
      BY <2>1, <2>2 DEF TypeOK
    <2>4. batch' \in [Threads -> Seq(Claimed)]
      BY <2>1 DEF TypeOK
    <2>5. QED
      BY <1>6, <2>3, <2>4 DEF TypeOK, ClaimJobs
  <1>7. ASSUME NEW t \in Threads, DenyTenant(t) \/ HandlerSucceeds(t) \/ HandlerFails(t) PROVE TypeOK'
    <2>1. batch[t] # <<>> /\ batch[t] \in Seq(Claimed)
      BY <1>7, Recorded DEF TypeOK
    <2>2. PICK s \in Statuses, d \in BOOLEAN : Record(t, s, d)
      BY <1>7, Recorded
    <2> DEFINE j == batch[t][1].job
    <2>3. /\ j \in Jobs /\ 1 \in DOMAIN batch[t]
          /\ row' = [row EXCEPT ![j] = UpdateJob(j, s, d)]
          /\ batch' = [batch EXCEPT ![t] = Tail(batch[t])]
          /\ UNCHANGED <<started, leader, claims, actions, crashes>>
      BY <2>1, <2>2, RecordFacts
    <2>4. row[j] # None
      BY <2>3 DEF HeldIsNotClaimable, HasStatus
    <2>5. UpdateJob(j, s, d) \in Row /\ Tail(batch[t]) \in Seq(Claimed)
      BY <2>1, <2>3, <2>4, UpdateType, TailFacts
    <2>6. QED
      BY <2>3, <2>5 DEF TypeOK
  <1>8. ASSUME NEW t \in Threads, StoreError(t) PROVE TypeOK'
    <2>1. Tail(batch[t]) \in Seq(Claimed) /\ <<>> \in Seq(Claimed)
      BY <1>8, TailFacts DEF StoreError, TypeOK
    <2>2. batch' \in [Threads -> Seq(Claimed)]
      BY <1>8, <2>1 DEF StoreError, TypeOK
    <2>3. QED
      BY <1>8, <2>2, JobsAssumption DEF StoreError, TypeOK
  <1>9. CASE LeaderExpires
    BY <1>9 DEF LeaderExpires, TypeOK
  <1>10. CASE UNCHANGED vars
    BY <1>10 DEF vars, TypeOK
  <1>11. QED
    BY <1>1, <1>2, <1>3, <1>4, <1>5, <1>6, <1>7, <1>8, <1>9, <1>10 DEF Next

-------------------------------------------------------------------------------
(* One runner per job, and the attempts: the part of a step that matters is   *)
(* which jobs enter a batch (only a claim, only claimable jobs) and which     *)
(* rows become claimable (only when their only holder records them).          *)

Inv == TypeOK /\ OneRunnerPerJob /\ HeldIsNotClaimable /\ AttemptsCountClaims

(* Steps that leave every batch as it is and make no row claimable. *)
LEMMA BatchesKept ==
  ASSUME Inv, batch' = batch, claims' = claims,
         \A j \in Jobs : HasStatus(j, {"running", "queued", "cancelled"})
                         => HasStatus(j, {"running", "queued", "cancelled"})',
         \A j \in Jobs : \/ row'[j] = row[j]
                         \/ row[j] = None /\ row'[j].attempts = 0
                         \/ /\ row[j] # None /\ row'[j] # None /\ row'[j].attempts = row[j].attempts
                            /\ row'[j].status \in {"pending", "retry"} => row'[j].status = row[j].status
  PROVE  OneRunnerPerJob' /\ HeldIsNotClaimable' /\ AttemptsCountClaims'
  <1>1. OneRunnerPerJob'
    BY DEF Inv, OneRunnerPerJob
  <1>2. \A t \in Threads : \A i \in DOMAIN batch[t] : batch[t][i].job \in Jobs
    BY ElementFacts DEF Inv, TypeOK, Claimed
  <1>3. HeldIsNotClaimable'
    BY <1>2 DEF Inv, HeldIsNotClaimable
  <1>4. \A j \in Jobs : /\ row'[j] = None => claims[j] = 0
                        /\ row'[j] # None => row'[j].attempts = claims[j]
                        /\ HasStatus(j, {"pending", "retry"})' => claims[j] < MaxAttempts[j]
                        /\ claims[j] <= MaxAttempts[j]
    <2> TAKE j \in Jobs
    <2>1. 0 < MaxAttempts[j] /\ claims[j] \in Nat
      BY JobsAssumption DEF Inv, TypeOK
    <2>2. QED
      BY <2>1 DEF Inv, AttemptsCountClaims, HasStatus
  <1>5. AttemptsCountClaims'
    BY <1>4 DEF Inv, AttemptsCountClaims
  <1>6. QED
    BY <1>1, <1>3, <1>5

(* Steps that only take jobs out of batches. *)
LEMMA BatchesShrink ==
  ASSUME Inv, row' = row, claims' = claims,
         \A t \in Threads : \/ batch'[t] = batch[t]
                            \/ batch'[t] = <<>>
                            \/ batch[t] # <<>> /\ batch'[t] = Tail(batch[t])
  PROVE  OneRunnerPerJob' /\ HeldIsNotClaimable' /\ AttemptsCountClaims'
  <1> DEFINE Old(t, i) == IF batch'[t] = batch[t] THEN i ELSE i + 1
  <1>1. \A t \in Threads : \A i \in DOMAIN batch'[t] :
          /\ i \in Nat
          /\ Old(t, i) \in DOMAIN batch[t]
          /\ batch'[t][i] = batch[t][Old(t, i)]
    <2> TAKE t \in Threads
    <2>1. batch[t] \in Seq(Claimed)
      BY DEF Inv, TypeOK
    <2>2. CASE batch'[t] = batch[t]
      BY <2>1, <2>2, ElementFacts
    <2>3. CASE batch'[t] = <<>>
      BY <2>3
    <2>4. CASE batch[t] # <<>> /\ batch'[t] = Tail(batch[t]) /\ batch'[t] # batch[t]
      BY <2>1, <2>4, TailFacts
    <2>5. QED
      BY <2>2, <2>3, <2>4
  <1>2. OneRunnerPerJob'
    <2> SUFFICES ASSUME NEW t \in Threads, NEW u \in Threads,
                        NEW i \in DOMAIN batch'[t], NEW k \in DOMAIN batch'[u],
                        batch'[t][i].job = batch'[u][k].job
                 PROVE  t = u /\ i = k
      BY DEF OneRunnerPerJob
    <2>1. t = u /\ Old(t, i) = Old(u, k)
      BY <1>1 DEF Inv, OneRunnerPerJob
    <2>2. QED
      BY <1>1, <2>1
  <1> HIDE DEF Old
  <1>3. HeldIsNotClaimable'
    BY <1>1 DEF Inv, HeldIsNotClaimable, HasStatus
  <1>4. AttemptsCountClaims'
    BY <1>1 DEF Inv, AttemptsCountClaims, HasStatus
  <1>5. QED
    BY <1>2, <1>3, <1>4

LEMMA ClaimKeepsInv ==
  ASSUME Inv, NEW t \in Threads, ClaimJobs(t)
  PROVE  OneRunnerPerJob' /\ HeldIsNotClaimable' /\ AttemptsCountClaims'
  <1>1. PICK S \in SUBSET Jobs :
          /\ \A j \in S : HasStatus(j, {"pending", "retry"})
          /\ row' = [j \in Jobs |-> IF j \in S THEN Claim(j) ELSE row[j]]
          /\ claims' = [j \in Jobs |-> IF j \in S THEN claims[j] + 1 ELSE claims[j]]
          /\ batch' = [batch EXCEPT ![t] = batch'[t]]
          /\ batch'[t] \in Seq(Claimed)
          /\ \A i \in DOMAIN batch'[t] :
               /\ batch'[t][i].job \in S
               /\ batch'[t][i].attempts = row[batch'[t][i].job].attempts + 1
          /\ \A i, k \in DOMAIN batch'[t] : batch'[t][i].job = batch'[t][k].job => i = k
    BY ClaimFacts DEF Inv
  <1>2. \A u \in Threads \ {t} : batch'[u] = batch[u]
    BY <1>1 DEF Inv, TypeOK
  <1>3. \A u \in Threads : \A i \in DOMAIN batch[u] :
          batch[u][i].job \in Jobs /\ batch[u][i].job \notin S
    <2>1. \A u \in Threads : \A i \in DOMAIN batch[u] : batch[u][i].job \in Jobs
      BY ElementFacts DEF Inv, TypeOK, Claimed
    <2>2. QED
      BY <1>1, <2>1 DEF Inv, HeldIsNotClaimable, HasStatus
  <1>4. \A j \in S : /\ Claim(j) # None
                     /\ Claim(j).status = "running"
                     /\ Claim(j).attempts = row[j].attempts + 1
    BY <1>1, ClaimType, ClaimNotNone DEF HasStatus, Inv
  <1>5. OneRunnerPerJob'
    BY <1>1, <1>2, <1>3 DEF Inv, OneRunnerPerJob
  <1>6. HeldIsNotClaimable'
    <2> SUFFICES ASSUME NEW u \in Threads, NEW i \in DOMAIN batch'[u]
                 PROVE  /\ row'[batch'[u][i].job] # None
                        /\ row'[batch'[u][i].job].status \in {"running", "queued", "cancelled"}
      BY DEF HeldIsNotClaimable, HasStatus
    <2>1. CASE u = t
      <3>1. batch'[u][i].job \in S
        BY <1>1, <2>1
      <3>2. row'[batch'[u][i].job] = Claim(batch'[u][i].job)
        BY <1>1, <3>1
      <3>3. QED
        BY <1>4, <3>1, <3>2
    <2>2. CASE u # t
      BY <1>1, <1>2, <1>3, <2>2 DEF Inv, HeldIsNotClaimable, HasStatus
    <2>3. QED
      BY <2>1, <2>2
  <1>7. \A j \in Jobs : claims[j] \in Nat /\ MaxAttempts[j] \in Nat
    BY JobsAssumption DEF Inv, TypeOK
  <1>8. AttemptsCountClaims'
    <2>1. ASSUME NEW j \in Jobs
          PROVE  /\ row'[j] = None => claims'[j] = 0
                 /\ row'[j] # None => row'[j].attempts = claims'[j]
                 /\ HasStatus(j, {"pending", "retry"})' => claims'[j] < MaxAttempts[j]
                 /\ claims'[j] <= MaxAttempts[j]
      <3>1. CASE j \in S
        <4>1. row[j] # None /\ row[j].attempts = claims[j] /\ claims[j] < MaxAttempts[j]
          BY <1>1, <3>1 DEF Inv, AttemptsCountClaims, HasStatus
        <4>2. row'[j] = Claim(j) /\ claims'[j] = claims[j] + 1
          BY <1>1, <3>1
        <4>3. QED
          BY <1>4, <1>7, <3>1, <4>1, <4>2 DEF HasStatus
      <3>2. CASE j \notin S
        BY <1>1, <3>2 DEF Inv, AttemptsCountClaims, HasStatus
      <3>3. QED
        BY <3>1, <3>2
    <2>2. ASSUME NEW u \in Threads, NEW i \in DOMAIN batch'[u]
          PROVE  batch'[u][i].attempts = claims'[batch'[u][i].job]
      <3>1. CASE u = t
        <4>1. batch'[u][i].job \in S /\ row[batch'[u][i].job] # None
          BY <1>1, <3>1 DEF HasStatus
        <4>2. row[batch'[u][i].job].attempts = claims[batch'[u][i].job]
          BY <4>1 DEF Inv, AttemptsCountClaims
        <4>3. QED
          BY <1>1, <3>1, <4>1, <4>2
      <3>2. CASE u # t
        BY <1>1, <1>2, <1>3, <3>2 DEF Inv, AttemptsCountClaims
      <3>3. QED
        BY <3>1, <3>2
    <2>3. QED
      BY <2>1, <2>2 DEF AttemptsCountClaims
  <1>9. QED
    BY <1>5, <1>6, <1>8

LEMMA RecordKeepsInv ==
  ASSUME Inv, NEW t \in Threads, DenyTenant(t) \/ HandlerSucceeds(t) \/ HandlerFails(t)
  PROVE  OneRunnerPerJob' /\ HeldIsNotClaimable' /\ AttemptsCountClaims'
  <1> DEFINE j == batch[t][1].job
  <1>1. batch[t] # <<>> /\ batch[t] \in Seq(Claimed)
    BY Recorded DEF Inv, TypeOK
  <1>2. PICK s \in Statuses, d \in BOOLEAN :
          /\ Record(t, s, d)
          /\ s = "retry" => Head(batch[t]).attempts < MaxAttempts[Head(batch[t]).job]
          /\ s \in {"dead", "completed", "retry"}
    BY Recorded DEF Inv
  <1>3. /\ j \in Jobs /\ 1 \in DOMAIN batch[t] /\ Head(batch[t]) = batch[t][1]
        /\ row' = [row EXCEPT ![j] = UpdateJob(j, s, d)]
        /\ batch' = [batch EXCEPT ![t] = Tail(batch[t])]
        /\ claims' = claims
    BY <1>1, <1>2, RecordFacts DEF Inv
  <1>4. row[j] # None /\ row[j].attempts = claims[j] /\ batch[t][1].attempts = claims[j]
    BY <1>3 DEF Inv, HeldIsNotClaimable, HasStatus, AttemptsCountClaims
  <1>5. /\ UpdateJob(j, s, d) \in Row /\ UpdateJob(j, s, d).status = s
        /\ UpdateJob(j, s, d).attempts = row[j].attempts
    BY <1>3, <1>4, UpdateType DEF Inv
  <1>6. /\ \A i \in DOMAIN batch'[t] : /\ i \in Nat \ {0} /\ i + 1 \in DOMAIN batch[t]
                                       /\ batch'[t][i] = batch[t][i + 1]
        /\ \A u \in Threads \ {t} : batch'[u] = batch[u]
    BY <1>1, <1>3, TailFacts DEF Inv, TypeOK
  <1>7. OneRunnerPerJob'
    <2> SUFFICES ASSUME NEW u \in Threads, NEW v \in Threads,
                        NEW i \in DOMAIN batch'[u], NEW k \in DOMAIN batch'[v],
                        batch'[u][i].job = batch'[v][k].job
                 PROVE  u = v /\ i = k
      BY DEF OneRunnerPerJob
    <2>1. CASE u = t /\ v = t
      <3>1. i + 1 = k + 1
        BY <1>6, <2>1 DEF Inv, OneRunnerPerJob
      <3>2. QED
        BY <1>6, <2>1, <3>1
    <2>2. CASE u = t /\ v # t
      BY <1>6, <2>2 DEF Inv, OneRunnerPerJob
    <2>3. CASE u # t /\ v = t
      BY <1>6, <2>3 DEF Inv, OneRunnerPerJob
    <2>4. CASE u # t /\ v # t
      BY <1>6, <2>4 DEF Inv, OneRunnerPerJob
    <2>5. QED
      BY <2>1, <2>2, <2>3, <2>4
  <1>8. \A u \in Threads : \A i \in DOMAIN batch'[u] :
          /\ batch'[u][i].job \in Jobs \ {j}
          /\ row'[batch'[u][i].job] = row[batch'[u][i].job]
          /\ \E k \in DOMAIN batch[u] : batch'[u][i] = batch[u][k]
    <2> SUFFICES ASSUME NEW u \in Threads, NEW i \in DOMAIN batch'[u]
                 PROVE  /\ batch'[u][i].job \in Jobs \ {j}
                        /\ \E k \in DOMAIN batch[u] : batch'[u][i] = batch[u][k]
      <3>1. ASSUME NEW x \in Jobs \ {j} PROVE row'[x] = row[x]
        BY <3>1, <1>3 DEF Inv, TypeOK
      <3>2. QED
        BY <3>1
    <2>1. PICK k \in DOMAIN batch[u] : batch'[u][i] = batch[u][k] /\ (u = t => k # 1)
      BY <1>6
    <2>2. batch[u][k].job # j
      BY <1>3, <2>1 DEF Inv, OneRunnerPerJob
    <2>3. batch[u][k].job \in Jobs
      BY ElementFacts DEF Inv, TypeOK, Claimed
    <2>4. QED
      BY <2>1, <2>2, <2>3
  <1>9. HeldIsNotClaimable'
    BY <1>8 DEF Inv, HeldIsNotClaimable, HasStatus
  <1>10. AttemptsCountClaims'
    <2>1. ASSUME NEW i \in Jobs
          PROVE  /\ row'[i] = None => claims[i] = 0
                 /\ row'[i] # None => row'[i].attempts = claims[i]
                 /\ HasStatus(i, {"pending", "retry"})' => claims[i] < MaxAttempts[i]
                 /\ claims[i] <= MaxAttempts[i]
      <3>1. CASE i = j
        <4>1. row'[j] = UpdateJob(j, s, d)
          BY <1>3 DEF Inv, TypeOK
        <4>2. row'[j] # None
          BY <1>5, <4>1, NoneIsNoRow
        <4>3. s = "retry" => claims[j] < MaxAttempts[j]
          BY <1>2, <1>3, <1>4
        <4>4. QED
          BY <1>2, <1>4, <1>5, <3>1, <4>1, <4>2, <4>3 DEF HasStatus, Inv, AttemptsCountClaims
      <3>2. CASE i # j
        BY <1>3, <3>2 DEF Inv, TypeOK, AttemptsCountClaims, HasStatus
      <3>3. QED
        BY <3>1, <3>2
    <2>2. \A u \in Threads : \A i \in DOMAIN batch'[u] :
            batch'[u][i].attempts = claims[batch'[u][i].job]
      BY <1>8 DEF Inv, AttemptsCountClaims
    <2>3. QED
      BY <1>3, <2>1, <2>2 DEF AttemptsCountClaims
  <1>11. QED
    BY <1>7, <1>9, <1>10

LEMMA InvStep ==
  ASSUME Inv, [Next]_vars
  PROVE  Inv'
  <1>0. TypeOK'
    BY TypeStep DEF Inv
  <1>1. ASSUME NEW j \in Jobs, Submit(j) \/ SubmitWorkflow(j) PROVE Inv'
    <2>1. PICK s \in {"pending", "queued"} :
            /\ row[j] = None /\ row' = [row EXCEPT ![j] = New(s)]
            /\ batch' = batch /\ claims' = claims
      BY <1>1 DEF Submit, SubmitWorkflow, CreateJob
    <2>2. row'[j].attempts = 0 /\ \A k \in Jobs \ {j} : row'[k] = row[k]
      BY <2>1 DEF New, Inv, TypeOK
    <2>3. QED
      BY <1>0, <2>1, <2>2, BatchesKept DEF HasStatus, Inv
  <1>2. ASSUME NEW j \in Jobs, Cancel(j) \/ RetryFromDashboard(j) \/ CancelWorkflow(j) PROVE Inv'
    <2>1. PICK s \in {"queued", "cancelled"}, d \in BOOLEAN :
            /\ row[j] # None
            /\ row' = [row EXCEPT ![j] = UpdateJob(j, s, d)]
            /\ UpdateJob(j, s, d) \in Row
            /\ UpdateJob(j, s, d).status = s
            /\ UpdateJob(j, s, d).attempts = row[j].attempts
            /\ batch' = batch /\ claims' = claims
      BY <1>2, Acted DEF Inv
    <2>2. row'[j] = UpdateJob(j, s, d) /\ \A k \in Jobs \ {j} : row'[k] = row[k]
      BY <2>1 DEF Inv, TypeOK
    <2>3. row'[j] # None
      BY <2>1, <2>2, NoneIsNoRow
    <2>4. QED
      BY <1>0, <2>1, <2>2, <2>3, BatchesKept DEF HasStatus, Inv
  <1>3. ASSUME NEW j \in Jobs, BackoffPasses(j) \/ LeaseExpires(j) PROVE Inv'
    <2>1. row[j] \in Row /\ row[j] # None /\ batch' = batch /\ claims' = claims
      BY <1>3 DEF Inv, TypeOK, BackoffPasses, LeaseExpires
    <2>2. PICK new \in Row :
            /\ new.status = row[j].status /\ new.attempts = row[j].attempts
            /\ row' = [row EXCEPT ![j] = new]
      <3>1. /\ [row[j] EXCEPT !.due = TRUE] \in Row
            /\ [row[j] EXCEPT !.due = TRUE].status = row[j].status
            /\ [row[j] EXCEPT !.due = TRUE].attempts = row[j].attempts
            /\ [row[j] EXCEPT !.lease = "expired"] \in Row
            /\ [row[j] EXCEPT !.lease = "expired"].status = row[j].status
            /\ [row[j] EXCEPT !.lease = "expired"].attempts = row[j].attempts
        BY <2>1 DEF Row
      <3>2. CASE BackoffPasses(j)
        BY <3>1, <3>2 DEF BackoffPasses
      <3>3. CASE LeaseExpires(j)
        BY <3>1, <3>3 DEF LeaseExpires
      <3>4. QED
        BY <1>3, <3>2, <3>3
    <2>3. row'[j] = new /\ row'[j] # None /\ \A k \in Jobs \ {j} : row'[k] = row[k]
      BY <2>2, NoneIsNoRow DEF Inv, TypeOK
    <2>4. QED
      BY <1>0, <2>1, <2>2, <2>3, BatchesKept DEF HasStatus, Inv
  <1>4. CASE batch' = batch /\ claims' = claims /\ row' = row
    BY <1>0, <1>4, BatchesKept DEF HasStatus, Inv
  <1>5. ASSUME NEW p \in Procs, Restart(p) PROVE Inv'
    <2>1. row' = row /\ claims' = claims
      BY <1>5 DEF Restart
    <2>2. \A t \in Threads : batch'[t] = batch[t] \/ batch'[t] = <<>>
      BY <1>5 DEF Restart
    <2>3. QED
      BY <1>0, <2>1, <2>2, BatchesShrink DEF Inv
  <1>6. ASSUME NEW t \in Threads, StoreError(t) PROVE Inv'
    <2>1. row' = row /\ claims' = claims /\ batch[t] # <<>>
      BY <1>6 DEF StoreError
    <2>2. /\ \A u \in Threads \ {t} : batch'[u] = batch[u]
          /\ batch'[t] = <<>> \/ batch'[t] = Tail(batch[t])
      BY <1>6 DEF StoreError, Inv, TypeOK
    <2>3. QED
      BY <1>0, <2>1, <2>2, BatchesShrink DEF Inv
  <1>7. ASSUME NEW t \in Threads, ClaimJobs(t) PROVE Inv'
    BY <1>0, <1>7, ClaimKeepsInv DEF Inv
  <1>8. ASSUME NEW t \in Threads, DenyTenant(t) \/ HandlerSucceeds(t) \/ HandlerFails(t) PROVE Inv'
    BY <1>0, <1>8, RecordKeepsInv DEF Inv
  <1>9. QED
    BY <1>1, <1>2, <1>3, <1>4, <1>5, <1>6, <1>7, <1>8 DEF Next, vars, Tick, LeaderExpires

LEMMA InvInit == Init => Inv
  BY JobsAssumption
  DEF Init, Inv, TypeOK, OneRunnerPerJob, HeldIsNotClaimable, AttemptsCountClaims, HasStatus

(***************************************************************************)
(* The rows of durable_jobs keep to their schema, and what a worker holds  *)
(* are jobs with the attempts it read back.                                *)
(***************************************************************************)
THEOREM TypeCorrect == Spec => []TypeOK
  <1>1. Inv => TypeOK
    BY DEF Inv
  <1>2. QED
    BY <1>1, InvInit, InvStep, PTL DEF Spec

(***************************************************************************)
(* Workers claim jobs atomically (docs/durable-jobs.md): with any number   *)
(* of processes and slots, batches of any size, expired leases, restarts,  *)
(* and cancels and retries from a dashboard, no job is in two handlers.    *)
(***************************************************************************)
THEOREM OneRunner == Spec => []OneRunnerPerJob
  <1>1. Inv => OneRunnerPerJob
    BY DEF Inv
  <1>2. QED
    BY <1>1, InvInit, InvStep, PTL DEF Spec

(***************************************************************************)
(* A job is never claimed more than max_attempts times (RunOnce).          *)
(***************************************************************************)
THEOREM AttemptsBound == Spec => []ClaimsWithinAttempts
  <1>1. Inv => ClaimsWithinAttempts
    BY DEF Inv, AttemptsCountClaims, ClaimsWithinAttempts
  <1>2. QED
    BY <1>1, InvInit, InvStep, PTL DEF Spec

-------------------------------------------------------------------------------
(* What may happen to the row of a job in a step: nothing, its creation, an    *)
(* update by a dashboard or by the thread that has the job, a claim, time.     *)
Updated(k) == row[k] # None /\ row'[k].lease = "null" /\ (actions' # actions \/ Held(k))
Aged(k) ==
  \/ row'[k] = [row[k] EXCEPT !.due = TRUE]
  \/ row[k].lease = "held" /\ row'[k] = [row[k] EXCEPT !.lease = "expired"]
Moved(k) ==
  \/ row'[k] = row[k]
  \/ row[k] = None /\ row'[k].status \in {"pending", "queued"}
  \/ Updated(k)
  \/ HasStatus(k, {"pending", "retry"}) /\ row'[k].status = "running"
  \/ row[k] # None /\ Aged(k)

LEMMA RowMoves ==
  ASSUME Inv, [Next]_vars, NEW k \in Jobs
  PROVE  Moved(k)
  <1>1. ASSUME NEW j \in Jobs, Submit(j) \/ SubmitWorkflow(j) PROVE Moved(k)
    BY <1>1 DEF Submit, SubmitWorkflow, CreateJob, New, Moved, Inv, TypeOK
  <1>2. ASSUME NEW j \in Jobs, Cancel(j) \/ RetryFromDashboard(j) \/ CancelWorkflow(j) PROVE Moved(k)
    <2>1. PICK x \in Row : /\ row[j] # None /\ x.lease = "null" /\ row' = [row EXCEPT ![j] = x]
                           /\ actions' = actions + 1
      <3>1. PICK s \in {"queued", "cancelled"}, d \in BOOLEAN :
              /\ row[j] # None /\ actions' = actions + 1
              /\ row' = [row EXCEPT ![j] = UpdateJob(j, s, d)]
              /\ UpdateJob(j, s, d) \in Row
        BY <1>2, Acted DEF Inv
      <3>2. row[j] \in Row
        BY <3>1 DEF Inv, TypeOK
      <3>3. UpdateJob(j, s, d).lease = "null"
        BY <3>2 DEF UpdateJob, Row
      <3>4. QED
        BY <3>1, <3>3
    <2>2. actions' # actions
      BY <2>1 DEF Inv, TypeOK
    <2>3. QED
      BY <2>1, <2>2 DEF Moved, Updated, Inv, TypeOK
  <1>3. ASSUME NEW j \in Jobs, BackoffPasses(j) \/ LeaseExpires(j) PROVE Moved(k)
    <2>1. PICK x, y : x = [row[j] EXCEPT !.due = TRUE] /\ y = [row[j] EXCEPT !.lease = "expired"]
      OBVIOUS
    <2>2. /\ row[j] # None
          /\ \/ row' = [row EXCEPT ![j] = x]
             \/ row' = [row EXCEPT ![j] = y] /\ row[j].lease = "held"
      BY <1>3, <2>1 DEF BackoffPasses, LeaseExpires
    <2>3. QED
      BY <2>1, <2>2 DEF Moved, Aged, Inv, TypeOK
  <1>4. ASSUME NEW t \in Threads, ClaimJobs(t) PROVE Moved(k)
    <2>1. PICK S \in SUBSET Jobs :
            /\ \A j \in S : HasStatus(j, {"pending", "retry"})
            /\ row' = [j \in Jobs |-> IF j \in S THEN Claim(j) ELSE row[j]]
      BY <1>4, ClaimFacts DEF Inv
    <2>2. CASE k \in S
      <3>1. HasStatus(k, {"pending", "retry"}) /\ row[k] # None /\ row'[k] = Claim(k)
        BY <2>1, <2>2 DEF HasStatus
      <3>2. Claim(k).status = "running"
        BY <3>1, ClaimType DEF Inv
      <3>3. QED
        BY <3>1, <3>2 DEF Moved
    <2>3. CASE k \notin S
      BY <2>1, <2>3 DEF Moved
    <2>4. QED
      BY <2>2, <2>3
  <1>5. ASSUME NEW t \in Threads, DenyTenant(t) \/ HandlerSucceeds(t) \/ HandlerFails(t) PROVE Moved(k)
    <2>1. batch[t] # <<>> /\ \E s \in Statuses, d \in BOOLEAN : Record(t, s, d)
      BY <1>5, Recorded DEF Inv
    <2>2. PICK s \in Statuses, d \in BOOLEAN : Record(t, s, d)
      BY <2>1
    <2>3. PICK j : j = batch[t][1].job
      OBVIOUS
    <2>4. j \in Jobs /\ 1 \in DOMAIN batch[t] /\ row' = [row EXCEPT ![j] = UpdateJob(j, s, d)]
      BY <2>1, <2>2, <2>3, RecordFacts DEF Inv
    <2>5. Held(j)
      BY <2>3, <2>4 DEF Held, Runs
    <2>6. row[j] # None /\ row[j] \in Row
      BY <2>3, <2>4 DEF Inv, TypeOK, HeldIsNotClaimable, HasStatus
    <2>7. PICK x : x = UpdateJob(j, s, d)
      OBVIOUS
    <2>8. x.lease = "null" /\ row' = [row EXCEPT ![j] = x]
      BY <2>4, <2>6, <2>7 DEF UpdateJob, Row
    <2>9. QED
      BY <2>4, <2>5, <2>6, <2>8 DEF Moved, Updated, Inv, TypeOK
  <1>6. CASE row' = row
    BY <1>6 DEF Moved
  <1>7. QED
    BY <1>1, <1>2, <1>3, <1>4, <1>5, <1>6 DEF Next, vars, Tick, Restart, StoreError, LeaderExpires

(* The lease of a job that is over is not running any more.                    *)
Unleased == \A j \in Jobs : HasStatus(j, {"completed", "dead", "cancelled"}) => row[j].lease # "held"

LEMMA UnleasedStep ==
  ASSUME Inv, Unleased, [Next]_vars
  PROVE  Unleased'
  <1>1. SUFFICES ASSUME NEW k \in Jobs, row'[k] # None,
                        row'[k].status \in {"completed", "dead", "cancelled"}
                 PROVE  row'[k].lease # "held"
    BY DEF Unleased, HasStatus
  <1>2. row[k] # None => row[k] \in Row
    BY DEF Inv, TypeOK
  <1>3. Moved(k)
    BY RowMoves
  <1>4. CASE row'[k] = row[k]
    BY <1>1, <1>4 DEF Unleased, HasStatus
  <1>5. CASE row[k] # None /\ Aged(k)
    <2>1. CASE row'[k] = [row[k] EXCEPT !.due = TRUE]
      <3>1. row'[k].status = row[k].status /\ row'[k].lease = row[k].lease
        BY <1>2, <1>5, <2>1 DEF Row
      <3>2. QED
        BY <1>1, <1>5, <3>1 DEF Unleased, HasStatus
    <2>2. CASE row'[k] = [row[k] EXCEPT !.lease = "expired"]
      BY <1>2, <1>5, <2>2 DEF Row
    <2>3. QED
      BY <1>5, <2>1, <2>2 DEF Aged
  <1>6. QED
    BY <1>1, <1>3, <1>4, <1>5 DEF Moved, Updated

LEMMA SettledStep ==
  ASSUME Inv, Unleased, [Next]_vars, NEW j \in Jobs, Settled(j), actions' = actions
  PROVE  row'[j] = [row[j] EXCEPT !.due = row'[j].due]
  <1>1. /\ row[j] # None /\ row[j].status \in {"completed", "dead", "cancelled"}
        /\ ~ Held(j) /\ row[j].lease # "held"
    BY DEF Settled, HasStatus, Unleased
  <1>2. row[j] \in Row
    BY <1>1 DEF Inv, TypeOK
  <1>3. row'[j] = row[j] \/ row'[j] = [row[j] EXCEPT !.due = TRUE]
    BY <1>1, RowMoves DEF Moved, Updated, Aged, HasStatus
  <1>4. QED
    BY <1>2, <1>3 DEF Row

(***************************************************************************)
(* The runtime takes back no job that is over: late outcomes, expiring     *)
(* leases, claims and restarts leave its row alone (RunOnce, ClaimJobs).   *)
(***************************************************************************)
THEOREM SettledJobsStay == Spec => SettledStays
  <1> DEFINE Kept == \A j \in Jobs :
        Settled(j) /\ actions' = actions => row'[j] = [row[j] EXCEPT !.due = row'[j].due]
  <1>1. Init => Unleased
    BY DEF Init, Unleased, HasStatus
  <1>2. Inv /\ Unleased /\ [Next]_vars => Inv' /\ Unleased'
    BY InvStep, UnleasedStep
  <1>3. Inv /\ Unleased /\ [Next]_vars => [Kept]_vars
    BY SettledStep
  <1>4. QED
    BY <1>1, <1>2, <1>3, InvInit, PTL DEF Spec, SettledStays
===============================================================================
