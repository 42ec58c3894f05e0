--------------------------- MODULE ExchangesProofs ---------------------------
(***************************************************************************)
(* Proofs about Exchanges, for any processes, calls, peers, keys and       *)
(* limits: types, what an exchange that has ended may hold back, that a    *)
(* process answers once for a key, and the limit of the budget; for one    *)
(* process, the one answer of a key and the exact budget.                  *)
(*                                                                         *)
(* The last part is about EventBus, the bus the engine owns, and shares    *)
(* the lemmas about sums.                                                  *)
(***************************************************************************)
EXTENDS Exchanges, EventBus, FiniteSetTheorems, TLAPS

LEMMA Limits ==
  /\ EstInput \in Nat /\ EstOutput \in Nat \ {0} /\ MinViable \in Nat \ {0}
  /\ MaxTotal \in Nat /\ MaxCalls \in Nat /\ MaxRounds \in Nat
  /\ Usages \subseteq Nat
  BY ExchangeAssumption

LEMMA InitialExchange == Fresh \in Exchange
  BY DEF Fresh, Exchange, Ended

(* One exchange moves to another phase, or is replaced.                    *)
LEMMA ChangeType ==
  ASSUME TypeOK, NEW c \in Calls, NEW q \in Peers, NEW x \in Exchange, Change(c, q, x)
  PROVE  exchange' \in [Calls -> [Peers -> Exchange]]
  BY DEF TypeOK, Change

LEMMA PhaseType ==
  ASSUME TypeOK, NEW c \in Calls, NEW q \in Peers,
         NEW place \in {"queued", "reserve", "invoke", "commit", "rollback"} \cup Ended,
         Phase(c, q, place)
  PROVE  exchange' \in [Calls -> [Peers -> Exchange]]
  <1>0. exchange[c][q] \in Exchange
    BY DEF TypeOK
  <1>1. [exchange[c][q] EXCEPT !.at = place] \in Exchange
    BY <1>0 DEF Exchange
  <1>2. exchange' = [exchange EXCEPT ![c][q] = [exchange[c][q] EXCEPT !.at = place]]
    BY DEF Phase
  <1>3. QED
    BY <1>1, <1>2 DEF TypeOK

LEMMA LedgerType ==
  ASSUME TypeOK, NEW c \in Calls, proc[c] \in Procs,
         Unlock(c) \/ (\E q \in Peers :
            ledger' = [ledger EXCEPT ![proc[c]] = [call |-> c, peer |-> q, read |-> used]])
  PROVE  ledger' \in [Procs -> [call : Calls \cup {None}, peer : Peers \cup {None}, read : Int]]
  <1> DEFINE Holder == [call : Calls \cup {None}, peer : Peers \cup {None}, read : Int]
  <1>1. PICK h \in Holder : ledger' = [ledger EXCEPT ![proc[c]] = h]
    BY DEF TypeOK, Unlock, Unlocked
  <1>2. ledger \in [Procs -> Holder]
    BY DEF TypeOK
  <1> HIDE DEF Holder
  <1>3. ledger' \in [Procs -> Holder]
    BY <1>1, <1>2
  <1>4. QED
    BY <1>3 DEF Holder

(* What a reservation holds back is never negative.                        *)
LEMMA ReserveFacts ==
  ASSUME TypeOK, NEW c \in Calls, NEW q \in Peers, proc[c] \in Procs, Reserve(c, q)
  PROVE  /\ used' \in Int
         /\ \/ Phase(c, q, "failed")
            \/ \E n \in Nat : Change(c, q, [Fresh EXCEPT !.at = "invoke", !.reserved = n])
  <1> DEFINE n == EstInput + Bounded(c)
  <1>1. ledger[proc[c]].read \in Int /\ used \in Int
    BY DEF TypeOK
  <1>2. Remaining(c) \in Int
    BY <1>1, Limits DEF Remaining
  <1>3. Bounded(c) \in Int /\ (Remaining(c) >= MinViable => Bounded(c) \in Nat)
    BY <1>2, Limits DEF Bounded
  <1>4. n \in Int /\ (Remaining(c) >= MinViable => n \in Nat)
    BY <1>3, Limits
  <1>5. used' \in Int
    BY <1>1, <1>3, Limits DEF Reserve
  <1>6. ASSUME Remaining(c) >= MinViable,
               Change(c, q, [Fresh EXCEPT !.at = "invoke", !.reserved = n])
        PROVE  \E m \in Nat : Change(c, q, [Fresh EXCEPT !.at = "invoke", !.reserved = m])
    <2>1. n \in Nat
      BY <1>4, <1>6
    <2> HIDE DEF n
    <2>2. QED
      BY <2>1, <1>6
  <1>7. QED
    BY <1>5, <1>6 DEF Reserve

LEMMA CommitFacts ==
  ASSUME TypeOK, NEW c \in Calls, NEW q \in Peers, proc[c] \in Procs, Commit(c, q)
  PROVE  /\ used' \in Int
         /\ \E place \in Ended, n \in Nat :
              Change(c, q, [exchange[c][q] EXCEPT !.reserved = 0, !.over = n, !.at = place])
  <1> DEFINE x == exchange[c][q]
             n == IF x.usage > x.reserved THEN x.usage - x.reserved ELSE 0
             total == ledger[proc[c]].read - x.reserved + x.usage
  <1>1. x \in Exchange /\ ledger[proc[c]].read \in Int
    BY DEF TypeOK
  <1>2. x.reserved \in Nat /\ x.usage \in Nat
    <2>1. \A y \in Exchange : y.reserved \in Nat /\ y.usage \in Usages \cup {0}
      BY DEF Exchange
    <2>2. x.reserved \in Nat /\ x.usage \in Usages \cup {0}
      BY <1>1, <2>1
    <2>3. \A m \in Usages \cup {0} : m \in Nat
      BY Limits
    <2> HIDE DEF x
    <2>4. QED
      BY <2>2, <2>3
  <1>3. n \in Nat
    BY <1>2
  <1>4. used' \in Int
    BY <1>1, <1>2 DEF Commit
  <1>5. Committed(c, q, total)
    BY DEF Commit
  <1>6. \E place \in Ended :
          Change(c, q, [[x EXCEPT !.reserved = 0, !.over = n] EXCEPT !.at = place])
    BY <1>5 DEF Committed, Ended
  <1>7. \A place \in Ended :
          [[x EXCEPT !.reserved = 0, !.over = n] EXCEPT !.at = place]
            = [x EXCEPT !.reserved = 0, !.over = n, !.at = place]
    OBVIOUS
  <1> HIDE DEF x, n
  <1>8. \E place \in Ended : Change(c, q, [x EXCEPT !.reserved = 0, !.over = n, !.at = place])
    BY <1>6, <1>7
  <1>9. QED
    BY <1>3, <1>4, <1>8 DEF x

(***************************************************************************)
(* Types.  A call that has arrived is served by a process, and only one    *)
(* with a key acquires it or is recorded under it.                         *)
(***************************************************************************)
Placed == \A c \in Calls : /\ at[c] # "idle" => proc[c] \in Procs
                           /\ at[c] = "idle" => \A q \in Peers : exchange[c][q] = Fresh
                           /\ at[c] \in {"acquire", "record"} => KeyOf[c] \in Keys

TInv == TypeOK /\ Placed

LEMMA TypeInit == Init => TInv
  <1> SUFFICES ASSUME Init PROVE TInv
    OBVIOUS
  <1>1. TypeOK
    BY InitialExchange DEF Init, TypeOK, Unlocked
  <1>2. Placed
    BY DEF Init, Placed
  <1>3. QED
    BY <1>1, <1>2 DEF TInv

(* Only a call that has arrived steps.                                     *)
LEMMA StepsArrived ==
  ASSUME TInv, NEW c \in Calls, CallStep(c)
  PROVE  at[c] # "idle" /\ proc[c] \in Procs /\ Asked[c] \subseteq Peers
  <1>1. Asked[c] \subseteq Peers
    BY ExchangeAssumption
  <1>2. at[c] = "idle" => \A q \in Asked[c] : exchange[c][q].at = "queued"
    BY <1>1 DEF TInv, Placed, Fresh
  <1>3. at[c] # "idle"
    BY <1>2 DEF CallStep, ExchangeStep, Acquire, StopsWaiting, Admit, CloseSession, Prepare,
       ReadBudget, Reserve, Invoke, Commit, Rollback, StoreRefuses, Join, SaveMessage,
       SaveIdempotency, Release
  <1>4. QED
    BY <1>1, <1>3 DEF TInv, Placed

(* The exchange of one peer: where the others of the call are, and where   *)
(* the call is, does not change.                                           *)
LEMMA ExchangeTypes ==
  ASSUME TInv, NEW c \in Calls, NEW q \in Peers, proc[c] \in Procs, at[c] # "idle",
         ExchangeStep(c, q)
  PROVE  TInv'
  <1> USE DEF TInv
  <1>1. UNCHANGED InExchange
    BY DEF ExchangeStep, Prepare, ReadBudget, Reserve, Invoke, Commit, Rollback, StoreRefuses
  <1>2. exchange[c][q] \in Exchange
    BY DEF TypeOK
  <1>3. /\ used' \in Int
        /\ exchange' \in [Calls -> [Peers -> Exchange]]
        /\ ledger' \in [Procs -> [call : Calls \cup {None}, peer : Peers \cup {None}, read : Int]]
    <2>1. CASE Prepare(c, q)
      BY <2>1, PhaseType DEF Prepare, TypeOK, Ended
    <2>2. CASE ReadBudget(c, q)
      BY <2>2, LedgerType DEF ReadBudget, TypeOK
    <2>3. CASE Reserve(c, q)
      <3>1. Unlock(c)
        BY <2>3 DEF Reserve
      <3>2. \A n \in Nat : [Fresh EXCEPT !.at = "invoke", !.reserved = n] \in Exchange
        BY DEF Fresh, Exchange
      <3>3. QED
        BY <2>3, <3>1, <3>2, ReserveFacts, ChangeType, PhaseType, LedgerType DEF Ended
    <2>4. CASE Invoke(c, q)
      <3>1. \A n \in Usages : [exchange[c][q] EXCEPT !.at = "commit", !.usage = n] \in Exchange
        BY <1>2 DEF Exchange
      <3>2. QED
        BY <2>4, <3>1, ChangeType, PhaseType DEF Invoke, TypeOK
    <2>5. CASE Commit(c, q)
      <3>1. Unlock(c)
        BY <2>5 DEF Commit
      <3>2. \A place \in Ended, n \in Nat :
              [exchange[c][q] EXCEPT !.reserved = 0, !.over = n, !.at = place] \in Exchange
        BY <1>2 DEF Exchange
      <3>3. QED
        BY <2>5, <3>1, <3>2, CommitFacts, ChangeType, LedgerType
    <2>6. CASE Rollback(c, q)
      <3>1. Unlock(c)
        BY <2>6 DEF Rollback
      <3>2. [exchange[c][q] EXCEPT !.at = "failed", !.reserved = 0, !.usage = 0] \in Exchange
        BY <1>2 DEF Exchange, Ended
      <3>3. ledger[proc[c]].read \in Int /\ exchange[c][q].reserved \in Nat
        BY <1>2 DEF TypeOK, Exchange
      <3>4. used' \in Int
        BY <2>6, <3>3 DEF Rollback
      <3>5. QED
        BY <2>6, <3>1, <3>2, <3>4, ChangeType, LedgerType DEF Rollback
    <2>7. CASE StoreRefuses(c, q)
      BY <2>7, PhaseType, LedgerType DEF StoreRefuses, TypeOK, Ended
    <2>8. QED
      BY <2>1, <2>2, <2>3, <2>4, <2>5, <2>6, <2>7 DEF ExchangeStep
  <1>4. TypeOK'
    BY <1>1, <1>3 DEF TypeOK, InExchange
  <1>5. \A d \in Calls : d # c => exchange'[d] = exchange[d]
    BY DEF ExchangeStep, Prepare, ReadBudget, Reserve, Invoke, Commit, Committed, Rollback,
       StoreRefuses, Change, Phase, TypeOK
  <1>6. Placed'
    BY <1>1, <1>5 DEF Placed, InExchange
  <1>7. QED
    BY <1>4, <1>6

LEMMA TypeStep == TInv /\ [Next]_vars => TInv'
  <1> SUFFICES ASSUME TInv, [Next]_vars PROVE TInv'
    OBVIOUS
  <1>1. ASSUME NEW c \in Calls, NEW p \in Procs, Arrive(c, p) PROVE TInv'
    <2>1. TypeOK'
      BY <1>1 DEF TInv, TypeOK, Arrive, Goto, store, process
    <2>2. KeyOf[c] # None => KeyOf[c] \in Keys
      BY ExchangeAssumption
    <2>3. QED
      BY <1>1, <2>1, <2>2 DEF TInv, TypeOK, Placed, Arrive, Goto
  <1>2. ASSUME NEW c \in Calls, CallStep(c) PROVE TInv'
    <2>1. at[c] # "idle" /\ proc[c] \in Procs /\ Asked[c] \subseteq Peers
      BY <1>2, StepsArrived
    <2>2. ASSUME NEW q \in Asked[c], ExchangeStep(c, q) PROVE TInv'
      BY <2>1, <2>2, ExchangeTypes
    <2> DEFINE Places == {"acquire", "admit", "exhausted", "running", "repeated", "save",
                          "record", "release", "done"}
               AtOnly == /\ UNCHANGED <<proc, exchange>>
                         /\ \E x \in Places : at' = [at EXCEPT ![c] = x]
                              /\ (x \in {"acquire", "record"} => KeyOf[c] \in Keys)
    <2>3. ASSUME AtOnly PROVE Placed'
      <3>1. PICK x \in Places : at' = [at EXCEPT ![c] = x]
                              /\ (x \in {"acquire", "record"} => KeyOf[c] \in Keys)
        BY <2>3
      <3>2. \A d \in Calls : at'[d] = IF d = c THEN x ELSE at[d]
        BY <3>1 DEF TInv, TypeOK
      <3>3. proc' = proc /\ exchange' = exchange
        BY <2>3
      <3>4. QED
        BY <2>1, <3>1, <3>2, <3>3 DEF TInv, Placed
    <2>4. ASSUME Acquire(c) PROVE TInv'
      <3>1. KeyOf[c] \in Keys
        BY <2>4 DEF Acquire, TInv, Placed
      <3>2. AtOnly
        BY <2>4 DEF Acquire, Takes, Goto
      <3>3. TypeOK'
        <4>1. inflight' \in [Procs -> [Keys -> Calls \cup {None}]]
          <5>1. inflight' = inflight \/ inflight' = [inflight EXCEPT ![proc[c]][KeyOf[c]] = c]
            BY <2>4 DEF Acquire, Takes
          <5>2. inflight \in [Procs -> [Keys -> Calls \cup {None}]]
            BY DEF TInv, TypeOK
          <5>3. QED
            BY <2>1, <3>1, <5>1, <5>2
        <4>2. reply' \in [Calls -> Calls \cup {None, "error"}]
          BY <2>1, <2>4, <3>1 DEF TInv, TypeOK, Acquire, Takes
        <4>3. at' = [at EXCEPT ![c] = "admit"] \/ at' = [at EXCEPT ![c] = "done"]
          BY <2>4 DEF Acquire, Takes, Goto
        <4>4. UNCHANGED <<store, calls, rounds, lastHash, ledger, proc, left, exchange>>
          BY <2>4 DEF Acquire
        <4>5. QED
          BY <4>1, <4>2, <4>3, <4>4 DEF TInv, TypeOK, store
      <3>4. QED
        BY <2>3, <3>2, <3>3 DEF TInv
    <2>5. ASSUME StopsWaiting(c) PROVE TInv'
      <3>1. AtOnly
        <4>1. UNCHANGED <<proc, exchange>> /\ at' = [at EXCEPT ![c] = "done"]
          BY <2>5 DEF StopsWaiting, Goto
        <4>2. QED
          BY <4>1
      <3>2. TypeOK'
        BY <2>5 DEF TInv, TypeOK, StopsWaiting, Goto, store, process
      <3>3. QED
        BY <2>3, <3>1, <3>2 DEF TInv
    <2>6. ASSUME Admit(c) PROVE TInv'
      <3>1. AtOnly
        <4>1. \E x \in {"release", "exhausted", "running"} : at' = [at EXCEPT ![c] = x]
          BY <2>6, Zenon DEF Admit, Goto
        <4>2. UNCHANGED <<proc, exchange>>
          BY <2>6 DEF Admit
        <4>3. QED
          BY <4>1, <4>2
      <3>2. TypeOK'
        BY <2>1, <2>6 DEF TInv, TypeOK, Admit, Goto, store
      <3>3. QED
        BY <2>3, <3>1, <3>2 DEF TInv
    <2>7. ASSUME CloseSession(c) PROVE TInv'
      <3>1. AtOnly
        <4>1. UNCHANGED <<proc, exchange>> /\ at' = [at EXCEPT ![c] = "release"]
          BY <2>7 DEF CloseSession, Goto
        <4>2. QED
          BY <4>1
      <3>2. TypeOK'
        BY <2>7 DEF TInv, TypeOK, CloseSession, Goto, process
      <3>3. QED
        BY <2>3, <3>1, <3>2 DEF TInv
    <2>8. ASSUME Join(c) PROVE TInv'
      <3>1. AtOnly
        BY <2>8 DEF Join, Goto
      <3>2. TypeOK'
        BY <2>1, <2>8 DEF TInv, TypeOK, Join, Goto, store
      <3>3. QED
        BY <2>3, <3>1, <3>2 DEF TInv
    <2>9. ASSUME SaveMessage(c) PROVE TInv'
      <3>0. KeyOf[c] # None => KeyOf[c] \in Keys
        BY ExchangeAssumption
      <3>1. AtOnly
        BY <2>9, <3>0 DEF SaveMessage, Goto
      <3>2. TypeOK'
        BY <2>9 DEF TInv, TypeOK, SaveMessage, Goto, process
      <3>3. QED
        BY <2>3, <3>1, <3>2 DEF TInv
    <2>10. ASSUME SaveIdempotency(c) PROVE TInv'
      <3>1. AtOnly
        <4>1. UNCHANGED <<proc, exchange>> /\ at' = [at EXCEPT ![c] = "release"]
          BY <2>10 DEF SaveIdempotency, Goto
        <4>2. QED
          BY <4>1
      <3>0. KeyOf[c] \in Keys
        BY <2>10 DEF SaveIdempotency, TInv, Placed
      <3>2. TypeOK'
        <4>1. record' \in [Keys -> Calls \cup {None}]
          BY <2>10, <3>0 DEF TInv, TypeOK, SaveIdempotency
        <4>2. reply' \in [Calls -> Calls \cup {None, "error"}]
          BY <2>10 DEF TInv, TypeOK, SaveIdempotency
        <4>3. at' = [at EXCEPT ![c] = "release"]
          BY <2>10 DEF SaveIdempotency, Goto
        <4>4. UNCHANGED <<session, used, messages, process, proc, left, exchange>>
          BY <2>10 DEF SaveIdempotency
        <4>5. QED
          BY <4>1, <4>2, <4>3, <4>4 DEF TInv, TypeOK, process
      <3>3. QED
        BY <2>3, <3>1, <3>2 DEF TInv
    <2>11. ASSUME Release(c) PROVE TInv'
      <3>1. AtOnly
        <4>1. UNCHANGED <<proc, exchange>> /\ at' = [at EXCEPT ![c] = "done"]
          BY <2>11 DEF Release, Goto
        <4>2. QED
          BY <4>1
      <3>2. TypeOK'
        BY <2>1, <2>11 DEF TInv, TypeOK, Release, Returns, Frees, Goto, store
      <3>3. QED
        BY <2>3, <3>1, <3>2 DEF TInv
    <2>12. QED
      BY <1>2, <2>2, <2>4, <2>5, <2>6, <2>7, <2>8, <2>9, <2>10, <2>11 DEF CallStep
  <1>3. ASSUME NEW c \in Calls, Leave(c) PROVE TInv'
    BY <1>3 DEF TInv, TypeOK, Placed, Leave, store, process
  <1>4. ASSUME StopSession PROVE TInv'
    BY <1>4 DEF TInv, TypeOK, Placed, StopSession, process, call
  <1>5. ASSUME NEW p \in Procs, Crash(p) PROVE TInv'
    <2>0. \A c \in Calls, q \in Peers : exchange[c][q] \in Exchange
      BY DEF TInv, TypeOK
    <2>1. \A c \in Calls, q \in Peers : [exchange[c][q] EXCEPT !.at = "failed"] \in Exchange
      BY <2>0 DEF Exchange, Ended
    <2>2. exchange' \in [Calls -> [Peers -> Exchange]]
      BY <1>5, <2>1 DEF Crash, TInv, TypeOK
    <2>3. TypeOK'
      BY <1>5, <2>2 DEF TInv, TypeOK, Crash, store, Unlocked
    <2>4. Placed'
      BY <1>5 DEF TInv, TypeOK, Placed, Crash, Served
    <2>5. QED
      BY <2>3, <2>4 DEF TInv
  <1>6. CASE UNCHANGED vars
    BY <1>6 DEF TInv, TypeOK, Placed, vars, store, process, call
  <1>7. QED
    BY <1>1, <1>2, <1>3, <1>4, <1>5, <1>6 DEF Next

LEMMA TypeInvariance == Spec => []TInv
  BY TypeInit, TypeStep, PTL DEF Spec

(* Every variable has its type, whatever the limits and the usages.        *)
THEOREM TypeCorrect == Spec => []TypeOK
  <1>1. TInv => TypeOK
    BY DEF TInv
  <1>2. QED
    BY <1>1, TypeInvariance, PTL

(***************************************************************************)
(* What an exchange that has ended may hold back.  Before it reserves it   *)
(* holds nothing back, and a call that is lost stays lost.                 *)
(***************************************************************************)
OInv ==
  /\ \A c \in Calls, q \in Peers :
       exchange[c][q].at \in {"queued", "reserve"} => exchange[c][q].reserved = 0
  /\ EndedOwesNothing

LEMMA ChangeEffect ==
  ASSUME TInv, NEW c \in Calls, NEW q \in Peers, NEW x \in Exchange, Change(c, q, x)
  PROVE  /\ exchange'[c][q] = x
         /\ \A d \in Calls, r \in Peers : d # c \/ r # q => exchange'[d][r] = exchange[d][r]
  <1>1. exchange \in [Calls -> [Peers -> Exchange]]
    BY DEF TInv, TypeOK
  <1> HIDE DEF Exchange
  <1>2. QED
    BY <1>1 DEF Change

LEMMA PhaseEffect ==
  ASSUME TInv, NEW c \in Calls, NEW q \in Peers,
         NEW place \in {"queued", "reserve", "invoke", "commit", "rollback"} \cup Ended,
         Phase(c, q, place)
  PROVE  /\ exchange'[c][q].at = place /\ exchange'[c][q].reserved = exchange[c][q].reserved
         /\ \A d \in Calls, r \in Peers : d # c \/ r # q => exchange'[d][r] = exchange[d][r]
  <1>1. exchange[c][q] \in Exchange
    BY DEF TInv, TypeOK
  <1>2. Change(c, q, [exchange[c][q] EXCEPT !.at = place])
    BY DEF Phase, Change
  <1>3. [exchange[c][q] EXCEPT !.at = place] \in Exchange
    BY <1>1 DEF Exchange
  <1>4. QED
    BY <1>1, <1>2, <1>3, ChangeEffect DEF Exchange

LEMMA OweExchange ==
  ASSUME TInv, OInv, NEW c \in Calls, NEW q \in Peers, proc[c] \in Procs, ExchangeStep(c, q)
  PROVE  OInv'
  <1> DEFINE x == exchange[c][q]
             y == exchange'[c][q]
  <1>1. UNCHANGED InExchange
    BY DEF ExchangeStep, Prepare, ReadBudget, Reserve, Invoke, Commit, Rollback, StoreRefuses
  <1>2. /\ y.at \in {"queued", "reserve"} => y.reserved = 0
        /\ y.at \in Ended /\ y.reserved > 0 => left[c] \/ c \in Lost
        /\ \A d \in Calls, r \in Peers : d # c \/ r # q => exchange'[d][r] = exchange[d][r]
    <2>0. /\ x.at \in {"queued", "reserve"} => x.reserved = 0
          /\ x \in Exchange
      BY DEF OInv, TInv, TypeOK
    <2>1. CASE Prepare(c, q)
      BY <2>0, <2>1, PhaseEffect DEF Prepare, Ended
    <2>2. CASE ReadBudget(c, q)
      BY <2>2 DEF ReadBudget, OInv, EndedOwesNothing
    <2>3. CASE Reserve(c, q)
      <3>1. CASE Phase(c, q, "failed")
        BY <2>0, <2>3, <3>1, PhaseEffect DEF Reserve, Ended
      <3>2. CASE \E n \in Nat : Change(c, q, [Fresh EXCEPT !.at = "invoke", !.reserved = n])
        <4>1. PICK n \in Nat : Change(c, q, [Fresh EXCEPT !.at = "invoke", !.reserved = n])
          BY <3>2
        <4> DEFINE z == [Fresh EXCEPT !.at = "invoke", !.reserved = n]
        <4>2. z \in Exchange /\ z.at = "invoke"
          BY DEF Fresh, Exchange
        <4>3. Change(c, q, z)
          BY <4>1
        <4> HIDE DEF z
        <4>4. QED
          BY <4>2, <4>3, ChangeEffect DEF Ended
      <3>3. QED
        BY <2>3, <3>1, <3>2, ReserveFacts DEF TInv
    <2>4. CASE Invoke(c, q)
      <3>1. CASE Phase(c, q, "rollback")
        BY <3>1, PhaseEffect DEF Ended
      <3>2. CASE \E n \in Usages : Change(c, q, [x EXCEPT !.at = "commit", !.usage = n])
        <4>1. PICK n \in Usages : Change(c, q, [x EXCEPT !.at = "commit", !.usage = n])
          BY <3>2
        <4> DEFINE z == [x EXCEPT !.at = "commit", !.usage = n]
        <4>2. z \in Exchange /\ z.at = "commit"
          BY <2>0 DEF Exchange
        <4>3. Change(c, q, z)
          BY <4>1
        <4> HIDE DEF z
        <4>4. QED
          BY <4>2, <4>3, ChangeEffect DEF Ended
      <3>3. QED
        BY <2>4, <3>1, <3>2 DEF Invoke
    <2>5. CASE Commit(c, q)
      <3>1. PICK place \in Ended, n \in Nat :
              Change(c, q, [x EXCEPT !.reserved = 0, !.over = n, !.at = place])
        BY <2>5, CommitFacts DEF TInv
      <3> DEFINE z == [x EXCEPT !.reserved = 0, !.over = n, !.at = place]
      <3>2. z \in Exchange /\ z.reserved = 0 /\ z.at = place
        BY <2>0 DEF Exchange
      <3>3. Change(c, q, z)
        BY <3>1
      <3> HIDE DEF z
      <3>4. QED
        BY <3>1, <3>2, <3>3, ChangeEffect DEF Ended
    <2>6. CASE Rollback(c, q)
      <3> DEFINE z == [x EXCEPT !.at = "failed", !.reserved = 0, !.usage = 0]
      <3>1. z \in Exchange /\ z.reserved = 0 /\ z.at = "failed"
        BY <2>0 DEF Exchange, Ended
      <3>2. Change(c, q, z)
        BY <2>6 DEF Rollback
      <3> HIDE DEF z
      <3>3. QED
        BY <3>1, <3>2, ChangeEffect DEF Ended
    <2>7. CASE StoreRefuses(c, q)
      BY <2>7, PhaseEffect DEF StoreRefuses, Ended
    <2>8. QED
      BY <2>1, <2>2, <2>3, <2>4, <2>5, <2>6, <2>7 DEF ExchangeStep
  <1> HIDE DEF x, y
  <1>4. \A d \in Calls, r \in Peers :
          \/ exchange'[d][r] = exchange[d][r]
          \/ d = c /\ exchange'[d][r] = y
    BY <1>2 DEF y
  <1>5. Lost' = Lost /\ left' = left
    BY <1>1 DEF InExchange, Lost
  <1>6. QED
    BY <1>2, <1>4, <1>5 DEF OInv, EndedOwesNothing

LEMMA OweStep == TInv /\ OInv /\ [Next]_vars => OInv'
  <1> SUFFICES ASSUME TInv, OInv, [Next]_vars PROVE OInv'
    OBVIOUS
  <1>1. ASSUME exchange' = exchange, \A c \in Calls : left[c] => left'[c],
               \A c \in Lost : c \in Lost'
        PROVE  OInv'
    BY <1>1 DEF OInv, EndedOwesNothing
  <1>2. ASSUME NEW c \in Calls, NEW p \in Procs, Arrive(c, p) PROVE OInv'
    <2>1. Lost' = Lost
      BY <1>2 DEF Arrive, Goto, Lost, TInv, TypeOK
    <2>2. QED
      BY <1>1, <1>2, <2>1 DEF Arrive
  <1>3. ASSUME NEW c \in Calls, CallStep(c) PROVE OInv'
    <2>1. ASSUME NEW q \in Asked[c], ExchangeStep(c, q) PROVE OInv'
      BY <1>3, <2>1, StepsArrived, OweExchange
    <2>2. ASSUME \/ Acquire(c) \/ StopsWaiting(c) \/ Admit(c) \/ CloseSession(c)
                 \/ Join(c) \/ SaveMessage(c) \/ SaveIdempotency(c) \/ Release(c)
          PROVE  OInv'
      <3>1. exchange' = exchange /\ left' = left /\ at[c] # "lost"
        BY <2>2 DEF Acquire, StopsWaiting, Admit, CloseSession, Join, SaveMessage,
           SaveIdempotency, Release
      <3>2. \A d \in Calls : d # c => at'[d] = at[d]
        BY <2>2 DEF Acquire, Takes, StopsWaiting, Admit, CloseSession, Join, SaveMessage,
           SaveIdempotency, Release, Goto, TInv, TypeOK
      <3>3. QED
        BY <1>1, <3>1, <3>2 DEF Lost
    <2>3. QED
      BY <1>3, <2>1, <2>2 DEF CallStep
  <1>4. ASSUME NEW c \in Calls, Leave(c) PROVE OInv'
    <2>1. Lost' = Lost
      BY <1>4 DEF Leave, Lost
    <2>2. QED
      BY <1>1, <1>4, <2>1 DEF Leave, TInv, TypeOK
  <1>5. ASSUME StopSession PROVE OInv'
    BY <1>1, <1>5 DEF StopSession, call, Lost
  <1>6. ASSUME NEW p \in Procs, Crash(p) PROVE OInv'
    <2>1. \A c \in Calls : c \in Lost \/ c \in Served(p) => c \in Lost'
      BY <1>6 DEF Crash, Served, Lost
    <2>2. \A c \in Calls, q \in Peers :
            /\ exchange'[c][q].reserved = exchange[c][q].reserved
            /\ exchange'[c][q] = exchange[c][q]
               \/ (c \in Served(p) /\ exchange'[c][q].at = "failed")
      BY <1>6 DEF Crash, TInv, TypeOK, Exchange
    <2>3. left' = left
      BY <1>6 DEF Crash
    <2>4. QED
      BY <2>1, <2>2, <2>3 DEF OInv, EndedOwesNothing
  <1>7. CASE UNCHANGED vars
    BY <1>1, <1>7 DEF vars, call, Lost
  <1>8. QED
    BY <1>2, <1>3, <1>4, <1>5, <1>6, <1>7 DEF Next

(* Every exchange, however it ends, has discharged its reservation, unless *)
(* its caller left or its process died (the deferred rollback).            *)
THEOREM ReservationsDischarged == Spec => []EndedOwesNothing
  <1>1. Init => OInv
    BY DEF Init, OInv, EndedOwesNothing, Fresh, Ended
  <1>2. OInv => EndedOwesNothing
    BY DEF OInv
  <1>3. QED
    BY <1>1, <1>2, OweStep, TypeInvariance, PTL DEF Spec

(***************************************************************************)
(* Any processes: the call that holds a key is the only one of its process *)
(* between Acquire and Release.  Unless its caller left, it saw no record  *)
(* under the key, and then no call of its process has answered for it.     *)
(***************************************************************************)
Executing == {"admit", "exhausted", "running", "repeated", "save", "record"}
Answers(c) == reply[c] = c /\ KeyOf[c] # None

HoldsKey == \A c \in Calls :
  at[c] \in Executing \cup {"release"} /\ KeyOf[c] # None => inflight[proc[c]][KeyOf[c]] = c
FirstHere == \A c, d \in Calls :
  at[c] \in Executing /\ ~left[c] /\ Answers(d) /\ KeyOf[d] = KeyOf[c] => proc[d] # proc[c]
RecordsFiled ==
  /\ \A k \in Keys : record[k] # None =>
       /\ record[k] \in messages
       /\ KeyOf[record[k]] = k /\ reply[record[k]] = record[k]
  /\ \A c \in Calls : Answers(c) => record[KeyOf[c]] # None
RepliesLate == \A c \in Calls :
  /\ at[c] = "record" => c \in messages
  /\ reply[c] \in Calls => at[c] \in {"release", "done", "lost"}

(* However many processes share the store: who is answered is given the    *)
(* stored answer of a call with its key that was answered with its own,    *)
(* and of these each process has one for a key, over all its lifetimes.    *)
AnsweredOnce ==
  /\ \A c \in Calls : reply[c] \in Calls =>
       /\ reply[c] \in messages
       /\ KeyOf[reply[c]] = KeyOf[c] /\ reply[reply[c]] = reply[c]
  /\ \A c, d \in Calls :
       Answers(c) /\ Answers(d) /\ KeyOf[c] = KeyOf[d] /\ proc[c] = proc[d] => c = d

AInv == HoldsKey /\ FirstHere /\ RecordsFiled /\ RepliesLate /\ AnsweredOnce
OneProcess == \A p, r \in Procs : p = r

(* A step that gives no answer and writes no record.                       *)
Unmoved(c) ==
  /\ reply'[c] = reply[c] \/ (reply'[c] = "error" /\ reply[c] \notin Calls)
  /\ at'[c] \in Executing /\ ~left'[c] /\ KeyOf[c] # None =>
       \/ at[c] \in Executing /\ ~left[c]
       \/ record[KeyOf[c]] = None
  /\ at'[c] = "record" => c \in messages'
  /\ at[c] \in {"release", "done", "lost"} => at'[c] \in {"release", "done", "lost"}

LEMMA Unanswered ==
  ASSUME TInv, AInv, HoldsKey', UNCHANGED <<record, proc>>, messages \subseteq messages',
         \A c \in Calls : Unmoved(c)
  PROVE  AInv'
  <1> USE DEF Unmoved
  <1>1. "error" \notin Calls /\ None \notin Calls
    BY ExchangeAssumption
  <1>2. \A c \in Calls : /\ Answers(c)' <=> Answers(c)
                         /\ reply'[c] \in Calls <=> reply[c] \in Calls
                         /\ reply[c] \in Calls => reply'[c] = reply[c]
    BY <1>1 DEF Answers
  <1>3. RecordsFiled'
    BY <1>1, <1>2 DEF TInv, TypeOK, AInv, RecordsFiled
  <1>4. FirstHere'
    <2> SUFFICES ASSUME NEW c \in Calls, NEW d \in Calls, at'[c] \in Executing, ~left'[c],
                        Answers(d), KeyOf[d] = KeyOf[c]
                 PROVE  proc[d] # proc[c]
      BY <1>2 DEF FirstHere
    <2>1. record[KeyOf[c]] # None /\ KeyOf[c] # None
      BY DEF AInv, RecordsFiled, Answers
    <2>2. QED
      BY <2>1 DEF AInv, FirstHere
  <1>5. RepliesLate'
    BY <1>2 DEF AInv, RepliesLate
  <1>6. AnsweredOnce'
    BY <1>2 DEF AInv, AnsweredOnce
  <1>7. QED
    BY <1>3, <1>4, <1>5, <1>6 DEF AInv

(* Two calls of one key and process between Acquire and Release are one.   *)
LEMMA SoleHolder ==
  ASSUME AInv, NEW c \in Calls, at[c] \in Executing \cup {"release"}, KeyOf[c] # None,
         NEW d \in Calls, at[d] \in Executing \cup {"release"}, KeyOf[d] = KeyOf[c],
         proc[d] = proc[c]
  PROVE  d = c
  BY DEF AInv, HoldsKey

(* The steps of a call.  Those that answer it are taken one by one.        *)
LEMMA AcquireAnswers ==
  ASSUME TInv, AInv, NEW c \in Calls, Acquire(c)
  PROVE  AInv'
  <1> USE DEF TInv
  <1>1. /\ at[c] = "acquire" /\ proc[c] \in Procs /\ KeyOf[c] # None /\ KeyOf[c] \in Keys
        /\ UNCHANGED <<record, messages, proc, left>>
    BY ExchangeAssumption DEF Acquire, Placed, store
  <1>2. None \notin Calls /\ "error" \notin Calls
    BY ExchangeAssumption
  <1>3. CASE Takes(c) /\ (record[KeyOf[c]] = None \/ left[c])
    <2>1. /\ inflight' = [inflight EXCEPT ![proc[c]][KeyOf[c]] = c]
          /\ inflight[proc[c]][KeyOf[c]] = None
          /\ at' = [at EXCEPT ![c] = "admit"] /\ reply' = reply
      BY <1>3 DEF Takes, Goto
    <2>2. HoldsKey'
      BY <1>1, <1>2, <2>1 DEF AInv, TypeOK, Placed, HoldsKey, Executing
    <2>3. \A d \in Calls : /\ d # c => at'[d] = at[d]
                           /\ d = c => at'[d] = "admit"
      BY <2>1 DEF TypeOK
    <2>4. \A d \in Calls : Unmoved(d)
      BY <1>1, <1>3, <2>1, <2>3 DEF AInv, RepliesLate, Executing, Unmoved
    <2>5. QED
      BY <1>1, <2>2, <2>4, Unanswered
  <1>4. CASE /\ record[KeyOf[c]] # None
             /\ reply' = [reply EXCEPT ![c] = record[KeyOf[c]]]
             /\ Goto(c, "done")
             /\ UNCHANGED inflight
    <2>1. PICK r : r = record[KeyOf[c]]
      OBVIOUS
    <2>2. r \in Calls /\ r \in messages /\ KeyOf[r] = KeyOf[c] /\ reply[r] = r
      BY <1>1, <1>4, <2>1 DEF TypeOK, AInv, RecordsFiled
    <2>3. r # c
      BY <1>1, <2>2 DEF AInv, RepliesLate
    <2>4. \A d \in Calls : /\ d # c => at'[d] = at[d] /\ reply'[d] = reply[d]
                           /\ d = c => at'[d] = "done" /\ reply'[d] = r
      BY <1>4, <2>1 DEF Goto, TypeOK
    <2>5. \A d \in Calls : Answers(d)' <=> Answers(d)
      <3>1. reply[c] \notin Calls
        BY <1>1 DEF AInv, RepliesLate
      <3>2. QED
        BY <2>3, <2>4, <3>1 DEF Answers
    <2>6. HoldsKey'
      BY <1>1, <1>4, <2>4 DEF AInv, HoldsKey, Executing
    <2>7. FirstHere'
      BY <1>1, <2>4, <2>5 DEF AInv, FirstHere, Executing
    <2>8. RecordsFiled'
      <3>1. \A k \in Keys : record[k] # None => record[k] # c /\ record[k] \in Calls
        BY <1>1 DEF TypeOK, AInv, RecordsFiled, RepliesLate
      <3>2. QED
        BY <1>1, <2>4, <2>5, <3>1 DEF AInv, RecordsFiled
    <2>9. RepliesLate'
      BY <1>1, <2>4 DEF AInv, RepliesLate
    <2>10. AnsweredOnce'
      <3>1. \A d \in Calls : reply[d] \in Calls => reply[d] # c
        BY <1>1 DEF AInv, AnsweredOnce, RepliesLate
      <3>2. QED
        BY <1>1, <2>2, <2>3, <2>4, <2>5, <3>1 DEF AInv, AnsweredOnce
    <2>11. QED
      BY <2>6, <2>7, <2>8, <2>9, <2>10 DEF AInv
  <1>5. QED
    BY <1>3, <1>4 DEF Acquire

(* Its own answer: a message without a key, or the record under its key.   *)
LEMMA OwnAnswers ==
  ASSUME TInv, AInv, NEW c \in Calls, proc[c] \in Procs, UNCHANGED <<inflight, proc, left>>,
         at[c] \in {"save", "record"}, at' = [at EXCEPT ![c] = "release"],
         reply' = [reply EXCEPT ![c] = c], c \in messages', messages \subseteq messages',
         \/ KeyOf[c] = None /\ record' = record
         \/ /\ KeyOf[c] # None /\ KeyOf[c] \in Keys /\ ~left[c]
            /\ record' = [record EXCEPT ![KeyOf[c]] = c]
  PROVE  AInv'
  <1> USE DEF TInv
  <1>1. None \notin Calls /\ reply[c] \notin Calls
    BY ExchangeAssumption DEF AInv, RepliesLate
  <1>2. \A d \in Calls : /\ d # c => at'[d] = at[d] /\ reply'[d] = reply[d]
                         /\ d = c => at'[d] = "release" /\ reply'[d] = c
    BY DEF TypeOK
  <1>3. \A d \in Calls : Answers(d)' <=> Answers(d) \/ (d = c /\ KeyOf[c] # None)
    BY <1>1, <1>2 DEF Answers
  <1>4. \A d \in Calls : reply[d] \in Calls => reply[d] # c
    BY <1>1 DEF AInv, AnsweredOnce
  <1>5. HoldsKey'
    BY <1>2 DEF AInv, HoldsKey, Executing
  <1>6. FirstHere'
    <2> SUFFICES ASSUME NEW d \in Calls, NEW e \in Calls, at'[d] \in Executing, ~left[d],
                        Answers(e)', KeyOf[e] = KeyOf[d]
                 PROVE  proc[e] # proc[d]
      BY DEF FirstHere
    <2>1. d # c /\ at[d] \in Executing
      BY <1>2 DEF Executing
    <2>2. CASE Answers(e)
      BY <2>1, <2>2 DEF AInv, FirstHere
    <2>3. CASE e = c /\ KeyOf[c] # None
      BY <2>1, <2>3, SoleHolder DEF Executing
    <2>4. QED
      BY <1>3, <2>2, <2>3
  <1>7. RecordsFiled'
    <2>1. ASSUME NEW k \in Keys, record'[k] # None
          PROVE  /\ record'[k] \in messages'
                 /\ KeyOf[record'[k]] = k /\ reply'[record'[k]] = record'[k]
      <3>1. record'[k] = record[k] \/ (k = KeyOf[c] /\ record'[k] = c)
        BY DEF TypeOK
      <3>2. CASE record'[k] = record[k]
        <4>1. /\ record[k] \in messages /\ record[k] \in Calls /\ KeyOf[record[k]] = k
              /\ reply[record[k]] = record[k]
          BY <2>1, <3>2 DEF TypeOK, AInv, RecordsFiled
        <4>2. QED
          BY <1>1, <1>2, <3>2, <4>1
      <3>3. CASE k = KeyOf[c] /\ record'[k] = c
        BY <1>2, <3>3
      <3>4. QED
        BY <3>1, <3>2, <3>3
    <2>2. ASSUME NEW d \in Calls, Answers(d)' PROVE record'[KeyOf[d]] # None
      <3>1. Answers(d) => record[KeyOf[d]] # None
        BY DEF AInv, RecordsFiled
      <3>2. CASE KeyOf[c] = None /\ record' = record
        BY <1>3, <2>2, <3>1, <3>2
      <3>3. CASE KeyOf[c] \in Keys /\ record' = [record EXCEPT ![KeyOf[c]] = c]
        <4>1. KeyOf[d] \in Keys
          BY <2>2, ExchangeAssumption DEF Answers
        <4>2. CASE d = c
          BY <1>1, <3>3, <4>2 DEF TypeOK
        <4>3. CASE d # c
          BY <1>1, <1>3, <2>2, <3>1, <3>3, <4>1, <4>3 DEF TypeOK
        <4>4. QED
          BY <4>2, <4>3
      <3>4. QED
        BY <3>2, <3>3
    <2>3. QED
      BY <2>1, <2>2 DEF RecordsFiled
  <1>8. RepliesLate'
    BY <1>2 DEF AInv, RepliesLate
  <1>9. AnsweredOnce'
    <2>1. ASSUME NEW d \in Calls, reply'[d] \in Calls
          PROVE  /\ reply'[d] \in messages'
                 /\ KeyOf[reply'[d]] = KeyOf[d] /\ reply'[reply'[d]] = reply'[d]
      BY <1>2, <1>4, <2>1 DEF AInv, AnsweredOnce
    <2>2. ASSUME NEW d \in Calls, Answers(d), KeyOf[d] = KeyOf[c], KeyOf[c] # None
          PROVE  proc[d] # proc[c]
      BY <2>2 DEF AInv, FirstHere, Executing
    <2>3. ASSUME NEW d \in Calls, NEW e \in Calls, Answers(d)', Answers(e)',
                 KeyOf[d] = KeyOf[e], proc[d] = proc[e]
          PROVE  d = e
      BY <1>3, <2>2, <2>3 DEF AInv, AnsweredOnce
    <2>4. QED
      BY <2>1, <2>3 DEF AnsweredOnce
  <1>10. QED
    BY <1>5, <1>6, <1>7, <1>8, <1>9 DEF AInv

LEMMA AnswerSteps ==
  ASSUME TInv, AInv, NEW c \in Calls, CallStep(c)
  PROVE  AInv'
  <1> USE DEF TInv
  <1>1. at[c] # "idle" /\ proc[c] \in Procs /\ Asked[c] \subseteq Peers
    BY StepsArrived
  <1>2. KeyOf[c] # None => KeyOf[c] \in Keys
    BY ExchangeAssumption
  <1>3. ASSUME NEW q \in Asked[c], ExchangeStep(c, q) PROVE AInv'
    <2>1. UNCHANGED InExchange
      BY <1>3 DEF ExchangeStep, Prepare, ReadBudget, Reserve, Invoke, Commit, Rollback,
         StoreRefuses
    <2>2. QED
      BY <2>1 DEF InExchange, AInv, HoldsKey, FirstHere, RecordsFiled, RepliesLate,
         AnsweredOnce, Answers
  \* The steps that take no answer: where they lead, and what they leave alone.
  <1>4. ASSUME UNCHANGED <<record, messages, proc, left>>,
               \A d \in Calls : d # c => at'[d] = at[d] /\ reply'[d] = reply[d],
               reply'[c] = reply[c] \/ (reply'[c] = "error" /\ reply[c] \notin Calls),
               \/ inflight' = inflight /\ at[c] \in Executing
                  /\ at'[c] \in (Executing \ {"record"}) \cup {"release"}
               \/ inflight' = inflight /\ at'[c] = "done"
               \/ at[c] = "release" /\ Frees(c) /\ at'[c] = "done"
        PROVE  AInv'
    <2>1. ASSUME inflight' = inflight PROVE HoldsKey'
      BY <1>4, <2>1 DEF AInv, HoldsKey, Executing
    <2>2. ASSUME at[c] = "release", Frees(c), at'[c] = "done" PROVE HoldsKey'
      <3> SUFFICES ASSUME NEW d \in Calls, at'[d] \in Executing \cup {"release"}, KeyOf[d] # None
                   PROVE  inflight'[proc[d]][KeyOf[d]] = d
        BY <1>4 DEF HoldsKey
      <3>1. d # c /\ at[d] \in Executing \cup {"release"}
        BY <1>4, <2>2 DEF Executing
      <3>2. inflight[proc[d]][KeyOf[d]] = d
        BY <3>1 DEF AInv, HoldsKey
      <3>3. KeyOf[d] # KeyOf[c] \/ proc[d] # proc[c]
        BY <2>2, <3>1, SoleHolder
      <3>4. QED
        BY <1>1, <1>2, <2>2, <3>2, <3>3 DEF Frees, TypeOK
    <2>3. HoldsKey'
      BY <1>4, <2>1, <2>2
    <2>4. \A d \in Calls : Unmoved(d)
      BY <1>4 DEF AInv, RepliesLate, Executing, Unmoved
    <2>5. QED
      BY <1>4, <2>3, <2>4, Unanswered
  <1>5. CASE Acquire(c)
    BY <1>5, AcquireAnswers
  <1>6. CASE StopsWaiting(c)
    <2>1. reply[c] \notin Calls
      BY <1>6 DEF StopsWaiting, AInv, RepliesLate
    <2>2. /\ at' = [at EXCEPT ![c] = "done"] /\ reply' = [reply EXCEPT ![c] = "error"]
          /\ UNCHANGED <<messages, record, inflight, proc, left>>
      BY <1>6 DEF StopsWaiting, Goto, store, process
    <2>3. QED
      BY <1>4, <2>1, <2>2 DEF TypeOK
  <1>7. CASE Admit(c) \/ CloseSession(c) \/ Join(c)
    <2>1. /\ at[c] \in {"admit", "exhausted", "repeated", "running"}
          /\ \E x \in {"release", "save", "exhausted", "running", "repeated"} :
               at' = [at EXCEPT ![c] = x]
          /\ UNCHANGED <<messages, record, inflight, proc, left, reply>>
      BY <1>7 DEF Admit, CloseSession, Join, Goto, store, process
    <2>2. QED
      BY <1>4, <2>1 DEF TypeOK, Executing
  <1>8. CASE SaveMessage(c)
    <2>1. at[c] = "save" /\ UNCHANGED <<record, inflight, proc, left>>
      BY <1>8 DEF SaveMessage, process
    <2>2. CASE Goto(c, "release") /\ UNCHANGED <<messages, reply>>
      BY <1>4, <2>1, <2>2 DEF Goto, TypeOK, Executing
    <2>3. CASE messages' = messages \cup {c} /\ KeyOf[c] = None /\ Goto(c, "release")
               /\ reply' = [reply EXCEPT ![c] = c]
      BY <1>1, <2>1, <2>3, OwnAnswers DEF Goto
    <2>4. CASE messages' = messages \cup {c} /\ Goto(c, "record") /\ UNCHANGED reply
      <3>1. \A d \in Calls : /\ d # c => at'[d] = at[d]
                             /\ d = c => at'[d] = "record"
        BY <2>4 DEF Goto, TypeOK
      <3>2. HoldsKey'
        BY <2>1, <3>1 DEF AInv, HoldsKey, Executing
      <3>3. \A d \in Calls : Unmoved(d)
        BY <2>1, <2>4, <3>1 DEF AInv, RepliesLate, Executing, Unmoved
      <3>4. QED
        BY <2>1, <2>4, <3>2, <3>3, Unanswered
    <2>5. QED
      BY <1>8, <2>2, <2>3, <2>4 DEF SaveMessage
  <1>9. CASE SaveIdempotency(c)
    <2>1. /\ at[c] = "record" /\ KeyOf[c] # None /\ at' = [at EXCEPT ![c] = "release"]
          /\ UNCHANGED <<messages, inflight, proc, left>>
      BY <1>9, ExchangeAssumption DEF SaveIdempotency, Goto, Placed, process
    <2>2. CASE UNCHANGED <<record, reply>>
      BY <1>4, <2>1, <2>2 DEF TypeOK, Executing
    <2>3. CASE ~left[c] /\ record' = [record EXCEPT ![KeyOf[c]] = c]
               /\ reply' = [reply EXCEPT ![c] = c]
      BY <1>1, <1>2, <2>1, <2>3, OwnAnswers DEF AInv, RepliesLate
    <2>4. QED
      BY <1>9, <2>2, <2>3 DEF SaveIdempotency
  <1>10. CASE Release(c)
    BY <1>4, <1>10, ExchangeAssumption DEF Release, Returns, Goto, TypeOK, store
  <1>11. QED
    BY <1>3, <1>5, <1>6, <1>7, <1>8, <1>9, <1>10 DEF CallStep

LEMMA AnswerStep == TInv /\ AInv /\ [Next]_vars => AInv'
  <1> SUFFICES ASSUME TInv, AInv, [Next]_vars PROVE AInv'
    OBVIOUS
  <1> USE DEF TInv
  <1>1. ASSUME NEW c \in Calls, NEW p \in Procs, Arrive(c, p) PROVE AInv'
    <2>1. /\ at[c] = "idle" /\ reply[c] \notin Calls /\ reply' = reply
          /\ UNCHANGED <<messages, record, inflight, left>>
      BY <1>1 DEF Arrive, AInv, RepliesLate, store, process
    <2>2. \A d \in Calls : /\ d # c => at'[d] = at[d] /\ proc'[d] = proc[d]
                           /\ d = c => at'[d] = IF KeyOf[c] = None THEN "admit" ELSE "acquire"
      BY <1>1 DEF Arrive, Goto, TypeOK
    <2>3. ~Answers(c) /\ \A d \in Calls : Answers(d)' <=> Answers(d)
      BY <2>1 DEF Answers
    <2>4. HoldsKey'
      BY <2>1, <2>2 DEF AInv, HoldsKey, Executing
    <2>5. FirstHere'
      BY <2>1, <2>2, <2>3 DEF AInv, FirstHere, Executing, Answers
    <2>6. RecordsFiled' /\ AnsweredOnce'
      BY <2>1, <2>2, <2>3 DEF AInv, RecordsFiled, AnsweredOnce
    <2>7. RepliesLate'
      BY <2>1, <2>2 DEF AInv, RepliesLate
    <2>8. QED
      BY <2>4, <2>5, <2>6, <2>7 DEF AInv
  <1>2. ASSUME NEW c \in Calls, CallStep(c) PROVE AInv'
    BY <1>2, AnswerSteps
  <1>3. ASSUME NEW c \in Calls, Leave(c) PROVE AInv'
    BY <1>3 DEF Leave, TypeOK, Executing, store, process,
       AInv, HoldsKey, FirstHere, RecordsFiled, RepliesLate, AnsweredOnce, Answers
  <1>4. ASSUME StopSession PROVE AInv'
    BY <1>4 DEF StopSession, process, call,
       AInv, HoldsKey, FirstHere, RecordsFiled, RepliesLate, AnsweredOnce, Answers
  <1>5. ASSUME NEW p \in Procs, Crash(p) PROVE AInv'
    <2>1. /\ UNCHANGED <<messages, record, proc, left, reply>>
          /\ inflight' = [inflight EXCEPT ![p] = [k \in Keys |-> None]]
      BY <1>5 DEF Crash, store
    <2>2. \A c \in Calls : \/ at'[c] = "lost"
                           \/ at'[c] = at[c] /\ c \notin Served(p)
      BY <1>5 DEF Crash
    <2>3. HoldsKey'
      BY <2>1, <2>2 DEF AInv, HoldsKey, Executing, Served, TypeOK, Placed
    <2>4. \A c \in Calls : Unmoved(c)
      BY <2>1, <2>2 DEF AInv, RepliesLate, Executing, Served, Unmoved
    <2>5. QED
      BY <2>1, <2>3, <2>4, Unanswered
  <1>6. CASE UNCHANGED vars
    BY <1>6 DEF vars, store, process, call,
       AInv, HoldsKey, FirstHere, RecordsFiled, RepliesLate, AnsweredOnce, Answers
  <1>7. QED
    BY <1>1, <1>2, <1>3, <1>4, <1>5, <1>6 DEF Next

LEMMA AnswerInvariance == Spec => []AInv
  <1>1. Init => AInv
    BY ExchangeAssumption DEF Init, AInv, HoldsKey, FirstHere, RecordsFiled, RepliesLate,
       AnsweredOnce, Answers, Executing
  <1>2. QED
    BY <1>1, AnswerStep, TypeInvariance, PTL DEF Spec

(* However many processes share the store, and however they die: a process *)
(* answers for a key with an execution of its own at most once, and every  *)
(* other call of the key is given a stored answer of such an execution.    *)
THEOREM OneAnswerPerProcess == Spec => []AnsweredOnce
  <1>1. AInv => AnsweredOnce
    BY DEF AInv
  <1>2. QED
    BY <1>1, AnswerInvariance, PTL

(* One process: all calls with one key that are answered are given the one *)
(* answer on record (acquireIdempotency and SaveIdempotency).              *)
THEOREM OneAnswerPerKey == OneProcess => (Spec => []AnswersAgree)
  <1> SUFFICES ASSUME OneProcess PROVE Spec => []AnswersAgree
    OBVIOUS
  <1>1. ASSUME TInv, AInv PROVE AnswersAgree
    <2> SUFFICES ASSUME NEW c \in Calls, reply[c] \in Calls
                 PROVE  /\ reply[c] \in messages
                        /\ KeyOf[c] # None => reply[c] = record[KeyOf[c]]
      BY DEF AnswersAgree
    <2>1. PICK d \in Calls : d = reply[c]
      OBVIOUS
    <2>2. d \in messages /\ KeyOf[d] = KeyOf[c] /\ reply[d] = d
      BY <1>1, <2>1 DEF AInv, AnsweredOnce
    <2>3. ASSUME KeyOf[c] # None PROVE d = record[KeyOf[c]]
      <3>1. KeyOf[c] \in Keys
        BY <2>3, ExchangeAssumption
      <3>2. PICK e : e = record[KeyOf[c]]
        OBVIOUS
      <3>3. e # None
        BY <1>1, <2>2, <2>3, <3>2 DEF AInv, RecordsFiled, Answers
      <3>4. e \in Calls /\ KeyOf[e] = KeyOf[c] /\ reply[e] = e
        BY <1>1, <3>1, <3>2, <3>3 DEF AInv, RecordsFiled, TInv, TypeOK
      <3>5. proc[d] = proc[e]
        BY <1>1, <2>2, <3>4 DEF OneProcess, AInv, RepliesLate, TInv, Placed
      <3>6. QED
        BY <1>1, <2>2, <2>3, <3>2, <3>4, <3>5 DEF AInv, AnsweredOnce, Answers
    <2>4. QED
      BY <2>1, <2>2, <2>3
  <1>2. QED
    BY <1>1, AnswerInvariance, TypeInvariance, PTL
-----------------------------------------------------------------------------
(* Sums.  A sum is the number of its tokens; the tokens of one element are *)
(* apart from those of the others.                                         *)

Tokens(f, S) == UNION {{s} \X (1 .. f[s]) : s \in S}

LEMMA TokensFinite ==
  ASSUME NEW S, IsFiniteSet(S), NEW f, \A s \in S : f[s] \in Nat
  PROVE  IsFiniteSet(Tokens(f, S))
  <1> DEFINE T == {{s} \X (1 .. f[s]) : s \in S}
             g == [s \in S |-> {s} \X (1 .. f[s])]
  <1>1. g \in Surjection(S, T)
    BY DEF Surjection
  <1>2. IsFiniteSet(T)
    BY <1>1, FS_Surjection
  <1>3. ASSUME NEW s \in S PROVE IsFiniteSet({s} \X (1 .. f[s]))
    <2>1. f[s] \in Int /\ 1 \in Int
      OBVIOUS
    <2>2. IsFiniteSet(1 .. f[s])
      BY <2>1, FS_Interval
    <2>3. QED
      BY <2>2, FS_Singleton, FS_Product
  <1>4. QED
    BY <1>2, <1>3, FS_UNION DEF Tokens

LEMMA TokensSplit ==
  ASSUME NEW S, IsFiniteSet(S), NEW f, \A s \in S : f[s] \in Nat, NEW x \in S
  PROVE  /\ Cardinality(Tokens(f, S \ {x})) \in Nat
         /\ Cardinality(Tokens(f, S)) = Cardinality(Tokens(f, S \ {x})) + f[x]
  <1> DEFINE others == Tokens(f, S \ {x})
             own == {x} \X (1 .. f[x])
  <1>1. IsFiniteSet(others) /\ Cardinality(others) \in Nat
    <2>1. IsFiniteSet(S \ {x})
      BY FS_RemoveElement
    <2>2. IsFiniteSet(others)
      BY <2>1, TokensFinite
    <2>3. QED
      BY <2>2, FS_CardinalityType
  <1>2. IsFiniteSet(own) /\ Cardinality(own) = f[x]
    <2>1. IsFiniteSet({x}) /\ Cardinality({x}) = 1
      BY FS_Singleton
    <2>2. IsFiniteSet(1 .. f[x]) /\ Cardinality(1 .. f[x]) = f[x]
      BY FS_Interval
    <2>3. IsFiniteSet(own) /\ Cardinality(own) = 1 * f[x]
      BY <2>1, <2>2, FS_Product
    <2>4. QED
      BY <2>3
  <1>3. Tokens(f, S) = others \cup own
    BY DEF Tokens
  <1>4. others \cap own = {}
    BY DEF Tokens
  <1> HIDE DEF others, own
  <1>5. Cardinality(Tokens(f, S)) = Cardinality(others) + Cardinality(own)
    BY <1>1, <1>2, <1>3, <1>4, FS_Union, FS_EmptySet
  <1>6. QED
    BY <1>1, <1>2, <1>5 DEF others

(* A sum in which one summand changes.                                     *)
LEMMA TotalChange ==
  ASSUME NEW S, IsFiniteSet(S), NEW f \in [S -> Nat], NEW g \in [S -> Nat], NEW x \in S,
         \A s \in S \ {x} : f[s] = g[s]
  PROVE  Total(f) \in Nat /\ Total(g) \in Nat /\ Total(g) = Total(f) - f[x] + g[x]
  <1>1. Tokens(f, S \ {x}) = Tokens(g, S \ {x})
    <2>1. \A s \in S \ {x} : {s} \X (1 .. f[s]) = {s} \X (1 .. g[s])
      OBVIOUS
    <2>2. QED
      BY <2>1 DEF Tokens
  <1>2. Total(f) = Cardinality(Tokens(f, S)) /\ Total(g) = Cardinality(Tokens(g, S))
    BY DEF Total, Tokens
  <1>3. f[x] \in Nat /\ g[x] \in Nat
    OBVIOUS
  <1>4. /\ Cardinality(Tokens(f, S \ {x})) \in Nat
        /\ Cardinality(Tokens(f, S)) = Cardinality(Tokens(f, S \ {x})) + f[x]
        /\ Cardinality(Tokens(g, S)) = Cardinality(Tokens(g, S \ {x})) + g[x]
    BY TokensSplit
  <1>5. QED
    BY <1>1, <1>2, <1>3, <1>4

LEMMA TotalZero ==
  ASSUME NEW S, NEW f \in [S -> Nat], \A s \in S : f[s] = 0
  PROVE  Total(f) = 0
  <1>1. \A s \in S : {s} \X (1 .. f[s]) = {}
    OBVIOUS
  <1>2. UNION {{s} \X (1 .. f[s]) : s \in DOMAIN f} = {}
    BY <1>1
  <1>3. QED
    BY <1>2, FS_EmptySet DEF Total

-----------------------------------------------------------------------------
(* The budget.  Before it reserves an exchange counts for nothing, until   *)
(* it is discharged for its reservation.  Who holds the mutex of a process *)
(* has read what the budget is if there is one process; with others it may *)
(* have changed since, but what was read is within the limit that holds.   *)
Staged(x) ==
  /\ x.at \in {"queued", "reserve"} => x.reserved = 0 /\ x.usage = 0 /\ x.over = 0
  /\ x.at \in {"invoke", "commit", "rollback"} => x.reserved > 0 /\ x.over = 0

StagesHold == \A c \in Calls, q \in Peers : Staged(exchange[c][q])
ReadIsCurrent == \A p \in Procs : ledger[p].call # None => ledger[p].read = used
ReadIsBounded == \A p \in Procs : ledger[p].call # None => ledger[p].read <= MaxTotal + Total(Overrun)

LInv == StagesHold /\ ReadIsBounded /\ LimitHolds
BInv == StagesHold /\ ReadIsCurrent /\ BudgetBalanced

LEMMA ExchangeNumbers ==
  ASSUME NEW x \in Exchange
  PROVE  x.reserved \in Nat /\ x.usage \in Nat /\ x.over \in Nat /\ Owes(x) \in Nat
  <1>1. x.reserved \in Nat /\ x.usage \in Usages \cup {0} /\ x.over \in Nat
    BY DEF Exchange
  <1>2. \A m \in Usages \cup {0} : m \in Nat
    BY Limits
  <1>3. QED
    BY <1>1, <1>2 DEF Owes

LEMMA SummandTypes ==
  ASSUME NEW e \in [Calls -> [Peers -> Exchange]]
  PROVE  /\ [s \in Calls \X Peers |-> Owes(e[s[1]][s[2]])] \in [Calls \X Peers -> Nat]
         /\ [s \in Calls \X Peers |-> e[s[1]][s[2]].over] \in [Calls \X Peers -> Nat]
  <1>1. ASSUME NEW s \in Calls \X Peers PROVE e[s[1]][s[2]] \in Exchange
    OBVIOUS
  <1>2. QED
    BY <1>1, ExchangeNumbers

(* One exchange changes, and each sum by its summand.                      *)
LEMMA SumsChange ==
  ASSUME TInv, TypeOK', NEW c \in Calls, NEW q \in Peers,
         \A d \in Calls, r \in Peers : d # c \/ r # q => exchange'[d][r] = exchange[d][r],
         NEW x, x = exchange[c][q], NEW y, y = exchange'[c][q],
         NEW f, f = Owed, NEW g, g = Owed', NEW h, h = Overrun, NEW k, k = Overrun'
  PROVE  /\ Total(f) \in Nat /\ Total(g) = Total(f) - Owes(x) + Owes(y)
         /\ Total(h) \in Nat /\ Total(k) \in Nat /\ Total(k) = Total(h) - x.over + y.over
  <1> DEFINE S == Calls \X Peers
  <1>1. PICK z : z = <<c, q>>
    OBVIOUS
  <1>2. IsFiniteSet(S) /\ z \in S
    BY <1>1, ExchangeAssumption, FS_Product
  <1>3. /\ f \in [S -> Nat] /\ h \in [S -> Nat]
        /\ g \in [S -> Nat] /\ k \in [S -> Nat]
    BY SummandTypes DEF Owed, Overrun, TInv, TypeOK
  <1>4. f[z] = Owes(x) /\ g[z] = Owes(y) /\ h[z] = x.over /\ k[z] = y.over
    BY <1>1, <1>2 DEF Owed, Overrun
  <1>5. \A s \in S \ {z} : f[s] = g[s] /\ h[s] = k[s]
    BY <1>1 DEF Owed, Overrun
  <1> HIDE DEF S
  <1>6. Total(f) \in Nat /\ Total(g) = Total(f) - f[z] + g[z]
    BY <1>2, <1>3, <1>5, TotalChange
  <1>7. Total(h) \in Nat /\ Total(k) \in Nat /\ Total(k) = Total(h) - h[z] + k[z]
    BY <1>2, <1>3, <1>5, TotalChange
  <1>8. QED
    BY <1>4, <1>6, <1>7

LEMMA OverrunCounts == TInv => Total(Overrun) \in Nat
  <1> SUFFICES ASSUME TInv PROVE Total(Overrun) \in Nat
    OBVIOUS
  <1>1. Overrun \in [Calls \X Peers -> Nat] /\ IsFiniteSet(Calls \X Peers)
    BY SummandTypes, ExchangeAssumption, FS_Product DEF Overrun, TInv, TypeOK
  <1>2. ASSUME NEW S, IsFiniteSet(S), NEW f \in [S -> Nat] PROVE Total(f) \in Nat
    <2>1. Total(f) = Cardinality(Tokens(f, S))
      BY <1>2 DEF Total, Tokens
    <2>2. QED
      BY <1>2, <2>1, TokensFinite, FS_CardinalityType
  <1>3. QED
    BY <1>1, <1>2

(* What a step of an exchange does to it and to the budget: r is what the  *)
(* holder of the mutex has read, and all that it knows of the budget.      *)
Quiet(x, y) == used' = used /\ Owes(y) = Owes(x) /\ y.over = x.over

Written(x, y, r) ==
  /\ used' = r - Owes(x) + Owes(y)
  /\ used' <= MaxTotal \/ used' <= r - x.over + y.over

LEMMA BudgetEffects ==
  ASSUME TInv, StagesHold, TypeOK', NEW c \in Calls, NEW q \in Peers, proc[c] \in Procs,
         ExchangeStep(c, q),
         NEW x, x = exchange[c][q], NEW y, y = exchange'[c][q], NEW r, r = ledger[proc[c]].read
  PROVE  /\ \A d \in Calls, s \in Peers : d # c \/ s # q => exchange'[d][s] = exchange[d][s]
         /\ Staged(y) /\ y.over >= x.over
         /\ \/ Quiet(x, y) /\ ledger' = ledger
            \/ /\ Quiet(x, y)
               /\ ledger' = [ledger EXCEPT ![proc[c]] = [call |-> c, peer |-> q, read |-> used]]
            \/ Quiet(x, y) /\ Holds(c, q) /\ Unlock(c)
            \/ Written(x, y, r) /\ Holds(c, q) /\ Unlock(c)
  <1> DEFINE Rest == \A d \in Calls, s \in Peers :
                       d # c \/ s # q => exchange'[d][s] = exchange[d][s]
  <1>1. x \in Exchange /\ y \in Exchange /\ r \in Int /\ used \in Int /\ Staged(x)
    BY DEF TInv, TypeOK, StagesHold
  <1>2. /\ x.reserved \in Nat /\ x.usage \in Nat /\ x.over \in Nat /\ Owes(x) \in Nat
        /\ y.reserved \in Nat /\ y.usage \in Nat /\ y.over \in Nat /\ Owes(y) \in Nat
    BY <1>1, ExchangeNumbers
  <1>3. ASSUME NEW z \in Exchange, Change(c, q, z) PROVE y = z /\ Rest
    BY <1>3, ChangeEffect
  <1>4. ASSUME NEW place \in {"reserve", "rollback", "failed"}, Phase(c, q, place)
        PROVE  /\ Rest /\ y.at = place
               /\ y.reserved = x.reserved /\ y.usage = x.usage /\ y.over = x.over
    <2> DEFINE z == [x EXCEPT !.at = place]
    <2>1. z \in Exchange
      BY <1>1 DEF Exchange, Ended
    <2>2. z.at = place /\ z.over = x.over /\ z.reserved = x.reserved /\ z.usage = x.usage
      BY <1>1 DEF Exchange
    <2>3. Change(c, q, z)
      BY <1>4 DEF Phase, Change
    <2> HIDE DEF z
    <2>4. QED
      BY <1>3, <2>1, <2>2, <2>3
  <1> HIDE DEF Rest
  <1>5. CASE Prepare(c, q)
    <2>1. x.at = "queued" /\ used' = used /\ ledger' = ledger
      BY <1>5 DEF Prepare
    <2>2. PICK place \in {"reserve", "failed"} : Phase(c, q, place)
      BY <1>5 DEF Prepare
    <2>3. QED
      BY <1>1, <1>2, <1>4, <2>1, <2>2 DEF Staged, Owes, Quiet, Rest
  <1>6. CASE ReadBudget(c, q)
    <2>1. used' = used /\ exchange' = exchange
          /\ ledger' = [ledger EXCEPT ![proc[c]] = [call |-> c, peer |-> q, read |-> used]]
      BY <1>6 DEF ReadBudget
    <2>2. QED
      BY <1>1, <1>2, <2>1 DEF Quiet, Rest
  <1>7. CASE Reserve(c, q)
    <2>1. x.at = "reserve" /\ Holds(c, q) /\ Unlock(c)
      BY <1>7 DEF Reserve
    <2>2. ASSUME Phase(c, q, "failed"), used' = used
          PROVE  Rest /\ Staged(y) /\ y.over >= x.over /\ Quiet(x, y)
      BY <1>1, <1>2, <1>4, <2>1, <2>2 DEF Staged, Owes, Quiet
    <2>3. ASSUME NEW n, n = EstInput + Bounded(c), Remaining(c) >= MinViable,
                 Change(c, q, [Fresh EXCEPT !.at = "invoke", !.reserved = n]),
                 used' = r + EstInput + Bounded(c)
          PROVE  Rest /\ Staged(y) /\ y.over >= x.over /\ Written(x, y, r)
      <3>1. PICK m : m = Remaining(c)
        OBVIOUS
      <3>2. m \in Int /\ m + EstInput = MaxTotal - r /\ m >= MinViable
        BY <1>1, <2>3, <3>1, Limits DEF Remaining
      <3>3. Bounded(c) = IF m < EstOutput THEN m ELSE EstOutput
        BY <3>1 DEF Bounded
      <3>4. Bounded(c) \in Nat /\ Bounded(c) > 0 /\ Bounded(c) <= m
        BY <3>2, <3>3, Limits
      <3>5. n \in Nat /\ n > 0 /\ used' = r + n /\ used' <= MaxTotal
        BY <1>1, <2>3, <3>2, <3>4, Limits
      <3> DEFINE z == [Fresh EXCEPT !.at = "invoke", !.reserved = n]
      <3>6. z \in Exchange /\ z.at = "invoke" /\ z.reserved = n /\ z.over = 0
        BY <3>5 DEF Fresh, Exchange
      <3>7. Change(c, q, z)
        BY <2>3
      <3> HIDE DEF z
      <3>8. y = z /\ Rest
        BY <1>3, <3>6, <3>7
      <3>9. Staged(y) /\ Owes(y) = n /\ Owes(x) = 0 /\ x.over = 0 /\ y.over = 0
        BY <1>1, <2>1, <3>5, <3>6, <3>8 DEF Staged, Owes
      <3>10. QED
        BY <1>1, <3>5, <3>8, <3>9 DEF Written
    <2>4. QED
      BY <1>7, <2>1, <2>2, <2>3 DEF Reserve, Rest
  <1>8. CASE Invoke(c, q)
    <2>1. x.at = "invoke" /\ used' = used /\ ledger' = ledger /\ x.reserved > 0 /\ x.over = 0
      BY <1>1, <1>8 DEF Invoke, Staged
    <2>2. ASSUME Phase(c, q, "rollback")
          PROVE  Rest /\ Staged(y) /\ y.over >= x.over /\ Quiet(x, y)
      BY <1>2, <1>4, <2>1, <2>2 DEF Staged, Owes, Quiet
    <2>3. ASSUME NEW n \in Usages, Change(c, q, [x EXCEPT !.at = "commit", !.usage = n])
          PROVE  Rest /\ Staged(y) /\ y.over >= x.over /\ Quiet(x, y)
      <3> DEFINE z == [x EXCEPT !.at = "commit", !.usage = n]
      <3>1. z \in Exchange /\ z.at = "commit" /\ z.reserved = x.reserved /\ z.over = x.over
        BY <1>1 DEF Exchange
      <3>2. Change(c, q, z)
        BY <2>3
      <3> HIDE DEF z
      <3>3. y = z /\ Rest
        BY <1>3, <3>1, <3>2
      <3>4. QED
        BY <1>2, <2>1, <3>1, <3>3 DEF Staged, Owes, Quiet
    <2>4. QED
      BY <1>8, <2>1, <2>2, <2>3 DEF Invoke, Rest
  <1>9. CASE Commit(c, q)
    <2>1. /\ x.at = "commit" /\ x.reserved > 0 /\ x.over = 0 /\ Holds(c, q) /\ Unlock(c)
          /\ used' = r - x.reserved + x.usage /\ Committed(c, q, used')
      BY <1>1, <1>9 DEF Commit, Staged
    <2> DEFINE n == IF x.usage > x.reserved THEN x.usage - x.reserved ELSE 0
    <2>2. n \in Nat /\ x.usage - x.reserved <= n
      BY <1>2
    <2>3. PICK place \in Ended : Change(c, q, [[x EXCEPT !.reserved = 0, !.over = n] EXCEPT !.at = place])
      BY <2>1 DEF Committed, Ended
    <2> HIDE DEF n
    <2> DEFINE z == [[x EXCEPT !.reserved = 0, !.over = n] EXCEPT !.at = place]
    <2>4. z \in Exchange /\ z.at = place /\ z.reserved = 0 /\ z.usage = x.usage /\ z.over = n
      BY <1>1, <2>2 DEF Exchange, Ended
    <2>5. Change(c, q, z)
      BY <2>3
    <2> HIDE DEF z
    <2>6. y = z /\ Rest
      BY <1>3, <2>4, <2>5
    <2>7. Staged(y) /\ Owes(y) = x.usage /\ Owes(x) = x.reserved /\ y.over = n
      BY <1>2, <2>1, <2>3, <2>4, <2>6 DEF Staged, Owes, Ended
    <2>8. Written(x, y, r) /\ y.over >= x.over
      BY <1>1, <1>2, <2>1, <2>2, <2>7 DEF Written
    <2>9. QED
      BY <2>1, <2>6, <2>7, <2>8 DEF Rest
  <1>10. CASE Rollback(c, q)
    <2>1. /\ x.at = "rollback" /\ x.reserved > 0 /\ x.over = 0 /\ Holds(c, q) /\ Unlock(c)
          /\ used' = r - x.reserved
      BY <1>1, <1>10 DEF Rollback, Staged
    <2> DEFINE z == [x EXCEPT !.at = "failed", !.reserved = 0, !.usage = 0]
    <2>2. z \in Exchange /\ z.at = "failed" /\ z.reserved = 0 /\ z.usage = 0 /\ z.over = x.over
      BY <1>1 DEF Exchange, Ended
    <2>3. Change(c, q, z)
      BY <1>10 DEF Rollback
    <2> HIDE DEF z
    <2>4. y = z /\ Rest
      BY <1>3, <2>2, <2>3
    <2>5. Staged(y) /\ Owes(y) = 0 /\ Owes(x) = x.reserved /\ y.over = x.over
      BY <1>2, <2>1, <2>2, <2>4 DEF Staged, Owes
    <2>6. Written(x, y, r) /\ y.over >= x.over
      BY <1>1, <1>2, <2>1, <2>5 DEF Written
    <2>7. QED
      BY <2>1, <2>4, <2>5, <2>6 DEF Rest
  <1>11. CASE StoreRefuses(c, q)
    <2>1. /\ x.at \in {"reserve", "commit", "rollback"} /\ used' = used
          /\ Phase(c, q, IF x.at = "commit" THEN "rollback" ELSE "failed")
          /\ (Holds(c, q) /\ Unlock(c)) \/ ledger' = ledger
      BY <1>11 DEF StoreRefuses
    <2>2. PICK place \in {"rollback", "failed"} :
            Phase(c, q, place) /\ (place = "rollback" => x.at = "commit")
      BY <2>1
    <2>3. Rest /\ Staged(y) /\ y.over >= x.over /\ Quiet(x, y)
      BY <1>1, <1>2, <1>4, <2>1, <2>2 DEF Staged, Owes, Quiet
    <2>4. QED
      BY <2>1, <2>3 DEF Rest
  <1>12. QED
    BY <1>5, <1>6, <1>7, <1>8, <1>9, <1>10, <1>11 DEF ExchangeStep

(* A process that dies leaves the sums, and the stages, as they are.       *)
LEMMA CrashKeepsSums ==
  ASSUME TInv, StagesHold, NEW p \in Procs, Crash(p)
  PROVE  StagesHold' /\ Owed' = Owed /\ Overrun' = Overrun
  <1>1. ASSUME NEW c \in Calls, NEW q \in Peers
        PROVE  /\ Staged(exchange'[c][q]) /\ Owes(exchange'[c][q]) = Owes(exchange[c][q])
               /\ exchange'[c][q].over = exchange[c][q].over
    <2>1. exchange[c][q] \in Exchange /\ Staged(exchange[c][q])
      BY DEF TInv, TypeOK, StagesHold
    <2>2. exchange'[c][q] = exchange[c][q] \/ exchange'[c][q] = [exchange[c][q] EXCEPT !.at = "failed"]
      BY DEF Crash
    <2>3. \A x \in Exchange : LET y == [x EXCEPT !.at = "failed"] IN
            Staged(y) /\ Owes(y) = Owes(x) /\ y.over = x.over
      BY DEF Exchange, Staged, Owes
    <2>4. QED
      BY <2>1, <2>2, <2>3
  <1>2. QED
    BY <1>1 DEF StagesHold, Owed, Overrun

LEMMA InitialSums == Init => StagesHold /\ Total(Owed) = 0 /\ Total(Overrun) = 0
  <1> SUFFICES ASSUME Init PROVE StagesHold /\ Total(Owed) = 0 /\ Total(Overrun) = 0
    OBVIOUS
  <1>1. \A c \in Calls, q \in Peers : exchange[c][q] = Fresh
    BY DEF Init
  <1>2. PICK f, g : f = Owed /\ g = Overrun
    OBVIOUS
  <1>3. /\ f \in [Calls \X Peers -> Nat] /\ \A s \in Calls \X Peers : f[s] = 0
        /\ g \in [Calls \X Peers -> Nat] /\ \A s \in Calls \X Peers : g[s] = 0
    BY <1>1, <1>2 DEF Owed, Overrun, Owes, Fresh
  <1>4. Total(f) = 0 /\ Total(g) = 0
    BY <1>3, TotalZero
  <1>5. QED
    BY <1>1, <1>2, <1>4 DEF StagesHold, Staged, Fresh

(* The steps that leave the budget, the exchanges and the mutex alone.     *)
LEMMA BudgetSteps ==
  ASSUME TInv, [Next]_vars
  PROVE  \/ UNCHANGED <<exchange, used, ledger>>
         \/ \E c \in Calls, q \in Peers : proc[c] \in Procs /\ ExchangeStep(c, q)
         \/ \E p \in Procs : Crash(p)
  <1>1. ASSUME NEW c \in Calls, CallStep(c)
        PROVE  \/ UNCHANGED <<exchange, used, ledger>>
               \/ \E q \in Peers : proc[c] \in Procs /\ ExchangeStep(c, q)
    <2>1. ASSUME NEW q \in Asked[c], ExchangeStep(c, q)
          PROVE  \E s \in Peers : proc[c] \in Procs /\ ExchangeStep(c, s)
      BY <1>1, <2>1, StepsArrived
    <2>2. ASSUME Acquire(c) \/ StopsWaiting(c) \/ Admit(c) \/ CloseSession(c)
          PROVE  UNCHANGED <<exchange, used, ledger>>
      BY <2>2 DEF Acquire, StopsWaiting, Admit, CloseSession, store, process
    <2>3. ASSUME Join(c) \/ SaveMessage(c) \/ SaveIdempotency(c) \/ Release(c)
          PROVE  UNCHANGED <<exchange, used, ledger>>
      BY <2>3 DEF Join, SaveMessage, SaveIdempotency, Release, store, process
    <2>4. QED
      BY <1>1, <2>1, <2>2, <2>3 DEF CallStep
  <1>2. ASSUME NEW c \in Calls, Leave(c) \/ (\E p \in Procs : Arrive(c, p))
        PROVE  UNCHANGED <<exchange, used, ledger>>
    BY <1>2 DEF Leave, Arrive, store, process
  <1>3. ASSUME StopSession PROVE UNCHANGED <<exchange, used, ledger>>
    BY <1>3 DEF StopSession, process, call
  <1>4. CASE UNCHANGED vars
    BY <1>4 DEF vars, store, process, call
  <1>5. QED
    BY <1>1, <1>2, <1>3, <1>4 DEF Next

-----------------------------------------------------------------------------
(* One process: the balance.                                               *)
LEMMA BalanceExchange ==
  ASSUME OneProcess, TInv, TypeOK', BInv, NEW c \in Calls, NEW q \in Peers, proc[c] \in Procs,
         ExchangeStep(c, q)
  PROVE  BInv'
  <1>1. PICK x, y, r, f, g : /\ x = exchange[c][q] /\ y = exchange'[c][q]
                             /\ r = ledger[proc[c]].read /\ f = Owed /\ g = Owed'
    OBVIOUS
  <1>2. x \in Exchange /\ y \in Exchange /\ used \in Int /\ Owes(x) \in Nat /\ Owes(y) \in Nat
    BY <1>1, ExchangeNumbers DEF TInv, TypeOK
  <1>3. /\ \A d \in Calls, s \in Peers : d # c \/ s # q => exchange'[d][s] = exchange[d][s]
        /\ Staged(y)
        /\ \/ Quiet(x, y) /\ ledger' = ledger
           \/ /\ Quiet(x, y)
              /\ ledger' = [ledger EXCEPT ![proc[c]] = [call |-> c, peer |-> q, read |-> used]]
           \/ Quiet(x, y) /\ Holds(c, q) /\ Unlock(c)
           \/ Written(x, y, r) /\ Holds(c, q) /\ Unlock(c)
    BY <1>1, BudgetEffects DEF BInv
  <1>4. Total(f) \in Nat /\ Total(g) = Total(f) - Owes(x) + Owes(y) /\ used = Total(f)
    BY <1>1, <1>3, SumsChange DEF BInv, BudgetBalanced
  <1>5. Holds(c, q) => r = used
    BY <1>1, ExchangeAssumption DEF Holds, BInv, ReadIsCurrent
  <1>6. used' = used - Owes(x) + Owes(y)
    BY <1>2, <1>3, <1>5 DEF Quiet, Written
  <1>7. BudgetBalanced'
    BY <1>1, <1>4, <1>6 DEF BudgetBalanced, Total
  <1>8. ReadIsCurrent'
    <2>1. ASSUME Unlock(c) PROVE ReadIsCurrent'
      BY <2>1 DEF OneProcess, Unlock, Unlocked, ReadIsCurrent, TInv, TypeOK
    <2>2. ASSUME Quiet(x, y), ledger' = ledger PROVE ReadIsCurrent'
      BY <2>2 DEF Quiet, BInv, ReadIsCurrent
    <2>3. ASSUME Quiet(x, y),
                 ledger' = [ledger EXCEPT ![proc[c]] = [call |-> c, peer |-> q, read |-> used]]
          PROVE  ReadIsCurrent'
      BY <2>3 DEF Quiet, BInv, ReadIsCurrent, TInv, TypeOK
    <2>4. QED
      BY <1>3, <2>1, <2>2, <2>3
  <1>9. StagesHold'
    BY <1>1, <1>3 DEF BInv, StagesHold
  <1>10. QED
    BY <1>7, <1>8, <1>9 DEF BInv

LEMMA BalanceStep ==
  ASSUME OneProcess
  PROVE  TInv /\ BInv /\ [Next]_vars => BInv'
  <1> SUFFICES ASSUME TInv, BInv, [Next]_vars PROVE BInv'
    OBVIOUS
  <1>1. CASE UNCHANGED <<exchange, used, ledger>>
    BY <1>1 DEF BInv, StagesHold, ReadIsCurrent, BudgetBalanced, Total, Owed
  <1>2. ASSUME NEW c \in Calls, NEW q \in Peers, proc[c] \in Procs, ExchangeStep(c, q)
        PROVE  BInv'
    BY <1>2, BalanceExchange, TypeStep DEF TInv
  <1>3. ASSUME NEW p \in Procs, Crash(p) PROVE BInv'
    <2>1. used' = used /\ ledger' = [ledger EXCEPT ![p] = Unlocked]
      BY <1>3 DEF Crash, store
    <2>2. ReadIsCurrent'
      BY <2>1 DEF BInv, ReadIsCurrent, Unlocked, TInv, TypeOK
    <2>3. StagesHold' /\ Owed' = Owed
      BY <1>3, CrashKeepsSums DEF BInv
    <2>4. BudgetBalanced'
      BY <2>1, <2>3 DEF BInv, BudgetBalanced, Total
    <2>5. QED
      BY <2>2, <2>3, <2>4 DEF BInv
  <1>4. QED
    BY <1>1, <1>2, <1>3, BudgetSteps

(* One process: however exchanges overlap, fail, are charged or rolled     *)
(* back, whose callers leave, and whatever a restart finds reserved, the   *)
(* budget is to the token what exchanges still reserve and have used       *)
(* (reserveBudget, commitBudget, rollbackBudget under budgetMu).           *)
THEOREM BudgetBalances == OneProcess => (Spec => []BudgetBalanced)
  <1> SUFFICES ASSUME OneProcess PROVE Spec => []BudgetBalanced
    OBVIOUS
  <1>1. Init => BInv
    BY InitialSums DEF Init, BInv, BudgetBalanced, ReadIsCurrent, Unlocked
  <1>2. BInv => BudgetBalanced
    BY DEF BInv
  <1>3. QED
    BY <1>1, <1>2, BalanceStep, TypeInvariance, PTL DEF Spec

-----------------------------------------------------------------------------
(* Any processes: the limit.  A holder writes no more than it read, or up  *)
(* to the limit, or more by what its invocation overran; so what it read   *)
(* may be out of date, as long as it was within the limit.                 *)
LEMMA LimitExchange ==
  ASSUME TInv, TypeOK', LInv, NEW c \in Calls, NEW q \in Peers, proc[c] \in Procs,
         ExchangeStep(c, q)
  PROVE  LInv'
  <1>1. PICK x, y, r, h, k : /\ x = exchange[c][q] /\ y = exchange'[c][q]
                             /\ r = ledger[proc[c]].read /\ h = Overrun /\ k = Overrun'
    OBVIOUS
  <1>2. /\ x \in Exchange /\ y \in Exchange /\ x.over \in Nat /\ y.over \in Nat
        /\ used \in Int /\ used' \in Int /\ r \in Int /\ MaxTotal \in Nat
    BY <1>1, ExchangeNumbers, Limits DEF TInv, TypeOK
  <1>3. /\ \A d \in Calls, s \in Peers : d # c \/ s # q => exchange'[d][s] = exchange[d][s]
        /\ Staged(y) /\ y.over >= x.over
        /\ \/ Quiet(x, y) /\ ledger' = ledger
           \/ /\ Quiet(x, y)
              /\ ledger' = [ledger EXCEPT ![proc[c]] = [call |-> c, peer |-> q, read |-> used]]
           \/ Quiet(x, y) /\ Holds(c, q) /\ Unlock(c)
           \/ Written(x, y, r) /\ Holds(c, q) /\ Unlock(c)
    BY <1>1, BudgetEffects DEF LInv
  <1>4. /\ Total(h) \in Nat /\ Total(k) \in Nat /\ Total(k) = Total(h) - x.over + y.over
        /\ used <= MaxTotal + Total(h)
    BY <1>1, <1>3, SumsChange DEF LInv, LimitHolds
  <1>5. Total(h) <= Total(k)
    BY <1>2, <1>3, <1>4
  <1>6. Holds(c, q) => r <= MaxTotal + Total(h)
    BY <1>1, ExchangeAssumption DEF Holds, LInv, ReadIsBounded
  <1>7. used' <= MaxTotal + Total(k)
    <2>1. CASE used' = used
      BY <1>2, <1>4, <1>5, <2>1
    <2>2. CASE Written(x, y, r) /\ Holds(c, q)
      BY <1>2, <1>4, <1>5, <1>6, <2>2 DEF Written
    <2>3. QED
      BY <1>3, <2>1, <2>2 DEF Quiet
  <1>8. ASSUME NEW p \in Procs, ledger'[p].call # None
        PROVE  ledger'[p].read <= MaxTotal + Total(k)
    <2>1. \/ ledger'[p] = ledger[p]
          \/ ledger'[p] = [call |-> c, peer |-> q, read |-> used]
          \/ ledger'[p] = Unlocked
      BY <1>3 DEF Unlock, TInv, TypeOK
    <2>2. CASE ledger'[p] = ledger[p]
      <3>1. ledger[p].read \in Int /\ ledger[p].read <= MaxTotal + Total(h)
        BY <1>1, <1>8, <2>2 DEF LInv, ReadIsBounded, TInv, TypeOK
      <3>2. QED
        BY <1>2, <1>4, <1>5, <2>2, <3>1
    <2>3. CASE ledger'[p] = [call |-> c, peer |-> q, read |-> used]
      BY <1>2, <1>4, <1>5, <2>3
    <2>4. CASE ledger'[p] = Unlocked
      BY <1>8, <2>4 DEF Unlocked
    <2>5. QED
      BY <2>1, <2>2, <2>3, <2>4
  <1>9. ReadIsBounded' /\ LimitHolds'
    BY <1>1, <1>7, <1>8 DEF ReadIsBounded, LimitHolds, Total
  <1>10. StagesHold'
    BY <1>1, <1>3 DEF LInv, StagesHold
  <1>11. QED
    BY <1>9, <1>10 DEF LInv

LEMMA LimitStep == TInv /\ LInv /\ [Next]_vars => LInv'
  <1> SUFFICES ASSUME TInv, LInv, [Next]_vars PROVE LInv'
    OBVIOUS
  <1>1. CASE UNCHANGED <<exchange, used, ledger>>
    BY <1>1 DEF LInv, StagesHold, ReadIsBounded, LimitHolds, Total, Overrun
  <1>2. ASSUME NEW c \in Calls, NEW q \in Peers, proc[c] \in Procs, ExchangeStep(c, q)
        PROVE  LInv'
    BY <1>2, LimitExchange, TypeStep DEF TInv
  <1>3. ASSUME NEW p \in Procs, Crash(p) PROVE LInv'
    <2>1. used' = used /\ ledger' = [ledger EXCEPT ![p] = Unlocked]
      BY <1>3 DEF Crash, store
    <2>2. StagesHold' /\ Overrun' = Overrun
      BY <1>3, CrashKeepsSums DEF LInv
    <2>3. \A r \in Procs : ledger'[r] = ledger[r] \/ ledger'[r] = Unlocked
      BY <2>1 DEF TInv, TypeOK
    <2>4. ReadIsBounded'
      BY <2>2, <2>3 DEF LInv, ReadIsBounded, Unlocked, Total
    <2>5. LimitHolds'
      BY <2>1, <2>2 DEF LInv, LimitHolds, Total
    <2>6. QED
      BY <2>2, <2>4, <2>5 DEF LInv
  <1>4. QED
    BY <1>1, <1>2, <1>3, BudgetSteps

(* However many processes share the store: the session's budget is over    *)
(* its limit by no more than what invocations used beyond what they had    *)
(* reserved (reserveBudget grants no more than it read to remain).         *)
THEOREM LimitIsKept == Spec => []LimitHolds
  <1>1. Init => LInv
    BY InitialSums, Limits DEF Init, LInv, LimitHolds, ReadIsBounded, Unlocked
  <1>2. LInv => LimitHolds
    BY DEF LInv
  <1>3. QED
    BY <1>1, <1>2, LimitStep, TypeInvariance, PTL DEF Spec
-----------------------------------------------------------------------------
(* The engine's bus (NewEventBus in the engine's constructor), for any     *)
(* finite set of sources, any changes of theirs and any number of flushes. *)

LEMMA BusTypeStep ==
  ASSUME BusTypeOK, [BusNext]_busVars
  PROVE  BusTypeOK'
  <1> USE DEF BusTypeOK
  <1>1. CASE UNCHANGED busVars
    BY <1>1 DEF busVars, windows, events
  <1>2. ASSUME NEW s \in Changes, PublishRepoChange(s)
        PROVE  BusTypeOK'
    <2>1. SourceOf[s] \in Sources
      BY BusAssumption
    <2>2. rearmed' \in BOOLEAN
      BY <1>2 DEF PublishRepoChange
    <2>3. CASE closed /\ dropped' = dropped \cup {s} /\ UNCHANGED <<window, armed, timerWg>>
      BY <1>2, <2>2, <2>3 DEF PublishRepoChange, events
    <2>4. CASE /\ window' = [window EXCEPT ![SourceOf[s]] = @ \cup {s}]
               /\ armed' = [armed EXCEPT ![SourceOf[s]] = TRUE]
               /\ timerWg' = IF window[SourceOf[s]] = {} THEN timerWg + 1 ELSE timerWg
               /\ UNCHANGED dropped
      <3>1. UNCHANGED <<fired, events, closer, panicked, flushes>> /\ submitted' \subseteq Changes
        BY <1>2 DEF PublishRepoChange
      <3>2. timerWg' \in Int
        BY <2>4
      <3>3. window' \in [Sources -> SUBSET Changes]
        BY <2>1, <2>4
      <3>4. armed' \in [Sources -> BOOLEAN]
        BY <2>1, <2>4
      <3>5. \A k \in Sources : armed'[k] => window'[k] # {}
        BY <2>1, <2>4
      <3>6. QED
        BY <2>2, <2>4, <3>1, <3>2, <3>3, <3>4, <3>5 DEF events
    <2>5. QED
      BY <1>2, <2>3, <2>4 DEF PublishRepoChange
  <1>3. ASSUME NEW k \in Sources, Expire(k)
        PROVE  BusTypeOK'
    BY <1>3 DEF Expire, events
  <1>4. ASSUME NEW k \in Sources, NEW timer \in BOOLEAN, Flush(k, timer)
        PROVE  /\ window' \in [Sources -> SUBSET Changes]
               /\ armed' \in [Sources -> BOOLEAN]
               /\ sending' \in SUBSET Events
               /\ \A j \in Sources : armed'[j] => window'[j] # {}
               /\ UNCHANGED <<log, heard>>
    <2>1. [changes |-> window[k], timer |-> timer] \in Events
      BY <1>4 DEF Flush, Events
    <2>2. QED
      BY <1>4, <2>1 DEF Flush
  <1>5. ASSUME NEW k \in Sources, TimerFunction(k)
        PROVE  BusTypeOK'
    <2>1. fired' \in [Sources -> Nat]
      BY <1>5 DEF TimerFunction
    <2>2. UNCHANGED <<submitted, dropped, closer, flushes, rearmed>>
      BY <1>5 DEF TimerFunction
    <2>3. CASE Done(1) /\ UNCHANGED <<window, armed, events>>
      BY <2>1, <2>2, <2>3 DEF Done, events
    <2>4. CASE Flush(k, TRUE) /\ UNCHANGED <<timerWg, panicked>>
      BY <2>1, <2>2, <2>4, <1>4
    <2>5. QED
      BY <1>5, <2>3, <2>4 DEF TimerFunction
  <1>6. ASSUME NEW k \in Sources, FlushCoalesce(k)
        PROVE  BusTypeOK'
    <2>1. flushes' \in 0 .. MaxFlushes
      BY BusAssumption, <1>6 DEF FlushCoalesce
    <2>2. Flush(k, FALSE)
      BY <1>6 DEF FlushCoalesce
    <2>3. QED
      BY <1>4, <1>6, <2>1, <2>2 DEF FlushCoalesce
  <1>7. ASSUME NEW e \in sending, Emit(e)
        PROVE  BusTypeOK'
    <2>1. e.changes \in (SUBSET Changes) \ {{}}
      BY DEF Events
    <2>2. QED
      BY <1>7, <2>1 DEF Emit, windows
  <1>8. ASSUME NEW e \in sending, Dispatch(e)
        PROVE  BusTypeOK'
    <2>1. timerWg' \in Int
      BY <1>8 DEF Dispatch, Done
    <2>2. UNCHANGED panicked \/ Done(1)
      BY <1>8 DEF Dispatch
    <2>3. panicked' \in BOOLEAN
      <3>1. panicked \in BOOLEAN /\ (timerWg < 1) \in BOOLEAN
        OBVIOUS
      <3>2. panicked' = panicked \/ panicked' = (timerWg < 1)
        BY <2>2 DEF Done
      <3>3. QED
        BY <3>1, <3>2, Zenon
    <2>4. QED
      BY <1>8, <2>1, <2>3 DEF Dispatch, windows
  <1>9. CASE Close
    <2>1. timerWg' \in Int /\ panicked' \in BOOLEAN
      <3>1. IsFiniteSet({k \in Sources : armed[k]})
        BY BusAssumption, FS_Subset
      <3>2. Cardinality({k \in Sources : armed[k]}) \in Nat
        BY <3>1, FS_CardinalityType
      <3>3. QED
        BY <1>9, <3>2 DEF Close, Done
    <2>2. dropped' \in SUBSET Changes
      BY <1>9 DEF Close
    <2>3. QED
      BY <1>9, <2>1, <2>2 DEF Close, events
  <1>10. CASE CloseReturns
    BY <1>10 DEF CloseReturns, windows, events
  <1>11. QED
    BY <1>1, <1>2, <1>3, <1>5, <1>6, <1>7, <1>8, <1>9, <1>10
       DEF BusNext, Timers, Publish


(* Of whose changes a window is, and that a closed bus has none: windows   *)
(* are then apart, and all there is to drop is dropped by Close.           *)
WindowsKept ==
  /\ \A k \in Sources : \A s \in window[k] : SourceOf[s] = k
  /\ closed => \A k \in Sources : window[k] = {}

BusOnce == BusTypeOK /\ WindowsKept /\ EachChangeOnce

(* Where the changes are, of any sets of windows and of events.            *)
Once(S, H, T, D) ==
  /\ S = D \cup UNION (H \cup T)
  /\ \A A, B \in H \cup T : A # B => A \cap B = {}
  /\ H \cap T = {}
  /\ \A A \in H \cup T : A \cap D = {}

LEMMA OnceIs ==
  EachChangeOnce
    <=> Once(submitted, Held, Told, dropped) /\ (dropped # {} => closed)
  BY DEF EachChangeOnce, Once

LEMMA OnceGrows ==
  ASSUME NEW S, NEW H, NEW T, NEW D, Once(S, H, T, D), NEW w, w = {} \/ w \in H,
         NEW s, s \notin S
  PROVE  Once(S \cup {s}, (H \ {w}) \cup {w \cup {s}}, T, D)
  <1>1. \A A \in H \cup T : s \notin A
    BY DEF Once
  <1>2. s \notin D
    BY DEF Once
  <1> DEFINE G == (H \ {w}) \cup {w \cup {s}}
  <1>3. S \cup {s} = D \cup UNION (G \cup T)
    <2>1. UNION (G \cup T) \subseteq {s} \cup UNION (H \cup T)
      <3>1. \A A \in G \cup T : A = w \cup {s} \/ A \in H \cup T
        OBVIOUS
      <3>2. w \subseteq UNION (H \cup T)
        OBVIOUS
      <3> HIDE DEF G
      <3>3. QED
        BY <3>1, <3>2
    <2>2. UNION (H \cup T) \subseteq UNION (G \cup T)
      <3>1. ASSUME NEW A \in H \cup T PROVE \E B \in G \cup T : A \subseteq B
        <4>1. CASE A = w
          BY <4>1
        <4>2. CASE A # w
          <5>1. A \in G \cup T
            BY <4>2
          <5>2. QED
            BY <5>1
        <4>3. QED
          BY <4>1, <4>2
      <3>2. QED
        BY <3>1
    <2>3. s \in UNION (G \cup T)
      OBVIOUS
    <2> HIDE DEF G
    <2>4. QED
      BY <2>1, <2>2, <2>3 DEF Once
  <1>4. \A A \in (H \ {w}) \cup T : A \cap (w \cup {s}) = {}
    BY <1>1 DEF Once
  <1>5. ASSUME NEW A \in G \cup T, NEW B \in G \cup T, A # B
        PROVE  A \cap B = {}
    <2>1. A = w \cup {s} \/ A \in (H \ {w}) \cup T
      OBVIOUS
    <2>2. B = w \cup {s} \/ B \in (H \ {w}) \cup T
      OBVIOUS
    <2>3. QED
      BY <1>4, <1>5, <2>1, <2>2 DEF Once
  <1>6. G \cap T = {}
    BY <1>1 DEF Once
  <1>7. \A A \in G \cup T : A \cap D = {}
    BY <1>2 DEF Once
  <1> HIDE DEF G
  <1>8. Once(S \cup {s}, G, T, D)
    BY <1>3, <1>5, <1>6, <1>7 DEF Once
  <1>9. QED
    BY <1>8 DEF G

LEMMA OnceMoves ==
  ASSUME NEW S, NEW H, NEW T, NEW D, Once(S, H, T, D), NEW w \in H
  PROVE  Once(S, H \ {w}, T \cup {w}, D)
  <1>1. (H \ {w}) \cup (T \cup {w}) = H \cup T
    OBVIOUS
  <1>2. QED
    BY <1>1 DEF Once

LEMMA OnceCloses ==
  ASSUME NEW S, NEW H, NEW T, NEW D, Once(S, H, T, D)
  PROVE  Once(S, {}, T, D \cup UNION H)
  <1>1. \A A \in T, B \in H : A \cap B = {}
    BY DEF Once
  <1>2. QED
    BY <1>1 DEF Once

(* Windows of different sources are different, and none is another's.      *)
LEMMA HeldWithout ==
  ASSUME BusTypeOK, WindowsKept, NEW k \in Sources, NEW w \in SUBSET Changes,
         window' = [window EXCEPT ![k] = w]
  PROVE  Held' = (Held \ {window[k]}) \cup ({w} \ {{}})
  <1>1. \A j \in Sources \ {k} : window[j] # {} => window[j] # window[k]
    BY DEF WindowsKept
  <1>2. window'[k] = w /\ \A j \in Sources \ {k} : window'[j] = window[j]
    BY DEF BusTypeOK
  <1>3. QED
    BY <1>1, <1>2 DEF Held

LEMMA BusOnceFlush ==
  ASSUME BusOnce, NEW k \in Sources, NEW timer \in BOOLEAN, Flush(k, timer),
         UNCHANGED <<submitted, dropped, closer>>
  PROVE  WindowsKept' /\ EachChangeOnce'
  <1> USE DEF BusOnce
  <1>1. window' = [window EXCEPT ![k] = {}] /\ window[k] # {} /\ UNCHANGED log
    BY DEF Flush
  <1>2. window' \in [Sources -> SUBSET Changes]
    BY <1>1 DEF BusTypeOK
  <1>3. \A j \in Sources : window'[j] = IF j = k THEN {} ELSE window[j]
    BY <1>1 DEF BusTypeOK
  <1>4. WindowsKept'
    BY <1>3 DEF WindowsKept, closed
  <1>5. Held' = Held \ {window[k]}
    <2>1. Held' = (Held \ {window[k]}) \cup ({{}} \ {{}})
      BY <1>1, HeldWithout
    <2>2. QED
      BY <2>1
  <1>6. Told' = Told \cup {window[k]}
    <2>1. PICK r : r.changes = window[k] /\ sending' = sending \cup {r}
      BY DEF Flush
    <2>2. {e.changes : e \in sending'} = {e.changes : e \in sending} \cup {window[k]}
      BY <2>1
    <2>3. QED
      BY <1>1, <2>2 DEF Told
  <1>7. window[k] \in Held
    BY <1>1 DEF Held
  <1>8. Once(submitted', Held', Told', dropped')
    BY <1>5, <1>6, <1>7, OnceIs, OnceMoves
  <1>9. QED
    BY <1>4, <1>8 DEF EachChangeOnce, Once, closed

LEMMA BusOncePublish ==
  ASSUME BusOnce, NEW s \in Changes, PublishRepoChange(s)
  PROVE  WindowsKept' /\ EachChangeOnce'
  <1> USE DEF BusOnce
  <1> DEFINE k == SourceOf[s]
  <1>1. k \in Sources
    BY BusAssumption
  <1>2. /\ s \notin submitted /\ submitted' = submitted \cup {s}
        /\ UNCHANGED <<sending, log, closer>>
    BY DEF PublishRepoChange, events
  <1>3. UNCHANGED Told
    BY <1>2 DEF Told
  <1>4. CASE closed /\ dropped' = dropped \cup {s} /\ UNCHANGED window
    <2>1. WindowsKept'
      BY <1>2, <1>4 DEF WindowsKept, closed
    <2>2. UNCHANGED Held
      BY <1>4 DEF Held
    <2>3. QED
      BY <1>2, <1>3, <1>4, <2>1, <2>2 DEF EachChangeOnce, closed
  <1>5. CASE window' = [window EXCEPT ![k] = @ \cup {s}] /\ ~closed /\ UNCHANGED dropped
    <2>1. window' = [window EXCEPT ![k] = window[k] \cup {s}]
      BY <1>5
    <2>2. window[k] \cup {s} \in SUBSET Changes
      BY <1>1 DEF BusTypeOK
    <2>3. WindowsKept'
      BY <1>1, <1>2, <1>5, <2>1 DEF WindowsKept, BusTypeOK, closed
    <2>4. Held' = (Held \ {window[k]}) \cup {window[k] \cup {s}}
      <3>1. PICK w \in SUBSET Changes : w = window[k] \cup {s}
        BY <2>2
      <3>2. Held' = (Held \ {window[k]}) \cup ({w} \ {{}})
        BY <1>1, <2>1, <3>1, HeldWithout
      <3>3. w # {}
        BY <3>1
      <3>4. QED
        BY <3>1, <3>2, <3>3
    <2>5. window[k] = {} \/ window[k] \in Held
      BY <1>1 DEF Held
    <2>6. Once(submitted', Held', Told', dropped')
      BY <1>2, <1>3, <1>5, <2>4, <2>5, OnceIs, OnceGrows
    <2>7. QED
      BY <1>2, <1>5, <2>3, <2>6 DEF EachChangeOnce, Once, closed
  <1>6. QED
    BY <1>4, <1>5 DEF PublishRepoChange

LEMMA BusOnceStep ==
  ASSUME BusOnce, [BusNext]_busVars
  PROVE  WindowsKept' /\ EachChangeOnce'
  <1> USE DEF BusOnce
  <1>1. ASSUME UNCHANGED <<submitted, dropped, window, closer, Told>>
        PROVE  WindowsKept' /\ EachChangeOnce'
    <2>1. WindowsKept'
      BY <1>1 DEF WindowsKept, closed
    <2>2. UNCHANGED Held
      BY <1>1 DEF Held
    <2>3. QED
      BY <1>1, <2>1, <2>2 DEF EachChangeOnce, closed
  <1>2. ASSUME UNCHANGED <<submitted, dropped, window, closer, sending, log>>
        PROVE  WindowsKept' /\ EachChangeOnce'
    BY <1>1, <1>2 DEF Told
  <1>3. CASE UNCHANGED busVars
    BY <1>2, <1>3 DEF busVars, windows, events
  <1>4. ASSUME NEW s \in Changes, PublishRepoChange(s)
        PROVE  WindowsKept' /\ EachChangeOnce'
    BY <1>4, BusOncePublish
  <1>5. ASSUME NEW k \in Sources, Expire(k)
        PROVE  WindowsKept' /\ EachChangeOnce'
    BY <1>2, <1>5 DEF Expire, events
  <1>6. ASSUME NEW k \in Sources, TimerFunction(k)
        PROVE  WindowsKept' /\ EachChangeOnce'
    <2>1. UNCHANGED <<submitted, dropped, closer>>
      BY <1>6 DEF TimerFunction
    <2>2. CASE UNCHANGED <<window, armed, events>>
      BY <1>2, <2>1, <2>2 DEF events
    <2>3. CASE Flush(k, TRUE)
      BY <2>1, <2>3, BusOnceFlush
    <2>4. QED
      BY <1>6, <2>2, <2>3 DEF TimerFunction
  <1>7. ASSUME NEW k \in Sources, FlushCoalesce(k)
        PROVE  WindowsKept' /\ EachChangeOnce'
    BY <1>7, BusOnceFlush DEF FlushCoalesce
  <1>8. ASSUME NEW e \in sending, Emit(e)
        PROVE  WindowsKept' /\ EachChangeOnce'
    <2>1. e.changes \in {f.changes : f \in sending}
      OBVIOUS
    <2>2. sending' = sending /\ log' = log \cup {e.changes}
      BY <1>8 DEF Emit
    <2>3. UNCHANGED Told
      BY <2>1, <2>2 DEF Told
    <2>4. QED
      BY <1>1, <1>8, <2>3 DEF Emit, windows
  <1>9. ASSUME NEW e \in sending, Dispatch(e)
        PROVE  WindowsKept' /\ EachChangeOnce'
    <2>1. e.changes \in log /\ sending' = sending \ {e} /\ UNCHANGED log
      BY <1>9 DEF Dispatch
    <2>2. UNCHANGED Told
      BY <2>1 DEF Told
    <2>3. QED
      BY <1>1, <1>9, <2>2 DEF Dispatch, windows
  <1>10. CASE Close
    <2>1. /\ window' = [k \in Sources |-> {}]
          /\ dropped' = dropped \cup UNION {window[k] : k \in Sources}
          /\ UNCHANGED <<submitted, sending, log>> /\ closer' = "waits"
      BY <1>10 DEF Close, events
    <2>2. WindowsKept'
      BY <2>1 DEF WindowsKept
    <2>3. UNCHANGED Told
      BY <2>1 DEF Told
    <2>4. Held' = {}
      BY <2>1 DEF Held
    <2>5. UNION {window[k] : k \in Sources} = UNION Held
      BY DEF Held
    <2>6. Once(submitted', Held', Told', dropped')
      BY <2>1, <2>3, <2>4, <2>5, OnceIs, OnceCloses
    <2>7. QED
      BY <2>1, <2>2, <2>6 DEF EachChangeOnce, Once, closed
  <1>11. CASE CloseReturns
    <2>1. UNCHANGED <<submitted, window, sending, log, dropped>> /\ closer = "waits" /\ closer' = "returned"
      BY <1>11 DEF CloseReturns, windows, events
    <2>2. WindowsKept'
      BY <2>1 DEF WindowsKept, closed
    <2>3. UNCHANGED Told /\ UNCHANGED Held
      BY <2>1 DEF Told, Held
    <2>4. QED
      BY <2>1, <2>2, <2>3 DEF EachChangeOnce, closed
  <1>12. QED
    BY <1>3, <1>4, <1>5, <1>6, <1>7, <1>8, <1>9, <1>10, <1>11
       DEF BusNext, Timers, Publish

LEMMA BusOnceInit ==
  ASSUME BusInit
  PROVE  BusOnce
  <1>1. BusTypeOK
    <2>1. \A k \in Sources : ~armed[k] /\ window[k] = {}
      BY DEF BusInit
    <2>2. armed \in [Sources -> BOOLEAN] /\ panicked \in BOOLEAN /\ rearmed \in BOOLEAN
      BY DEF BusInit
    <2>3. window \in [Sources -> SUBSET Changes] /\ fired \in [Sources -> Nat]
      BY DEF BusInit
    <2>4. flushes \in 0 .. MaxFlushes
      BY BusAssumption DEF BusInit
    <2>5. QED
      BY <2>1, <2>2, <2>3, <2>4 DEF BusInit, BusTypeOK
  <1>2. WindowsKept
    BY DEF BusInit, WindowsKept
  <1>3. Held = {} /\ Told = {}
    BY DEF BusInit, Held, Told
  <1>4. EachChangeOnce
    BY <1>3 DEF BusInit, EachChangeOnce
  <1>5. QED
    BY <1>1, <1>2, <1>4 DEF BusOnce
-----------------------------------------------------------------------------
(* What the WaitGroup counts: timers to expire, functions that wait, and   *)
(* those that publish.  A timer that a flush stops is counted and never    *)
(* counted out, so the counter may be above them.                          *)
Armed == {k \in Sources : armed[k]}
Publishing == {e \in sending : e.timer}

Counted ==
  /\ IsFiniteSet(sending)
  /\ ~rearmed => timerWg >= Cardinality(Armed) + Total(fired) + Cardinality(Publishing)
  /\ PanicIsLateReset

BusInv == BusOnce /\ Counted /\ CloseIsQuiet

LEMMA BusNumbers ==
  ASSUME BusTypeOK, IsFiniteSet(sending)
  PROVE  /\ IsFiniteSet(Armed) /\ Cardinality(Armed) \in Nat
         /\ IsFiniteSet(Publishing) /\ Cardinality(Publishing) \in Nat
         /\ Total(fired) \in Nat
         /\ \A k \in Sources : fired[k] \in Nat /\ Total(fired) >= fired[k]
  <1>1. IsFiniteSet(Armed) /\ IsFiniteSet(Publishing)
    BY BusAssumption, FS_Subset DEF Armed, Publishing
  <1>2. Total(fired) \in Nat
    <2>1. fired \in [Sources -> Nat]
      BY DEF BusTypeOK
    <2>2. IsFiniteSet(Tokens(fired, Sources))
      BY BusAssumption, <2>1, TokensFinite
    <2>3. Total(fired) = Cardinality(Tokens(fired, Sources))
      BY <2>1 DEF Total, Tokens
    <2>4. QED
      BY <2>2, <2>3, FS_CardinalityType
  <1>3. ASSUME NEW k \in Sources
        PROVE  fired[k] \in Nat /\ Total(fired) >= fired[k]
    <2>1. fired \in [Sources -> Nat]
      BY DEF BusTypeOK
    <2>2. Total(fired) = Cardinality(Tokens(fired, Sources))
      BY <2>1 DEF Total, Tokens
    <2>3. /\ Cardinality(Tokens(fired, Sources \ {k})) \in Nat
          /\ Cardinality(Tokens(fired, Sources))
               = Cardinality(Tokens(fired, Sources \ {k})) + fired[k]
      BY BusAssumption, <2>1, TokensSplit
    <2>4. QED
      BY <2>1, <2>2, <2>3
  <1>4. QED
    BY <1>1, <1>2, <1>3, FS_CardinalityType

(* A timer that starts, one that expires or is stopped, a function that    *)
(* has the lock.                                                           *)
LEMMA ArmedStarts ==
  ASSUME BusTypeOK, NEW k \in Sources,
         armed' = [armed EXCEPT ![k] = TRUE]
  PROVE  Cardinality(Armed') = Cardinality(Armed) + (IF armed[k] THEN 0 ELSE 1)
  <1>1. Armed' = Armed \cup {k}
    BY DEF Armed, BusTypeOK
  <1>2. IsFiniteSet(Armed)
    BY BusAssumption, FS_Subset DEF Armed
  <1>3. Cardinality(Armed \cup {k}) = IF k \in Armed THEN Cardinality(Armed)
                                                     ELSE Cardinality(Armed) + 1
    BY <1>2, FS_AddElement
  <1>4. Cardinality(Armed) \in Nat /\ (k \in Armed <=> armed[k])
    BY <1>2, FS_CardinalityType DEF Armed
  <1>5. QED
    BY <1>1, <1>3, <1>4

LEMMA ArmedEnds ==
  ASSUME BusTypeOK, NEW k \in Sources,
         armed' = [armed EXCEPT ![k] = FALSE]
  PROVE  Cardinality(Armed') = Cardinality(Armed) - (IF armed[k] THEN 1 ELSE 0)
  <1>1. Armed' = Armed \ {k}
    BY DEF Armed, BusTypeOK
  <1>2. IsFiniteSet(Armed)
    BY BusAssumption, FS_Subset DEF Armed
  <1>3. Cardinality(Armed \ {k}) = IF k \in Armed THEN Cardinality(Armed) - 1
                                                  ELSE Cardinality(Armed)
    BY <1>2, FS_RemoveElement
  <1>4. Cardinality(Armed) \in Nat /\ (k \in Armed <=> armed[k])
    BY <1>2, FS_CardinalityType DEF Armed
  <1>5. QED
    BY <1>1, <1>3, <1>4

LEMMA FiredChange ==
  ASSUME BusTypeOK, NEW k \in Sources, NEW n \in Nat,
         fired' = [fired EXCEPT ![k] = n]
  PROVE  Total(fired') = Total(fired) - fired[k] + n
  <1>1. PICK f, g : f = fired /\ g = fired'
    OBVIOUS
  <1>2. f \in [Sources -> Nat] /\ g \in [Sources -> Nat]
    BY <1>1 DEF BusTypeOK
  <1>3. g[k] = n /\ \A j \in Sources \ {k} : f[j] = g[j]
    BY <1>1, <1>2
  <1>4. Total(g) = Total(f) - f[k] + g[k]
    BY BusAssumption, <1>2, <1>3, TotalChange
  <1>5. QED
    BY <1>1, <1>3, <1>4

LEMMA FlushCounts ==
  ASSUME BusTypeOK, IsFiniteSet(sending), NEW k \in Sources,
         NEW timer \in BOOLEAN, Flush(k, timer)
  PROVE  /\ IsFiniteSet(sending')
         /\ Cardinality(Armed') \in Nat /\ Cardinality(Armed') <= Cardinality(Armed)
         /\ Cardinality(Publishing') \in Nat
         /\ Cardinality(Publishing') <= Cardinality(Publishing) + (IF timer THEN 1 ELSE 0)
  <1>1. PICK r : r.timer = timer /\ sending' = sending \cup {r}
    BY DEF Flush
  <1>2. IsFiniteSet(sending')
    BY <1>1, FS_AddElement
  <1>3. Publishing' = IF timer THEN Publishing \cup {r} ELSE Publishing
    BY <1>1 DEF Publishing
  <1>4. IsFiniteSet(Publishing) /\ Cardinality(Publishing) \in Nat
    BY BusNumbers
  <1>5. Cardinality(Publishing \cup {r}) \in {Cardinality(Publishing), Cardinality(Publishing) + 1}
    BY <1>4, FS_AddElement
  <1>6. /\ Cardinality(Publishing') \in Nat
        /\ Cardinality(Publishing') <= Cardinality(Publishing) + (IF timer THEN 1 ELSE 0)
    BY <1>3, <1>4, <1>5
  <1>7. Armed' \subseteq Armed
    BY DEF Flush, BusTypeOK, Armed
  <1>8. Cardinality(Armed') \in Nat /\ Cardinality(Armed') <= Cardinality(Armed)
    BY <1>7, BusNumbers, FS_Subset, FS_CardinalityType
  <1>9. QED
    BY <1>2, <1>6, <1>8

LEMMA CountedStep ==
  ASSUME BusInv, [BusNext]_busVars
  PROVE  Counted'
  <1> USE DEF BusInv, BusOnce
  <1> DEFINE a == Cardinality(Armed)
             n == Total(fired)
             p == Cardinality(Publishing)
  <1>0. /\ a \in Nat /\ n \in Nat /\ p \in Nat /\ timerWg \in Int
        /\ IsFiniteSet(sending) /\ IsFiniteSet(Armed) /\ IsFiniteSet(Publishing)
        /\ \A k \in Sources : fired[k] \in Nat /\ n >= fired[k]
    BY BusNumbers DEF Counted, BusTypeOK
  <1>1. ASSUME UNCHANGED <<armed, fired, sending, timerWg, panicked, rearmed>>
        PROVE  Counted'
    <2>1. UNCHANGED Armed /\ UNCHANGED Publishing /\ UNCHANGED Total(fired)
      BY <1>1 DEF Armed, Publishing, Total
    <2>2. QED
      BY <1>1, <2>1 DEF Counted, PanicIsLateReset
  <1>2. CASE UNCHANGED busVars
    BY <1>1, <1>2 DEF busVars, windows, events
  <1>3. ASSUME NEW s \in Changes, PublishRepoChange(s), ~panicked
        PROVE  Counted'
    <2> DEFINE k == SourceOf[s]
    <2>1. k \in Sources
      BY BusAssumption
    <2>2. UNCHANGED <<fired, sending, panicked>>
      BY <1>3 DEF PublishRepoChange, events
    <2>3. CASE UNCHANGED <<armed, timerWg, rearmed>>
      BY <1>1, <2>2, <2>3
    <2>4. CASE /\ armed' = [armed EXCEPT ![k] = TRUE]
               /\ timerWg' = IF window[k] = {} THEN timerWg + 1 ELSE timerWg
               /\ rearmed' = (rearmed \/ (window[k] # {} /\ ~armed[k]))
      <3>1. Cardinality(Armed') = a + (IF armed[k] THEN 0 ELSE 1)
        BY <2>1, <2>4, ArmedStarts
      <3>2. UNCHANGED Publishing /\ UNCHANGED Total(fired)
        BY <2>2 DEF Publishing, Total
      <3>3. armed[k] => window[k] # {}
        BY <2>1 DEF BusTypeOK
      <3>4. ~rearmed' => ~rearmed /\ (window[k] # {} => armed[k])
        BY <2>4
      <3>5. ~rearmed => timerWg >= a + n + p
        BY DEF Counted
      <3>6. ~rearmed' => timerWg' >= Cardinality(Armed') + n + p
        <4>1. CASE armed[k]
          BY <1>0, <2>4, <3>1, <3>3, <3>4, <3>5, <4>1
        <4>2. CASE ~armed[k]
          BY <1>0, <2>4, <3>1, <3>4, <3>5, <4>2
        <4>3. QED
          BY <4>1, <4>2
      <3>7. QED
        BY <1>0, <1>3, <2>2, <3>2, <3>6 DEF Counted, PanicIsLateReset
    <2>5. QED
      BY <1>3, <2>3, <2>4 DEF PublishRepoChange
  <1>4. ASSUME NEW k \in Sources, Expire(k)
        PROVE  Counted'
    <2>1. /\ armed[k] /\ armed' = [armed EXCEPT ![k] = FALSE]
          /\ fired' = [fired EXCEPT ![k] = fired[k] + 1]
          /\ UNCHANGED <<sending, timerWg, panicked, rearmed>>
      BY <1>4 DEF Expire, events
    <2>2. Cardinality(Armed') = a - 1
      BY <2>1, ArmedEnds
    <2>3. Total(fired') = n + 1
      <3>1. PICK m \in Nat : m = fired[k] + 1
        BY <1>0
      <3>2. Total(fired') = n - fired[k] + m
        BY <2>1, <3>1, FiredChange
      <3>3. QED
        BY <1>0, <3>1, <3>2
    <2>4. UNCHANGED Publishing
      BY <2>1 DEF Publishing
    <2>5. QED
      BY <1>0, <2>1, <2>2, <2>3, <2>4 DEF Counted, PanicIsLateReset
  <1>5. ASSUME NEW k \in Sources, TimerFunction(k), ~panicked
        PROVE  Counted'
    <2>1. fired[k] > 0 /\ fired' = [fired EXCEPT ![k] = fired[k] - 1] /\ UNCHANGED rearmed
      BY <1>5 DEF TimerFunction
    <2>2. Total(fired') = n - 1
      <3>1. PICK m \in Nat : m = fired[k] - 1
        BY <1>0, <2>1
      <3>2. Total(fired') = n - fired[k] + m
        BY <2>1, <3>1, FiredChange
      <3>3. QED
        BY <1>0, <3>1, <3>2
    <2>3. n >= 1
      BY <1>0, <2>1
    <2>4. CASE Done(1) /\ UNCHANGED <<armed, events>>
      <3>1. UNCHANGED sending /\ UNCHANGED Publishing /\ UNCHANGED Armed
        BY <2>4 DEF events, Publishing, Armed
      <3>2. timerWg' = timerWg - 1 /\ (panicked' => timerWg < 1)
        BY <2>4 DEF Done
      <3>3. QED
        BY <1>0, <2>1, <2>2, <2>3, <3>1, <3>2 DEF Counted, PanicIsLateReset
    <2>5. CASE Flush(k, TRUE) /\ UNCHANGED <<timerWg, panicked>>
      <3>1. /\ IsFiniteSet(sending')
            /\ Cardinality(Armed') \in Nat /\ Cardinality(Armed') <= a
            /\ Cardinality(Publishing') \in Nat /\ Cardinality(Publishing') <= p + 1
        BY <1>0, <2>5, FlushCounts
      <3>2. QED
        BY <1>0, <1>5, <2>1, <2>2, <2>5, <3>1 DEF Counted, PanicIsLateReset
    <2>6. QED
      BY <1>5, <2>4, <2>5 DEF TimerFunction
  <1>6. ASSUME NEW k \in Sources, FlushCoalesce(k), ~panicked
        PROVE  Counted'
    <2>1. Flush(k, FALSE) /\ UNCHANGED <<fired, timerWg, panicked, rearmed>>
      BY <1>6 DEF FlushCoalesce
    <2>2. /\ IsFiniteSet(sending')
          /\ Cardinality(Armed') \in Nat /\ Cardinality(Armed') <= a
          /\ Cardinality(Publishing') \in Nat /\ Cardinality(Publishing') <= p
      <3>1. Cardinality(Publishing') <= p + (IF FALSE THEN 1 ELSE 0)
        BY <1>0, <2>1, FlushCounts
      <3>2. /\ IsFiniteSet(sending') /\ Cardinality(Publishing') \in Nat
            /\ Cardinality(Armed') \in Nat /\ Cardinality(Armed') <= a
        BY <1>0, <2>1, FlushCounts
      <3>3. QED
        BY <1>0, <3>1, <3>2
    <2>3. UNCHANGED Total(fired)
      BY <2>1 DEF Total
    <2>4. QED
      BY <1>0, <1>6, <2>1, <2>2, <2>3 DEF Counted, PanicIsLateReset
  <1>7. ASSUME NEW e \in sending, Emit(e)
        PROVE  Counted'
    BY <1>1, <1>7 DEF Emit, windows
  <1>8. ASSUME NEW e \in sending, Dispatch(e), ~panicked
        PROVE  Counted'
    <2>1. sending' = sending \ {e} /\ UNCHANGED <<armed, fired, rearmed>>
      BY <1>8 DEF Dispatch, windows
    <2>2. IsFiniteSet(sending')
      BY <1>0, <2>1, FS_RemoveElement
    <2>3. UNCHANGED Armed /\ UNCHANGED Total(fired)
      BY <2>1 DEF Armed, Total
    <2>4. CASE e.timer
      <3>1. timerWg' = timerWg - 1 /\ (panicked' => timerWg < 1)
        BY <1>8, <2>4 DEF Dispatch, Done
      <3>2. Publishing' = Publishing \ {e} /\ e \in Publishing
        BY <2>1, <2>4 DEF Publishing
      <3>3. Cardinality(Publishing') = p - 1
        BY <1>0, <3>2, FS_RemoveElement
      <3>4. Cardinality(Publishing') \in Nat
        BY <1>0, <3>2, FS_RemoveElement, FS_CardinalityType
      <3>5. QED
        BY <1>0, <2>1, <2>2, <2>3, <3>1, <3>3, <3>4 DEF Counted, PanicIsLateReset
    <2>5. CASE ~e.timer
      <3>1. UNCHANGED <<timerWg, panicked>>
        BY <1>8, <2>5 DEF Dispatch
      <3>2. UNCHANGED Publishing
        BY <2>1, <2>5 DEF Publishing
      <3>3. QED
        BY <2>1, <2>2, <2>3, <3>1, <3>2 DEF Counted, PanicIsLateReset
    <2>6. QED
      BY <2>4, <2>5
  <1>9. CASE Close /\ ~panicked
    <2>1. /\ armed' = [k \in Sources |-> FALSE]
          /\ timerWg' = timerWg - a /\ (panicked' => timerWg < a)
          /\ UNCHANGED <<fired, sending, rearmed>>
      BY <1>9 DEF Close, Done, events, Armed
    <2>2. Cardinality(Armed') = 0
      <3>1. Armed' = {}
        BY <2>1 DEF Armed
      <3>2. QED
        BY <3>1, FS_EmptySet
    <2>3. UNCHANGED Publishing /\ UNCHANGED Total(fired)
      BY <2>1 DEF Publishing, Total
    <2>4. QED
      BY <1>0, <2>1, <2>2, <2>3 DEF Counted, PanicIsLateReset
  <1>10. CASE CloseReturns
    BY <1>1, <1>10 DEF CloseReturns, windows, events
  <1>11. QED
    BY <1>2, <1>3, <1>4, <1>5, <1>6, <1>7, <1>8, <1>9, <1>10
       DEF BusNext, Timers, Publish

(* Close returns when the counter is zero, so nothing it counts is left;   *)
(* and a closed bus, which has no windows, starts no timer.                *)
LEMMA QuietStep ==
  ASSUME BusInv, [BusNext]_busVars
  PROVE  CloseIsQuiet'
  <1> USE DEF BusInv, BusOnce
  <1>1. CASE closer = "returned" /\ ~rearmed
    <2>1. /\ \A k \in Sources : ~armed[k] /\ fired[k] = 0 /\ window[k] = {}
          /\ \A e \in sending : ~e.timer
      BY <1>1 DEF CloseIsQuiet, WindowsKept, closed
    <2>2. UNCHANGED <<armed, fired>> /\ sending' \subseteq sending
      <3>1. CASE UNCHANGED busVars
        BY <3>1 DEF busVars, windows, events
      <3>2. ASSUME NEW s \in Changes, PublishRepoChange(s)
            PROVE  UNCHANGED <<armed, fired>> /\ sending' \subseteq sending
        BY <1>1, <3>2 DEF PublishRepoChange, closed, events
      <3>3. ASSUME NEW k \in Sources, Timers(k) \/ FlushCoalesce(k)
            PROVE  FALSE
        BY <2>1, <3>3 DEF Timers, Expire, TimerFunction, FlushCoalesce, Flush
      <3>4. CASE Publish
        BY <3>4 DEF Publish, Emit, Dispatch, windows
      <3>5. ~(Close \/ CloseReturns)
        BY <1>1 DEF Close, CloseReturns, closed
      <3>6. QED
        BY <3>1, <3>2, <3>3, <3>4, <3>5 DEF BusNext
    <2>3. QED
      BY <2>1, <2>2 DEF CloseIsQuiet
  <1>2. CASE closer' = "returned" /\ closer # "returned" /\ ~rearmed'
    <2>1. CloseReturns
      <3>1. CASE UNCHANGED busVars
        BY <1>2, <3>1 DEF busVars
      <3>2. ASSUME NEW s \in Changes, PublishRepoChange(s)
            PROVE  UNCHANGED closer
        BY <3>2 DEF PublishRepoChange
      <3>3. ASSUME NEW k \in Sources, Timers(k) \/ FlushCoalesce(k)
            PROVE  UNCHANGED closer
        BY <3>3 DEF Timers, Expire, TimerFunction, FlushCoalesce
      <3>4. CASE Publish
        BY <1>2, <3>4 DEF Publish, Emit, Dispatch
      <3>5. Close => closer' = "waits"
        BY DEF Close
      <3>6. QED
        BY <1>2, <3>1, <3>2, <3>3, <3>4, <3>5 DEF BusNext
    <2>2. timerWg = 0 /\ UNCHANGED <<armed, fired, sending, rearmed>>
      BY <2>1 DEF CloseReturns, windows, events
    <2>3. /\ IsFiniteSet(Armed) /\ Cardinality(Armed) \in Nat
          /\ IsFiniteSet(Publishing) /\ Cardinality(Publishing) \in Nat
          /\ Total(fired) \in Nat
          /\ \A k \in Sources : fired[k] \in Nat /\ Total(fired) >= fired[k]
      BY BusNumbers DEF Counted
    <2>4. 0 >= Cardinality(Armed) + Total(fired) + Cardinality(Publishing)
      BY <1>2, <2>2 DEF Counted
    <2>5. Armed = {} /\ Publishing = {}
      BY <2>3, <2>4, FS_EmptySet
    <2>6. \A k \in Sources : fired[k] = 0
      BY <2>3, <2>4
    <2>7. QED
      BY <2>2, <2>5, <2>6 DEF CloseIsQuiet, Armed, Publishing
  <1>3. rearmed => rearmed'
    <2>1. \A s \in Changes : PublishRepoChange(s) => (rearmed => rearmed')
      BY DEF PublishRepoChange
    <2>2. QED
      BY <2>1 DEF BusNext, busVars, Timers, Expire, TimerFunction,
         FlushCoalesce, Publish, Emit, Dispatch, Close, CloseReturns
  <1>4. QED
    BY <1>1, <1>2, <1>3 DEF CloseIsQuiet

LEMMA BusInvariance == BusSpec => []BusInv
  <1>1. ASSUME BusInit PROVE BusInv
    <2>1. BusOnce
      BY <1>1, BusOnceInit
    <2>2. Armed = {} /\ Publishing = {} /\ sending = {}
      BY <1>1 DEF BusInit, Armed, Publishing
    <2>3. Total(fired) = 0
      <3>1. PICK f : f = fired
        OBVIOUS
      <3>2. f \in [Sources -> Nat] /\ \A k \in Sources : f[k] = 0
        BY <1>1, <3>1 DEF BusInit
      <3>3. Total(f) = 0
        BY <3>2, TotalZero
      <3>4. QED
        BY <3>1, <3>3
    <2>4. IsFiniteSet({}) /\ Cardinality({}) = 0
      BY FS_EmptySet
    <2>5. Counted
      BY <1>1, <2>2, <2>3, <2>4 DEF BusInit, Counted, PanicIsLateReset
    <2>6. CloseIsQuiet
      BY <1>1 DEF BusInit, CloseIsQuiet
    <2>7. QED
      BY <2>1, <2>5, <2>6 DEF BusInv
  <1>2. BusInv /\ [BusNext]_busVars => BusInv'
    <2>1. ASSUME BusInv, [BusNext]_busVars PROVE BusOnce'
      BY <2>1, BusTypeStep, BusOnceStep DEF BusInv, BusOnce
    <2>2. ASSUME BusInv, [BusNext]_busVars PROVE Counted' /\ CloseIsQuiet'
      BY <2>2, CountedStep, QuietStep
    <2>3. QED
      BY <2>1, <2>2 DEF BusInv
  <1>3. QED
    BY <1>1, <1>2, PTL DEF BusSpec

(* The bus, for any sources, changes and flushes: every variable has its   *)
(* type, and a timer that is to expire has a window (the bucket and timer  *)
(* that PublishRepoChange makes together and a flush takes together).      *)
THEOREM BusTypeCorrect == BusSpec => []BusTypeOK
  <1>1. BusInv => BusTypeOK
    BY DEF BusInv, BusOnce
  <1>2. QED
    BY <1>1, BusInvariance, PTL

(* However bursts, expiring timers, flushes by hand and Close overlap,     *)
(* every submitted change is in one place: no burst, flush or late timer   *)
(* loses a change or tells it twice (flushCoalesceBucketLocked, Close).    *)
THEOREM ChangesOnce == BusSpec => []EachChangeOnce
  <1>1. BusInv => EachChangeOnce
    BY DEF BusInv, BusOnce
  <1>2. QED
    BY <1>1, BusInvariance, PTL

(* When Close has returned no timer is to expire and no function of one is *)
(* waiting or publishing, unless a timer was Reset after it had expired    *)
(* (timerWg.Wait in Close).                                                *)
THEOREM CloseWaitsForTimers == BusSpec => []CloseIsQuiet
  <1>1. BusInv => CloseIsQuiet
    BY DEF BusInv
  <1>2. QED
    BY <1>1, BusInvariance, PTL

(* The counter of timerWg stays at or above zero, so that no Done or Close *)
(* panics, unless a timer was Reset after it had expired.                  *)
THEOREM OnlyLateResetsPanic == BusSpec => []PanicIsLateReset
  <1>1. BusInv => PanicIsLateReset
    BY DEF BusInv, Counted
  <1>2. QED
    BY <1>1, BusInvariance, PTL

-----------------------------------------------------------------------------
(* Why Close returns: as long as nothing was flushed by hand, the counter  *)
(* is no more than the windows and what is being published, and every      *)
(* window has its timer or the function of one; once closed, no more than  *)
(* the functions that are left.                                            *)
Opened == {k \in Sources : window[k] # {}}

Covered ==
  /\ timerWg < 0 => panicked
  /\ flushes = 0 /\ ~closed =>
       /\ timerWg <= Cardinality(Opened) + Cardinality(Publishing)
       /\ \A k \in Opened : armed[k] \/ fired[k] > 0
  /\ flushes = 0 /\ closed => timerWg <= Total(fired) + Cardinality(Publishing)

CloseIsFree ==
  closer = "waits" /\ flushes = 0 /\ ~panicked
  /\ (\A k \in Sources : fired[k] = 0) /\ (\A e \in sending : ~e.timer)
    => timerWg = 0

LEMMA OpenedFinite == IsFiniteSet(Opened) /\ Cardinality(Opened) \in Nat
  <1>1. IsFiniteSet(Opened)
    BY BusAssumption, FS_Subset DEF Opened
  <1>2. QED
    BY <1>1, FS_CardinalityType

(* A key whose timer's function waits counts for one at least.             *)
LEMMA WaitingKeys ==
  ASSUME BusTypeOK, NEW S \in SUBSET Sources, \A k \in S : fired[k] > 0
  PROVE  Cardinality(S) \in Nat /\ Cardinality(S) <= Total(fired)
  <1>1. fired \in [Sources -> Nat]
    BY DEF BusTypeOK
  <1>2. IsFiniteSet(Tokens(fired, Sources)) /\ Total(fired) = Cardinality(Tokens(fired, Sources))
    BY <1>1, BusAssumption, TokensFinite DEF Total, Tokens
  <1>3. IsFiniteSet(S) /\ Cardinality(S) \in Nat
    BY BusAssumption, FS_Subset, FS_CardinalityType
  <1>4. IsFiniteSet({1}) /\ Cardinality({1}) = 1
    BY FS_Singleton
  <1>5. Cardinality(S \X {1}) = Cardinality(S) * 1
    BY <1>3, <1>4, FS_Product
  <1>6. S \X {1} \subseteq Tokens(fired, Sources)
    <2>1. \A k \in S : <<k, 1>> \in {k} \X (1 .. fired[k])
      BY <1>1
    <2>2. \A k \in S : {k} \X (1 .. fired[k]) \subseteq Tokens(fired, Sources)
      BY DEF Tokens
    <2>3. QED
      BY <2>1, <2>2
  <1>7. Cardinality(S \X {1}) <= Cardinality(Tokens(fired, Sources))
    BY <1>2, <1>6, FS_Subset
  <1>8. QED
    BY <1>2, <1>3, <1>5, <1>7

LEMMA FlushMoves ==
  ASSUME BusOnce, IsFiniteSet(sending), NEW k \in Sources, Flush(k, TRUE)
  PROVE  /\ Cardinality(Opened') = Cardinality(Opened) - 1
         /\ Cardinality(Publishing') = Cardinality(Publishing) + 1
         /\ \A j \in Opened' : j # k /\ j \in Opened /\ armed'[j] = armed[j]
  <1> USE DEF BusOnce
  <1>1. Opened' = Opened \ {k} /\ k \in Opened
    BY DEF Flush, Opened, BusTypeOK
  <1>2. Cardinality(Opened') = Cardinality(Opened) - 1
    BY <1>1, OpenedFinite, FS_RemoveElement
  <1>3. PICK r : /\ r.timer = TRUE /\ r.changes = window[k]
                 /\ sending' = sending \cup {r}
    BY DEF Flush
  <1>4. r \notin sending
    BY <1>1, <1>3 DEF EachChangeOnce, Held, Told, Opened
  <1>5. Publishing' = Publishing \cup {r} /\ r \notin Publishing
    BY <1>3, <1>4 DEF Publishing
  <1>6. IsFiniteSet(Publishing)
    BY BusNumbers
  <1>7. Cardinality(Publishing') = Cardinality(Publishing) + 1
    BY <1>5, <1>6, FS_AddElement
  <1>8. \A j \in Opened' : j # k /\ j \in Opened /\ armed'[j] = armed[j]
    BY <1>1 DEF Flush, BusTypeOK, Opened
  <1>9. QED
    BY <1>2, <1>7, <1>8

LEMMA CoveredStep ==
  ASSUME BusInv, Covered, [BusNext]_busVars
  PROVE  Covered'
  <1> USE DEF BusInv, BusOnce
  <1> DEFINE o == Cardinality(Opened)
             n == Total(fired)
             p == Cardinality(Publishing)
  <1>0. /\ o \in Nat /\ n \in Nat /\ p \in Nat /\ timerWg \in Int /\ flushes \in Nat
        /\ IsFiniteSet(sending) /\ IsFiniteSet(Opened) /\ IsFiniteSet(Publishing)
        /\ \A k \in Sources : fired[k] \in Nat /\ n >= fired[k]
    BY BusAssumption, BusNumbers, OpenedFinite DEF Counted, BusTypeOK
  <1>1. ASSUME UNCHANGED <<windows, sending, timerWg, panicked, flushes>>, closed' = closed
        PROVE  Covered'
    <2>1. UNCHANGED Opened /\ UNCHANGED Publishing /\ UNCHANGED Total(fired)
      BY <1>1 DEF Opened, Publishing, Total, windows
    <2>2. QED
      BY <1>1, <2>1 DEF Covered, windows
  <1>2. CASE UNCHANGED busVars
    BY <1>1, <1>2 DEF busVars, events, closed
  <1>3. ASSUME NEW s \in Changes, PublishRepoChange(s), ~panicked
        PROVE  Covered'
    <2> DEFINE k == SourceOf[s]
    <2>1. k \in Sources
      BY BusAssumption
    <2>2. UNCHANGED <<fired, sending, closer, panicked, flushes>>
      BY <1>3 DEF PublishRepoChange, events
    <2>3. CASE UNCHANGED <<window, armed, timerWg>>
      BY <1>1, <2>2, <2>3 DEF windows, closed
    <2>4. CASE /\ ~closed
               /\ window' = [window EXCEPT ![k] = @ \cup {s}]
               /\ armed' = [armed EXCEPT ![k] = TRUE]
               /\ timerWg' = IF window[k] = {} THEN timerWg + 1 ELSE timerWg
      <3>1. Opened' = Opened \cup {k}
        BY <2>1, <2>4 DEF Opened, BusTypeOK
      <3>2. Cardinality(Opened') = o + (IF window[k] = {} THEN 1 ELSE 0)
        <4>1. Cardinality(Opened \cup {k}) = IF k \in Opened THEN o ELSE o + 1
          BY <1>0, FS_AddElement
        <4>2. k \in Opened <=> window[k] # {}
          BY <2>1 DEF Opened
        <4>3. QED
          BY <1>0, <3>1, <4>1, <4>2
      <3>3. UNCHANGED Publishing
        BY <2>2 DEF Publishing
      <3>4. ~closed' /\ timerWg >= 0
        BY <1>0, <1>3, <2>2, <2>4 DEF Covered, closed
      <3>5. flushes = 0 => \A j \in Opened' : armed'[j] \/ fired'[j] > 0
        BY <2>1, <2>2, <2>4, <3>1 DEF Covered, BusTypeOK
      <3>6. flushes = 0 => timerWg' <= Cardinality(Opened') + p
        BY <1>0, <2>4, <3>2 DEF Covered
      <3>7. timerWg' \in Int /\ timerWg' >= 0
        BY <1>0, <2>4, <3>4
      <3>8. QED
        BY <2>2, <3>3, <3>4, <3>5, <3>6, <3>7 DEF Covered
    <2>5. QED
      BY <1>3, <2>3, <2>4 DEF PublishRepoChange
  <1>4. ASSUME NEW k \in Sources, Expire(k)
        PROVE  Covered'
    <2>1. /\ armed' = [armed EXCEPT ![k] = FALSE] /\ ~closed
          /\ fired' = [fired EXCEPT ![k] = fired[k] + 1]
          /\ UNCHANGED <<window, sending, timerWg, panicked, flushes, closer>>
      BY <1>4 DEF Expire, events, BusTypeOK, WindowsKept
    <2>2. UNCHANGED Opened /\ UNCHANGED Publishing /\ ~closed'
      BY <2>1 DEF Opened, Publishing, closed
    <2>3. \A j \in Opened : armed[j] \/ fired[j] > 0 => armed'[j] \/ fired'[j] > 0
      BY <1>0, <2>1 DEF BusTypeOK, Opened
    <2>4. QED
      BY <2>1, <2>2, <2>3 DEF Covered
  <1>5. ASSUME NEW k \in Sources, TimerFunction(k), ~panicked
        PROVE  Covered'
    <2>1. /\ fired[k] > 0 /\ fired' = [fired EXCEPT ![k] = fired[k] - 1]
          /\ UNCHANGED <<closer, flushes>>
      BY <1>5 DEF TimerFunction
    <2>2. Total(fired') = n - 1
      <3>1. PICK m \in Nat : m = fired[k] - 1
        BY <1>0, <2>1
      <3>2. Total(fired') = n - fired[k] + m
        BY <2>1, <3>1, FiredChange
      <3>3. QED
        BY <1>0, <3>1, <3>2
    <2>3. \A j \in Sources : j # k => fired'[j] = fired[j]
      BY <2>1 DEF BusTypeOK
    <2>4. closed' = closed
      BY <2>1 DEF closed
    <2>5. CASE (closed \/ window[k] = {}) /\ Done(1) /\ UNCHANGED <<window, armed, events>>
      <3>1. UNCHANGED Opened /\ UNCHANGED Publishing
        BY <2>5 DEF events, Publishing, Opened
      <3>2. timerWg' = timerWg - 1 /\ (timerWg < 1 => panicked')
        BY <2>5 DEF Done
      <3>3. ~closed => k \notin Opened
        BY <2>5 DEF Opened
      <3>4. flushes = 0 /\ ~closed => \A j \in Opened' : armed'[j] \/ fired'[j] > 0
        BY <2>3, <2>5, <3>1, <3>3 DEF Covered, Opened
      <3>5. QED
        BY <1>0, <2>1, <2>2, <2>4, <3>1, <3>2, <3>4 DEF Covered
    <2>6. CASE ~closed /\ Flush(k, TRUE) /\ UNCHANGED <<timerWg, panicked>>
      <3>1. /\ Cardinality(Opened') = o - 1 /\ Cardinality(Publishing') = p + 1
            /\ \A j \in Opened' : j # k /\ j \in Opened /\ armed'[j] = armed[j]
        BY <1>0, <2>6, FlushMoves
      <3>2. flushes = 0 => \A j \in Opened' : armed'[j] \/ fired'[j] > 0
        BY <2>3, <2>6, <3>1 DEF Covered, Opened
      <3>3. QED
        BY <1>0, <2>1, <2>4, <2>6, <3>1, <3>2 DEF Covered
    <2>7. QED
      BY <1>5, <2>5, <2>6 DEF TimerFunction
  <1>6. ASSUME NEW k \in Sources, FlushCoalesce(k)
        PROVE  Covered'
    BY <1>0, <1>6 DEF FlushCoalesce, Covered
  <1>7. ASSUME NEW e \in sending, Emit(e)
        PROVE  Covered'
    BY <1>1, <1>7 DEF Emit, closed
  <1>8. ASSUME NEW e \in sending, Dispatch(e), ~panicked
        PROVE  Covered'
    <2>1. sending' = sending \ {e} /\ UNCHANGED <<windows, closer, flushes>>
      BY <1>8 DEF Dispatch
    <2>2. UNCHANGED Opened /\ UNCHANGED Total(fired) /\ closed' = closed
      BY <2>1 DEF Opened, Total, windows, closed
    <2>3. CASE e.timer
      <3>1. timerWg' = timerWg - 1 /\ (timerWg < 1 => panicked')
        BY <1>8, <2>3 DEF Dispatch, Done
      <3>2. Publishing' = Publishing \ {e} /\ e \in Publishing
        BY <2>1, <2>3 DEF Publishing
      <3>3. Cardinality(Publishing') = p - 1
        BY <1>0, <3>2, FS_RemoveElement
      <3>4. QED
        BY <1>0, <2>1, <2>2, <3>1, <3>3 DEF Covered, windows
    <2>4. CASE ~e.timer
      <3>1. UNCHANGED <<timerWg, panicked>>
        BY <1>8, <2>4 DEF Dispatch
      <3>2. UNCHANGED Publishing
        BY <2>1, <2>4 DEF Publishing
      <3>3. QED
        BY <2>1, <2>2, <3>1, <3>2 DEF Covered, windows
    <2>5. QED
      BY <2>3, <2>4
  <1>9. CASE Close /\ ~panicked
    <2> DEFINE a == Cardinality(Armed)
    <2>1. /\ timerWg' = timerWg - a /\ (timerWg < a => panicked')
          /\ ~closed /\ closed' /\ UNCHANGED <<fired, sending, flushes>>
      BY <1>9 DEF Close, Done, events, Armed, closed
    <2>2. UNCHANGED Publishing /\ UNCHANGED Total(fired)
      BY <2>1 DEF Publishing, Total
    <2>3. a \in Nat /\ Armed \subseteq Opened
      BY <1>0, BusNumbers DEF Armed, Opened, BusTypeOK
    <2>4. Cardinality(Opened \ Armed) = o - a
      <3>1. Opened \cap Armed = Armed
        BY <2>3
      <3>2. Cardinality(Opened \ Armed) = o - Cardinality(Opened \cap Armed)
        BY <1>0, FS_Difference
      <3>3. QED
        BY <3>1, <3>2
    <2>5. flushes = 0 => Cardinality(Opened \ Armed) <= n
      <3>1. SUFFICES ASSUME flushes = 0 PROVE Cardinality(Opened \ Armed) <= n
        OBVIOUS
      <3>2. PICK S : S = Opened \ Armed
        OBVIOUS
      <3>3. S \in SUBSET Sources /\ \A k \in S : fired[k] > 0
        BY <2>1, <3>1, <3>2 DEF Covered, Opened, Armed
      <3>4. QED
        BY <3>2, <3>3, WaitingKeys
    <2>6. QED
      BY <1>0, <2>1, <2>2, <2>3, <2>4, <2>5 DEF Covered
  <1>10. CASE CloseReturns
    BY <1>1, <1>10 DEF CloseReturns, events, closed
  <1>11. QED
    BY <1>2, <1>3, <1>4, <1>5, <1>6, <1>7, <1>8, <1>9, <1>10
       DEF BusNext, Timers, Publish

(* A Close that waits does not wait for nothing: once no function of a     *)
(* timer is left the counter is zero, unless the WaitGroup has panicked or *)
(* a window was flushed by hand (timerWg.Wait, and the Done that           *)
(* flushCoalesceBucketLocked leaves out).                                  *)
THEOREM CloseIsNotStuck == BusSpec => []CloseIsFree
  <1>1. ASSUME BusInit PROVE Covered
    <2>1. Opened = {} /\ timerWg = 0 /\ ~closed
      BY <1>1 DEF BusInit, Opened, closed
    <2>2. Publishing = {}
      BY <1>1 DEF BusInit, Publishing
    <2>3. Cardinality({}) = 0
      BY FS_EmptySet
    <2>4. QED
      BY <2>1, <2>2, <2>3 DEF Covered
  <1>2. BusInv /\ Covered /\ [BusNext]_busVars => Covered'
    BY CoveredStep
  <1>3. ASSUME BusInv, Covered PROVE CloseIsFree
    <2>1. SUFFICES ASSUME closer = "waits", flushes = 0, ~panicked,
                          \A k \in Sources : fired[k] = 0, \A e \in sending : ~e.timer
                   PROVE  timerWg = 0
      BY DEF CloseIsFree
    <2>2. Publishing = {}
      BY <2>1 DEF Publishing
    <2>3. Total(fired) = 0
      <3>1. PICK f : f = fired
        OBVIOUS
      <3>2. f \in [Sources -> Nat] /\ \A k \in Sources : f[k] = 0
        BY <1>3, <2>1, <3>1 DEF BusInv, BusOnce, BusTypeOK
      <3>3. QED
        BY <3>1, <3>2, TotalZero
    <2>4. timerWg \in Int /\ timerWg >= 0 /\ timerWg <= Total(fired) + Cardinality(Publishing)
      BY <1>3, <2>1 DEF BusInv, BusOnce, BusTypeOK, Covered, closed
    <2>5. QED
      BY <2>2, <2>3, <2>4, FS_EmptySet
  <1>4. QED
    BY <1>1, <1>2, <1>3, BusInvariance, PTL DEF BusSpec
===============================================================================
