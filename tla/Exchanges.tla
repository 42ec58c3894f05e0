------------------------------ MODULE Exchanges ------------------------------
(***************************************************************************)
(* internal/collaboration/engine.go: the exchanges of one session, as Ask, *)
(* Converse and RequestReview run them.  A call is admitted once per       *)
(* idempotency key, counted, and served by one exchange per peer: reserve  *)
(* an estimate in the session's budget, invoke the peer, then either       *)
(* commit the usage or roll the reservation back.  The answer is stored as *)
(* a message and, under its key, as a record that later calls are given.   *)
(*                                                                         *)
(* Several processes may serve one store (MCP server, bridge, command      *)
(* line): the keys in flight, the counters and the mutex over the budget   *)
(* belong to a process, the budget, the messages and the records to the    *)
(* store.  A caller's context may end, and from then on every statement    *)
(* made with it fails; a process may die.                                  *)
(*                                                                         *)
(* The four metrics of a budget are one, the turns of a conversation count *)
(* as calls; projection, prompts, the agents' health (module Delivery) and *)
(* findings are left out, up to whether they fail an exchange.             *)
(***************************************************************************)
EXTENDS Integers, FiniteSets

CONSTANTS
  Procs, Calls, Keys, Peers, None,
  KeyOf,         \* a call's idempotency key, or None
  Asked,         \* the peers a call is put to
  Reviews,       \* the calls that request a review
  EstInput, EstOutput,         \* what an exchange reserves
  MinViable,     \* least output worth an exchange
  MaxTotal,      \* the session's budget
  Usages,        \* what an invocation may turn out to use
  MaxCalls, MaxRounds, MaxParallel,
  MaxLeavers, MaxStops, MaxCrashes   \* bounds of what the environment does

ASSUME ExchangeAssumption ==
  /\ None \notin Procs \cup Calls \cup Keys \cup Peers
  /\ "error" \notin Calls
  /\ IsFiniteSet(Calls) /\ IsFiniteSet(Peers)
  /\ KeyOf \in [Calls -> Keys \cup {None}]
  /\ Asked \in [Calls -> SUBSET Peers]
  /\ Reviews \subseteq Calls
  /\ {EstInput, MaxTotal, MaxCalls, MaxRounds, MaxParallel,
      MaxLeavers, MaxStops, MaxCrashes} \cup Usages \subseteq Nat
  /\ {EstOutput, MinViable} \subseteq Nat \ {0}

VARIABLES
  \* the store
  session,   \* the session's status
  used,      \* the budget's used tokens
  messages,  \* the calls whose answer is stored as a message
  record,    \* the call whose answer is on record under a key, or None
  \* each process
  inflight,  \* the call that holds a key, or None
  calls, rounds, lastHash,
  ledger,    \* who holds the budget mutex, and what it has read
  \* each call
  at, proc, left, reply,
  exchange   \* a call's exchange with each peer

store == <<session, used, messages, record>>
process == <<inflight, calls, rounds, lastHash, ledger>>
call == <<at, proc, left, reply, exchange>>
vars == <<store, process, call>>

-----------------------------------------------------------------------------
Fresh == [at |-> "queued", reserved |-> 0, usage |-> 0, over |-> 0]
Unlocked == [call |-> None, peer |-> None, read |-> 0]
Ended == {"ok", "failed"}

Init ==
  /\ session = "active" /\ used = 0 /\ messages = {}
  /\ record = [k \in Keys |-> None]
  /\ inflight = [p \in Procs |-> [k \in Keys |-> None]]
  /\ calls = [p \in Procs |-> 0] /\ rounds = [p \in Procs |-> 0]
  /\ lastHash = [p \in Procs |-> None]
  /\ ledger = [p \in Procs |-> Unlocked]
  /\ at = [c \in Calls |-> "idle"]
  /\ proc = [c \in Calls |-> None]
  /\ left = [c \in Calls |-> FALSE]
  /\ reply = [c \in Calls |-> None]
  /\ exchange = [c \in Calls |-> [q \in Peers |-> Fresh]]

Goto(c, place) == at' = [at EXCEPT ![c] = place]

Arrive(c, p) ==
  /\ at[c] = "idle"
  /\ Goto(c, IF KeyOf[c] = None THEN "admit" ELSE "acquire")
  /\ proc' = [proc EXCEPT ![c] = p]
  /\ UNCHANGED <<store, process, left, reply, exchange>>

-----------------------------------------------------------------------------
(* acquireIdempotency: the answer on record, or the key; a call whose key  *)
(* is held waits, and looks again when the key is given back.  A context   *)
(* that has ended finds no record, as the read fails.  A wrong variant     *)
(* looks at the record only when it has not had to wait.                   *)
Takes(c) ==
  /\ inflight[proc[c]][KeyOf[c]] = None
  /\ inflight' = [inflight EXCEPT ![proc[c]][KeyOf[c]] = c]
  /\ Goto(c, "admit")
  /\ UNCHANGED reply

AcquireUnread(c) ==
  /\ at[c] = "acquire"
  /\ Takes(c)
  /\ UNCHANGED <<store, calls, rounds, lastHash, ledger, proc, left, exchange>>
Acquire(c) ==
  /\ at[c] = "acquire"
  /\ \/ /\ record[KeyOf[c]] # None /\ ~left[c]
        /\ reply' = [reply EXCEPT ![c] = record[KeyOf[c]]]
        /\ Goto(c, "done")
        /\ UNCHANGED inflight
     \/ /\ record[KeyOf[c]] = None \/ left[c]
        /\ Takes(c)
  /\ UNCHANGED <<store, calls, rounds, lastHash, ledger, proc, left, exchange>>

StopsWaiting(c) ==
  /\ at[c] = "acquire" /\ left[c]
  /\ inflight[proc[c]][KeyOf[c]] # None
  /\ Goto(c, "done")
  /\ reply' = [reply EXCEPT ![c] = "error"]
  /\ UNCHANGED <<store, process, proc, left, exchange>>

(* Under the engine's mutex: the session's status and the limits.  A call  *)
(* counts when it is over the limit, too.                                  *)
Admit(c) ==
  LET p == proc[c]
      open == session = "active" /\ ~left[c]
      counted == open /\ calls[p] < MaxCalls
  IN /\ at[c] = "admit"
     /\ calls' = [calls EXCEPT ![p] = IF open THEN @ + 1 ELSE @]
     /\ rounds' = [rounds EXCEPT ![p] = IF counted /\ c \in Reviews THEN @ + 1 ELSE @]
     /\ Goto(c, CASE ~counted -> "release"
                  [] counted /\ c \in Reviews /\ rounds[p] >= MaxRounds -> "exhausted"
                  [] OTHER -> "running")
     /\ UNCHANGED <<store, inflight, lastHash, ledger, proc, left, reply, exchange>>

(* Too many rounds, or the same findings twice, close the session.         *)
CloseSession(c) ==
  /\ at[c] \in {"exhausted", "repeated"}
  /\ session' = IF left[c] THEN session
                ELSE IF at[c] = "exhausted" THEN "max_rounds" ELSE "stalled"
  /\ Goto(c, "release")
  /\ UNCHANGED <<used, messages, record, process, proc, left, reply, exchange>>

-----------------------------------------------------------------------------
(* One exchange with one peer.                                             *)

Change(c, q, x) == exchange' = [exchange EXCEPT ![c][q] = x]
Phase(c, q, place) == exchange' = [exchange EXCEPT ![c][q].at = place]

InExchange == <<session, messages, record, inflight, calls, rounds, lastHash,
                at, proc, left, reply>>

(* The peer is looked up, the context projected; MaxParallelPeers          *)
(* exchanges of a review run at a time.                                    *)
Running(c) == {q \in Asked[c] : exchange[c][q].at \notin {"queued"} \cup Ended}

Prepare(c, q) ==
  /\ at[c] = "running" /\ exchange[c][q].at = "queued"
  /\ Cardinality(Running(c)) < MaxParallel
  /\ \/ Phase(c, q, "failed")
     \/ Phase(c, q, "reserve") /\ ~left[c]
  /\ UNCHANGED <<InExchange, used, ledger>>

Holds(c, q) == ledger[proc[c]].call = c /\ ledger[proc[c]].peer = q
Unlock(c) == ledger' = [ledger EXCEPT ![proc[c]] = Unlocked]

(* reserveBudget, commitBudget and rollbackBudget each lock the mutex of   *)
(* the process, read the session, and write the budget back.               *)
ReadBudget(c, q) ==
  /\ exchange[c][q].at \in {"reserve", "commit", "rollback"}
  /\ ledger[proc[c]] = Unlocked /\ ~left[c]
  /\ ledger' = [ledger EXCEPT ![proc[c]] = [call |-> c, peer |-> q, read |-> used]]
  /\ UNCHANGED <<InExchange, used, exchange>>

Remaining(c) == MaxTotal - ledger[proc[c]].read - EstInput

\* A wrong variant takes more than remains.
Bounded(c) == IF Remaining(c) < EstOutput THEN Remaining(c) ELSE EstOutput
ReserveInFull(c, q) ==
  /\ exchange[c][q].at = "reserve" /\ Holds(c, q) /\ ~left[c]
  /\ \/ /\ Remaining(c) < MinViable
        /\ Phase(c, q, "failed")
        /\ UNCHANGED used
     \/ /\ Remaining(c) >= MinViable
        /\ Change(c, q, [Fresh EXCEPT !.at = "invoke", !.reserved = EstInput + EstOutput])
        /\ used' = ledger[proc[c]].read + EstInput + EstOutput
  /\ Unlock(c)
  /\ UNCHANGED InExchange
Reserve(c, q) ==
  /\ exchange[c][q].at = "reserve" /\ Holds(c, q) /\ ~left[c]
  /\ \/ /\ Remaining(c) < MinViable
        /\ Phase(c, q, "failed")
        /\ UNCHANGED used
     \/ /\ Remaining(c) >= MinViable
        /\ Change(c, q, [Fresh EXCEPT !.at = "invoke", !.reserved = EstInput + Bounded(c)])
        /\ used' = ledger[proc[c]].read + EstInput + Bounded(c)
  /\ Unlock(c)
  /\ UNCHANGED InExchange

(* The harness answers or fails, also because it cannot enforce a strict   *)
(* token ceiling; a caller that leaves interrupts it, or comes too late.   *)
\* A wrong variant forgets the deferred rollback.
InvokeNoRollback(c, q) ==
  /\ exchange[c][q].at = "invoke"
  /\ \/ \E n \in Usages : Change(c, q, [exchange[c][q] EXCEPT !.at = "commit", !.usage = n])
     \/ Phase(c, q, "failed")
  /\ UNCHANGED <<InExchange, used, ledger>>
Invoke(c, q) ==
  /\ exchange[c][q].at = "invoke"
  /\ \/ \E n \in Usages : Change(c, q, [exchange[c][q] EXCEPT !.at = "commit", !.usage = n])
     \/ Phase(c, q, "rollback")
  /\ UNCHANGED <<InExchange, used, ledger>>

(* The usage takes the place of the reservation, which is then discharged; *)
(* usage over the limit is charged, and the answer refused.  A review that *)
(* does not parse is charged, too.                                         *)
Committed(c, q, total) ==
  LET x == exchange[c][q]
      charged == [x EXCEPT !.reserved = 0,
                    !.over = IF x.usage > x.reserved THEN x.usage - x.reserved ELSE 0]
  IN \/ Change(c, q, [charged EXCEPT !.at = "ok"]) /\ total <= MaxTotal
     \/ Change(c, q, [charged EXCEPT !.at = "failed"]) /\ (total > MaxTotal \/ c \in Reviews)

\* A wrong variant leaves the estimate in place.
CommitOnTop(c, q) ==
  LET total == ledger[proc[c]].read + exchange[c][q].usage
  IN /\ exchange[c][q].at = "commit" /\ Holds(c, q) /\ ~left[c]
     /\ used' = total
     /\ Committed(c, q, total)
     /\ Unlock(c)
     /\ UNCHANGED InExchange
Commit(c, q) ==
  LET total == ledger[proc[c]].read - exchange[c][q].reserved + exchange[c][q].usage
  IN /\ exchange[c][q].at = "commit" /\ Holds(c, q) /\ ~left[c]
     /\ used' = total
     /\ Committed(c, q, total)
     /\ Unlock(c)
     /\ UNCHANGED InExchange

Rollback(c, q) ==
  /\ exchange[c][q].at = "rollback" /\ Holds(c, q) /\ ~left[c]
  /\ used' = ledger[proc[c]].read - exchange[c][q].reserved
  /\ Change(c, q, [exchange[c][q] EXCEPT !.at = "failed", !.reserved = 0, !.usage = 0])
  /\ Unlock(c)
  /\ UNCHANGED InExchange

(* With a context that has ended the store refuses: a commit that failed   *)
(* is rolled back by the deferred function, and a rollback that failed     *)
(* leaves its reservation in the budget.                                   *)
StoreRefuses(c, q) ==
  /\ exchange[c][q].at \in {"reserve", "commit", "rollback"} /\ left[c]
  /\ Phase(c, q, IF exchange[c][q].at = "commit" THEN "rollback" ELSE "failed")
  /\ IF Holds(c, q) THEN Unlock(c) ELSE UNCHANGED ledger
  /\ UNCHANGED <<InExchange, used>>

-----------------------------------------------------------------------------
(* All exchanges have ended.  A review whose findings are those of the     *)
(* round before has stalled.                                               *)
Succeeded(c) == {q \in Asked[c] : exchange[c][q].at = "ok"} # {}

Join(c) ==
  /\ at[c] = "running"
  /\ \A q \in Asked[c] : exchange[c][q].at \in Ended
  /\ \/ Goto(c, "release") /\ ~Succeeded(c) /\ UNCHANGED lastHash
     \/ Goto(c, "save") /\ Succeeded(c) /\ c \notin Reviews /\ UNCHANGED lastHash
     \/ /\ Succeeded(c) /\ c \in Reviews
        /\ \E hash \in {None, "findings"} :
             IF hash # None /\ lastHash[proc[c]] = hash
             THEN Goto(c, "repeated") /\ UNCHANGED lastHash
             ELSE Goto(c, "save") /\ lastHash' = [lastHash EXCEPT ![proc[c]] = hash]
  /\ UNCHANGED <<store, inflight, calls, rounds, ledger, proc, left, reply, exchange>>

SaveMessage(c) ==
  /\ at[c] = "save"
  /\ \/ Goto(c, "release") /\ left[c] /\ UNCHANGED <<messages, reply>>
     \/ /\ ~left[c]
        /\ messages' = messages \cup {c}
        /\ IF KeyOf[c] = None
           THEN Goto(c, "release") /\ reply' = [reply EXCEPT ![c] = c]
           ELSE Goto(c, "record") /\ UNCHANGED reply
  /\ UNCHANGED <<session, used, record, process, proc, left, exchange>>

SaveIdempotency(c) ==
  /\ at[c] = "record"
  /\ \/ UNCHANGED <<record, reply>> /\ left[c]
     \/ /\ ~left[c]
        /\ record' = [record EXCEPT ![KeyOf[c]] = c]
        /\ reply' = [reply EXCEPT ![c] = c]
  /\ Goto(c, "release")
  /\ UNCHANGED <<session, used, messages, process, proc, left, exchange>>

(* The deferred release of the key; a call that got no answer got an       *)
(* error.  A wrong variant releases only on the way to an answer.          *)
Returns(c) == reply' = [reply EXCEPT ![c] = IF @ = None THEN "error" ELSE @]
Frees(c) == inflight' = IF KeyOf[c] = None THEN inflight
                        ELSE [inflight EXCEPT ![proc[c]][KeyOf[c]] = None]
ReleaseOnSuccess(c) ==
  /\ at[c] = "release"
  /\ Goto(c, "done") /\ Returns(c)
  /\ IF reply[c] = None THEN UNCHANGED inflight ELSE Frees(c)
  /\ UNCHANGED <<store, calls, rounds, lastHash, ledger, proc, left, exchange>>
Release(c) ==
  /\ at[c] = "release"
  /\ Goto(c, "done") /\ Returns(c) /\ Frees(c)
  /\ UNCHANGED <<store, calls, rounds, lastHash, ledger, proc, left, exchange>>

-----------------------------------------------------------------------------
Leave(c) ==
  /\ at[c] \notin {"idle", "done"} /\ ~left[c]
  /\ Cardinality({d \in Calls : left[d]}) < MaxLeavers
  /\ left' = [left EXCEPT ![c] = TRUE]
  /\ UNCHANGED <<store, process, at, proc, reply, exchange>>

StopSession ==
  /\ MaxStops > 0 /\ session = "active"
  /\ session' = "completed"
  /\ UNCHANGED <<used, messages, record, process, call>>

(* A process dies, and starts again with nothing but the store.            *)
Lost == {c \in Calls : at[c] = "lost"}
Served(p) == {c \in Calls : proc[c] = p /\ at[c] \notin {"idle", "done", "lost"}}

Crash(p) ==
  /\ Served(p) # {}
  /\ Cardinality({proc[c] : c \in Lost}) < MaxCrashes
  /\ at' = [c \in Calls |-> IF c \in Served(p) THEN "lost" ELSE at[c]]
  /\ inflight' = [inflight EXCEPT ![p] = [k \in Keys |-> None]]
  /\ calls' = [calls EXCEPT ![p] = 0] /\ rounds' = [rounds EXCEPT ![p] = 0]
  /\ lastHash' = [lastHash EXCEPT ![p] = None]
  /\ ledger' = [ledger EXCEPT ![p] = Unlocked]
  /\ exchange' = [c \in Calls |-> [q \in Peers |->
       IF c \in Served(p) THEN [exchange[c][q] EXCEPT !.at = "failed"] ELSE exchange[c][q]]]
  /\ UNCHANGED <<store, proc, left, reply>>

ExchangeStep(c, q) ==
  \/ Prepare(c, q) \/ ReadBudget(c, q) \/ Reserve(c, q) \/ Invoke(c, q)
  \/ Commit(c, q) \/ Rollback(c, q) \/ StoreRefuses(c, q)

CallStep(c) ==
  \/ Acquire(c) \/ StopsWaiting(c) \/ Admit(c) \/ CloseSession(c)
  \/ \E q \in Asked[c] : ExchangeStep(c, q)
  \/ Join(c) \/ SaveMessage(c) \/ SaveIdempotency(c) \/ Release(c)

Next ==
  \/ \E c \in Calls : (\E p \in Procs : Arrive(c, p)) \/ CallStep(c) \/ Leave(c)
  \/ StopSession
  \/ \E p \in Procs : Crash(p)

Spec == Init /\ [][Next]_vars

(* Goroutines run, the mutex goes round, harnesses return.                 *)
FairSpec == Spec /\ \A c \in Calls : WF_vars(CallStep(c))

-----------------------------------------------------------------------------
Exchange ==
  [at : {"queued", "reserve", "invoke", "commit", "rollback"} \cup Ended,
   reserved : Nat, usage : Usages \cup {0}, over : Nat]

(* Every variable has its type: no reservation is ever negative.           *)
TypeOK ==
  /\ session \in {"active", "completed", "max_rounds", "stalled"}
  /\ used \in Int /\ messages \in SUBSET Calls
  /\ record \in [Keys -> Calls \cup {None}]
  /\ inflight \in [Procs -> [Keys -> Calls \cup {None}]]
  /\ calls \in [Procs -> Nat] /\ rounds \in [Procs -> Nat]
  /\ lastHash \in [Procs -> {None, "findings"}]
  /\ ledger \in [Procs -> [call : Calls \cup {None}, peer : Peers \cup {None}, read : Int]]
  /\ at \in [Calls -> {"idle", "acquire", "admit", "exhausted", "running", "repeated",
                       "save", "record", "release", "done", "lost"}]
  /\ proc \in [Calls -> Procs \cup {None}]
  /\ left \in [Calls -> BOOLEAN]
  /\ reply \in [Calls -> Calls \cup {None, "error"}]
  /\ exchange \in [Calls -> [Peers -> Exchange]]

\* The sum of f, counted out: the tokens 1 .. f[s] of every s.
Total(f) == Cardinality(UNION {{s} \X (1 .. f[s]) : s \in DOMAIN f})

(* One process: the budget is what exchanges have reserved and, where the  *)
(* reservation is discharged, what they have used, to the token, whatever  *)
(* runs at once, fails or is left by its caller (budgetMu, and "discharge  *)
(* only after persistence").                                               *)
Owes(x) == IF x.reserved = 0 THEN x.usage ELSE x.reserved
Owed == [s \in Calls \X Peers |-> Owes(exchange[s[1]][s[2]])]
BudgetBalanced == used = Total(Owed)

(* The budget on file is exceeded only by what invocations used beyond     *)
(* their reservations, whatever updates processes lose of each other:      *)
(* nobody reserves over the limit.                                         *)
Overrun == [s \in Calls \X Peers |-> exchange[s[1]][s[2]].over]
LimitHolds == used <= MaxTotal + Total(Overrun)

(* An exchange that has ended holds no part of the budget back, unless its *)
(* caller left or its process died (the deferred rollback).                *)
EndedOwesNothing ==
  \A c \in Calls, q \in Peers :
    exchange[c][q].at \in Ended /\ exchange[c][q].reserved > 0 => left[c] \/ c \in Lost

(* One process: all calls with one key that are answered are given one     *)
(* answer, the one on record, and its message is stored (an idempotency    *)
(* key "prevents duplicate expensive executions").                         *)
AnswersAgree ==
  \A c \in Calls : reply[c] \in Calls =>
    /\ reply[c] \in messages
    /\ KeyOf[c] # None => reply[c] = record[KeyOf[c]]

(* Every call comes to an end: no key stays in flight, no mutex is kept.   *)
EveryCallEnds == \A c \in Calls : at[c] # "idle" ~> at[c] \in {"done", "lost"}
===============================================================================
