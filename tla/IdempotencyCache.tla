--------------------------- MODULE IdempotencyCache ---------------------------
(***************************************************************************)
(* The cache behind Idempotency-Key (internal/bridge/idempotency.go) and   *)
(* the wrapper that uses it (bridge.go, withIdempotency): one goroutine per*)
(* request, a mutex, a list bounded by MaxItems with its index, and one    *)
(* channel per reservation.  A step is a critical section of the mutex, a  *)
(* channel operation, or the return of a handler.  Entries and channels    *)
(* are named after the request that made them.                             *)
(***************************************************************************)
EXTENDS Naturals, FiniteSets, SequencesExt

CONSTANTS
  Requests,    \* POST requests that carry an Idempotency-Key
  Keys,        \* (route, key) pairs
  KeyOf,       \* KeyOf[r]: the pair request r carries
  MaxItems,    \* maxItems
  MaxPanics,   \* bound on handlers that panic
  None         \* no entry, no channel, no response

ASSUME CacheAssumption ==
  /\ KeyOf \in [Requests -> Keys]
  /\ MaxItems \in Nat \ {0}
  /\ MaxPanics \in Nat
  /\ None \notin Requests

VARIABLES
  pc,         \* pc[r]: where the goroutine of request r is
  order,      \* the list of entries, the newest first
  items,      \* items[k]: the entry for key k, or None
  expired,    \* entries whose TTL has passed
  inflight,   \* inflight[k]: the channel reserved for key k, or None
  closed,     \* channels that have been closed
  chan,       \* chan[r]: the channel request r waits on, or None
  failed,     \* requests whose handler answered with a status of 500 or more
  reply       \* reply[r]: the response request r got, or None

vars == <<pc, order, items, expired, inflight, closed, chan, failed, reply>>

Init ==
  /\ pc = [r \in Requests |-> "begin"]
  /\ order = <<>>
  /\ items = [k \in Keys |-> None]
  /\ expired = {}
  /\ inflight = [k \in Keys |-> None]
  /\ closed = {}
  /\ chan = [r \in Requests |-> None]
  /\ failed = {}
  /\ reply = [r \in Requests |-> None]

Live(k) == items[k] # None /\ items[k] \notin expired

Go(r, to) == pc' = [pc EXCEPT ![r] = to]

-------------------------------------------------------------------------------
(* beginOrWait: one turn of its loop.                                      *)

Replay(r) ==
  /\ pc[r] = "begin" /\ Live(KeyOf[r])
  /\ Go(r, "done")
  /\ reply' = [reply EXCEPT ![r] = items[KeyOf[r]]]
  /\ UNCHANGED <<order, items, expired, inflight, closed, chan, failed>>

\* An expired entry leaves the index and the list; a wrong variant leaves it in
\* the list.
DropStaleIndex(k) ==
  /\ items' = [items EXCEPT ![k] = None]
  /\ UNCHANGED order
Position(e) == CHOOSE i \in DOMAIN order : order[i] = e
DropExpired(k) ==
  /\ items' = [items EXCEPT ![k] = None]
  /\ order' = IF items[k] = None THEN order ELSE RemoveAt(order, Position(items[k]))

Reserve(r) ==
  /\ pc[r] = "begin" /\ ~ Live(KeyOf[r])
  /\ inflight[KeyOf[r]] = None
  /\ DropExpired(KeyOf[r])
  /\ inflight' = [inflight EXCEPT ![KeyOf[r]] = r]
  /\ Go(r, "run")
  /\ UNCHANGED <<expired, closed, chan, failed, reply>>

Wait(r) ==
  /\ pc[r] = "begin" /\ ~ Live(KeyOf[r])
  /\ inflight[KeyOf[r]] # None
  /\ DropExpired(KeyOf[r])
  /\ chan' = [chan EXCEPT ![r] = inflight[KeyOf[r]]]
  /\ Go(r, "wait")
  /\ UNCHANGED <<expired, inflight, closed, failed, reply>>

\* The channel is closed: look again.
Wake(r) ==
  /\ pc[r] = "wait" /\ chan[r] \in closed
  /\ chan' = [chan EXCEPT ![r] = None]
  /\ Go(r, "begin")
  /\ UNCHANGED <<order, items, expired, inflight, closed, failed, reply>>

-------------------------------------------------------------------------------
(* The owner of a reservation: its handler returns, and finish or abort    *)
(* releases the key.                                                       *)

Release(r) == inflight' = [inflight EXCEPT ![KeyOf[r]] = None]

Respond(r) ==
  /\ pc[r] = "run"
  /\ Go(r, "close")
  /\ reply' = [reply EXCEPT ![r] = r]

\* finish stores the response in front and evicts from the back.  A wrong
\* variant makes room before the list is too long.
PushedTooFew(r) ==
  LET all == <<r>> \o order IN IF Len(all) < MaxItems THEN all ELSE SubSeq(all, 1, MaxItems - 1)
Pushed(r) ==
  LET all == <<r>> \o order IN IF Len(all) <= MaxItems THEN all ELSE SubSeq(all, 1, MaxItems)

Evicted(r) == {order[i] : i \in Len(Pushed(r))..Len(order)}

Finish(r) ==
  /\ Respond(r)
  /\ order' = Pushed(r)
  /\ items' = [k \in Keys |-> IF \E e \in Evicted(r) : KeyOf[e] = k THEN None
                              ELSE IF k = KeyOf[r] THEN r ELSE items[k]]
  /\ Release(r)
  /\ UNCHANGED <<expired, closed, chan, failed>>

\* Two wrong variants: one keeps the reservation, one caches the server error.
AbortKeeps(r) ==
  /\ Respond(r)
  /\ failed' = failed \cup {r}
  /\ UNCHANGED <<order, items, expired, inflight, closed, chan>>
AbortCaches(r) ==
  /\ Respond(r)
  /\ failed' = failed \cup {r}
  /\ Release(r)
  /\ order' = Pushed(r)
  /\ items' = [items EXCEPT ![KeyOf[r]] = r]
  /\ UNCHANGED <<expired, closed, chan>>
Abort(r) ==
  /\ Respond(r)
  /\ failed' = failed \cup {r}
  /\ Release(r)
  /\ UNCHANGED <<order, items, expired, closed, chan>>

\* close(ch), after the mutex is released.
Close(r) ==
  /\ pc[r] = "close"
  /\ closed' = closed \cup {r}
  /\ Go(r, "done")
  /\ UNCHANGED <<order, items, expired, inflight, chan, failed, reply>>

\* The handler panics: net/http recovers, and neither finish nor abort runs.
Panic(r) ==
  /\ pc[r] = "run"
  /\ Cardinality({q \in Requests : pc[q] = "panicked"}) < MaxPanics
  /\ Go(r, "panicked")
  /\ UNCHANGED <<order, items, expired, inflight, closed, chan, failed, reply>>

Expire(r) ==
  /\ r \in {order[i] : i \in DOMAIN order} \ expired
  /\ expired' = expired \cup {r}
  /\ UNCHANGED <<pc, order, items, inflight, closed, chan, failed, reply>>

-------------------------------------------------------------------------------
Poisoned(k) == inflight[k] # None /\ pc[inflight[k]] = "panicked"

\* Every request is over, or waits for one whose handler panicked.
Over ==
  /\ \A r \in Requests : \/ pc[r] \in {"done", "panicked"}
                         \/ pc[r] = "wait" /\ Poisoned(KeyOf[r])
  /\ UNCHANGED vars

Step(r) == Replay(r) \/ Reserve(r) \/ Wait(r) \/ Wake(r) \/ Finish(r) \/ Abort(r) \/ Close(r)

Next ==
  \/ \E r \in Requests : Step(r) \/ Panic(r) \/ Expire(r)
  \/ Over

Spec == Init /\ [][Next]_vars

\* Goroutines are scheduled, the mutex is released and handlers return or panic.
FairSpec == Spec /\ \A r \in Requests : WF_vars(Step(r))

-------------------------------------------------------------------------------
(* Properties.                                                             *)

TypeOK ==
  /\ pc \in [Requests -> {"begin", "wait", "run", "close", "done", "panicked"}]
  /\ order \in Seq(Requests) /\ Len(order) <= MaxItems
  /\ items \in [Keys -> Requests \cup {None}]
  /\ expired \subseteq Requests
  /\ inflight \in [Keys -> Requests \cup {None}]
  /\ closed \subseteq Requests
  /\ chan \in [Requests -> Requests \cup {None}]
  /\ failed \subseteq Requests
  /\ reply \in [Requests -> Requests \cup {None}]

\* The list and its index agree after any interleaving of expiry, eviction and
\* execution: every entry of the list is the one its key leads to, no entry is
\* lost by an eviction and none stays behind unindexed.
OrderMatchesItems ==
  /\ \A i, k \in DOMAIN order : order[i] = order[k] => i = k
  /\ \A e \in Requests :
       (\E i \in DOMAIN order : order[i] = e) <=> items[KeyOf[e]] = e

\* A response that has not expired is given up only when the cache is full, for a
\* newer one, and oldest first: until then a client's retry is a replay.
EvictsOldestWhenFull ==
  [][\A k \in Keys : Live(k) /\ items'[k] # items[k] =>
       Len(order) = MaxItems /\ order[MaxItems] = items[k] /\ order' # order]_vars

\* What a client may be answered with: an entry whose TTL has not passed.
Answer == [k \in Keys |-> IF Live(k) THEN items[k] ELSE None]

Register == INSTANCE ReplayRegister WITH runner <- inflight, answer <- Answer

\* idempotency.go: a reservation belongs to exactly one caller, everyone else
\* with the same key waits for that execution, and a server error is not replayed.
Refines == Register!RegisterSpec

\* No request waits forever, however often it finds that the response it waited
\* for has expired, was evicted or was an error, except behind a handler that
\* panicked.
EveryRequestIsAnswered ==
  \A r \in Requests :
    pc[r] \in {"begin", "wait"} ~> (pc[r] \in {"close", "done", "panicked"} \/ Poisoned(KeyOf[r]))

\* The inductive form of the refinement: who is between a reservation and its
\* release, and what the key of an owner, an entry or a channel is.
OwnersRun ==
  \A r \in Requests :
    /\ pc[r] \in {"run", "panicked"} <=> inflight[KeyOf[r]] = r
    /\ pc[r] \in {"begin", "wait", "run", "panicked"} => reply[r] = None
    /\ pc[r] \in {"begin", "wait", "run", "panicked"} => r \notin expired /\ items[KeyOf[r]] # r
KeysMatch ==
  \A k \in Keys : /\ items[k] # None => KeyOf[items[k]] = k /\ inflight[k] = None
                  /\ inflight[k] # None => KeyOf[inflight[k]] = k

===============================================================================
