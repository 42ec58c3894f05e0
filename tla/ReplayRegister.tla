---------------------------- MODULE ReplayRegister ----------------------------
(***************************************************************************)
(* What an Idempotency-Key promises the clients of the bridge              *)
(* (internal/bridge/bridge.go, withIdempotency): requests that carry the   *)
(* same key execute one at a time, the first response answers every later  *)
(* request until it is forgotten, and a server error is never replayed.    *)
(* A response is named after the request whose execution produced it.      *)
(***************************************************************************)
CONSTANTS
  Requests,   \* requests that carry a key
  Keys,       \* (route, key) pairs
  KeyOf,      \* KeyOf[r]: the pair request r carries
  None        \* no request, no response

VARIABLES
  runner,     \* runner[k]: the request executing for key k, or None
  answer,     \* answer[k]: the remembered response for key k, or None
  failed,     \* requests whose execution ended in a server error
  reply       \* reply[r]: the response request r got, or None

rvars == <<runner, answer, failed, reply>>

RegisterInit ==
  /\ runner = [k \in Keys |-> None]
  /\ answer = [k \in Keys |-> None]
  /\ failed = {}
  /\ reply = [r \in Requests |-> None]

\* Responses are forgotten when they expire and to make room for others.
Without(S) == [k \in Keys |-> IF k \in S THEN None ELSE answer[k]]

Forget ==
  /\ \E S \in SUBSET Keys : answer' = Without(S)
  /\ UNCHANGED <<runner, failed, reply>>

ExecuteRequest(r) ==
  /\ reply[r] = None
  /\ runner[KeyOf[r]] = None /\ answer[KeyOf[r]] = None
  /\ runner' = [runner EXCEPT ![KeyOf[r]] = r]
  /\ UNCHANGED <<answer, failed, reply>>

Return(r) ==
  /\ runner[KeyOf[r]] = r
  /\ runner' = [runner EXCEPT ![KeyOf[r]] = None]
  /\ reply' = [reply EXCEPT ![r] = r]

Succeed(r) ==
  /\ Return(r)
  /\ \E S \in SUBSET Keys : answer' = [Without(S) EXCEPT ![KeyOf[r]] = r]
  /\ UNCHANGED failed

Fail(r) ==
  /\ Return(r)
  /\ failed' = failed \cup {r}
  /\ UNCHANGED answer

ReplayAnswer(r) ==
  /\ reply[r] = None
  /\ answer[KeyOf[r]] # None
  /\ reply' = [reply EXCEPT ![r] = answer[KeyOf[r]]]
  /\ UNCHANGED <<runner, answer, failed>>

RegisterNext ==
  \/ \E r \in Requests : ExecuteRequest(r) \/ Succeed(r) \/ Fail(r) \/ ReplayAnswer(r)
  \/ Forget

RegisterSpec == RegisterInit /\ [][RegisterNext]_rvars

===============================================================================
