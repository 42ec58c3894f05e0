------------------------------- MODULE EventBus -------------------------------
(***************************************************************************)
(* internal/collaboration/eventbus.go: repository changes are collected in *)
(* a window per space and source, which a timer closes once no change has  *)
(* come for a while.  The timer's function takes the window that is under  *)
(* its key by then, and publishes it as one event: to the store, then to   *)
(* the listeners.  A window may be flushed by hand, and the bus closed:    *)
(* Close stops the timers and waits until the functions of those that have *)
(* expired are counted out of a WaitGroup.                                 *)
(*                                                                         *)
(* A timer that is Reset after it has expired runs its function a second   *)
(* time; Stop tells whether the timer was still to expire.  A WaitGroup    *)
(* that becomes negative panics, which ends the process.                   *)
(***************************************************************************)
EXTENDS Integers, FiniteSets

CONSTANTS
  Sources,      \* where changes come from: a space and a source in it
  Changes, SourceOf,
  MaxFlushes    \* how often windows are flushed by hand

ASSUME BusAssumption ==
  IsFiniteSet(Sources) /\ SourceOf \in [Changes -> Sources] /\ MaxFlushes \in Nat

VARIABLES
  submitted,    \* the changes that were submitted
  window,       \* the changes under a key; {} is no window
  armed,        \* the key's window has a timer that is to expire
  fired,        \* functions of expired timers that wait for coalesceMu
  sending,      \* events that are being published
  log, heard,   \* events in the store, and at the listeners
  dropped,      \* changes that Close discarded, or that came after it
  timerWg,      \* the WaitGroup's counter
  closer,       \* Close: not called, "waits", or "returned"
  panicked,
  flushes,      \* how many windows were flushed by hand
  rearmed       \* a timer was Reset while the function it had started waited

windows == <<window, armed, fired>>
events == <<sending, log, heard>>
busVars == <<submitted, windows, events, dropped, timerWg, closer, panicked, flushes, rearmed>>

BusInit ==
  /\ submitted = {} /\ dropped = {}
  /\ window = [k \in Sources |-> {}]
  /\ armed = [k \in Sources |-> FALSE]
  /\ fired = [k \in Sources |-> 0]
  /\ sending = {} /\ log = {} /\ heard = {}
  /\ timerWg = 0 /\ closer = "open" /\ panicked = FALSE
  /\ flushes = 0 /\ rearmed = FALSE

closed == closer # "open"

-----------------------------------------------------------------------------
(* A change opens a window and its timer, or joins the window and resets   *)
(* the timer.  A wrong variant stops it instead.                           *)
StopTimerOnChange(s) ==
  LET k == SourceOf[s]
  IN /\ s \notin submitted /\ ~closed
     /\ submitted' = submitted \cup {s}
     /\ window' = [window EXCEPT ![k] = @ \cup {s}]
     /\ armed' = [armed EXCEPT ![k] = (window[k] = {})]
     /\ timerWg' = IF window[k] = {} THEN timerWg + 1 ELSE timerWg
     /\ UNCHANGED <<fired, events, dropped, closer, panicked, flushes, rearmed>>
PublishRepoChange(s) ==
  LET k == SourceOf[s]
  IN /\ s \notin submitted
     /\ submitted' = submitted \cup {s}
     /\ \/ /\ closed
           /\ dropped' = dropped \cup {s}
           /\ UNCHANGED <<window, armed, timerWg, rearmed>>
        \/ /\ ~closed
           /\ window' = [window EXCEPT ![k] = @ \cup {s}]
           /\ armed' = [armed EXCEPT ![k] = TRUE]
           /\ timerWg' = IF window[k] = {} THEN timerWg + 1 ELSE timerWg
           /\ rearmed' = (rearmed \/ (window[k] # {} /\ ~armed[k]))
           /\ UNCHANGED dropped
     /\ UNCHANGED <<fired, events, closer, panicked, flushes>>

Expire(k) ==
  /\ armed[k]
  /\ armed' = [armed EXCEPT ![k] = FALSE]
  /\ fired' = [fired EXCEPT ![k] = @ + 1]
  /\ UNCHANGED <<submitted, window, events, dropped, timerWg, closer, panicked, flushes, rearmed>>

(* flushCoalesceBucketLocked: the window under the key becomes an event,   *)
(* and its timer is stopped.  Wrong variants keep the window, or the timer.*)
FlushRunsOn(k, timer) ==
  /\ window[k] # {}
  /\ sending' = sending \cup {[changes |-> window[k], timer |-> timer]}
  /\ window' = [window EXCEPT ![k] = {}]
  /\ UNCHANGED <<armed, log, heard>>
FlushKept(k, timer) ==
  /\ window[k] # {}
  /\ sending' = sending \cup {[changes |-> window[k], timer |-> timer]}
  /\ armed' = [armed EXCEPT ![k] = FALSE]
  /\ UNCHANGED <<window, log, heard>>
Flush(k, timer) ==
  /\ window[k] # {}
  /\ sending' = sending \cup {[changes |-> window[k], timer |-> timer]}
  /\ window' = [window EXCEPT ![k] = {}]
  /\ armed' = [armed EXCEPT ![k] = FALSE]
  /\ UNCHANGED <<log, heard>>

Done(n) ==
  /\ timerWg' = timerWg - n
  /\ panicked' = (timerWg < n)

(* The function of an expired timer, once it has coalesceMu.  A wrong      *)
(* variant counts itself out before it publishes.                          *)
TimerFunctionLeaves(k) ==
  /\ fired[k] > 0
  /\ fired' = [fired EXCEPT ![k] = @ - 1]
  /\ Done(1)
  /\ \/ (closed \/ window[k] = {}) /\ UNCHANGED <<window, armed, events>>
     \/ ~closed /\ Flush(k, TRUE)
  /\ UNCHANGED <<submitted, dropped, closer, flushes, rearmed>>
TimerFunction(k) ==
  /\ fired[k] > 0
  /\ fired' = [fired EXCEPT ![k] = @ - 1]
  /\ \/ (closed \/ window[k] = {}) /\ Done(1) /\ UNCHANGED <<window, armed, events>>
     \/ ~closed /\ Flush(k, TRUE) /\ UNCHANGED <<timerWg, panicked>>
  /\ UNCHANGED <<submitted, dropped, closer, flushes, rearmed>>

FlushCoalesce(k) ==
  /\ flushes < MaxFlushes
  /\ flushes' = flushes + 1
  /\ Flush(k, FALSE)
  /\ UNCHANGED <<submitted, fired, dropped, timerWg, closer, panicked, rearmed>>

(* Publish: the store, then the listeners; a timer's function ends then.   *)
Emit(e) ==
  /\ e.changes \notin log
  /\ log' = log \cup {e.changes}
  /\ UNCHANGED <<submitted, windows, sending, heard, dropped, timerWg, closer, panicked, flushes, rearmed>>

Dispatch(e) ==
  /\ e.changes \in log
  /\ sending' = sending \ {e}
  /\ heard' = IF closer = "returned" THEN heard ELSE heard \cup {e.changes}
  /\ IF e.timer THEN Done(1) ELSE UNCHANGED <<timerWg, panicked>>
  /\ UNCHANGED <<submitted, windows, log, dropped, closer, flushes, rearmed>>

\* A wrong variant counts no timer out that it has stopped.
CloseUncounted ==
  /\ ~closed
  /\ closer' = "waits"
  /\ dropped' = dropped \cup UNION {window[k] : k \in Sources}
  /\ window' = [k \in Sources |-> {}]
  /\ armed' = [k \in Sources |-> FALSE]
  /\ UNCHANGED <<submitted, fired, events, timerWg, panicked, flushes, rearmed>>
Close ==
  /\ ~closed
  /\ closer' = "waits"
  /\ dropped' = dropped \cup UNION {window[k] : k \in Sources}
  /\ window' = [k \in Sources |-> {}]
  /\ armed' = [k \in Sources |-> FALSE]
  /\ Done(Cardinality({k \in Sources : armed[k]}))
  /\ UNCHANGED <<submitted, fired, events, flushes, rearmed>>

CloseReturns ==
  /\ closer = "waits" /\ timerWg = 0
  /\ closer' = "returned"
  /\ UNCHANGED <<submitted, windows, events, dropped, timerWg, panicked, flushes, rearmed>>

Timers(k) == Expire(k) \/ TimerFunction(k)
Publish == \E e \in sending : Emit(e) \/ Dispatch(e)

BusNext ==
  /\ ~panicked
  /\ \/ \E s \in Changes : PublishRepoChange(s)
     \/ \E k \in Sources : Timers(k) \/ FlushCoalesce(k)
     \/ Publish
     \/ Close \/ CloseReturns

BusSpec == BusInit /\ [][BusNext]_busVars

(* Timers expire, goroutines run, the store and the listeners return.      *)
FairBusSpec ==
  /\ BusSpec
  /\ \A k \in Sources : WF_busVars(~panicked /\ Timers(k))
  /\ WF_busVars(~panicked /\ Publish)
  /\ WF_busVars(~panicked /\ CloseReturns)

-----------------------------------------------------------------------------
Events == [changes : (SUBSET Changes) \ {{}}, timer : BOOLEAN]

(* Every variable has its type, and a timer that is to expire has a window.*)
BusTypeOK ==
  /\ submitted \in SUBSET Changes /\ dropped \in SUBSET Changes
  /\ window \in [Sources -> SUBSET Changes]
  /\ armed \in [Sources -> BOOLEAN] /\ fired \in [Sources -> Nat]
  /\ sending \in SUBSET Events
  /\ log \subseteq (SUBSET Changes) \ {{}} /\ heard \in SUBSET log
  /\ timerWg \in Int /\ closer \in {"open", "waits", "returned"}
  /\ panicked \in BOOLEAN /\ flushes \in 0 .. MaxFlushes /\ rearmed \in BOOLEAN
  /\ \A k \in Sources : armed[k] => window[k] # {}

(* Every change that was submitted is in one place: in the window of its   *)
(* key, in one event, or dropped, which only Close does.  No burst, flush  *)
(* or late timer loses a change or tells it twice.                         *)
Held == {window[k] : k \in Sources} \ {{}}
Told == log \cup {e.changes : e \in sending}
EachChangeOnce ==
  /\ submitted = dropped \cup UNION (Held \cup Told)
  /\ \A A, B \in Held \cup Told : A # B => A \cap B = {}
  /\ Held \cap Told = {}
  /\ \A A \in Held \cup Told : A \cap dropped = {}
  /\ dropped # {} => closed

(* When Close has returned no timer is to expire, and no function of one   *)
(* is waiting or publishing, unless a timer was Reset too late: the        *)
(* listeners may be torn down (timerWg.Wait).                              *)
CloseIsQuiet ==
  closer = "returned" /\ ~rearmed =>
    /\ \A k \in Sources : ~armed[k] /\ fired[k] = 0
    /\ \A e \in sending : ~e.timer

(* The WaitGroup becomes negative only when a timer was Reset too late: no *)
(* change, flush or close counts a timer out that was not counted in, or   *)
(* one twice (timerWg, in PublishRepoChange and Close).                    *)
PanicIsLateReset == panicked => rearmed

(* Changes become events as long as the bus is open.                       *)
ChangesAreTold ==
  \A s \in Changes : s \in submitted ~> s \in UNION log \/ closed \/ panicked

(* Close returns, unless a window was flushed by hand: such a window's     *)
(* timer is stopped without being counted out.                             *)
CloseEnds == closer = "waits" /\ flushes = 0 ~> closer = "returned" \/ panicked
===============================================================================
