--------------------------- MODULE SecuritySinks ----------------------------
(***************************************************************************)
(* Security events and where they go: Auditor (event.go), the counters of  *)
(* SecurityStatus (e191.go), the webhook and the syslog sink (webhook.go), *)
(* all of pkg/security.                                                    *)
(*                                                                         *)
(* Emit calls the handlers one after another on the goroutine of its       *)
(* caller.  The webhook collects a batch under a mutex; the batch leaves   *)
(* it when it is full or when a timer calls flush, and is posted by a      *)
(* goroutine of its own.  time.Timer.Stop does not hold back a flush that  *)
(* has started and waits for the mutex, so a timer is armed, then fired,   *)
(* and only the first can be stopped; wh.timer may name neither of them.   *)
(***************************************************************************)
EXTENDS Naturals, FiniteSets

CONSTANTS
    Event,         \* the events that are emitted
    Known,         \* the ones whose type has a counter in SecurityStatus
    Timer,         \* timers and their flush calls; enough that one is free
    NoTimer,
    BatchSize,     \* WebhookConfig.BatchSize
    RetryCount     \* WebhookConfig.RetryCount

ASSUME SinkAssumption ==
    /\ IsFiniteSet(Event) /\ Known \subseteq Event /\ NoTimer \notin Timer
    /\ BatchSize \in Nat /\ RetryCount \in Nat

VARIABLES
    at,            \* the handler Emit is about to call for each event
    counted,       \* the sum of the counters of SecurityStatus
    batch,         \* wh.batch, without its order
    timer,         \* wh.timer
    timers,        \* what each timer does
    sending,       \* the calls of send
    received,      \* the posts of each event that the endpoint has seen
    outcome,       \* how the webhook was done with each event; it is dropped
                   \* when refused, invalid or out of retries
    conn           \* sh.conn is set

webhookVars == <<batch, timer, timers, sending, received, outcome>>
sinkVars == <<at, counted, webhookVars, conn>>

\* NewWebhookHandler: 0 retries means 3.
Retries == IF RetryCount = 0 THEN 3 ELSE RetryCount

Places == {"new", "webhook", "syslog", "done"}
Send == [events : SUBSET Event, attempt : 0..Retries]

SinkTypeOK ==
    /\ at \in [Event -> Places]
    /\ counted \in Nat
    /\ batch \subseteq Event
    /\ timer \in Timer \cup {NoTimer}
    /\ timers \in [Timer -> {"idle", "armed", "fired"}]
    /\ sending \subseteq Send
    /\ received \in [Event -> Nat]
    /\ outcome \in [Event -> {"open", "accepted", "dropped"}]
    /\ conn \in BOOLEAN

\* NewAuditor, OnEvent of the three handlers, NewWebhookHandler, NewSyslogHandler.
SinkInit ==
    /\ at = [e \in Event |-> "new"] /\ counted = 0
    /\ batch = {} /\ timer = NoTimer /\ timers = [t \in Timer |-> "idle"]
    /\ sending = {}
    /\ received = [e \in Event |-> 0]
    /\ outcome = [e \in Event |-> "open"]
    /\ conn = FALSE

-----------------------------------------------------------------------------
(* Emit and its handlers. *)

\* Emit up to the webhook: the log, and the counter of AsEventHandler.
Emit(e) ==
    /\ at[e] = "new"
    /\ at' = [at EXCEPT ![e] = "webhook"]
    /\ counted' = IF e \in Known THEN counted + 1 ELSE counted
    /\ UNCHANGED <<webhookVars, conn>>

StartSend(events) == sending' = sending \cup {[events |-> events, attempt |-> 0]}

StopTimerOnly ==
    /\ timer' = timer
    /\ timers' = IF timer # NoTimer /\ timers[timer] = "armed"
                 THEN [timers EXCEPT ![timer] = "idle"] ELSE timers

\* timer.Stop and wh.timer = nil.
StopTimer ==
    /\ timer' = NoTimer
    /\ timers' = IF timer # NoTimer /\ timers[timer] = "armed"
                 THEN [timers EXCEPT ![timer] = "idle"] ELSE timers

StartTimerForgotten == UNCHANGED <<timer, timers>>

\* time.AfterFunc, unless a timer is set.
StartTimer ==
    IF timer = NoTimer
    THEN \E t \in Timer : /\ timers[t] = "idle"
                          /\ timer' = t
                          /\ timers' = [timers EXCEPT ![t] = "armed"]
    ELSE UNCHANGED <<timer, timers>>

TakeBatchStopsFirst(e) == /\ StopTimer /\ StartSend(batch) /\ batch' = {}

\* A full batch: the events in it and the new one are sent.
TakeBatch(e) == /\ StopTimer /\ StartSend(batch \cup {e}) /\ batch' = {}

\* webhookHandler.handle; when BatchSize is 0 every event is sent at once.
HandleWebhook(e) ==
    /\ at[e] = "webhook"
    /\ at' = [at EXCEPT ![e] = "syslog"]
    /\ \/ /\ Cardinality(batch \cup {e}) >= BatchSize
          /\ TakeBatch(e)
       \/ /\ Cardinality(batch \cup {e}) < BatchSize
          /\ batch' = batch \cup {e}
          /\ StartTimer
          /\ UNCHANGED sending
    /\ UNCHANGED <<counted, received, outcome, conn>>

\* syslogHandler.handle: the event is written, or it is lost because the dial
\* or the write fails, and the next one dials again.
HandleSyslog(e) ==
    /\ at[e] = "syslog"
    /\ at' = [at EXCEPT ![e] = "done"]
    /\ conn' \in BOOLEAN
    /\ UNCHANGED <<counted, webhookVars>>

-----------------------------------------------------------------------------
(* The timers and the senders. *)

TimerFires(t) ==
    /\ timers[t] = "armed"
    /\ timers' = [timers EXCEPT ![t] = "fired"]
    /\ UNCHANGED <<at, counted, batch, timer, sending, received, outcome, conn>>

\* flush: whatever batch is there, also a later one than its own, and whatever
\* timer.
Flush(t) ==
    /\ timers[t] = "fired"
    /\ timers' = [timers EXCEPT ![t] = "idle"]
    /\ timer' = NoTimer
    /\ IF batch = {} THEN UNCHANGED sending ELSE StartSend(batch)
    /\ batch' = {}
    /\ UNCHANGED <<at, counted, received, outcome, conn>>

Settle(s, how) ==
    /\ outcome' = [e \in Event |-> IF e \in s.events THEN how ELSE outcome[e]]
    /\ sending' = sending \ {s}

\* The end of an attempt that is tried again, or was the last one.
Retry(s) ==
    \/ /\ s.attempt < Retries
       /\ sending' = (sending \ {s}) \cup {[s EXCEPT !.attempt = @ + 1]}
       /\ UNCHANGED outcome
    \/ /\ s.attempt = Retries
       /\ Settle(s, "dropped")

\* send: one attempt.  "lost": the request did not arrive; "late": it did, and
\* the answer did not; "4xx" stands for every status below 500 that is not 2xx.
Post(s, answer) ==
    /\ s \in sending
    /\ received' = [e \in Event |-> IF e \in s.events /\ answer # "lost"
                                    THEN received[e] + 1 ELSE received[e]]
    /\ \/ answer = "2xx" /\ Settle(s, "accepted")
       \/ answer = "4xx" /\ Settle(s, "dropped")
       \/ answer \in {"lost", "late", "5xx"} /\ Retry(s)
    /\ UNCHANGED <<at, counted, batch, timer, timers, conn>>

\* send: the events do not marshal or the URL is none.
SendInvalid(s) ==
    /\ s \in sending /\ s.attempt = 0
    /\ Settle(s, "dropped")
    /\ UNCHANGED <<at, counted, batch, timer, timers, received, conn>>

Answer == {"lost", "late", "2xx", "4xx", "5xx"}
SinkNext ==
    \/ \E e \in Event : Emit(e) \/ HandleWebhook(e) \/ HandleSyslog(e)
    \/ \E t \in Timer : TimerFires(t) \/ Flush(t)
    \/ \E s \in sending : SendInvalid(s) \/ \E answer \in Answer : Post(s, answer)

SinkSpec == SinkInit /\ [][SinkNext]_sinkVars

-----------------------------------------------------------------------------
(* Properties. *)

CallsWith(e) == { s \in sending : e \in s.events }

\* The webhook has every event it was given in exactly one place, the batch,
\* one call of send, or settled, whatever timers fire late; an event is posted
\* at most once per attempt, and one counted as accepted has arrived (handle,
\* flush, send).
EventsAccounted ==
    /\ counted = Cardinality({ e \in Known : at[e] # "new" })
    /\ \A e \in Event :
        /\ (IF e \in batch THEN 1 ELSE 0) + Cardinality(CallsWith(e))
             + (IF outcome[e] # "open" THEN 1 ELSE 0)
           = (IF at[e] \in {"syslog", "done"} THEN 1 ELSE 0)
        /\ received[e] <= Retries + 1
        /\ \A s \in CallsWith(e) : received[e] <= s.attempt
        /\ outcome[e] = "accepted" => received[e] > 0

\* Events in the batch have a timer that has still to call flush, and
\* wh.timer never names one that is over, though a late flush may have taken
\* the batch of another timer (handle, flush).
BatchWillFlush ==
    /\ batch # {} => timer # NoTimer
    /\ timer # NoTimer => timers[timer] \in {"armed", "fired"}

\* The webhook settles every event it is given (handle, flush, send).
EventsSettle == \A e \in Event : at[e] = "syslog" ~> outcome[e] # "open"
=============================================================================
