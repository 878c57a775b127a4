---------------------------- MODULE ClientsProofs ----------------------------
(***************************************************************************)
(* Three components that share nothing: the webhook sink, the rate limiter *)
(* and the Modbus client.                                                  *)
(***************************************************************************)
EXTENDS SecuritySinks, RateLimiter, ModbusClient, FiniteSetTheorems, SequenceTheorems, TLAPS

-----------------------------------------------------------------------------
(***************************************************************************)
(* The webhook never forgets a batch and never loses, doubles or revives   *)
(* an event, for any events, timers, batch size and number of retries: a   *)
(* batch that is not empty has a timer that will call flush, and every     *)
(* event is in one place.                                                  *)
(***************************************************************************)

TimerTypes ==
    /\ timer \in Timer \cup {NoTimer}
    /\ timers \in [Timer -> {"idle", "armed", "fired"}]

FlushInv == TimerTypes /\ BatchWillFlush

LEMMA FlushInit == SinkInit => FlushInv
    BY DEF SinkInit, FlushInv, TimerTypes, BatchWillFlush

\* Stopping the timer goes with emptying the batch.
LEMMA StopStep ==
    ASSUME FlushInv, StopTimer, batch' = {}
    PROVE  FlushInv'
<1>1. timers' \in [Timer -> {"idle", "armed", "fired"}]
    BY SinkAssumption DEF FlushInv, TimerTypes, StopTimer
<1> QED  BY <1>1 DEF FlushInv, TimerTypes, BatchWillFlush, StopTimer

\* StartTimer leaves the timer of the batch, or arms one that is free.
LEMMA StartStep ==
    ASSUME FlushInv, StartTimer
    PROVE  FlushInv'
<1>1. CASE timer = NoTimer
    <2>1. PICK t \in Timer : /\ timers[t] = "idle"
                             /\ timer' = t
                             /\ timers' = [timers EXCEPT ![t] = "armed"]
        BY <1>1 DEF StartTimer
    <2>2. timers'[t] = "armed" /\ timers' \in [Timer -> {"idle", "armed", "fired"}]
        BY <2>1 DEF FlushInv, TimerTypes
    <2> QED  BY <2>1, <2>2, SinkAssumption DEF FlushInv, TimerTypes, BatchWillFlush
<1>2. CASE timer # NoTimer
    BY <1>2 DEF StartTimer, FlushInv, TimerTypes, BatchWillFlush
<1> QED  BY <1>1, <1>2

LEMMA WebhookStep ==
    ASSUME NEW e \in Event, FlushInv, HandleWebhook(e)
    PROVE  FlushInv'
<1>1. CASE TakeBatch(e)
    BY <1>1, StopStep DEF TakeBatch
<1>2. CASE StartTimer
    BY <1>2, StartStep
<1> QED  BY <1>1, <1>2 DEF HandleWebhook

LEMMA TimerStep ==
    ASSUME NEW t \in Timer, FlushInv, TimerFires(t) \/ Flush(t)
    PROVE  FlushInv'
<1>1. CASE TimerFires(t)
    <2>1. timers' \in [Timer -> {"idle", "armed", "fired"}]
        BY <1>1 DEF TimerFires, FlushInv, TimerTypes
    <2>2. timer # NoTimer => timers'[timer] \in {"armed", "fired"}
        BY <1>1 DEF TimerFires, FlushInv, TimerTypes, BatchWillFlush
    <2> QED  BY <1>1, <2>1, <2>2 DEF TimerFires, FlushInv, TimerTypes, BatchWillFlush
<1>2. CASE Flush(t)
    BY <1>2 DEF Flush, FlushInv, TimerTypes, BatchWillFlush
<1> QED  BY <1>1, <1>2

LEMMA FlushStep ==
    ASSUME FlushInv, [SinkNext]_sinkVars
    PROVE  FlushInv'
<1>1. ASSUME NEW e \in Event, Emit(e) PROVE FlushInv'
    BY <1>1 DEF Emit, webhookVars, FlushInv, TimerTypes, BatchWillFlush
<1>2. ASSUME NEW e \in Event, HandleWebhook(e) PROVE FlushInv'
    BY <1>2, WebhookStep
<1>3. ASSUME NEW e \in Event, HandleSyslog(e) PROVE FlushInv'
    BY <1>3 DEF HandleSyslog, webhookVars, FlushInv, TimerTypes, BatchWillFlush
<1>4. ASSUME NEW t \in Timer, TimerFires(t) \/ Flush(t) PROVE FlushInv'
    BY <1>4, TimerStep
<1>5. ASSUME NEW s \in sending, SendInvalid(s) PROVE FlushInv'
    BY <1>5 DEF SendInvalid, FlushInv, TimerTypes, BatchWillFlush
<1>6. ASSUME NEW s \in sending, NEW answer \in Answer, Post(s, answer) PROVE FlushInv'
    BY <1>6 DEF Post, FlushInv, TimerTypes, BatchWillFlush
<1>7. CASE UNCHANGED sinkVars
    BY <1>7 DEF sinkVars, webhookVars, FlushInv, TimerTypes, BatchWillFlush
<1> QED  BY <1>1, <1>2, <1>3, <1>4, <1>5, <1>6, <1>7 DEF SinkNext

\* Events in the webhook's batch have a timer that has still to call flush, and
\* wh.timer never names one that is over, however late a stopped timer's flush
\* gets the mutex (webhookHandler.handle, webhookHandler.flush).
THEOREM BatchNotForgotten == SinkSpec => []BatchWillFlush
<1>1. SinkInit => FlushInv
    BY FlushInit
<1>2. FlushInv /\ [SinkNext]_sinkVars => FlushInv'
    BY FlushStep
<1>3. FlushInv => BatchWillFlush
    BY DEF FlushInv
<1> QED  BY <1>1, <1>2, <1>3, PTL DEF SinkSpec

-----------------------------------------------------------------------------
(* Where the events are. *)

\* The types, as the proofs about events need them.
EventTypes ==
    /\ at \in [Event -> Places]
    /\ batch \subseteq Event
    /\ sending \subseteq Send
    /\ received \in [Event -> Nat]
    /\ outcome \in [Event -> {"open", "accepted", "dropped"}]

\* The number of retries is a natural number.
LEMMA RetriesNat == Retries \in Nat /\ 0 \in 0..Retries
BY SinkAssumption DEF Retries

\* A call of send begins with attempt 0.
LEMMA NewSend ==
    ASSUME NEW B \in SUBSET Event
    PROVE  /\ [events |-> B, attempt |-> 0] \in Send
           /\ [events |-> B, attempt |-> 0].events = B
           /\ [events |-> B, attempt |-> 0].attempt = 0
BY RetriesNat DEF Send

\* The next attempt of a call of send.
LEMMA NextSend ==
    ASSUME NEW s \in Send, s.attempt < Retries
    PROVE  LET n == [s EXCEPT !.attempt = @ + 1]
           IN  n \in Send /\ n.events = s.events /\ n.attempt = s.attempt + 1
<1>1. s.attempt \in 0..Retries /\ s.events \in SUBSET Event
    BY DEF Send
<1>2. s.attempt + 1 \in 0..Retries
    BY <1>1, RetriesNat
<1> QED  BY <1>1, <1>2 DEF Send

\* An event has nothing of it anywhere in the webhook.
Untouched(e) ==
    /\ \A s \in sending : e \notin s.events
    /\ outcome[e] = "open"
    /\ received[e] = 0

\* Where an event is, without counting: an event that Emit has not brought to the
\* webhook is nowhere, one in the batch is nowhere else and was never posted, one
\* in a call of send is in no other and was posted at most once per attempt made,
\* and one that is settled is in none.
Placed(e) ==
    /\ at[e] \in {"new", "webhook"} => e \notin batch /\ Untouched(e)
    /\ e \in batch => Untouched(e)
    /\ at[e] \in {"syslog", "done"} =>
          e \in batch \/ (\E s \in sending : e \in s.events) \/ outcome[e] # "open"
    /\ \A s \in sending : e \in s.events =>
          /\ outcome[e] = "open"
          /\ received[e] <= s.attempt
          /\ \A r \in sending : e \in r.events => r = s
    /\ received[e] <= Retries + 1
    /\ outcome[e] = "accepted" => received[e] > 0

\* The counters count the events of a known type that were emitted.
Counted == counted = Cardinality({ e \in Known : at[e] # "new" })

PlacedInv == EventTypes /\ Counted /\ \A e \in Event : Placed(e)

LEMMA PlacedInit == SinkInit => PlacedInv
<1> SUFFICES ASSUME SinkInit PROVE PlacedInv
    OBVIOUS
<1>1. EventTypes
    BY DEF SinkInit, EventTypes, Places
<1>2. Counted
    <2>1. { e \in Known : at[e] # "new" } = {}
        BY SinkAssumption DEF SinkInit
    <2> QED  BY <2>1, FS_EmptySet DEF SinkInit, Counted
<1>3. ASSUME NEW e \in Event PROVE Placed(e)
    BY RetriesNat DEF SinkInit, Placed, Untouched
<1> QED  BY <1>1, <1>2, <1>3 DEF PlacedInv

\* A step that leaves the counter alone, and which events are new.
LEMMA CountedKept ==
    ASSUME Counted, counted' = counted, \A e \in Event : at'[e] = "new" <=> at[e] = "new"
    PROVE  Counted'
<1>1. { e \in Known : at'[e] # "new" } = { e \in Known : at[e] # "new" }
    BY SinkAssumption
<1> QED  BY <1>1 DEF Counted

\* Emit counts an event of a known type once.
LEMMA EmitPlaced ==
    ASSUME PlacedInv, NEW e \in Event, Emit(e)
    PROVE  PlacedInv'
<1> USE DEF PlacedInv
<1>1. at' = [at EXCEPT ![e] = "webhook"] /\ at[e] = "new"
      /\ UNCHANGED <<batch, sending, received, outcome>>
    BY DEF Emit, webhookVars
<1>2. EventTypes'
    BY <1>1 DEF EventTypes, Places
<1>3. \A d \in Event : Placed(d)'
    BY <1>1 DEF EventTypes, Placed, Untouched
<1>4. Counted'
    <2> DEFINE E == { d \in Known : at[d] # "new" }
               F == { d \in Known : at'[d] # "new" }
    <2>1. IsFiniteSet(E)
        BY SinkAssumption, FS_Subset
    <2>2. CASE e \in Known
        <3>1. F = E \cup {e} /\ e \notin E
            BY <1>1, <2>2, SinkAssumption DEF EventTypes
        <3>2. Cardinality(E \cup {e}) = Cardinality(E) + 1
            BY <2>1, <3>1, FS_AddElement
        <3> QED  BY <2>2, <3>1, <3>2 DEF Emit, Counted
    <2>3. CASE e \notin Known
        <3>1. F = E
            BY <1>1, <2>3, SinkAssumption DEF EventTypes
        <3> QED  BY <2>3, <3>1 DEF Emit, Counted
    <2> QED  BY <2>2, <2>3
<1> QED  BY <1>2, <1>3, <1>4

\* The events B, which are nowhere in the webhook, or in the batch, are sent.
LEMMA SendPlaced ==
    ASSUME PlacedInv, NEW B \in SUBSET Event, batch \subseteq B,
           \A e \in B : Untouched(e), StartSend(B), batch' = {},
           at' \in [Event -> Places],
           \A e \in B : at'[e] \notin {"new", "webhook"},
           \A e \in Event \ B : at'[e] = at[e],
           UNCHANGED <<received, outcome>>
    PROVE  EventTypes' /\ \A e \in Event : Placed(e)'
<1> DEFINE n == [events |-> B, attempt |-> 0]
<1>1. n \in Send /\ n.events = B /\ n.attempt = 0
    BY NewSend
<1>2. sending' = sending \cup {n}
    BY DEF StartSend
<1> HIDE DEF n
<1>3. EventTypes'
    BY <1>1, <1>2 DEF PlacedInv, EventTypes
<1>4. ASSUME NEW e \in B PROVE Placed(e)'
    <2>1. \A s \in sending' : e \in s.events => s = n
        BY <1>2 DEF Untouched
    <2>2. n \in sending' /\ e \in n.events
        BY <1>1, <1>2
    <2>3. received'[e] = 0 /\ outcome'[e] = "open" /\ at'[e] \notin {"new", "webhook"}
        BY DEF Untouched
    <2> QED  BY <1>1, <2>1, <2>2, <2>3, RetriesNat DEF Placed
<1>5. ASSUME NEW e \in Event \ B PROVE Placed(e)'
    <2>1. Placed(e) /\ e \notin batch
        BY DEF PlacedInv
    <2>2. \A s \in sending' : e \in s.events => s \in sending
        BY <1>1, <1>2
    <2>3. \A s \in sending : s \in sending'
        BY <1>2
    <2> QED  BY <2>1, <2>2, <2>3 DEF Placed, Untouched
<1> QED  BY <1>3, <1>4, <1>5

\* webhookHandler.handle puts the event into the batch, or sends it with the batch.
LEMMA WebhookPlaced ==
    ASSUME PlacedInv, NEW e \in Event, HandleWebhook(e)
    PROVE  PlacedInv'
<1>0. /\ at[e] = "webhook" /\ at' = [at EXCEPT ![e] = "syslog"]
      /\ UNCHANGED <<counted, received, outcome>> /\ at \in [Event -> Places]
    BY DEF HandleWebhook, PlacedInv, EventTypes
<1>1. Counted'
    BY <1>0, CountedKept DEF PlacedInv
<1>2. /\ at' \in [Event -> Places] /\ at'[e] = "syslog"
      /\ \A d \in Event : d # e => at'[d] = at[d]
    BY <1>0 DEF Places
<1>3. e \notin batch /\ Untouched(e)
    BY <1>0 DEF PlacedInv, Placed
<1>4. CASE TakeBatch(e)
    <2> DEFINE B == batch \cup {e}
    <2>1. B \in SUBSET Event /\ batch \subseteq B /\ \A d \in B : Untouched(d)
        BY <1>3 DEF PlacedInv, EventTypes, Placed
    <2>2. \A d \in B : at'[d] \notin {"new", "webhook"}
        BY <1>2, <2>1 DEF PlacedInv, Placed
    <2>3. \A d \in Event \ B : at'[d] = at[d]
        BY <1>2
    <2>4. StartSend(B) /\ batch' = {}
        BY <1>4 DEF TakeBatch
    <2> HIDE DEF B
    <2>5. EventTypes' /\ \A d \in Event : Placed(d)'
        BY <1>0, <1>2, <2>1, <2>2, <2>3, <2>4, SendPlaced
    <2> QED  BY <1>1, <2>5 DEF PlacedInv
<1>5. CASE batch' = batch \cup {e} /\ UNCHANGED sending
    <2>1. EventTypes'
        BY <1>0, <1>2, <1>5 DEF PlacedInv, EventTypes
    <2>2. \A d \in Event : Placed(d)'
        BY <1>0, <1>2, <1>3, <1>5 DEF PlacedInv, Placed, Untouched
    <2> QED  BY <1>1, <2>1, <2>2 DEF PlacedInv
<1> QED  BY <1>4, <1>5 DEF HandleWebhook

\* flush sends the batch, if there is one.
LEMMA FlushPlaced ==
    ASSUME PlacedInv, NEW t \in Timer, Flush(t)
    PROVE  PlacedInv'
<1>0. UNCHANGED <<at, counted, received, outcome>> /\ batch' = {} /\ at \in [Event -> Places]
    BY DEF Flush, PlacedInv, EventTypes
<1>1. Counted'
    BY <1>0, CountedKept DEF PlacedInv
<1>2. CASE batch = {}
    <2>1. UNCHANGED <<batch, sending>>
        BY <1>0, <1>2 DEF Flush
    <2> QED  BY <1>0, <1>1, <2>1 DEF PlacedInv, EventTypes, Placed, Untouched
<1>3. CASE batch # {}
    <2>1. StartSend(batch)
        BY <1>3 DEF Flush
    <2>2. batch \in SUBSET Event /\ \A d \in batch : Untouched(d) /\ at[d] \notin {"new", "webhook"}
        BY DEF PlacedInv, EventTypes, Placed
    <2>3. EventTypes' /\ \A d \in Event : Placed(d)'
        BY <1>0, <2>1, <2>2, SendPlaced
    <2> QED  BY <1>1, <2>3 DEF PlacedInv
<1> QED  BY <1>2, <1>3

\* A call of send has settled its events, after at most one post more.
LEMMA SettlePlaced ==
    ASSUME PlacedInv, NEW s \in sending, NEW how \in {"accepted", "dropped"}, Settle(s, how),
           NEW k \in 0..1, how = "accepted" => k = 1,
           received' = [e \in Event |-> IF e \in s.events THEN received[e] + k ELSE received[e]],
           UNCHANGED <<at, counted, batch>>
    PROVE  PlacedInv'
<1>0. s \in Send /\ s.attempt \in 0..Retries /\ received \in [Event -> Nat]
    BY DEF PlacedInv, EventTypes, Send
<1>1. /\ sending' = sending \ {s}
      /\ outcome' = [e \in Event |-> IF e \in s.events THEN how ELSE outcome[e]]
    BY DEF Settle
<1>2. EventTypes'
    BY <1>0, <1>1 DEF PlacedInv, EventTypes
<1>3. Counted'
    BY CountedKept DEF PlacedInv
<1>4. ASSUME NEW e \in Event, e \in s.events PROVE Placed(e)'
    <2>1. /\ outcome'[e] = how /\ received'[e] = received[e] + k /\ received[e] \in Nat
          /\ received[e] <= s.attempt
        BY <1>0, <1>1, <1>4 DEF PlacedInv, Placed
    <2>2. received'[e] <= Retries + 1 /\ (how = "accepted" => received'[e] > 0)
        BY <1>0, <2>1, RetriesNat
    <2>3. \A r \in sending' : e \notin r.events
        BY <1>1, <1>4 DEF PlacedInv, Placed
    <2>4. e \notin batch /\ at[e] \notin {"new", "webhook"}
        BY <1>4 DEF PlacedInv, Placed, Untouched
    <2> QED  BY <2>1, <2>2, <2>3, <2>4 DEF Placed
<1>5. ASSUME NEW e \in Event, e \notin s.events PROVE Placed(e)'
    <2>1. outcome'[e] = outcome[e] /\ received'[e] = received[e] /\ Placed(e)
        BY <1>1, <1>5 DEF PlacedInv
    <2>2. \A r : e \in r.events => (r \in sending' <=> r \in sending)
        BY <1>1, <1>5
    <2> QED  BY <2>1, <2>2 DEF Placed, Untouched
<1> QED  BY <1>2, <1>3, <1>4, <1>5 DEF PlacedInv

\* A call of send tries again, after at most one post more.
LEMMA RetryPlaced ==
    ASSUME PlacedInv, NEW s \in sending, s.attempt < Retries, NEW k \in 0..1,
           sending' = (sending \ {s}) \cup {[s EXCEPT !.attempt = @ + 1]},
           received' = [e \in Event |-> IF e \in s.events THEN received[e] + k ELSE received[e]],
           UNCHANGED <<at, counted, batch, outcome>>
    PROVE  PlacedInv'
<1> DEFINE n == [s EXCEPT !.attempt = @ + 1]
<1>0. s \in Send /\ s.attempt \in 0..Retries /\ received \in [Event -> Nat]
    BY DEF PlacedInv, EventTypes, Send
<1>1. n \in Send /\ n.events = s.events /\ n.attempt = s.attempt + 1
    BY <1>0, NextSend
<1>2. sending' = (sending \ {s}) \cup {n}
    OBVIOUS
<1> HIDE DEF n
<1>3. EventTypes'
    BY <1>0, <1>1, <1>2 DEF PlacedInv, EventTypes
<1>4. Counted'
    BY CountedKept DEF PlacedInv
<1>5. ASSUME NEW e \in Event, e \in s.events PROVE Placed(e)'
    <2>1. /\ outcome[e] = "open" /\ received'[e] = received[e] + k /\ received[e] \in Nat
          /\ received[e] <= s.attempt
        BY <1>0, <1>5 DEF PlacedInv, Placed
    <2>2. received'[e] <= n.attempt /\ received'[e] <= Retries + 1
        BY <1>0, <1>1, <2>1, RetriesNat
    <2>3. \A r \in sending' : e \in r.events => r = n
        BY <1>2, <1>5 DEF PlacedInv, Placed
    <2>4. e \notin batch /\ at[e] \notin {"new", "webhook"}
        BY <1>5 DEF PlacedInv, Placed, Untouched
    <2>5. n \in sending' /\ e \in n.events
        BY <1>1, <1>2, <1>5
    <2> QED  BY <2>1, <2>2, <2>3, <2>4, <2>5 DEF Placed
<1>6. ASSUME NEW e \in Event, e \notin s.events PROVE Placed(e)'
    <2>1. received'[e] = received[e] /\ Placed(e)
        BY <1>6 DEF PlacedInv
    <2>2. \A r : e \in r.events => (r \in sending' <=> r \in sending)
        BY <1>1, <1>2, <1>6
    <2> QED  BY <2>1, <2>2 DEF Placed, Untouched
<1> QED  BY <1>3, <1>4, <1>5, <1>6 DEF PlacedInv

\* One attempt of send, whatever becomes of it.
LEMMA PostPlaced ==
    ASSUME PlacedInv, NEW s \in sending, NEW answer \in Answer, Post(s, answer)
    PROVE  PlacedInv'
<1> DEFINE k == IF answer = "lost" THEN 0 ELSE 1
<1>1. k \in 0..1 /\ UNCHANGED <<at, counted, batch>>
    BY DEF Post
<1>2. received' = [e \in Event |-> IF e \in s.events THEN received[e] + k ELSE received[e]]
    BY DEF Post, PlacedInv, EventTypes
<1>3. CASE answer = "2xx" /\ Settle(s, "accepted")
    <2>1. k = 1
        BY <1>3
    <2> HIDE DEF k
    <2> QED  BY <1>1, <1>2, <1>3, <2>1, SettlePlaced
<1>4. CASE Settle(s, "dropped")
    <2> HIDE DEF k
    <2> QED  BY <1>1, <1>2, <1>4, SettlePlaced
<1>5. CASE Retry(s)
    <2> HIDE DEF k
    <2> QED  BY <1>1, <1>2, <1>4, <1>5, RetryPlaced DEF Retry
<1> QED  BY <1>3, <1>4, <1>5 DEF Post

\* Every step of Emit, the handlers, the timers and the senders keeps every event
\* in its place.
LEMMA PlacedStep ==
    ASSUME PlacedInv, [SinkNext]_sinkVars
    PROVE  PlacedInv'
<1>1. ASSUME NEW e \in Event, HandleSyslog(e) PROVE PlacedInv'
    <2>1. at[e] = "syslog" /\ at' = [at EXCEPT ![e] = "done"]
          /\ UNCHANGED <<counted, batch, sending, received, outcome>>
        BY <1>1 DEF HandleSyslog, webhookVars
    <2>2. Counted'
        BY <2>1, CountedKept DEF PlacedInv, EventTypes
    <2>3. EventTypes' /\ \A d \in Event : Placed(d)'
        BY <2>1 DEF PlacedInv, EventTypes, Places, Placed, Untouched
    <2> QED  BY <2>2, <2>3 DEF PlacedInv
<1>2. ASSUME UNCHANGED <<at, counted, batch, sending, received, outcome>> PROVE PlacedInv'
    BY <1>2 DEF PlacedInv, EventTypes, Counted, Placed, Untouched
<1>3. ASSUME NEW t \in Timer, TimerFires(t) PROVE PlacedInv'
    BY <1>2, <1>3 DEF TimerFires
<1>4. ASSUME NEW s \in sending, SendInvalid(s) PROVE PlacedInv'
    <2>1. received' = [e \in Event |-> IF e \in s.events THEN received[e] + 0 ELSE received[e]]
        BY <1>4 DEF SendInvalid, PlacedInv, EventTypes
    <2>2. Settle(s, "dropped") /\ UNCHANGED <<at, counted, batch>> /\ 0 \in 0..1
        BY <1>4 DEF SendInvalid
    <2> QED  BY <2>1, <2>2, SettlePlaced
<1>5. CASE UNCHANGED sinkVars
    BY <1>2, <1>5 DEF sinkVars, webhookVars
<1> QED
    BY <1>1, <1>3, <1>4, <1>5, EmitPlaced, WebhookPlaced, FlushPlaced, PostPlaced DEF SinkNext

\* An event in its place is counted once.
LEMMA PlacedAccounted ==
    ASSUME PlacedInv PROVE EventsAccounted
<1> SUFFICES ASSUME NEW e \in Event
             PROVE  /\ (IF e \in batch THEN 1 ELSE 0) + Cardinality(CallsWith(e))
                          + (IF outcome[e] # "open" THEN 1 ELSE 0)
                        = (IF at[e] \in {"syslog", "done"} THEN 1 ELSE 0)
                    /\ received[e] <= Retries + 1
                    /\ \A s \in CallsWith(e) : received[e] <= s.attempt
                    /\ outcome[e] = "accepted" => received[e] > 0
    BY DEF PlacedInv, Counted, EventsAccounted
<1>0. Placed(e) /\ at[e] \in Places
    BY DEF PlacedInv, EventTypes
<1>1. CASE CallsWith(e) = {}
    <2>1. Cardinality(CallsWith(e)) = 0
        BY <1>1, FS_EmptySet
    <2>2. \A s \in sending : e \notin s.events
        BY <1>1 DEF CallsWith
    <2> QED  BY <1>0, <1>1, <2>1, <2>2 DEF Placed, Untouched, Places
<1>2. CASE CallsWith(e) # {}
    <2>1. PICK s \in sending : e \in s.events
        BY <1>2 DEF CallsWith
    <2>2. CallsWith(e) = {s}
        BY <1>0, <2>1 DEF CallsWith, Placed
    <2>3. Cardinality(CallsWith(e)) = 1
        BY <2>2, FS_Singleton
    <2>4. /\ outcome[e] = "open" /\ e \notin batch /\ at[e] \in {"syslog", "done"}
          /\ received[e] <= s.attempt /\ received[e] <= Retries + 1
        BY <1>0, <2>1 DEF Placed, Untouched, Places
    <2> QED  BY <2>2, <2>3, <2>4
<1> QED  BY <1>1, <1>2

\* The webhook has every event it was given in exactly one place, however timers,
\* flushes and retries interleave, and posts it at most once per attempt; the
\* counters of SecurityStatus count each emitted event once.
THEOREM EveryEventAccounted == SinkSpec => []EventsAccounted
<1>1. PlacedInv /\ [SinkNext]_sinkVars => PlacedInv'
    BY PlacedStep
<1>2. PlacedInv => EventsAccounted
    BY PlacedAccounted
<1> QED  BY <1>1, <1>2, PlacedInit, PTL DEF SinkSpec

-----------------------------------------------------------------------------
(***************************************************************************)
(* The token bucket keeps its bound in every window of time, for every     *)
(* rate, burst and resolution of the clock.                                *)
(*                                                                         *)
(* RateBounded is not inductive: it says nothing of the tokens that are    *)
(* left.  The bound holds of what was allowed in the window together with  *)
(* the tokens a call would find now, Refilled, and the cap on Refilled is  *)
(* what makes it true again when a new window begins.                      *)
(***************************************************************************)

RateInv ==
    /\ LimiterTypeOK
    /\ tokens <= Burst * Second
    /\ winAllowed * Second + Refilled <= Burst * Second + Rate * (clock - winStart)

\* A product grows by one factor when the other grows by one.
LEMMA Distribute ==
    \A a, b \in Int : /\ (a + 1) * b = a * b + b
                      /\ b * (a + 1) = b * a + b
                      /\ 0 * b = 0 /\ b * 0 = 0
    BY SMT

\* A product of natural numbers is one.
LEMMA ProductNat == \A a, b \in Nat : a * b \in Nat
    BY SMT

\* What Allow finds in the bucket: a natural number, and no more than the burst.
LEMMA RefilledRange ==
    ASSUME LimiterTypeOK
    PROVE  Refilled \in Nat /\ Refilled <= Burst * Second
<1>1. Burst * Second \in Nat
    BY ProductNat, RateAssumption
<1>2. (clock - lastTime) * Rate \in Nat
    <2>1. clock - lastTime \in Nat
        BY DEF LimiterTypeOK
    <2> QED  BY <2>1, ProductNat, RateAssumption
<1>3. tokens \in Nat
    BY DEF LimiterTypeOK
<1> DEFINE R == (clock - lastTime) * Rate
           B == Burst * Second
<1>4. R \in Nat /\ B \in Nat
    BY <1>1, <1>2
<1>5. Refilled = IF tokens + R <= B THEN tokens + R ELSE B
    BY DEF Refilled, Min2
<1> HIDE DEF R
<1>6. B = Burst * Second
    OBVIOUS
<1> HIDE DEF B
<1>7. Refilled \in Nat /\ Refilled <= B
    BY <1>3, <1>4, <1>5
<1> QED  BY <1>6, <1>7

LEMMA RateInit == LimiterInit => RateInv
<1> SUFFICES ASSUME LimiterInit PROVE RateInv
    OBVIOUS
<1>1. LimiterTypeOK
    BY ProductNat, RateAssumption DEF LimiterInit, LimiterTypeOK
<1>2. tokens <= Burst * Second
    BY ProductNat, RateAssumption DEF LimiterInit
<1>3. winAllowed * Second = 0 /\ Rate * (clock - winStart) = 0
    <2>1. winAllowed = 0 /\ clock - winStart = 0
        BY DEF LimiterInit
    <2> QED  BY <2>1, Distribute, RateAssumption
<1>4. Burst * Second \in Nat
    BY ProductNat, RateAssumption
<1> QED  BY <1>1, <1>2, <1>3, <1>4, RefilledRange DEF RateInv

\* Allow takes a token from the bucket and counts it in the window, or neither.
LEMMA AllowStep ==
    ASSUME RateInv, Allow
    PROVE  RateInv'
<1>1. LimiterTypeOK /\ Refilled \in Nat /\ Refilled <= Burst * Second
    BY RefilledRange DEF RateInv
<1>2. Burst * Second \in Nat /\ Second \in Nat /\ Second > 0 /\ Rate \in Nat
    BY ProductNat, RateAssumption
<1>3. tokens' \in Nat /\ tokens' <= Refilled
    BY <1>1, <1>2 DEF Allow
<1>4. LimiterTypeOK'
    BY <1>1, <1>3 DEF LimiterTypeOK, Allow
<1>5. Refilled' = tokens'
    <2>1. clock' - lastTime' = 0
        BY <1>1 DEF Allow, LimiterTypeOK
    <2>2. (clock' - lastTime') * Rate = 0
        BY <2>1, <1>2, Distribute
    <2>3. (Burst * Second)' = Burst * Second
        OBVIOUS
    <2> QED  BY <2>2, <2>3, <1>1, <1>2, <1>3 DEF Refilled, Min2
<1>6. winAllowed' * Second + tokens' = winAllowed * Second + Refilled
    <2>1. winAllowed \in Nat /\ winAllowed * Second \in Nat
        BY <1>1, <1>2, ProductNat DEF LimiterTypeOK
    <2>2. CASE winAllowed' = winAllowed + 1 /\ tokens' = Refilled - Second
        <3>1. winAllowed' * Second = winAllowed * Second + Second
            BY <2>1, <2>2, <1>2, Distribute
        <3> QED  BY <3>1, <2>1, <2>2, <1>1, <1>2
    <2>3. CASE winAllowed' = winAllowed /\ tokens' = Refilled
        BY <2>3
    <2> QED  BY <2>2, <2>3 DEF Allow
<1>7. Rate * (clock' - winStart') = Rate * (clock - winStart)
    BY DEF Allow
<1>8. tokens' <= Burst * Second
    BY <1>1, <1>2, <1>3
<1> QED  BY <1>4, <1>5, <1>6, <1>7, <1>8 DEF RateInv

\* A tick adds at most Rate to what Allow would find, and Rate to the bound.
LEMMA TickStep ==
    ASSUME RateInv, ClockTick
    PROVE  RateInv'
<1>1. LimiterTypeOK /\ LimiterTypeOK'
    BY RateAssumption DEF RateInv, LimiterTypeOK, ClockTick
<1> DEFINE R == (clock - lastTime) * Rate
           W == Rate * (clock - winStart)
           B == Burst * Second
<1>2. R \in Nat /\ W \in Nat /\ B \in Nat /\ Rate \in Nat
    <2>1. clock - lastTime \in Nat /\ clock - winStart \in Nat
        BY <1>1 DEF LimiterTypeOK
    <2> QED  BY <2>1, ProductNat, RateAssumption
<1>3. (clock' - lastTime') * Rate = R + Rate
    <2>1. clock - lastTime \in Int /\ clock' - lastTime' = (clock - lastTime) + 1
        BY <1>1 DEF LimiterTypeOK, ClockTick
    <2> QED  BY <2>1, <1>2, Distribute
<1>4. Rate * (clock' - winStart') = W + Rate
    <2>1. clock - winStart \in Int /\ clock' - winStart' = (clock - winStart) + 1
        BY <1>1 DEF LimiterTypeOK, ClockTick
    <2> QED  BY <2>1, <1>2, Distribute
<1>5. Refilled = IF tokens + R <= B THEN tokens + R ELSE B
    BY DEF Refilled, Min2
<1>6. Refilled' = IF tokens + (R + Rate) <= B THEN tokens + (R + Rate) ELSE B
    <2>1. Refilled' = IF tokens' + (clock' - lastTime') * Rate <= B
                      THEN tokens' + (clock' - lastTime') * Rate ELSE B
        BY DEF Refilled, Min2
    <2> QED  BY <2>1, <1>3 DEF ClockTick
<1>7. winAllowed * Second \in Nat /\ winAllowed' = winAllowed
    BY <1>1, ProductNat, RateAssumption DEF LimiterTypeOK, ClockTick
<1>8. winAllowed * Second + Refilled <= B + W /\ tokens <= B /\ tokens \in Nat /\ tokens' = tokens
    BY DEF RateInv, LimiterTypeOK, ClockTick
<1> HIDE DEF R, W
<1>9. winAllowed' * Second + Refilled' <= B + (W + Rate)
    <2> DEFINE A == winAllowed * Second
    <2>1. A \in Nat /\ A + Refilled <= B + W
        BY <1>7, <1>8
    <2> HIDE DEF A, B
    <2>2. A + Refilled' <= B + (W + Rate)
        BY <2>1, <1>2, <1>5, <1>6, <1>8
    <2>3. winAllowed' * Second = A
        BY <1>7 DEF A
    <2> QED  BY <2>2, <2>3
<1> QED  BY <1>1, <1>4, <1>8, <1>9 DEF RateInv

\* When a window begins the bucket holds at most the burst.
LEMMA WindowStep ==
    ASSUME RateInv, WindowBegins
    PROVE  RateInv'
<1>1. LimiterTypeOK /\ LimiterTypeOK'
    BY DEF RateInv, LimiterTypeOK, WindowBegins
<1>2. Refilled' = Refilled
    BY DEF Refilled, Min2, WindowBegins
<1>3. Refilled \in Nat /\ Refilled <= Burst * Second /\ Burst * Second \in Nat
    BY <1>1, RefilledRange, ProductNat, RateAssumption
<1>4. winAllowed' * Second = 0 /\ Rate * (clock' - winStart') = 0
    <2>1. winAllowed' = 0 /\ clock' - winStart' = 0
        BY <1>1 DEF WindowBegins, LimiterTypeOK
    <2> QED  BY <2>1, Distribute, RateAssumption
<1>5. tokens' <= Burst * Second
    BY DEF RateInv, WindowBegins
<1> QED  BY <1>1, <1>2, <1>3, <1>4, <1>5 DEF RateInv

LEMMA RateStep ==
    ASSUME RateInv, [LimiterNext]_limiterVars
    PROVE  RateInv'
<1>1. CASE LimiterNext
    BY <1>1, AllowStep, TickStep, WindowStep DEF LimiterNext
<1>2. CASE UNCHANGED limiterVars
    BY <1>2 DEF RateInv, LimiterTypeOK, Refilled, Min2, limiterVars
<1> QED  BY <1>1, <1>2

LEMMA RateImplies == RateInv => RateBounded
<1> SUFFICES ASSUME RateInv PROVE RateBounded
    OBVIOUS
<1>1. Refilled \in Nat
    BY RefilledRange DEF RateInv
<1>2. winAllowed * Second \in Nat /\ Burst * Second \in Nat
    BY ProductNat, RateAssumption DEF RateInv, LimiterTypeOK
<1>3. Rate * (clock - winStart) \in Nat
    <2>1. clock - winStart \in Nat
        BY DEF RateInv, LimiterTypeOK
    <2> QED  BY <2>1, ProductNat, RateAssumption
<1> DEFINE A == winAllowed * Second
           B == Burst * Second
           W == Rate * (clock - winStart)
<1>4. A + Refilled <= B + W
    BY DEF RateInv
<1>5. A \in Nat /\ B \in Nat /\ W \in Nat
    BY <1>2, <1>3
<1> HIDE DEF A, B, W
<1>6. A <= B + W
    BY <1>1, <1>4, <1>5
<1> QED  BY <1>6 DEF RateBounded, A, B, W

\* In every window of time, wherever it begins, Allow says yes at most Burst
\* times and Rate times the length of the window (RateLimiter.Allow).
THEOREM RateIsBounded == LimiterSpec => []RateBounded
<1>1. LimiterInit => RateInv
    BY RateInit
<1>2. RateInv /\ [LimiterNext]_limiterVars => RateInv'
    BY RateStep
<1>3. RateInv => RateBounded
    BY RateImplies
<1> QED  BY <1>1, <1>2, <1>3, PTL DEF LimiterSpec

-----------------------------------------------------------------------------
(***************************************************************************)
(* The Modbus client gives no call the answer to another, though answers   *)
(* come late and the transaction IDs go round.                             *)
(*                                                                         *)
(* ResponseBelongs is not inductive: it says nothing of the frames on the  *)
(* connection.  ModbusInv bounds the age of a frame by its place: one that *)
(* could have the ID of the call under way again would have to be behind   *)
(* more frames than there can be while the connection is in step.  What is *)
(* in the frame rests on encodeBools and decodeBools, which are taken      *)
(* first, and on the lengths it states.                                    *)
(***************************************************************************)

(* The Modbus client: coils in bytes. *)

\* Bit i of a packed list of coils is set, as the client and the device look at it.
BitSet(data, i) == (data[(i - 1) \div 8 + 1] \div 2^((i - 1) % 8)) % 2 = 1

\* The byte with these bits, the lowest first.
ByteOf(b0, b1, b2, b3, b4, b5, b6, b7) ==
    b0 + 2 * b1 + 4 * b2 + 8 * b3 + 16 * b4 + 32 * b5 + 64 * b6 + 128 * b7

\* The arithmetic of eight bits.
LEMMA EightBits ==
    ASSUME NEW b0 \in {0, 1}, NEW b1 \in {0, 1}, NEW b2 \in {0, 1}, NEW b3 \in {0, 1},
           NEW b4 \in {0, 1}, NEW b5 \in {0, 1}, NEW b6 \in {0, 1}, NEW b7 \in {0, 1}
    PROVE  LET byte == ByteOf(b0, b1, b2, b3, b4, b5, b6, b7)
           IN  /\ (byte \div 1) % 2 = b0 /\ (byte \div 2) % 2 = b1
               /\ (byte \div 4) % 2 = b2 /\ (byte \div 8) % 2 = b3
               /\ (byte \div 16) % 2 = b4 /\ (byte \div 32) % 2 = b5
               /\ (byte \div 64) % 2 = b6 /\ (byte \div 128) % 2 = b7
BY DEF ByteOf

\* A byte put together from eight bits has those bits.
LEMMA ByteBits ==
    ASSUME NEW b \in [0..7 -> {0, 1}], NEW byte,
           byte = ByteOf(b[0], b[1], b[2], b[3], b[4], b[5], b[6], b[7]),
           NEW j \in 0..7
    PROVE  (byte \div 2^j) % 2 = b[j]
<1>1. /\ b[0] \in {0, 1} /\ b[1] \in {0, 1} /\ b[2] \in {0, 1} /\ b[3] \in {0, 1}
      /\ b[4] \in {0, 1} /\ b[5] \in {0, 1} /\ b[6] \in {0, 1} /\ b[7] \in {0, 1}
  OBVIOUS
<1>2. /\ (byte \div 1) % 2 = b[0] /\ (byte \div 2) % 2 = b[1]
      /\ (byte \div 4) % 2 = b[2] /\ (byte \div 8) % 2 = b[3]
      /\ (byte \div 16) % 2 = b[4] /\ (byte \div 32) % 2 = b[5]
      /\ (byte \div 64) % 2 = b[6] /\ (byte \div 128) % 2 = b[7]
  BY <1>1, EightBits
<1>3. /\ 2^0 = 1 /\ 2^1 = 2 /\ 2^2 = 4 /\ 2^3 = 8 /\ 2^4 = 16 /\ 2^5 = 32 /\ 2^6 = 64 /\ 2^7 = 128
  OBVIOUS
<1>4. j = 0 \/ j = 1 \/ j = 2 \/ j = 3 \/ j = 4 \/ j = 5 \/ j = 6 \/ j = 7
  OBVIOUS
<1>5. CASE j = 0
  BY <1>2, <1>3, <1>5, Zenon
<1>6. CASE j = 1
  BY <1>2, <1>3, <1>6, Zenon
<1>7. CASE j = 2
  BY <1>2, <1>3, <1>7, Zenon
<1>8. CASE j = 3
  BY <1>2, <1>3, <1>8, Zenon
<1>9. CASE j = 4
  BY <1>2, <1>3, <1>9, Zenon
<1>10. CASE j = 5
  BY <1>2, <1>3, <1>10, Zenon
<1>11. CASE j = 6
  BY <1>2, <1>3, <1>11, Zenon
<1>12. CASE j = 7
  BY <1>2, <1>3, <1>12, Zenon
<1> QED BY <1>4, <1>5, <1>6, <1>7, <1>8, <1>9, <1>10, <1>11, <1>12

\* Coil i of n is in a byte that the list has, at one of its eight places.
LEMMA BytePlace ==
    ASSUME NEW n \in Nat, NEW i \in 1..n
    PROVE  /\ (i - 1) % 8 \in 0..7
           /\ (i - 1) \div 8 + 1 \in 1..ByteCount(n)
           /\ 8 * (((i - 1) \div 8 + 1) - 1) + ((i - 1) % 8) + 1 = i
           /\ ByteCount(n) \in Nat
<1>1. ASSUME NEW x \in Nat, NEW q, q = x \div 8, NEW r, r = x % 8
      PROVE  x = 8 * q + r /\ r \in 0..7 /\ q \in Nat
  BY <1>1
<1> DEFINE x == i - 1
           q == x \div 8
           r == x % 8
<1>2. x \in Nat
  OBVIOUS
<1>3. x = 8 * q + r /\ r \in 0..7 /\ q \in Nat
  BY <1>1, <1>2
<1>4. ByteCount(n) \in Nat /\ 8 * ByteCount(n) >= n
  BY DEF ByteCount
<1>5. q + 1 \in 1..ByteCount(n)
  <2> HIDE DEF q, r
  <2> QED BY <1>3, <1>4
<1>6. 8 * ((q + 1) - 1) + r + 1 = i
  <2> HIDE DEF q, r
  <2> QED BY <1>3
<1> QED BY <1>3, <1>4, <1>5, <1>6

\* A function on 1..n is a sequence of n elements.
LEMMA FunctionSeq ==
    ASSUME NEW S, NEW n \in Nat, NEW f \in [1..n -> S]
    PROVE  f \in Seq(S) /\ Len(f) = n
<1>1. f \in Seq(S)
  BY SeqDef, Zenon
<1>2. Len(f) \in Nat /\ DOMAIN f = 1..Len(f)
  BY <1>1, LenProperties
<1>3. DOMAIN f = 1..n
  OBVIOUS
<1> QED BY <1>1, <1>2, <1>3

\* What encodeBools and the device make of a list is a sequence of bytes.
LEMMA PackedSeq ==
    ASSUME NEW values \in Seq(BOOLEAN)
    PROVE  /\ encodeBools(values) \in Seq(Int) /\ Pack(values) \in Seq(Int)
           /\ Len(Pack(values)) = ByteCount(Len(values))
           /\ Len(encodeBools(values)) = ByteCount(Len(values))
<1>1. Len(values) \in Nat /\ ByteCount(Len(values)) \in Nat
  <2>1. Len(values) \in Nat
    BY LenProperties
  <2> QED BY <2>1 DEF ByteCount
<1>2. \A i : BitAt(values, i) \in Int
  BY DEF BitAt, Bit
<1>3. encodeBools(values) \in [1..ByteCount(Len(values)) -> Int]
  <2>1. ASSUME NEW k \in 1..ByteCount(Len(values)) PROVE encodeBools(values)[k] \in Int
    <3> DEFINE b1 == BitAt(values, 8 * (k - 1) + 1)  b2 == BitAt(values, 8 * (k - 1) + 2)
               b3 == BitAt(values, 8 * (k - 1) + 3)  b4 == BitAt(values, 8 * (k - 1) + 4)
               b5 == BitAt(values, 8 * (k - 1) + 5)  b6 == BitAt(values, 8 * (k - 1) + 6)
               b7 == BitAt(values, 8 * (k - 1) + 7)  b8 == BitAt(values, 8 * (k - 1) + 8)
    <3>1. encodeBools(values)[k] = b1 + 2 * b2 + 4 * b3 + 8 * b4 + 16 * b5 + 32 * b6
                                   + 64 * b7 + 128 * b8
      BY DEF encodeBools
    <3>2. /\ b1 \in Int /\ b2 \in Int /\ b3 \in Int /\ b4 \in Int
          /\ b5 \in Int /\ b6 \in Int /\ b7 \in Int /\ b8 \in Int
      BY <1>2
    <3> HIDE DEF b1, b2, b3, b4, b5, b6, b7, b8
    <3> QED BY <3>1, <3>2
  <2> QED BY <2>1 DEF encodeBools
<1>4. Pack(values) \in [1..ByteCount(Len(values)) -> Int]
  BY <1>1 DEF Pack
<1> QED BY <1>1, <1>3, <1>4, FunctionSeq

\* encodeBools puts value i where a reader looks for it.
LEMMA EncodedBit ==
    ASSUME NEW values \in Seq(BOOLEAN), NEW i \in 1..Len(values)
    PROVE  BitSet(encodeBools(values), i) <=> values[i]
<1> DEFINE k == (i - 1) \div 8 + 1
           j == (i - 1) % 8
           b == [m \in 0..7 |-> BitAt(values, 8 * (k - 1) + (m + 1))]
<1>1. Len(values) \in Nat /\ values[i] \in BOOLEAN
  BY LenProperties
<1>2. j \in 0..7 /\ k \in 1..ByteCount(Len(values)) /\ 8 * (k - 1) + j + 1 = i
  BY <1>1, BytePlace
<1> HIDE DEF k, j
<1>3. b \in [0..7 -> {0, 1}]
  BY DEF BitAt, Bit
<1>4. encodeBools(values)[k] = ByteOf(b[0], b[1], b[2], b[3], b[4], b[5], b[6], b[7])
  <2>1. k \in Int
    BY <1>2
  <2>2. /\ b[0] = BitAt(values, 8 * (k - 1) + 1) /\ b[1] = BitAt(values, 8 * (k - 1) + 2)
        /\ b[2] = BitAt(values, 8 * (k - 1) + 3) /\ b[3] = BitAt(values, 8 * (k - 1) + 4)
        /\ b[4] = BitAt(values, 8 * (k - 1) + 5) /\ b[5] = BitAt(values, 8 * (k - 1) + 6)
        /\ b[6] = BitAt(values, 8 * (k - 1) + 7) /\ b[7] = BitAt(values, 8 * (k - 1) + 8)
    BY <2>1
  <2> HIDE DEF b
  <2> QED BY <1>2, <2>2 DEF encodeBools, ByteOf
<1>5. (encodeBools(values)[k] \div 2^j) % 2 = b[j]
  <2> HIDE DEF b
  <2> QED BY <1>2, <1>3, <1>4, ByteBits
<1>6. b[j] = Bit(values[i])
  <2>1. 8 * (k - 1) + (j + 1) = i
    BY <1>2
  <2>2. b[j] = BitAt(values, i)
    BY <1>2, <2>1
  <2> QED BY <1>1, <2>2 DEF BitAt
<1> QED BY <1>1, <1>5, <1>6 DEF BitSet, Bit, k, j

\* The device packs its coils the same way.
LEMMA PackedBit ==
    ASSUME NEW list \in Seq(BOOLEAN), NEW i \in 1..Len(list)
    PROVE  BitSet(Pack(list), i) <=> list[i]
<1> DEFINE k == (i - 1) \div 8 + 1
           j == (i - 1) % 8
           b == [m \in 0..7 |-> IF 8 * (k - 1) + m < Len(list) /\ list[8 * (k - 1) + m + 1] THEN 1 ELSE 0]
<1>1. Len(list) \in Nat /\ list[i] \in BOOLEAN
  BY LenProperties
<1>2. j \in 0..7 /\ k \in 1..ByteCount(Len(list)) /\ 8 * (k - 1) + j + 1 = i
  BY <1>1, BytePlace
<1> HIDE DEF k, j
<1>3. b \in [0..7 -> {0, 1}]
  OBVIOUS
<1>4. Pack(list)[k] = ByteOf(b[0], b[1], b[2], b[3], b[4], b[5], b[6], b[7])
  <2> DEFINE on(m) == IF 8 * (k - 1) + m < Len(list) /\ list[8 * (k - 1) + m + 1] THEN 2^m ELSE 0
  <2>1. Pack(list)[k] = on(0) + on(1) + on(2) + on(3) + on(4) + on(5) + on(6) + on(7)
    BY <1>2 DEF Pack
  <2>2. /\ 2^0 = 1 /\ 2^1 = 2 /\ 2^2 = 4 /\ 2^3 = 8 /\ 2^4 = 16 /\ 2^5 = 32 /\ 2^6 = 64 /\ 2^7 = 128
    OBVIOUS
  <2>3. /\ on(0) = b[0] /\ on(1) = 2 * b[1] /\ on(2) = 4 * b[2] /\ on(3) = 8 * b[3]
        /\ on(4) = 16 * b[4] /\ on(5) = 32 * b[5] /\ on(6) = 64 * b[6] /\ on(7) = 128 * b[7]
    BY <2>2
  <2> HIDE DEF on, b
  <2> QED BY <2>1, <2>3 DEF ByteOf
<1>5. (Pack(list)[k] \div 2^j) % 2 = b[j]
  <2> HIDE DEF b
  <2> QED BY <1>2, <1>3, <1>4, ByteBits
<1>6. b[j] = IF list[i] THEN 1 ELSE 0
  BY <1>1, <1>2
<1> QED BY <1>1, <1>5, <1>6 DEF BitSet, k, j

\* decodeBools gives back the coils of the device.
LEMMA DecodePacked ==
    ASSUME NEW list \in [1..Coils -> BOOLEAN]
    PROVE  decodeBools(Pack(list), Coils) = list
<1>1. Coils \in Nat
  BY ModbusAssumption
<1>2. list \in Seq(BOOLEAN) /\ Len(list) = Coils
  BY <1>1, FunctionSeq
<1>3. ASSUME NEW i \in 1..Coils PROVE decodeBools(Pack(list), Coils)[i] = list[i]
  <2>1. (i - 1) \div 8 + 1 <= Len(Pack(list))
    BY <1>1, <1>2, BytePlace, PackedSeq
  <2>2. list[i] \in BOOLEAN /\ BitSet(Pack(list), i) <=> list[i]
    BY <1>2, PackedBit
  <2> QED BY <2>1, <2>2 DEF decodeBools, BitSet
<1> QED BY <1>3 DEF decodeBools

(* The Modbus client: which call an answer belongs to. *)

Function == {"ReadCoils", "WriteMultipleCoils"}
Request == [id : Nat, fc : Function, request : Nat, quantity : Nat, byteCount : Nat,
            data : Seq(Int)]
Response == [id : Nat, fc : Function, request : Nat, exception : BOOLEAN, coils : Seq(BOOLEAN),
             data : Seq(Int)]

\* The transaction ID of the frame that was sent a transactions before the last.
Ago(a) == IF a <= txnID THEN txnID - a ELSE txnID - a + TxnModulus

\* Frames that may be on the connection: one for each call given up, and that of
\* the call under way.
Slack == IF call = NoCall THEN abandoned ELSE abandoned + 1

\* The frame of the call under way, going out and coming back.
OwnRequest(f) ==
    /\ f.request = call.request
    /\ f.fc = "WriteMultipleCoils" =>
          /\ f.quantity = Len(call.values) % QuantityModulus
          /\ f.data = encodeBools(call.values)
OwnResponse(f) ==
    /\ f.request = call.request
    /\ f.fc = "WriteMultipleCoils" /\ ~f.exception => f.coils = call.values

\* A frame in place p of the connection, counted from the client, is at most as many
\* transactions old as there are places left: each transaction since has taken a
\* frame before it away, or has been given up.
AgedRequest(f, p) ==
    \E a \in 0..(TxnModulus - 1) :
        a + p <= Slack /\ f.id = Ago(a) /\ (a = 0 /\ call # NoCall => OwnRequest(f))
AgedResponse(f, p) ==
    \E a \in 0..(TxnModulus - 1) :
        a + p <= Slack /\ f.id = Ago(a) /\ (a = 0 /\ call # NoCall => OwnResponse(f))

\* What the device answers to a read decodes to the coils it had.
Decodes(f) == f.fc = "ReadCoils" /\ ~f.exception => decodeBools(f.data, Coils) = f.coils

CallOK ==
    \/ call = NoCall
    \/ /\ call.pc = "reading" /\ call.id = txnID /\ call.request \in Nat /\ call.fc \in Function
       /\ call.values \in Seq(BOOLEAN)

FrameTypes ==
    /\ txnID \in 0..(TxnModulus - 1) /\ calls \in Nat /\ abandoned \in Nat
    /\ torn \in BOOLEAN
    /\ requests \in Seq(Request) /\ responses \in Seq(Response)
    /\ coils \in [1..Coils -> BOOLEAN]

RequestsAged == \A q \in 1..Len(requests) : AgedRequest(requests[q], Len(responses) + q)
ResponsesAged == \A p \in 1..Len(responses) : AgedResponse(responses[p], p) /\ Decodes(responses[p])

ModbusInv ==
    /\ FrameTypes /\ CallOK
    /\ InStep => RequestsAged
    /\ InStep => ResponsesAged

\* The transaction IDs go round: what was a transactions ago is a + 1 ago after one more.
LEMMA AgoNext ==
    ASSUME FrameTypes, txnID' = (txnID + 1) % TxnModulus,
           NEW a \in 0..(TxnModulus - 1), a + 1 < TxnModulus
    PROVE  /\ Ago(a) = Ago(a + 1)'
           /\ txnID' \in 0..(TxnModulus - 1)
<1>1. TxnModulus \in Nat \ {0} /\ txnID \in 0..(TxnModulus - 1)
  BY ModbusAssumption DEF FrameTypes
<1>2. txnID' = IF txnID + 1 = TxnModulus THEN 0 ELSE txnID + 1
  BY <1>1
<1> QED BY <1>1, <1>2 DEF Ago

\* Only the frame of the last transaction has the last transaction's ID.
LEMMA AgoZero ==
    ASSUME FrameTypes, NEW a \in 0..(TxnModulus - 1), Ago(a) = txnID
    PROVE  a = 0
BY ModbusAssumption DEF FrameTypes, Ago

\* Between two calls there are no more frames than calls given up.
LEMMA FewFrames ==
    ASSUME ModbusInv, InStep, call = NoCall
    PROVE  Len(responses) + Len(requests) <= abandoned
<1>1. abandoned \in Nat /\ Len(requests) \in Nat /\ Len(responses) \in Nat
  BY ModbusAssumption, LenProperties DEF ModbusInv, FrameTypes
<1>2. Slack = abandoned
  BY DEF Slack
<1>3. CASE Len(requests) > 0
  <2>1. AgedRequest(requests[Len(requests)], Len(responses) + Len(requests))
    BY <1>1, <1>3 DEF ModbusInv, RequestsAged
  <2> QED BY <1>1, <1>2, <2>1, ModbusAssumption DEF AgedRequest
<1>4. CASE Len(requests) = 0 /\ Len(responses) > 0
  <2>1. AgedResponse(responses[Len(responses)], Len(responses))
    BY <1>1, <1>4 DEF ModbusInv, ResponsesAged
  <2> QED BY <1>1, <1>2, <1>4, <2>1, ModbusAssumption DEF AgedResponse
<1> QED BY <1>1, <1>3, <1>4

\* What the device stores of a request is a list of coils, and of the request that
\* encodeBools made it is the list that was encoded.
LEMMA StoredCoils ==
    ASSUME FrameTypes, NEW r
    PROVE  Stored(r) \in [1..Coils -> BOOLEAN]
BY DEF FrameTypes, Stored

LEMMA StoredEncoded ==
    ASSUME FrameTypes, NEW r, NEW values \in Seq(BOOLEAN), Len(values) <= Coils,
           r.fc = "WriteMultipleCoils", r.quantity = Len(values), r.data = encodeBools(values)
    PROVE  SubSeq(Stored(r), 1, r.quantity) = values
<1>1. Coils \in Nat /\ Len(values) \in Nat
  BY ModbusAssumption, LenProperties
<1> DEFINE s == Stored(r)
           t == SubSeq(s, 1, Len(values))
<1>2. s \in Seq(BOOLEAN) /\ Len(s) = Coils
  <2>1. s \in [1..Coils -> BOOLEAN]
    BY StoredCoils
  <2> HIDE DEF s
  <2> QED BY <1>1, <2>1, FunctionSeq
<1>3. ASSUME NEW i \in 1..Len(values) PROVE s[i] = values[i]
  <2>1. values[i] \in BOOLEAN /\ i \in 1..Coils
    BY <1>1, LenProperties
  <2>2. BitSet(encodeBools(values), i) <=> values[i]
    BY EncodedBit
  <2>3. s[i] = BitSet(encodeBools(values), i)
    BY <1>1, <2>1 DEF Stored, BitSet
  <2> QED BY <2>1, <2>2, <2>3 DEF BitSet
<1> HIDE DEF s
<1>4. /\ t \in Seq(BOOLEAN) /\ Len(t) = Len(values)
      /\ \A i \in 1..Len(values) : t[i] = s[i]
  <2>1. \A i \in 1..Len(values) : i \in 1..Len(s)
    BY <1>1, <1>2
  <2>2. /\ SubSeq(s, 1, Len(values)) \in Seq(BOOLEAN)
        /\ Len(SubSeq(s, 1, Len(values))) = IF 1 <= Len(values) THEN Len(values) - 1 + 1 ELSE 0
        /\ \A i \in 1..(Len(values) - 1 + 1) : SubSeq(s, 1, Len(values))[i] = s[1 + i - 1]
    BY <1>1, <1>2, <2>1, SubSeqProperties
  <2> QED BY <1>1, <2>2
<1> HIDE DEF t
<1>5. \A i \in 1..Len(t) : t[i] = values[i]
  BY <1>3, <1>4
<1>6. t = values
  BY <1>4, <1>5, SeqEqual
<1> QED BY <1>6 DEF s, t

\* A write whose lengths agree with one another and with its data was not cut.
LEMMA LengthsAgree ==
    ASSUME NEW values \in Seq(BOOLEAN), NEW r,
           r.fc = "WriteMultipleCoils", r.quantity = Len(values) % QuantityModulus,
           r.data = encodeBools(values), WellFormed(r)
    PROVE  r.quantity = Len(values) /\ Len(values) <= Coils
<1>1. PICK n \in Nat : n = Len(values)
  BY LenProperties
<1>2. PICK m : m = n % QuantityModulus
  OBVIOUS
<1>3. QuantityModulus \in Nat /\ QuantityModulus >= 8
  BY ModbusAssumption
<1>4. m \in Nat /\ m <= n /\ (m # n => n >= QuantityModulus + m)
  <2>1. PICK q : q = n \div QuantityModulus
    OBVIOUS
  <2>2. n = QuantityModulus * q + m /\ m \in 0..(QuantityModulus - 1) /\ q \in Nat
    BY <1>2, <1>3, <2>1
  <2>3. q = 0 \/ QuantityModulus * q >= QuantityModulus
    <3>1. CASE q >= 1
      <4>1. QuantityModulus * (q - 1) \in Nat
        BY <1>3, <2>2, <3>1, ProductNat
      <4>2. QuantityModulus * q = QuantityModulus * (q - 1) + QuantityModulus
        BY <1>3, <2>2
      <4>3. PICK x, y : x = QuantityModulus * (q - 1) /\ y = QuantityModulus * q
        OBVIOUS
      <4> QED BY <4>1, <4>2, <4>3, <1>3
    <3> QED BY <2>2, <3>1
  <2>4. PICK y : y = QuantityModulus * q
    OBVIOUS
  <2>5. y \in Nat
    BY <1>3, <2>2, <2>4, ProductNat
  <2>6. q = 0 => y = 0
    BY <1>3, <2>4
  <2> QED BY <1>3, <2>2, <2>3, <2>4, <2>5, <2>6
<1>5. (m + 7) \div 8 = (n + 7) \div 8 /\ m <= Coils
  BY <1>1, <1>2, PackedSeq DEF WellFormed, ByteCount
<1>6. m = n
  BY <1>3, <1>4, <1>5
<1> QED BY <1>1, <1>2, <1>5, <1>6

\* A new connection carries no frame.
LEMMA NewConnectionInv ==
    ASSUME ModbusInv, NEW up, NewConnection(up)
    PROVE  ModbusInv'
<1>1. FrameTypes'
  <2>1. <<>> \in Seq(Request) /\ <<>> \in Seq(Response)
    BY EmptySeq
  <2> QED BY <2>1, ModbusAssumption DEF NewConnection, ModbusInv, FrameTypes, Request, Response
<1>2. CallOK'
  BY DEF NewConnection, CallOK
<1>3. RequestsAged' /\ ResponsesAged'
  <2>1. Len(<<>>) = 0
    BY EmptySeq
  <2> QED BY <2>1 DEF NewConnection, RequestsAged, ResponsesAged
<1> QED BY <1>1, <1>2, <1>3 DEF ModbusInv

\* A transaction more makes every frame one transaction older, and there is room for
\* that: a call is under way, or one more has been given up.
LEMMA GrowsOlder ==
    ASSUME ModbusInv, InStep, call = NoCall,
           txnID' = (txnID + 1) % TxnModulus, Slack' = abandoned + 1,
           UNCHANGED responses
    PROVE  /\ \A q \in 1..Len(requests) :
                 requests'[q] = requests[q] => AgedRequest(requests[q], Len(responses) + q)'
           /\ ResponsesAged'
<1>1. /\ abandoned \in Nat /\ abandoned < TxnModulus /\ TxnModulus \in Nat
      /\ Len(requests) \in Nat /\ Len(responses) \in Nat
  BY ModbusAssumption, LenProperties DEF ModbusInv, FrameTypes, InStep
<1>2. FrameTypes /\ Slack = abandoned
  BY DEF ModbusInv, Slack
<1>3. ASSUME NEW q \in 1..Len(requests), requests'[q] = requests[q]
      PROVE  AgedRequest(requests[q], Len(responses) + q)'
  <2>1. PICK a \in 0..(TxnModulus - 1) :
            a + (Len(responses) + q) <= Slack /\ requests[q].id = Ago(a)
    BY DEF ModbusInv, RequestsAged, AgedRequest
  <2>2. a + 1 \in 0..(TxnModulus - 1) /\ a + 1 < TxnModulus
        /\ (a + 1) + (Len(responses) + q) <= abandoned + 1 /\ a + 1 # 0
    BY <1>1, <1>2, <2>1
  <2>3. Ago(a) = Ago(a + 1)'
    BY <1>2, <2>2, AgoNext
  <2> QED BY <1>3, <2>1, <2>2, <2>3 DEF AgedRequest
<1>4. ASSUME NEW p \in 1..Len(responses) PROVE AgedResponse(responses[p], p)'
  <2>1. PICK a \in 0..(TxnModulus - 1) : a + p <= Slack /\ responses[p].id = Ago(a)
    BY DEF ModbusInv, ResponsesAged, AgedResponse
  <2>2. a + 1 \in 0..(TxnModulus - 1) /\ a + 1 < TxnModulus
        /\ (a + 1) + p <= abandoned + 1 /\ a + 1 # 0
    BY <1>1, <1>2, <2>1
  <2>3. Ago(a) = Ago(a + 1)'
    BY <1>2, <2>2, AgoNext
  <2> QED BY <2>1, <2>2, <2>3 DEF AgedResponse
<1>5. \A p \in 1..Len(responses) : Decodes(responses[p])'
  BY DEF ModbusInv, ResponsesAged, Decodes
<1> QED BY <1>3, <1>4, <1>5 DEF ResponsesAged

\* A call that is sent puts its frame behind those that are left.
LEMMA SentInv ==
    ASSUME ModbusInv, call = NoCall,
           NEW fc \in Function, NEW values \in Seq(BOOLEAN),
           calls' = calls + 1, txnID' = (txnID + 1) % TxnModulus,
           requests' = Append(requests, Frame(txnID', fc, calls', values)),
           call' = [pc |-> "reading", id |-> txnID', fc |-> fc, request |-> calls', values |-> values],
           UNCHANGED <<responses, abandoned, torn, coils>>
    PROVE  ModbusInv'
<1> DEFINE f == Frame(txnID', fc, calls', values)
<1>0. PICK n : n = Len(requests)
  OBVIOUS
<1>1. /\ abandoned \in Nat /\ TxnModulus \in Nat \ {0} /\ Coils \in Nat
      /\ n \in Nat /\ Len(responses) \in Nat /\ Len(values) \in Nat
  BY <1>0, ModbusAssumption, LenProperties DEF ModbusInv, FrameTypes
<1>2. txnID' \in 0..(TxnModulus - 1) /\ calls' \in Nat
  BY <1>1 DEF ModbusInv, FrameTypes
<1>3. f \in Request
  <2>1. encodeBools(values) \in Seq(Int) /\ Len(encodeBools(values)) \in Nat
    BY PackedSeq, LenProperties
  <2>2. Len(values) % QuantityModulus \in Nat
    BY <1>1, ModbusAssumption
  <2>3. Len(encodeBools(values)) % CountModulus \in Nat
    BY <2>1, ModbusAssumption
  <2> QED BY <1>1, <1>2, <2>1, <2>2, <2>3 DEF Request, Frame
<1>4. /\ requests \in Seq(Request) /\ requests' \in Seq(Request) /\ Len(requests') = n + 1
      /\ \A i \in 1..n : requests'[i] = requests[i]
      /\ requests'[n + 1] = f
  <2>1. requests \in Seq(Request)
    BY DEF ModbusInv, FrameTypes
  <2> HIDE DEF f
  <2>2. requests' = Append(requests, f)
    BY DEF f
  <2> QED BY <1>0, <1>3, <2>1, <2>2, AppendProperties
<1>5. call' # NoCall /\ Slack' = abandoned + 1
  <2>1. call'.pc = "reading" /\ NoCall.pc = "idle"
    BY DEF NoCall
  <2>2. call' # NoCall
    BY <2>1
  <2> QED BY <2>2 DEF Slack, NoCall
<1>6. FrameTypes'
  BY <1>2, <1>4 DEF ModbusInv, FrameTypes, Request, Response
<1>7. CallOK'
  BY <1>2, <1>5 DEF CallOK
<1>8. ASSUME InStep
      PROVE  /\ \A q \in 1..n : AgedRequest(requests[q], Len(responses) + q)'
             /\ ResponsesAged'
  BY <1>0, <1>4, <1>5, <1>8, GrowsOlder
<1>9. ASSUME InStep
      PROVE  AgedRequest(requests[n + 1], Len(responses) + (n + 1))'
  <2>1. 0 + (Len(responses) + (n + 1)) <= Slack'
    BY <1>0, <1>1, <1>5, <1>9, FewFrames
  <2>2. f.id = Ago(0)'
    BY <1>1, <1>2 DEF Ago, Frame
  <2>3. OwnRequest(requests[n + 1])'
    BY <1>4 DEF OwnRequest, Frame
  <2>4. 0 \in 0..(TxnModulus - 1)
    BY <1>1
  <2>5. requests'[n + 1].id = Ago(0)'
    BY <1>4, <2>2
  <2> HIDE DEF f
  <2> QED BY <2>1, <2>3, <2>4, <2>5 DEF AgedRequest
<1>10. InStep' => RequestsAged' /\ ResponsesAged'
  <2> SUFFICES ASSUME InStep PROVE RequestsAged' /\ ResponsesAged'
    BY DEF InStep
  <2> SUFFICES ASSUME NEW q \in 1..Len(requests') PROVE AgedRequest(requests[q], Len(responses) + q)'
    BY <1>8 DEF RequestsAged
  <2>1. q \in 1..n \/ q = n + 1
    BY <1>1, <1>4
  <2> QED BY <1>8, <1>9, <2>1
<1> QED BY <1>6, <1>7, <1>10 DEF ModbusInv

\* A call that cannot be written is given up.
LEMMA UnsentInv ==
    ASSUME ModbusInv, call = NoCall,
           calls' = calls + 1, txnID' = (txnID + 1) % TxnModulus, abandoned' = abandoned + 1,
           UNCHANGED <<call, requests, responses, torn, coils>>
    PROVE  ModbusInv'
<1>1. Slack' = abandoned + 1
  BY DEF Slack, NoCall
<1>2. FrameTypes'
  BY ModbusAssumption DEF ModbusInv, FrameTypes, Request, Response
<1>3. CallOK'
  BY DEF CallOK
<1>4. InStep' => InStep
  BY ModbusAssumption DEF InStep, ModbusInv, FrameTypes
<1>5. InStep' => RequestsAged' /\ ResponsesAged'
  BY <1>1, <1>4, GrowsOlder DEF RequestsAged
<1> QED BY <1>2, <1>3, <1>5 DEF ModbusInv

\* sendRequest up to the write, in each of its three outcomes.
LEMMA BeginCallInv ==
    ASSUME ModbusInv, NEW fc \in Function, NEW values \in Seq(BOOLEAN),
           BeginCall(fc, values)
    PROVE  ModbusInv'
<1>1. CASE ~connected
  <2>1. /\ call' = call /\ txnID' = txnID /\ requests' = requests /\ responses' = responses
        /\ abandoned' = abandoned /\ torn' = torn /\ coils' = coils /\ calls' = calls + 1
    BY <1>1 DEF BeginCall
  <2>2. FrameTypes'
    BY <2>1 DEF ModbusInv, FrameTypes, Request, Response
  <2> QED BY <2>1, <2>2 DEF ModbusInv, CallOK, RequestsAged, ResponsesAged, AgedRequest, AgedResponse,
            Slack, Ago, OwnRequest, OwnResponse, Decodes, NoCall, InStep
<1>2. CASE connected
  <2>1. CASE abandoned' = abandoned + 1 /\ UNCHANGED <<call, requests>>
    BY <1>2, <2>1, UnsentInv DEF BeginCall
  <2>2. CASE /\ requests' = Append(requests, Frame(txnID', fc, calls', values))
             /\ call' = [pc |-> "reading", id |-> txnID', fc |-> fc, request |-> calls',
                         values |-> values]
             /\ UNCHANGED <<result, abandoned>>
    BY <1>2, <2>2, SentInv DEF BeginCall
  <2> QED BY <1>2, <2>1, <2>2 DEF BeginCall
<1> QED BY <1>1, <1>2 DEF BeginCall

\* The client takes the oldest frame and the call is over: every other frame moves up
\* one place.
LEMMA ReadResponseInv ==
    ASSUME ModbusInv, ReadResponse
    PROVE  ModbusInv' /\ ResponseBelongs'
<1> DEFINE r == Head(responses)
<1>1. /\ abandoned \in Nat /\ TxnModulus \in Nat
      /\ responses \in Seq(Response) /\ responses # <<>> /\ responses' = Tail(responses)
      /\ UNCHANGED <<txnID, calls, requests, abandoned, torn, coils>>
      /\ call.pc = "reading" /\ call' = NoCall
  BY ModbusAssumption DEF ModbusInv, FrameTypes, ReadResponse
<1>2. call # NoCall
  BY <1>1 DEF NoCall
<1>3. Slack = abandoned + 1 /\ Slack' = abandoned
  BY <1>1, <1>2 DEF Slack, NoCall
<1>4. /\ r \in Response /\ r = responses[1]
      /\ Len(responses) \in Nat \ {0}
      /\ responses' \in Seq(Response) /\ Len(responses') = Len(responses) - 1
      /\ \A i \in 1..Len(responses') : responses'[i] = responses[i + 1]
  <2>1. Len(responses) \in Nat \ {0}
    BY <1>1, EmptySeq
  <2> QED BY <1>1, <2>1, HeadTailProperties
<1>5. FrameTypes'
  BY <1>1, <1>4 DEF ModbusInv, FrameTypes, Request, Response
<1>6. CallOK'
  BY <1>1 DEF CallOK, NoCall
<1>7. InStep' => RequestsAged'
  <2> SUFFICES ASSUME InStep, NEW q \in 1..Len(requests) PROVE AgedRequest(requests[q], Len(responses) + q)'
    BY <1>1 DEF RequestsAged, InStep
  <2>1. PICK a \in 0..(TxnModulus - 1) :
            a + (Len(responses) + q) <= Slack /\ requests[q].id = Ago(a)
    BY DEF ModbusInv, RequestsAged, AgedRequest
  <2>2. Len(requests) \in Nat
    BY LenProperties DEF ModbusInv, FrameTypes
  <2>3. a + (Len(responses') + q) <= abandoned
    BY <1>1, <1>3, <1>4, <2>1, <2>2
  <2> QED BY <1>1, <1>3, <2>1, <2>3 DEF AgedRequest, Ago
<1>8. InStep' => ResponsesAged'
  <2> SUFFICES ASSUME InStep, NEW p \in 1..Len(responses') PROVE (AgedResponse(responses[p], p) /\ Decodes(responses[p]))'
    BY <1>1 DEF ResponsesAged, InStep
  <2>1. p + 1 \in 1..Len(responses) /\ responses'[p] = responses[p + 1]
    BY <1>4
  <2>2. PICK a \in 0..(TxnModulus - 1) : a + (p + 1) <= Slack /\ responses[p + 1].id = Ago(a)
    BY <2>1 DEF ModbusInv, ResponsesAged, AgedResponse
  <2>3. a + p <= abandoned
    BY <1>1, <1>3, <1>4, <2>2
  <2>4. AgedResponse(responses[p], p)'
    BY <1>1, <1>3, <2>1, <2>2, <2>3 DEF AgedResponse, Ago
  <2>5. Decodes(responses[p])'
    BY <2>1 DEF ModbusInv, ResponsesAged, Decodes
  <2> QED BY <2>4, <2>5
<1>9. ResponseBelongs'
  <2>1. CASE result' = Failed
    BY <2>1 DEF ResponseBelongs, Failed
  <2>2. CASE r.id = call.id /\ r.fc = call.fc /\ ~r.exception /\ InStep
    <3>1. call.id = txnID /\ r.fc \in Function
      BY <1>2, <1>4 DEF ModbusInv, CallOK, Response
    <3>2. AgedResponse(r, 1) /\ Decodes(r)
      BY <1>4, <2>2 DEF ModbusInv, ResponsesAged
    <3>3. PICK a \in 0..(TxnModulus - 1) : r.id = Ago(a) /\ (a = 0 => OwnResponse(r))
      BY <1>2, <3>2 DEF AgedResponse
    <3>4. OwnResponse(r)
      BY <2>2, <3>1, <3>3, AgoZero DEF ModbusInv
    <3>5. result' = [ok |-> TRUE, inStep |-> InStep, request |-> r.request, of |-> call.request, coils |-> r.coils,
                     values |-> IF r.fc = "ReadCoils" THEN decodeBools(r.data, Coils) ELSE call.values]
      BY <2>2 DEF ReadResponse, ResultOf
    <3> QED BY <2>2, <3>1, <3>2, <3>4, <3>5 DEF ResponseBelongs, OwnResponse, Decodes, Function
  <2>3. CASE ~InStep /\ result' # Failed
    <3>1. result'.inStep = InStep
      BY <2>3 DEF ReadResponse, ResultOf
    <3> QED BY <2>3, <3>1 DEF ResponseBelongs
  <2> QED BY <2>1, <2>2, <2>3 DEF ReadResponse, ResultOf
<1> QED BY <1>5, <1>6, <1>7, <1>8, <1>9 DEF ModbusInv

\* What a call on a torn connection reads is not in step.
LEMMA ReadTornInv ==
    ASSUME ModbusInv, ReadTorn
    PROVE  ModbusInv' /\ ResponseBelongs'
<1>1. /\ UNCHANGED <<txnID, calls, requests, responses, abandoned, torn, coils>>
      /\ torn /\ call' = NoCall /\ result' \in {Failed, Garbled}
  BY DEF ReadTorn
<1>2. FrameTypes'
  BY <1>1 DEF ModbusInv, FrameTypes, Request, Response
<1>3. CallOK' /\ ~InStep'
  BY <1>1 DEF CallOK, NoCall, InStep
<1>4. ResponseBelongs'
  BY <1>1 DEF ResponseBelongs, Failed, Garbled
<1> QED BY <1>2, <1>3, <1>4 DEF ModbusInv

\* A call that is given up leaves as much room as it took, or the connection torn.
LEMMA ReadFailsInv ==
    ASSUME ModbusInv, ReadFails
    PROVE  ModbusInv'
<1>1. call # NoCall /\ call' = NoCall
  BY DEF ReadFails, NoCall
<1>2. /\ abandoned \in Nat /\ abandoned' = abandoned + 1 /\ TxnModulus \in Nat
      /\ UNCHANGED <<txnID, calls, requests, coils>>
  BY ModbusAssumption DEF ModbusInv, FrameTypes, ReadFails
<1>3. Slack' = Slack
  BY <1>1, <1>2 DEF Slack, NoCall
<1>4. responses' \in Seq(Response) /\ torn' \in BOOLEAN
  <2>1. responses \in Seq(Response) /\ torn \in BOOLEAN
    BY DEF ModbusInv, FrameTypes
  <2>2. CASE UNCHANGED <<responses, torn>>
    BY <2>1, <2>2
  <2>3. CASE responses # <<>> /\ responses' = Tail(responses) /\ torn' = TRUE
    BY <2>1, <2>3, HeadTailProperties
  <2> QED BY <2>2, <2>3 DEF ReadFails
<1>5. FrameTypes'
  BY <1>2, <1>4 DEF ModbusInv, FrameTypes
<1>6. CallOK'
  BY <1>1 DEF CallOK, NoCall
<1>7. InStep' => InStep /\ responses' = responses
  BY <1>2 DEF InStep, ReadFails
<1>8. InStep' => RequestsAged'
  <2> SUFFICES ASSUME InStep, responses' = responses, NEW q \in 1..Len(requests)
               PROVE  AgedRequest(requests[q], Len(responses) + q)'
    BY <1>2, <1>7 DEF RequestsAged
  <2>1. PICK a \in 0..(TxnModulus - 1) :
            a + (Len(responses) + q) <= Slack /\ requests[q].id = Ago(a)
    BY DEF ModbusInv, RequestsAged, AgedRequest
  <2>2. Ago(a)' = Ago(a)
    BY <1>2 DEF Ago
  <2> QED BY <1>1, <1>2, <1>3, <2>1, <2>2 DEF AgedRequest, NoCall
<1>9. InStep' => ResponsesAged'
  <2> SUFFICES ASSUME InStep, responses' = responses, NEW p \in 1..Len(responses)
               PROVE  (AgedResponse(responses[p], p) /\ Decodes(responses[p]))'
    BY <1>7 DEF ResponsesAged
  <2>1. PICK a \in 0..(TxnModulus - 1) : a + p <= Slack /\ responses[p].id = Ago(a)
    BY DEF ModbusInv, ResponsesAged, AgedResponse
  <2>2. Ago(a)' = Ago(a)
    BY <1>2 DEF Ago
  <2>3. AgedResponse(responses[p], p)'
    BY <1>1, <1>2, <1>3, <2>1, <2>2 DEF AgedResponse, NoCall
  <2>4. Decodes(responses[p])'
    BY DEF ModbusInv, ResponsesAged, Decodes
  <2> QED BY <2>3, <2>4
<1> QED BY <1>5, <1>6, <1>8, <1>9 DEF ModbusInv

\* The device takes the oldest request.  Without an answer the requests behind it move up.
LEMMA RequestTaken ==
    ASSUME ModbusInv, requests # <<>>, requests' = Tail(requests),
           UNCHANGED <<txnID, call, abandoned, torn>>,
           Len(responses') \in Nat, Len(responses') <= Len(responses) + 1
    PROVE  requests' \in Seq(Request) /\ (InStep' => RequestsAged')
<1>1. /\ Len(responses) \in Nat /\ Len(requests) \in Nat \ {0}
      /\ requests' \in Seq(Request) /\ Len(requests') = Len(requests) - 1
      /\ \A i \in 1..Len(requests') : requests'[i] = requests[i + 1]
  BY EmptySeq, LenProperties, HeadTailProperties DEF ModbusInv, FrameTypes
<1>2. abandoned \in Nat /\ TxnModulus \in Nat
  BY ModbusAssumption DEF ModbusInv, FrameTypes
<1>3. Slack' = Slack /\ Slack \in Nat
  BY <1>2 DEF Slack, NoCall
<1>4. ASSUME InStep, NEW q \in 1..Len(requests')
      PROVE  AgedRequest(requests[q], Len(responses) + q)'
  <2>1. q + 1 \in 1..Len(requests) /\ requests'[q] = requests[q + 1]
    BY <1>1
  <2>2. PICK a \in 0..(TxnModulus - 1) :
            /\ a + (Len(responses) + (q + 1)) <= Slack /\ requests[q + 1].id = Ago(a)
            /\ (a = 0 /\ call # NoCall => OwnRequest(requests[q + 1]))
    BY <1>4, <2>1 DEF ModbusInv, RequestsAged, AgedRequest
  <2>3. a + (Len(responses') + q) <= Slack'
    BY <1>1, <1>2, <1>3, <2>2
  <2>4. requests'[q].id = Ago(a)'
    BY <2>1, <2>2 DEF Ago
  <2>5. (a = 0 /\ call # NoCall => OwnRequest(requests[q]))'
    BY <2>1, <2>2 DEF OwnRequest, NoCall
  <2> QED BY <2>3, <2>4, <2>5 DEF AgedRequest
<1> QED BY <1>1, <1>4 DEF RequestsAged, InStep

\* The device does not answer.
LEMMA DeviceIgnoresInv ==
    ASSUME ModbusInv, DeviceIgnores
    PROVE  ModbusInv'
<1>1. /\ requests # <<>> /\ requests' = Tail(requests)
      /\ UNCHANGED <<txnID, call, calls, responses, abandoned, torn, coils>>
  BY DEF DeviceIgnores
<1>2. Len(responses) \in Nat
  BY LenProperties DEF ModbusInv, FrameTypes
<1>3. requests' \in Seq(Request) /\ (InStep' => RequestsAged')
  BY <1>1, <1>2, RequestTaken
<1>4. FrameTypes'
  BY <1>1, <1>3 DEF ModbusInv, FrameTypes, Request, Response
<1>5. CallOK'
  BY <1>1 DEF ModbusInv, CallOK, NoCall
<1>6. InStep' => ResponsesAged'
  BY <1>1 DEF ModbusInv, ResponsesAged, AgedResponse, Decodes, Slack, Ago, OwnResponse, NoCall, InStep
<1> QED BY <1>3, <1>4, <1>5, <1>6 DEF ModbusInv

\* An answer takes the place its request had, and is the call's own if the request was.
LEMMA DeviceAnswersInv ==
    ASSUME ModbusInv, NEW exception \in BOOLEAN, DeviceAnswers(exception)
    PROVE  ModbusInv'
<1>0. PICK r : r = Head(requests)
  OBVIOUS
<1>0a. PICK n : n = Len(responses)
  OBVIOUS
<1> DEFINE f == [id |-> r.id, fc |-> r.fc, request |-> r.request, exception |-> exception,
                 coils |-> IF exception THEN <<>>
                           ELSE IF r.fc = "ReadCoils" THEN coils' ELSE SubSeq(coils', 1, r.quantity),
                 data |-> IF r.fc = "ReadCoils" THEN Pack(coils') ELSE <<>>]
<1>1. /\ requests # <<>> /\ requests' = Tail(requests)
      /\ coils' = IF exception THEN coils ELSE Stored(r)
      /\ responses' = Append(responses, f)
      /\ exception \/ WellFormed(r)
      /\ UNCHANGED <<txnID, call, calls, abandoned, torn>>
  BY <1>0 DEF DeviceAnswers
<1>2. /\ Coils \in Nat /\ abandoned \in Nat /\ TxnModulus \in Nat /\ n \in Nat
      /\ requests \in Seq(Request) /\ responses \in Seq(Response)
      /\ Len(requests) \in Nat \ {0}
  BY <1>0a, <1>1, ModbusAssumption, LenProperties, EmptySeq DEF ModbusInv, FrameTypes
<1>3. r \in Request /\ r = requests[1]
  BY <1>0, <1>1, <1>2, HeadTailProperties
<1>4. coils' \in [1..Coils -> BOOLEAN] /\ coils' \in Seq(BOOLEAN) /\ Len(coils') = Coils
  <2>1. coils \in [1..Coils -> BOOLEAN] /\ Stored(r) \in [1..Coils -> BOOLEAN]
    BY StoredCoils DEF ModbusInv, FrameTypes
  <2>2. coils' \in [1..Coils -> BOOLEAN]
    BY <1>1, <2>1
  <2> QED BY <1>2, <2>2, FunctionSeq
<1>5. f \in Response
  <2>1. Pack(coils') \in Seq(Int)
    BY <1>4, PackedSeq
  <2>2. <<>> \in Seq(Int)
    BY EmptySeq
  <2>3. ASSUME ~exception, r.fc = "WriteMultipleCoils"
        PROVE  SubSeq(coils', 1, r.quantity) \in Seq(BOOLEAN)
    <3>1. r.quantity \in 0..Coils
      <4>1. WellFormed(r)
        BY <1>1, <2>3, Zenon
      <4>2. r.quantity <= Coils /\ r.quantity \in Nat
        BY <4>1, <1>3, <2>3 DEF WellFormed, Request
      <4> QED BY <4>2, <1>2
    <3>2. \A i \in 1..r.quantity : coils'[i] \in BOOLEAN
      BY <1>2, <1>4, <3>1
    <3> QED BY <1>2, <3>1, <3>2, SubSeqProperties
  <2>4. r.id \in Nat /\ r.fc \in Function /\ r.request \in Nat
    BY <1>3 DEF Request
  <2>5. <<>> \in Seq(BOOLEAN)
    BY EmptySeq
  <2>6. f.coils \in Seq(BOOLEAN)
    BY <1>4, <2>3, <2>4, <2>5 DEF Function
  <2> QED BY <2>1, <2>2, <2>4, <2>6 DEF Response
<1>6. /\ responses' \in Seq(Response) /\ Len(responses') = n + 1
      /\ \A i \in 1..n : responses'[i] = responses[i]
      /\ responses'[n + 1] = f
  <2> HIDE DEF f
  <2> QED BY <1>0a, <1>1, <1>2, <1>5, AppendProperties
<1>7. requests' \in Seq(Request) /\ (InStep' => RequestsAged')
  BY <1>0a, <1>1, <1>2, <1>6, RequestTaken
<1>8. FrameTypes'
  BY <1>1, <1>4, <1>6, <1>7 DEF ModbusInv, FrameTypes
<1>9. CallOK'
  BY <1>1 DEF ModbusInv, CallOK, NoCall
<1>10. Slack' = Slack /\ (\A a : Ago(a)' = Ago(a)) /\ (InStep' <=> InStep)
  BY <1>1 DEF Slack, Ago, NoCall, InStep
<1>11. ASSUME InStep, NEW p \in 1..n PROVE (AgedResponse(responses[p], p) /\ Decodes(responses[p]))'
  <2>1. responses'[p] = responses[p]
    BY <1>6
  <2>2. AgedResponse(responses[p], p) /\ Decodes(responses[p])
    BY <1>0a, <1>11 DEF ModbusInv, ResponsesAged
  <2>3. UNCHANGED <<txnID, call, abandoned>>
    BY <1>1
  <2> HIDE DEF f
  <2>4. AgedResponse(responses[p], p)'
    BY <2>1, <2>2, <2>3 DEF AgedResponse, Slack, Ago, OwnResponse, NoCall
  <2>5. Decodes(responses[p])'
    BY <2>1, <2>2 DEF Decodes
  <2> QED BY <2>4, <2>5
<1>12. Decodes(responses[n + 1])'
  <2>1. decodeBools(Pack(coils'), Coils) = coils'
    BY <1>4, DecodePacked
  <2>2. Decodes(f)
    BY <2>1 DEF Decodes
  <2> HIDE DEF f
  <2> QED BY <1>6, <2>2 DEF Decodes
<1>13. ASSUME InStep PROVE AgedResponse(responses[n + 1], n + 1)'
  <2>1. PICK a \in 0..(TxnModulus - 1) :
            /\ a + (n + 1) <= Slack /\ r.id = Ago(a)
            /\ (a = 0 /\ call # NoCall => OwnRequest(r))
    BY <1>0a, <1>2, <1>3, <1>13 DEF ModbusInv, RequestsAged, AgedRequest
  <2>2. a + (n + 1) <= Slack'
    BY <1>10, <2>1
  <2>3. responses'[n + 1].id = Ago(a)'
    BY <1>6, <1>10, <2>1
  <2>4. ASSUME a = 0, call # NoCall PROVE OwnResponse(f)
    <3>1. OwnRequest(r)
      BY <2>1, <2>4
    <3>2. ASSUME r.fc = "WriteMultipleCoils", ~exception
          PROVE  f.coils = call.values
      <4>1. /\ r.quantity = Len(call.values) % QuantityModulus
            /\ r.data = encodeBools(call.values)
        BY <3>1, <3>2 DEF OwnRequest
      <4>2. /\ call.values \in Seq(BOOLEAN) /\ Len(call.values) <= Coils
            /\ r.quantity = Len(call.values)
        <5>1. call.values \in Seq(BOOLEAN)
          BY <2>4 DEF ModbusInv, CallOK
        <5> QED BY <5>1, <4>1, <3>2, <1>1, LengthsAgree
      <4>3. SubSeq(Stored(r), 1, r.quantity) = call.values
        BY <3>2, <4>1, <4>2, StoredEncoded DEF ModbusInv
      <4>4. f.coils = SubSeq(coils', 1, r.quantity) /\ coils' = Stored(r)
        BY <1>1, <3>2
      <4> QED BY <4>3, <4>4
    <3> QED BY <3>1, <3>2 DEF OwnResponse, OwnRequest
  <2>5. (a = 0 /\ call # NoCall => OwnResponse(responses[n + 1]))'
    <3> HIDE DEF f
    <3> QED BY <1>1, <1>6, <2>4 DEF OwnResponse, NoCall
  <2> HIDE DEF f
  <2> QED BY <2>2, <2>3, <2>5 DEF AgedResponse
<1>14. InStep' => ResponsesAged'
  <2> SUFFICES ASSUME InStep, NEW p \in 1..Len(responses')
               PROVE  (AgedResponse(responses[p], p) /\ Decodes(responses[p]))'
    BY <1>10 DEF ResponsesAged
  <2>1. p \in 1..n \/ p = n + 1
    BY <1>2, <1>6
  <2> QED BY <1>11, <1>12, <1>13, <2>1
<1> QED BY <1>7, <1>8, <1>9, <1>14 DEF ModbusInv

\* Every step of the client and of the device keeps the invariant.
LEMMA ModbusStep ==
    ASSUME ModbusInv /\ ResponseBelongs, [ModbusNext]_modbusVars
    PROVE  (ModbusInv /\ ResponseBelongs)'
<1>1. ASSUME NEW up, NewConnection(up) PROVE (ModbusInv /\ ResponseBelongs)'
  BY <1>1, NewConnectionInv DEF NewConnection, ResponseBelongs
<1>2. ASSUME NEW fc \in Function, NEW values \in Seq(BOOLEAN),
             BeginCall(fc, values)
      PROVE  (ModbusInv /\ ResponseBelongs)'
  <2>1. ModbusInv'
    BY <1>2, BeginCallInv
  <2>2. result' = result \/ result' = Failed
    BY <1>2 DEF BeginCall
  <2> QED BY <2>1, <2>2 DEF ResponseBelongs, Failed
<1>3. CASE ReadCoils
  <2>1. <<>> \in Seq(BOOLEAN)
    BY EmptySeq
  <2> QED BY <1>2, <1>3, <2>1 DEF ReadCoils, Function
<1>4. ASSUME NEW values \in CoilLists, WriteMultipleCoils(values) PROVE (ModbusInv /\ ResponseBelongs)'
  BY <1>2, <1>4, ModbusAssumption DEF WriteMultipleCoils, Function
<1>5. CASE ReadResponse
  BY <1>5, ReadResponseInv
<1>5a. CASE ReadTorn
  BY <1>5a, ReadTornInv
<1>6. CASE ReadFails
  BY <1>6, ReadFailsInv DEF ReadFails, ResponseBelongs, Failed
<1>7. ASSUME NEW exception \in BOOLEAN, DeviceAnswers(exception) PROVE (ModbusInv /\ ResponseBelongs)'
  BY <1>7, DeviceAnswersInv DEF DeviceAnswers, ResponseBelongs
<1>8. CASE DeviceIgnores
  BY <1>8, DeviceIgnoresInv DEF DeviceIgnores, ResponseBelongs
<1>9. CASE UNCHANGED modbusVars
  BY <1>9 DEF modbusVars, ModbusInv, FrameTypes, CallOK, RequestsAged, ResponsesAged, AgedRequest,
       AgedResponse, Slack, Ago, OwnRequest, OwnResponse, Decodes, NoCall, ResponseBelongs,
       Request, Response, InStep
<1> QED BY <1>1, <1>3, <1>4, <1>5, <1>5a, <1>6, <1>7, <1>8, <1>9 DEF ModbusNext, Connect, Close

\* For any widths of the transaction ID and the byte count and a quantity of at least
\* eight values, any number of calls and coils and any lists of values: a call that
\* succeeds on a connection in step got the device's answer to that very call, and the
\* values it read or wrote are the coils the device had then.  A connection is in step
\* while no deadline fell inside a response and fewer calls were given up than there are
\* transaction IDs (sendRequest, readResponse, WriteMultipleCoils, encodeBools,
\* decodeBools).
THEOREM AnswersBelong == ModbusSpec => []ResponseBelongs
<1>1. ModbusInit => ModbusInv /\ ResponseBelongs
  <2> SUFFICES ASSUME ModbusInit PROVE ModbusInv /\ ResponseBelongs
    OBVIOUS
  <2>1. /\ <<>> \in Seq(Request) /\ <<>> \in Seq(Response) /\ Len(<<>>) = 0
    BY EmptySeq
  <2>2. FrameTypes
    <3>1. torn \in BOOLEAN
      BY Zenon DEF ModbusInit
    <3>2. coils \in [1..Coils -> BOOLEAN] /\ txnID \in 0..(TxnModulus - 1)
      BY ModbusAssumption DEF ModbusInit
    <3> QED BY <2>1, <3>1, <3>2 DEF ModbusInit, FrameTypes
  <2>3. CallOK /\ RequestsAged /\ ResponsesAged
    BY <2>1 DEF ModbusInit, CallOK, RequestsAged, ResponsesAged
  <2> QED BY <2>2, <2>3 DEF ModbusInit, ModbusInv, ResponseBelongs, Failed
<1>2. (ModbusInv /\ ResponseBelongs) /\ [ModbusNext]_modbusVars => (ModbusInv /\ ResponseBelongs)'
  BY ModbusStep
<1> QED BY <1>1, <1>2, PTL DEF ModbusSpec
=============================================================================
