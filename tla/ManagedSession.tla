--------------------------- MODULE ManagedSession ---------------------------
(***************************************************************************)
(* Automatic reconnection: pkg/session/reconnect.go.                       *)
(*                                                                         *)
(* A ManagedSession holds at most one hsms.Session.  Start, connect,       *)
(* monitorLoop and reconnectLoop hand over to one another, so they are one *)
(* logical goroutine, the worker; calls of Stop and the end of a session   *)
(* (its Done channel) happen at any time beside it.                        *)
(*                                                                         *)
(* A session is a token.  It is "none" when it does not exist, "up" from a *)
(* successful Connect to the end of Close, then "done".  What happens      *)
(* inside is the subject of HsmsSession; tokens that nothing refers to any *)
(* more are used again by the next NewSession.                             *)
(***************************************************************************)
EXTENDS Naturals, FiniteSets

CONSTANTS
    Roles,          \* the roles a behaviour may have, {"Active", "Passive"}
    RetryLimits,    \* the values of MaxRetries a behaviour may have, 0 = unlimited
    Token,          \* hsms.Session values
    Stoppers,       \* goroutines that call Stop, once each
    InitialDelay, MaxDelay,   \* ReconnectConfig, in units of time
    Numerator, Denominator,   \* ReconnectConfig.Multiplier, a float64, as a fraction
    NoSession

ASSUME ReconnectAssumption ==
    /\ Roles \subseteq {"Active", "Passive"}
    /\ RetryLimits \subseteq Nat
    /\ InitialDelay \in Nat /\ MaxDelay \in Nat
    /\ Numerator \in Nat /\ Denominator \in Nat \ {0}
    /\ NoSession \notin Token

VARIABLES
    role,           \* config.Role
    maxRetries,     \* reconnCfg.MaxRetries
    session,        \* ms.session
    status,         \* of each token
    cancelSet,      \* ms.cancel # nil
    cancelled,      \* the run context is cancelled
    done,           \* how often ms.done has been closed (twice panics)
    worker,         \* where the worker is
    initial,        \* the connect under way is the one of Start
    local,          \* the session connect or monitorLoop has in hand
    attempt, delay, \* of reconnectLoop
    stop,           \* where each call of Stop is
    taken,          \* the session a call of Stop has taken
    called          \* the last callback: "none", "onConnect", "onDisconnect"

config == <<role, maxRetries>>
ctx  == <<cancelSet, cancelled>>
loop == <<initial, attempt, delay>>
stops == <<stop, taken>>
vars == <<config, session, status, ctx, done, worker, loop, local, stops, called>>

WorkerPc == {"idle", "connect", "select", "install", "callback", "monitor", "watch",
             "lost", "top", "wait", "exit"}
StopPc == {"idle", "take", "close", "closeDone", "returned"}

\* Types; and the session is not nil where connect, monitorLoop and Stop use it.
TypeOK ==
    /\ role \in Roles /\ maxRetries \in RetryLimits
    /\ session \in Token \cup {NoSession}
    /\ status \in [Token -> {"none", "up", "done"}]
    /\ cancelSet \in BOOLEAN /\ cancelled \in BOOLEAN
    /\ done \in Nat
    /\ worker \in WorkerPc
    /\ initial \in BOOLEAN
    /\ local \in Token \cup {NoSession}
    /\ worker \in {"select", "install", "callback", "watch"} => local \in Token
    /\ attempt \in Nat /\ delay \in Nat
    /\ stop \in [Stoppers -> StopPc]
    /\ taken \in [Stoppers -> Token \cup {NoSession}]
    /\ \A s \in Stoppers : stop[s] = "close" => taken[s] \in Token
    /\ called \in {"none", "onConnect", "onDisconnect"}

\* NewManagedSession
Init ==
    /\ role \in Roles /\ maxRetries \in RetryLimits
    /\ session = NoSession
    /\ status = [t \in Token |-> "none"]
    /\ cancelSet = FALSE /\ cancelled = FALSE
    /\ done = 0
    /\ worker = "idle"
    /\ initial = FALSE
    /\ local = NoSession
    /\ attempt = 0 /\ delay = InitialDelay
    /\ stop = [s \in Stoppers |-> "idle"]
    /\ taken = [s \in Stoppers |-> NoSession]
    /\ called = "none"

-----------------------------------------------------------------------------
(* The worker. *)

\* Start: a fresh run context, then connect.
Start ==
    /\ worker = "idle"
    /\ worker' = "connect"
    /\ initial' = TRUE
    /\ cancelSet' = TRUE
    /\ UNCHANGED <<config, session, status, cancelled, done, local, attempt, delay, stops, called>>

\* reconnectLoop begins: its delay and its count are local variables.
EnterReconnect ==
    /\ worker' = "top"
    /\ initial' = FALSE
    /\ attempt' = 0
    /\ delay' = InitialDelay

\* StartBackground: go reconnectLoop.
StartBackground ==
    /\ worker = "idle"
    /\ cancelSet' = TRUE
    /\ EnterReconnect
    /\ UNCHANGED <<config, session, status, cancelled, done, local, stops, called>>

\* NewSession and Connect succeed.  A dial needs a live context; a passive
\* session only listens.
Fresh(t) == status[t] # "up" /\ t # session /\ t # local /\ \A s \in Stoppers : t # taken[s]
ConnectOk(t) ==
    /\ worker = "connect"
    /\ role = "Active" => ~cancelled
    /\ Fresh(t)
    /\ status' = [status EXCEPT ![t] = "up"]
    /\ local' = t
    /\ worker' = IF role = "Active" THEN "select" ELSE "install"
    /\ UNCHANGED <<config, session, ctx, done, loop, stops, called>>

\* time.Duration(float64(delay) * Multiplier): the fraction is cut off.  Products
\* of more than 2^53 units, where float64 rounds, are left out.
Raised(d) == (d * Numerator) \div Denominator

\* Mutant: the delay is multiplied without the cap.
ConnectFailedUncapped ==
    IF initial
    THEN EnterReconnect
    ELSE /\ worker' = "top"
         /\ delay' = Raised(delay)
         /\ UNCHANGED <<initial, attempt>>

\* connect returns an error.  Start goes on in reconnectLoop, reconnectLoop
\* raises its delay and tries again.
ConnectFailed ==
    IF initial
    THEN EnterReconnect
    ELSE /\ worker' = "top"
         /\ delay' = IF Raised(delay) > MaxDelay THEN MaxDelay ELSE Raised(delay)
         /\ UNCHANGED <<initial, attempt>>

ConnectFails ==
    /\ worker = "connect"
    /\ ConnectFailed
    /\ UNCHANGED <<config, session, status, ctx, done, local, stops, called>>

SelectOk ==
    /\ worker = "select"
    /\ worker' = "install"
    /\ UNCHANGED <<config, session, status, ctx, done, loop, local, stops, called>>

\* Mutant: connect returns the error of Select and leaves the session open.
SelectFailsUnclosed ==
    /\ worker = "select"
    /\ local' = NoSession
    /\ ConnectFailed
    /\ UNCHANGED <<config, session, status, ctx, done, stops, called>>

\* Select fails: the session is closed.
SelectFails ==
    /\ worker = "select"
    /\ status' = [status EXCEPT ![local] = "done"]
    /\ local' = NoSession
    /\ ConnectFailed
    /\ UNCHANGED <<config, session, ctx, done, stops, called>>

\* connect: ms.session = session, under the lock.
Install ==
    /\ worker = "install"
    /\ session' = local
    /\ worker' = "callback"
    /\ UNCHANGED <<config, status, ctx, done, loop, local, stops, called>>

\* connect: the onConnect callback; then go monitorLoop.
Callback ==
    /\ worker = "callback"
    /\ called' = "onConnect"
    /\ local' = NoSession
    /\ worker' = "monitor"
    /\ UNCHANGED <<config, session, status, ctx, done, loop, stops>>

\* Mutant: no test for nil.
MonitorUnchecked ==
    /\ worker = "monitor"
    /\ local' = session
    /\ worker' = "watch"
    /\ UNCHANGED <<config, session, status, ctx, done, loop, stops, called>>

\* monitorLoop: read ms.session; nil ends the loop.
Monitor ==
    /\ worker = "monitor"
    /\ local' = session
    /\ worker' = IF session = NoSession THEN "exit" ELSE "watch"
    /\ UNCHANGED <<config, session, status, ctx, done, loop, stops, called>>

\* monitorLoop: case <-s.Done(), ms.session = nil under the lock.
SessionLost ==
    /\ worker = "watch"
    /\ status[local] = "done"
    /\ session' = NoSession
    /\ local' = NoSession
    /\ worker' = "lost"
    /\ UNCHANGED <<config, status, ctx, done, loop, stops, called>>

\* Mutant: monitorLoop returns without reconnectLoop.
LostWithoutReconnect ==
    /\ worker = "lost"
    /\ called' = "onDisconnect"
    /\ worker' = "exit"
    /\ UNCHANGED <<config, session, status, ctx, done, loop, local, stops>>

\* Mutant: the callback is not called.
LostWithoutCallback ==
    /\ worker = "lost"
    /\ EnterReconnect
    /\ UNCHANGED <<config, session, status, ctx, done, local, stops, called>>

\* monitorLoop: the onDisconnect callback; then reconnectLoop.
Lost ==
    /\ worker = "lost"
    /\ called' = "onDisconnect"
    /\ EnterReconnect
    /\ UNCHANGED <<config, session, status, ctx, done, local, stops>>

\* Mutant: only reconnectLoop looks at the context.
WorkerIgnoresCancel ==
    /\ worker \in {"top", "wait"}
    /\ cancelled
    /\ worker' = "exit"
    /\ local' = NoSession
    /\ UNCHANGED <<config, session, status, ctx, done, loop, stops, called>>

\* monitorLoop and reconnectLoop: case <-ctx.Done().
WorkerCancelled ==
    /\ worker \in {"watch", "top", "wait"}
    /\ cancelled
    /\ worker' = "exit"
    /\ local' = NoSession
    /\ UNCHANGED <<config, session, status, ctx, done, loop, stops, called>>

\* reconnectLoop: count the attempt; give up after MaxRetries, otherwise wait.
\* Without a limit the count is not kept.
ReconnectTop ==
    /\ worker = "top"
    /\ ~cancelled
    /\ attempt' = IF maxRetries > 0 THEN attempt + 1 ELSE attempt
    /\ worker' = IF attempt' > maxRetries /\ maxRetries > 0 THEN "exit" ELSE "wait"
    /\ UNCHANGED <<config, session, status, ctx, done, initial, delay, local, stops, called>>

\* reconnectLoop: the delay is over, connect.
DelayOver ==
    /\ worker = "wait"
    /\ worker' = "connect"
    /\ UNCHANGED <<config, session, status, ctx, done, loop, local, stops, called>>

-----------------------------------------------------------------------------
(* Stop, and the end of a session. *)

StopCancel(s) ==
    /\ stop[s] = "idle"
    /\ stop' = [stop EXCEPT ![s] = "take"]
    /\ cancelled' = (cancelled \/ cancelSet)
    /\ UNCHANGED <<config, session, status, cancelSet, done, worker, loop, local, taken, called>>

StopTake(s) ==
    /\ stop[s] = "take"
    /\ taken' = [taken EXCEPT ![s] = session]
    /\ session' = NoSession
    /\ stop' = [stop EXCEPT ![s] = IF session = NoSession THEN "closeDone" ELSE "close"]
    /\ UNCHANGED <<config, status, ctx, done, worker, loop, local, called>>

\* return s.Close()
StopClose(s) ==
    /\ stop[s] = "close"
    /\ status' = [status EXCEPT ![taken[s]] = "done"]
    /\ stop' = [stop EXCEPT ![s] = "returned"]
    /\ taken' = [taken EXCEPT ![s] = NoSession]
    /\ UNCHANGED <<config, session, ctx, done, worker, loop, local, called>>

\* close(ms.done)
StopCloseDone(s) ==
    /\ stop[s] = "closeDone"
    /\ done' = done + 1
    /\ stop' = [stop EXCEPT ![s] = "returned"]
    /\ UNCHANGED <<config, session, status, ctx, worker, loop, local, taken, called>>

\* A session ends by itself: the peer, T7, the linktest or its TTL closed it.
SessionEnds(t) ==
    /\ status[t] = "up"
    /\ status' = [status EXCEPT ![t] = "done"]
    /\ UNCHANGED <<config, session, ctx, done, worker, loop, local, stops, called>>

Connected == \E t \in Token : ConnectOk(t)
Worker ==
    \/ Connected \/ ConnectFails \/ SelectOk \/ SelectFails \/ Install \/ Callback
    \/ Monitor \/ SessionLost \/ Lost \/ WorkerCancelled \/ ReconnectTop \/ DelayOver
StopStep(s) == StopTake(s) \/ StopClose(s) \/ StopCloseDone(s)

Next ==
    \/ Start \/ StartBackground
    \/ Worker
    \/ \E s \in Stoppers : StopCancel(s) \/ StopStep(s)
    \/ \E t \in Token : SessionEnds(t)

Spec == Init /\ [][Next]_vars

\* Goroutines run and the delay timer expires.  The peer is there often enough:
\* an attempt that is made again and again succeeds at some time.
FairSpec ==
    /\ Spec
    /\ WF_vars(Worker)
    /\ SF_vars(Connected) /\ SF_vars(SelectOk)
    /\ \A s \in Stoppers : WF_vars(StopStep(s))

-----------------------------------------------------------------------------
(* Properties. *)

Up == {t \in Token : status[t] = "up"}

\* There is never a second live session beside the first (HSMS-SS allows one
\* connection, and a passive session holds the port): connect runs only when
\* the session before is done, or taken and closed by Stop.
OneLiveSession == Cardinality(Up) <= 1

\* The callbacks alternate, beginning with onConnect: the application never sees
\* a new connection before it was told that the last one is gone, and is never
\* told so of a connection it did not see.
CallbacksAlternate ==
    /\ worker = "callback" => called # "onConnect"
    /\ worker = "lost" => called = "onConnect"

\* Only the first delay of a reconnectLoop can be above MaxDelay, however many
\* attempts have failed, and with a Multiplier of at least 1 and an InitialDelay
\* that MaxDelay does not cut none is below InitialDelay - nothing checks the
\* configuration.  After MaxRetries attempts there is no other.
BackoffBounded ==
    /\ delay = InitialDelay \/ delay <= MaxDelay
    /\ Numerator >= Denominator /\ InitialDelay <= MaxDelay => delay >= InitialDelay
    /\ worker \in {"wait", "connect"} /\ maxRetries > 0 => attempt <= maxRetries

\* While nobody calls Stop, a session that ended is always replaced by a new one
\* (without a limit on the attempts): monitorLoop and reconnectLoop hand over to
\* each other without end.
LostIsReplaced ==
    (maxRetries = 0 /\ worker = "watch" /\ status[local] = "done")
        ~> \/ worker = "callback"
           \/ \E s \in Stoppers : stop[s] # "idle"

\* Stop ends the worker, whatever it was doing.
StopEndsWorker == (cancelled ~> worker = "exit")

\* Done is closed when the managed session stops (reconnect.go:132).
DoneAfterStop == \A s \in Stoppers : stop[s] = "returned" => done > 0

\* Stop shuts down the managed session and its reconnection loop
\* (reconnect.go:114): when the worker has ended too, no session is left.
StopLeavesNothing ==
    (worker = "exit" /\ \E s \in Stoppers : stop[s] = "returned") => Up = {}

=============================================================================
