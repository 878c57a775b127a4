------------------------ MODULE ManagedSessionProofs ------------------------
(***************************************************************************)
(* Proofs about ManagedSession, for every number of sessions and of calls  *)
(* of Stop and every reconnect configuration.                              *)
(***************************************************************************)
EXTENDS ManagedSession, FiniteSetTheorems, TLAPS

(* Types. *)

\* A ManagedSession fresh from NewManagedSession has the types.
LEMMA InitType == Init => TypeOK
<1> SUFFICES ASSUME Init PROVE TypeOK
    OBVIOUS
<1>1. cancelSet \in BOOLEAN /\ cancelled \in BOOLEAN /\ initial \in BOOLEAN
  BY Zenon DEF Init
<1>2. /\ status \in [Token -> {"none", "up", "done"}]
      /\ stop \in [Stoppers -> StopPc] /\ taken \in [Stoppers -> Token \cup {NoSession}]
      /\ \A s \in Stoppers : stop[s] # "close"
  BY DEF Init, StopPc
<1> QED BY <1>1, <1>2, ReconnectAssumption DEF Init, TypeOK, WorkerPc

\* Division cuts off, and takes nothing from a multiple of the divisor.
LEMMA Quotient ==
    ASSUME NEW a \in Nat, NEW k \in Nat \ {0}
    PROVE  /\ a \div k \in Nat
           /\ \A d \in Nat : a >= d * k => a \div k >= d
<1>0. a \div k \in Nat /\ a % k \in Nat
  OBVIOUS
<1> SUFFICES ASSUME NEW d \in Nat, a >= d * k, a \div k < d PROVE FALSE
  BY <1>0
<1>1. PICK q \in Nat, r \in Nat : q = a \div k /\ r = a % k
  BY <1>0
<1>2. a = k * q + r /\ r < k
  BY <1>1
<1>3. k * (q + 1) <= k * d
  <2>1. q + 1 <= d
    BY <1>1
  <2> QED BY <2>1
<1>4. k * (q + 1) = k * q + k /\ k * d = d * k
  OBVIOUS
<1> QED BY <1>2, <1>3, <1>4

\* A raised delay is a natural number, not below the delay it replaces if the
\* Multiplier is at least 1.
LEMMA RaisedDelay ==
    ASSUME NEW d \in Nat
    PROVE  Raised(d) \in Nat /\ (Numerator >= Denominator => d <= Raised(d))
<1>1. Numerator \in Nat /\ Denominator \in Nat \ {0}
  BY ReconnectAssumption
<1>2. d * Numerator \in Nat
  BY <1>1
<1>3. Raised(d) \in Nat
  BY <1>1, <1>2, Quotient DEF Raised
<1>4. ASSUME Numerator >= Denominator PROVE d <= Raised(d)
  <2>1. \A n, k \in Nat : n >= k => d * n >= d * k
    OBVIOUS
  <2>2. d * Numerator >= d * Denominator
    BY <1>1, <1>4, <2>1
  <2>3. (d * Numerator) \div Denominator >= d
    BY <1>1, <1>2, <2>2, Quotient
  <2> QED BY <1>3, <2>3 DEF Raised
<1> QED BY <1>3, <1>4

\* The way back to the top of reconnectLoop has the types of its variables.
LEMMA ConnectFailedType ==
    ASSUME TypeOK, ConnectFailed
    PROVE  worker' = "top" /\ initial' \in BOOLEAN /\ attempt' \in Nat /\ delay' \in Nat
<1>1. MaxDelay \in Nat /\ InitialDelay \in Nat /\ delay \in Nat
  BY ReconnectAssumption DEF TypeOK
<1> DEFINE p == Raised(delay)
<1>3. p \in Nat
  BY <1>1, RaisedDelay
<1>4. CASE initial
  <2>1. worker' = "top" /\ initial' \in BOOLEAN
    BY <1>4, Zenon DEF ConnectFailed, EnterReconnect
  <2>2. attempt' = 0 /\ delay' = InitialDelay
    BY <1>4 DEF ConnectFailed, EnterReconnect
  <2> QED BY <1>1, <2>1, <2>2
<1>5. CASE ~initial
  <2>1. worker' = "top" /\ initial' = initial /\ attempt' = attempt
        /\ delay' = IF p > MaxDelay THEN MaxDelay ELSE p
    BY <1>5 DEF ConnectFailed
  <2> HIDE DEF p
  <2> QED BY <2>1, <1>1, <1>3 DEF TypeOK
<1> QED BY <1>4, <1>5

\* Every step keeps the types; no step uses a session that is nil.
LEMMA TypeStep ==
    ASSUME TypeOK, [Next]_vars
    PROVE  TypeOK'
<1>0. MaxDelay \in Nat /\ InitialDelay \in Nat /\ NoSession \notin Token
  BY ReconnectAssumption
<1> USE DEF TypeOK, WorkerPc, StopPc, vars, config, ctx, loop, stops
<1>1. CASE Start
  BY <1>1 DEF Start
<1>2. CASE StartBackground
  BY <1>0, <1>2 DEF StartBackground, EnterReconnect
<1>3. ASSUME NEW t \in Token, ConnectOk(t) PROVE TypeOK'
  BY <1>3 DEF ConnectOk
<1>4. CASE ConnectFails
  <2>1. worker' = "top" /\ initial' \in BOOLEAN /\ attempt' \in Nat /\ delay' \in Nat
    BY <1>4, ConnectFailedType DEF ConnectFails
  <2> QED BY <1>4, <2>1 DEF ConnectFails
<1>5. CASE SelectOk
  BY <1>5 DEF SelectOk
<1>6. CASE SelectFails
  <2>1. worker' = "top" /\ initial' \in BOOLEAN /\ attempt' \in Nat /\ delay' \in Nat
    BY <1>6, ConnectFailedType DEF SelectFails
  <2> QED BY <1>6, <2>1 DEF SelectFails
<1>7. CASE Install
  BY <1>7 DEF Install
<1>8. CASE Callback
  BY <1>8 DEF Callback
<1>9. CASE Monitor
  BY <1>9 DEF Monitor
<1>10. CASE SessionLost
  BY <1>10 DEF SessionLost
<1>11. CASE Lost
  BY <1>0, <1>11 DEF Lost, EnterReconnect
<1>12. CASE WorkerCancelled
  BY <1>12 DEF WorkerCancelled
<1>13. CASE ReconnectTop
  <2>1. attempt' \in Nat /\ worker' \in {"exit", "wait"}
    BY <1>13 DEF ReconnectTop
  <2> QED BY <1>13, <2>1 DEF ReconnectTop
<1>14. CASE DelayOver
  BY <1>14 DEF DelayOver
<1>15. ASSUME NEW s \in Stoppers, StopCancel(s) PROVE TypeOK'
  BY <1>15 DEF StopCancel
<1>16. ASSUME NEW s \in Stoppers, StopTake(s) PROVE TypeOK'
  BY <1>16 DEF StopTake
<1>17. ASSUME NEW s \in Stoppers, StopClose(s) PROVE TypeOK'
  BY <1>17 DEF StopClose
<1>18. ASSUME NEW s \in Stoppers, StopCloseDone(s) PROVE TypeOK'
  BY <1>18 DEF StopCloseDone
<1>19. ASSUME NEW t \in Token, SessionEnds(t) PROVE TypeOK'
  BY <1>19 DEF SessionEnds
<1>20. CASE UNCHANGED vars
  BY <1>20
<1> QED
  BY <1>1, <1>2, <1>3, <1>4, <1>5, <1>6, <1>7, <1>8, <1>9, <1>10, <1>11, <1>12, <1>13,
     <1>14, <1>15, <1>16, <1>17, <1>18, <1>19, <1>20
     DEF Next, Worker, Connected, StopStep

\* Types hold always: in particular connect, monitorLoop and Stop never use a
\* session that is nil.
THEOREM TypeCorrect == Spec => []TypeOK
<1>1. TypeOK /\ [Next]_vars => TypeOK'
  BY TypeStep
<1> QED BY InitType, <1>1, PTL DEF Spec

-----------------------------------------------------------------------------
(* One live session. *)

\* Where a live session may be known.  Before an attempt there is none, and none
\* is installed; between Connect and the callback it is the one that connect has
\* in hand; while monitorLoop waits it is the one it waits for, even when Stop has
\* taken it out of ms.session.  In between, a session that is installed is the
\* live one.  After the worker has ended nothing connects any more.
LiveKnown ==
    /\ worker \in {"idle", "connect", "lost", "top", "wait"} =>
           session = NoSession /\ \A t \in Token : status[t] # "up"
    /\ worker \in {"select", "install"} => session = NoSession
    /\ worker = "callback" => session \in {local, NoSession}
    /\ worker \in {"select", "install", "callback", "watch"} =>
           \A t \in Token : status[t] = "up" => t = local
    /\ worker = "monitor" /\ session # NoSession =>
           \A t \in Token : status[t] = "up" => t = session
    /\ \A t, u \in Token : status[t] = "up" /\ status[u] = "up" => t = u

\* Every step keeps the only live session known.
LEMMA LiveStep ==
    ASSUME TypeOK, LiveKnown, [Next]_vars
    PROVE  LiveKnown'
<1>0. NoSession \notin Token
  BY ReconnectAssumption
<1> USE DEF TypeOK, LiveKnown, WorkerPc, vars, config, ctx, loop, stops
<1>1. CASE Start
  BY <1>1 DEF Start
<1>2. CASE StartBackground
  BY <1>2 DEF StartBackground, EnterReconnect
<1>3. ASSUME NEW t \in Token, ConnectOk(t) PROVE LiveKnown'
  BY <1>3 DEF ConnectOk
<1>4. CASE ConnectFails
  <2>1. worker' = "top"
    BY <1>4 DEF ConnectFails, ConnectFailed, EnterReconnect
  <2> QED BY <1>4, <2>1 DEF ConnectFails
<1>5. CASE SelectOk
  BY <1>5 DEF SelectOk
<1>6. CASE SelectFails
  <2>1. worker' = "top"
    BY <1>6 DEF SelectFails, ConnectFailed, EnterReconnect
  <2>2. \A t \in Token : status'[t] # "up"
    BY <1>6 DEF SelectFails
  <2> QED BY <1>6, <2>1, <2>2 DEF SelectFails
<1>7. CASE Install
  BY <1>7 DEF Install
<1>8. CASE Callback
  BY <1>8 DEF Callback
<1>9. CASE Monitor
  BY <1>9 DEF Monitor
<1>10. CASE SessionLost
  BY <1>10 DEF SessionLost
<1>11. CASE Lost
  BY <1>11 DEF Lost, EnterReconnect
<1>12. CASE WorkerCancelled
  BY <1>12 DEF WorkerCancelled
<1>13. CASE ReconnectTop
  BY <1>13 DEF ReconnectTop
<1>14. CASE DelayOver
  BY <1>14 DEF DelayOver
<1>15. ASSUME NEW s \in Stoppers, StopCancel(s) PROVE LiveKnown'
  BY <1>15 DEF StopCancel
<1>16. ASSUME NEW s \in Stoppers, StopTake(s) PROVE LiveKnown'
  BY <1>16 DEF StopTake
<1>17. ASSUME NEW s \in Stoppers, StopClose(s) PROVE LiveKnown'
  <2>1. \A t \in Token : status'[t] = "up" => status[t] = "up"
    BY <1>17 DEF StopClose
  <2> QED BY <1>17, <2>1 DEF StopClose
<1>18. ASSUME NEW s \in Stoppers, StopCloseDone(s) PROVE LiveKnown'
  BY <1>18 DEF StopCloseDone
<1>19. ASSUME NEW t \in Token, SessionEnds(t) PROVE LiveKnown'
  <2>1. \A u \in Token : status'[u] = "up" => status[u] = "up"
    BY <1>19 DEF SessionEnds
  <2> QED BY <1>19, <2>1 DEF SessionEnds
<1>20. CASE UNCHANGED vars
  BY <1>20
<1> QED
  BY <1>1, <1>2, <1>3, <1>4, <1>5, <1>6, <1>7, <1>8, <1>9, <1>10, <1>11, <1>12, <1>13,
     <1>14, <1>15, <1>16, <1>17, <1>18, <1>19, <1>20
     DEF Next, Worker, Connected, StopStep

\* Sessions that are all the same are at most one.
LEMMA AtMostOne ==
    ASSUME LiveKnown PROVE OneLiveSession
<1>1. CASE Up = {}
  BY <1>1, FS_EmptySet DEF OneLiveSession
<1>2. CASE Up # {}
  <2>1. PICK t : t \in Up
    BY <1>2
  <2>2. Up = {t}
    BY <2>1 DEF Up, LiveKnown
  <2>3. Cardinality(Up) = 1
    BY <2>2, FS_Singleton
  <2> QED BY <2>3 DEF OneLiveSession
<1> QED BY <1>1, <1>2

\* There is never a second live session: connect runs only when the session
\* before is done, whatever the calls of Stop take out of ms.session meanwhile.
THEOREM AtMostOneSession == Spec => []OneLiveSession
<1>1. Init => LiveKnown
  BY DEF Init, LiveKnown
<1>2. TypeOK /\ LiveKnown /\ [Next]_vars => LiveKnown'
  BY LiveStep
<1>3. LiveKnown => OneLiveSession
  BY AtMostOne
<1> QED BY <1>1, <1>2, <1>3, TypeCorrect, PTL DEF Spec

-----------------------------------------------------------------------------
(* Callbacks. *)

\* What the application was told last, at each place of the worker.
ToldLast ==
    /\ worker \in {"monitor", "watch", "lost"} => called = "onConnect"
    /\ worker \in {"idle", "connect", "select", "install", "callback", "top", "wait"} =>
           called # "onConnect"

\* Every step keeps the last callback in step with the worker.
LEMMA ToldStep ==
    ASSUME ToldLast, [Next]_vars
    PROVE  ToldLast'
<1> USE DEF ToldLast, vars, config, ctx, loop, stops
<1>1. CASE Start \/ StartBackground
  BY <1>1 DEF Start, StartBackground, EnterReconnect
<1>2. CASE Connected \/ ConnectFails \/ SelectOk \/ SelectFails
  BY <1>2 DEF Connected, ConnectOk, ConnectFails, SelectOk, SelectFails,
              ConnectFailed, EnterReconnect
<1>3. CASE Install \/ Callback \/ Monitor
  BY <1>3 DEF Install, Callback, Monitor
<1>4. CASE SessionLost \/ Lost \/ WorkerCancelled
  BY <1>4 DEF SessionLost, Lost, WorkerCancelled, EnterReconnect
<1>5. CASE ReconnectTop \/ DelayOver
  BY <1>5 DEF ReconnectTop, DelayOver
<1>6. CASE \/ \E s \in Stoppers : StopCancel(s) \/ StopStep(s)
           \/ \E t \in Token : SessionEnds(t)
           \/ UNCHANGED vars
  BY <1>6 DEF StopCancel, StopStep, StopTake, StopClose, StopCloseDone, SessionEnds
<1> QED BY <1>1, <1>2, <1>3, <1>4, <1>5, <1>6 DEF Next, Worker

\* onConnect and onDisconnect alternate, beginning with onConnect, however calls
\* of Stop and ends of sessions fall between them.
THEOREM CallbacksInTurn == Spec => []CallbacksAlternate
<1>1. Init => ToldLast
  BY DEF Init, ToldLast
<1>2. ToldLast /\ [Next]_vars => ToldLast'
  BY ToldStep
<1>3. ToldLast => CallbacksAlternate
  BY DEF ToldLast, CallbacksAlternate
<1> QED BY <1>1, <1>2, <1>3, PTL DEF Spec

-----------------------------------------------------------------------------
(* Backoff. *)

\* The delay stays in its range, an attempt that is counted is within the limit,
\* and nothing is counted before the first attempt.
BackoffInv ==
    /\ BackoffBounded
    /\ worker = "idle" => attempt = 0

\* Every step keeps the delay and the count within their bounds.
LEMMA BackoffStep ==
    ASSUME TypeOK, BackoffInv, [Next]_vars
    PROVE  BackoffInv'
<1>0. /\ MaxDelay \in Nat /\ InitialDelay \in Nat
      /\ maxRetries \in Nat /\ attempt \in Nat /\ delay \in Nat
  BY ReconnectAssumption DEF TypeOK
<1> DEFINE Grows == Numerator >= Denominator /\ InitialDelay <= MaxDelay
           InRange(d) == (d = InitialDelay \/ d <= MaxDelay) /\ (Grows => d >= InitialDelay)
<1>b. InRange(delay) /\ InRange(InitialDelay)
  BY <1>0 DEF BackoffInv, BackoffBounded
<1>a. ASSUME ConnectFailed PROVE worker' = "top" /\ InRange(delay')
  <2>1. CASE initial
    BY <1>0, <1>a, <2>1 DEF ConnectFailed, EnterReconnect
  <2>2. CASE ~initial
    <3> DEFINE p == Raised(delay)
    <3>1. worker' = "top" /\ delay' = IF p > MaxDelay THEN MaxDelay ELSE p
      BY <1>a, <2>2 DEF ConnectFailed
    <3>2. p \in Nat /\ (Grows => delay <= p)
      BY <1>0, RaisedDelay
    <3> HIDE DEF p
    <3> QED BY <1>0, <1>b, <3>1, <3>2
  <2> QED BY <2>1, <2>2
<1> USE DEF BackoffInv, BackoffBounded, vars, config, ctx, loop, stops
<1>1. CASE Start \/ StartBackground
  BY <1>0, <1>1 DEF Start, StartBackground, EnterReconnect
<1>2. CASE Connected \/ SelectOk
  BY <1>0, <1>2 DEF Connected, ConnectOk, SelectOk
<1>3. CASE ConnectFails \/ SelectFails
  BY <1>0, <1>a, <1>3 DEF ConnectFails, SelectFails
<1>4. CASE Install \/ Callback \/ Monitor
  BY <1>0, <1>4 DEF Install, Callback, Monitor
<1>5. CASE SessionLost \/ Lost \/ WorkerCancelled
  BY <1>0, <1>5 DEF SessionLost, Lost, WorkerCancelled, EnterReconnect
<1>6. CASE ReconnectTop
  BY <1>0, <1>6 DEF ReconnectTop
<1>7. CASE DelayOver
  BY <1>0, <1>7 DEF DelayOver
<1>8. CASE \/ \E s \in Stoppers : StopCancel(s) \/ StopStep(s)
           \/ \E t \in Token : SessionEnds(t)
           \/ UNCHANGED vars
  BY <1>0, <1>8 DEF StopCancel, StopStep, StopTake, StopClose, StopCloseDone, SessionEnds
<1> QED BY <1>1, <1>2, <1>3, <1>4, <1>5, <1>6, <1>7, <1>8 DEF Next, Worker

\* Only the first delay can be above MaxDelay, with a Multiplier of at least 1 and
\* an InitialDelay up to MaxDelay no delay is below InitialDelay, and
\* reconnectLoop makes at most MaxRetries attempts, for every configuration whose
\* fields are not negative.
THEOREM BackoffStaysBounded == Spec => []BackoffBounded
<1>1. Init => BackoffInv
  BY ReconnectAssumption DEF Init, BackoffInv, BackoffBounded
<1>2. TypeOK /\ BackoffInv /\ [Next]_vars => BackoffInv'
  BY BackoffStep
<1>3. BackoffInv => BackoffBounded
  BY DEF BackoffInv
<1> QED BY <1>1, <1>2, <1>3, TypeCorrect, PTL DEF Spec
=============================================================================
