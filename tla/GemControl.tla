----------------------------- MODULE GemControl -----------------------------
(***************************************************************************)
(* Communication and control state, alarms and the safety interlock of the *)
(* equipment: state.go, alarm.go, safety.go, SendAlarm and the handlers of *)
(* S1F13, S1F15, S1F17 and S5F3 of pkg/driver/gem.                         *)
(*                                                                         *)
(* The processes are the message loop (GemHandler), goroutines of the      *)
(* application that call SendAlarm, and the application that drives the    *)
(* state machine.  SendAlarm sets the alarm, evaluates the interlock and   *)
(* reports; between its accesses to the alarm, the interlock and the state *)
(* machine it holds no lock.  A method that returns an error changes       *)
(* nothing and is no step; so are unknown alarm IDs.                       *)
(***************************************************************************)
EXTENDS GemHandler

CONSTANTS
    ALID,          \* alarms
    Severity,      \* of each alarm, a byte
    Thresholds,    \* the values SetThreshold is called with
    AlarmCallers,  \* goroutines that call SendAlarm
    NoInterlock    \* Handler.interlock = nil

ASSUME AlarmAssumption ==
    /\ ALID # {}
    /\ Severity \in [ALID -> 0..255]
    /\ Thresholds \subseteq 1..255
    /\ NoInterlock \notin [threshold : 1..255, action : {"LogOnly", "ForceIdle", "ForceOffline"}]

VARIABLES
    commState, controlState,   \* StateMachine
    alarms,                    \* AlarmManager: State = AlarmSet, Enabled
    interlock,                 \* SafetyInterlock: Threshold, Action
    sender,                    \* where each call of SendAlarm is
    safe   \* history: since the call of SendAlarm set its alarm, there was a
           \* moment at which the equipment was off-line, or nothing called for it

stateVars == <<commState, controlState>>
controlVars == <<stateVars, alarms, interlock, sender, safe>>

CommState == {"Disabled", "WaitCRA", "WaitDelay", "Communicating"}
ControlState == {"OfflineEquipment", "OfflineHost", "OnlineLocal", "OnlineRemote"}
AlarmAction == {"LogOnly", "ForceIdle", "ForceOffline"}
SenderPc == {"idle", "snapshot", "compare", "act", "goOffline", "report"}

NotSending == [pc |-> "idle", al |-> CHOOSE a \in ALID : TRUE, threshold |-> 0, action |-> "LogOnly"]
Reporting(a) == [NotSending EXCEPT !.pc = "report", !.al = a]

\* Types; and the interlock is not nil where Evaluate runs.
ControlTypeOK ==
    /\ commState \in CommState /\ controlState \in ControlState
    /\ alarms \in [ALID -> [set : BOOLEAN, enabled : BOOLEAN]]
    /\ interlock \in [threshold : 1..255, action : AlarmAction] \cup {NoInterlock}
    /\ sender \in [AlarmCallers -> [pc : SenderPc, al : ALID, threshold : 0..255,
                                    action : AlarmAction]]
    /\ \A c \in AlarmCallers :
          sender[c].pc \in {"snapshot", "compare", "act", "goOffline"} => interlock # NoInterlock
    /\ safe \in [AlarmCallers -> BOOLEAN]

\* NewStateMachine, DefineAlarm of each alarm, NewSafetyInterlock (if the
\* application installs one): alarms at or above AlarmEquipSafety (bit 6) force
\* the equipment off-line.
ControlInit ==
    /\ commState = "Disabled" /\ controlState = "OfflineEquipment"
    /\ alarms = [a \in ALID |-> [set |-> FALSE, enabled |-> TRUE]]
    /\ interlock \in {NoInterlock, [threshold |-> 64, action |-> "ForceOffline"]}
    /\ sender = [c \in AlarmCallers |-> NotSending]
    /\ safe = [c \in AlarmCallers |-> TRUE]

-----------------------------------------------------------------------------
(* The state machine.  Each method holds the lock from end to end. *)

EnableComm == commState = "Disabled" /\ commState' = "WaitCRA" /\ UNCHANGED controlState

DisableCommOnly == commState' = "Disabled" /\ UNCHANGED controlState

DisableComm == commState' = "Disabled" /\ controlState' = "OfflineEquipment"

CommEstablishedAnywhere == commState' = "Communicating" /\ UNCHANGED controlState

CommEstablished ==
    commState = "WaitCRA" /\ commState' = "Communicating" /\ UNCHANGED controlState

CommFailed == commState = "WaitCRA" /\ commState' = "WaitDelay" /\ UNCHANGED controlState

RetryComm == commState = "WaitDelay" /\ commState' = "WaitCRA" /\ UNCHANGED controlState

GoOnlineLocal ==
    commState = "Communicating" /\ controlState' = "OnlineLocal" /\ UNCHANGED commState

GoOnlineRemote ==
    commState = "Communicating" /\ controlState' = "OnlineRemote" /\ UNCHANGED commState

IsOnline == controlState \in {"OnlineLocal", "OnlineRemote"}

GoOffline == IsOnline /\ controlState' = "OfflineEquipment" /\ UNCHANGED commState

\* A goroutine of the application drives the state machine.
DriveState ==
    /\ \/ EnableComm \/ DisableComm \/ CommEstablished \/ CommFailed \/ RetryComm
       \/ GoOnlineLocal \/ GoOnlineRemote \/ GoOffline
    /\ UNCHANGED <<handlerVars, alarms, interlock, sender>>

-----------------------------------------------------------------------------
(* Handlers of the host's messages. *)

ControlMessages ==
    { Message("S1F13", <<<<"EnableComm">>, <<"CommEstablished">>>>),
      Message("S1F15", <<<<"GoOffline">>>>),
      Message("S1F17", <<<<"GoOnlineRemote">>>>),
      Message("S5F5", <<>>), Message("S5F7", <<>>) }
    \cup { Message("S5F3", <<x>>) : x \in {"EnableAlarm"} \X ALID \X BOOLEAN }
    \cup Malformed("S5F3")

\* handleS1F13 ignores the errors of EnableComm and CommEstablished;
\* handleS1F15 and handleS1F17 answer them with 1.
StateOf(op) ==
    CASE op = "EnableComm" -> EnableComm
      [] op = "CommEstablished" -> CommEstablished
      [] op = "GoOffline" -> GoOffline
      [] op = "GoOnlineRemote" -> GoOnlineRemote
StateRefuses(op) ==
    CASE op = "EnableComm" -> commState # "Disabled"
      [] op = "CommEstablished" -> commState # "WaitCRA"
      [] op = "GoOffline" -> ~IsOnline
      [] op = "GoOnlineRemote" -> commState # "Communicating"

HandleState(op) ==
    /\ Running(op)
    /\ \/ StateOf(op) /\ Advance(handler.ack)
       \/ /\ StateRefuses(op)
          /\ Advance(IF handler.sf = "S1F13" THEN handler.ack ELSE "error")
          /\ UNCHANGED stateVars
    /\ UNCHANGED <<alarms, interlock, sender>>

EnableAlarm(a, on) == alarms' = [alarms EXCEPT ![a].enabled = on]

\* handleS5F3
HandleEnableAlarm ==
    /\ Running("EnableAlarm")
    /\ EnableAlarm(Arg(1), Arg(2))
    /\ Advance(handler.ack)
    /\ UNCHANGED <<stateVars, interlock, sender>>

ControlHandler ==
    \/ \E op \in {"EnableComm", "CommEstablished", "GoOffline", "GoOnlineRemote"} : HandleState(op)
    \/ HandleEnableAlarm

-----------------------------------------------------------------------------
(* The safety interlock. *)

SetThreshold(t) ==
    /\ interlock # NoInterlock
    /\ interlock' = [interlock EXCEPT !.threshold = t]
    /\ UNCHANGED <<handlerVars, stateVars, alarms, sender>>

SetAction(a) ==
    /\ interlock # NoInterlock
    /\ interlock' = [interlock EXCEPT !.action = a]
    /\ UNCHANGED <<handlerVars, stateVars, alarms, sender>>

EnableAllAlarms(on) ==
    /\ alarms' = [a \in ALID |-> [alarms[a] EXCEPT !.enabled = on]]
    /\ UNCHANGED <<handlerVars, stateVars, interlock, sender>>

\* Severity & Threshold # 0: the bytes have a bit in common.
SharesBit(s, t) == \E b \in 0..7 : (s \div 2^b) % 2 = 1 /\ (t \div 2^b) % 2 = 1

TriggersMaskOnly(severity, threshold) == SharesBit(severity, threshold)

\* The comparison of Evaluate: a common bit, or a value that is not below.
Triggers(severity, threshold) == SharesBit(severity, threshold) \/ severity >= threshold

\* SetAlarm, ClearAlarm
SetAlarm(a, on) == alarms' = [alarms EXCEPT ![a].set = on]

SendAlarmUnchecked(c, a, on) ==
    /\ sender[c].pc = "idle"
    /\ SetAlarm(a, on)
    /\ sender' = [sender EXCEPT ![c].al = a, ![c].pc = IF on THEN "snapshot" ELSE "report"]
    /\ UNCHANGED <<handlerVars, stateVars, interlock>>

\* SendAlarm: SetAlarm or ClearAlarm.
SendAlarm(c, a, on) ==
    /\ sender[c].pc = "idle"
    /\ SetAlarm(a, on)
    /\ sender' = [sender EXCEPT ![c].al = a,
                    ![c].pc = IF on /\ interlock # NoInterlock THEN "snapshot" ELSE "report"]
    /\ UNCHANGED <<handlerVars, stateVars, interlock>>

\* Evaluate copies the threshold and the action under its lock.
EvaluateSnapshot(c) ==
    /\ sender[c].pc = "snapshot"
    /\ sender' = [sender EXCEPT ![c].pc = "compare", ![c].threshold = interlock.threshold,
                                 ![c].action = interlock.action]
    /\ UNCHANGED <<handlerVars, stateVars, alarms, interlock>>

\* It reads the alarm's state, which another SendAlarm may have changed.
EvaluateCompare(c) ==
    /\ sender[c].pc = "compare"
    /\ LET a == sender[c].al IN
        sender' = [sender EXCEPT ![c] =
                      IF alarms[a].set /\ Triggers(Severity[a], sender[c].threshold)
                      THEN [@ EXCEPT !.pc = "act", !.threshold = 0]
                      ELSE Reporting(a)]
    /\ UNCHANGED <<handlerVars, stateVars, alarms, interlock>>

EvaluateActLogs(c) ==
    /\ sender[c].pc = "act"
    /\ sender' = [sender EXCEPT ![c] = Reporting(sender[c].al)]
    /\ UNCHANGED <<handlerVars, stateVars, alarms, interlock>>

\* The switch over the action: ForceOffline asks IsOnline ...
EvaluateAct(c) ==
    /\ sender[c].pc = "act"
    /\ sender' = [sender EXCEPT ![c] =
                      IF sender[c].action = "ForceOffline" /\ IsOnline
                      THEN [@ EXCEPT !.pc = "goOffline"]
                      ELSE Reporting(sender[c].al)]
    /\ UNCHANGED <<handlerVars, stateVars, alarms, interlock>>

\* ... and calls GoOffline, whose error is only logged.
EvaluateGoOffline(c) ==
    /\ sender[c].pc = "goOffline"
    /\ GoOffline \/ (~IsOnline /\ UNCHANGED stateVars)
    /\ sender' = [sender EXCEPT ![c] = Reporting(sender[c].al)]
    /\ UNCHANGED <<handlerVars, alarms, interlock>>

\* A disabled alarm is not reported; S5F1, its reply and the callbacks follow
\* otherwise.  SendAlarm returns either way.
ReportAlarm(c) ==
    /\ sender[c].pc = "report"
    /\ sender' = [sender EXCEPT ![c] = NotSending]
    /\ UNCHANGED <<handlerVars, stateVars, alarms, interlock>>

SenderStep(c) ==
    \/ EvaluateSnapshot(c) \/ EvaluateCompare(c) \/ EvaluateAct(c)
    \/ EvaluateGoOffline(c) \/ ReportAlarm(c)

-----------------------------------------------------------------------------

\* The interlock calls for the equipment to be off-line because of alarm a: "alarms
\* at or above this severity trigger the action" (safety.go).
CallsForOffline(a) ==
    /\ interlock # NoInterlock
    /\ interlock.action = "ForceOffline"
    /\ alarms[a].set
    /\ Severity[a] >= interlock.threshold

\* The history variable, conjoined to every step.
Observe ==
    safe' = [c \in AlarmCallers |->
               \/ ~IsOnline' \/ ~CallsForOffline(sender[c].al)'
               \/ (safe[c] /\ sender[c].pc # "idle")]

ControlNext ==
    /\ \/ \E m \in ControlMessages : HandleMessage(m) /\ UNCHANGED <<stateVars, alarms, interlock, sender>>
       \/ ControlHandler
       \/ Reply /\ UNCHANGED <<stateVars, alarms, interlock, sender>>
       \/ \E p \in Policies : SetPolicy(p) /\ UNCHANGED <<stateVars, alarms, interlock, sender>>
       \/ DriveState
       \/ \E t \in Thresholds : SetThreshold(t)
       \/ \E a \in AlarmAction : SetAction(a)
       \/ \E on \in BOOLEAN : EnableAllAlarms(on)
       \/ \E c \in AlarmCallers, a \in ALID, on \in BOOLEAN : SendAlarm(c, a, on)
       \/ \E c \in AlarmCallers : SenderStep(c)
    /\ Observe

ControlSpec == HandlerInit /\ ControlInit /\ [][ControlNext]_<<handlerVars, controlVars>>

-----------------------------------------------------------------------------
(* Properties. *)

\* The equipment is on-line only while communication is established, though
\* DisableComm, S1F17, the interlock and the application race (state.go).
OnlineOnlyCommunicating == IsOnline => commState = "Communicating"

\* When Evaluate is over for an alarm that SendAlarm has set, the equipment has
\* been off-line at some moment since, unless at some moment the configuration
\* did not ask for it or the alarm was cleared again - though Evaluate reads
\* the configuration, the alarm and the control state at different times
\* (safety.go).
InterlockTrips ==
    \A c \in AlarmCallers : sender[c].pc = "report" => safe[c]

E30 == INSTANCE E30States WITH comm <- commState, control <- controlState

\* The communication and control state change as the two tables of the
\* validator allow, but for one step: GoOnlineLocal and GoOnlineRemote ask for
\* the communication state alone and go on-line from OFFLINE/EQUIPMENT, which
\* the control table does not have and state_test.go calls invalid ("skip
\* OFFLINE/HOST").  That step is the only disagreement, whoever drives the
\* state machine - S1F13, S1F15, S1F17, the interlock or the application.
OnlyOnlineSkips == E30!SkippingSpec

\* A safety alarm takes the equipment off-line, or stops asking for it, as long
\* as the goroutine that raised it is scheduled (SendAlarm, Evaluate).
SafetyAlarmGoesOffline ==
    \A c \in AlarmCallers :
        sender[c].pc = "snapshot" ~> (~IsOnline \/ ~CallsForOffline(sender[c].al))
=============================================================================
