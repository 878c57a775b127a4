-------------------------- MODULE GemControlProofs --------------------------
(***************************************************************************)
(* The communication and control state leave the tables of the validator   *)
(* in one step only, and the safety interlock does what it says, for any alarms, severities, thresholds,    *)
(* policies and number of goroutines that raise alarms.                    *)
(***************************************************************************)
EXTENDS GemControl, TLAPS

allVars == <<handlerVars, controlVars>>

\* The methods of StateMachine.
StateMethod ==
    \/ EnableComm \/ DisableComm \/ CommEstablished \/ CommFailed \/ RetryComm
    \/ GoOnlineLocal \/ GoOnlineRemote \/ GoOffline

\* Whoever takes a step, the state changes by one of the methods or not at all.
LEMMA OnlyMethods ==
    ASSUME [ControlNext]_allVars
    PROVE  StateMethod \/ UNCHANGED stateVars
<1>1. ASSUME ControlHandler PROVE StateMethod \/ UNCHANGED stateVars
    <2>1. ASSUME NEW op \in {"EnableComm", "CommEstablished", "GoOffline", "GoOnlineRemote"},
                 HandleState(op)
          PROVE  StateMethod \/ UNCHANGED stateVars
        <3>1. CASE UNCHANGED stateVars
            BY <3>1
        <3>2. CASE StateOf(op)
            BY <3>2 DEF StateOf, StateMethod
        <3> QED  BY <2>1, <3>1, <3>2 DEF HandleState
    <2>2. ASSUME HandleEnableAlarm PROVE UNCHANGED stateVars
        BY <2>2 DEF HandleEnableAlarm
    <2> QED  BY <1>1, <2>1, <2>2 DEF ControlHandler
<1>2. ASSUME DriveState PROVE StateMethod
    BY <1>2 DEF DriveState, StateMethod
<1>3. ASSUME NEW c \in AlarmCallers, SenderStep(c) PROVE StateMethod \/ UNCHANGED stateVars
    BY <1>3 DEF SenderStep, EvaluateSnapshot, EvaluateCompare, EvaluateAct, EvaluateGoOffline,
                ReportAlarm, StateMethod
<1>4. CASE UNCHANGED allVars
    BY <1>4 DEF allVars, controlVars
<1>5. ASSUME NEW c \in AlarmCallers, NEW a \in ALID, NEW on \in BOOLEAN, SendAlarm(c, a, on)
      PROVE  UNCHANGED stateVars
    BY <1>5 DEF SendAlarm
<1> QED  BY <1>1, <1>2, <1>3, <1>4, <1>5
    DEF ControlNext, SetThreshold, SetAction, EnableAllAlarms

-----------------------------------------------------------------------------
(* The state machine. *)

\* Off-line is the only control state without communication.
StateInv ==
    /\ commState \in CommState
    /\ controlState \in ControlState
    /\ commState # "Communicating" => controlState = "OfflineEquipment"

LEMMA StateStep ==
    ASSUME StateInv, [ControlNext]_allVars
    PROVE  StateInv'
<1>1. CASE StateMethod
    BY <1>1 DEF StateMethod, EnableComm, DisableComm, CommEstablished, CommFailed, RetryComm,
                GoOnlineLocal, GoOnlineRemote, GoOffline, IsOnline, StateInv, CommState, ControlState
<1>2. CASE UNCHANGED stateVars
    BY <1>2 DEF stateVars, StateInv
<1> QED  BY <1>1, <1>2, OnlyMethods

LEMMA StateInvariant == ControlSpec => []StateInv
<1>1. ControlInit => StateInv
    BY DEF ControlInit, StateInv, CommState, ControlState
<1>2. StateInv /\ [ControlNext]_allVars => StateInv'
    BY StateStep
<1> QED  BY <1>1, <1>2, PTL DEF ControlSpec, allVars

\* The equipment is on-line only while communication is established.
THEOREM OnlineCommunicates == ControlSpec => []OnlineOnlyCommunicating
<1>1. StateInv => OnlineOnlyCommunicating
    BY DEF StateInv, OnlineOnlyCommunicating, IsOnline
<1> QED  BY <1>1, StateInvariant, PTL

\* A method is a step of the validator's tables, the step they leave out, or
\* changes nothing: DisableComm of a disabled equipment finds it off-line already.
LEMMA MethodIsE30 ==
    ASSUME StateInv, [ControlNext]_allVars
    PROVE  [E30!E30Next \/ E30!SkipOfflineHost]_<<commState, controlState>>
<1> USE DEF E30!E30Next, E30!Online, E30!ValidComm, E30!validCommTransitions,
            E30!ValidControl, E30!validControlTransitions
<1>1. CASE EnableComm \/ CommEstablished \/ CommFailed \/ RetryComm
    BY <1>1 DEF EnableComm, CommEstablished, CommFailed, RetryComm, E30!Establish
<1>2. CASE DisableComm
    <2>1. CASE commState = "Disabled"
        BY <1>2, <2>1 DEF DisableComm, StateInv
    <2>2. CASE commState # "Disabled"
        <3>1. E30!ValidComm(commState, "Disabled")
            BY <2>2 DEF StateInv, CommState
        <3>2. controlState = "OfflineEquipment" \/ E30!ValidControl(controlState, "OfflineEquipment")
            BY DEF StateInv, ControlState
        <3> QED  BY <1>2, <3>1, <3>2 DEF DisableComm, E30!Disable
    <2> QED  BY <2>1, <2>2
<1>3. CASE GoOnlineLocal \/ GoOnlineRemote
    <2>1. \/ controlState' = controlState
          \/ controlState = "OfflineEquipment"
          \/ E30!ValidControl(controlState, controlState')
        BY <1>3 DEF StateInv, ControlState, GoOnlineLocal, GoOnlineRemote
    <2> QED  BY <1>3, <2>1 DEF GoOnlineLocal, GoOnlineRemote, E30!ChangeControl, E30!SkipOfflineHost
<1>4. CASE GoOffline
    BY <1>4 DEF GoOffline, IsOnline, StateInv, E30!ChangeControl
<1>5. CASE UNCHANGED stateVars
    BY <1>5 DEF stateVars
<1> QED  BY <1>1, <1>2, <1>3, <1>4, <1>5, OnlyMethods DEF StateMethod

\* Whoever drives StateMachine, its states change as the validator's two tables
\* allow, but for the step on-line from OFFLINE/EQUIPMENT.
THEOREM DeviatesOnlyGoingOnline == ControlSpec => OnlyOnlineSkips
<1>1. ControlInit => E30!E30Init
    BY DEF ControlInit, E30!E30Init
<1>2. StateInv /\ [ControlNext]_allVars =>
        [E30!E30Next \/ E30!SkipOfflineHost]_<<commState, controlState>>
    BY MethodIsE30
<1> QED  BY <1>1, <1>2, StateInvariant, PTL
         DEF ControlSpec, allVars, OnlyOnlineSkips, E30!SkippingSpec, E30!states

-----------------------------------------------------------------------------
(* The interlock. *)

Evaluating == {"snapshot", "compare", "act", "goOffline"}
Byte == 0..255
Calls == [pc : SenderPc, al : ALID, threshold : Byte, action : AlarmAction]

\* A call of SendAlarm before and after Evaluate.
LEMMA CallTypes ==
    /\ NotSending \in Calls /\ NotSending.pc = "idle"
    /\ \A a \in ALID : Reporting(a) \in Calls /\ Reporting(a).pc = "report"
<1>1. (CHOOSE a \in ALID : TRUE) \in ALID
    BY AlarmAssumption
<1>2. 0 \in Byte
    BY DEF Byte
<1>3. NotSending \in Calls /\ NotSending.pc = "idle"
    BY <1>1, <1>2 DEF NotSending, Calls, SenderPc, AlarmAction
<1>4. ASSUME NEW a \in ALID PROVE Reporting(a) \in Calls /\ Reporting(a).pc = "report"
    BY <1>3 DEF Reporting, Calls, SenderPc
<1> QED  BY <1>3, <1>4

\* alarms has an entry for each alarm, with two fields.
AlarmShape == alarms = [a \in ALID |-> [set |-> alarms[a].set, enabled |-> alarms[a].enabled]]

\* The types of what the interlock reads.
AlarmTypes ==
    /\ AlarmShape
    /\ interlock \in [threshold : 1..255, action : AlarmAction] \cup {NoInterlock}
    /\ sender \in [AlarmCallers -> Calls]
    /\ \A c \in AlarmCallers : sender[c].pc \in Evaluating => interlock # NoInterlock
    /\ safe \in [AlarmCallers -> BOOLEAN]

\* As long as a call is not known to be safe, the interlock still asks for
\* off-line because of its alarm, so what Evaluate has copied asks for it too.
OnTheWay(c) ==
    /\ ~safe[c] => IsOnline /\ CallsForOffline(sender[c].al)
    /\ ~safe[c] /\ sender[c].pc = "compare" =>
          sender[c].action = "ForceOffline" /\ Severity[sender[c].al] >= sender[c].threshold
    /\ ~safe[c] /\ sender[c].pc = "act" => sender[c].action = "ForceOffline"
    /\ sender[c].pc = "report" => safe[c]

InterlockInv == AlarmTypes /\ \A c \in AlarmCallers : OnTheWay(c)

\* Whatever EnableAlarm is called with.
LEMMA EnableKeepsShape ==
    ASSUME AlarmShape, NEW x, NEW y, EnableAlarm(x, y)
    PROVE  AlarmShape'
<1>1. alarms' = [a \in ALID |-> IF a = x THEN [alarms[x] EXCEPT !.enabled = y] ELSE alarms[a]]
    BY DEF AlarmShape, EnableAlarm
<1>2. ASSUME NEW a \in ALID
      PROVE  alarms'[a] = [set |-> alarms'[a].set, enabled |-> alarms'[a].enabled]
    <2>1. alarms[a] = [set |-> alarms[a].set, enabled |-> alarms[a].enabled]
        BY DEF AlarmShape
    <2> QED  BY <1>1, <2>1
<1> QED  BY <1>1, <1>2 DEF AlarmShape

LEMMA InterlockInit == ControlInit => InterlockInv
<1> SUFFICES ASSUME ControlInit PROVE InterlockInv
    OBVIOUS
<1>1. AlarmTypes
    <2>1. AlarmShape
        BY DEF ControlInit, AlarmShape
    <2>2. interlock \in [threshold : 1..255, action : AlarmAction] \cup {NoInterlock}
        BY DEF ControlInit, AlarmAction
    <2>3. sender \in [AlarmCallers -> Calls]
          /\ \A c \in AlarmCallers : sender[c].pc = "idle"
        BY CallTypes DEF ControlInit
    <2> QED  BY <2>1, <2>2, <2>3 DEF ControlInit, AlarmTypes, Evaluating
<1>2. ASSUME NEW c \in AlarmCallers PROVE OnTheWay(c)
    BY CallTypes DEF ControlInit, OnTheWay
<1> QED  BY <1>1, <1>2 DEF InterlockInv

\* What Observe remembers: a call that is safe stays so until it is over, and
\* one that is not is so because the interlock asks for off-line now.
LEMMA Remembers ==
    ASSUME Observe, NEW c \in AlarmCallers
    PROVE  /\ safe'[c] \in BOOLEAN
           /\ ~safe'[c] => IsOnline' /\ CallsForOffline(sender[c].al)'
           /\ safe[c] /\ sender[c].pc # "idle" => safe'[c]
    BY DEF Observe

\* A step that leaves a call where it is.
LEMMA Unmoved ==
    ASSUME Observe, NEW c \in AlarmCallers, OnTheWay(c), sender'[c] = sender[c]
    PROVE  OnTheWay(c)'
    BY Remembers DEF OnTheWay

\* A step that no call of SendAlarm takes.
LEMMA OthersStep ==
    ASSUME InterlockInv, Observe, sender' = sender,
           AlarmShape',
           interlock' \in [threshold : 1..255, action : AlarmAction] \cup {NoInterlock},
           interlock' = NoInterlock => interlock = NoInterlock
    PROVE  InterlockInv'
<1>1. safe' \in [AlarmCallers -> BOOLEAN]
    BY DEF Observe
<1>2. AlarmTypes'
    BY <1>1 DEF InterlockInv, AlarmTypes
<1>3. \A c \in AlarmCallers : OnTheWay(c)'
    BY Unmoved DEF InterlockInv
<1> QED  BY <1>2, <1>3 DEF InterlockInv

\* A step of one call: its new record, and the other calls unmoved.
LEMMA OneStep ==
    ASSUME InterlockInv, Observe, NEW c \in AlarmCallers, NEW new \in Calls,
           sender' = [sender EXCEPT ![c] = new], interlock' = interlock,
           AlarmShape',
           new.pc \in Evaluating => interlock # NoInterlock,
           OnTheWay(c)'
    PROVE  InterlockInv'
<1>1. sender'[c] = new /\ \A d \in AlarmCallers : d # c => sender'[d] = sender[d]
    BY DEF InterlockInv, AlarmTypes
<1>2. safe' \in [AlarmCallers -> BOOLEAN]
    BY DEF Observe
<1>3. AlarmTypes'
    <2>1. sender' \in [AlarmCallers -> Calls]
        BY DEF InterlockInv, AlarmTypes
    <2>2. \A d \in AlarmCallers : sender'[d].pc \in Evaluating => interlock' # NoInterlock
        BY <1>1 DEF InterlockInv, AlarmTypes
    <2> QED  BY <2>1, <2>2, <1>2 DEF InterlockInv, AlarmTypes
<1>4. \A d \in AlarmCallers : d # c => OnTheWay(d)'
    BY <1>1, Unmoved DEF InterlockInv
<1> QED  BY <1>3, <1>4 DEF InterlockInv

LEMMA SendAlarmStep ==
    ASSUME InterlockInv, Observe, NEW c \in AlarmCallers, NEW a \in ALID, NEW on \in BOOLEAN,
           SendAlarm(c, a, on)
    PROVE  InterlockInv'
<1> DEFINE new == [sender[c] EXCEPT !.al = a,
                      !.pc = IF on /\ interlock # NoInterlock THEN "snapshot" ELSE "report"]
<1>1. sender[c] \in Calls
    BY DEF InterlockInv, AlarmTypes
<1>2. new \in Calls /\ new.al = a
      /\ new.pc = IF on /\ interlock # NoInterlock THEN "snapshot" ELSE "report"
    BY <1>1 DEF Calls, SenderPc
<1>3. sender' = [sender EXCEPT ![c] = new]
    BY <1>1 DEF SendAlarm, InterlockInv, AlarmTypes, Calls
<1>4. interlock' = interlock /\ AlarmShape' /\ alarms'[a].set = on
    BY DEF SendAlarm, SetAlarm, InterlockInv, AlarmTypes, AlarmShape
<1>5. sender'[c] = new
    BY <1>3 DEF InterlockInv, AlarmTypes
<1> HIDE DEF new
<1>6. OnTheWay(c)'
    <2>1. new.pc = "report" => ~CallsForOffline(sender[c].al)'
        BY <1>2, <1>4, <1>5 DEF CallsForOffline
    <2> QED  BY <1>2, <1>5, <2>1, Remembers DEF OnTheWay
<1> QED  BY <1>2, <1>3, <1>4, <1>6, OneStep DEF Evaluating

LEMMA SnapshotStep ==
    ASSUME InterlockInv, Observe, NEW c \in AlarmCallers, EvaluateSnapshot(c)
    PROVE  InterlockInv'
<1> DEFINE new == [sender[c] EXCEPT !.pc = "compare", !.threshold = interlock.threshold,
                                    !.action = interlock.action]
<1>1. sender[c] \in Calls /\ sender[c].pc = "snapshot" /\ interlock # NoInterlock
      /\ interlock \in [threshold : 1..255, action : AlarmAction]
    BY DEF InterlockInv, AlarmTypes, EvaluateSnapshot, Evaluating
<1>2. new \in Calls /\ new.al = sender[c].al /\ new.pc = "compare"
      /\ new.threshold = interlock.threshold /\ new.action = interlock.action
    <2>1. interlock.threshold \in Byte /\ interlock.action \in AlarmAction
        BY <1>1 DEF Byte
    <2> QED  BY <1>1, <2>1 DEF Calls, SenderPc
<1>3. sender' = [sender EXCEPT ![c] = new]
    BY <1>1 DEF EvaluateSnapshot, InterlockInv, AlarmTypes, Calls
<1>4. interlock' = interlock /\ alarms' = alarms /\ sender'[c] = new
    BY <1>3 DEF EvaluateSnapshot, InterlockInv, AlarmTypes
<1> HIDE DEF new
<1>5. OnTheWay(c)'
    <2>1. ~safe'[c] => ~safe[c]
        BY <1>1, Remembers
    <2>2. ~safe[c] => interlock.action = "ForceOffline"
                      /\ Severity[sender[c].al] >= interlock.threshold
        BY DEF InterlockInv, OnTheWay, CallsForOffline
    <2> QED  BY <1>2, <1>4, <2>1, <2>2, Remembers DEF OnTheWay
<1> QED  BY <1>1, <1>2, <1>3, <1>4, <1>5, OneStep DEF InterlockInv, AlarmTypes, AlarmShape

LEMMA CompareStep ==
    ASSUME InterlockInv, Observe, NEW c \in AlarmCallers, EvaluateCompare(c)
    PROVE  InterlockInv'
<1> DEFINE a == sender[c].al
           fires == alarms[a].set /\ Triggers(Severity[a], sender[c].threshold)
           new == IF fires THEN [sender[c] EXCEPT !.pc = "act", !.threshold = 0] ELSE Reporting(a)
<1>1. sender[c] \in Calls /\ sender[c].pc = "compare" /\ a \in ALID /\ interlock # NoInterlock
    BY DEF InterlockInv, AlarmTypes, EvaluateCompare, Calls, Evaluating
<1>2. /\ new \in Calls
      /\ fires => new.pc = "act" /\ new.action = sender[c].action /\ new.al = a
      /\ ~fires => new.pc = "report"
    <2>1. CASE fires
        <3>1. 0 \in Byte
            BY DEF Byte
        <3>2. new = [sender[c] EXCEPT !.pc = "act", !.threshold = 0]
            BY <2>1
        <3> QED  BY <1>1, <2>1, <3>1, <3>2 DEF Calls, SenderPc
    <2>2. CASE ~fires
        BY <1>1, <2>2, CallTypes
    <2> QED  BY <2>1, <2>2
<1>3. sender' = [sender EXCEPT ![c] = new]
    BY DEF EvaluateCompare
<1>4. interlock' = interlock /\ alarms' = alarms /\ sender'[c] = new
    BY <1>3 DEF EvaluateCompare, InterlockInv, AlarmTypes
<1>5. ~safe[c] => fires /\ sender[c].action = "ForceOffline"
    BY <1>1 DEF InterlockInv, OnTheWay, CallsForOffline, Triggers
<1> HIDE DEF new, fires
<1>6. OnTheWay(c)'
    BY <1>1, <1>2, <1>4, <1>5, Remembers DEF OnTheWay
<1> QED  BY <1>1, <1>2, <1>3, <1>4, <1>6, OneStep DEF InterlockInv, AlarmTypes, AlarmShape

LEMMA ActStep ==
    ASSUME InterlockInv, Observe, NEW c \in AlarmCallers, EvaluateAct(c)
    PROVE  InterlockInv'
<1> DEFINE acts == sender[c].action = "ForceOffline" /\ IsOnline
           new == IF acts THEN [sender[c] EXCEPT !.pc = "goOffline"] ELSE Reporting(sender[c].al)
<1>1. sender[c] \in Calls /\ sender[c].pc = "act" /\ sender[c].al \in ALID /\ interlock # NoInterlock
    BY DEF InterlockInv, AlarmTypes, EvaluateAct, Calls, Evaluating
<1>2. new \in Calls /\ (acts => new.pc = "goOffline") /\ (~acts => new.pc = "report")
    <2>1. CASE acts
        BY <1>1, <2>1 DEF Calls, SenderPc
    <2>2. CASE ~acts
        BY <1>1, <2>2, CallTypes
    <2> QED  BY <2>1, <2>2
<1>3. sender' = [sender EXCEPT ![c] = new]
    BY DEF EvaluateAct
<1>4. interlock' = interlock /\ alarms' = alarms /\ sender'[c] = new
    BY <1>3 DEF EvaluateAct, InterlockInv, AlarmTypes
<1>5. ~safe[c] => acts
    BY <1>1 DEF InterlockInv, OnTheWay
<1> HIDE DEF new, acts
<1>6. OnTheWay(c)'
    BY <1>1, <1>2, <1>4, <1>5, Remembers DEF OnTheWay
<1> QED  BY <1>1, <1>2, <1>3, <1>4, <1>6, OneStep DEF InterlockInv, AlarmTypes, AlarmShape

\* After GoOffline, also when it found the equipment off-line, it is off-line.
LEMMA GoOfflineStep ==
    ASSUME InterlockInv, Observe, NEW c \in AlarmCallers, EvaluateGoOffline(c)
    PROVE  InterlockInv'
<1>1. sender[c].al \in ALID
    BY DEF InterlockInv, AlarmTypes, Calls
<1>2. Reporting(sender[c].al) \in Calls /\ Reporting(sender[c].al).pc = "report"
    BY <1>1, CallTypes
<1>3. /\ sender' = [sender EXCEPT ![c] = Reporting(sender[c].al)]
      /\ interlock' = interlock /\ alarms' = alarms
    BY DEF EvaluateGoOffline
<1>4. sender'[c].pc = "report"
    BY <1>2, <1>3 DEF InterlockInv, AlarmTypes
<1>5. ~IsOnline'
    BY DEF EvaluateGoOffline, GoOffline, IsOnline, stateVars
<1>6. OnTheWay(c)'
    BY <1>4, <1>5, Remembers DEF OnTheWay
<1> QED  BY <1>2, <1>3, <1>6, OneStep DEF InterlockInv, AlarmTypes, AlarmShape, Evaluating

LEMMA ReportStep ==
    ASSUME InterlockInv, Observe, NEW c \in AlarmCallers, ReportAlarm(c)
    PROVE  InterlockInv'
<1>1. /\ sender' = [sender EXCEPT ![c] = NotSending]
      /\ interlock' = interlock /\ alarms' = alarms
    BY DEF ReportAlarm
<1>2. sender'[c].pc = "idle"
    BY <1>1, CallTypes DEF InterlockInv, AlarmTypes
<1>3. OnTheWay(c)'
    BY <1>2, Remembers DEF OnTheWay
<1> QED  BY <1>1, <1>3, CallTypes, OneStep DEF InterlockInv, AlarmTypes, AlarmShape, Evaluating

LEMMA InterlockStep ==
    ASSUME InterlockInv, [ControlNext]_allVars
    PROVE  InterlockInv'
<1> USE DEF InterlockInv, AlarmTypes
<1>1. ASSUME Observe, sender' = sender, alarms' = alarms, interlock' = interlock
      PROVE  InterlockInv'
    BY <1>1, OthersStep DEF AlarmShape
<1>2. ASSUME Observe, ControlHandler PROVE InterlockInv'
    <2>1. CASE HandleEnableAlarm
        <3>1. EnableAlarm(Arg(1), Arg(2))
            BY <2>1 DEF HandleEnableAlarm
        <3>2. AlarmShape'
            BY <3>1, EnableKeepsShape
        <3> QED  BY <1>2, <2>1, <3>2, OthersStep DEF HandleEnableAlarm
    <2>2. CASE sender' = sender /\ alarms' = alarms /\ interlock' = interlock
        BY <1>1, <1>2, <2>2
    <2> QED  BY <1>2, <2>1, <2>2 DEF ControlHandler, HandleState
<1>3. ASSUME Observe, NEW t \in Thresholds, SetThreshold(t) PROVE InterlockInv'
    <2>1. interlock' \in [threshold : 1..255, action : AlarmAction] /\ AlarmShape'
        BY <1>3, AlarmAssumption DEF SetThreshold, AlarmShape
    <2>2. interlock # NoInterlock /\ interlock' # NoInterlock
        BY <1>3, <2>1, AlarmAssumption DEF SetThreshold, AlarmAction
    <2> QED  BY <1>3, <2>1, <2>2, OthersStep DEF SetThreshold
<1>4. ASSUME Observe, NEW a \in AlarmAction, SetAction(a) PROVE InterlockInv'
    <2>1. interlock' \in [threshold : 1..255, action : AlarmAction] /\ AlarmShape'
        BY <1>4 DEF SetAction, AlarmShape
    <2>2. interlock # NoInterlock /\ interlock' # NoInterlock
        BY <1>4, <2>1, AlarmAssumption DEF SetAction, AlarmAction
    <2> QED  BY <1>4, <2>1, <2>2, OthersStep DEF SetAction
<1>5. ASSUME Observe, NEW on \in BOOLEAN, EnableAllAlarms(on) PROVE InterlockInv'
    <2>1. AlarmShape'
        BY <1>5 DEF EnableAllAlarms, AlarmShape
    <2> QED  BY <1>5, <2>1, OthersStep DEF EnableAllAlarms
<1>6. ASSUME Observe, NEW c \in AlarmCallers, SenderStep(c) PROVE InterlockInv'
    BY <1>6, SnapshotStep, CompareStep, ActStep, GoOfflineStep, ReportStep DEF SenderStep
<1>7. ASSUME Observe, NEW c \in AlarmCallers, NEW a \in ALID, NEW on \in BOOLEAN,
             SendAlarm(c, a, on)
      PROVE  InterlockInv'
    BY <1>7, SendAlarmStep
<1>8. CASE UNCHANGED allVars
    BY <1>8 DEF allVars, controlVars, stateVars, AlarmShape, OnTheWay, CallsForOffline, IsOnline
<1>9. ASSUME Observe, DriveState PROVE InterlockInv'
    BY <1>1, <1>9 DEF DriveState
<1> QED  BY <1>1, <1>2, <1>3, <1>4, <1>5, <1>6, <1>7, <1>8, <1>9 DEF ControlNext

\* When Evaluate is over for an alarm, the equipment has been off-line at some
\* moment since SendAlarm set it, unless at some moment the configuration did
\* not ask for it or the alarm was cleared (SendAlarm, Evaluate).
THEOREM InterlockWorks == ControlSpec => []InterlockTrips
<1>1. ControlInit => InterlockInv
    BY InterlockInit
<1>2. InterlockInv /\ [ControlNext]_allVars => InterlockInv'
    BY InterlockStep
<1>3. InterlockInv => InterlockTrips
    BY DEF InterlockInv, OnTheWay, InterlockTrips
<1> QED  BY <1>1, <1>2, <1>3, PTL DEF ControlSpec, allVars
=============================================================================
