--------------------------- MODULE GemDataProofs ----------------------------
(***************************************************************************)
(* Proofs about the message loop and what it writes, for any constants,    *)
(* bounds, reports, events, alarms and policies: what each entry of a host *)
(* message may hold, the types of the whole equipment, the ranges of the   *)
(* constants, and that a restricted policy lets no message write.          *)
(***************************************************************************)
EXTENDS MCGem, GemControlProofs, SequenceTheorems

(* The work of a message. *)

\* The critical sections of the host's messages, with their arguments.
Entries ==
    { <<op>> : op \in {"EnableComm", "CommEstablished", "GoOffline", "GoOnlineRemote",
                       "DeleteAllReports", "Execute"} }
    \cup ({"EnableAlarm"} \X ALID \X BOOLEAN)
    \cup ({"SetEC"} \X ECID)
    \cup ({"DefineReport"} \X RPTID \X VIDs)
    \cup ({"DeleteReport"} \X RPTID)
    \cup ({"LinkEventReport"} \X CEID \X SUBSET RPTID)
    \cup ({"EnableEvent"} \X CEID \X BOOLEAN)
    \cup ({"EnableAllEvents"} \X BOOLEAN)

\* The sections of S1F13, the only ones of a message that does not write.
Harmless == { <<"EnableComm">>, <<"CommEstablished">> }

\* A message of the host as the loop takes it.
WellFormed(m) ==
    /\ m.sf \in SF /\ m.ack \in Acks
    /\ m.work \in Seq(Entries)
    /\ m.sf \notin writeMessages => m.work \in Seq(Harmless)

\* Sequences of one and of two entries.
LEMMA ShortWork ==
    ASSUME NEW S
    PROVE  /\ <<>> \in Seq(S)
           /\ \A d \in S : <<d>> \in Seq(S)
           /\ \A d, e \in S : <<d, e>> \in Seq(S)
OBVIOUS

\* Message fills the fields.
LEMMA MessageFields ==
    ASSUME NEW sf \in SF, NEW w \in Seq(Entries),
           sf \notin writeMessages => w \in Seq(Harmless)
    PROVE  WellFormed(Message(sf, w))
BY DEF WellFormed, Message, Acks

\* A malformed message has no work.
LEMMA MalformedFields ==
    ASSUME NEW sf \in SF, NEW m \in Malformed(sf)
    PROVE  WellFormed(m)
<1>1. PICK a \in {"error", "none"} : m = [sf |-> sf, work |-> <<>>, ack |-> a]
    BY DEF Malformed
<1>2. m.sf = sf /\ m.work = <<>> /\ m.ack \in Acks
    BY <1>1 DEF Acks
<1> QED  BY <1>2, ShortWork DEF WellFormed

\* The messages about state and alarms are well formed.
LEMMA ControlWellFormed == \A m \in ControlMessages : WellFormed(m)
<1> SUFFICES ASSUME NEW m \in ControlMessages PROVE WellFormed(m)
    OBVIOUS
<1>0. {"S1F13", "S1F15", "S1F17", "S5F3", "S5F5", "S5F7"} \subseteq SF
    BY DEF SF
<1>1. CASE m = Message("S1F13", <<<<"EnableComm">>, <<"CommEstablished">>>>)
    <2>1. <<"EnableComm">> \in Harmless /\ <<"CommEstablished">> \in Harmless
        BY DEF Harmless
    <2>2. <<"EnableComm">> \in Entries /\ <<"CommEstablished">> \in Entries
        BY DEF Entries
    <2> DEFINE w == <<<<"EnableComm">>, <<"CommEstablished">>>>
    <2>3. w \in Seq(Harmless) /\ w \in Seq(Entries)
        BY <2>1, <2>2, ShortWork
    <2> HIDE DEF w
    <2>4. WellFormed(Message("S1F13", w))
        BY <1>0, <2>3, MessageFields
    <2> QED  BY <1>1, <2>4 DEF w
<1>2. CASE m = Message("S1F15", <<<<"GoOffline">>>>)
    <2>1. <<"GoOffline">> \in Entries
        BY DEF Entries
    <2> QED  BY <1>0, <1>2, <2>1, ShortWork, MessageFields DEF writeMessages
<1>3. CASE m = Message("S1F17", <<<<"GoOnlineRemote">>>>)
    <2>1. <<"GoOnlineRemote">> \in Entries
        BY DEF Entries
    <2> QED  BY <1>0, <1>3, <2>1, ShortWork, MessageFields DEF writeMessages
<1>4. CASE m \in {Message("S5F5", <<>>), Message("S5F7", <<>>)}
    BY <1>0, <1>4, ShortWork, MessageFields
<1>5. CASE m \in { Message("S5F3", <<x>>) : x \in {"EnableAlarm"} \X ALID \X BOOLEAN }
    <2>1. PICK x \in {"EnableAlarm"} \X ALID \X BOOLEAN : m = Message("S5F3", <<x>>)
        BY <1>5, Zenon
    <2>2. x \in Entries
        BY Zenon DEF Entries
    <2> QED  BY <1>0, <2>1, <2>2, ShortWork, MessageFields DEF writeMessages
<1>6. CASE m \in Malformed("S5F3")
    BY <1>0, <1>6, MalformedFields
<1> QED  BY <1>1, <1>2, <1>3, <1>4, <1>5, <1>6, Zenon DEF ControlMessages

\* One or two entries that write, in a message that writes.
LEMMA WriteWellFormed ==
    ASSUME NEW sf \in writeMessages
    PROVE  /\ \A d \in Entries : WellFormed(Message(sf, <<d>>))
           /\ \A d, e \in Entries : WellFormed(Message(sf, <<d, e>>))
<1>1. sf \in SF
    BY DEF writeMessages, SF
<1> QED  BY <1>1, ShortWork, MessageFields

\* The messages about constants, reports, events and commands are well formed.
LEMMA DataWellFormed == \A m \in DataMessages : WellFormed(m)
<1> SUFFICES ASSUME NEW m \in DataMessages PROVE WellFormed(m)
    OBVIOUS
<1>0. {"S2F15", "S2F33", "S2F35", "S2F37", "S2F41"} \subseteq writeMessages
    BY DEF writeMessages
<1>1. CASE m \in StatusRequests \cup ConstantRequests
    <2>1. PICK sf \in {"S1F1", "S1F3", "S1F11", "S2F13", "S2F29"} : m = Message(sf, <<>>)
        BY <1>1 DEF StatusRequests, ConstantRequests
    <2>2. sf \in SF
        BY DEF SF
    <2> QED  BY <2>1, <2>2, ShortWork, MessageFields
<1>2. ASSUME NEW sf \in writeMessages, NEW X, X \subseteq Entries, m \in {Message(sf, <<x>>) : x \in X}
      PROVE  WellFormed(m)
    <2>1. PICK x \in X : m = Message(sf, <<x>>)
        BY <1>2, Zenon
    <2> QED  BY <1>2, <2>1, WriteWellFormed
<1> DEFINE SetECs    == {"SetEC"} \X ECID
           Defines   == {"DefineReport"} \X RPTID \X VIDs
           Links     == {"LinkEventReport"} \X CEID \X SUBSET RPTID
           Enables   == {"EnableEvent"} \X CEID \X BOOLEAN
           EnableAll == {"EnableAllEvents"} \X BOOLEAN
<1>3. /\ SetECs \subseteq Entries /\ Defines \subseteq Entries /\ Links \subseteq Entries
      /\ Enables \subseteq Entries /\ EnableAll \subseteq Entries
    BY Zenon DEF Entries
<1> DEFINE
      Sets == { Message("S2F15", <<x, y>>) : x \in SetECs, y \in SetECs }
      Definitions == { Message("S2F33", <<x>>) : x \in Defines }
      Redefinitions == { Message("S2F33", <<<<"DeleteReport", r>>, <<"DefineReport", r, v>>>>) :
                 r \in RPTID, v \in VIDs }
      Deletions == { Message("S2F33", <<<<"DeleteAllReports">>>>) }
      Linkings == { Message("S2F35", <<x>>) : x \in Links }
      Enablings == { Message("S2F37", <<x>>) : x \in Enables }
      GlobalEnablings == { Message("S2F37", <<x>>) : x \in EnableAll }
      Executions == { Message("S2F41", <<<<"Execute">>>>) }
      BadSets == { x \in Malformed("S2F15") : x.ack = "none" }
      BadOthers == UNION { Malformed(sf) : sf \in {"S2F33", "S2F35", "S2F37", "S2F41"} }
<1>4. CASE m \in Sets
    <2> HIDE DEF SetECs
    <2>1. PICK x \in SetECs, y \in SetECs : m = Message("S2F15", <<x, y>>)
        BY <1>4
    <2> QED  BY <1>0, <1>3, <2>1, WriteWellFormed
<1>5. CASE m \in Redefinitions
    <2>1. PICK r \in RPTID, v \in VIDs :
             m = Message("S2F33", <<<<"DeleteReport", r>>, <<"DefineReport", r, v>>>>)
        BY <1>5
    <2>2. <<"DeleteReport", r>> \in Entries /\ <<"DefineReport", r, v>> \in Entries
        BY DEF Entries
    <2> QED  BY <1>0, <2>1, <2>2, WriteWellFormed
<1>6. CASE m \in Definitions
    BY <1>0, <1>2, <1>3, <1>6
<1>7. CASE m \in Linkings
    BY <1>0, <1>2, <1>3, <1>7
<1>8. CASE m \in Enablings
    BY <1>0, <1>2, <1>3, <1>8
<1>9. CASE m \in GlobalEnablings
    BY <1>0, <1>2, <1>3, <1>9
<1>10. CASE m \in Deletions \cup Executions
    <2>1. <<"DeleteAllReports">> \in Entries /\ <<"Execute">> \in Entries
        BY DEF Entries
    <2> QED  BY <1>0, <1>10, <2>1, WriteWellFormed
<1>11. CASE m \in BadSets \cup BadOthers
    <2>1. PICK sf \in {"S2F15", "S2F33", "S2F35", "S2F37", "S2F41"} : m \in Malformed(sf)
        BY <1>11
    <2>2. sf \in SF
        BY DEF SF
    <2> QED  BY <2>1, <2>2, MalformedFields
<1>12. DataMessages = StatusRequests \cup ConstantRequests \cup Sets \cup Definitions \cup Redefinitions \cup Deletions
                       \cup Linkings \cup Enablings \cup GlobalEnablings \cup Executions \cup BadSets \cup BadOthers
    BY DEF DataMessages
<1> HIDE DEF Sets, Definitions, Redefinitions, Deletions, Linkings, Enablings, GlobalEnablings, Executions, BadSets, BadOthers
<1>13. m \in StatusRequests \cup ConstantRequests \cup Sets \cup Definitions \cup Redefinitions \cup Deletions
             \cup Linkings \cup Enablings \cup GlobalEnablings \cup Executions \cup BadSets \cup BadOthers
    BY <1>12
<1> QED
    BY <1>1, <1>4, <1>5, <1>6, <1>7, <1>8, <1>9, <1>10, <1>11, <1>13

-----------------------------------------------------------------------------
(* The message loop. *)

Policy == SessionPolicy \cup {NoPolicy}
Requests == [pc : {"idle", "run"}, sf : SF \cup {"none"}, by : Policy, work : Seq(Entries), ack : Acks]

\* The request under way has well-typed work left, and none that writes when a
\* restricted policy admitted it - also when the policy has been replaced since.
HandlerInv ==
    /\ policy \in Policy
    /\ customHandlers \subseteq SF
    /\ handler \in Requests
    /\ Restricted(handler.by) => handler.work \in Seq(Harmless)

\* What a step may do to the loop.
LoopStep ==
    \/ \E m \in ControlMessages \cup DataMessages : HandleMessage(m)
    \/ \E op : Running(op) /\ \E a \in Acks : Advance(a)
    \/ Reply
    \/ \E p \in Policies : SetPolicy(p)
    \/ UNCHANGED handlerVars

\* The policies of the package are policies, and restricted ones admit no message
\* that writes.
LEMMA RestrictedAdmitsNoWrite ==
    /\ {MonitorPolicy, ReadOnlyPolicy} \subseteq SessionPolicy
    /\ \A p, sf : Restricted(p) /\ IsAllowed(p, sf) => sf \notin writeMessages
<1>1. MonitorPolicy \in SessionPolicy
    BY DEF MonitorPolicy, SessionPolicy, SF
<1>2. ReadOnlyPolicy \in SessionPolicy
    BY DEF ReadOnlyPolicy, SessionPolicy, SF
<1>3. MonitorPolicy # NoPolicy /\ ReadOnlyPolicy # NoPolicy
    BY <1>1, <1>2, PolicyAssumption
<1>4. ASSUME NEW sf, IsAllowed(MonitorPolicy, sf) PROVE sf \notin writeMessages
    <2>1. sf \in MonitorPolicy.allowed
        BY <1>3, <1>4 DEF IsAllowed, MonitorPolicy
    <2> QED  BY <2>1 DEF MonitorPolicy, writeMessages
<1>5. ASSUME NEW sf, IsAllowed(ReadOnlyPolicy, sf) PROVE sf \notin writeMessages
    <2>1. ReadOnlyPolicy.readOnly
        BY DEF ReadOnlyPolicy
    <2> QED  BY <1>3, <1>5, <2>1 DEF IsAllowed
<1> QED  BY <1>1, <1>2, <1>4, <1>5 DEF Restricted

\* The loop keeps its invariant: HandleMessage admits, each section takes one
\* entry, Reply ends.
LEMMA LoopKeeps ==
    ASSUME HandlerInv, LoopStep
    PROVE  HandlerInv'
<1>1. ASSUME NEW m \in ControlMessages \cup DataMessages, HandleMessage(m) PROVE HandlerInv'
    <2>1. WellFormed(m)
        BY ControlWellFormed, DataWellFormed
    <2>2. policy' = policy /\ policy \in Policy /\ customHandlers' \subseteq SF
        BY <1>1 DEF HandleMessage, HandlerInv
    <2>3. ASSUME NEW work \in Seq(Entries), NEW ack \in Acks,
                 Restricted(policy) => work \in Seq(Harmless),
                 handler' = Request(m.sf, work, ack)
          PROVE  HandlerInv'
        <3>1. handler' \in Requests /\ handler'.by = policy /\ handler'.work = work
            BY <2>1, <2>2, <2>3 DEF Request, Requests, WellFormed
        <3> QED  BY <2>2, <2>3, <3>1 DEF HandlerInv
    <2>4. <<>> \in Seq(Entries) /\ <<>> \in Seq(Harmless)
        BY ShortWork
    <2>5. {"abort", "ok", "none"} \subseteq Acks
        BY DEF Acks
    <2>6. CASE ~IsAllowed(policy, m.sf)
        <3>1. handler' = Request(m.sf, <<>>, "abort")
            BY <1>1, <2>6 DEF HandleMessage
        <3> QED  BY <2>3, <2>4, <2>5, <3>1
    <2>7. CASE IsAllowed(policy, m.sf) /\ m.sf \in customHandlers
        <3>1. PICK ack \in {"ok", "none"} : handler' = Request(m.sf, <<>>, ack)
            BY <1>1, <2>7 DEF HandleMessage
        <3> QED  BY <2>3, <2>4, <2>5, <3>1
    <2>8. CASE IsAllowed(policy, m.sf) /\ m.sf \notin customHandlers
        <3>1. handler' = Request(m.sf, m.work, m.ack)
            BY <1>1, <2>8 DEF HandleMessage
        <3>2. Restricted(policy) => m.work \in Seq(Harmless)
            BY <2>1, <2>8, RestrictedAdmitsNoWrite DEF WellFormed
        <3> QED  BY <2>1, <2>3, <3>1, <3>2 DEF WellFormed
    <2> QED  BY <2>6, <2>7, <2>8
<1>2. ASSUME NEW op, Running(op), NEW a \in Acks, Advance(a) PROVE HandlerInv'
    <2>1. /\ handler' = [handler EXCEPT !.work = Tail(@), !.ack = a]
          /\ policy' = policy /\ customHandlers' = customHandlers
        BY <1>2 DEF Advance
    <2>2. handler.work \in Seq(Entries) /\ handler.work # <<>> /\ handler \in Requests
        BY <1>2 DEF Running, HandlerInv, Requests
    <2>3. Tail(handler.work) \in Seq(Entries)
        BY <2>2
    <2>4. handler' \in Requests
        BY <2>1, <2>2, <2>3 DEF Requests
    <2>5. handler'.by = handler.by /\ handler'.work = Tail(handler.work)
        BY <2>1, <2>2 DEF Requests
    <2>6. handler.work \in Seq(Harmless) => Tail(handler.work) \in Seq(Harmless)
        BY <2>2
    <2> QED  BY <2>1, <2>4, <2>5, <2>6 DEF HandlerInv
<1>3. CASE Reply
    <2>1. handler' = Idle /\ policy' = policy /\ customHandlers' = customHandlers
        BY <1>3 DEF Reply
    <2>2. Idle \in Requests /\ Idle.work = <<>>
        BY ShortWork DEF Idle, Requests, Policy, Acks
    <2> QED  BY <2>1, <2>2, ShortWork DEF HandlerInv
<1>4. ASSUME NEW p \in Policies, SetPolicy(p) PROVE HandlerInv'
    BY <1>4, PolicyAssumption DEF SetPolicy, HandlerInv, Policy
<1>5. CASE UNCHANGED handlerVars
    BY <1>5 DEF handlerVars, HandlerInv
<1> QED  BY <1>1, <1>2, <1>3, <1>4, <1>5 DEF LoopStep

\* The steps of both components are steps of the loop.
LEMMA ControlLoops ==
    ASSUME HandlerInv, ControlNext
    PROVE  LoopStep
<1>0. handler.ack \in Acks /\ "error" \in Acks
    BY DEF HandlerInv, Requests, Acks
<1>1. ASSUME NEW op, HandleState(op) PROVE LoopStep
    BY <1>0, <1>1 DEF HandleState, LoopStep
<1>2. CASE HandleEnableAlarm
    BY <1>0, <1>2 DEF HandleEnableAlarm, LoopStep
<1>3. CASE UNCHANGED handlerVars
    BY <1>3 DEF LoopStep
<1>4. ASSUME NEW c, SenderStep(c) PROVE UNCHANGED handlerVars
    BY <1>4 DEF SenderStep, EvaluateSnapshot, EvaluateCompare, EvaluateAct, EvaluateGoOffline,
                ReportAlarm
<1>5. CASE \/ DriveState \/ (\E t \in Thresholds : SetThreshold(t))
           \/ (\E a \in AlarmAction : SetAction(a)) \/ (\E on \in BOOLEAN : EnableAllAlarms(on))
           \/ \E c \in AlarmCallers, a \in ALID, on \in BOOLEAN : SendAlarm(c, a, on)
    BY <1>3, <1>5 DEF DriveState, SetThreshold, SetAction, EnableAllAlarms, SendAlarm
<1> QED  BY <1>1, <1>2, <1>3, <1>4, <1>5 DEF ControlNext, ControlHandler, LoopStep

LEMMA DataLoops ==
    ASSUME HandlerInv, DataNext
    PROVE  LoopStep
<1>0. handler.ack \in Acks
    BY DEF HandlerInv, Requests
<1>1. CASE DataHandler
    BY <1>0, <1>1 DEF DataHandler, HandleSetEC, HandleReports, HandleLink, HandleEnable,
                      HandleExecute, Section, LoopStep
<1>2. CASE \/ (\E c \in ECID, v \in Values : ApiSetEC(c, v)) \/ ApiExecute \/ SetSV
           \/ (\E c \in EventCallers, e \in CEID : SendEvent(c, e))
           \/ \E c \in EventCallers : CollectReports(c) \/ ReportEvent(c)
    BY <1>2 DEF ApiSetEC, ApiExecute, SetSV, SendEvent, CollectReports, ReportEvent, LoopStep
<1> QED  BY <1>1, <1>2 DEF DataNext, LoopStep

-----------------------------------------------------------------------------
(* Constants, reports and events. *)

dataAll == <<handlerVars, dataVars>>
Reports == [pc : {"idle", "collect", "send"}, ce : CEID, rpts : SUBSET RPTID]
Events == [enabled : BOOLEAN, reports : SUBSET RPTID]

\* The types of the managers and of the calls of SendEvent.
DataTypes ==
    /\ ecs \in [ECID -> Values]
    /\ svs \in 0..1 /\ commands \in 0..1
    /\ DOMAIN reports \subseteq RPTID /\ \A r \in DOMAIN reports : reports[r] \in VIDs
    /\ events \in [CEID -> Events]
    /\ reporter \in [EventCallers -> Reports]

\* What the first entry of the work holds.
LEMMA FirstEntry ==
    ASSUME HandlerInv, NEW op, Running(op)
    PROVE  /\ op = "EnableAlarm" => Arg(1) \in ALID /\ Arg(2) \in BOOLEAN
           /\ op = "SetEC" => Arg(1) \in ECID
           /\ op = "DefineReport" => Arg(1) \in RPTID /\ Arg(2) \in VIDs
           /\ op = "DeleteReport" => Arg(1) \in RPTID
           /\ op = "LinkEventReport" => Arg(1) \in CEID /\ Arg(2) \in SUBSET RPTID
           /\ op = "EnableEvent" => Arg(1) \in CEID /\ Arg(2) \in BOOLEAN
           /\ op = "EnableAllEvents" => Arg(1) \in BOOLEAN
           /\ Restricted(handler.by) => op \in {"EnableComm", "CommEstablished"}
<1> DEFINE x == Head(handler.work)
<1>1. handler.work \in Seq(Entries) /\ handler.work # <<>> /\ x[1] = op
    BY DEF HandlerInv, Requests, Running
<1>2. x \in Entries /\ (handler.work \in Seq(Harmless) => x \in Harmless)
    BY <1>1
<1>3. x[1] = op /\ Arg(1) = x[2] /\ Arg(2) = x[3]
    BY <1>1 DEF Arg
<1> HIDE DEF x
<1>4. Restricted(handler.by) => op \in {"EnableComm", "CommEstablished"}
    <2>1. Restricted(handler.by) => x \in Harmless
        BY <1>2 DEF HandlerInv
    <2> QED  BY <1>3, <2>1 DEF Harmless
<1>5. CASE x \in { <<o>> : o \in {"EnableComm", "CommEstablished", "GoOffline", "GoOnlineRemote",
                                  "DeleteAllReports", "Execute"} }
    BY <1>3, <1>4, <1>5
<1>6. CASE x \in {"EnableAlarm"} \X ALID \X BOOLEAN
    BY <1>3, <1>4, <1>6
<1>7. CASE x \in {"SetEC"} \X ECID
    BY <1>3, <1>4, <1>7
<1>8. CASE x \in {"DefineReport"} \X RPTID \X VIDs
    BY <1>3, <1>4, <1>8
<1>9. CASE x \in {"DeleteReport"} \X RPTID
    BY <1>3, <1>4, <1>9
<1>10. CASE x \in {"LinkEventReport"} \X CEID \X SUBSET RPTID
    BY <1>3, <1>4, <1>10
<1>11. CASE x \in {"EnableEvent"} \X CEID \X BOOLEAN
    BY <1>3, <1>4, <1>11
<1>12. CASE x \in {"EnableAllEvents"} \X BOOLEAN
    BY <1>3, <1>4, <1>12
<1> QED  BY <1>2, <1>5, <1>6, <1>7, <1>8, <1>9, <1>10, <1>11, <1>12 DEF Entries

\* A call of SendEvent that is not under way.
LEMMA NotReportingType ==
    ASSUME EventCallers # {}
    PROVE  NotReporting \in Reports /\ NotReporting.pc = "idle" /\ NotReporting.rpts = {}
<1>1. (CHOOSE e \in CEID : TRUE) \in CEID
    BY DataAssumption
<1>2. FALSE \in BOOLEAN
    BY Zenon
<1> QED  BY <1>1, <1>2 DEF NotReporting, Reports

\* The equipment starts with the types.
LEMMA DataInitType == DataInit => DataTypes
<1> SUFFICES ASSUME DataInit PROVE DataTypes
    OBVIOUS
<1>1. ecs \in [ECID -> Values] /\ svs \in 0..1 /\ commands \in 0..1
    BY DEF DataInit, Values
<1>2. DOMAIN reports = {}
    BY DEF DataInit, NoReports
<1>3. events \in [CEID -> Events]
    <2>1. [enabled |-> TRUE, reports |-> {}] \in Events
        BY Zenon DEF Events
    <2> QED  BY <2>1 DEF DataInit
<1>4. reporter \in [EventCallers -> Reports]
    BY NotReportingType DEF DataInit
<1> QED  BY <1>1, <1>2, <1>3, <1>4 DEF DataTypes

\* Every step of the message loop and of the servers keeps the types.
LEMMA DataTypeStep ==
    ASSUME HandlerInv, DataTypes, [DataNext]_dataAll
    PROVE  DataTypes'
<1>1. ASSUME NEW c, NEW v \in Values, SetEC(c, v) PROVE ecs' \in [ECID -> Values]
    BY <1>1 DEF SetEC, DataTypes
<1>2. CASE HandleSetEC
    <2>1. ecs' \in [ECID -> Values]
        BY <1>1, <1>2 DEF HandleSetEC, Values
    <2> QED  BY <1>2, <2>1 DEF HandleSetEC, DataTypes
<1>3. CASE HandleReports
    <2>1. CASE Section("DefineReport") /\ DefineReport(Arg(1), Arg(2))
        <3>1. Arg(1) \in RPTID /\ Arg(2) \in VIDs
            BY <2>1, FirstEntry DEF Section
        <3>2. DOMAIN reports' \subseteq RPTID /\ \A r \in DOMAIN reports' : reports'[r] \in VIDs
            BY <2>1, <3>1 DEF DefineReport, DataTypes
        <3> QED  BY <1>3, <2>1, <3>2 DEF HandleReports, DefineReport, DataTypes
    <2>2. CASE Section("DeleteReport") /\ DeleteReport(Arg(1))
        <3>1. DOMAIN reports' \subseteq RPTID /\ \A r \in DOMAIN reports' : reports'[r] \in VIDs
            BY <2>2 DEF DeleteReport, DataTypes
        <3> QED  BY <1>3, <2>2, <3>1 DEF HandleReports, DeleteReport, DataTypes
    <2>3. CASE Section("DeleteAllReports") /\ DeleteAllReports
        <3>1. DOMAIN reports' = {}
            BY <2>3 DEF DeleteAllReports, NoReports
        <3>2. events' \in [CEID -> Events]
            <4>1. \A e \in CEID : [events[e] EXCEPT !.reports = {}] \in Events
                BY DEF DataTypes, Events
            <4> QED  BY <2>3, <4>1 DEF DeleteAllReports
        <3> QED  BY <1>3, <3>1, <3>2 DEF HandleReports, DataTypes
    <2> QED  BY <1>3, <2>1, <2>2, <2>3 DEF HandleReports
<1>4. CASE HandleLink
    <2>1. Arg(1) \in CEID /\ Arg(2) \in SUBSET RPTID
        BY <1>4, FirstEntry DEF HandleLink, Section
    <2>2. [events[Arg(1)] EXCEPT !.reports = Arg(2)] \in Events
        BY <2>1 DEF DataTypes, Events
    <2>3. events' \in [CEID -> Events]
        BY <1>4, <2>1, <2>2 DEF HandleLink, LinkEventReport, DataTypes
    <2> QED  BY <1>4, <2>3 DEF HandleLink, DataTypes
<1>5. CASE HandleEnable
    <2>1. CASE Section("EnableEvent") /\ EnableEvent(Arg(1), Arg(2))
        <3>1. Arg(1) \in CEID /\ Arg(2) \in BOOLEAN
            BY <2>1, FirstEntry DEF Section
        <3>2. [events[Arg(1)] EXCEPT !.enabled = Arg(2)] \in Events
            BY <3>1 DEF DataTypes, Events
        <3>3. events' \in [CEID -> Events]
            BY <2>1, <3>1, <3>2 DEF EnableEvent, DataTypes
        <3> QED  BY <1>5, <3>3 DEF HandleEnable, DataTypes
    <2>2. CASE Section("EnableAllEvents") /\ EnableAllEvents(Arg(1))
        <3>1. Arg(1) \in BOOLEAN
            BY <2>2, FirstEntry DEF Section
        <3>2. \A e \in CEID : [events[e] EXCEPT !.enabled = Arg(1)] \in Events
            BY <3>1 DEF DataTypes, Events
        <3>3. events' \in [CEID -> Events]
            BY <2>2, <3>2 DEF EnableAllEvents
        <3> QED  BY <1>5, <3>3 DEF HandleEnable, DataTypes
    <2> QED  BY <1>5, <2>1, <2>2 DEF HandleEnable
<1>6. CASE HandleExecute \/ ApiExecute
    BY <1>6 DEF HandleExecute, ApiExecute, Execute, DataTypes
<1>7. ASSUME NEW c \in ECID, NEW v \in Values, ApiSetEC(c, v) PROVE DataTypes'
    <2>1. ecs' \in [ECID -> Values]
        BY <1>1, <1>7 DEF ApiSetEC
    <2> QED  BY <1>7, <2>1 DEF ApiSetEC, DataTypes
<1>8. CASE SetSV
    BY <1>8 DEF SetSV, DataTypes
<1>9. ASSUME NEW c \in EventCallers, NEW e \in CEID, SendEvent(c, e) PROVE DataTypes'
    <2>1. [reporter[c] EXCEPT !.pc = "collect", !.ce = e] \in Reports
        BY DEF DataTypes, Reports
    <2>2. reporter' \in [EventCallers -> Reports]
        BY <1>9, <2>1 DEF SendEvent, DataTypes
    <2> QED  BY <1>9, <2>2 DEF SendEvent, DataTypes
<1>10. ASSUME NEW c \in EventCallers, CollectReports(c) PROVE DataTypes'
    <2> DEFINE e == reporter[c].ce
    <2>1. e \in CEID /\ events[e] \in Events
        BY DEF DataTypes, Reports
    <2>2. events[e].enabled \in BOOLEAN /\ GetEventReportVIDs(e) \in SUBSET RPTID
        BY <2>1 DEF Events, GetEventReportVIDs, LinkedReports
    <2>3. [reporter[c] EXCEPT !.pc = "send", !.rpts = GetEventReportVIDs(e)]
            \in Reports
        BY <2>2 DEF DataTypes, Reports
    <2>4. reporter' \in [EventCallers -> Reports]
        BY <1>10, <2>3 DEF CollectReports, DataTypes
    <2> QED  BY <1>10, <2>4 DEF CollectReports, DataTypes
<1>11. ASSUME NEW c \in EventCallers, ReportEvent(c) PROVE DataTypes'
    <2>1. reporter' \in [EventCallers -> Reports]
        BY <1>11, NotReportingType DEF ReportEvent, DataTypes
    <2> QED  BY <1>11, <2>1 DEF ReportEvent, DataTypes
<1>12. CASE UNCHANGED dataVars
    BY <1>12 DEF dataVars, DataTypes
<1> QED
    BY <1>2, <1>3, <1>4, <1>5, <1>6, <1>7, <1>8, <1>9, <1>10, <1>11, <1>12
       DEF DataNext, DataHandler, dataAll

\* The loop and the managers have their types in every reachable state.
LEMMA DataTypesHold == DataSpec => [](HandlerInv /\ DataTypes)
<1>1. HandlerInit => HandlerInv
    <2>1. Idle \in Requests /\ Idle.work = <<>>
        BY ShortWork DEF Idle, Requests, Policy, Acks
    <2> QED  BY <2>1, ShortWork, RestrictedAdmitsNoWrite DEF HandlerInit, HandlerInv, Policy
<1>2. HandlerInv /\ DataTypes /\ [DataNext]_dataAll => HandlerInv' /\ DataTypes'
    <2> SUFFICES ASSUME HandlerInv, DataTypes, [DataNext]_dataAll PROVE HandlerInv' /\ DataTypes'
        OBVIOUS
    <2>1. LoopStep
        BY DataLoops DEF LoopStep, dataAll
    <2> QED  BY <2>1, LoopKeeps, DataTypeStep
<1> QED  BY <1>1, <1>2, DataInitType, PTL DEF DataSpec, dataAll

\* SetEC keeps every constant within its bounds.
LEMMA SetECInRange ==
    ASSUME DataTypes, ConstantsInRange, NEW c, NEW v \in Values, SetEC(c, v)
    PROVE  ConstantsInRange'
<1> SUFFICES ASSUME NEW d \in ECID, MinValue[d] # NoBound \/ MaxValue[d] # NoBound
             PROVE  /\ ecs'[d] \in Numbers
                    /\ MinValue[d] # NoBound => ecs'[d] >= MinValue[d]
                    /\ MaxValue[d] # NoBound => ecs'[d] <= MaxValue[d]
    BY DEF ConstantsInRange
<1>1. CASE ecs'[d] = ecs[d]
    BY <1>1 DEF ConstantsInRange
<1>2. CASE ecs'[d] # ecs[d]
    <2>1. d = c /\ checkECRange(d, v) /\ ecs'[d] = v
        BY <1>2 DEF SetEC, DataTypes
    <2>2. v # Item
        BY <2>1 DEF checkECRange, Numeric
    <2>3. v \in Numbers
        BY <2>2 DEF Values
    <2> QED  BY <2>1, <2>2, <2>3 DEF checkECRange, Numeric
<1> QED  BY <1>1, <1>2

\* A step writes a constant through SetEC or not at all.
LEMMA RangeStep ==
    ASSUME DataTypes, ConstantsInRange, [DataNext]_dataAll
    PROVE  ConstantsInRange'
<1>1. CASE HandleSetEC
    <2>1. SetEC(Arg(1), Item) /\ Item \in Values
        BY <1>1 DEF HandleSetEC, Values
    <2> QED  BY <2>1, SetECInRange
<1>2. ASSUME NEW c \in ECID, NEW v \in Values, ApiSetEC(c, v) PROVE ConstantsInRange'
    BY <1>2, SetECInRange DEF ApiSetEC
<1>3. CASE UNCHANGED ecs
    BY <1>3 DEF ConstantsInRange
<1>4. HandleSetEC \/ (\E c \in ECID, v \in Values : ApiSetEC(c, v)) \/ UNCHANGED ecs
    BY DEF DataNext, DataHandler, HandleReports, HandleLink, HandleEnable, HandleExecute,
           ApiExecute, SetSV, SendEvent, CollectReports, ReportEvent, dataAll, dataVars
<1> QED  BY <1>1, <1>2, <1>3, <1>4

\* A constant with a declared bound holds a number within its bounds, for any
\* constants and bounds and whoever writes them: S2F15, REST, gRPC.
THEOREM ConstantsStayInRange == DataSpec => []ConstantsInRange
<1>1. DataInit => ConstantsInRange
    BY DEF DataInit, ConstantsInRange
<1>2. DataTypes /\ ConstantsInRange /\ [DataNext]_dataAll => ConstantsInRange'
    BY RangeStep
<1> QED  BY <1>1, <1>2, DataTypesHold, PTL DEF DataSpec, dataAll

-----------------------------------------------------------------------------
(* The whole equipment. *)

\* The alarms have their types, S5F3 included.
AlarmTable == alarms \in [ALID -> [set : BOOLEAN, enabled : BOOLEAN]]

LEMMA AlarmTableStep ==
    ASSUME HandlerInv, AlarmTable, ControlNext
    PROVE  AlarmTable'
<1> DEFINE Alarm == [set : BOOLEAN, enabled : BOOLEAN]
<1>1. CASE HandleEnableAlarm
    <2>1. Arg(1) \in ALID /\ Arg(2) \in BOOLEAN
        BY <1>1, FirstEntry DEF HandleEnableAlarm
    <2>2. [alarms[Arg(1)] EXCEPT !.enabled = Arg(2)] \in Alarm
        BY <2>1 DEF AlarmTable
    <2> QED  BY <1>1, <2>1, <2>2 DEF HandleEnableAlarm, EnableAlarm, AlarmTable
<1>2. ASSUME NEW on \in BOOLEAN, EnableAllAlarms(on) PROVE AlarmTable'
    <2>1. \A a \in ALID : [alarms[a] EXCEPT !.enabled = on] \in Alarm
        BY DEF AlarmTable
    <2> QED  BY <1>2, <2>1 DEF EnableAllAlarms, AlarmTable
<1>3. ASSUME NEW c \in AlarmCallers, NEW a \in ALID, NEW on \in BOOLEAN, SendAlarm(c, a, on)
      PROVE  AlarmTable'
    <2>1. [alarms[a] EXCEPT !.set = on] \in Alarm
        BY DEF AlarmTable
    <2> QED  BY <1>3, <2>1 DEF SendAlarm, SetAlarm, AlarmTable
<1>4. CASE UNCHANGED alarms
    BY <1>4 DEF AlarmTable
<1>5. ASSUME NEW c \in AlarmCallers, SenderStep(c) PROVE UNCHANGED alarms
    BY <1>5 DEF SenderStep, EvaluateSnapshot, EvaluateCompare, EvaluateAct, EvaluateGoOffline,
                ReportAlarm
<1> QED
    BY <1>1, <1>2, <1>3, <1>4, <1>5
       DEF ControlNext, ControlHandler, HandleState, DriveState, SetThreshold, SetAction

\* The invariants of the components together.
EquipmentInv == HandlerInv /\ DataTypes /\ AlarmTable /\ StateInv /\ InterlockInv

\* A step of the equipment is a step of one component, and the other component's
\* state is unchanged.
LEMMA EquipmentSteps ==
    ASSUME [MCNext]_vars
    PROVE  \/ ControlNext /\ UNCHANGED dataVars
           \/ DataNext /\ UNCHANGED controlVars
           \/ UNCHANGED <<handlerVars, controlVars, dataVars>>
BY DEF MCNext, InterlockFocus, ControlFocus, DataFocus, vars

LEMMA EquipmentStep ==
    ASSUME EquipmentInv, [MCNext]_vars
    PROVE  EquipmentInv'
<1> USE DEF EquipmentInv
<1>1. CASE ControlNext /\ UNCHANGED dataVars
    <2>1. HandlerInv'
        BY <1>1, ControlLoops, LoopKeeps
    <2>2. DataTypes'
        BY <1>1 DEF dataVars, DataTypes
    <2> QED  BY <1>1, <2>1, <2>2, AlarmTableStep, StateStep, InterlockStep
<1>2. CASE UNCHANGED controlVars /\ (DataNext \/ UNCHANGED <<handlerVars, dataVars>>)
    <2>1. HandlerInv' /\ DataTypes'
        BY <1>2, DataLoops, LoopKeeps, DataTypeStep DEF LoopStep, dataAll
    <2>2. AlarmTable' /\ StateInv'
        BY <1>2 DEF controlVars, stateVars, AlarmTable, StateInv
    <2>3. InterlockInv'
        BY <1>2 DEF controlVars, stateVars, InterlockInv, AlarmTypes, AlarmShape, OnTheWay,
                    CallsForOffline, IsOnline
    <2> QED  BY <2>1, <2>2, <2>3
<1> QED  BY <1>1, <1>2, EquipmentSteps

LEMMA EquipmentInvariant == MCSpec => []EquipmentInv
<1>1. MCInit => EquipmentInv
    <2> SUFFICES ASSUME MCInit PROVE EquipmentInv
        OBVIOUS
    <2>1. Idle \in Requests /\ Idle.work = <<>>
        BY ShortWork DEF Idle, Requests, Policy, Acks
    <2>2. HandlerInv
        <3>1. handler = Idle /\ policy \in Policy
            BY RestrictedAdmitsNoWrite DEF MCInit, Policy
        <3>2. customHandlers \subseteq SF
            BY DEF MCInit, SF
        <3> QED  BY <2>1, <3>1, <3>2, ShortWork DEF HandlerInv
    <2>3. AlarmTable
        <3>1. [set |-> FALSE, enabled |-> TRUE] \in [set : BOOLEAN, enabled : BOOLEAN]
            BY Zenon
        <3> QED  BY <3>1 DEF MCInit, ControlInit, AlarmTable
    <2>4. StateInv
        BY DEF MCInit, ControlInit, StateInv, CommState, ControlState
    <2> QED  BY <2>2, <2>3, <2>4, DataInitType, InterlockInit DEF MCInit, EquipmentInv
<1>2. EquipmentInv /\ [MCNext]_vars => EquipmentInv'
    BY EquipmentStep
<1> QED  BY <1>1, <1>2, PTL DEF MCSpec

\* The types of the whole equipment: whatever the host sends and the servers write,
\* no handler uses an entry of the wrong shape and Evaluate no interlock that is nil.
THEOREM EquipmentTypes == MCSpec => []TypeOK
<1>1. EquipmentInv => TypeOK
    <2> SUFFICES ASSUME EquipmentInv PROVE TypeOK
        OBVIOUS
    <2>1. DataTypeOK
        BY DEF EquipmentInv, DataTypes, DataTypeOK, Events, Reports
    <2>2. ControlTypeOK
        BY DEF EquipmentInv, AlarmTable, StateInv, InterlockInv, AlarmTypes, Calls, Byte, Evaluating,
               ControlTypeOK
    <2> QED  BY <2>1, <2>2 DEF EquipmentInv, HandlerInv, Policy, TypeOK
<1> QED  BY <1>1, EquipmentInvariant, PTL

\* No step of the message loop for a message that MonitorPolicy or ReadOnlyPolicy
\* admitted writes, though the policy is replaced while the message is handled.
THEOREM RestrictedIsHarmless == MCSpec => RestrictedWritesNothing
<1> DEFINE Written == <<controlState, alarms, ecs, reports, events, commands>>
<1>1. ASSUME EquipmentInv, [MCNext]_vars, handler' # handler, handler.pc = "run",
             Restricted(handler.by)
      PROVE  UNCHANGED Written
    <2>0. HandlerInv
        BY <1>1 DEF EquipmentInv
    <2>e. ASSUME NEW op, Running(op) PROVE op \in {"EnableComm", "CommEstablished"}
        BY <1>1, <2>0, <2>e, FirstEntry
    <2>1. CASE ControlNext /\ UNCHANGED dataVars
        <3>1. ControlHandler \/ (Reply /\ UNCHANGED <<stateVars, alarms, interlock, sender>>)
            <4>1. ASSUME NEW m, HandleMessage(m) PROVE FALSE
                BY <1>1, <4>1 DEF HandleMessage
            <4>2. ASSUME NEW p, SetPolicy(p) PROVE FALSE
                BY <1>1, <4>2 DEF SetPolicy
            <4>3. ASSUME NEW c, SenderStep(c) PROVE UNCHANGED handlerVars
                BY <4>3 DEF SenderStep, EvaluateSnapshot, EvaluateCompare, EvaluateAct,
                            EvaluateGoOffline, ReportAlarm
            <4>4. ~UNCHANGED handlerVars
                BY <1>1 DEF handlerVars
            <4>5. \/ DriveState \/ (\E t \in Thresholds : SetThreshold(t))
                  \/ (\E a \in AlarmAction : SetAction(a)) \/ (\E on \in BOOLEAN : EnableAllAlarms(on))
                  \/ (\E c \in AlarmCallers, a \in ALID, on \in BOOLEAN : SendAlarm(c, a, on))
                  => UNCHANGED handlerVars
                BY DEF DriveState, SetThreshold, SetAction, EnableAllAlarms, SendAlarm
            <4> QED  BY <2>1, <4>1, <4>2, <4>3, <4>4, <4>5, Zenon DEF ControlNext
        <3>2. ~HandleEnableAlarm
            BY <2>e DEF HandleEnableAlarm
        <3>3. ASSUME NEW op, HandleState(op) PROVE UNCHANGED <<controlState, alarms>>
            <4>1. op \in {"EnableComm", "CommEstablished"}
                BY <2>e, <3>3 DEF HandleState
            <4>2. StateOf(op) => UNCHANGED controlState
                BY <4>1 DEF StateOf, EnableComm, CommEstablished
            <4> QED  BY <3>3, <4>2 DEF HandleState, stateVars
        <3>4. UNCHANGED <<controlState, alarms>>
            BY <3>1, <3>2, <3>3 DEF ControlHandler, stateVars
        <3> QED  BY <2>1, <3>4 DEF dataVars
    <2>2. CASE DataNext /\ UNCHANGED controlVars
        <3>1. ~DataHandler
            BY <2>e DEF DataHandler, HandleSetEC, HandleReports, HandleLink, HandleEnable,
                        HandleExecute, Section
        <3>2. UNCHANGED dataVars
            BY <1>1, <2>2, <3>1 DEF DataNext, ApiSetEC, ApiExecute, SetSV, SendEvent,
               CollectReports, ReportEvent, handlerVars
        <3> QED  BY <2>2, <3>2 DEF dataVars, controlVars, stateVars
    <2>3. CASE UNCHANGED <<handlerVars, controlVars, dataVars>>
        BY <1>1, <2>3 DEF handlerVars
    <2> QED  BY <1>1, <2>1, <2>2, <2>3, EquipmentSteps
<1>2. EquipmentInv /\ [MCNext]_vars =>
        [handler' # handler /\ handler.pc = "run" /\ Restricted(handler.by)
            => UNCHANGED <<controlState, alarms, ecs, reports, events, commands>>]_vars
    BY <1>1
<1> QED  BY <1>2, EquipmentInvariant, PTL DEF MCSpec, RestrictedWritesNothing
=============================================================================
