------------------------------ MODULE GemData -------------------------------
(***************************************************************************)
(* Equipment constants, status variables, reports, collection events and   *)
(* remote commands: variable.go, event.go, command.go, SendEvent and the   *)
(* handlers of S2F15, S2F33, S2F35, S2F37 and S2F41 of pkg/driver/gem.     *)
(*                                                                         *)
(* The processes are the message loop (GemHandler), goroutines that call   *)
(* SendEvent, and the REST and gRPC servers, which call SetEC and Execute  *)
(* without a look at the policy.  Each entry of a host message is a        *)
(* critical section of its own.                                            *)
(*                                                                         *)
(* A value is a number, or Item: the decoded SECS-II item that S2F15       *)
(* stores, whatever it holds.  A list of variable IDs is a token, and the  *)
(* values of a report are read when it is sent; nothing depends on them.   *)
(* Messages about IDs nobody defined change nothing.                       *)
(***************************************************************************)
EXTENDS GemHandler

CONSTANTS
    ECID, MinValue, MaxValue,  \* constants, their bounds (NoBound: not declared)
    Numbers,                   \* values that callers try
    Item, NoBound,
    CEID, RPTID, VIDs,         \* events, reports, lists of variable IDs
    EventCallers               \* goroutines that call SendEvent

ASSUME DataAssumption ==
    /\ Numbers \subseteq Nat
    /\ MinValue \in [ECID -> Numbers \cup {NoBound}]
    /\ MaxValue \in [ECID -> Numbers \cup {NoBound}]
    /\ {Item, NoBound} \cap Nat = {}
    /\ EventCallers # {} => CEID # {}

VARIABLES
    ecs,         \* VariableStore.ecs: the values
    svs,         \* VariableStore.svs, how often it was written, modulo 2
    reports,     \* EventManager.reports: VIDs of each defined RPTID
    events,      \* EventManager.events: Enabled, ReportIDs
    commands,    \* how often a command was executed, modulo 2
    reporter     \* where each call of SendEvent is

dataVars == <<ecs, svs, reports, events, commands, reporter>>

Values == Numbers \cup {Item}
NoReports == [r \in {} |-> <<>>]
NotReporting == [pc |-> "idle", ce |-> CHOOSE e \in CEID : TRUE, rpts |-> {}]

DataTypeOK ==
    /\ ecs \in [ECID -> Values]
    /\ svs \in 0..1 /\ commands \in 0..1
    /\ DOMAIN reports \subseteq RPTID /\ \A r \in DOMAIN reports : reports[r] \in VIDs
    /\ \A e \in CEID : events[e].enabled \in BOOLEAN /\ events[e].reports \subseteq RPTID
    /\ \A c \in EventCallers : /\ reporter[c].pc \in {"idle", "collect", "send"}
                               /\ reporter[c].ce \in CEID

\* DefineEC with a value within the bounds; DefineEvent enables the event.
DataInit ==
    /\ ecs \in [ECID -> Numbers]
    /\ \A c \in ECID : /\ MinValue[c] # NoBound => ecs[c] >= MinValue[c]
                       /\ MaxValue[c] # NoBound => ecs[c] <= MaxValue[c]
    /\ svs = 0 /\ commands = 0
    /\ reports = NoReports
    /\ events = [e \in CEID |-> [enabled |-> TRUE, reports |-> {}]]
    /\ reporter = [c \in EventCallers |-> NotReporting]

-----------------------------------------------------------------------------
(* Constants and variables. *)

\* numeric: an item is not one of the Go number types.
Numeric(v) == v # Item

checkECRangeNoMax(c, v) ==
    IF Numeric(v) THEN MinValue[c] # NoBound => v >= MinValue[c]
                  ELSE MinValue[c] = NoBound /\ MaxValue[c] = NoBound

\* checkECRange returns nil.
checkECRange(c, v) ==
    IF Numeric(v) THEN /\ MinValue[c] # NoBound => v >= MinValue[c]
                       /\ MaxValue[c] # NoBound => v <= MaxValue[c]
                  ELSE MinValue[c] = NoBound /\ MaxValue[c] = NoBound

SetEC(c, v) == ecs' = IF checkECRange(c, v) THEN [ecs EXCEPT ![c] = v] ELSE ecs

\* handleSetEC of the REST server, SetEquipmentConstant of the gRPC server.
ApiSetEC(c, v) ==
    /\ checkECRange(c, v)
    /\ SetEC(c, v)
    /\ UNCHANGED <<handlerVars, svs, reports, events, commands, reporter>>

\* CommandManager.Execute
Execute == commands' = 1 - commands

\* handleCommand of the REST server, ExecuteCommand of the gRPC server.
ApiExecute ==
    /\ Execute
    /\ UNCHANGED <<handlerVars, ecs, svs, reports, events, reporter>>

\* SetSV by the equipment's own loop.
SetSV ==
    /\ svs' = 1 - svs
    /\ UNCHANGED <<handlerVars, ecs, reports, events, commands, reporter>>

-----------------------------------------------------------------------------
(* Handlers of the host's messages. *)

\* The critical section "op" of the current request.  Every handler of this
\* module ignores the error of the manager: a refused entry changes nothing
\* and the request is acknowledged as before.
Section(op) == Running(op) /\ Advance(handler.ack)

\* handleS2F15: SetEC with the item
HandleSetEC ==
    /\ Section("SetEC")
    /\ SetEC(Arg(1), Item)
    /\ UNCHANGED <<svs, reports, events, commands, reporter>>

DefineReport(r, v) ==
    /\ reports' = [q \in DOMAIN reports \cup {r} |-> IF q = r THEN v ELSE reports[q]]
    /\ UNCHANGED events

\* The events keep their links to the report.
DeleteReport(r) ==
    /\ reports' = [q \in DOMAIN reports \ {r} |-> reports[q]]
    /\ UNCHANGED events

DeleteAllReports ==
    /\ reports' = NoReports
    /\ events' = [e \in CEID |-> [events[e] EXCEPT !.reports = {}]]

\* handleS2F33
HandleReports ==
    /\ \/ Section("DefineReport") /\ DefineReport(Arg(1), Arg(2))
       \/ Section("DeleteReport") /\ DeleteReport(Arg(1))
       \/ Section("DeleteAllReports") /\ DeleteAllReports
    /\ UNCHANGED <<ecs, svs, commands, reporter>>

\* LinkEventReport replaces the links if all reports exist.
LinkEventReport(e, R) ==
    events' = IF R \subseteq DOMAIN reports THEN [events EXCEPT ![e].reports = R] ELSE events

\* handleS2F35
HandleLink ==
    /\ Section("LinkEventReport")
    /\ LinkEventReport(Arg(1), Arg(2))
    /\ UNCHANGED <<ecs, svs, reports, commands, reporter>>

EnableEvent(e, on) == events' = [events EXCEPT ![e].enabled = on]

EnableAllEvents(on) == events' = [e \in CEID |-> [events[e] EXCEPT !.enabled = on]]

\* handleS2F37: each ID in the list, or all events without one.
HandleEnable ==
    /\ \/ Section("EnableEvent") /\ EnableEvent(Arg(1), Arg(2))
       \/ Section("EnableAllEvents") /\ EnableAllEvents(Arg(1))
    /\ UNCHANGED <<ecs, svs, reports, commands, reporter>>

\* handleS2F41; the command itself is the application's.
HandleExecute ==
    /\ Section("Execute")
    /\ Execute
    /\ UNCHANGED <<ecs, svs, reports, events, reporter>>

DataHandler == HandleSetEC \/ HandleReports \/ HandleLink \/ HandleEnable \/ HandleExecute

\* Requests that read status variables (S1) and constants, and change nothing.
StatusRequests == { Message(sf, <<>>) : sf \in {"S1F1", "S1F3", "S1F11"} }
ConstantRequests == { Message(sf, <<>>) : sf \in {"S2F13", "S2F29"} }

\* Requests with one entry and, for the constants and reports, with two.  A
\* message S2F15 is refused only if it does not decode.
DataMessages ==
    StatusRequests \cup ConstantRequests
    \cup { Message("S2F15", <<x, y>>) : x \in {"SetEC"} \X ECID, y \in {"SetEC"} \X ECID }
    \cup { Message("S2F33", <<x>>) : x \in {"DefineReport"} \X RPTID \X VIDs }
    \cup { Message("S2F33", <<<<"DeleteReport", r>>, <<"DefineReport", r, v>>>>) :
                r \in RPTID, v \in VIDs }
    \cup { Message("S2F33", <<<<"DeleteAllReports">>>>) }
    \cup { Message("S2F35", <<x>>) : x \in {"LinkEventReport"} \X CEID \X SUBSET RPTID }
    \cup { Message("S2F37", <<x>>) : x \in {"EnableEvent"} \X CEID \X BOOLEAN }
    \cup { Message("S2F37", <<x>>) : x \in {"EnableAllEvents"} \X BOOLEAN }
    \cup { Message("S2F41", <<<<"Execute">>>>) }
    \cup { m \in Malformed("S2F15") : m.ack = "none" }
    \cup UNION { Malformed(sf) : sf \in {"S2F33", "S2F35", "S2F37", "S2F41"} }

-----------------------------------------------------------------------------
(* SendEvent. *)

\* IsEventEnabled; a disabled event is skipped, and nothing changes.
SendEvent(c, e) ==
    /\ reporter[c].pc = "idle"
    /\ events[e].enabled
    /\ reporter' = [reporter EXCEPT ![c].pc = "collect", ![c].ce = e]
    /\ UNCHANGED <<handlerVars, ecs, svs, reports, events, commands>>

LinkedReports(e) == events[e].reports \cap DOMAIN reports

\* GetEventReportVIDs: none for a disabled event; a linked report that no
\* longer exists is left out.
GetEventReportVIDs(e) == IF events[e].enabled THEN LinkedReports(e) ELSE {}

CollectReports(c) ==
    /\ reporter[c].pc = "collect"
    /\ LET e == reporter[c].ce IN
        reporter' = [reporter EXCEPT ![c].pc = "send", ![c].rpts = GetEventReportVIDs(e)]
    /\ UNCHANGED <<handlerVars, ecs, svs, reports, events, commands>>

\* GetSV of each variable, S6F11, its reply, the callbacks.
ReportEvent(c) ==
    /\ reporter[c].pc = "send"
    /\ reporter' = [reporter EXCEPT ![c] = NotReporting]
    /\ UNCHANGED <<handlerVars, ecs, svs, reports, events, commands>>

DataNext ==
    \/ \E m \in DataMessages :
          HandleMessage(m) /\ UNCHANGED dataVars
    \/ DataHandler
    \/ Reply /\ UNCHANGED dataVars
    \/ \E p \in Policies : SetPolicy(p) /\ UNCHANGED dataVars
    \/ \E c \in ECID, v \in Values : ApiSetEC(c, v)
    \/ ApiExecute
    \/ SetSV
    \/ \E c \in EventCallers, e \in CEID : SendEvent(c, e)
    \/ \E c \in EventCallers : CollectReports(c) \/ ReportEvent(c)

DataSpec == HandlerInit /\ DataInit /\ [][DataNext]_<<handlerVars, dataVars>>

-----------------------------------------------------------------------------
(* Properties. *)

\* A constant with a declared bound holds a number within its bounds, whoever
\* writes it: S2F15, the REST server, the gRPC server ("an out of range write
\* is a physical instruction", variable.go).
ConstantsInRange ==
    \A c \in ECID :
        MinValue[c] # NoBound \/ MaxValue[c] # NoBound =>
            /\ ecs[c] \in Numbers
            /\ MinValue[c] # NoBound => ecs[c] >= MinValue[c]
            /\ MaxValue[c] # NoBound => ecs[c] <= MaxValue[c]
=============================================================================
