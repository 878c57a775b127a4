------------------------------- MODULE MCGem --------------------------------
(***************************************************************************)
(* The GEM equipment for TLC: GemControl and GemData around one message    *)
(* loop.  They share the loop and the policy and nothing else, so a        *)
(* behaviour exercises one of three parts, its focus:                      *)
(*   "interlock"  two goroutines call SendAlarm beside the host and the    *)
(*                application; full access, alarms stay enabled            *)
(*   "control"    the host's control messages under changing policies,     *)
(*                with and without a function of the application for S1F17 *)
(*   "data"       constants, reports, events and commands                  *)
(* The action ForceIdle does what LogOnly does and is left out.            *)
(***************************************************************************)
EXTENDS GemControl, GemData

VARIABLE focus

vars == <<handlerVars, controlVars, dataVars, focus>>

MCSeverity == [a \in ALID |-> 64]
MCPolicies == {MonitorPolicy, ReadOnlyPolicy, NoPolicy,
               [allowed |-> {}, denied |-> {"S2F41"}, readOnly |-> FALSE]}
\* One constant has bounds, the others have none.
Bounded == CHOOSE c \in ECID : TRUE
MCMin == [c \in ECID |-> IF c = Bounded THEN 1 ELSE NoBound]
MCMax == [c \in ECID |-> IF c = Bounded THEN 2 ELSE NoBound]

MCInit ==
    /\ focus \in {"interlock", "control", "data"}
    /\ customHandlers \in IF focus = "control" THEN {{}, {"S1F17"}} ELSE {{}}
    /\ handler = Idle
    /\ policy = IF focus = "interlock" THEN NoPolicy ELSE MonitorPolicy
    /\ ControlInit
    /\ DataInit
    /\ \A c \in ECID : focus # "data" \/ c # Bounded => ecs[c] = 1

InterlockFocus ==
    /\ focus = "interlock"
    /\ ControlNext
    /\ UNCHANGED policy
    /\ \A a \in ALID : alarms'[a].enabled
    /\ interlock' # NoInterlock => interlock'.action # "ForceIdle"
    /\ UNCHANGED dataVars

ControlFocus ==
    /\ focus = "control"
    /\ ControlNext
    /\ UNCHANGED <<sender, interlock, dataVars>>

DataFocus ==
    /\ focus = "data"
    /\ DataNext
    /\ \A c \in ECID \ {Bounded} : ecs'[c] \in {1, Item}
    /\ UNCHANGED controlVars

MCNext == (InterlockFocus \/ ControlFocus \/ DataFocus) /\ UNCHANGED focus

MCSpec == /\ MCInit /\ [][MCNext]_vars
          /\ \A c \in AlarmCallers :
                WF_<<handlerVars, controlVars>>(SenderStep(c) /\ Observe)

\* Types of the parts.
TypeOK ==
    /\ policy \in SessionPolicy \cup {NoPolicy} /\ customHandlers \subseteq SF
    /\ ControlTypeOK /\ DataTypeOK

\* A message the policy in force did not admit changes nothing: under
\* MonitorPolicy and ReadOnlyPolicy no step of the message loop writes the
\* control state, the alarms, the constants, the reports, the events or runs
\* a command, also when the policy is replaced while the message is handled
\* (HandleMessage, IsAllowed).  What a function installed by OnMessage does of
\* its own accord is the application's and not covered.
RestrictedWritesNothing ==
    [][handler' # handler /\ handler.pc = "run" /\ Restricted(handler.by)
         => UNCHANGED <<controlState, alarms, ecs, reports, events, commands>>]_vars
=============================================================================
