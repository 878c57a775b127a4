----------------------------- MODULE E30States ------------------------------
(***************************************************************************)
(* What the repository says of the communication and control state: the    *)
(* transitions that the two tables of pkg/validator/state.go accept (E30   *)
(* figures 2 and 3).  The control state changes only while communication   *)
(* is established, and both change at once only when it is disabled.       *)
(*                                                                         *)
(* The table of control transitions has no step from OFFLINE/EQUIPMENT to  *)
(* an on-line state.  SkippingSpec is the promise with that one step       *)
(* added, SkipOfflineHost.                                                 *)
(***************************************************************************)
VARIABLES comm, control

states == <<comm, control>>

Online == {"OnlineLocal", "OnlineRemote"}

validCommTransitions ==
    { <<"Disabled", "WaitCRA">>, <<"WaitCRA", "Communicating">>, <<"WaitCRA", "WaitDelay">>,
      <<"WaitDelay", "WaitCRA">>, <<"WaitCRA", "Disabled">>, <<"WaitDelay", "Disabled">>,
      <<"Communicating", "Disabled">> }

validControlTransitions ==
    { <<"OfflineEquipment", "OfflineHost">>, <<"OfflineHost", "OnlineLocal">>,
      <<"OfflineHost", "OnlineRemote">>, <<"OnlineLocal", "OnlineRemote">>,
      <<"OnlineRemote", "OnlineLocal">>, <<"OnlineLocal", "OfflineEquipment">>,
      <<"OnlineRemote", "OfflineEquipment">>, <<"OfflineHost", "OfflineEquipment">> }

\* ValidateCommTransition and ValidateControlTransition find no violation.
ValidComm(from, to) == <<from, to>> \in validCommTransitions
ValidControl(from, to) == <<from, to>> \in validControlTransitions

E30Init == comm = "Disabled" /\ control = "OfflineEquipment"

Establish == /\ ValidComm(comm, comm')
             /\ comm' # "Disabled"
             /\ UNCHANGED control

Disable == /\ ValidComm(comm, comm')
           /\ comm' = "Disabled"
           /\ control' = "OfflineEquipment"
           /\ ValidControl(control, control') \/ UNCHANGED control

ChangeControl == /\ comm = "Communicating"
                 /\ ValidControl(control, control')
                 /\ UNCHANGED comm

E30Next == Establish \/ Disable \/ ChangeControl

\* The step the table leaves out.
SkipOfflineHost == /\ comm = "Communicating"
                   /\ control = "OfflineEquipment"
                   /\ control' \in Online
                   /\ UNCHANGED comm

\* What the equipment does keep to: the tables and that step.
SkippingSpec == E30Init /\ [][E30Next \/ SkipOfflineHost]_states
=============================================================================
