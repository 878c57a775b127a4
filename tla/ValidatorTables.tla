-------------------------- MODULE ValidatorTables ---------------------------
(***************************************************************************)
(* The transitions of carriers, process jobs and control jobs that         *)
(* pkg/validator/state.go accepts.  A Validate...Transition method looks   *)
(* its pair up and records a violation when it is not there.               *)
(***************************************************************************)

validCarrierTransitions ==
    { <<"NotAccessed", "WaitingForHost">>, <<"WaitingForHost", "InAccess">>,
      <<"InAccess", "CarrierComplete">>, <<"InAccess", "Stopped">>,
      <<"CarrierComplete", "ReadyToUnload">>, <<"Stopped", "ReadyToUnload">>,
      <<"Stopped", "InAccess">>, <<"WaitingForHost", "ReadyToUnload">>,
      <<"NotAccessed", "ReadyToUnload">> }

ValidCarrier(from, to) == <<from, to>> \in validCarrierTransitions

validPJTransitions ==
    { <<"Queued", "SettingUp">>, <<"SettingUp", "WaitingForStart">>,
      <<"WaitingForStart", "Processing">>, <<"Processing", "ProcessComplete">>,
      <<"Processing", "Stopping">>, <<"Stopping", "Stopped">>, <<"Stopped", "SettingUp">> }
    \cup { <<s, "Aborting">> : s \in {"Queued", "SettingUp", "WaitingForStart", "Processing",
                                      "Stopping", "Stopped"} }
    \cup { <<"Aborting", "Aborted">> }

ValidPJ(from, to) == <<from, to>> \in validPJTransitions

validCJTransitions ==
    { <<"Queued", "Selected">>, <<"Selected", "WaitingForStart">>,
      <<"WaitingForStart", "Executing">>, <<"Executing", "Completed">>,
      <<"Executing", "Pausing">>, <<"Pausing", "Paused">>, <<"Paused", "Executing">>,
      <<"Stopping", "Stopped">> }
    \cup { <<s, "Stopping">> : s \in {"Queued", "Selected", "WaitingForStart", "Executing",
                                      "Pausing", "Paused"} }

ValidCJ(from, to) == <<from, to>> \in validCJTransitions
=============================================================================
