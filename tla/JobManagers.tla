---------------------------- MODULE JobManagers -----------------------------
(***************************************************************************)
(* Process jobs (E40) and control jobs (E94): processjob.go and            *)
(* controljob.go of pkg/driver/gem.                                        *)
(*                                                                         *)
(* Both managers are a table: a method names the states it is allowed in   *)
(* and the state it leads to.  A job is its state and the two time stamps, *)
(* of which only whether they are set matters.  A control job lists its    *)
(* process jobs and never looks at them; the list is left out.             *)
(***************************************************************************)
EXTENDS ValidatorTables

CONSTANTS ProcessJob, ControlJob

VARIABLES pjs, cjs   \* ProcessJobManager.jobs, ControlJobManager.jobs

jobVars == <<pjs, cjs>>

Transition(op, expected, newState) == [op |-> op, expected |-> expected, to |-> newState]

AbortFrom == {"Queued", "SettingUp", "WaitingForStart", "Processing", "Stopping"}

\* The methods of ProcessJobManager.
PJTransitionsAbortDone ==
    { Transition("Setup", {"Queued"}, "SettingUp"),
      Transition("SetupComplete", {"SettingUp"}, "WaitingForStart"),
      Transition("Start", {"WaitingForStart"}, "Processing"),
      Transition("Complete", {"Processing"}, "ProcessComplete"),
      Transition("Stop", {"Processing"}, "Stopping"),
      Transition("StopDone", {"Stopping"}, "Stopped"),
      Transition("Abort", AbortFrom, "Aborting"),
      Transition("AbortDone", {"Aborting", "Stopping"}, "Aborted") }

PJTransitions ==
    { Transition("Setup", {"Queued"}, "SettingUp"),
      Transition("SetupComplete", {"SettingUp"}, "WaitingForStart"),
      Transition("Start", {"WaitingForStart"}, "Processing"),
      Transition("Complete", {"Processing"}, "ProcessComplete"),
      Transition("Stop", {"Processing"}, "Stopping"),
      Transition("StopDone", {"Stopping"}, "Stopped"),
      Transition("Abort", AbortFrom, "Aborting"),
      Transition("AbortDone", {"Aborting"}, "Aborted") }

StopFrom == {"Queued", "Selected", "WaitingForStart", "Executing", "Pausing", "Paused"}

\* The methods of ControlJobManager.
CJTransitions ==
    { Transition("Select", {"Queued"}, "Selected"),
      Transition("WaitForStart", {"Selected"}, "WaitingForStart"),
      Transition("Execute", {"WaitingForStart", "Paused"}, "Executing"),
      Transition("Complete", {"Executing"}, "Completed"),
      Transition("Pause", {"Executing"}, "Pausing"),
      Transition("PauseDone", {"Pausing"}, "Paused"),
      Transition("Stop", StopFrom, "Stopping"),
      Transition("StopDone", {"Stopping"}, "Stopped") }

PJEnded == {"ProcessComplete", "Stopped", "Aborted"}
CJEnded == {"Completed", "Stopped"}

StatesOf(table) == {"Queued"} \cup { t.to : t \in table }
Jobs(table) == [state : StatesOf(table) \cup {"Absent"}, started : BOOLEAN, completed : BOOLEAN]
NoJob == [state |-> "Absent", started |-> FALSE, completed |-> FALSE]
NewJob == [state |-> "Queued", started |-> FALSE, completed |-> FALSE]

JobTypeOK == /\ pjs \in [ProcessJob -> Jobs(PJTransitions)]
             /\ cjs \in [ControlJob -> Jobs(CJTransitions)]

JobInit == /\ pjs = [j \in ProcessJob |-> NoJob]
           /\ cjs = [j \in ControlJob |-> NoJob]

-----------------------------------------------------------------------------

\* transition: the new state, and a time stamp when it runs or ends.
After(job, t, running, ended) ==
    [state |-> t.to, started |-> job.started \/ t.to = running,
     completed |-> job.completed \/ t.to \in ended]

DrivePJ(j, t) ==
    /\ pjs[j].state \in t.expected
    /\ pjs' = [pjs EXCEPT ![j] = After(@, t, "Processing", PJEnded)]
    /\ UNCHANGED cjs

DriveCJ(j, t) ==
    /\ cjs[j].state \in t.expected
    /\ cjs' = [cjs EXCEPT ![j] = After(@, t, "Executing", CJEnded)]
    /\ UNCHANGED pjs

CreatePJ(j) == pjs[j] = NoJob /\ pjs' = [pjs EXCEPT ![j] = NewJob] /\ UNCHANGED cjs
CreateCJ(j) == cjs[j] = NoJob /\ cjs' = [cjs EXCEPT ![j] = NewJob] /\ UNCHANGED pjs

RemovePJ(j) == pjs[j].state \in PJEnded /\ pjs' = [pjs EXCEPT ![j] = NoJob] /\ UNCHANGED cjs

RemoveCJ(j) == cjs[j].state \in CJEnded /\ cjs' = [cjs EXCEPT ![j] = NoJob] /\ UNCHANGED pjs

JobNext ==
    \/ \E j \in ProcessJob : CreatePJ(j) \/ RemovePJ(j) \/ \E t \in PJTransitions : DrivePJ(j, t)
    \/ \E j \in ControlJob : CreateCJ(j) \/ RemoveCJ(j) \/ \E t \in CJTransitions : DriveCJ(j, t)

JobSpec == JobInit /\ [][JobNext]_jobVars

-----------------------------------------------------------------------------
(* Properties. *)

\* The validator accepts every change of a job's state, and a job leaves the
\* manager only after it has run to one of its ends (transition and Remove
\* against validPJTransitions and validCJTransitions).
JobStepsValid ==
    [][/\ \A j \in ProcessJob : pjs'[j].state # pjs[j].state =>
             \/ pjs[j] = NoJob \/ (pjs'[j] = NoJob /\ pjs[j].completed)
             \/ ValidPJ(pjs[j].state, pjs'[j].state)
       /\ \A j \in ControlJob : cjs'[j].state # cjs[j].state =>
             \/ cjs[j] = NoJob \/ (cjs'[j] = NoJob /\ cjs[j].completed)
             \/ ValidCJ(cjs[j].state, cjs'[j].state)]_jobVars
=============================================================================
