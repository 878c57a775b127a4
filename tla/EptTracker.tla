----------------------------- MODULE EptTracker -----------------------------
(***************************************************************************)
(* Equipment performance (E116): pkg/driver/gem/ept.go.                    *)
(*                                                                         *)
(* Time is a counter that advances between calls.  The ratios of OEE are   *)
(* kept as pairs of a numerator and a denominator.                         *)
(***************************************************************************)
EXTENDS Integers

CONSTANTS
    EPTStates,    \* the states the application uses, NonScheduled among them
    MaxTime, MaxUnits

EPTState == {"Idle", "Busy", "Blocked", "BusyAndBlocked", "StandbyScheduled",
             "StandbyUnscheduled", "EngScheduled", "EngUnscheduled", "DownScheduled",
             "DownUnscheduled", "NonScheduled"}

ASSUME EPTAssumption ==
    /\ EPTStates \subseteq EPTState /\ "NonScheduled" \in EPTStates
    /\ MaxTime \in Nat /\ MaxUnits \in Nat

VARIABLES
    now,          \* the clock, since the program started
    origin,       \* history: when the tracker was created or reset
    state, stateStart, durations, unitCount, defectCount   \* EPTTracker

eptVars == <<now, origin, state, stateStart, durations, unitCount, defectCount>>

EPTTypeOK ==
    /\ now \in 0..MaxTime /\ origin \in 0..now /\ stateStart \in 0..now
    /\ state \in EPTStates
    /\ durations \in [EPTStates -> 0..MaxTime]
    /\ unitCount \in 0..MaxUnits /\ defectCount \in 0..MaxUnits

EPTInit ==
    /\ now = 0 /\ origin = 0
    /\ state = "NonScheduled" /\ stateStart = 0
    /\ durations = [s \in EPTStates |-> 0]
    /\ unitCount = 0 /\ defectCount = 0

-----------------------------------------------------------------------------

Tick == /\ now < MaxTime
        /\ now' = now + 1
        /\ UNCHANGED <<origin, state, stateStart, durations, unitCount, defectCount>>

SetStateLateStart(s) ==
    /\ s # state
    /\ durations' = [durations EXCEPT ![state] = @ + (now - stateStart)]
    /\ state' = s
    /\ UNCHANGED <<now, origin, stateStart, unitCount, defectCount>>

\* SetState: setting the same state again changes nothing.
SetState(s) ==
    /\ s # state
    /\ durations' = [durations EXCEPT ![state] = @ + (now - stateStart)]
    /\ state' = s
    /\ stateStart' = now
    /\ UNCHANGED <<now, origin, unitCount, defectCount>>

RecordUnit(defective) ==
    /\ unitCount < MaxUnits
    /\ unitCount' = unitCount + 1
    /\ defectCount' = IF defective THEN defectCount + 1 ELSE defectCount
    /\ UNCHANGED <<now, origin, state, stateStart, durations>>

Reset ==
    /\ origin' = now
    /\ state' = "NonScheduled" /\ stateStart' = now
    /\ durations' = [s \in EPTStates |-> 0]
    /\ unitCount' = 0 /\ defectCount' = 0
    /\ UNCHANGED now

EPTNext ==
    \/ Tick \/ Reset
    \/ \E s \in EPTStates : SetState(s)
    \/ \E d \in BOOLEAN : RecordUnit(d)

EPTSpec == EPTInit /\ [][EPTNext]_eptVars

-----------------------------------------------------------------------------

isProductive == {"Busy", "BusyAndBlocked"}
isAvailable == {"Idle", "Busy", "Blocked", "BusyAndBlocked"}

\* StateDurations: with the time of the state that is still going on.
StateDurations == [durations EXCEPT ![state] = @ + (now - stateStart)]

Elapsed(s) == IF s \in EPTStates THEN StateDurations[s] ELSE 0

\* The total of the loop over the map.
TimeIn(S) ==
    LET t(s) == IF s \in S THEN Elapsed(s) ELSE 0
    IN  t("Idle") + t("Busy") + t("Blocked") + t("BusyAndBlocked") + t("StandbyScheduled")
        + t("StandbyUnscheduled") + t("EngScheduled") + t("EngUnscheduled")
        + t("DownScheduled") + t("DownUnscheduled") + t("NonScheduled")

\* OEE: its factors as <<numerator, denominator>>; all 0 without scheduled
\* time.  A factor without a denominator is 0, quality without units is 1.
OEE ==
    LET scheduled == TimeIn(EPTStates) - StateDurations["NonScheduled"]
        available == TimeIn(isAvailable)
    IN  IF scheduled = 0
        THEN [availability |-> <<0, 1>>, performance |-> <<0, 1>>, quality |-> <<0, 1>>]
        ELSE [availability |-> <<available, scheduled>>,
              performance |-> IF available > 0 THEN <<TimeIn(isProductive), available>> ELSE <<0, 1>>,
              quality |-> IF unitCount > 0 THEN <<unitCount - defectCount, unitCount>> ELSE <<1, 1>>]

TimeConserved == TimeIn(EPTStates) = now - origin

\* No time is lost or counted twice: the durations add up to the time since
\* the tracker was created or reset, and the factors made of them are "all
\* 0.0-1.0" after any changes of state, units and resets (SetState, Reset,
\* StateDurations, OEE).
OEEConsistent ==
    /\ TimeConserved
    /\ \A f \in {"availability", "performance", "quality"} :
          OEE[f][1] >= 0 /\ OEE[f][1] <= OEE[f][2]
=============================================================================
