----------------------------- MODULE MCMaterial -----------------------------
(***************************************************************************)
(* The managers of the 300mm extensions for TLC.  They share no state and  *)
(* do not call one another, so a behaviour exercises one of them.          *)
(***************************************************************************)
EXTENDS CarrierManager, JobManagers, SubstrateTracker, EptTracker

VARIABLE focus

vars == <<carrierVars, jobVars, substrates, eptVars, focus>>

MCInit ==
    /\ focus \in {"carriers", "jobs", "substrates", "ept"}
    /\ CarrierInit /\ JobInit /\ SubstrateInit /\ EPTInit

MCNext ==
    /\ \/ focus = "carriers" /\ CarrierNext /\ UNCHANGED <<jobVars, substrates, eptVars>>
       \/ focus = "jobs" /\ JobNext /\ UNCHANGED <<carrierVars, substrates, eptVars>>
       \/ focus = "substrates" /\ SubstrateNext /\ UNCHANGED <<carrierVars, jobVars, eptVars>>
       \/ focus = "ept" /\ EPTNext /\ UNCHANGED <<carrierVars, jobVars, substrates>>
    /\ UNCHANGED focus

MCSpec == MCInit /\ [][MCNext]_vars

\* Types of the parts.
TypeOK == CarrierTypeOK /\ JobTypeOK /\ SubstrateTypeOK /\ EPTTypeOK
=============================================================================
