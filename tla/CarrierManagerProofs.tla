------------------------ MODULE CarrierManagerProofs ------------------------
(***************************************************************************)
(* Carriers and ports agree as far as the calls allow, for any number of   *)
(* carriers, ports and goroutines and any order of calls, and a port gives *)
(* up its carrier only when that is not accessed.  The invariant is        *)
(* PortsMatch with the types: it is inductive, since the second section of *)
(* ReadyToUnload looks the port up again instead of trusting the first.    *)
(***************************************************************************)
EXTENDS CarrierManager, TLAPS

CarrierInv == CarrierTypeOK /\ PortsMatch

\* A carrier is bound when its port is one of the ports.
LEMMA BoundHasPort ==
    ASSUME CarrierTypeOK, NEW c \in Carrier
    PROVE  /\ Bound(c) <=> carriers[c].port \in Port
           /\ Bound(c) => carriers[c].state \in CarrierState
           /\ ~Bound(c) => carriers[c].state = "Absent"
    BY CarrierAssumption DEF CarrierTypeOK, Bound, Unbound

LEMMA CarrierInitInv == CarrierInit => CarrierInv
    BY CarrierAssumption
    DEF CarrierInit, CarrierInv, CarrierTypeOK, PortsMatch, Bound, Unbound, LoadPortState

LEMMA InServiceStep ==
    ASSUME CarrierInv, NEW p \in Port, SetPortInService(p) \/ SetPortOutOfService(p)
    PROVE  CarrierInv'
<1>1. CarrierTypeOK'
    BY DEF CarrierInv, CarrierTypeOK, SetPortInService, SetPortOutOfService, LoadPortState
<1>2. \A q \in Port : ports'[q].carrier = ports[q].carrier
    BY DEF CarrierInv, CarrierTypeOK, SetPortInService, SetPortOutOfService
<1>3. carriers' = carriers /\ rebound' = rebound
    BY DEF SetPortInService, SetPortOutOfService
<1>4. ports'[p].state = "ReadyToLoad"
      \/ (ports'[p].state = "OutOfService" /\ ports[p].carrier = NoCarrier)
    BY DEF CarrierInv, CarrierTypeOK, SetPortInService, SetPortOutOfService
<1>5. \A q \in Port : q # p => ports'[q].state = ports[q].state
    BY DEF CarrierInv, CarrierTypeOK, SetPortInService, SetPortOutOfService
<1>6. PortsMatch'
    <2>1. \A c \in Carrier : Bound(c)' => ports'[carriers'[c].port].carrier = c
        BY <1>2, <1>3, BoundHasPort DEF CarrierInv, PortsMatch, Bound
    <2>2. ASSUME NEW q \in Port, ports'[q].carrier # NoCarrier, ports'[q].carrier \notin rebound'
          PROVE  carriers'[ports'[q].carrier].port = q
        BY <2>2, <1>2, <1>3 DEF CarrierInv, PortsMatch
    <2>3. ASSUME NEW q \in Port
          PROVE  /\ ports'[q].state = "OutOfService" => ports'[q].carrier = NoCarrier
                 /\ ports'[q].state \in {"TransferReady", "ReadyToUnload"}
                        => ports'[q].carrier # NoCarrier
        BY <1>2, <1>4, <1>5 DEF CarrierInv, PortsMatch
    <2> QED  BY <2>1, <2>2, <2>3 DEF PortsMatch
<1> QED  BY <1>1, <1>6 DEF CarrierInv

\* The port was empty; a carrier that was on another port is rebound from now on.
LEMMA BindStep ==
    ASSUME CarrierInv, NEW c \in Carrier, NEW p \in Port, BindCarrier(c, p)
    PROVE  CarrierInv'
<1>1. /\ carriers' = [carriers EXCEPT ![c] = [state |-> "NotAccessed", port |-> p]]
      /\ ports' = [ports EXCEPT ![p] = [state |-> "TransferReady", carrier |-> c]]
      /\ ports[p].carrier = NoCarrier
      /\ rebound \subseteq rebound' /\ (Bound(c) => c \in rebound')
    BY DEF BindCarrier
<1>2. CarrierTypeOK'
    <2>1. rebound' \subseteq Carrier
        BY DEF CarrierInv, CarrierTypeOK, BindCarrier
    <2> QED  BY <2>1 DEF CarrierInv, CarrierTypeOK, BindCarrier, CarrierState, LoadPortState
<1>3. /\ carriers'[c] = [state |-> "NotAccessed", port |-> p]
      /\ \A d \in Carrier : d # c => carriers'[d] = carriers[d]
      /\ ports'[p] = [state |-> "TransferReady", carrier |-> c]
      /\ \A q \in Port : q # p => ports'[q] = ports[q]
    BY <1>1 DEF CarrierInv, CarrierTypeOK
<1>4. ASSUME NEW d \in Carrier, Bound(d)'
      PROVE  ports'[carriers'[d].port].carrier = d
    <2>1. CASE d = c
        BY <2>1, <1>3
    <2>2. CASE d # c
        <3>1. Bound(d) /\ carriers[d].port \in Port /\ ports[carriers[d].port].carrier = d
            BY <2>2, <1>3, <1>4, BoundHasPort DEF CarrierInv, PortsMatch, Bound
        <3>2. carriers[d].port # p
            BY <3>1, <1>1, CarrierAssumption
        <3> QED  BY <3>1, <3>2, <2>2, <1>3
    <2> QED  BY <2>1, <2>2
<1>5. ASSUME NEW q \in Port
      PROVE  /\ ports'[q].carrier # NoCarrier /\ ports'[q].carrier \notin rebound'
                    => carriers'[ports'[q].carrier].port = q
             /\ ports'[q].state = "OutOfService" => ports'[q].carrier = NoCarrier
             /\ ports'[q].state \in {"TransferReady", "ReadyToUnload"}
                    => ports'[q].carrier # NoCarrier
    <2>1. CASE q = p
        BY <2>1, <1>3, CarrierAssumption
    <2>2. CASE q # p
        <3>1. ports[q].carrier # c \/ ports[q].carrier \in rebound'
            BY <1>1, BoundHasPort, CarrierAssumption DEF CarrierInv, PortsMatch
        <3>2. ports[q].carrier \in Carrier \cup {NoCarrier}
            BY DEF CarrierInv, CarrierTypeOK
        <3> QED  BY <1>1, <2>2, <3>1, <3>2, <1>3 DEF CarrierInv, PortsMatch
    <2> QED  BY <2>1, <2>2
<1>6. PortsMatch'
    BY <1>4, <1>5 DEF PortsMatch
<1> QED  BY <1>2, <1>6 DEF CarrierInv

LEMMA UnbindStep ==
    ASSUME CarrierInv, NEW c \in Carrier, UnbindCarrier(c)
    PROVE  CarrierInv'
<1> DEFINE p == carriers[c].port
<1>1. /\ Bound(c) /\ p \in Port /\ ports[p].carrier = c
      /\ carriers' = [carriers EXCEPT ![c] = Unbound]
      /\ ports' = [ports EXCEPT ![p] = [state |-> "ReadyToLoad", carrier |-> NoCarrier]]
      /\ rebound' = rebound
    BY BoundHasPort DEF UnbindCarrier, CarrierInv, PortsMatch
<1>2. CarrierTypeOK'
    BY <1>1 DEF CarrierInv, CarrierTypeOK, UnbindCarrier, LoadPortState
<1>3. /\ carriers'[c] = Unbound
      /\ \A d \in Carrier : d # c => carriers'[d] = carriers[d]
      /\ ports'[p] = [state |-> "ReadyToLoad", carrier |-> NoCarrier]
      /\ \A q \in Port : q # p => ports'[q] = ports[q]
    BY <1>1 DEF CarrierInv, CarrierTypeOK
<1> HIDE DEF p
<1>4. ASSUME NEW d \in Carrier, Bound(d)'
      PROVE  ports'[carriers'[d].port].carrier = d
    <2>1. d # c /\ Bound(d) /\ carriers'[d] = carriers[d]
        BY <1>3, <1>4 DEF Bound
    <2>2. carriers[d].port \in Port /\ ports[carriers[d].port].carrier = d
        BY <2>1, BoundHasPort DEF CarrierInv, PortsMatch
    <2>3. carriers[d].port # p
        BY <2>1, <2>2, <1>1
    <2> QED  BY <2>1, <2>2, <2>3, <1>3
<1>5. ASSUME NEW q \in Port
      PROVE  /\ ports'[q].carrier # NoCarrier /\ ports'[q].carrier \notin rebound'
                    => carriers'[ports'[q].carrier].port = q
             /\ ports'[q].state = "OutOfService" => ports'[q].carrier = NoCarrier
             /\ ports'[q].state \in {"TransferReady", "ReadyToUnload"}
                    => ports'[q].carrier # NoCarrier
    <2>1. CASE q = p
        BY <2>1, <1>3
    <2>2. CASE q # p
        <3>1. ports[q].carrier # c \/ ports[q].carrier \in rebound
            BY <2>2, <1>1, CarrierAssumption DEF CarrierInv, PortsMatch, p
        <3>2. ports[q].carrier \in Carrier \cup {NoCarrier}
            BY DEF CarrierInv, CarrierTypeOK
        <3> QED  BY <1>1, <2>2, <3>1, <3>2, <1>3 DEF CarrierInv, PortsMatch
    <2> QED  BY <2>1, <2>2
<1>6. PortsMatch'
    BY <1>4, <1>5 DEF PortsMatch
<1> QED  BY <1>2, <1>6 DEF CarrierInv

\* A new state of a carrier that is there leaves it on its port.
LEMMA TransitionStep ==
    ASSUME CarrierInv, NEW c \in Carrier, NEW from \in SUBSET CarrierState,
           NEW to \in CarrierState, transitionCarrier(c, from, to), ports' = ports,
           mapped' = mapped, unloading' \in [Unloaders -> Carrier \cup {NoCarrier}],
           rebound' = rebound
    PROVE  CarrierInv'
<1>1. Bound(c) /\ carriers[c].port \in Port
    <2>1. carriers[c].state # "Absent"
        BY DEF transitionCarrier, CarrierState
    <2> QED  BY <2>1, BoundHasPort DEF CarrierInv
<1>2. carriers' = [carriers EXCEPT ![c].state = to]
    BY DEF transitionCarrier
<1>3. carriers \in [Carrier -> [state : CarrierState, port : Port] \cup {Unbound}]
    BY DEF CarrierInv, CarrierTypeOK
<1>4. carriers[c] \in [state : CarrierState, port : Port]
    BY <1>1, <1>3 DEF Bound
<1>5. /\ carriers'[c] = [state |-> to, port |-> carriers[c].port]
      /\ \A d \in Carrier : d # c => carriers'[d] = carriers[d]
      /\ carriers' \in [Carrier -> [state : CarrierState, port : Port] \cup {Unbound}]
    BY <1>2, <1>3, <1>4
<1>6. \A d \in Carrier : carriers'[d].port = carriers[d].port /\ (Bound(d)' <=> Bound(d))
    <2>1. Bound(c)'
        BY <1>1, <1>5, CarrierAssumption DEF Bound, Unbound
    <2> QED  BY <1>1, <1>5, <2>1 DEF Bound
<1>7. CarrierTypeOK'
    BY <1>5 DEF CarrierInv, CarrierTypeOK
<1>8. PortsMatch'
    <2>1. \A q \in Port : ports[q].carrier \in Carrier \cup {NoCarrier}
        BY DEF CarrierInv, CarrierTypeOK
    <2> QED  BY <1>6, <2>1 DEF CarrierInv, PortsMatch
<1> QED  BY <1>7, <1>8 DEF CarrierInv

\* The second section of ReadyToUnload writes the port its carrier is on now.
LEMMA UnloadPortStep ==
    ASSUME CarrierInv, NEW u \in Unloaders, ReadyToUnloadPort(u)
    PROVE  CarrierInv'
<1> DEFINE c == unloading[u]
           p == carriers[c].port
<1>1. c \in Carrier /\ carriers' = carriers /\ mapped' = mapped /\ rebound' = rebound
      /\ unloading' = [unloading EXCEPT ![u] = NoCarrier]
    BY DEF ReadyToUnloadPort, CarrierInv, CarrierTypeOK
<1>2. CASE ~Bound(c)
    <2>1. ports' = ports
        BY <1>2 DEF ReadyToUnloadPort
    <2> QED  BY <1>1, <2>1 DEF CarrierInv, CarrierTypeOK, PortsMatch, Bound
<1>3. CASE Bound(c)
    <2>1. ports' = [ports EXCEPT ![p].state = "ReadyToUnload"]
        BY <1>3 DEF ReadyToUnloadPort
    <2>2. p \in Port /\ ports[p].carrier = c /\ c # NoCarrier
        BY <1>1, <1>3, BoundHasPort, CarrierAssumption DEF CarrierInv, PortsMatch
    <2> HIDE DEF c, p
    <2>3. /\ ports'[p] = [state |-> "ReadyToUnload", carrier |-> c]
          /\ \A q \in Port : q # p => ports'[q] = ports[q]
          /\ ports' \in [Port -> [state : LoadPortState, carrier : Carrier \cup {NoCarrier}]]
        BY <2>1, <2>2 DEF CarrierInv, CarrierTypeOK, LoadPortState
    <2>4. CarrierTypeOK'
        BY <1>1, <2>3 DEF CarrierInv, CarrierTypeOK
    <2>5. \A q \in Port : ports'[q].carrier = ports[q].carrier
        BY <2>2, <2>3
    <2>6. \A d \in Carrier : Bound(d)' => ports'[carriers'[d].port].carrier = d
        BY <1>1, <2>5, BoundHasPort DEF CarrierInv, PortsMatch, Bound
    <2>7. ASSUME NEW q \in Port
          PROVE  /\ ports'[q].carrier # NoCarrier /\ ports'[q].carrier \notin rebound'
                    => carriers'[ports'[q].carrier].port = q
                 /\ ports'[q].state = "OutOfService" => ports'[q].carrier = NoCarrier
                 /\ ports'[q].state \in {"TransferReady", "ReadyToUnload"}
                        => ports'[q].carrier # NoCarrier
        BY <1>1, <2>2, <2>3, <2>5 DEF CarrierInv, PortsMatch
    <2>8. PortsMatch'
        BY <2>6, <2>7 DEF PortsMatch
    <2> QED  BY <2>4, <2>8 DEF CarrierInv
<1> QED  BY <1>2, <1>3

LEMMA CarrierStep ==
    ASSUME CarrierInv, [CarrierNext]_carrierVars
    PROVE  CarrierInv'
<1>1. ASSUME NEW p \in Port, SetPortInService(p) \/ SetPortOutOfService(p) PROVE CarrierInv'
    BY <1>1, InServiceStep
<1>2. ASSUME NEW c \in Carrier, NEW p \in Port, BindCarrier(c, p) PROVE CarrierInv'
    BY <1>2, BindStep
<1>3. ASSUME NEW c \in Carrier, UnbindCarrier(c) PROVE CarrierInv'
    BY <1>3, UnbindStep
<1>4. ASSUME NEW c \in Carrier, DriveCarrier(c) PROVE CarrierInv'
    <2>1. PICK from \in SUBSET CarrierState, to \in CarrierState : transitionCarrier(c, from, to)
        BY <1>4 DEF DriveCarrier, ProceedWithCarrier, StartAccess, CompleteAccess, StopCarrier,
                    ResumeCarrier, CarrierState
    <2>2. unloading' \in [Unloaders -> Carrier \cup {NoCarrier}]
        BY <1>4 DEF DriveCarrier, CarrierInv, CarrierTypeOK
    <2> QED  BY <1>4, <2>1, <2>2, TransitionStep DEF DriveCarrier
<1>5. ASSUME NEW c \in Carrier, SetSlotMap(c) PROVE CarrierInv'
    BY <1>5 DEF SetSlotMap, CarrierInv, CarrierTypeOK, PortsMatch, Bound
<1>6. ASSUME NEW u \in Unloaders, NEW c \in Carrier, ReadyToUnload(u, c) PROVE CarrierInv'
    <2>1. unloading' \in [Unloaders -> Carrier \cup {NoCarrier}]
        BY <1>6 DEF ReadyToUnload, CarrierInv, CarrierTypeOK
    <2>2. UnloadableFrom \in SUBSET CarrierState /\ "ReadyToUnload" \in CarrierState
        BY DEF UnloadableFrom, CarrierState
    <2> QED  BY <1>6, <2>1, <2>2, TransitionStep DEF ReadyToUnload
<1>7. ASSUME NEW u \in Unloaders, ReadyToUnloadPort(u) PROVE CarrierInv'
    BY <1>7, UnloadPortStep
<1>8. CASE UNCHANGED carrierVars
    BY <1>8 DEF carrierVars, CarrierInv, CarrierTypeOK, PortsMatch, Bound
<1> QED  BY <1>1, <1>2, <1>3, <1>4, <1>5, <1>6, <1>7, <1>8 DEF CarrierNext

LEMMA CarrierInvariant == CarrierSpec => []CarrierInv
<1>1. CarrierInit => CarrierInv
    BY CarrierInitInv
<1>2. CarrierInv /\ [CarrierNext]_carrierVars => CarrierInv'
    BY CarrierStep
<1> QED  BY <1>1, <1>2, PTL DEF CarrierSpec

\* The port a carrier is on names it, a port out of service is empty, one that
\* offers a transfer is not, and a port names a carrier that is elsewhere only if
\* that carrier was bound a second time, for any number of goroutines in the
\* methods of CarrierManager and any order of calls.
THEOREM PortsAgree == CarrierSpec => []PortsMatch
<1>1. CarrierInv => PortsMatch
    BY DEF CarrierInv
<1> QED  BY <1>1, CarrierInvariant, PTL

-----------------------------------------------------------------------------

Stays ==
    \A p \in Port : LET c == ports[p].carrier IN
        c # NoCarrier /\ ports'[p].carrier # c =>
            /\ carriers[c].state \in {"ReadyToUnload", "NotAccessed"}
            /\ carriers'[c] = Unbound

\* Only BindCarrier, of an empty port, and UnbindCarrier change who is on a port.
LEMMA StaysStep ==
    ASSUME CarrierInv, [CarrierNext]_carrierVars
    PROVE  Stays
<1>1. ASSUME NEW p \in Port, SetPortInService(p) \/ SetPortOutOfService(p) PROVE Stays
    BY <1>1 DEF SetPortInService, SetPortOutOfService, CarrierInv, CarrierTypeOK, Stays
<1>2. ASSUME NEW c \in Carrier, NEW p \in Port, BindCarrier(c, p) PROVE Stays
    BY <1>2 DEF BindCarrier, CarrierInv, CarrierTypeOK, Stays
<1>3. ASSUME NEW c \in Carrier, UnbindCarrier(c) PROVE Stays
    <2>1. Bound(c) /\ carriers[c].port \in Port /\ ports[carriers[c].port].carrier = c
        BY <1>3, BoundHasPort DEF UnbindCarrier, CarrierInv, PortsMatch
    <2>2. carriers'[c] = Unbound /\ carriers[c].state \in {"ReadyToUnload", "NotAccessed"}
        BY <1>3 DEF UnbindCarrier, CarrierInv, CarrierTypeOK
    <2>3. \A q \in Port : q # carriers[c].port => ports'[q] = ports[q]
        BY <1>3 DEF UnbindCarrier, CarrierInv, CarrierTypeOK
    <2> QED  BY <2>1, <2>2, <2>3 DEF Stays
<1>4. ASSUME NEW c \in Carrier, DriveCarrier(c) \/ SetSlotMap(c) PROVE Stays
    BY <1>4 DEF DriveCarrier, SetSlotMap, Stays
<1>5. ASSUME NEW u \in Unloaders, NEW c \in Carrier, ReadyToUnload(u, c) PROVE Stays
    BY <1>5 DEF ReadyToUnload, Stays
<1>6. ASSUME NEW u \in Unloaders, ReadyToUnloadPort(u) PROVE Stays
    BY <1>6 DEF ReadyToUnloadPort, CarrierInv, CarrierTypeOK, Stays
<1>7. CASE UNCHANGED carrierVars
    BY <1>7 DEF carrierVars, Stays
<1> QED  BY <1>1, <1>2, <1>3, <1>4, <1>5, <1>6, <1>7 DEF CarrierNext

\* A port gives up the carrier it names only by UnbindCarrier of that carrier and
\* never while its wafers are accessed, also when SetPortInService was called
\* under it or the carrier was bound to another port.
THEOREM StaysWhileAccessed == CarrierSpec => CarrierStaysWhileAccessed
<1>1. CarrierInv /\ [CarrierNext]_carrierVars => [Stays]_carrierVars
    BY StaysStep
<1>2. CarrierStaysWhileAccessed <=> [][Stays]_carrierVars
    BY DEF CarrierStaysWhileAccessed, Stays
<1> QED  BY <1>1, <1>2, CarrierInvariant, PTL DEF CarrierSpec

-----------------------------------------------------------------------------

StepsValid ==
    \A c \in Carrier :
        Bound(c) /\ carriers'[c].port = carriers[c].port =>
            \/ carriers'[c].state = carriers[c].state
            \/ ValidCarrier(carriers[c].state, carriers'[c].state)

\* What transitionCarrier does to one carrier.
LEMMA TransitionValid ==
    ASSUME CarrierInv, NEW c \in Carrier, NEW from \in SUBSET CarrierState, NEW to,
           transitionCarrier(c, from, to), \A s \in from : ValidCarrier(s, to)
    PROVE  StepsValid
<1>1. carriers[c].state \in from /\ carriers[c] \in [state : CarrierState, port : Port]
    BY BoundHasPort DEF CarrierInv, transitionCarrier, CarrierTypeOK, CarrierState, Unbound
<1>2. carriers'[c].state = to /\ \A d \in Carrier : d # c => carriers'[d] = carriers[d]
    BY <1>1 DEF transitionCarrier, CarrierInv, CarrierTypeOK
<1> QED  BY <1>1, <1>2 DEF StepsValid

LEMMA StepsValidStep ==
    ASSUME CarrierInv, [CarrierNext]_carrierVars
    PROVE  StepsValid
<1> USE DEF ValidCarrier, validCarrierTransitions
<1>1. ASSUME NEW c \in Carrier, DriveCarrier(c) PROVE StepsValid
    <2>1. CASE ProceedWithCarrier(c)
        BY <2>1, TransitionValid DEF ProceedWithCarrier, CarrierState
    <2>2. CASE StartAccess(c)
        BY <2>2, TransitionValid DEF StartAccess, CarrierState
    <2>3. CASE CompleteAccess(c)
        BY <2>3, TransitionValid DEF CompleteAccess, CarrierState
    <2>4. CASE StopCarrier(c)
        BY <2>4, TransitionValid DEF StopCarrier, CarrierState
    <2>5. CASE ResumeCarrier(c)
        BY <2>5, TransitionValid DEF ResumeCarrier, CarrierState
    <2> QED  BY <1>1, <2>1, <2>2, <2>3, <2>4, <2>5 DEF DriveCarrier
<1>2. ASSUME NEW u \in Unloaders, NEW c \in Carrier, ReadyToUnload(u, c) PROVE StepsValid
    BY <1>2, TransitionValid DEF ReadyToUnload, UnloadableFrom, CarrierState
<1>3. ASSUME NEW c \in Carrier, NEW p \in Port, BindCarrier(c, p) PROVE StepsValid
    <2>1. /\ carriers'[c].port = p /\ ports[p].carrier = NoCarrier
          /\ \A d \in Carrier : d # c => carriers'[d] = carriers[d]
        BY <1>3 DEF BindCarrier, CarrierInv, CarrierTypeOK
    <2>2. Bound(c) => carriers[c].port # p
        BY <2>1, CarrierAssumption DEF CarrierInv, PortsMatch
    <2> QED  BY <2>1, <2>2 DEF StepsValid
<1>4. ASSUME NEW c \in Carrier, UnbindCarrier(c) PROVE StepsValid
    <2>1. /\ carriers'[c].port = NoPort
          /\ \A d \in Carrier : d # c => carriers'[d] = carriers[d]
        BY <1>4 DEF UnbindCarrier, CarrierInv, CarrierTypeOK, Unbound
    <2>2. Bound(c) => carriers[c].port # NoPort
        BY BoundHasPort, CarrierAssumption DEF CarrierInv
    <2> QED  BY <2>1, <2>2 DEF StepsValid
<1>5. ASSUME carriers' = carriers PROVE StepsValid
    BY <1>5 DEF StepsValid
<1> QED  BY <1>1, <1>2, <1>3, <1>4, <1>5
    DEF CarrierNext, SetPortInService, SetPortOutOfService, SetSlotMap, ReadyToUnloadPort, carrierVars

\* The validator's table accepts every change of a carrier's state while it stays
\* on one port, whatever the order of calls.
THEOREM CarrierStepsAccepted == CarrierSpec => CarrierStepsValid
<1>1. CarrierInv /\ [CarrierNext]_carrierVars => [StepsValid]_carrierVars
    BY StepsValidStep
<1>2. CarrierStepsValid <=> [][StepsValid]_carrierVars
    BY DEF CarrierStepsValid, StepsValid
<1> QED  BY <1>1, <1>2, CarrierInvariant, PTL DEF CarrierSpec

-----------------------------------------------------------------------------

\* A carrier that is not bound meanwhile stays ready, or leaves its port, from
\* the first critical section of ReadyToUnload to the second.
StaysReady ==
    \A u \in Unloaders : LET c == unloading[u] IN
        c # NoCarrier /\ c \notin rebound => carriers[c].state = "ReadyToUnload" \/ ~Bound(c)

ReadyInv == UnloadPortHasDoneCarrier /\ StaysReady

\* A port that offers a carrier has one.
LEMMA OfferHasCarrier ==
    ASSUME CarrierInv
    PROVE  \A p \in Port : ports[p].state = "ReadyToUnload" => ports[p].carrier \in Carrier
    BY DEF CarrierInv, CarrierTypeOK, PortsMatch

\* A step that changes one carrier, which is not ready, and no port.
LEMMA ReadyKept ==
    ASSUME CarrierInv, ReadyInv, NEW c \in Carrier, NEW from, NEW to,
           transitionCarrier(c, from, to), from \in SUBSET CarrierState,
           "ReadyToUnload" \notin from, ports' = ports, rebound' = rebound
    PROVE  /\ UnloadPortHasDoneCarrier'
           /\ \A d \in Carrier :
                 /\ carriers[d].state = "ReadyToUnload" => carriers'[d].state = "ReadyToUnload"
                 /\ ~Bound(d) => ~Bound(d)'
           /\ carriers'[c].state = to
<1>1. \A d \in Carrier : d # c => carriers'[d] = carriers[d]
    BY DEF transitionCarrier, CarrierInv, CarrierTypeOK
<1>2. carriers[c].state # "ReadyToUnload" /\ Bound(c)
    BY BoundHasPort DEF transitionCarrier, CarrierState, CarrierInv
<1>3. carriers'[c].state = to
    BY DEF transitionCarrier, CarrierInv, CarrierTypeOK, Unbound
<1>4. \A d \in Carrier : carriers[d].state = "ReadyToUnload" => carriers'[d].state = "ReadyToUnload"
    BY <1>1, <1>2
<1>5. \A d \in Carrier : ~Bound(d) => ~Bound(d)'
    BY <1>1, <1>2 DEF Bound
<1> QED  BY <1>3, <1>4, <1>5, OfferHasCarrier DEF ReadyInv, UnloadPortHasDoneCarrier

LEMMA ReadyStep ==
    ASSUME CarrierInv, ReadyInv, [CarrierNext]_carrierVars
    PROVE  ReadyInv'
<1>0. unloading \in [Unloaders -> Carrier \cup {NoCarrier}]
    BY DEF CarrierInv, CarrierTypeOK
<1>1. ASSUME NEW p \in Port, SetPortInService(p) \/ SetPortOutOfService(p) PROVE ReadyInv'
    BY <1>1 DEF SetPortInService, SetPortOutOfService, CarrierInv, CarrierTypeOK, ReadyInv,
                UnloadPortHasDoneCarrier, StaysReady, Bound
<1>2. ASSUME NEW c \in Carrier, NEW p \in Port, BindCarrier(c, p) PROVE ReadyInv'
    <2>1. /\ carriers' = [carriers EXCEPT ![c] = [state |-> "NotAccessed", port |-> p]]
          /\ ports' = [ports EXCEPT ![p] = [state |-> "TransferReady", carrier |-> c]]
          /\ unloading' = unloading /\ rebound \subseteq rebound'
          /\ Bound(c) \/ BeingUnloaded(c) => c \in rebound'
        BY <1>2 DEF BindCarrier
    <2>2. /\ \A d \in Carrier : d # c => carriers'[d] = carriers[d]
          /\ ports'[p].state = "TransferReady"
          /\ \A q \in Port : q # p => ports'[q] = ports[q]
        BY <2>1 DEF CarrierInv, CarrierTypeOK
    <2>3. StaysReady'
        <3> SUFFICES ASSUME NEW u \in Unloaders, unloading[u] # NoCarrier, unloading[u] \notin rebound'
                     PROVE  (carriers[unloading[u]].state = "ReadyToUnload" \/ ~Bound(unloading[u]))'
            BY <2>1 DEF StaysReady
        <3>1. unloading[u] # c
            BY <2>1 DEF BeingUnloaded
        <3>2. unloading[u] \in Carrier /\ carriers'[unloading[u]] = carriers[unloading[u]]
            BY <1>0, <2>2, <3>1
        <3> QED  BY <2>1, <3>2 DEF ReadyInv, StaysReady, Bound
    <2>4. ASSUME NEW q \in Port, ports'[q].state = "ReadyToUnload", ports'[q].carrier \notin rebound'
          PROVE  carriers'[ports'[q].carrier].state = "ReadyToUnload"
        <3>1. q # p /\ ports'[q] = ports[q]
            BY <2>2, <2>4
        <3>2. ports[q].carrier \in Carrier /\ ports[q].carrier \notin rebound
            BY <2>1, <2>4, <3>1, OfferHasCarrier
        <3>3. ports[q].carrier # c
            <4>1. carriers[ports[q].carrier].port = q
                BY <3>2, CarrierAssumption DEF CarrierInv, PortsMatch
            <4> QED  BY <2>1, <2>4, <3>1, <3>2, <4>1, BoundHasPort DEF CarrierInv
        <3> QED  BY <2>2, <2>4, <3>1, <3>2, <3>3 DEF ReadyInv, UnloadPortHasDoneCarrier
    <2> QED  BY <2>3, <2>4 DEF ReadyInv, UnloadPortHasDoneCarrier
<1>3. ASSUME NEW c \in Carrier, UnbindCarrier(c) PROVE ReadyInv'
    <2> DEFINE p == carriers[c].port
    <2>1. /\ carriers' = [carriers EXCEPT ![c] = Unbound]
          /\ ports' = [ports EXCEPT ![p] = [state |-> "ReadyToLoad", carrier |-> NoCarrier]]
          /\ Bound(c) /\ unloading' = unloading /\ rebound' = rebound
        BY <1>3 DEF UnbindCarrier
    <2>2. p \in Port /\ ports[p].carrier = c
        BY <2>1, BoundHasPort DEF CarrierInv, PortsMatch
    <2>3. /\ \A d \in Carrier : d # c => carriers'[d] = carriers[d]
          /\ carriers'[c] = Unbound
          /\ ports'[p].state = "ReadyToLoad"
          /\ \A q \in Port : q # p => ports'[q] = ports[q]
        BY <2>1, <2>2 DEF CarrierInv, CarrierTypeOK
    <2>4. StaysReady'
        BY <1>0, <2>1, <2>3 DEF ReadyInv, StaysReady, Bound
    <2>5. \A q \in Port : q # p => ports[q].carrier # c \/ ports[q].carrier \in rebound
        BY CarrierAssumption DEF CarrierInv, PortsMatch
    <2> HIDE DEF p
    <2> QED  BY <2>1, <2>3, <2>4, <2>5, OfferHasCarrier DEF ReadyInv, UnloadPortHasDoneCarrier
<1>4. ASSUME NEW c \in Carrier, DriveCarrier(c) PROVE ReadyInv'
    <2>1. PICK from, to : /\ transitionCarrier(c, from, to) /\ "ReadyToUnload" \notin from
                          /\ from \in SUBSET CarrierState
        BY <1>4 DEF DriveCarrier, ProceedWithCarrier, StartAccess, CompleteAccess, StopCarrier,
                    ResumeCarrier, CarrierState
    <2>2. ports' = ports /\ unloading' = unloading /\ rebound' = rebound
        BY <1>4 DEF DriveCarrier
    <2>3. StaysReady'
        BY <1>0, <2>1, <2>2, ReadyKept DEF ReadyInv, StaysReady
    <2> QED  BY <2>1, <2>2, <2>3, ReadyKept DEF ReadyInv
<1>5. ASSUME NEW c \in Carrier, SetSlotMap(c) PROVE ReadyInv'
    BY <1>5 DEF SetSlotMap, ReadyInv, UnloadPortHasDoneCarrier, StaysReady, Bound
<1>6. ASSUME NEW u \in Unloaders, NEW c \in Carrier, ReadyToUnload(u, c) PROVE ReadyInv'
    <2>1. /\ transitionCarrier(c, UnloadableFrom, "ReadyToUnload")
          /\ "ReadyToUnload" \notin UnloadableFrom /\ UnloadableFrom \in SUBSET CarrierState
        BY <1>6 DEF ReadyToUnload, UnloadableFrom, CarrierState
    <2>2. ports' = ports /\ rebound' = rebound /\ unloading' = [unloading EXCEPT ![u] = c]
        BY <1>6 DEF ReadyToUnload
    <2>3. \A v \in Unloaders : unloading'[v] = IF v = u THEN c ELSE unloading[v]
        BY <1>0, <2>2
    <2>4. StaysReady'
        BY <1>0, <2>1, <2>2, <2>3, ReadyKept DEF ReadyInv, StaysReady
    <2> QED  BY <2>1, <2>2, <2>4, ReadyKept DEF ReadyInv
<1>7. ASSUME NEW u \in Unloaders, ReadyToUnloadPort(u) PROVE ReadyInv'
    <2> DEFINE c == unloading[u]
    <2>1. /\ c \in Carrier /\ carriers' = carriers /\ rebound' = rebound
          /\ unloading' = [unloading EXCEPT ![u] = NoCarrier]
        BY <1>7 DEF ReadyToUnloadPort, CarrierInv, CarrierTypeOK
    <2>2. StaysReady'
        BY <1>0, <2>1 DEF ReadyInv, StaysReady, Bound
    <2>3. CASE ~Bound(c)
        <3>1. ports' = ports
            BY <2>3, <1>7 DEF ReadyToUnloadPort
        <3> QED  BY <2>1, <2>2, <3>1 DEF ReadyInv, UnloadPortHasDoneCarrier
    <2>4. CASE Bound(c)
        <3> DEFINE p == carriers[c].port
        <3>1. ports' = [ports EXCEPT ![p].state = "ReadyToUnload"]
            BY <2>4, <1>7 DEF ReadyToUnloadPort
        <3>2. p \in Port /\ ports[p].carrier = c
            BY <2>1, <2>4, BoundHasPort DEF CarrierInv, PortsMatch
        <3>3. c \notin rebound => carriers[c].state = "ReadyToUnload"
            BY <2>1, <2>4, CarrierAssumption DEF ReadyInv, StaysReady
        <3>4. ports'[p].carrier = c /\ \A q \in Port : q # p => ports'[q] = ports[q]
            BY <3>1, <3>2 DEF CarrierInv, CarrierTypeOK
        <3> HIDE DEF p, c
        <3> QED  BY <2>1, <2>2, <3>3, <3>4 DEF ReadyInv, UnloadPortHasDoneCarrier
    <2> QED  BY <2>3, <2>4
<1>8. CASE UNCHANGED carrierVars
    BY <1>8 DEF carrierVars, ReadyInv, UnloadPortHasDoneCarrier, StaysReady, Bound
<1> QED  BY <1>1, <1>2, <1>3, <1>4, <1>5, <1>6, <1>7, <1>8 DEF CarrierNext

\* A port offers a carrier that is not ready only if the carrier was bound while
\* on a port or while it was being unloaded, though ReadyToUnload writes the
\* carrier and its port in two critical sections and any call comes in between.
THEOREM OffersOnlyReady == CarrierSpec => []UnloadPortHasDoneCarrier
<1>1. CarrierInit => ReadyInv
    BY DEF CarrierInit, ReadyInv, UnloadPortHasDoneCarrier, StaysReady
<1>2. CarrierInv /\ ReadyInv /\ [CarrierNext]_carrierVars => ReadyInv'
    BY ReadyStep
<1>3. ReadyInv => UnloadPortHasDoneCarrier
    BY DEF ReadyInv
<1> QED  BY <1>1, <1>2, <1>3, CarrierInvariant, PTL DEF CarrierSpec
=============================================================================
