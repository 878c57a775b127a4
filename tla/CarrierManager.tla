--------------------------- MODULE CarrierManager ---------------------------
(***************************************************************************)
(* Carriers and load ports (E87): pkg/driver/gem/carrier.go.               *)
(*                                                                         *)
(* The manager is called by any goroutine of the application.  Every       *)
(* method holds the lock from end to end except ReadyToUnload, which       *)
(* changes the carrier in one critical section and its port in a second.   *)
(* A call that returns an error changes nothing and is no step.            *)
(*                                                                         *)
(* BindCarrier looks at the port and not at the carrier: a carrier that is *)
(* on a port can be bound to another one, and the first still names it.    *)
(* The history variable rebound has the carriers this happened to, and     *)
(* those that were bound while a ReadyToUnload for them was under way.     *)
(***************************************************************************)
EXTENDS ValidatorTables

CONSTANTS
    Carrier, Port,
    Unloaders,     \* goroutines that call ReadyToUnload
    NoCarrier, NoPort

ASSUME CarrierAssumption == NoCarrier \notin Carrier /\ NoPort \notin Port

VARIABLES
    carriers,      \* State and PortID of each carrier; "Absent": not in the map
    mapped,        \* the carriers whose SlotMap has been set
    ports,         \* State and CarrierID of each port
    unloading,     \* the carrier of each ReadyToUnload between its two sections
    rebound        \* history: carriers bound while on a port or being unloaded

carrierVars == <<carriers, mapped, ports, unloading, rebound>>

CarrierState == {"NotAccessed", "WaitingForHost", "InAccess", "CarrierComplete", "Stopped",
                 "ReadyToUnload"}
LoadPortState == {"OutOfService", "TransferBlocked", "ReadyToLoad", "TransferReady",
                  "ReadyToUnload"}
Unbound == [state |-> "Absent", port |-> NoPort]

CarrierTypeOK ==
    /\ carriers \in [Carrier -> [state : CarrierState, port : Port] \cup {Unbound}]
    /\ mapped \subseteq Carrier
    /\ ports \in [Port -> [state : LoadPortState, carrier : Carrier \cup {NoCarrier}]]
    /\ unloading \in [Unloaders -> Carrier \cup {NoCarrier}]
    /\ rebound \subseteq Carrier

\* NewCarrierManager and DefinePort of each port.
CarrierInit ==
    /\ carriers = [c \in Carrier |-> Unbound]
    /\ mapped = {}
    /\ ports = [p \in Port |-> [state |-> "OutOfService", carrier |-> NoCarrier]]
    /\ unloading = [u \in Unloaders |-> NoCarrier]
    /\ rebound = {}

Bound(c) == carriers[c] # Unbound
BeingUnloaded(c) == \E u \in Unloaders : unloading[u] = c

-----------------------------------------------------------------------------

SetPortInService(p) ==
    /\ ports' = [ports EXCEPT ![p].state = "ReadyToLoad"]
    /\ UNCHANGED <<carriers, mapped, unloading, rebound>>

SetPortOutOfService(p) ==
    /\ ports[p].carrier = NoCarrier
    /\ ports' = [ports EXCEPT ![p].state = "OutOfService"]
    /\ UNCHANGED <<carriers, mapped, unloading, rebound>>

BindCarrierAnyPort(c, p) ==
    /\ ports[p].state = "ReadyToLoad"
    /\ carriers' = [carriers EXCEPT ![c] = [state |-> "NotAccessed", port |-> p]]
    /\ mapped' = mapped \ {c}
    /\ ports' = [ports EXCEPT ![p] = [state |-> "TransferReady", carrier |-> c]]
    /\ rebound' = IF Bound(c) \/ BeingUnloaded(c) THEN rebound \cup {c} ELSE rebound
    /\ UNCHANGED unloading

BindCarrier(c, p) ==
    /\ ports[p].state = "ReadyToLoad"
    /\ ports[p].carrier = NoCarrier
    /\ carriers' = [carriers EXCEPT ![c] = [state |-> "NotAccessed", port |-> p]]
    /\ mapped' = mapped \ {c}
    /\ ports' = [ports EXCEPT ![p] = [state |-> "TransferReady", carrier |-> c]]
    /\ rebound' = IF Bound(c) \/ BeingUnloaded(c) THEN rebound \cup {c} ELSE rebound
    /\ UNCHANGED unloading

UnbindKeepsPort(c) ==
    /\ Bound(c)
    /\ carriers[c].state \in {"ReadyToUnload", "NotAccessed"}
    /\ carriers' = [carriers EXCEPT ![c] = Unbound]
    /\ mapped' = mapped \ {c}
    /\ ports' = [ports EXCEPT ![carriers[c].port].state = "ReadyToLoad"]
    /\ UNCHANGED <<unloading, rebound>>

UnbindCarrier(c) ==
    /\ Bound(c)
    /\ carriers[c].state \in {"ReadyToUnload", "NotAccessed"}
    /\ carriers' = [carriers EXCEPT ![c] = Unbound]
    /\ mapped' = mapped \ {c}
    /\ ports' = [ports EXCEPT ![carriers[c].port] = [state |-> "ReadyToLoad", carrier |-> NoCarrier]]
    /\ UNCHANGED <<unloading, rebound>>

\* transitionCarrier: a step only from one of the expected states.
transitionCarrier(c, expected, newState) ==
    /\ carriers[c].state \in expected
    /\ carriers' = [carriers EXCEPT ![c].state = newState]

ProceedUnknown(c) == transitionCarrier(c, {"NotAccessed", "Absent"}, "WaitingForHost")

ProceedWithCarrier(c) == transitionCarrier(c, {"NotAccessed"}, "WaitingForHost")
StartAccess(c) == transitionCarrier(c, {"WaitingForHost"}, "InAccess")
CompleteAccess(c) == transitionCarrier(c, {"InAccess"}, "CarrierComplete")
StopCarrier(c) == transitionCarrier(c, {"InAccess"}, "Stopped")
ResumeCarrier(c) == transitionCarrier(c, {"Stopped"}, "InAccess")

DriveCarrier(c) ==
    /\ \/ ProceedWithCarrier(c) \/ StartAccess(c) \/ CompleteAccess(c)
       \/ StopCarrier(c) \/ ResumeCarrier(c)
    /\ UNCHANGED <<mapped, ports, unloading, rebound>>

\* ReadyToUnload, first critical section.
UnloadableFrom == {"CarrierComplete", "Stopped", "NotAccessed"}
ReadyToUnloadFromAccess(u, c) ==
    /\ unloading[u] = NoCarrier
    /\ transitionCarrier(c, UnloadableFrom \cup {"InAccess"}, "ReadyToUnload")
    /\ unloading' = [unloading EXCEPT ![u] = c]
    /\ UNCHANGED <<mapped, ports, rebound>>

ReadyToUnloadIgnoresError(u, c) ==
    /\ unloading[u] = NoCarrier /\ Bound(c)
    /\ carriers' = IF carriers[c].state \in UnloadableFrom
                   THEN [carriers EXCEPT ![c].state = "ReadyToUnload"] ELSE carriers
    /\ unloading' = [unloading EXCEPT ![u] = c]
    /\ UNCHANGED <<mapped, ports, rebound>>

ReadyToUnload(u, c) ==
    /\ unloading[u] = NoCarrier
    /\ transitionCarrier(c, UnloadableFrom, "ReadyToUnload")
    /\ unloading' = [unloading EXCEPT ![u] = c]
    /\ UNCHANGED <<mapped, ports, rebound>>

\* ReadyToUnload, second critical section: the port of the carrier, if it is
\* (still or again) there.
ReadyToUnloadPort(u) ==
    LET c == unloading[u] IN
    /\ c # NoCarrier
    /\ ports' = IF Bound(c) THEN [ports EXCEPT ![carriers[c].port].state = "ReadyToUnload"] ELSE ports
    /\ unloading' = [unloading EXCEPT ![u] = NoCarrier]
    /\ UNCHANGED <<carriers, mapped, rebound>>

SetSlotMap(c) ==
    /\ Bound(c)
    /\ mapped' = mapped \cup {c}
    /\ UNCHANGED <<carriers, ports, unloading, rebound>>

CarrierNext ==
    \/ \E p \in Port : SetPortInService(p) \/ SetPortOutOfService(p)
    \/ \E c \in Carrier, p \in Port : BindCarrier(c, p)
    \/ \E c \in Carrier : UnbindCarrier(c) \/ DriveCarrier(c) \/ SetSlotMap(c)
    \/ \E u \in Unloaders, c \in Carrier : ReadyToUnload(u, c)
    \/ \E u \in Unloaders : ReadyToUnloadPort(u)

CarrierSpec == CarrierInit /\ [][CarrierNext]_carrierVars

-----------------------------------------------------------------------------
(* Properties. *)

\* The port a carrier is on names that carrier, whatever order the calls come
\* in; a port out of service is empty and one that offers a transfer is not;
\* and a port names a carrier that is not there, against "ID of carrier on
\* port" (LoadPort.CarrierID), only after that carrier was bound a second time
\* (BindCarrier, UnbindCarrier, SetPortInService, SetPortOutOfService,
\* ReadyToUnload).
PortsMatch ==
    /\ \A c \in Carrier : Bound(c) => ports[carriers[c].port].carrier = c
    /\ \A p \in Port : LET c == ports[p].carrier IN
          /\ c # NoCarrier /\ c \notin rebound => carriers[c].port = p
          /\ ports[p].state = "OutOfService" => c = NoCarrier
          /\ ports[p].state \in {"TransferReady", "ReadyToUnload"} => c # NoCarrier

\* A port gives up the carrier it names only by UnbindCarrier of that carrier,
\* and never while its wafers are accessed, also when the port was set in
\* service under it or the carrier was bound to another port in between
\* (SetPortInService, BindCarrier).
CarrierStaysWhileAccessed ==
    [][\A p \in Port : LET c == ports[p].carrier IN
          c # NoCarrier /\ ports'[p].carrier # c =>
            /\ carriers[c].state \in {"ReadyToUnload", "NotAccessed"}
            /\ carriers'[c] = Unbound]_carrierVars

\* While a carrier stays on one port, the validator accepts every change of its
\* state (transitionCarrier against validCarrierTransitions).  A carrier that
\* is bound to another port starts anew from any state.
CarrierStepsValid ==
    [][\A c \in Carrier :
          Bound(c) /\ carriers'[c].port = carriers[c].port =>
              \/ carriers'[c].state = carriers[c].state
              \/ ValidCarrier(carriers[c].state, carriers'[c].state)]_carrierVars

\* "Carrier done, ready for removal" (PortReadyToUnload): a port offers a carrier
\* for removal only when that carrier is ready.  A carrier that is unbound and
\* bound again, or bound elsewhere, between the two critical sections of
\* ReadyToUnload is offered though it has not been accessed.
OffersDoneCarrier ==
    \A p \in Port : ports[p].state = "ReadyToUnload"
                      => carriers[ports[p].carrier].state = "ReadyToUnload"

\* These are the only ways: a port offers a carrier that is not ready only if
\* the carrier was bound while on a port or while it was being unloaded, though
\* other calls for it come between the critical sections (ReadyToUnload).
UnloadPortHasDoneCarrier ==
    \A p \in Port : ports[p].state = "ReadyToUnload" /\ ports[p].carrier \notin rebound
                      => carriers[ports[p].carrier].state = "ReadyToUnload"
=============================================================================
