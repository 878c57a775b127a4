------------------------------ MODULE HsmsPair ------------------------------
(***************************************************************************)
(* A host (active) and an equipment (passive), each a Session of           *)
(* pkg/transport/hsms/session.go, and the TCP connection between them.     *)
(*                                                                         *)
(* H and E are two instances of HsmsSession.  Their steps interleave; what *)
(* one writes the other reads in order; an endpoint sees end of file once  *)
(* the other has closed the connection, or has closed its listener before  *)
(* accepting it.  A dial succeeds only while the equipment listens.        *)
(*                                                                         *)
(* The variable deselected is history: it records that the equipment has   *)
(* taken up a Deselect.req, and no step depends on it.                     *)
(***************************************************************************)
EXTENDS Naturals, Sequences, FiniteSets

CONSTANTS
    HostCallers, EquipCallers,   \* goroutines calling SendMessage on each side
    HostTypes, EquipTypes,       \* the messages they send
    HostCloses, EquipCloses,     \* when the application may call Close
    CallerIDs, MaxSystemID, Channel, InboundCap, WireCap,
    None, NoMsg

VARIABLES
    hState, hClosed, hDone, hConn, hListener, hCancel, hNextSystemID, hPending,
    hCh, hMine, hTarget, hInbound, hPc, hCur, hReq, hRsp,
    eState, eClosed, eDone, eConn, eListener, eCancel, eNextSystemID, ePending,
    eCh, eMine, eTarget, eInbound, ePc, eCur, eReq, eRsp,
    h2e, e2h,                    \* the two directions of the connection
    tcp,
    deselected

hostVars == <<hState, hClosed, hDone, hConn, hListener, hCancel, hNextSystemID, hPending,
              hCh, hMine, hTarget, hInbound, hPc, hCur, hReq, hRsp>>
equipVars == <<eState, eClosed, eDone, eConn, eListener, eCancel, eNextSystemID, ePending,
               eCh, eMine, eTarget, eInbound, ePc, eCur, eReq, eRsp>>
vars == <<hostVars, equipVars, h2e, e2h, tcp, deselected>>

H == INSTANCE HsmsSession WITH
    Roles <- {"Active"}, Callers <- HostCallers, CallTypes <- HostTypes, PeerTypes <- {},
    T7Enabled <- FALSE, LinktestEnabled <- FALSE, TTLEnabled <- FALSE, RateLimited <- FALSE,
    CloseFrom <- HostCloses, role <- "Active",
    state <- hState, closed <- hClosed, done <- hDone, conn <- hConn, listener <- hListener,
    cancel <- hCancel, nextSystemID <- hNextSystemID, pending <- hPending, ch <- hCh,
    mine <- hMine, target <- hTarget, inbound <- hInbound, pc <- hPc, cur <- hCur, req <- hReq, rsp <- hRsp,
    in <- e2h, out <- h2e,
    eof <- (eConn = "closed" \/ (eListener = "closed" /\ tcp = "dialed"))

E == INSTANCE HsmsSession WITH
    Roles <- {"Passive"}, Callers <- EquipCallers, CallTypes <- EquipTypes, PeerTypes <- {},
    T7Enabled <- FALSE, LinktestEnabled <- FALSE, TTLEnabled <- FALSE, RateLimited <- FALSE,
    CloseFrom <- EquipCloses, role <- "Passive",
    state <- eState, closed <- eClosed, done <- eDone, conn <- eConn, listener <- eListener,
    cancel <- eCancel, nextSystemID <- eNextSystemID, pending <- ePending, ch <- eCh,
    mine <- eMine, target <- eTarget, inbound <- eInbound, pc <- ePc, cur <- eCur, req <- eReq, rsp <- eRsp,
    in <- h2e, out <- e2h,
    eof <- (hConn = "closed")

\* The callers of a host send any message.  Those of an equipment start no Select
\* and answer none: Select is called by the active side alone.
ASSUME PairAssumption ==
    /\ (HostCallers \cup EquipCallers) \cap H!Fixed = {}
    /\ HostTypes \subseteq H!MsgType
    /\ EquipTypes \subseteq H!MsgType \ {"SelectReq", "SelectRsp"}
    /\ CallerIDs \subseteq 1 .. MaxSystemID
    /\ {MaxSystemID, InboundCap, WireCap} \subseteq Nat
    /\ {HostCloses, EquipCloses} \subseteq {"never", "setup", "new"}
    /\ None \notin Channel
    /\ NoMsg \notin H!Msg

Init == H!LocalInit /\ E!LocalInit /\ deselected = FALSE

HostAlone ==
    /\ tcp' # tcp => eListener = "open"
    /\ UNCHANGED <<equipVars, deselected>>
EquipAlone ==
    /\ deselected' = (deselected \/ ePc'["reader"] = "deselect")
    /\ UNCHANGED hostVars

HostStep  == H!Local /\ HostAlone
EquipStep == E!Local /\ EquipAlone

Next == HostStep \/ EquipStep

Spec == Init /\ [][Next]_vars

\* Both applications call Connect, goroutines that can run do run, timers expire.
\* Nothing makes an application call SendMessage or Close.
HostFairness ==
    /\ WF_vars(H!Connect /\ HostAlone)
    /\ \A p \in {"user", "reader", "app", "closer"} \cup HostCallers :
           WF_vars(H!Run(p) /\ HostAlone)
EquipFairness ==
    /\ WF_vars(E!Connect /\ EquipAlone)
    /\ \A p \in {"user", "acceptor", "reader", "app", "closer"} \cup EquipCallers :
           WF_vars(E!Run(p) /\ EquipAlone)

FairSpec == Spec /\ HostFairness /\ EquipFairness

-----------------------------------------------------------------------------
(* Properties. *)

\* A message a goroutine may get as the reply to its request r.
IsReplyTo(m, r) ==
    m.type \in CASE r.type = "Data"        -> {"Reply", "RejectReq"}
                 [] r.type = "SelectReq"   -> {"SelectRsp", "SelectRspFail"}
                 [] r.type = "DeselectReq" -> {"DeselectRsp"}
                 [] OTHER                  -> {"LinktestRsp"}

\* What handleMessage gives a waiting call is the reply to its request and not a
\* message of the peer's own: the system IDs of the two sides never meet.
RepliesAreReplies ==
    /\ \A w \in H!Waiter : H!Waiting(w) /\ hCh[hMine[w]] # NoMsg =>
           IsReplyTo(hCh[hMine[w]], hReq[w])
    /\ \A w \in E!Waiter : E!Waiting(w) /\ eCh[eMine[w]] # NoMsg =>
           IsReplyTo(eCh[eMine[w]], eReq[w])

\* Until it takes up a Deselect.req, the passive side rejects no data message of a
\* host, which sends data only once Selected: handleSelectReq stores Selected before
\* the next message is read.
PassiveAcceptsData == ePc["reader"] = "reject" => eClosed \/ deselected

\* The same on the active side, where Select stores Selected on another
\* goroutine than the reader: rejectNotSelected is for data that arrived before
\* Select.
ActiveAcceptsData == hPc["reader"] = "reject" => hClosed

\* A host that is Selected has a peer that is Selected too, or is closing, or has
\* taken up a Deselect.req (which leaves the host Selected): the response to the
\* Select.req is on the wire before the equipment stores its state, and may be taken
\* in before that.
SelectedAgreement ==
    hState = "Selected" => \/ eState = "Selected"
                           \/ eClosed \/ hClosed
                           \/ ePc["reader"] = "storeSel"
                           \/ deselected

\* A connection that one side has closed is closed by the other: end of file ends
\* the read loop, whose deferred call is Close.
CloseReachesPeer ==
    ((hDone > 0 /\ tcp = "accepted") \/ (eDone > 0 /\ hConn # "nil"))
        ~> (hDone > 0 /\ eDone > 0)

=============================================================================
