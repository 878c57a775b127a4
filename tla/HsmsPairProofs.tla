--------------------------- MODULE HsmsPairProofs ---------------------------
(***************************************************************************)
(* Proofs about HsmsPair, for every value of its constants.                *)
(*                                                                         *)
(* HP and EP are the lemmas of HsmsSessionProofs about the host and about  *)
(* the equipment: what a step of the endpoint does, whatever its peer is.  *)
(* The pair's own part is what each step means for the other end.          *)
(***************************************************************************)
EXTENDS HsmsPair, SequenceTheorems, TLAPS

HP == INSTANCE HsmsSessionProofs WITH
    Roles <- {"Active"}, Callers <- HostCallers, CallTypes <- HostTypes, PeerTypes <- {},
    T7Enabled <- FALSE, LinktestEnabled <- FALSE, TTLEnabled <- FALSE, RateLimited <- FALSE,
    CloseFrom <- HostCloses, role <- "Active",
    state <- hState, closed <- hClosed, done <- hDone, conn <- hConn, listener <- hListener,
    cancel <- hCancel, nextSystemID <- hNextSystemID, pending <- hPending, ch <- hCh,
    mine <- hMine, target <- hTarget, inbound <- hInbound, pc <- hPc, cur <- hCur, req <- hReq, rsp <- hRsp,
    in <- e2h, out <- h2e,
    eof <- (eConn = "closed" \/ (eListener = "closed" /\ tcp = "dialed"))

EP == INSTANCE HsmsSessionProofs WITH
    Roles <- {"Passive"}, Callers <- EquipCallers, CallTypes <- EquipTypes, PeerTypes <- {},
    T7Enabled <- FALSE, LinktestEnabled <- FALSE, TTLEnabled <- FALSE, RateLimited <- FALSE,
    CloseFrom <- EquipCloses, role <- "Passive",
    state <- eState, closed <- eClosed, done <- eDone, conn <- eConn, listener <- eListener,
    cancel <- eCancel, nextSystemID <- eNextSystemID, pending <- ePending, ch <- eCh,
    mine <- eMine, target <- eTarget, inbound <- eInbound, pc <- ePc, cur <- eCur, req <- eReq, rsp <- eRsp,
    in <- h2e, out <- e2h,
    eof <- (hConn = "closed")

\* The constants of each endpoint satisfy the assumption of HsmsSession.
LEMMA HostConstants == HP!ConstantsAssumption
BY PairAssumption DEF HP!ConstantsAssumption, HP!Fixed, HP!Proc, HP!Msg, HP!MsgType, HP!Ids,
   H!Fixed, H!Proc, H!Msg, H!MsgType, H!Ids

LEMMA EquipConstants == EP!ConstantsAssumption
BY PairAssumption DEF EP!ConstantsAssumption, EP!Fixed, EP!Proc, EP!Msg, EP!MsgType, EP!Ids,
   H!Fixed, H!Msg, H!MsgType, H!Ids, E!Proc, E!Fixed

\* A message is the same thing at both ends.
LEMMA SameMsg == HP!Msg = EP!Msg
BY DEF HP!Msg, HP!MsgType, HP!Ids, EP!Msg, EP!MsgType, EP!Ids

\* A step of H is a step of HP, and of E one of EP: the definitions are those of
\* HsmsSession, instantiated twice.
LEMMA HostLocal == H!Local => HP!Local
BY Zenon DEF H!Connect, H!DialOk, H!ConnectFails, H!DialStore, H!ListenOk, H!StartLoops,
       H!ActiveStartLoops, H!SelectRefused, H!FreeChannels, H!SystemID, H!Register, H!DeletePending, H!SendFailed,
       H!SendWrite, H!SendWriteFails, H!ReplyArrives, H!WaitTimeout, H!Select,
       H!SelectStore, H!SendMessage, H!Send, H!ReceiveMessage, H!SendReply, H!Accept,
       H!AcceptFails, H!AcceptSetConn, H!AcceptStore, H!PassiveStartLoops, H!AfterClose,
       H!CloseReturns, H!CloseCAS, H!CloseCancel, H!CloseConn, H!CloseListener,
       H!CloseStore, H!CloseDone, H!CloseStep, H!Closers, H!CallClose, H!ReadMessage,
       H!ReadLoopExits, H!Dispatch, H!HandleMessage, H!Deliver, H!PushInbound, H!Respond,
       H!RejectNotSelected, H!HandleLinktestReq, H!HandleSelectReq, H!HandleDeselectReq,
       H!ReaderStore, H!T7Expires, H!T7Stops, H!TTLExpires, H!LinktestTick, H!LinktestStops,
       H!UserStep, H!AcceptorStep, H!ReaderStep, H!SenderStep, H!WaiterStep, H!TimerStep,
       H!CallerStep, H!AppStep, H!Local, H!Goto, H!Step, H!WriteOk, H!WriteFails, H!Message, H!IsData,
       H!ExpectsReply, H!Ids, H!Waiter, H!Sender, H!life, H!handles, H!txn, H!rcv, H!net,
       H!ClosePc, HP!Connect, HP!DialOk, HP!ConnectFails, HP!DialStore, HP!ListenOk,
       HP!StartLoops, HP!ActiveStartLoops, HP!SelectRefused, HP!FreeChannels, HP!SystemID, HP!Register, HP!DeletePending,
       HP!SendFailed, HP!SendWrite, HP!SendWriteFails, HP!ReplyArrives, HP!WaitTimeout,
       HP!Select, HP!SelectStore, HP!SendMessage, HP!Send, HP!ReceiveMessage, HP!SendReply,
       HP!Accept, HP!AcceptFails, HP!AcceptSetConn, HP!AcceptStore, HP!PassiveStartLoops,
       HP!AfterClose, HP!CloseReturns, HP!CloseCAS, HP!CloseCancel, HP!CloseConn,
       HP!CloseListener, HP!CloseStore, HP!CloseDone, HP!CloseStep, HP!Closers,
       HP!CallClose, HP!ReadMessage, HP!ReadLoopExits, HP!Dispatch, HP!HandleMessage, HP!Deliver,
       HP!PushInbound, HP!Respond, HP!RejectNotSelected, HP!HandleLinktestReq,
       HP!HandleSelectReq, HP!HandleDeselectReq, HP!ReaderStore, HP!T7Expires, HP!T7Stops,
       HP!TTLExpires, HP!LinktestTick, HP!LinktestStops, HP!UserStep, HP!AcceptorStep,
       HP!ReaderStep, HP!SenderStep, HP!WaiterStep, HP!TimerStep, HP!CallerStep, HP!AppStep, HP!Local,
       HP!Goto, HP!Step, HP!WriteOk, HP!WriteFails, HP!Message, HP!IsData, HP!ExpectsReply,
       HP!Ids, HP!Waiter, HP!Sender, HP!life, HP!handles, HP!txn, HP!rcv, HP!net, HP!ClosePc

LEMMA EquipLocal == E!Local => EP!Local
BY Zenon DEF E!Connect, E!DialOk, E!ConnectFails, E!DialStore, E!ListenOk, E!StartLoops,
       E!ActiveStartLoops, E!SelectRefused, E!FreeChannels, E!SystemID, E!Register, E!DeletePending, E!SendFailed,
       E!SendWrite, E!SendWriteFails, E!ReplyArrives, E!WaitTimeout, E!Select,
       E!SelectStore, E!SendMessage, E!Send, E!ReceiveMessage, E!SendReply, E!Accept,
       E!AcceptFails, E!AcceptSetConn, E!AcceptStore, E!PassiveStartLoops, E!AfterClose,
       E!CloseReturns, E!CloseCAS, E!CloseCancel, E!CloseConn, E!CloseListener,
       E!CloseStore, E!CloseDone, E!CloseStep, E!Closers, E!CallClose, E!ReadMessage,
       E!ReadLoopExits, E!Dispatch, E!HandleMessage, E!Deliver, E!PushInbound, E!Respond,
       E!RejectNotSelected, E!HandleLinktestReq, E!HandleSelectReq, E!HandleDeselectReq,
       E!ReaderStore, E!T7Expires, E!T7Stops, E!TTLExpires, E!LinktestTick, E!LinktestStops,
       E!UserStep, E!AcceptorStep, E!ReaderStep, E!SenderStep, E!WaiterStep, E!TimerStep,
       E!CallerStep, E!AppStep, E!Local, E!Goto, E!Step, E!WriteOk, E!WriteFails, E!Message, E!IsData,
       E!ExpectsReply, E!Ids, E!Waiter, E!Sender, E!life, E!handles, E!txn, E!rcv, E!net,
       E!ClosePc, EP!Connect, EP!DialOk, EP!ConnectFails, EP!DialStore, EP!ListenOk,
       EP!StartLoops, EP!ActiveStartLoops, EP!SelectRefused, EP!FreeChannels, EP!SystemID, EP!Register, EP!DeletePending,
       EP!SendFailed, EP!SendWrite, EP!SendWriteFails, EP!ReplyArrives, EP!WaitTimeout,
       EP!Select, EP!SelectStore, EP!SendMessage, EP!Send, EP!ReceiveMessage, EP!SendReply,
       EP!Accept, EP!AcceptFails, EP!AcceptSetConn, EP!AcceptStore, EP!PassiveStartLoops,
       EP!AfterClose, EP!CloseReturns, EP!CloseCAS, EP!CloseCancel, EP!CloseConn,
       EP!CloseListener, EP!CloseStore, EP!CloseDone, EP!CloseStep, EP!Closers,
       EP!CallClose, EP!ReadMessage, EP!ReadLoopExits, EP!Dispatch, EP!HandleMessage, EP!Deliver,
       EP!PushInbound, EP!Respond, EP!RejectNotSelected, EP!HandleLinktestReq,
       EP!HandleSelectReq, EP!HandleDeselectReq, EP!ReaderStore, EP!T7Expires, EP!T7Stops,
       EP!TTLExpires, EP!LinktestTick, EP!LinktestStops, EP!UserStep, EP!AcceptorStep,
       EP!ReaderStep, EP!SenderStep, EP!WaiterStep, EP!TimerStep, EP!CallerStep, EP!AppStep, EP!Local,
       EP!Goto, EP!Step, EP!WriteOk, EP!WriteFails, EP!Message, EP!IsData, EP!ExpectsReply,
       EP!Ids, EP!Waiter, EP!Sender, EP!life, EP!handles, EP!txn, EP!rcv, EP!net, EP!ClosePc

LEMMA HostInit == H!LocalInit => HP!LocalInit
BY Zenon DEF H!LocalInit, HP!LocalInit, H!Ids, HP!Ids, H!Waiter, HP!Waiter, H!Sender, HP!Sender,
   H!Proc, HP!Proc, H!Fixed, HP!Fixed

LEMMA EquipInit == E!LocalInit => EP!LocalInit
BY Zenon DEF E!LocalInit, EP!LocalInit, E!Ids, EP!Ids, E!Waiter, EP!Waiter, E!Sender, EP!Sender,
   E!Proc, EP!Proc, E!Fixed, EP!Fixed

(* The inductive invariant. *)

\* What the host is, by itself: no Select.req comes in.
HostInv == HP!TypeInv /\ HP!InHandler /\ HP!Clear(hCur, {"SelectReq"})

\* The equipment: the loops run in their order, Close runs once, it calls no
\* Select and answers one only in handleSelectReq; deselected records that it has
\* come to handleDeselectReq.
EquipInv ==
    /\ EP!TypeInv /\ EP!Boot /\ EP!CloseRunsOnce /\ EP!InHandler /\ EP!PassiveOK
    /\ EP!SendsNo({"SelectReq"}) /\ EP!SendsNo({"SelectRsp"})
    /\ ePc["reader"] \in {"deselect", "storeConn"} => deselected

\* The connection between them.
WireInv == HP!NoneOf(e2h, {"SelectReq"})

\* Anything of a successful Select at the host, the data it then sends included,
\* means that the equipment has accepted it, as long as it is not deselected.
Agreed ==
    /\ HP!Unselected \/ EP!HasSelected
    /\ EP!DataAfterSelect /\ EP!RejectsOnlyClosed
SelectInv == deselected \in BOOLEAN /\ (deselected \/ Agreed)

PairInv == HostInv /\ EquipInv /\ WireInv /\ SelectInv

\* Two sessions fresh from NewSession satisfy it.
LEMMA PairInit == Init => PairInv
<1> SUFFICES ASSUME Init PROVE PairInv
    OBVIOUS
<1> USE HostConstants, EquipConstants
<1>1. HP!LocalInit /\ EP!LocalInit
  BY HostInit, EquipInit DEF Init
<1>2. HP!TypeInv /\ HP!InHandler /\ HP!Unselected
      /\ \A T : HP!Clear(hCur, T) /\ HP!NoneOf(e2h, T)
  BY <1>1, HP!EndpointInit
<1>3. EP!TypeInv /\ EP!Boot /\ EP!CloseRunsOnce /\ EP!InHandler /\ EP!PassiveOK
      /\ (\A T : EP!SendsNo(T))
      /\ EP!DataAfterSelect /\ EP!RejectsOnlyClosed
  BY <1>1, EP!EndpointInit
<1>4. ePc["reader"] = "off" /\ deselected = FALSE
  BY <1>1 DEF EP!LocalInit, EP!Proc, EP!Fixed, EP!ConstantsAssumption, Init
<1> QED BY <1>2, <1>3, <1>4 DEF PairInv, HostInv, EquipInv, WireInv, SelectInv, Agreed

\* A step of the host.
LEMMA HostStepInv ==
    ASSUME PairInv, HostStep
    PROVE  PairInv'
<1> USE HostConstants, EquipConstants
<1>1. HP!Local /\ UNCHANGED <<equipVars, deselected>>
  BY HostLocal DEF HostStep, HostAlone
<1>2. HP!TypeInv'
  BY <1>1, HP!LocalType DEF PairInv, HostInv
<1>3. HP!InHandler'
  BY <1>1, HP!InHandlerStep DEF PairInv, HostInv
<1>5. HP!Clear(hCur, {"SelectReq"})' /\ HP!NoneOf(e2h, {"SelectReq"})'
  BY <1>1, HP!InClearStep DEF PairInv, HostInv, WireInv
<1>7. EquipInv'
  <2>1. EP!TypeInv'
    <3>1. h2e' \in Seq(EP!Msg) /\ e2h' \in Seq(EP!Msg)
          /\ tcp' \in {"idle", "dialed", "dialedBad", "accepted"}
      BY <1>2, SameMsg DEF HP!TypeInv, HP!TypeOK
    <3>2. UNCHANGED EP!sess
      BY <1>1 DEF equipVars, EP!sess, EP!life, EP!handles, EP!txn, EP!rcv
    <3> QED BY <3>1, <3>2, EP!OtherEndType DEF PairInv, EquipInv
  <2>2. EP!Boot' /\ EP!CloseRunsOnce' /\ EP!InHandler' /\ EP!PassiveOK'
    BY <1>1 DEF PairInv, EquipInv, equipVars, EP!Boot, EP!CloseRunsOnce, EP!InHandler, EP!PassiveOK,
       EP!IsData
  <2>3. /\ EP!SendsNo({"SelectReq"})' /\ EP!SendsNo({"SelectRsp"})'
        /\ ePc'["reader"] \in {"deselect", "storeConn"} => deselected'
    BY <1>1 DEF PairInv, EquipInv, equipVars, EP!SendsNo, EP!Clear
  <2> QED BY <2>1, <2>2, <2>3 DEF EquipInv
<1>8. SelectInv'
  <2> SUFFICES ASSUME Agreed PROVE Agreed'
    BY <1>1 DEF PairInv, SelectInv
  <2>1. EP!DataAfterSelect' /\ EP!RejectsOnlyClosed' /\ (EP!HasSelected => EP!HasSelected')
    BY <1>1 DEF Agreed, equipVars, EP!DataAfterSelect, EP!RejectsOnlyClosed, EP!HasSelected,
       EP!IsData
  <2>2. HP!Unselected => HP!Unselected'
    BY <1>1, HP!UnselectedStep DEF PairInv, HostInv
  <2> QED BY <2>1, <2>2 DEF Agreed
<1> QED BY <1>2, <1>3, <1>5, <1>7, <1>8 DEF PairInv, HostInv, WireInv

\* A step of the equipment.
LEMMA EquipStepInv ==
    ASSUME PairInv, EquipStep
    PROVE  PairInv'
<1> USE HostConstants, EquipConstants
<1>1. EP!Local /\ UNCHANGED hostVars
  BY EquipLocal DEF EquipStep, EquipAlone
<1>d. /\ deselected' = (deselected \/ ePc'["reader"] = "deselect")
      /\ deselected \in BOOLEAN /\ deselected' \in BOOLEAN
  BY DEF EquipStep, EquipAlone, PairInv, SelectInv
<1>2. EP!TypeInv'
  BY <1>1, EP!LocalType DEF PairInv, EquipInv
<1>3. EP!Boot' /\ EP!CloseRunsOnce' /\ EP!InHandler' /\ EP!PassiveOK'
  BY <1>1, EP!LocalBoot, EP!LocalCloseOnce, EP!InHandlerStep, EP!PassiveStep DEF PairInv, EquipInv
<1>4. EP!SendsNo({"SelectReq"})' /\ EP!SendsNo({"SelectRsp"})'
  <2>1. ePc["user"] # "connected"
    BY DEF PairInv, EquipInv, EP!PassiveOK
  <2>2. /\ {"SelectReq"} \cap (EquipTypes \cup {"LinktestReq", "Event", "Reply"}) = {}
        /\ {"SelectRsp"} \cap (EquipTypes \cup {"LinktestReq", "Event", "Reply"}) = {}
    BY PairAssumption
  <2> QED BY <1>1, <2>1, <2>2, EP!SendsNoStep DEF PairInv, EquipInv
<1>5. ePc'["reader"] \in {"deselect", "storeConn"} => deselected'
  <2>1. ePc'["reader"] = "storeConn" => ePc["reader"] \in {"deselect", "storeConn"}
    BY <1>1, EP!ReaderMoves DEF PairInv, EquipInv
  <2> QED BY <1>d, <2>1 DEF PairInv, EquipInv
<1>6. HP!NoneOf(e2h, {"SelectReq"})'
  <2>1. EP!NoneOf(e2h, {"SelectReq"})
    BY DEF PairInv, WireInv, HP!NoneOf, EP!NoneOf
  <2>2. EP!NoneOf(e2h, {"SelectReq"})'
    BY <1>1, <2>1, EP!OutClearStep DEF PairInv, EquipInv
  <2> QED BY <2>2 DEF HP!NoneOf, EP!NoneOf
<1>7. HostInv'
  <2>1. HP!TypeInv'
    <3>1. h2e' \in Seq(HP!Msg) /\ e2h' \in Seq(HP!Msg)
          /\ tcp' \in {"idle", "dialed", "dialedBad", "accepted"}
      BY <1>2, SameMsg DEF EP!TypeInv, EP!TypeOK
    <3>2. UNCHANGED HP!sess
      BY <1>1 DEF hostVars, HP!sess, HP!life, HP!handles, HP!txn, HP!rcv
    <3> QED BY <3>1, <3>2, HP!OtherEndType DEF PairInv, HostInv
  <2>2. HP!InHandler' /\ HP!Clear(hCur, {"SelectReq"})'
    BY <1>1 DEF PairInv, HostInv, hostVars, HP!InHandler, HP!Clear, HP!IsData
  <2> QED BY <2>1, <2>2 DEF HostInv
<1>8. SelectInv'
  <2> SUFFICES ASSUME Agreed, ~deselected, ePc["reader"] # "storeConn" PROVE Agreed'
    BY <1>d DEF PairInv, SelectInv, EquipInv
  <2>8. EP!HasSelected => EP!HasSelected'
    BY <1>1, EP!HasSelectedStep DEF PairInv, EquipInv
  <2>9. HP!Unselected' \/ EP!HasSelected'
    <3> SUFFICES ASSUME HP!Unselected, ~EP!HasSelected' PROVE HP!Unselected'
      BY <2>8 DEF Agreed
    <3>1. HP!NoneOf(e2h, {"SelectRsp"})'
      <4>1. EP!NoneOf(e2h, {"SelectRsp"})
        BY DEF HP!Unselected, HP!NoneOf, EP!NoneOf
      <4>2. ePc'["reader"] # "storeSel"
        BY DEF EP!HasSelected
      <4>3. EP!NoneOf(e2h, {"SelectRsp"})'
        BY <1>1, <4>1, <4>2, EP!OutClearStep DEF PairInv, EquipInv
      <4> QED BY <4>3 DEF HP!NoneOf, EP!NoneOf
    <3>2. HP!NoneOf(h2e, HP!DataTypes)'
      <4>1. HP!NoneOf(h2e, HP!DataTypes) /\ h2e \in Seq(HP!Msg)
        BY DEF HP!Unselected, PairInv, HostInv, HP!TypeInv, HP!TypeOK
      <4>2. h2e # <<>> => HP!NoneOf(Tail(h2e), HP!DataTypes)
        BY <4>1, HP!NoneOfSeq, Zenon
      <4>3. h2e' = h2e \/ (h2e # <<>> /\ h2e' = Tail(h2e))
        BY <1>1, EP!CurMoves DEF PairInv, EquipInv
      <4> QED BY <4>1, <4>2, <4>3 DEF HP!NoneOf
    <3> QED BY <1>1, <3>1, <3>2 DEF HP!Unselected, hostVars, HP!Clear, HP!SendsNo
  <2>10. EP!DataAfterSelect'
    <3> SUFFICES ASSUME eCur' \in EP!Msg, EP!IsData(eCur)' PROVE EP!HasSelected'
      BY DEF EP!DataAfterSelect
    <3>1. CASE eCur' = eCur
      BY <2>8, <3>1 DEF Agreed, EP!DataAfterSelect, EP!IsData
    <3>2. CASE h2e # <<>> /\ eCur' = Head(h2e)
      <4>1. h2e \in Seq(HP!Msg) /\ Head(h2e).type \in HP!DataTypes
        BY <3>2 DEF PairInv, HostInv, HP!TypeInv, HP!TypeOK, EP!IsData, HP!DataTypes
      <4>2. ~HP!NoneOf(h2e, HP!DataTypes)
        BY <3>2, <4>1, HP!NoneOfSeq, Zenon
      <4> QED BY <2>8, <4>2 DEF Agreed, HP!Unselected
    <3>3. CASE eCur' = NoMsg
      BY <3>3 DEF EP!ConstantsAssumption
    <3> QED BY <1>1, <3>1, <3>2, <3>3, EP!CurMoves DEF PairInv, EquipInv
  <2>11. EP!RejectsOnlyClosed'
    BY <1>1, EP!RejectStep DEF PairInv, EquipInv, Agreed
  <2> QED BY <2>9, <2>10, <2>11 DEF Agreed
<1> QED BY <1>2, <1>3, <1>4, <1>5, <1>6, <1>7, <1>8 DEF PairInv, EquipInv, WireInv

\* PairInv is an invariant of the pair.
LEMMA PairInvariant == Spec => []PairInv
<1>1. PairInv /\ [Next]_vars => PairInv'
  <2> SUFFICES ASSUME PairInv, [Next]_vars PROVE PairInv'
    OBVIOUS
  <2>1. CASE UNCHANGED vars
    <3>1. HostInv'
      BY <2>1 DEF PairInv, HostInv, vars, hostVars, HP!TypeInv, HP!TypeOK, HP!MsgInHand,
         HP!HasChannel, HP!InHandler, HP!IsData, HP!Clear
    <3>2. EquipInv'
      BY <2>1 DEF PairInv, EquipInv, vars, equipVars, EP!TypeInv, EP!TypeOK, EP!MsgInHand,
         EP!HasChannel, EP!Boot, EP!CloseRunsOnce, EP!InHandler, EP!PassiveOK, EP!IsData, EP!SendsNo, EP!Clear
    <3>3. WireInv' /\ SelectInv'
      BY <2>1 DEF PairInv, WireInv, SelectInv, Agreed, vars, hostVars, equipVars, HP!NoneOf, EP!NoneOf,
         HP!Unselected, HP!SendsNo, HP!Clear, EP!HasSelected, EP!DataAfterSelect, EP!IsData,
         EP!RejectsOnlyClosed
    <3> QED BY <3>1, <3>2, <3>3 DEF PairInv
  <2> QED BY <2>1, HostStepInv, EquipStepInv DEF Next
<1> QED BY <1>1, PairInit, PTL DEF Spec

\* However the steps of the two sessions and the messages between them interleave,
\* the equipment rejects no data message of a host that selects before it sends
\* data, unless it has been closed or has taken up a Deselect.req: handleSelectReq
\* writes Select.rsp before it stores Selected, but the reader that reads the host's
\* next message is the goroutine that stores.
THEOREM DataAccepted == Spec => []PassiveAcceptsData
<1>1. PairInv => PassiveAcceptsData
  BY DEF PairInv, SelectInv, Agreed, EP!RejectsOnlyClosed, PassiveAcceptsData
<1> QED BY <1>1, PairInvariant, PTL

\* A host that is Selected has a peer that is Selected, is about to store it in
\* handleSelectReq, has been closed, or has taken up a Deselect.req.
THEOREM SelectionAgrees == Spec => []SelectedAgreement
<1>1. PairInv => SelectedAgreement
  BY DEF PairInv, SelectInv, Agreed, HP!Unselected, EP!HasSelected, SelectedAgreement
<1> QED BY <1>1, PairInvariant, PTL

=============================================================================
