---------------------------- MODULE HsmsSession ----------------------------
(***************************************************************************)
(* One endpoint of an HSMS connection: pkg/transport/hsms/session.go.      *)
(*                                                                         *)
(* A Session is one Go value shared by several goroutines, the processes   *)
(* of this module:                                                         *)
(*                                                                         *)
(*   "user"      the goroutine that calls Connect and, when active, Select *)
(*   "acceptor"  acceptAndRun (passive role)                               *)
(*   "reader"    readLoop and the handlers it calls                        *)
(*   "linktest"  linktestLoop                                              *)
(*   "t7"        the goroutine of startT7Timer                             *)
(*   "ttl"       sessionTTLLoop (passive role)                             *)
(*   "closer"    a goroutine of the application that calls Close           *)
(*   "app"       the application's receive loop and its replies            *)
(*   Callers     goroutines that call Send and SendMessage, again and      *)
(*               again                                                     *)
(*                                                                         *)
(* An action is what a goroutine does between two accesses to state other  *)
(* goroutines can change: a Load, a Store, a Write on the connection, a    *)
(* channel operation.  A timer may expire at any moment.                   *)
(*                                                                         *)
(* The peer and the network are the variables in, out, eof and tcp.  The   *)
(* actions of section "The peer" make the peer an arbitrary program; the   *)
(* module HsmsPair leaves them out and connects two Sessions instead.      *)
(***************************************************************************)
EXTENDS Naturals, Sequences, FiniteSets

CONSTANTS
    Roles,             \* the roles a behaviour may have, {"Active", "Passive"}
    Callers,           \* goroutines that call SendMessage
    CallTypes,         \* the message types they send
    PeerTypes,         \* the message types an arbitrary peer sends
    CallerIDs,         \* the system IDs callers of SendMessage choose themselves
    MaxSystemID,       \* bound on nextSystemID (2^32 - 1 in the code)
    Channel,           \* the reply channels in use at one time: one for each
                       \* waiting call and one the reader may still hold
    InboundCap,        \* capacity of the inbound channel (256 in the code)
    WireCap,           \* messages the kernel buffers before a Write blocks
    T7Enabled,         \* Config.T7 > 0
    LinktestEnabled,   \* Config.LinktestInterval > 0
    TTLEnabled,        \* Config.SessionTTL > 0
    RateLimited,       \* Config.MaxMessageRate > 0
    CloseFrom,         \* when the application may call Close: "never", "setup"
                       \* (once the loops run) or "new" (at any time)
    None, NoMsg        \* no channel, no message

Fixed == {"user", "acceptor", "reader", "linktest", "t7", "ttl", "closer", "app"}
Proc  == Fixed \cup Callers

\* The goroutines that may sit in sendAndWait: Select, linktestLoop, SendMessage.
Waiter == {"user", "linktest"} \cup Callers
\* The goroutines that write a message of their own (a request or a reply).
Sender == Waiter \cup {"app"}

Ids == 0 .. MaxSystemID

\* SType with the parts of the header the session looks at: a data message is
\* primary with W-bit ("Data"), primary without ("Event") or secondary
\* ("Reply"); Select.rsp has status success or not.  "Bad" is a frame that
\* readMessage refuses (length out of range, header that does not unmarshal).
MsgType == {"Data", "Event", "Reply", "SelectReq", "SelectRsp", "SelectRspFail",
            "DeselectReq", "DeselectRsp", "LinktestReq", "LinktestRsp",
            "SeparateReq", "RejectReq", "Bad"}
Msg == [type : MsgType, id : Ids]
Message(t, i) == [type |-> t, id |-> i]

IsData(m) == m.type \in {"Data", "Event", "Reply"}

\* What SendMessage, Select and linktestLoop wait for.
ExpectsReply(m) == m.type \in {"Data", "SelectReq", "DeselectReq", "LinktestReq"}

ASSUME ConstantsAssumption ==
    /\ Roles \subseteq {"Active", "Passive"}
    /\ Callers \cap Fixed = {}
    /\ CallTypes \subseteq MsgType
    /\ PeerTypes \subseteq MsgType
    /\ MaxSystemID \in Nat
    /\ CallerIDs \subseteq 1 .. MaxSystemID
    /\ InboundCap \in Nat
    /\ WireCap \in Nat
    /\ {T7Enabled, LinktestEnabled, TTLEnabled, RateLimited} \subseteq BOOLEAN
    /\ CloseFrom \in {"never", "setup", "new"}
    /\ None \notin Channel
    /\ NoMsg \notin Msg

VARIABLES
    role,           \* config.Role
    state,          \* state
    closed,         \* closed
    done,           \* how often the channel done has been closed (twice panics)
    conn,           \* conn: nil, open, or closed by this endpoint
    listener,       \* listener, likewise
    cancel,         \* cancel: nil, set, or called (the run context is cancelled)
    nextSystemID,   \* nextSystemID
    pending,        \* pending: system ID -> reply channel
    ch,             \* what is in each channel, of capacity 1
    mine,           \* the channel a goroutine's sendAndWait has made (local ch)
    target,         \* the channel handleMessage has looked up (local ch)
    inbound,        \* inbound
    pc,             \* where each goroutine is
    cur,            \* the message the reader is handling
    req,            \* the message a Sender is sending, until its call returns
    rsp             \* the response Select is examining

VARIABLES
    in,             \* bytes on the way to this endpoint, as messages
    out,            \* bytes on the way to the peer
    tcp             \* the TCP handshake: idle, dialed (in the backlog of the
                    \* listener), dialedBad (from a refused address), accepted

VARIABLE eof        \* the peer has closed its end

life    == <<state, closed, done>>
handles == <<conn, listener, cancel>>
txn     == <<nextSystemID, pending, ch, mine, target, req, rsp>>
rcv     == <<inbound, cur>>
net     == <<in, out, tcp>>
sess    == <<role, life, handles, txn, rcv, pc>>
vars    == <<sess, net, eof>>

\* Labels of the steps of Close.
ClosePc == {"cancel", "closeConn", "closeListener", "storeDisc", "closeDone"}

PcOf(p) ==
    CASE p = "user"     -> {"start", "connecting", "dialed", "loops", "connected",
                            "write", "wait", "store", "stop"}
      [] p = "acceptor" -> {"off", "accept", "accepted", "store", "loops", "exit"}
      [] p = "reader"   -> {"off", "loop", "handle", "deliver", "push", "reject", "selectOk",
                            "selectActive", "storeSel", "deselect", "storeConn",
                            "linktest", "cas", "exit"} \cup ClosePc
      [] p = "linktest" -> {"off", "idle", "write", "wait", "cas", "exit"} \cup ClosePc
      [] p = "t7"       -> {"off", "armed", "cas", "exit"} \cup ClosePc
      [] p = "ttl"      -> {"off", "armed", "cas", "exit"} \cup ClosePc
      [] p = "closer"   -> {"start", "cas", "exit"} \cup ClosePc
      [] p = "app"      -> {"idle", "reply", "write"}
      [] OTHER          -> {"idle", "write", "wait"}

TypeOK ==
    /\ role \in Roles
    /\ state \in {"Disconnected", "Connecting", "Connected", "Selected"}
    /\ closed \in BOOLEAN
    /\ done \in Nat
    /\ conn \in {"nil", "open", "closed"}
    /\ listener \in {"nil", "open", "closed"}
    /\ cancel \in {"nil", "set", "called"}
    /\ nextSystemID \in Ids
    /\ pending \in [Ids -> Channel \cup {None}]
    /\ ch \in [Channel -> Msg \cup {NoMsg}]
    /\ mine \in [Waiter -> Channel \cup {None}]
    /\ target \in Channel \cup {None}
    /\ inbound \in Seq(Msg) /\ Len(inbound) <= InboundCap
    /\ DOMAIN pc = Proc
    /\ \A p \in Proc : pc[p] \in PcOf(p)
    /\ cur \in Msg \cup {NoMsg}
    /\ req \in [Sender -> Msg \cup {NoMsg}]
    /\ rsp \in Msg \cup {NoMsg}
    /\ in \in Seq(Msg)
    /\ out \in Seq(Msg)
    /\ tcp \in {"idle", "dialed", "dialedBad", "accepted"}
    /\ eof \in BOOLEAN

\* NewSession
LocalInit ==
    /\ role \in Roles
    /\ state = "Disconnected"
    /\ closed = FALSE
    /\ done = 0
    /\ conn = "nil"
    /\ listener = "nil"
    /\ cancel = "nil"
    /\ nextSystemID = 0
    /\ pending = [i \in Ids |-> None]
    /\ ch = [c \in Channel |-> NoMsg]
    /\ mine = [w \in Waiter |-> None]
    /\ target = None
    /\ inbound = <<>>
    /\ pc = [p \in Proc |-> IF p \in {"user", "closer"} THEN "start"
                            ELSE IF p \in Callers \cup {"app"} THEN "idle" ELSE "off"]
    /\ cur = NoMsg
    /\ req = [s \in Sender |-> NoMsg]
    /\ rsp = NoMsg
    /\ in = <<>>
    /\ out = <<>>
    /\ tcp = "idle"

Init == LocalInit /\ eof = FALSE

Goto(p, l) == pc' = [pc EXCEPT ![p] = l]
\* A goroutine in label l1 moves to l2.
Step(p, l1, l2) == pc[p] = l1 /\ Goto(p, l2)

-----------------------------------------------------------------------------
(* Writing: writeMessage.  Write blocks while the kernel's buffer is full,
   fails once this endpoint has closed the connection, and may fail or be
   lost without an error once the peer has closed its end. *)

WriteOk(m) ==
    /\ conn = "open"
    /\ \/ /\ ~eof
          /\ Len(out) < WireCap
          /\ out' = Append(out, m)
       \/ eof /\ out' = out

WriteFails ==
    /\ conn # "open" \/ eof
    /\ out' = out

-----------------------------------------------------------------------------
(* Connect and Select, by "user". *)

\* Connect: the state check and Store(Connecting).
Connect ==
    /\ state = "Disconnected"
    /\ state' = "Connecting"
    /\ Step("user", "start", "connecting")
    /\ UNCHANGED <<role, closed, done, handles, txn, rcv, net>>

\* connectActive: the dial (and TLS handshake) succeeds, setConn.
DialOk ==
    /\ role = "Active"
    /\ tcp = "idle"
    /\ tcp' = "dialed"
    /\ conn' = "open"
    /\ Step("user", "connecting", "dialed")
    /\ UNCHANGED <<role, life, listener, cancel, txn, rcv, in, out>>

\* The dial, the handshake or Listen fails: Store(Disconnected), return err.
ConnectFails ==
    /\ state' = "Disconnected"
    /\ Step("user", "connecting", "start")
    /\ UNCHANGED <<role, closed, done, handles, txn, rcv, net>>

\* Connect, active: Store(Connected) after the dial.
DialStore ==
    /\ state' = "Connected"
    /\ Step("user", "dialed", "loops")
    /\ UNCHANGED <<role, closed, done, handles, txn, rcv, net>>

\* listenPassive succeeds: setListener, go acceptAndRun.
ListenOk ==
    /\ role = "Passive"
    /\ pc["user"] = "connecting"
    /\ listener' = "open"
    /\ pc' = [pc EXCEPT !["user"] = "stop", !["acceptor"] = "accept"]
    /\ UNCHANGED <<role, life, conn, cancel, txn, rcv, net>>

\* startLoops, called by p, which then goes on to label l.
StartLoops(p, l, ttl) ==
    /\ pc[p] = "loops"
    /\ cancel' = "set"
    /\ pc' = [pc EXCEPT ![p] = l,
                        !["reader"] = "loop",
                        !["linktest"] = IF LinktestEnabled THEN "idle" ELSE "exit",
                        !["t7"] = IF T7Enabled THEN "armed" ELSE "exit",
                        !["ttl"] = ttl]
    /\ UNCHANGED <<role, life, conn, listener, txn, rcv, net>>

ActiveStartLoops == StartLoops("user", "connected", "off")

\* Select: the state check; its error return.
SelectRefused ==
    /\ state # "Connected"
    /\ Step("user", "connected", "stop")
    /\ UNCHANGED <<role, life, handles, txn, rcv, net>>

-----------------------------------------------------------------------------
(* sendAndWait, by a goroutine w.  make(chan *Message, 1) gives a channel that
   nobody holds: not the pending map, not a call, not the reader. *)

\* Mutant: the channel of a call that has returned is used again.
RecycledChannels == {c \in Channel : \A w \in Waiter : mine[w] # c}

FreeChannels ==
    {c \in Channel : /\ \A i \in Ids : pending[i] # c
                     /\ \A w \in Waiter : mine[w] # c
                     /\ target # c}

\* The system ID of a message whose caller left i in its header: nonzero, it is
\* used as it is; zero, the next one is drawn.
SystemID(i) == IF i = 0 THEN nextSystemID + 1 ELSE i

\* The system ID; when the message expects a reply, a new channel and its entry in
\* pending, in place of one that another call has made there.
Register(w, t, i) ==
    LET m == Message(t, SystemID(i))
        c == CHOOSE x \in FreeChannels : TRUE
    IN  /\ i = 0 => nextSystemID < MaxSystemID
        /\ nextSystemID' = IF i = 0 THEN nextSystemID + 1 ELSE nextSystemID
        /\ req' = [req EXCEPT ![w] = m]
        /\ IF ExpectsReply(m)
           THEN /\ FreeChannels # {}
                /\ pending' = [pending EXCEPT ![m.id] = c]
                /\ ch' = [ch EXCEPT ![c] = NoMsg]
                /\ mine' = [mine EXCEPT ![w] = c]
           ELSE UNCHANGED <<pending, ch, mine>>
        /\ Goto(w, "write")
        /\ UNCHANGED <<role, life, handles, target, rsp, rcv, net>>

\* Mutant: the deferred delete is missing.
DeletePendingForgotten(w) ==
    /\ mine' = [mine EXCEPT ![w] = None]
    /\ req' = [req EXCEPT ![w] = NoMsg]
    /\ UNCHANGED pending

\* The call returns.  The deferred delete removes whatever entry its system ID
\* has, its own or that of a later call with the same ID.
DeletePending(w) ==
    /\ pending' = [pending EXCEPT ![req[w].id] = None]
    /\ mine' = [mine EXCEPT ![w] = None]
    /\ req' = [req EXCEPT ![w] = NoMsg]

\* The call of w returns an error: linktestLoop calls Close, the others are done.
SendFailed(w) ==
    Goto(w, CASE w = "linktest" -> "cas" [] w = "user" -> "stop" [] OTHER -> "idle")

\* writeMessage succeeds: wait for the reply, or return when none is expected.
SendWrite(w) ==
    /\ pc[w] = "write"
    /\ WriteOk(req[w])
    /\ IF ExpectsReply(req[w])
       THEN Goto(w, "wait") /\ UNCHANGED req
       ELSE Goto(w, "idle") /\ req' = [req EXCEPT ![w] = NoMsg]
    /\ UNCHANGED <<role, life, handles, nextSystemID, pending, ch, mine, target, rsp, rcv, in, tcp>>

\* writeMessage fails: the error is returned, the deferred delete runs.
SendWriteFails(w) ==
    /\ pc[w] = "write"
    /\ WriteFails
    /\ IF ExpectsReply(req[w])
       THEN DeletePending(w)
       ELSE req' = [req EXCEPT ![w] = NoMsg] /\ UNCHANGED <<pending, mine>>
    /\ SendFailed(w)
    /\ UNCHANGED <<role, life, handles, nextSystemID, ch, target, rsp, rcv, in, tcp>>

\* case rsp := <-ch.  Select goes on to examine the response (label "store").
ReplyArrives(w) ==
    /\ pc[w] = "wait"
    /\ ch[mine[w]] # NoMsg
    /\ rsp' = IF w = "user" THEN ch[mine[w]] ELSE rsp
    /\ DeletePending(w)
    /\ Goto(w, IF w = "user" THEN "store" ELSE "idle")
    /\ UNCHANGED <<role, life, handles, nextSystemID, ch, target, rcv, net>>

\* Mutant: the select has no timer case and no context case.
WaitWithoutTimer(w) ==
    /\ pc[w] = "wait"
    /\ ch[mine[w]] # NoMsg
    /\ DeletePending(w)
    /\ SendFailed(w)
    /\ UNCHANGED <<role, life, handles, nextSystemID, ch, target, rsp, rcv, net>>

\* case <-timer.C (T3 or T6) or case <-ctx.Done().  Go picks any ready case, so
\* this may happen although a reply is in the channel.
WaitTimeout(w) ==
    /\ pc[w] = "wait"
    /\ DeletePending(w)
    /\ SendFailed(w)
    /\ UNCHANGED <<role, life, handles, nextSystemID, ch, target, rsp, rcv, net>>

\* Select: the state check and the start of sendAndWait.
Select ==
    /\ pc["user"] = "connected"
    /\ state = "Connected"
    /\ Register("user", "SelectReq", 0)

\* Select: the response has the right type and status, Store(Selected).
SelectStore ==
    /\ Step("user", "store", "stop")
    /\ state' = IF rsp.type = "SelectRsp" THEN "Selected" ELSE state
    /\ rsp' = NoMsg
    /\ UNCHANGED <<role, closed, done, handles, nextSystemID, pending, ch, mine, target, req, rcv, net>>

\* Mutant: no check of the state.
SendMessageUnchecked(c, t, i) ==
    /\ pc[c] = "idle"
    /\ Register(c, t, i)

\* SendMessage with system ID i in the header: a data message needs state Selected.
SendMessage(c, t, i) ==
    /\ pc[c] = "idle"
    /\ IsData(Message(t, i)) => state = "Selected"
    /\ Register(c, t, i)

\* Send: a data message without W-bit, written with system ID 0.
Send(c) ==
    /\ state = "Selected"
    /\ Step(c, "idle", "write")
    /\ req' = [req EXCEPT ![c] = Message("Event", 0)]
    /\ UNCHANGED <<role, life, handles, nextSystemID, pending, ch, mine, target, rsp, rcv, net>>

\* ReceiveMessage by the application, which answers a message with W-bit.
ReceiveMessage ==
    /\ pc["app"] = "idle"
    /\ inbound # <<>>
    /\ inbound' = Tail(inbound)
    /\ IF Head(inbound).type = "Data"
       THEN /\ req' = [req EXCEPT !["app"] = Message("Reply", Head(inbound).id)]
            /\ Goto("app", "reply")
       ELSE UNCHANGED <<req, pc>>
    /\ UNCHANGED <<role, life, handles, nextSystemID, pending, ch, mine, target, rsp, cur, net>>

\* SendMessage with the system ID of the primary message: the state check.
SendReply ==
    /\ pc["app"] = "reply"
    /\ IF state = "Selected"
       THEN Goto("app", "write") /\ UNCHANGED req
       ELSE Goto("app", "idle") /\ req' = [req EXCEPT !["app"] = NoMsg]
    /\ UNCHANGED <<role, life, handles, nextSystemID, pending, ch, mine, target, rsp, rcv, net>>

-----------------------------------------------------------------------------
(* acceptAndRun, by "acceptor". *)

\* Accept returns a connection; an address outside AllowedPeers is closed and
\* the next connection is awaited.
Accept ==
    /\ pc["acceptor"] = "accept"
    /\ listener = "open"
    /\ \/ /\ tcp = "dialed"
          /\ tcp' = "accepted"
          /\ Goto("acceptor", "accepted")
       \/ /\ tcp = "dialedBad"
          /\ tcp' = "idle"
          /\ UNCHANGED pc
    /\ UNCHANGED <<role, life, handles, txn, rcv, in, out>>

\* Accept fails: the listener is closed, or the kernel refuses.
AcceptFails ==
    /\ Step("acceptor", "accept", "exit")
    /\ UNCHANGED <<role, life, handles, txn, rcv, net>>

AcceptSetConn ==
    /\ conn' = "open"
    /\ Step("acceptor", "accepted", "store")
    /\ UNCHANGED <<role, life, listener, cancel, txn, rcv, net>>

AcceptStore ==
    /\ state' = "Connected"
    /\ Step("acceptor", "store", "loops")
    /\ UNCHANGED <<role, closed, done, handles, txn, rcv, net>>

PassiveStartLoops ==
    StartLoops("acceptor", "exit", IF TTLEnabled THEN "armed" ELSE "exit")

-----------------------------------------------------------------------------
(* Close.  Whoever wins the compare-and-swap runs the five steps. *)

\* The reader called Close for a Separate.req (and goes back to its loop) or
\* from its deferred function; every other caller is finished after Close.
AfterClose(p) == IF p = "reader" /\ cur # NoMsg THEN "loop" ELSE "exit"
CloseReturns(p) ==
    /\ Goto(p, AfterClose(p))
    /\ cur' = IF p = "reader" THEN NoMsg ELSE cur

\* Mutant: Load and Store in place of the compare-and-swap; the loser goes on.
CloseUnguarded(p) ==
    /\ Step(p, "cas", "cancel")
    /\ closed' = TRUE
    /\ UNCHANGED <<role, state, done, handles, txn, rcv, net>>

CloseCAS(p) ==
    /\ pc[p] = "cas"
    /\ closed' = TRUE
    /\ IF closed THEN CloseReturns(p) ELSE Goto(p, "cancel") /\ cur' = cur
    /\ UNCHANGED <<role, state, done, handles, txn, inbound, net>>

\* Mutant: the run context is not cancelled.
CloseWithoutCancel(p) ==
    /\ Step(p, "cancel", "closeConn")
    /\ UNCHANGED <<role, life, handles, txn, rcv, net>>

CloseCancel(p) ==
    /\ cancel' = IF cancel = "nil" THEN "nil" ELSE "called"
    /\ Step(p, "cancel", "closeConn")
    /\ UNCHANGED <<role, life, conn, listener, txn, rcv, net>>

CloseConn(p) ==
    /\ conn' = IF conn = "nil" THEN "nil" ELSE "closed"
    /\ Step(p, "closeConn", "closeListener")
    /\ UNCHANGED <<role, life, listener, cancel, txn, rcv, net>>

\* Mutant: the listener is left open once a connection was accepted.
CloseKeepsListener(p) ==
    /\ listener' = IF conn = "nil" /\ listener = "open" THEN "closed" ELSE listener
    /\ Step(p, "closeListener", "storeDisc")
    /\ UNCHANGED <<role, life, conn, cancel, txn, rcv, net>>

CloseListener(p) ==
    /\ listener' = IF listener = "nil" THEN "nil" ELSE "closed"
    /\ Step(p, "closeListener", "storeDisc")
    /\ UNCHANGED <<role, life, conn, cancel, txn, rcv, net>>

CloseStore(p) ==
    /\ state' = "Disconnected"
    /\ Step(p, "storeDisc", "closeDone")
    /\ UNCHANGED <<role, closed, done, handles, txn, rcv, net>>

CloseDone(p) ==
    /\ pc[p] = "closeDone"
    /\ done' = done + 1
    /\ CloseReturns(p)
    /\ UNCHANGED <<role, state, closed, handles, txn, inbound, net>>

CloseStep(p) ==
    \/ CloseCAS(p) \/ CloseCancel(p) \/ CloseConn(p)
    \/ CloseListener(p) \/ CloseStore(p) \/ CloseDone(p)

Closers == {"reader", "linktest", "t7", "ttl", "closer"}

\* The application calls Close: at any time, or once the loops run.
CallClose ==
    /\ CloseFrom = "new" \/ (CloseFrom = "setup" /\ pc["reader"] # "off")
    /\ Step("closer", "start", "cas")
    /\ UNCHANGED <<role, life, handles, txn, rcv, net>>

-----------------------------------------------------------------------------
(* readLoop and the handlers, by "reader". *)

\* readMessage returns a message; a malformed one ends the loop, one above the
\* rate limit is dropped.
ReadMessage ==
    /\ pc["reader"] = "loop"
    /\ conn = "open"
    /\ in # <<>>
    /\ in' = Tail(in)
    /\ \/ /\ Head(in).type = "Bad"
          /\ Goto("reader", IF closed THEN "exit" ELSE "cas")
          /\ UNCHANGED cur
       \/ /\ Head(in).type # "Bad"
          /\ Goto("reader", "handle")
          /\ cur' = Head(in)
       \/ /\ RateLimited
          /\ Head(in).type # "Bad"
          /\ UNCHANGED <<pc, cur>>
    /\ UNCHANGED <<role, life, handles, txn, inbound, out, tcp>>

\* Mutant: end of file does not end the loop.
ReadLoopIgnoresEOF ==
    /\ cancel = "called" \/ conn # "open"
    /\ Step("reader", "loop", IF closed THEN "exit" ELSE "cas")
    /\ UNCHANGED <<role, life, handles, txn, rcv, net>>

\* The context is cancelled, or the read fails: return, with the deferred Close.
\* A peer that closes abruptly (RST) takes what is not yet read with it.
ReadLoopExits ==
    /\ cancel = "called" \/ conn # "open" \/ eof
    /\ Step("reader", "loop", IF closed THEN "exit" ELSE "cas")
    /\ UNCHANGED <<role, life, handles, txn, rcv, net>>

\* Mutant: data is accepted on any connection, Selected or not.
DispatchUnchecked(m) ==
    CASE IsData(m)               -> "push"
      [] m.type = "SelectReq"    -> IF state = "Selected" THEN "selectActive" ELSE "selectOk"
      [] m.type = "DeselectReq"  -> "deselect"
      [] m.type = "LinktestReq"  -> "linktest"
      [] m.type = "SeparateReq"  -> "cas"
      [] OTHER                   -> "loop"

\* What handleMessage does with a message that no one waits for.
Dispatch(m) ==
    CASE IsData(m)               -> IF state = "Selected" THEN "push" ELSE "reject"
      [] m.type = "SelectReq"    -> IF state = "Selected" THEN "selectActive" ELSE "selectOk"
      [] m.type = "DeselectReq"  -> "deselect"
      [] m.type = "LinktestReq"  -> "linktest"
      [] m.type = "SeparateReq"  -> "cas"
      [] OTHER                   -> "loop"

\* handleMessage: the lookup in pending; a message whose system ID has no entry is
\* dispatched on its type.
HandleMessage ==
    /\ pc["reader"] = "handle"
    /\ target' = pending[cur.id]
    /\ LET l == IF target' # None THEN "deliver" ELSE Dispatch(cur)
       IN /\ Goto("reader", l)
          /\ cur' = IF l = "loop" THEN NoMsg ELSE cur
    /\ UNCHANGED <<role, life, handles, nextSystemID, pending, ch, mine, req, rsp, inbound, net>>

\* handleMessage: ch <- msg, unless the channel is full.  The call that made the
\* channel may have returned since the lookup.
Deliver ==
    /\ Step("reader", "deliver", "loop")
    /\ ch' = [ch EXCEPT ![target] = IF @ = NoMsg THEN cur ELSE @]
    /\ target' = None
    /\ cur' = NoMsg
    /\ UNCHANGED <<role, life, handles, nextSystemID, pending, mine, req, rsp, inbound, net>>

\* Mutant: the capacity of inbound is not respected.
PushUnbounded ==
    /\ Step("reader", "push", "loop")
    /\ inbound' = Append(inbound, cur)
    /\ cur' = NoMsg
    /\ UNCHANGED <<role, life, handles, txn, net>>

\* inbound <- msg, or the message is dropped when the channel is full.
PushInbound ==
    /\ Step("reader", "push", "loop")
    /\ inbound' = IF Len(inbound) < InboundCap THEN Append(inbound, cur) ELSE inbound
    /\ cur' = NoMsg
    /\ UNCHANGED <<role, life, handles, txn, net>>

\* The reader answers cur with a message of type t and goes on to l.
Respond(t, l) ==
    /\ \/ WriteOk(Message(t, cur.id)) /\ Goto("reader", l)
       \/ WriteFails /\ Goto("reader", "loop")
    /\ cur' = IF pc'["reader"] = "loop" THEN NoMsg ELSE cur
    /\ UNCHANGED <<role, life, handles, txn, inbound, in, tcp>>

RejectNotSelected == pc["reader"] = "reject" /\ Respond("RejectReq", "loop")
HandleLinktestReq == pc["reader"] = "linktest" /\ Respond("LinktestRsp", "loop")

\* Mutant: Select.rsp is sent and the state is not changed.
HandleSelectReqWithoutStore ==
    \/ pc["reader"] = "selectOk" /\ Respond("SelectRsp", "loop")
    \/ pc["reader"] = "selectActive" /\ Respond("SelectRspFail", "loop")

\* handleSelectReq: the response goes out before Store(Selected).
HandleSelectReq ==
    \/ pc["reader"] = "selectOk" /\ Respond("SelectRsp", "storeSel")
    \/ pc["reader"] = "selectActive" /\ Respond("SelectRspFail", "loop")

HandleDeselectReq == pc["reader"] = "deselect" /\ Respond("DeselectRsp", "storeConn")

\* The Stores of handleSelectReq and handleDeselectReq.
ReaderStore ==
    /\ \/ Step("reader", "storeSel", "loop") /\ state' = "Selected"
       \/ Step("reader", "storeConn", "loop") /\ state' = "Connected"
    /\ cur' = NoMsg
    /\ UNCHANGED <<role, closed, done, handles, txn, inbound, net>>

-----------------------------------------------------------------------------
(* The timers. *)

\* Mutant: a connection that is up counts as selected.
T7SparesConnected ==
    /\ Step("t7", "armed", IF state \in {"Connected", "Selected"} \/ closed THEN "exit" ELSE "cas")
    /\ UNCHANGED <<role, life, handles, txn, rcv, net>>

\* startT7Timer: the timer expires; the check, and then Close in later steps.
T7Expires ==
    /\ Step("t7", "armed", IF state = "Selected" \/ closed THEN "exit" ELSE "cas")
    /\ UNCHANGED <<role, life, handles, txn, rcv, net>>

T7Stops ==
    /\ cancel = "called" \/ done > 0
    /\ Step("t7", "armed", "exit")
    /\ UNCHANGED <<role, life, handles, txn, rcv, net>>

\* sessionTTLLoop: the timer expires (Close), or Connect's context ends first.
TTLExpires ==
    /\ \/ Step("ttl", "armed", "cas")
       \/ Step("ttl", "armed", "exit")
    /\ UNCHANGED <<role, life, handles, txn, rcv, net>>

\* linktestLoop: a tick in state Connected or above sends a Linktest.req.
LinktestTick ==
    /\ pc["linktest"] = "idle"
    /\ state \in {"Connected", "Selected"}
    /\ Register("linktest", "LinktestReq", 0)

LinktestStops ==
    /\ cancel = "called"
    /\ Step("linktest", "idle", "exit")
    /\ UNCHANGED <<role, life, handles, txn, rcv, net>>

-----------------------------------------------------------------------------
(* The peer, as an arbitrary program. *)

\* A client connects to the listener, from an allowed address or not.
PeerDials ==
    /\ role = "Passive" /\ listener = "open"
    /\ tcp = "idle"
    /\ tcp' \in {"dialed", "dialedBad"}
    /\ UNCHANGED <<sess, in, out, eof>>

\* The peer sends any message.  It matters only when the reader waits for one,
\* so it is sent then.
PeerSends(t, i) ==
    /\ ~eof
    /\ pc["reader"] = "loop"
    /\ in = <<>>
    /\ in' = <<Message(t, i)>>
    /\ UNCHANGED <<sess, out, tcp, eof>>

\* The peer reads.
PeerReads ==
    /\ out # <<>>
    /\ out' = Tail(out)
    /\ UNCHANGED <<sess, in, tcp, eof>>

PeerCloses ==
    /\ ~eof
    /\ tcp \in {"dialed", "accepted"}
    /\ eof' = TRUE
    /\ UNCHANGED <<sess, net>>

-----------------------------------------------------------------------------

UserStep ==
    \/ DialOk \/ ConnectFails \/ DialStore \/ ListenOk \/ ActiveStartLoops
    \/ SelectRefused \/ Select \/ SelectStore
AcceptorStep == Accept \/ AcceptFails \/ AcceptSetConn \/ AcceptStore \/ PassiveStartLoops
ReaderStep ==
    \/ ReadMessage \/ ReadLoopExits \/ HandleMessage \/ Deliver \/ PushInbound
    \/ RejectNotSelected \/ HandleLinktestReq \/ HandleSelectReq \/ HandleDeselectReq \/ ReaderStore
SenderStep(w) == SendWrite(w) \/ SendWriteFails(w)
WaiterStep(w) == ReplyArrives(w) \/ WaitTimeout(w)
TimerStep == T7Expires \/ T7Stops \/ TTLExpires \/ LinktestTick \/ LinktestStops
CallerStep ==
    \E c \in Callers :
        Send(c) \/ \E t \in CallTypes, i \in CallerIDs \cup {0} : SendMessage(c, t, i)
AppStep == ReceiveMessage \/ SendReply

\* A step of this endpoint.
Local ==
    \/ Connect \/ UserStep
    \/ AcceptorStep
    \/ ReaderStep
    \/ \E w \in Sender : SenderStep(w)
    \/ \E w \in Waiter : WaiterStep(w)
    \/ CallerStep
    \/ AppStep
    \/ TimerStep
    \/ CallClose
    \/ \E p \in Closers : CloseStep(p)

Peer ==
    \/ PeerDials
    \/ \E t \in PeerTypes, i \in Ids \ {0} : PeerSends(t, i)
    \/ PeerReads
    \/ PeerCloses

Next == (Local /\ UNCHANGED eof) \/ Peer

Spec == Init /\ [][Next]_vars

-----------------------------------------------------------------------------
\* What the goroutine p does by itself.  Nothing makes the application call
\* Connect, Close or SendMessage; a tick of linktestLoop is left out since MaxSystemID
\* bounds the ticks.
Run(p) ==
    \/ p = "user" /\ UserStep
    \/ p = "acceptor" /\ AcceptorStep
    \/ p = "reader" /\ ReaderStep
    \/ p = "app" /\ AppStep
    \/ p = "t7" /\ (T7Expires \/ T7Stops)
    \/ p = "ttl" /\ TTLExpires
    \/ p = "linktest" /\ LinktestStops
    \/ p \in Sender /\ SenderStep(p)
    \/ p \in Waiter /\ WaiterStep(p)
    \/ p \in Closers /\ CloseStep(p)

\* Goroutines that can run do run, timers expire, a call that wants to write does
\* so among the replies of the reader (the write lock of the connection queues its
\* writers), and the kernel of the peer takes what is written.  Nothing makes the
\* peer dial or send.
LocalFairness ==
    /\ \A p \in Proc : WF_vars(Run(p) /\ UNCHANGED eof)
    /\ SF_vars((\E w \in Waiter : SenderStep(w)) /\ UNCHANGED eof)

FairSpec == Spec /\ LocalFairness /\ WF_vars(PeerReads)

-----------------------------------------------------------------------------
(* Properties. *)

\* The goroutine w is inside sendAndWait.
Waiting(w) == pc[w] \in {"write", "wait"} /\ ExpectsReply(req[w])

\* Every entry of pending is that of a call under way with that system ID: none
\* outlives its call (a late reply would be swallowed).  And a call whose system ID
\* no caller chooses for itself has its entry until it returns: none is lost or
\* taken over (its reply would be dispatched as a primary message).  sendAndWait's
\* insert and deferred delete, of whatever is under the ID by then.
PendingMatchesCalls ==
    /\ \A i \in Ids : pending[i] # None =>
           \E w \in Waiter : Waiting(w) /\ req[w].id = i /\ mine[w] = pending[i]
    /\ \A w \in Waiter : Waiting(w) /\ req[w].id \notin CallerIDs =>
           pending[req[w].id] = mine[w]

\* The channel of a call only ever holds a message with the call's system ID, also
\* when handleMessage looked up the channel of an earlier call, which timed out
\* before the delivery, and when two calls have chosen the same ID: sendAndWait
\* makes a channel of its own for each call.
RepliesCorrelated ==
    \A w \in Waiter : Waiting(w) /\ ch[mine[w]] # NoMsg => ch[mine[w]].id = req[w].id

\* The body of Close runs once, whichever goroutines call it together: close(done)
\* a second time would panic.
CloseRunsOnce ==
    /\ done \in 0 .. 1
    /\ \A p, q \in Closers : pc[p] \in ClosePc /\ pc[q] \in ClosePc => p = q
    /\ (\E p \in Closers : pc[p] \in ClosePc) => closed /\ done = 0
    /\ done = 1 => closed

\* A data message is handed to the application only while the session is
\* Selected, or while it is being closed: handleMessage reads the state, and
\* queues the message in a later step.
QueuedOnlyWhenSelected ==
    [][Len(inbound') > Len(inbound) => state = "Selected" \/ closed]_vars

\* Once Done is closed, the connection and the listener are closed and the run
\* context is cancelled, provided Close was not called before the connection
\* was set up (CloseFrom).
CloseReleasesAll ==
    CloseFrom # "new" /\ done > 0 => conn = "closed" /\ listener # "open" /\ cancel = "called"

\* Every call of Select, SendMessage and the linktest returns: T3 and T6 bound
\* the wait, whatever the peer does, as long as its kernel takes the bytes.
CallsReturn == \A w \in Waiter : Waiting(w) ~> ~Waiting(w)

\* Close brings every goroutine of a session that runs to its end; sessionTTLLoop,
\* which Close does not wake, when its own timer expires or Connect's context ends.
CloseStopsLoops ==
    closed ~> /\ done = 1
              /\ \A p \in {"reader", "linktest", "t7"} : pc[p] = "exit"
              /\ \A p \in {"acceptor", "ttl"} : pc[p] \in {"off", "exit"}

\* A connection that never selects is dropped (T7): one that stays open has been
\* Selected at some time.
T7DropsUnselected ==
    T7Enabled => (<>[](conn = "open") => <>(state = "Selected"))

=============================================================================
