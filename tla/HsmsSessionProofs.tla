------------------------- MODULE HsmsSessionProofs -------------------------
(***************************************************************************)
(* Proofs about HsmsSession, for every value of its constants.             *)
(***************************************************************************)
EXTENDS HsmsSession, SequenceTheorems, TLAPS

(* Types. *)

PcOK == DOMAIN pc = Proc /\ \A p \in Proc : pc[p] \in PcOf(p)

\* Labels of the reader where it has a message in hand.
Busy == {"handle", "deliver", "push", "reject", "selectOk", "selectActive", "storeSel",
         "deselect", "storeConn", "linktest"}

\* What a goroutine sends.
OwnTypes(s) ==
    CASE s = "user"     -> {"SelectReq"}
      [] s = "linktest" -> {"LinktestReq"}
      [] s = "app"      -> {"Reply"}
      [] OTHER          -> MsgType
OwnMsg(s) == {m \in Msg : m.type \in OwnTypes(s)}

\* A call that waits for a reply has a channel for it.
HasChannel(w) ==
    /\ pc[w] \in {"write", "wait"} /\ ExpectsReply(req[w]) => mine[w] \in Channel
    /\ pc[w] = "wait" => ExpectsReply(req[w])

\* A goroutine that is about to use a message or a channel has one.
MsgInHand ==
    /\ pc["reader"] \in Busy => cur \in Msg
    /\ pc["reader"] = "deliver" => target \in Channel
    /\ \A w \in Waiter : HasChannel(w)
    /\ \A s \in Sender : pc[s] \in {"reply", "write", "wait"} => req[s] \in OwnMsg(s)

TypeInv == TypeOK /\ MsgInHand

\* The labels of each goroutine, spelled out for the provers.
LEMMA Labels ==
    /\ PcOf("user") = {"start", "connecting", "dialed", "loops", "connected", "write",
                       "wait", "store", "stop"}
    /\ PcOf("acceptor") = {"off", "accept", "accepted", "store", "loops", "exit"}
    /\ PcOf("reader") = {"off", "loop", "handle", "deliver", "push", "reject",
                         "selectOk", "selectActive", "storeSel", "deselect", "storeConn",
                         "linktest", "cas", "exit"} \cup ClosePc
    /\ PcOf("linktest") = {"off", "idle", "write", "wait", "cas", "exit"} \cup ClosePc
    /\ PcOf("t7") = {"off", "armed", "cas", "exit"} \cup ClosePc
    /\ PcOf("ttl") = {"off", "armed", "cas", "exit"} \cup ClosePc
    /\ PcOf("closer") = {"start", "cas", "exit"} \cup ClosePc
    /\ PcOf("app") = {"idle", "reply", "write"}
    /\ \A c \in Callers : PcOf(c) = {"idle", "write", "wait"}
BY ConstantsAssumption DEF PcOf, Fixed

\* A move of one goroutine to one of its labels keeps the types of pc and
\* moves no other goroutine.
LEMMA GotoOK ==
    ASSUME PcOK, NEW p \in Proc, NEW l \in PcOf(p), Goto(p, l)
    PROVE  PcOK' /\ pc'[p] = l /\ \A q \in Proc : q # p => pc'[q] = pc[q]
BY DEF PcOK, Goto

\* Message builds a message from a type and a system ID.
LEMMA MessageType ==
    ASSUME NEW t \in MsgType, NEW i \in Ids
    PROVE  Message(t, i) \in Msg /\ Message(t, i).id = i /\ Message(t, i).type = t
BY DEF Message, Msg

\* A session fresh from NewSession satisfies TypeInv.
LEMMA FreshType ==
    ASSUME LocalInit, eof \in BOOLEAN
    PROVE  TypeInv
<1> USE DEF LocalInit
<1>1. PcOK
  <2>1. DOMAIN pc = Proc
    OBVIOUS
  <2>2. ASSUME NEW p \in Proc PROVE pc[p] \in PcOf(p)
    BY Labels, ConstantsAssumption DEF Proc, Fixed
  <2> QED BY <2>1, <2>2 DEF PcOK
<1>2. TypeOK
  <2>1. nextSystemID \in Ids /\ Len(inbound) <= InboundCap
    BY ConstantsAssumption DEF Ids
  <2>2. pending \in [Ids -> Channel \cup {None}] /\ ch \in [Channel -> Msg \cup {NoMsg}]
        /\ mine \in [Waiter -> Channel \cup {None}]
        /\ req \in [Sender -> Msg \cup {NoMsg}]
    OBVIOUS
  <2>3. inbound \in Seq(Msg) /\ in \in Seq(Msg) /\ out \in Seq(Msg)
    OBVIOUS
  <2> QED BY <1>1, <2>1, <2>2, <2>3 DEF TypeOK, PcOK
<1>3. MsgInHand
  BY ConstantsAssumption DEF MsgInHand, HasChannel, Sender, Waiter, Proc, Fixed, Busy
<1> QED BY <1>2, <1>3 DEF TypeInv

\* The initial states satisfy TypeInv.
LEMMA InitType == Init => TypeInv
BY FreshType DEF Init

\* The part of TypeOK that is not about pc.
DataOK ==
    /\ role \in Roles
    /\ state \in {"Disconnected", "Connecting", "Connected", "Selected"}
    /\ closed \in BOOLEAN
    /\ done \in Nat
    /\ conn \in {"nil", "open", "closed"}
    /\ listener \in {"nil", "open", "closed"}
    /\ cancel \in {"nil", "set", "called"}
    /\ nextSystemID \in Ids
    /\ pending \in [Ids -> Channel \cup {None}]
    /\ ch \in [Channel -> Msg \cup {NoMsg}]
    /\ mine \in [Waiter -> Channel \cup {None}]
    /\ target \in Channel \cup {None}
    /\ inbound \in Seq(Msg) /\ Len(inbound) <= InboundCap
    /\ cur \in Msg \cup {NoMsg}
    /\ req \in [Sender -> Msg \cup {NoMsg}]
    /\ rsp \in Msg \cup {NoMsg}
    /\ in \in Seq(Msg)
    /\ out \in Seq(Msg)
    /\ tcp \in {"idle", "dialed", "dialedBad", "accepted"}
    /\ eof \in BOOLEAN

\* TypeOK is its data part and its pc part.
LEMMA TypeParts == TypeOK <=> DataOK /\ PcOK
BY DEF TypeOK, DataOK, PcOK

\* The sets of goroutines.
LEMMA Sets ==
    /\ {"user", "acceptor", "reader", "linktest", "t7", "ttl", "closer", "app"} \subseteq Proc
    /\ {"user", "linktest"} \subseteq Waiter /\ Callers \subseteq Waiter
    /\ Waiter \subseteq Sender /\ "app" \in Sender
    /\ Sender \subseteq Proc /\ Closers \subseteq Proc
    /\ {"acceptor", "reader", "t7", "ttl", "closer"} \cap Sender = {}
    /\ "app" \notin Waiter
    /\ \A w \in Waiter : "write" \in PcOf(w) /\ "wait" \in PcOf(w)
    /\ \A p \in Closers : {"cas", "exit"} \cup ClosePc \subseteq PcOf(p)
BY ConstantsAssumption, Labels DEF Proc, Fixed, Sender, Waiter, Closers

\* writeMessage keeps the type of the wire.
LEMMA WriteType ==
    ASSUME DataOK, NEW m \in Msg, WriteOk(m) \/ WriteFails
    PROVE  out' \in Seq(Msg)
<1>1. out' = Append(out, m) \/ out' = out
  BY DEF WriteOk, WriteFails
<1>2. out \in Seq(Msg)
  BY DEF DataOK
<1>3. Append(out, m) \in Seq(Msg)
  BY <1>2, AppendProperties
<1> QED BY <1>1, <1>2, <1>3

\* The system ID of a call that Register admits, and the channel it makes.
LEMMA RegisterParts ==
    ASSUME TypeInv, NEW w \in Waiter, NEW t \in MsgType, NEW i \in CallerIDs \cup {0},
           Register(w, t, i)
    PROVE  /\ SystemID(i) \in Ids \ {0}
           /\ Message(t, SystemID(i)) \in Msg
           /\ Message(t, SystemID(i)).id = SystemID(i)
           /\ Message(t, SystemID(i)).type = t
           /\ nextSystemID' \in Ids
           /\ ExpectsReply(Message(t, SystemID(i))) =>
                 \E c \in FreeChannels :
                    /\ c \in Channel
                    /\ pending' = [pending EXCEPT ![SystemID(i)] = c]
                    /\ ch' = [ch EXCEPT ![c] = NoMsg]
                    /\ mine' = [mine EXCEPT ![w] = c]
<1> USE ConstantsAssumption
<1>1. SystemID(i) \in Ids \ {0} /\ nextSystemID' \in Ids
  <2>1. nextSystemID \in 0 .. MaxSystemID /\ MaxSystemID \in Nat
    BY DEF TypeInv, TypeOK, Ids
  <2>2. /\ i = 0 => nextSystemID < MaxSystemID
        /\ nextSystemID' = IF i = 0 THEN nextSystemID + 1 ELSE nextSystemID
    BY DEF Register
  <2>3. i = 0 \/ i \in 1 .. MaxSystemID
    OBVIOUS
  <2> QED BY <2>1, <2>2, <2>3 DEF SystemID, Ids
<1>2. /\ Message(t, SystemID(i)) \in Msg
      /\ Message(t, SystemID(i)).id = SystemID(i)
      /\ Message(t, SystemID(i)).type = t
  BY <1>1, MessageType
<1>3. ASSUME ExpectsReply(Message(t, SystemID(i)))
      PROVE  \E c \in FreeChannels :
                    /\ c \in Channel
                    /\ pending' = [pending EXCEPT ![SystemID(i)] = c]
                    /\ ch' = [ch EXCEPT ![c] = NoMsg]
                    /\ mine' = [mine EXCEPT ![w] = c]
  <2>1. PICK c : c = (CHOOSE x \in FreeChannels : TRUE)
    OBVIOUS
  <2>2. FreeChannels # {}
    BY <1>3 DEF Register
  <2>3. c \in FreeChannels
    BY <2>1, <2>2
  <2>4. c \in Channel
    BY <2>3 DEF FreeChannels
  <2>5. /\ pending' = [pending EXCEPT ![Message(t, SystemID(i)).id] = c]
        /\ ch' = [ch EXCEPT ![c] = NoMsg]
        /\ mine' = [mine EXCEPT ![w] = c]
    BY <1>3, <2>1 DEF Register
  <2> QED BY <1>2, <2>3, <2>4, <2>5
<1> QED BY <1>1, <1>2, <1>3

\* Drawing a system ID and making the channel and its entry keeps TypeInv.
LEMMA RegisterType ==
    ASSUME TypeInv, NEW w \in Waiter, NEW t \in OwnTypes(w), NEW i \in CallerIDs \cup {0},
           Register(w, t, i), eof' \in BOOLEAN
    PROVE  TypeInv'
<1> USE ConstantsAssumption
<1> DEFINE m == Message(t, SystemID(i))
<1>0. t \in MsgType
  BY DEF OwnTypes, MsgType
<1>1. /\ SystemID(i) \in Ids /\ m \in Msg /\ m.type = t /\ nextSystemID' \in Ids
  BY <1>0, RegisterParts
<1>2. m \in OwnMsg(w) /\ req' = [req EXCEPT ![w] = m]
  BY <1>1 DEF OwnMsg, Register
<1> HIDE DEF m
<1>3. PcOK' /\ pc'[w] = "write" /\ \A q \in Proc : q # w => pc'[q] = pc[q]
  BY GotoOK, TypeParts, Sets DEF Register, TypeInv
<1>4. /\ pending' \in [Ids -> Channel \cup {None}]
      /\ ch' \in [Channel -> Msg \cup {NoMsg}]
      /\ mine' \in [Waiter -> Channel \cup {None}]
      /\ \A v \in Waiter : v # w => mine'[v] = mine[v]
      /\ ExpectsReply(m) => mine'[w] \in Channel
  <2>1. CASE ExpectsReply(m)
    <3>1. PICK c \in Channel : /\ pending' = [pending EXCEPT ![SystemID(i)] = c]
                               /\ ch' = [ch EXCEPT ![c] = NoMsg]
                               /\ mine' = [mine EXCEPT ![w] = c]
      BY <1>0, <2>1, RegisterParts DEF m
    <3> QED BY <1>1, <3>1 DEF TypeInv, TypeOK
  <2>2. CASE ~ExpectsReply(m)
    BY <2>2 DEF Register, TypeInv, TypeOK, m
  <2> QED BY <2>1, <2>2
<1>5. req' \in [Sender -> Msg \cup {NoMsg}]
  BY <1>2, Sets DEF TypeInv, TypeOK, OwnMsg
<1>6. DataOK'
  BY <1>1, <1>4, <1>5 DEF Register, TypeInv, TypeOK, DataOK, life, handles, rcv, net
<1>7. MsgInHand'
  <2>1. pc'["reader"] = pc["reader"] /\ cur' = cur /\ target' = target
    BY <1>3, Sets DEF Register, rcv
  <2>2. ASSUME NEW s \in Sender, pc'[s] \in {"reply", "write", "wait"}
        PROVE  req'[s] \in OwnMsg(s)
    BY <1>2, <1>3, <2>2, Sets DEF TypeInv, TypeOK, MsgInHand
  <2>3. ASSUME NEW v \in Waiter PROVE HasChannel(v)'
    <3>1. CASE v = w
      <4>1. req'[w] = m
        BY <1>2, Sets DEF TypeInv, TypeOK
      <4> QED BY <1>3, <1>4, <3>1, <4>1 DEF HasChannel
    <3>2. CASE v # w
      <4>1. pc'[v] = pc[v] /\ mine'[v] = mine[v] /\ req'[v] = req[v]
        BY <1>2, <1>3, <1>4, <3>2, Sets DEF TypeInv, TypeOK
      <4> QED BY <4>1 DEF HasChannel, TypeInv, MsgInHand
    <3> QED BY <3>1, <3>2
  <2> QED BY <2>1, <2>2, <2>3 DEF TypeInv, MsgInHand
<1> QED BY <1>3, <1>6, <1>7 DEF TypeInv, TypeOK, DataOK, PcOK

\* A step of one goroutine p to label l, which leaves the messages of the others
\* alone, keeps TypeInv when it keeps the data.
LEMMA MoveType ==
    ASSUME TypeInv, DataOK', NEW p \in Proc, NEW l \in PcOf(p), Goto(p, l),
           p = "reader" \/ UNCHANGED <<cur, target>>,
           p = "reader" /\ l \in Busy => cur' \in Msg,
           p = "reader" /\ l = "deliver" => target' \in Channel,
           \A s \in Sender : s # p => req'[s] = req[s],
           \A w \in Waiter : w # p => mine'[w] = mine[w],
           p \in Sender /\ l \in {"reply", "write", "wait"} => req'[p] \in OwnMsg(p),
           p \in Waiter /\ l \in {"write", "wait"} => HasChannel(p)'
    PROVE  TypeInv'
<1>1. PcOK' /\ pc'[p] = l /\ \A q \in Proc : q # p => pc'[q] = pc[q]
  BY GotoOK, TypeParts DEF TypeInv
<1>2. MsgInHand'
  <2>1. pc'["reader"] \in Busy => cur' \in Msg
    BY <1>1, Sets DEF TypeInv, MsgInHand
  <2>2. ASSUME NEW s \in Sender, pc'[s] \in {"reply", "write", "wait"}
        PROVE  req'[s] \in OwnMsg(s)
    BY <1>1, <2>2, Sets DEF TypeInv, MsgInHand
  <2>3. pc'["reader"] = "deliver" => target' \in Channel
    BY <1>1, Sets DEF TypeInv, MsgInHand
  <2>4. ASSUME NEW w \in Waiter PROVE HasChannel(w)'
    <3>1. CASE w = p /\ l \in {"write", "wait"}
      BY <3>1
    <3>2. CASE w = p /\ l \notin {"write", "wait"}
      BY <1>1, <3>2 DEF HasChannel
    <3>3. CASE w # p
      <4>1. pc'[w] = pc[w] /\ req'[w] = req[w] /\ mine'[w] = mine[w]
        BY <1>1, <3>3, Sets
      <4> QED BY <4>1 DEF HasChannel, TypeInv, MsgInHand
    <3> QED BY <3>1, <3>2, <3>3
  <2> QED BY <2>1, <2>2, <2>3, <2>4 DEF MsgInHand
<1> QED BY <1>1, <1>2 DEF TypeInv, TypeOK, DataOK, PcOK

\* startLoops moves several goroutines at once.
LEMMA StartLoopsType ==
    ASSUME TypeInv, eof' \in BOOLEAN, NEW p \in {"user", "acceptor"}, NEW l \in PcOf(p),
           l \notin {"reply", "write", "wait"}, NEW ttl \in {"off", "armed", "exit"},
           StartLoops(p, l, ttl)
    PROVE  TypeInv'
<1>1. PcOK' /\ pc'["reader"] = "loop"
      /\ \A s \in Sender : pc'[s] \in {"reply", "write", "wait"} => pc'[s] = pc[s]
  <2>1. PcOK
    BY TypeParts DEF TypeInv
  <2>2. pc'["reader"] = "loop"
    BY <2>1, Sets DEF StartLoops, PcOK
  <2>3. \A s \in Sender : pc'[s] \in {"reply", "write", "wait"} => pc'[s] = pc[s]
    BY <2>1, Sets DEF StartLoops, PcOK
  <2>4. ASSUME NEW q \in Proc PROVE pc'[q] \in PcOf(q)
    BY <2>1, Labels DEF StartLoops, PcOK
  <2>5. DOMAIN pc' = Proc
    BY <2>1 DEF StartLoops, PcOK
  <2> QED BY <2>2, <2>3, <2>4, <2>5 DEF PcOK
<1>2. DataOK'
  BY DEF StartLoops, TypeInv, TypeOK, DataOK, life, txn, rcv, net
<1>3. MsgInHand'
  <2>1. UNCHANGED <<cur, target, req, mine>>
    BY DEF StartLoops, txn, rcv
  <2>2. ASSUME NEW w \in Waiter PROVE HasChannel(w)'
    <3>1. pc'[w] \in {"write", "wait"} => pc'[w] = pc[w]
      BY <1>1, Sets
    <3> QED BY <2>1, <3>1 DEF HasChannel, TypeInv, MsgInHand
  <2> QED BY <1>1, <2>1, <2>2, Sets DEF TypeInv, MsgInHand, Busy
<1> QED BY <1>1, <1>2, <1>3 DEF TypeInv, TypeOK, DataOK, PcOK

\* An answer of the reader.
LEMMA RespondType ==
    ASSUME TypeInv, eof' \in BOOLEAN, pc["reader"] \in Busy, NEW t \in MsgType,
           NEW l \in PcOf("reader") \ {"deliver"}, Respond(t, l)
    PROVE  TypeInv'
<1>1. cur \in Msg /\ cur.id \in Ids
  BY DEF TypeInv, MsgInHand, Msg
<1>2. Message(t, cur.id) \in Msg
  BY <1>1, MessageType
<1>3. out' \in Seq(Msg)
  BY <1>2, WriteType, TypeParts DEF Respond, TypeInv
<1>4. PICK l1 \in {l, "loop"} : Goto("reader", l1)
  BY DEF Respond
<1>5. cur' \in {cur, NoMsg} /\ (l1 # "loop" => cur' = cur)
  BY <1>4, GotoOK, TypeParts, Labels, Sets DEF Respond, TypeInv
<1>6. DataOK'
  BY <1>3, <1>5 DEF Respond, TypeInv, TypeOK, DataOK, life, handles, txn
<1>7. UNCHANGED <<req, mine>>
  BY DEF Respond, txn
<1> QED BY <1>1, <1>4, <1>5, <1>6, <1>7, MoveType, Labels, Sets DEF Busy

\* The steps of "user".
LEMMA UserType ==
    ASSUME TypeInv, eof' \in BOOLEAN, Connect \/ UserStep
    PROVE  TypeInv'
<1> USE ConstantsAssumption, Labels, Sets
<1>1. CASE Connect \/ DialOk \/ ConnectFails \/ DialStore \/ SelectRefused \/ SelectStore
  <2>1. PICK l \in PcOf("user") : Goto("user", l) /\ l \notin {"reply", "write", "wait"}
    BY <1>1 DEF Connect, DialOk, ConnectFails, DialStore, SelectRefused, SelectStore, Step
  <2>2. DataOK' /\ UNCHANGED <<cur, target, req, mine>>
    BY <1>1 DEF Connect, DialOk, ConnectFails, DialStore, SelectRefused, SelectStore,
       TypeInv, TypeOK, DataOK, life, handles, txn, rcv, net
  <2> QED BY <2>1, <2>2, MoveType
<1>2. CASE ListenOk
  <2>1. PcOK' /\ \A q \in Proc : q \notin {"user", "acceptor"} => pc'[q] = pc[q]
    BY <1>2, TypeParts DEF ListenOk, TypeInv, PcOK
  <2>2. pc'["user"] = "stop" /\ pc'["acceptor"] = "accept"
    BY <1>2, TypeParts DEF ListenOk, TypeInv, PcOK
  <2>3. DataOK' /\ UNCHANGED <<cur, target, req, mine>>
    BY <1>2 DEF ListenOk, TypeInv, TypeOK, DataOK, life, txn, rcv, net
  <2>4. MsgInHand'
    <3>1. ASSUME NEW w \in Waiter PROVE HasChannel(w)'
      <4>1. pc'[w] \in {"write", "wait"} => pc'[w] = pc[w]
        BY <2>1, <2>2
      <4> QED BY <2>3, <4>1 DEF HasChannel, TypeInv, MsgInHand
    <3> QED BY <2>1, <2>2, <2>3, <3>1 DEF TypeInv, MsgInHand
  <2> QED BY <2>1, <2>3, <2>4 DEF TypeInv, TypeOK, DataOK, PcOK
<1>3. CASE ActiveStartLoops
  BY <1>3, StartLoopsType DEF ActiveStartLoops
<1>4. CASE Select
  BY <1>4, RegisterType DEF Select, OwnTypes
<1> QED BY <1>1, <1>2, <1>3, <1>4 DEF UserStep

\* The steps of "acceptor".
LEMMA AcceptorType ==
    ASSUME TypeInv, eof' \in BOOLEAN, AcceptorStep
    PROVE  TypeInv'
<1> USE ConstantsAssumption, Labels, Sets
<1>1. CASE Accept /\ UNCHANGED pc
  <2>1. DataOK' /\ UNCHANGED <<cur, target, req, mine>>
    BY <1>1 DEF Accept, TypeInv, TypeOK, DataOK, life, handles, txn, rcv
  <2> QED BY <1>1, <2>1 DEF TypeInv, TypeOK, DataOK, MsgInHand, HasChannel
<1>2. CASE (Accept /\ ~UNCHANGED pc) \/ AcceptFails \/ AcceptSetConn \/ AcceptStore
  <2>1. PICK l \in PcOf("acceptor") : Goto("acceptor", l)
    BY <1>2 DEF Accept, AcceptFails, AcceptSetConn, AcceptStore, Step
  <2>2. DataOK' /\ UNCHANGED <<cur, target, req, mine>>
    BY <1>2 DEF Accept, AcceptFails, AcceptSetConn, AcceptStore,
       TypeInv, TypeOK, DataOK, life, handles, txn, rcv, net
  <2> QED BY <2>1, <2>2, MoveType
<1>3. CASE PassiveStartLoops
  BY <1>3, StartLoopsType DEF PassiveStartLoops
<1> QED BY <1>1, <1>2, <1>3 DEF AcceptorStep

\* The steps of "reader".
LEMMA ReaderType ==
    ASSUME TypeInv, eof' \in BOOLEAN, ReaderStep
    PROVE  TypeInv'
<1> USE ConstantsAssumption, Labels, Sets
<1>1. CASE ReadMessage
  <2>1. in # <<>> /\ in \in Seq(Msg)
    BY <1>1 DEF ReadMessage, TypeInv, TypeOK
  <2>2. Head(in) \in Msg /\ Tail(in) \in Seq(Msg)
    BY <2>1, HeadTailProperties
  <2>3. in' = Tail(in) /\ cur' \in {cur, Head(in)} /\ UNCHANGED <<req, mine, target>>
    BY <1>1 DEF ReadMessage, txn
  <2>4. DataOK'
    BY <1>1, <2>2, <2>3 DEF ReadMessage, TypeInv, TypeOK, DataOK, life, handles, txn
  <2>5. CASE UNCHANGED <<pc, cur>>
    BY <2>3, <2>4, <2>5 DEF TypeInv, TypeOK, DataOK, MsgInHand, HasChannel
  <2>6. CASE \E l \in {"exit", "cas"} : Goto("reader", l)
    BY <2>3, <2>4, <2>6, MoveType DEF Busy
  <2>7. CASE Goto("reader", "handle") /\ cur' = Head(in)
    BY <2>2, <2>3, <2>4, <2>7, MoveType DEF Busy
  <2> QED BY <1>1, <2>5, <2>6, <2>7 DEF ReadMessage
<1>2. CASE ReadLoopExits
  <2>1. DataOK' /\ UNCHANGED <<cur, target, req, mine>>
    BY <1>2 DEF ReadLoopExits, TypeInv, TypeOK, DataOK, life, handles, txn, rcv, net
  <2>2. \E l \in {"exit", "cas"} : Goto("reader", l)
    BY <1>2 DEF ReadLoopExits, Step
  <2> QED BY <2>1, <2>2, MoveType DEF Busy
<1>3. CASE HandleMessage
  <2>1. cur \in Msg /\ cur.id \in Ids
    BY <1>3 DEF HandleMessage, TypeInv, MsgInHand, Busy, Msg
  <2>2. target' = pending[cur.id] /\ target' \in Channel \cup {None}
    BY <1>3, <2>1 DEF HandleMessage, TypeInv, TypeOK
  <2>3. PICK l : /\ l = (IF target' # None THEN "deliver" ELSE Dispatch(cur))
                 /\ Goto("reader", l)
                 /\ cur' = IF l = "loop" THEN NoMsg ELSE cur
    BY <1>3 DEF HandleMessage
  <2>4. /\ l \in PcOf("reader") /\ (cur' = cur \/ l = "loop") /\ cur' \in {cur, NoMsg}
        /\ l = "deliver" => target' \in Channel
    BY <2>2, <2>3 DEF Dispatch
  <2>5. req' = req /\ mine' = mine
    BY <1>3 DEF HandleMessage
  <2>6. DataOK'
    BY <1>3, <2>2, <2>4 DEF HandleMessage, TypeInv, TypeOK, DataOK, life, handles, net
  <2> QED BY <2>1, <2>3, <2>4, <2>5, <2>6, MoveType DEF Busy
<1>10. CASE Deliver
  <2>1. cur \in Msg /\ target \in Channel
    BY <1>10 DEF Deliver, Step, TypeInv, MsgInHand, Busy
  <2>2. ch' \in [Channel -> Msg \cup {NoMsg}] /\ target' \in Channel \cup {None}
    BY <1>10, <2>1 DEF Deliver, TypeInv, TypeOK
  <2>3. DataOK' /\ UNCHANGED <<req, mine>>
    BY <1>10, <2>2 DEF Deliver, TypeInv, TypeOK, DataOK, life, handles, net
  <2> QED BY <1>10, <2>3, MoveType DEF Deliver, Step, Busy
<1>4. CASE PushInbound
  <2>1. cur \in Msg /\ inbound \in Seq(Msg) /\ Len(inbound) <= InboundCap
    BY <1>4 DEF PushInbound, Step, TypeInv, TypeOK, MsgInHand, Busy
  <2>2. /\ Append(inbound, cur) \in Seq(Msg)
        /\ Len(Append(inbound, cur)) = Len(inbound) + 1
        /\ Len(inbound) \in Nat
    BY <2>1, AppendProperties, LenProperties
  <2>3. inbound' \in Seq(Msg) /\ Len(inbound') <= InboundCap
    BY <1>4, <2>1, <2>2 DEF PushInbound
  <2>4. DataOK' /\ UNCHANGED <<req, mine>>
    BY <1>4, <2>3 DEF PushInbound, TypeInv, TypeOK, DataOK, life, handles, txn, net
  <2> QED BY <1>4, <2>4, MoveType DEF PushInbound, Step, Busy
<1>5. CASE RejectNotSelected
  BY <1>5, RespondType DEF RejectNotSelected, Busy, MsgType
<1>6. CASE HandleLinktestReq
  BY <1>6, RespondType DEF HandleLinktestReq, Busy, MsgType
<1>7. CASE HandleSelectReq
  BY <1>7, RespondType DEF HandleSelectReq, Busy, MsgType
<1>8. CASE HandleDeselectReq
  BY <1>8, RespondType DEF HandleDeselectReq, Busy, MsgType
<1>9. CASE ReaderStore
  <2>1. DataOK' /\ UNCHANGED <<req, mine>>
    BY <1>9 DEF ReaderStore, TypeInv, TypeOK, DataOK, handles, txn, net
  <2> QED BY <1>9, <2>1, MoveType DEF ReaderStore, Step, Busy
<1> QED BY <1>1, <1>2, <1>3, <1>4, <1>5, <1>6, <1>7, <1>8, <1>9, <1>10 DEF ReaderStep

\* Returning from sendAndWait.
LEMMA DeleteType ==
    ASSUME TypeInv, NEW w \in Waiter, DeletePending(w)
    PROVE  /\ pending' \in [Ids -> Channel \cup {None}]
           /\ mine' \in [Waiter -> Channel \cup {None}]
           /\ req' \in [Sender -> Msg \cup {NoMsg}]
           /\ \A s \in Sender : s # w => req'[s] = req[s]
           /\ \A v \in Waiter : v # w => mine'[v] = mine[v]
BY Sets DEF DeletePending, TypeInv, TypeOK

\* Writing and waiting.
LEMMA SenderType ==
    ASSUME TypeInv, eof' \in BOOLEAN, NEW w \in Sender,
           SenderStep(w) \/ (w \in Waiter /\ WaiterStep(w))
    PROVE  TypeInv'
<1> USE ConstantsAssumption, Labels, Sets
<1>1. w = "user" \/ w = "linktest" \/ w = "app" \/ w \in Callers
  BY DEF Sender, Waiter
<1>2. w \in Proc /\ w # "reader" /\ req \in [Sender -> Msg \cup {NoMsg}] /\ req[w] \in Msg
      /\ req[w] \in OwnMsg(w)
  BY DEF SenderStep, SendWrite, SendWriteFails, WaiterStep, ReplyArrives, WaitTimeout,
     TypeInv, TypeOK, MsgInHand, OwnMsg
<1>3. ExpectsReply(req[w]) \/ w # "app" => w \in Waiter
  BY <1>1, <1>2 DEF ExpectsReply, SenderStep, SendWrite, SendWriteFails, WaiterStep,
     ReplyArrives, WaitTimeout, OwnMsg, OwnTypes
<1>4. CASE SendWrite(w)
  <2>1. out' \in Seq(Msg)
    BY <1>2, <1>4, WriteType, TypeParts DEF SendWrite, TypeInv
  <2>2. req' \in [Sender -> Msg \cup {NoMsg}] /\ \A s \in Sender : s # w => req'[s] = req[s]
    BY <1>2, <1>4 DEF SendWrite
  <2>3. DataOK' /\ UNCHANGED <<cur, target, mine>>
    BY <1>4, <2>1, <2>2 DEF SendWrite, TypeInv, TypeOK, DataOK, life, handles, rcv
  <2>4. CASE ExpectsReply(req[w])
    <3>1. Goto(w, "wait") /\ req' = req /\ w \in Waiter
      BY <1>3, <1>4, <2>4 DEF SendWrite
    <3>2. mine[w] \in Channel
      BY <1>4, <2>4, <3>1 DEF SendWrite, TypeInv, MsgInHand, HasChannel
    <3>3. HasChannel(w)'
      BY <2>3, <2>4, <3>1, <3>2 DEF HasChannel
    <3> QED BY <1>2, <2>2, <2>3, <3>1, <3>3, MoveType
  <2>5. CASE ~ExpectsReply(req[w])
    <3>1. "idle" \in PcOf(w)
      BY <1>1, <1>2, <2>5 DEF OwnMsg, OwnTypes, ExpectsReply
    <3> QED BY <1>2, <1>4, <2>2, <2>3, <2>5, <3>1, MoveType DEF SendWrite
  <2> QED BY <2>4, <2>5
<1>5. CASE SendWriteFails(w)
  <2>1. out' = out
    BY <1>5 DEF SendWriteFails, WriteFails
  <2>2. /\ req' \in [Sender -> Msg \cup {NoMsg}]
        /\ \A s \in Sender : s # w => req'[s] = req[s]
        /\ pending' \in [Ids -> Channel \cup {None}]
        /\ mine' \in [Waiter -> Channel \cup {None}]
        /\ \A v \in Waiter : v # w => mine'[v] = mine[v]
    BY <1>2, <1>3, <1>5, DeleteType DEF SendWriteFails, TypeInv, TypeOK
  <2>3. DataOK' /\ UNCHANGED <<cur, target>>
    BY <1>5, <2>1, <2>2 DEF SendWriteFails, TypeInv, TypeOK, DataOK, life, handles, rcv
  <2>4. PICK l \in PcOf(w) : Goto(w, l) /\ l \notin {"reply", "write", "wait"}
    BY <1>1, <1>5 DEF SendWriteFails, SendFailed
  <2> QED BY <1>2, <2>2, <2>3, <2>4, MoveType
<1>6. CASE w \in Waiter /\ (ReplyArrives(w) \/ WaitTimeout(w))
  <2>1. /\ req' \in [Sender -> Msg \cup {NoMsg}]
        /\ \A s \in Sender : s # w => req'[s] = req[s]
        /\ pending' \in [Ids -> Channel \cup {None}]
        /\ mine' \in [Waiter -> Channel \cup {None}]
        /\ \A v \in Waiter : v # w => mine'[v] = mine[v]
    BY <1>6, DeleteType DEF ReplyArrives, WaitTimeout
  <2>2. rsp' \in Msg \cup {NoMsg}
    <3>1. mine[w] \in Channel
      BY <1>6 DEF ReplyArrives, WaitTimeout, TypeInv, MsgInHand, HasChannel
    <3> QED BY <1>6, <3>1 DEF ReplyArrives, WaitTimeout, TypeInv, TypeOK
  <2>3. DataOK' /\ UNCHANGED <<cur, target>>
    BY <1>6, <2>1, <2>2 DEF ReplyArrives, WaitTimeout, TypeInv, TypeOK, DataOK, life,
       handles, rcv, net
  <2>4. PICK l \in PcOf(w) : Goto(w, l) /\ l \notin {"reply", "write", "wait"}
    BY <1>1, <1>6 DEF ReplyArrives, WaitTimeout, SendFailed
  <2> QED BY <1>2, <2>1, <2>3, <2>4, MoveType
<1> QED BY <1>4, <1>5, <1>6 DEF SenderStep, WaiterStep

\* The callers and the application.
LEMMA CallerType ==
    ASSUME TypeInv, eof' \in BOOLEAN, AppStep \/ CallerStep
    PROVE  TypeInv'
<1> USE ConstantsAssumption, Labels, Sets
<1>1. CASE \E c \in Callers, t \in CallTypes, i \in CallerIDs \cup {0} : SendMessage(c, t, i)
  BY <1>1, RegisterType DEF SendMessage, OwnTypes, Fixed
<1>2. ASSUME NEW c \in Callers, Send(c) PROVE TypeInv'
  <2>1. Message("Event", 0) \in OwnMsg(c)
    BY MessageType DEF OwnMsg, OwnTypes, Ids, MsgType, Fixed
  <2>2. /\ req' \in [Sender -> Msg \cup {NoMsg}] /\ req'[c] \in OwnMsg(c)
        /\ \A s \in Sender : s # c => req'[s] = req[s]
    BY <1>2, <2>1 DEF Send, TypeInv, TypeOK, OwnMsg
  <2>3. DataOK' /\ UNCHANGED <<cur, target, mine>>
    BY <1>2, <2>2 DEF Send, TypeInv, TypeOK, DataOK, life, handles, rcv, net
  <2>4. HasChannel(c)'
    <3>1. req'[c] = Message("Event", 0) /\ pc'[c] = "write"
      BY <1>2 DEF Send, Step, Goto, TypeInv, TypeOK
    <3>2. ~ExpectsReply(Message("Event", 0))
      BY DEF ExpectsReply, Message
    <3> QED BY <3>1, <3>2 DEF HasChannel
  <2> QED BY <1>2, <2>2, <2>3, <2>4, MoveType DEF Send, Step, Fixed
<1>3. CASE ReceiveMessage
  <2>1. inbound # <<>> /\ inbound \in Seq(Msg) /\ Len(inbound) <= InboundCap
    BY <1>3 DEF ReceiveMessage, TypeInv, TypeOK
  <2>2. /\ Head(inbound) \in Msg /\ Tail(inbound) \in Seq(Msg)
        /\ Len(Tail(inbound)) = Len(inbound) - 1 /\ Len(inbound) \in Nat
    BY <2>1, HeadTailProperties, LenProperties
  <2>3. inbound' = Tail(inbound) /\ UNCHANGED <<cur, target, mine>>
    BY <1>3 DEF ReceiveMessage
  <2>4. Head(inbound).id \in Ids
    BY <2>2 DEF Msg
  <2>5. Message("Reply", Head(inbound).id) \in OwnMsg("app")
    BY <2>4, MessageType DEF OwnMsg, OwnTypes, MsgType
  <2>6. Len(inbound') <= InboundCap
    BY <2>1, <2>2, <2>3
  <2>7. req' \in [Sender -> Msg \cup {NoMsg}] /\ \A s \in Sender : s # "app" => req'[s] = req[s]
    BY <1>3, <2>5 DEF ReceiveMessage, TypeInv, TypeOK, OwnMsg
  <2>8. DataOK'
    BY <1>3, <2>2, <2>3, <2>6, <2>7 DEF ReceiveMessage, TypeInv, TypeOK, DataOK, life, handles, net
  <2>9. CASE Goto("app", "reply") /\ req'["app"] \in OwnMsg("app")
    BY <2>3, <2>7, <2>8, <2>9, MoveType
  <2>10. CASE UNCHANGED <<req, pc>>
    BY <2>3, <2>8, <2>10 DEF TypeInv, TypeOK, DataOK, MsgInHand, HasChannel
  <2>11. Head(inbound).type = "Data" => req'["app"] \in OwnMsg("app")
    BY <1>3, <2>5 DEF ReceiveMessage, TypeInv, TypeOK
  <2> QED BY <1>3, <2>9, <2>10, <2>11 DEF ReceiveMessage
<1>4. CASE SendReply
  <2>1. req' \in [Sender -> Msg \cup {NoMsg}] /\ \A s \in Sender : s # "app" => req'[s] = req[s]
    BY <1>4 DEF SendReply, TypeInv, TypeOK
  <2>2. DataOK' /\ UNCHANGED <<cur, target, mine>>
    BY <1>4, <2>1 DEF SendReply, TypeInv, TypeOK, DataOK, life, handles, rcv, net
  <2>3. req["app"] \in OwnMsg("app")
    BY <1>4 DEF SendReply, TypeInv, MsgInHand
  <2> QED BY <1>4, <2>1, <2>2, <2>3, MoveType DEF SendReply
<1> QED BY <1>1, <1>2, <1>3, <1>4 DEF AppStep, CallerStep

\* The timers, and the call of Close.
LEMMA TimerType ==
    ASSUME TypeInv, eof' \in BOOLEAN, TimerStep \/ CallClose
    PROVE  TypeInv'
<1> USE ConstantsAssumption, Labels, Sets
<1>1. CASE LinktestTick
  BY <1>1, RegisterType DEF LinktestTick, OwnTypes
<1>2. CASE T7Expires \/ T7Stops \/ TTLExpires \/ LinktestStops \/ CallClose
  <2>1. DataOK' /\ UNCHANGED <<cur, target, req, mine>>
    BY <1>2 DEF T7Expires, T7Stops, TTLExpires, LinktestStops, CallClose, TypeInv, TypeOK,
       DataOK, life, handles, txn, rcv, net
  <2>2. \E p \in {"t7", "ttl", "linktest", "closer"}, l \in {"cas", "exit"} : Goto(p, l)
    BY <1>2 DEF T7Expires, T7Stops, TTLExpires, LinktestStops, CallClose, Step
  <2> QED BY <2>1, <2>2, MoveType DEF Closers
<1> QED BY <1>1, <1>2 DEF TimerStep

\* The steps of Close.
LEMMA CloseType ==
    ASSUME TypeInv, eof' \in BOOLEAN, NEW p \in Closers, CloseStep(p)
    PROVE  TypeInv'
<1> USE ConstantsAssumption, Labels, Sets
<1>1. DataOK' /\ UNCHANGED <<req, mine, target>> /\ (p = "reader" \/ cur' = cur)
  <2>1. CASE CloseCAS(p) \/ CloseDone(p)
    <3>1. cur' \in {cur, NoMsg} /\ (p = "reader" \/ cur' = cur)
      BY <2>1 DEF CloseCAS, CloseDone, CloseReturns
    <3>2. closed' \in BOOLEAN
      BY <2>1, Zenon DEF CloseCAS, CloseDone, TypeInv, TypeOK
    <3>3. done' \in Nat
      <4>1. done \in Nat /\ done' \in {done, done + 1}
        BY <2>1 DEF CloseCAS, CloseDone, TypeInv, TypeOK
      <4> QED BY <4>1
    <3> QED BY <2>1, <3>1, <3>2, <3>3 DEF CloseCAS, CloseDone, TypeInv, TypeOK, DataOK, handles, txn, net
  <2>2. CASE CloseCancel(p) \/ CloseConn(p) \/ CloseListener(p) \/ CloseStore(p)
    BY <2>2 DEF CloseCancel, CloseConn, CloseListener, CloseStore, TypeInv, TypeOK, DataOK,
       life, handles, txn, rcv, net
  <2> QED BY <2>1, <2>2 DEF CloseStep
<1>2. PICK l \in {"cas", "exit", "loop"} \cup ClosePc : Goto(p, l) /\ (l = "loop" => p = "reader")
  BY DEF CloseStep, CloseCAS, CloseCancel, CloseConn, CloseListener, CloseStore, CloseDone,
     CloseReturns, AfterClose, ClosePc, Step
<1>3. l \in PcOf(p) /\ l \notin Busy /\ l \notin {"deliver", "reply", "write", "wait"}
  BY <1>2 DEF Busy, ClosePc
<1> QED BY <1>1, <1>2, <1>3, MoveType

\* What the peer does keeps TypeInv.
LEMMA PeerType ==
    ASSUME TypeInv, Peer
    PROVE  TypeInv'
<1> USE ConstantsAssumption
<1>1. PcOK' /\ MsgInHand'
  BY TypeParts DEF Peer, PeerDials, PeerSends, PeerReads, PeerCloses, sess, txn, rcv, TypeInv,
     MsgInHand, HasChannel, PcOK
<1>2. in' \in Seq(Msg) /\ out' \in Seq(Msg)
  <2>1. in \in Seq(Msg) /\ out \in Seq(Msg)
    BY DEF TypeInv, TypeOK
  <2>2. CASE \E t \in PeerTypes, i \in Ids \ {0} : PeerSends(t, i)
    BY <2>1, <2>2, MessageType DEF PeerSends
  <2>3. CASE PeerReads
    BY <2>1, <2>3, HeadTailProperties DEF PeerReads
  <2>4. CASE PeerDials \/ PeerCloses
    BY <2>1, <2>4 DEF PeerDials, PeerCloses, net
  <2> QED BY <2>2, <2>3, <2>4 DEF Peer
<1>3. eof' \in BOOLEAN /\ tcp' \in {"idle", "dialed", "dialedBad", "accepted"}
  BY DEF Peer, PeerDials, PeerSends, PeerReads, PeerCloses, net, TypeInv, TypeOK
<1>4. UNCHANGED sess
  BY DEF Peer, PeerDials, PeerSends, PeerReads, PeerCloses
<1>5. DataOK'
  BY <1>2, <1>3, <1>4 DEF sess, life, handles, txn, rcv, TypeInv, TypeOK, DataOK
<1> QED BY <1>1, <1>5 DEF TypeInv, TypeOK, DataOK, PcOK

\* A step of the endpoint keeps TypeInv, whatever becomes of the peer's end.
LEMMA LocalType ==
    ASSUME TypeInv, Local, eof' \in BOOLEAN
    PROVE  TypeInv'
BY UserType, AcceptorType, ReaderType, SenderType, CallerType, TimerType, CloseType, Sets
   DEF Local

\* TypeInv is inductive.
LEMMA NextType == TypeInv /\ [Next]_vars => TypeInv'
<1> SUFFICES ASSUME TypeInv, [Next]_vars PROVE TypeInv'
    OBVIOUS
<1>1. CASE Local /\ UNCHANGED eof
  BY <1>1, LocalType DEF TypeInv, TypeOK
<1>2. CASE Peer
  BY <1>2, PeerType
<1>3. CASE UNCHANGED vars
  BY <1>3 DEF vars, sess, life, handles, txn, rcv, net, TypeInv, TypeOK, MsgInHand, HasChannel
<1> QED BY <1>1, <1>2, <1>3 DEF Next

\* Every variable keeps its type, the inbound channel its capacity and every
\* goroutine its labels; and a goroutine that writes a message or answers one has
\* one in hand (no nil message reaches writeMessage).
THEOREM TypeCorrect == Spec => []TypeOK
<1>1. Spec => []TypeInv
  BY InitType, NextType, PTL DEF Spec
<1>2. TypeInv => TypeOK
  BY DEF TypeInv
<1> QED BY <1>1, <1>2, PTL

(* Close. *)

\* No goroutine gets inside Close, and nobody changes closed and done.
OutsideClose ==
    /\ UNCHANGED <<closed, done>>
    /\ \A p \in Closers : pc'[p] \in ClosePc => pc'[p] = pc[p]

\* A move to a label outside Close puts no goroutine inside it.
LEMMA GotoOutside ==
    ASSUME TypeInv, NEW p \in Proc, NEW l, l \notin ClosePc, Goto(p, l)
    PROVE  \A q \in Closers : pc'[q] \in ClosePc => pc'[q] = pc[q]
BY Sets, TypeParts DEF TypeInv, PcOK, Goto

\* The calls of SendMessage.
SendMessages ==
    \E c \in Callers, t \in CallTypes, i \in CallerIDs \cup {0} : SendMessage(c, t, i)

\* All steps of the endpoint but those of Close.
OtherStep ==
    \/ Connect \/ UserStep \/ AcceptorStep \/ ReaderStep
    \/ \E w \in Sender : SenderStep(w)
    \/ \E w \in Waiter : WaiterStep(w)
    \/ CallerStep \/ AppStep \/ TimerStep \/ CallClose

\* A local step is a step of Close or one of the others.
LEMMA LocalSteps == Local <=> OtherStep \/ \E p \in Closers : CloseStep(p)
BY DEF Local, OtherStep

\* The other steps touch neither closed nor done and start no body of Close.
LEMMA OtherOutsideClose ==
    ASSUME TypeInv, OtherStep
    PROVE  OutsideClose
<1> USE Sets, Labels, ConstantsAssumption DEF ClosePc
<1>1. CASE Connect \/ DialOk \/ ConnectFails \/ DialStore \/ SelectRefused \/ SelectStore
  <2>1. \E l \in {"start", "connecting", "dialed", "loops", "stop"} : Goto("user", l)
    BY <1>1 DEF Connect, DialOk, ConnectFails, DialStore, SelectRefused, SelectStore, Step
  <2>2. UNCHANGED <<closed, done>>
    BY <1>1 DEF Connect, DialOk, ConnectFails, DialStore, SelectRefused, SelectStore, life
  <2> QED BY <2>1, <2>2, GotoOutside DEF OutsideClose
<1>2. CASE ListenOk
  BY <1>2, TypeParts DEF ListenOk, OutsideClose, TypeInv, PcOK, life
<1>3. CASE ActiveStartLoops \/ PassiveStartLoops
  BY <1>3, TypeParts DEF ActiveStartLoops, PassiveStartLoops, StartLoops, OutsideClose, TypeInv,
     PcOK, life
<1>4. CASE \E w \in Waiter, t \in MsgType, i \in CallerIDs \cup {0} : Register(w, t, i)
  BY <1>4, GotoOutside DEF Register, OutsideClose, life
<1>5. CASE Accept \/ AcceptFails \/ AcceptSetConn \/ AcceptStore
  <2>1. UNCHANGED pc \/ \E l \in {"accepted", "store", "loops", "exit"} : Goto("acceptor", l)
    BY <1>5 DEF Accept, AcceptFails, AcceptSetConn, AcceptStore, Step
  <2>2. UNCHANGED <<closed, done>>
    BY <1>5 DEF Accept, AcceptFails, AcceptSetConn, AcceptStore, life
  <2> QED BY <2>1, <2>2, GotoOutside DEF OutsideClose
<1>6. CASE ReaderStep
  <2>1. UNCHANGED pc \/ \E l : l \notin ClosePc /\ Goto("reader", l)
    <3>1. CASE ReadMessage \/ ReadLoopExits \/ Deliver \/ PushInbound \/ ReaderStore
      BY <3>1 DEF ReadMessage, ReadLoopExits, Deliver, PushInbound, ReaderStore, Step
    <3>2. CASE HandleMessage
      <4>1. Dispatch(cur) \notin ClosePc
        BY DEF Dispatch
      <4> QED BY <3>2, <4>1 DEF HandleMessage
    <3>3. CASE RejectNotSelected \/ HandleLinktestReq \/ HandleSelectReq \/ HandleDeselectReq
      BY <3>3 DEF RejectNotSelected, HandleLinktestReq, HandleSelectReq, HandleDeselectReq, Respond
    <3> QED BY <1>6, <3>1, <3>2, <3>3 DEF ReaderStep
  <2>2. UNCHANGED <<closed, done>>
    BY <1>6 DEF ReaderStep, ReadMessage, ReadLoopExits, HandleMessage, Deliver, PushInbound,
       RejectNotSelected, HandleLinktestReq, HandleSelectReq, HandleDeselectReq, Respond,
       ReaderStore, life
  <2> QED BY <2>1, <2>2, GotoOutside DEF OutsideClose
<1>7. ASSUME NEW w \in Sender, SenderStep(w) \/ WaiterStep(w) PROVE OutsideClose
  <2>1. \E l \in {"wait", "idle", "cas", "stop", "store"} : Goto(w, l)
    BY <1>7 DEF SenderStep, WaiterStep, SendWrite, SendWriteFails, ReplyArrives, WaitTimeout,
       SendFailed
  <2>2. UNCHANGED <<closed, done>>
    BY <1>7 DEF SenderStep, WaiterStep, SendWrite, SendWriteFails, ReplyArrives, WaitTimeout, life
  <2> QED BY <2>1, <2>2, GotoOutside DEF OutsideClose
<1>8. CASE AppStep
  <2>1. UNCHANGED pc \/ \E l \in {"idle", "reply", "write"} : Goto("app", l)
    BY <1>8 DEF AppStep, ReceiveMessage, SendReply
  <2>2. UNCHANGED <<closed, done>>
    BY <1>8 DEF AppStep, ReceiveMessage, SendReply, life
  <2> QED BY <2>1, <2>2, GotoOutside DEF OutsideClose
<1>9. ASSUME NEW c \in Callers, Send(c) PROVE OutsideClose
  BY <1>9, GotoOutside DEF Send, Step, OutsideClose, life
<1>10. CASE T7Expires \/ T7Stops \/ TTLExpires \/ LinktestStops \/ CallClose
  <2>1. \E p \in {"t7", "ttl", "linktest", "closer"}, l \in {"cas", "exit"} : Goto(p, l)
    BY <1>10 DEF T7Expires, T7Stops, TTLExpires, LinktestStops, CallClose, Step
  <2>2. UNCHANGED <<closed, done>>
    BY <1>10 DEF T7Expires, T7Stops, TTLExpires, LinktestStops, CallClose, life
  <2> QED BY <2>1, <2>2, GotoOutside DEF OutsideClose
<1>11. CASE Select \/ LinktestTick \/ SendMessages
  <2>1. \E w \in Waiter, t \in MsgType, i \in CallerIDs \cup {0} : Register(w, t, i)
    <3>1. CASE Select
      BY <3>1 DEF Select, MsgType
    <3>2. CASE LinktestTick
      BY <3>2 DEF LinktestTick, MsgType
    <3>3. CASE SendMessages
      BY <3>3 DEF SendMessages, SendMessage
    <3> QED BY <1>11, <3>1, <3>2, <3>3
  <2> QED BY <1>4, <2>1
<1> QED
  BY <1>1, <1>2, <1>3, <1>5, <1>6, <1>7, <1>8, <1>9, <1>10, <1>11
     DEF OtherStep, UserStep, AcceptorStep, TimerStep, CallerStep, SendMessages

\* Only the winner of the compare-and-swap enters.
LEMMA LocalCloseOnce ==
    ASSUME TypeInv, CloseRunsOnce, Local
    PROVE  CloseRunsOnce'
<1>1. CASE OutsideClose
  BY <1>1 DEF OutsideClose, CloseRunsOnce
<1>2. ASSUME NEW p \in Closers, CloseStep(p) PROVE CloseRunsOnce'
  <2>0. \A l : Goto(p, l) => pc'[p] = l /\ \A q \in Closers : q # p => pc'[q] = pc[q]
    BY Sets, TypeParts DEF TypeInv, PcOK, Goto
  <2>1. CASE CloseCAS(p)
    <3>1. closed' = TRUE /\ done' = done
      BY <2>1 DEF CloseCAS
    <3>2. CASE closed
      <4>1. pc'[p] \notin ClosePc /\ \A q \in Closers : q # p => pc'[q] = pc[q]
        BY <2>0, <2>1, <3>2 DEF CloseCAS, CloseReturns, AfterClose, ClosePc
      <4> QED BY <3>1, <4>1 DEF CloseRunsOnce
    <3>3. CASE ~closed
      <4>1. \A q \in Closers : q # p => pc'[q] = pc[q]
        BY <2>0, <2>1, <3>3 DEF CloseCAS
      <4>2. \A q \in Closers : pc[q] \notin ClosePc
        BY <3>3 DEF CloseRunsOnce
      <4>3. done = 0
        BY <3>3 DEF CloseRunsOnce
      <4> QED BY <3>1, <4>1, <4>2, <4>3 DEF CloseRunsOnce
    <3> QED BY <3>2, <3>3
  <2>2. CASE CloseCancel(p) \/ CloseConn(p) \/ CloseListener(p) \/ CloseStore(p)
    <3>1. pc[p] \in ClosePc /\ UNCHANGED <<closed, done>>
      BY <2>2 DEF CloseCancel, CloseConn, CloseListener, CloseStore, Step, ClosePc, life
    <3>2. \A q \in Closers : q # p => pc'[q] = pc[q]
      BY <2>0, <2>2 DEF CloseCancel, CloseConn, CloseListener, CloseStore, Step
    <3> QED BY <3>1, <3>2 DEF CloseRunsOnce
  <2>3. CASE CloseDone(p)
    <3>1. pc[p] \in ClosePc /\ done' = done + 1 /\ closed' = closed
      BY <2>3 DEF CloseDone, ClosePc
    <3>2. pc'[p] \notin ClosePc /\ \A q \in Closers : q # p => pc'[q] = pc[q]
      BY <2>0, <2>3 DEF CloseDone, CloseReturns, AfterClose, ClosePc
    <3>3. closed /\ done' = 1 /\ \A q \in Closers : pc'[q] \notin ClosePc
      BY <3>1, <3>2 DEF CloseRunsOnce
    <3> QED BY <3>1, <3>3 DEF CloseRunsOnce
  <2> QED BY <1>2, <2>1, <2>2, <2>3 DEF CloseStep
<1> QED BY <1>1, <1>2, LocalSteps, OtherOutsideClose

\* CloseRunsOnce is inductive.
LEMMA CloseOnceStep ==
    ASSUME TypeInv, CloseRunsOnce, [Next]_vars
    PROVE  CloseRunsOnce'
<1>1. CASE Peer \/ UNCHANGED vars
  BY <1>1 DEF Peer, PeerDials, PeerSends, PeerReads, PeerCloses, vars, sess, life, CloseRunsOnce
<1> QED BY <1>1, LocalCloseOnce DEF Next

\* In a fresh session nobody is inside Close.
LEMMA CloseOnceInit == Init => CloseRunsOnce
<1> SUFFICES ASSUME Init PROVE CloseRunsOnce
    OBVIOUS
<1>1. \A p \in Closers : pc[p] \notin ClosePc
  BY Sets, ConstantsAssumption DEF Init, LocalInit, ClosePc, Closers
<1> QED BY <1>1 DEF Init, LocalInit, CloseRunsOnce

\* Whichever goroutines call Close together, on a Separate.req, at the end of the
\* read loop, at T7, after a failed linktest, at the session's TTL or from the
\* application, its body runs once and done is closed once.
THEOREM CloseOnce == Spec => []CloseRunsOnce
<1>1. TypeInv /\ CloseRunsOnce /\ [Next]_vars => CloseRunsOnce'
  BY CloseOnceStep
<1> QED BY <1>1, CloseOnceInit, InitType, NextType, PTL DEF Spec

(* The order of setting up: Connect, acceptAndRun, startLoops. *)

\* The loops run only after Connect or acceptAndRun is past every Store of its own,
\* and one call of startLoops starts them all.
Boot ==
    /\ pc["acceptor"] # "off" => pc["user"] = "stop"
    /\ pc["reader"] = "off" => pc["linktest"] = "off" /\ pc["t7"] = "off" /\ pc["ttl"] = "off"
    /\ pc["reader"] # "off" => /\ pc["user"] \in {"connected", "write", "wait", "store", "stop"}
                               /\ pc["acceptor"] \in {"off", "exit"}

\* A step of p to l that touches neither setting up nor the start of the loops.
LEMMA GotoBoot ==
    ASSUME TypeInv, Boot, NEW p \in Proc, NEW l, Goto(p, l),
           p \notin {"user", "acceptor"}, l # "off", pc[p] # "off"
    PROVE  Boot'
<1>1. pc'[p] = l /\ \A q \in Proc : q # p => pc'[q] = pc[q]
  BY TypeParts DEF TypeInv, PcOK, Goto
<1>2. \A q \in {"reader", "linktest", "t7", "ttl"} : pc'[q] = "off" <=> pc[q] = "off"
  BY <1>1, Sets
<1>3. pc'["user"] = pc["user"] /\ pc'["acceptor"] = pc["acceptor"]
  BY <1>1, Sets
<1> QED BY <1>2, <1>3 DEF Boot

\* The order in which Connect and acceptAndRun set the session up is kept.
LEMMA LocalBoot ==
    ASSUME TypeInv, Boot, Local
    PROVE  Boot'
<1> USE Sets, Labels, ConstantsAssumption
<1>0. PcOK
  BY TypeParts DEF TypeInv
<1>g. \A p \in Proc : \A l : Goto(p, l) => pc'[p] = l /\ \A q \in Proc : q # p => pc'[q] = pc[q]
  BY <1>0 DEF PcOK, Goto
<1>1. CASE Connect \/ DialOk \/ ConnectFails \/ DialStore
  <2>1. \E l : Goto("user", l) /\ pc["user"] \in {"start", "connecting", "dialed"}
    BY <1>1 DEF Connect, DialOk, ConnectFails, DialStore, Step
  <2> QED BY <1>g, <2>1 DEF Boot
<1>2. CASE SelectRefused \/ SelectStore
  <2>1. Goto("user", "stop")
    BY <1>2 DEF SelectRefused, SelectStore, Step
  <2> QED BY <1>g, <2>1 DEF Boot
<1>3. CASE ListenOk
  BY <1>0, <1>3 DEF ListenOk, PcOK, Boot
<1>4. CASE ActiveStartLoops \/ PassiveStartLoops
  <2>1. PICK p \in {"user", "acceptor"}, l \in {"connected", "exit"}, ttl \in {"off", "armed", "exit"} :
          StartLoops(p, l, ttl) /\ (p = "user" => l = "connected") /\ (p = "acceptor" => l = "exit")
    BY <1>4 DEF ActiveStartLoops, PassiveStartLoops
  <2>2. pc'[p] = l /\ pc'["reader"] = "loop" /\ \A q \in {"user", "acceptor"} : q # p => pc'[q] = pc[q]
    BY <1>0, <2>1 DEF StartLoops, PcOK
  <2>3. pc[p] = "loops"
    BY <2>1 DEF StartLoops
  <2> QED BY <2>1, <2>2, <2>3 DEF Boot
<1>5. CASE Accept \/ AcceptFails \/ AcceptSetConn \/ AcceptStore
  <2>1. UNCHANGED pc \/ \E l : Goto("acceptor", l) /\ pc["acceptor"] \in {"accept", "accepted", "store"}
    BY <1>5 DEF Accept, AcceptFails, AcceptSetConn, AcceptStore, Step
  <2> QED BY <1>g, <2>1 DEF Boot
<1>6. CASE ReaderStep
  <2>1. UNCHANGED pc \/ \E l : l # "off" /\ pc["reader"] # "off" /\ Goto("reader", l)
    <3>1. CASE ReadMessage \/ ReadLoopExits \/ Deliver \/ PushInbound \/ ReaderStore
      BY <3>1 DEF ReadMessage, ReadLoopExits, Deliver, PushInbound, ReaderStore, Step
    <3>2. CASE HandleMessage
      <4>1. Dispatch(cur) # "off"
        BY DEF Dispatch
      <4> QED BY <3>2, <4>1 DEF HandleMessage
    <3>3. CASE RejectNotSelected \/ HandleLinktestReq \/ HandleSelectReq \/ HandleDeselectReq
      BY <3>3 DEF RejectNotSelected, HandleLinktestReq, HandleSelectReq, HandleDeselectReq, Respond
    <3> QED BY <1>6, <3>1, <3>2, <3>3 DEF ReaderStep
  <2> QED BY <2>1, GotoBoot DEF Boot
<1>7. ASSUME NEW w \in Sender, SenderStep(w) \/ (w \in Waiter /\ WaiterStep(w)) PROVE Boot'
  <2>1. w = "user" \/ w \notin {"user", "acceptor"}
    OBVIOUS
  <2>2. pc[w] \in {"write", "wait"}
    BY <1>7 DEF SenderStep, WaiterStep, SendWrite, SendWriteFails, ReplyArrives, WaitTimeout
  <2>3. CASE w # "user"
    <3>1. \E l : l # "off" /\ Goto(w, l)
      BY <1>7, <2>3 DEF SenderStep, WaiterStep, SendWrite, SendWriteFails, ReplyArrives,
         WaitTimeout, SendFailed
    <3> QED BY <2>1, <2>2, <2>3, <3>1, GotoBoot
  <2>4. CASE w = "user"
    <3>1. ExpectsReply(req["user"])
      BY <2>2, <2>4 DEF TypeInv, MsgInHand, OwnMsg, OwnTypes, ExpectsReply
    <3>2. \E l \in {"wait", "stop", "store"} : Goto("user", l)
      BY <1>7, <2>4, <3>1 DEF SenderStep, WaiterStep, SendWrite, SendWriteFails, ReplyArrives,
         WaitTimeout, SendFailed
    <3> QED BY <1>g, <2>2, <2>4, <3>2 DEF Boot
  <2> QED BY <2>3, <2>4
<1>8. CASE AppStep
  <2>1. UNCHANGED pc \/ \E l \in {"idle", "reply", "write"} : Goto("app", l) /\ pc["app"] # "off"
    BY <1>8 DEF AppStep, ReceiveMessage, SendReply
  <2> QED BY <2>1, GotoBoot DEF Boot
<1>9. ASSUME NEW c \in Callers, Goto(c, "write"), pc[c] = "idle" PROVE Boot'
  <2>1. c \notin {"user", "acceptor"}
    BY DEF Fixed
  <2> QED BY <1>9, <2>1, GotoBoot
<1>10. CASE T7Expires \/ T7Stops \/ TTLExpires \/ LinktestStops \/ CallClose
  <2>1. \E p \in {"t7", "ttl", "linktest", "closer"}, l \in {"cas", "exit"} :
          Goto(p, l) /\ pc[p] # "off"
    BY <1>10 DEF T7Expires, T7Stops, TTLExpires, LinktestStops, CallClose, Step
  <2> QED BY <2>1, GotoBoot
<1>11. CASE Select
  <2>1. Goto("user", "write") /\ pc["user"] = "connected"
    BY <1>11 DEF Select, Register
  <2> QED BY <1>g, <2>1 DEF Boot
<1>12. CASE LinktestTick
  <2>1. Goto("linktest", "write") /\ pc["linktest"] = "idle"
    BY <1>12 DEF LinktestTick, Register
  <2> QED BY <2>1, GotoBoot
<1>13. CASE CallerStep
  BY <1>9, <1>13 DEF CallerStep, Send, SendMessage, Register, Step
<1>14. ASSUME NEW p \in Closers, CloseStep(p) PROVE Boot'
  <2>1. \E l : l # "off" /\ pc[p] # "off" /\ Goto(p, l)
    BY <1>14 DEF CloseStep, CloseCAS, CloseCancel, CloseConn, CloseListener, CloseStore,
       CloseDone, CloseReturns, AfterClose, Step
  <2>2. p \notin {"user", "acceptor"}
    BY DEF Closers
  <2> QED BY <2>1, <2>2, GotoBoot
<1> QED
  BY <1>1, <1>2, <1>3, <1>4, <1>5, <1>6, <1>7, <1>8, <1>10, <1>11, <1>12, <1>13, <1>14
     DEF Local, UserStep, AcceptorStep, TimerStep

\* Boot is inductive.
LEMMA BootStep ==
    ASSUME TypeInv, Boot, [Next]_vars
    PROVE  Boot'
<1>1. CASE Peer \/ UNCHANGED vars
  BY <1>1 DEF Peer, PeerDials, PeerSends, PeerReads, PeerCloses, vars, sess, Boot
<1> QED BY <1>1, LocalBoot DEF Next

\* Before Connect nothing has been set up.
LEMMA BootInit == Init => Boot
<1> SUFFICES ASSUME Init PROVE Boot
    OBVIOUS
<1>1. \A p \in {"acceptor", "reader", "linktest", "t7", "ttl"} : pc[p] = "off"
  BY Sets, ConstantsAssumption DEF Init, LocalInit, Fixed
<1> QED BY <1>1 DEF Boot

(* Transactions. *)

\* A call has a channel of its own; one with a system ID that no caller chooses has
\* drawn it; and the channel the reader has looked up is, if any call waits on it,
\* that of a call with the system ID of the message.
Calls ==
    /\ \A w \in Waiter : ~Waiting(w) => mine[w] = None
    /\ \A v, w \in Waiter : v # w /\ mine[v] # None => mine[v] # mine[w]
    /\ \A w \in Waiter : Waiting(w) => req[w].id \in CallerIDs \/ req[w].id <= nextSystemID
    /\ pc["reader"] = "deliver" =>
           \A w \in Waiter : Waiting(w) /\ mine[w] = target => req[w].id = cur.id

TxnInv == PendingMatchesCalls /\ RepliesCorrelated /\ Calls

\* A step by which no call begins or returns, and the reader looks nothing up.
TxnQuiet ==
    /\ UNCHANGED <<nextSystemID, pending, ch, mine>>
    /\ \A w \in Waiter : (Waiting(w)' <=> Waiting(w)) /\ (Waiting(w) => req'[w] = req[w])
    /\ pc'["reader"] = "deliver" => pc["reader"] = "deliver" /\ UNCHANGED <<cur, target>>

\* A step that leaves the transactions alone keeps TxnInv.
LEMMA QuietTxn ==
    ASSUME TxnInv, TxnQuiet
    PROVE  TxnInv'
<1>1. \A w \in Waiter : (Waiting(w)' <=> Waiting(w)) /\ (Waiting(w) => req'[w] = req[w])
  BY DEF TxnQuiet
<1>2. UNCHANGED <<nextSystemID, pending, ch, mine>>
  BY DEF TxnQuiet
<1>3. PendingMatchesCalls'
  BY <1>1, <1>2 DEF TxnInv, PendingMatchesCalls
<1>4. RepliesCorrelated'
  BY <1>1, <1>2 DEF TxnInv, RepliesCorrelated
<1>5. Calls'
  <2>1. \A w \in Waiter : ~Waiting(w)' => mine'[w] = None
    BY <1>1, <1>2 DEF TxnInv, Calls
  <2>2. \A v, w \in Waiter : v # w /\ mine'[v] # None => mine'[v] # mine'[w]
    BY <1>2 DEF TxnInv, Calls
  <2>3. \A w \in Waiter : Waiting(w)' => req'[w].id \in CallerIDs \/ req'[w].id <= nextSystemID'
    BY <1>1, <1>2 DEF TxnInv, Calls
  <2>4. ASSUME pc'["reader"] = "deliver", NEW w \in Waiter, Waiting(w)', mine'[w] = target'
        PROVE  req'[w].id = cur'.id
    BY <1>1, <1>2, <2>4 DEF TxnQuiet, TxnInv, Calls
  <2> QED BY <2>1, <2>2, <2>3, <2>4 DEF Calls
<1> QED BY <1>3, <1>4, <1>5 DEF TxnInv

\* A step of goroutines outside sendAndWait.
LEMMA AsideTxn ==
    ASSUME TxnInv, UNCHANGED <<nextSystemID, pending, ch, mine>>,
           \A w \in Waiter : /\ req'[w] = req[w]
                             /\ pc'[w] = pc[w] \/ {pc[w], pc'[w]} \cap {"write", "wait"} = {},
           pc'["reader"] = "deliver" => pc["reader"] = "deliver" /\ UNCHANGED <<cur, target>>
    PROVE  TxnInv'
<1>1. \A w \in Waiter : Waiting(w)' <=> Waiting(w)
  BY DEF Waiting, ExpectsReply
<1> QED BY <1>1, QuietTxn DEF TxnQuiet

\* A new call: its channel is in nobody's hands, and its system ID is new or one that
\* callers choose.
LEMMA RegisterTxn ==
    ASSUME TypeInv, TxnInv, NEW w \in Waiter, NEW t \in MsgType,
           NEW i \in CallerIDs \cup {0}, Register(w, t, i), pc[w] \notin {"write", "wait"}
    PROVE  TxnInv'
<1> USE Sets, ConstantsAssumption
<1>1. PICK n : n = SystemID(i)
  OBVIOUS
<1>2. PICK m : m = Message(t, n)
  OBVIOUS
<1>3. n \in Ids /\ n \in Nat /\ m \in Msg /\ m.id = n /\ nextSystemID \in Nat /\ nextSystemID' \in Nat
  BY <1>1, <1>2, RegisterParts DEF TypeInv, TypeOK, Ids
<1>4. n \in CallerIDs \/ (n = nextSystemID + 1 /\ nextSystemID' = n)
  BY <1>1 DEF SystemID, Register
<1>5. nextSystemID <= nextSystemID'
  BY <1>3 DEF Register
<1>6. req'[w] = m /\ \A v \in Waiter : v # w => req'[v] = req[v]
  BY <1>1, <1>2 DEF Register, TypeInv, TypeOK
<1>7. pc'[w] = "write" /\ \A v \in Waiter : v # w => pc'[v] = pc[v]
  BY TypeParts DEF Register, Goto, TypeInv, PcOK
<1>8. \A v \in Waiter : v # w => (Waiting(v)' <=> Waiting(v))
  BY <1>6, <1>7 DEF Waiting, ExpectsReply
<1>9. ~Waiting(w) /\ (Waiting(w)' <=> ExpectsReply(m))
  BY <1>6, <1>7 DEF Waiting, ExpectsReply
<1>10. UNCHANGED <<cur, target>> /\ pc'["reader"] = pc["reader"]
  BY TypeParts DEF Register, Goto, TypeInv, PcOK, rcv
<1>11. mine[w] = None
  BY <1>9 DEF TxnInv, Calls
<1>12. \A v \in Waiter : Waiting(v) => req[v].id \in Nat
  BY DEF Waiting, TypeInv, MsgInHand, OwnMsg, Msg, Ids
<1>13. CASE ~ExpectsReply(m)
  <2>1. UNCHANGED <<pending, ch, mine>>
    BY <1>1, <1>2, <1>13 DEF Register
  <2>2. \A v \in Waiter : (Waiting(v)' <=> Waiting(v)) /\ (Waiting(v) => req'[v] = req[v])
    BY <1>6, <1>8, <1>9, <1>13
  <2>3. PendingMatchesCalls'
    BY <2>1, <2>2 DEF TxnInv, PendingMatchesCalls
  <2>4. RepliesCorrelated'
    BY <2>1, <2>2 DEF TxnInv, RepliesCorrelated
  <2>5. \A v \in Waiter : Waiting(v)' => req'[v].id \in CallerIDs \/ req'[v].id <= nextSystemID'
    BY <1>3, <1>5, <1>12, <2>2 DEF TxnInv, Calls
  <2>6. Calls'
    BY <1>10, <2>1, <2>2, <2>5 DEF TxnInv, Calls
  <2> QED BY <2>3, <2>4, <2>6 DEF TxnInv
<1>14. CASE ExpectsReply(m)
  <2>1. PICK c \in FreeChannels : /\ c \in Channel
                                  /\ pending' = [pending EXCEPT ![n] = c]
                                  /\ ch' = [ch EXCEPT ![c] = NoMsg]
                                  /\ mine' = [mine EXCEPT ![w] = c]
    BY <1>1, <1>2, <1>14, RegisterParts
  <2>2. c # target /\ (\A v \in Waiter : mine[v] # c) /\ c # None
    BY <2>1 DEF FreeChannels
  <2>3. mine'[w] = c /\ \A v \in Waiter : v # w => mine'[v] = mine[v]
    BY <2>1 DEF TypeInv, TypeOK
  <2>4. pending'[n] = c /\ \A j \in Ids : j # n => pending'[j] = pending[j]
    BY <1>3, <2>1 DEF TypeInv, TypeOK
  <2>5. Waiting(w)'
    BY <1>9, <1>14
  <2>6. PendingMatchesCalls'
    <3>1. ASSUME NEW j \in Ids, pending'[j] # None
          PROVE  \E v \in Waiter : Waiting(v)' /\ req'[v].id = j /\ mine'[v] = pending'[j]
      <4>1. CASE j = n
        BY <1>3, <1>6, <2>3, <2>4, <2>5, <4>1
      <4>2. CASE j # n
        <5>1. PICK v \in Waiter : Waiting(v) /\ req[v].id = j /\ mine[v] = pending[j]
          BY <2>4, <3>1, <4>2 DEF TxnInv, PendingMatchesCalls
        <5>2. v # w
          BY <1>9, <5>1
        <5> QED BY <1>6, <1>8, <2>3, <2>4, <4>2, <5>1, <5>2
      <4> QED BY <4>1, <4>2
    <3>2. ASSUME NEW v \in Waiter, Waiting(v)', req'[v].id \notin CallerIDs
          PROVE  pending'[req'[v].id] = mine'[v]
      <4>1. CASE v = w
        BY <1>3, <1>6, <2>3, <2>4, <4>1
      <4>2. CASE v # w
        <5>1. Waiting(v) /\ req'[v] = req[v] /\ mine'[v] = mine[v]
          BY <1>6, <1>8, <2>3, <3>2, <4>2
        <5>2. req[v].id <= nextSystemID /\ req[v].id \in Nat
          BY <1>12, <3>2, <5>1 DEF TxnInv, Calls
        <5>3. req[v].id \in Ids
          BY <1>3, <5>1 DEF Waiting, TypeInv, MsgInHand, OwnMsg, Msg
        <5>4. req[v].id # n
          BY <1>3, <1>4, <3>2, <5>1, <5>2
        <5>5. pending[req[v].id] = mine[v]
          BY <3>2, <5>1 DEF TxnInv, PendingMatchesCalls
        <5> QED BY <2>4, <5>1, <5>3, <5>4, <5>5
      <4> QED BY <4>1, <4>2
    <3> QED BY <3>1, <3>2 DEF PendingMatchesCalls
  <2>7. RepliesCorrelated'
    <3> SUFFICES ASSUME NEW v \in Waiter, Waiting(v)', ch'[mine'[v]] # NoMsg
                 PROVE  ch'[mine'[v]].id = req'[v].id
      BY DEF RepliesCorrelated
    <3>1. v # w
      BY <2>1, <2>3 DEF TypeInv, TypeOK
    <3>2. Waiting(v) /\ req'[v] = req[v] /\ mine'[v] = mine[v] /\ mine[v] # c
      BY <1>6, <1>8, <2>2, <2>3, <3>1
    <3>3. mine[v] \in Channel
      BY <3>2 DEF Waiting, TypeInv, MsgInHand, HasChannel
    <3>4. ch'[mine[v]] = ch[mine[v]]
      BY <2>1, <3>2, <3>3 DEF TypeInv, TypeOK
    <3> QED BY <3>2, <3>4 DEF TxnInv, RepliesCorrelated
  <2>8. Calls'
    <3>1. \A v \in Waiter : ~Waiting(v)' => mine'[v] = None
      BY <1>8, <2>3, <2>5 DEF TxnInv, Calls
    <3>2. \A u, v \in Waiter : u # v /\ mine'[u] # None => mine'[u] # mine'[v]
      BY <2>2, <2>3 DEF TxnInv, Calls
    <3>3. ASSUME NEW v \in Waiter, Waiting(v)'
          PROVE  req'[v].id \in CallerIDs \/ req'[v].id <= nextSystemID'
      <4>1. CASE v = w
        BY <1>3, <1>4, <1>6, <4>1
      <4>2. CASE v # w
        <5>1. Waiting(v) /\ req'[v] = req[v]
          BY <1>6, <1>8, <3>3, <4>2
        <5>2. req[v].id \in Nat /\ (req[v].id \in CallerIDs \/ req[v].id <= nextSystemID)
          BY <1>12, <5>1 DEF TxnInv, Calls
        <5> QED BY <1>3, <1>5, <5>1, <5>2
      <4> QED BY <4>1, <4>2
    <3>4. ASSUME pc'["reader"] = "deliver", NEW v \in Waiter, Waiting(v)', mine'[v] = target'
          PROVE  req'[v].id = cur'.id
      <4>1. v # w
        BY <1>10, <2>2, <2>3, <3>4
      <4> QED BY <1>6, <1>8, <1>10, <2>3, <3>4, <4>1 DEF TxnInv, Calls
    <3> QED BY <3>1, <3>2, <3>3, <3>4 DEF Calls
  <2> QED BY <2>6, <2>7, <2>8 DEF TxnInv
<1> QED BY <1>13, <1>14

\* The return of sendAndWait.  The entry it deletes is its own, unless callers choose
\* the system ID.
LEMMA DeleteTxn ==
    ASSUME TypeInv, TxnInv, NEW w \in Waiter, Waiting(w), DeletePending(w),
           UNCHANGED <<nextSystemID, ch, cur, target>>,
           NEW l, l \notin {"write", "wait"}, Goto(w, l)
    PROVE  TxnInv'
<1> USE Sets, ConstantsAssumption
<1>1. pc'[w] = l /\ pc'["reader"] = pc["reader"] /\ \A v \in Waiter : v # w => pc'[v] = pc[v]
  BY TypeParts DEF Goto, TypeInv, PcOK
<1>2. mine'[w] = None /\ \A v \in Waiter : v # w => req'[v] = req[v] /\ mine'[v] = mine[v]
  BY DEF DeletePending, TypeInv, TypeOK
<1>3. ~Waiting(w)' /\ \A v \in Waiter : v # w => (Waiting(v)' <=> Waiting(v))
  BY <1>1, <1>2 DEF Waiting, ExpectsReply
<1>4. \A v \in Waiter : Waiting(v) => req[v].id \in Ids /\ mine[v] \in Channel
  BY DEF Waiting, TypeInv, MsgInHand, HasChannel, OwnMsg, Msg
<1>5. /\ pending'[req[w].id] = None
      /\ \A j \in Ids : j # req[w].id => pending'[j] = pending[j]
  BY <1>4 DEF DeletePending, TypeInv, TypeOK
<1>6. PendingMatchesCalls'
  <2>1. ASSUME NEW j \in Ids, pending'[j] # None
        PROVE  \E v \in Waiter : Waiting(v)' /\ req'[v].id = j /\ mine'[v] = pending'[j]
    <3>1. j # req[w].id /\ pending'[j] = pending[j]
      BY <1>5, <2>1
    <3>2. PICK v \in Waiter : Waiting(v) /\ req[v].id = j /\ mine[v] = pending[j]
      BY <2>1, <3>1 DEF TxnInv, PendingMatchesCalls
    <3> QED BY <1>2, <1>3, <3>1, <3>2
  <2>2. ASSUME NEW v \in Waiter, Waiting(v)', req'[v].id \notin CallerIDs
        PROVE  pending'[req'[v].id] = mine'[v]
    <3>1. v # w /\ Waiting(v) /\ req'[v] = req[v] /\ mine'[v] = mine[v]
      BY <1>2, <1>3, <2>2
    <3>2. pending[req[v].id] = mine[v]
      BY <2>2, <3>1 DEF TxnInv, PendingMatchesCalls
    <3>3. req[v].id # req[w].id
      <4>1. ASSUME req[v].id = req[w].id PROVE FALSE
        <5>1. pending[req[w].id] = mine[w]
          BY <2>2, <3>1, <4>1 DEF TxnInv, PendingMatchesCalls
        <5>2. mine[v] = mine[w] /\ mine[v] # None
          BY <1>4, <3>1, <3>2, <4>1, <5>1
        <5> QED BY <3>1, <5>2 DEF TxnInv, Calls
      <4> QED BY <4>1
    <3> QED BY <1>4, <1>5, <3>1, <3>2, <3>3
  <2> QED BY <2>1, <2>2 DEF PendingMatchesCalls
<1>7. RepliesCorrelated'
  BY <1>2, <1>3 DEF TxnInv, RepliesCorrelated
<1>8. Calls'
  <2>1. \A v \in Waiter : ~Waiting(v)' => mine'[v] = None
    BY <1>2, <1>3 DEF TxnInv, Calls
  <2>2. \A u, v \in Waiter : u # v /\ mine'[u] # None => mine'[u] # mine'[v]
    BY <1>2 DEF TxnInv, Calls
  <2>3. \A v \in Waiter : Waiting(v)' => req'[v].id \in CallerIDs \/ req'[v].id <= nextSystemID'
    BY <1>2, <1>3 DEF TxnInv, Calls
  <2>4. ASSUME pc'["reader"] = "deliver", NEW v \in Waiter, Waiting(v)', mine'[v] = target'
        PROVE  req'[v].id = cur'.id
    <3>1. v # w /\ Waiting(v) /\ req'[v] = req[v] /\ mine[v] = target /\ pc["reader"] = "deliver"
      BY <1>1, <1>2, <1>3, <2>4
    <3> QED BY <3>1 DEF TxnInv, Calls
  <2> QED BY <2>1, <2>2, <2>3, <2>4 DEF Calls
<1> QED BY <1>6, <1>7, <1>8 DEF TxnInv

\* TxnInv is inductive, action by action.
LEMMA TxnStep ==
    ASSUME TypeInv, Boot, TxnInv, [Next]_vars
    PROVE  TxnInv'
<1> USE Sets, Labels, ConstantsAssumption
<1>0. PcOK
  BY TypeParts DEF TypeInv
<1>g. \A p \in Proc : \A l : Goto(p, l) => pc'[p] = l /\ \A q \in Proc : q # p => pc'[q] = pc[q]
  BY <1>0 DEF PcOK, Goto
<1>1. CASE Connect \/ DialOk \/ ConnectFails \/ DialStore \/ SelectRefused \/ SelectStore
  <2>1. /\ pc["user"] \notin {"write", "wait"}
        /\ \E l : Goto("user", l) /\ l \notin {"write", "wait"}
    BY <1>1 DEF Connect, DialOk, ConnectFails, DialStore, SelectRefused, SelectStore, Step
  <2>2. UNCHANGED <<nextSystemID, pending, ch, mine, req, cur, target>>
    BY <1>1 DEF Connect, DialOk, ConnectFails, DialStore, SelectRefused, SelectStore, txn, rcv
  <2> QED BY <1>g, <2>1, <2>2, AsideTxn
<1>2. CASE ListenOk
  <2>1. pc'["reader"] = pc["reader"] /\ \A w \in Waiter : w # "user" => pc'[w] = pc[w]
    BY <1>0, <1>2 DEF ListenOk, PcOK
  <2>2. pc["user"] = "connecting" /\ pc'["user"] = "stop"
    BY <1>0, <1>2 DEF ListenOk, PcOK
  <2>3. UNCHANGED <<nextSystemID, pending, ch, mine, req, cur, target>>
    BY <1>2 DEF ListenOk, txn, rcv
  <2> QED BY <2>1, <2>2, <2>3, AsideTxn
<1>3. CASE ActiveStartLoops \/ PassiveStartLoops
  <2>1. PICK p \in {"user", "acceptor"}, l \in {"connected", "exit"}, ttl \in {"off", "armed", "exit"} :
          StartLoops(p, l, ttl)
    BY <1>3 DEF ActiveStartLoops, PassiveStartLoops
  <2>2. pc[p] = "loops" /\ UNCHANGED <<nextSystemID, pending, ch, mine, req>>
    BY <2>1 DEF StartLoops, txn
  <2>3. pc["linktest"] = "off"
    BY <2>2 DEF Boot
  <2>4. pc'["linktest"] \in {"idle", "exit"} /\ pc'[p] = l /\ pc'["reader"] = "loop"
    BY <1>0, <2>1 DEF StartLoops, PcOK
  <2>5. \A w \in Waiter : w \notin {p, "linktest"} => pc'[w] = pc[w]
    BY <1>0, <2>1 DEF StartLoops, PcOK
  <2> QED BY <2>2, <2>3, <2>4, <2>5, AsideTxn
<1>4. CASE Select
  BY <1>4, RegisterTxn DEF Select, MsgType
<1>5. CASE LinktestTick
  BY <1>5, RegisterTxn DEF LinktestTick, MsgType
<1>6. CASE SendMessages
  BY <1>6, RegisterTxn DEF SendMessages, SendMessage
<1>7. ASSUME NEW c \in Callers, Send(c) PROVE TxnInv'
  <2>1. /\ UNCHANGED <<nextSystemID, pending, ch, mine, cur, target>>
        /\ req'[c] = Message("Event", 0)
        /\ \A v \in Waiter : v # c => req'[v] = req[v]
    BY <1>7 DEF Send, TypeInv, TypeOK, rcv
  <2>2. /\ pc[c] = "idle" /\ pc'[c] = "write" /\ pc'["reader"] = pc["reader"]
        /\ \A v \in Waiter : v # c => pc'[v] = pc[v]
    BY <1>7, <1>g DEF Send, Step
  <2>3. ~ExpectsReply(req'[c])
    BY <2>1 DEF ExpectsReply, Message
  <2>4. \A v \in Waiter : Waiting(v)' <=> Waiting(v)
    BY <2>1, <2>2, <2>3 DEF Waiting, ExpectsReply
  <2>5. ~Waiting(c)
    BY <2>2 DEF Waiting
  <2> QED BY <2>1, <2>2, <2>4, <2>5, QuietTxn DEF TxnQuiet
<1>8. ASSUME NEW w \in Sender, SendWrite(w) PROVE TxnInv'
  <2>1. /\ UNCHANGED <<nextSystemID, pending, ch, mine, cur, target>>
        /\ \A v \in Waiter : v # w => req'[v] = req[v]
    BY <1>8 DEF SendWrite, TypeInv, TypeOK, rcv
  <2>2. pc'["reader"] = pc["reader"] /\ \A v \in Waiter : v # w => pc'[v] = pc[v]
    BY <1>8, <1>g DEF SendWrite
  <2>3. CASE w \notin Waiter
    BY <2>1, <2>2, <2>3, AsideTxn
  <2>4. CASE w \in Waiter /\ ExpectsReply(req[w])
    <3>1. req'[w] = req[w] /\ pc[w] = "write" /\ pc'[w] = "wait"
      BY <1>8, <1>g, <2>4 DEF SendWrite
    <3>2. \A v \in Waiter : req'[v] = req[v] /\ (Waiting(v)' <=> Waiting(v))
      BY <2>1, <2>2, <3>1 DEF Waiting, ExpectsReply
    <3> QED BY <2>1, <2>2, <3>2, QuietTxn DEF TxnQuiet
  <2>5. CASE w \in Waiter /\ ~ExpectsReply(req[w])
    <3>1. pc'[w] = "idle" /\ ~Waiting(w) /\ ~Waiting(w)'
      BY <1>8, <1>g, <2>5 DEF SendWrite, Waiting
    <3>2. \A v \in Waiter : v # w => (Waiting(v)' <=> Waiting(v))
      BY <2>1, <2>2 DEF Waiting, ExpectsReply
    <3> QED BY <2>1, <2>2, <3>1, <3>2, QuietTxn DEF TxnQuiet
  <2> QED BY <2>3, <2>4, <2>5
<1>9. ASSUME NEW w \in Sender, SendWriteFails(w) PROVE TxnInv'
  <2>1. PICK l : Goto(w, l) /\ l \notin {"write", "wait"}
    BY <1>9 DEF SendWriteFails, SendFailed
  <2>2. CASE ExpectsReply(req[w])
    <3>1. w \in Waiter
      BY <1>9, <2>2 DEF SendWriteFails, TypeInv, MsgInHand, OwnMsg, OwnTypes, ExpectsReply, Sender
    <3>2. Waiting(w) /\ DeletePending(w) /\ UNCHANGED <<nextSystemID, ch, cur, target>>
      BY <1>9, <2>2 DEF SendWriteFails, Waiting, rcv
    <3> QED BY <2>1, <3>1, <3>2, DeleteTxn
  <2>3. CASE ~ExpectsReply(req[w])
    <3>1. /\ UNCHANGED <<nextSystemID, pending, ch, mine, cur, target>>
          /\ \A v \in Waiter : v # w => req'[v] = req[v]
      BY <1>9, <2>3 DEF SendWriteFails, TypeInv, TypeOK, rcv
    <3>2. /\ pc'[w] \notin {"write", "wait"} /\ pc'["reader"] = pc["reader"]
          /\ \A v \in Waiter : v # w => pc'[v] = pc[v]
      BY <1>g, <2>1
    <3>3. ~Waiting(w) /\ ~Waiting(w)' /\ \A v \in Waiter : v # w => (Waiting(v)' <=> Waiting(v))
      BY <2>3, <3>1, <3>2 DEF Waiting, ExpectsReply
    <3> QED BY <3>1, <3>2, <3>3, QuietTxn DEF TxnQuiet
  <2> QED BY <2>2, <2>3
<1>10. ASSUME NEW w \in Waiter, WaiterStep(w) PROVE TxnInv'
  <2>1. Waiting(w)
    BY <1>10 DEF WaiterStep, ReplyArrives, WaitTimeout, Waiting, TypeInv, MsgInHand, HasChannel
  <2>2. DeletePending(w) /\ UNCHANGED <<nextSystemID, ch, cur, target>>
    BY <1>10 DEF WaiterStep, ReplyArrives, WaitTimeout, rcv
  <2>3. \E l : Goto(w, l) /\ l \notin {"write", "wait"}
    BY <1>10 DEF WaiterStep, ReplyArrives, WaitTimeout, SendFailed
  <2> QED BY <2>1, <2>2, <2>3, DeleteTxn
<1>11. CASE HandleMessage
  <2>1. UNCHANGED <<nextSystemID, pending, ch, mine, req>> /\ \A v \in Waiter : pc'[v] = pc[v]
    BY <1>11, <1>g DEF HandleMessage
  <2>2. \A v \in Waiter : Waiting(v)' <=> Waiting(v)
    BY <2>1 DEF Waiting, ExpectsReply
  <2>3. cur \in Msg /\ cur.id \in Ids /\ target' = pending[cur.id]
    BY <1>11 DEF HandleMessage, TypeInv, MsgInHand, Busy, Msg
  <2>4. pc'["reader"] = "deliver" => target' # None /\ cur' = cur
    <3>1. Dispatch(cur) # "deliver"
      BY DEF Dispatch
    <3> QED BY <1>11, <1>g, <3>1 DEF HandleMessage
  <2>5. PendingMatchesCalls'
    BY <2>1, <2>2 DEF TxnInv, PendingMatchesCalls
  <2>6. RepliesCorrelated'
    BY <2>1, <2>2 DEF TxnInv, RepliesCorrelated
  <2>7. ASSUME pc'["reader"] = "deliver", NEW v \in Waiter, Waiting(v)', mine'[v] = target'
        PROVE  req'[v].id = cur'.id
    <3>1. PICK w \in Waiter : Waiting(w) /\ req[w].id = cur.id /\ mine[w] = target'
      BY <2>3, <2>4, <2>7 DEF TxnInv, PendingMatchesCalls
    <3>2. v = w
      BY <2>1, <2>4, <2>7, <3>1 DEF TxnInv, Calls
    <3> QED BY <2>1, <2>4, <2>7, <3>1, <3>2
  <2>8. Calls'
    BY <2>1, <2>2, <2>7 DEF TxnInv, Calls
  <2> QED BY <2>5, <2>6, <2>8 DEF TxnInv
<1>21. CASE Deliver
  <2>1. UNCHANGED <<nextSystemID, pending, mine, req>> /\ \A v \in Waiter : pc'[v] = pc[v]
    BY <1>21, <1>g DEF Deliver, Step
  <2>2. \A v \in Waiter : Waiting(v)' <=> Waiting(v)
    BY <2>1 DEF Waiting, ExpectsReply
  <2>3. pc["reader"] = "deliver" /\ pc'["reader"] = "loop" /\ target \in Channel
    BY <1>21, <1>g DEF Deliver, Step, TypeInv, MsgInHand
  <2>4. \A c \in Channel : ch'[c] # ch[c] => c = target /\ ch'[c] = cur
    BY <1>21, <2>3 DEF Deliver, TypeInv, TypeOK
  <2>5. PendingMatchesCalls'
    BY <2>1, <2>2 DEF TxnInv, PendingMatchesCalls
  <2>6. RepliesCorrelated'
    <3> SUFFICES ASSUME NEW v \in Waiter, Waiting(v), ch'[mine[v]] # NoMsg
                 PROVE  ch'[mine[v]].id = req[v].id
      BY <2>1, <2>2 DEF RepliesCorrelated
    <3>1. mine[v] \in Channel
      BY DEF Waiting, TypeInv, MsgInHand, HasChannel
    <3>2. CASE ch'[mine[v]] = ch[mine[v]]
      BY <3>2 DEF TxnInv, RepliesCorrelated
    <3>3. CASE ch'[mine[v]] # ch[mine[v]]
      BY <2>3, <2>4, <3>1, <3>3 DEF TxnInv, Calls
    <3> QED BY <3>2, <3>3
  <2>7. Calls'
    BY <2>1, <2>2, <2>3 DEF TxnInv, Calls
  <2> QED BY <2>5, <2>6, <2>7 DEF TxnInv
<1>12. CASE ReaderStep /\ ~HandleMessage /\ ~Deliver
  <2>1. UNCHANGED <<nextSystemID, pending, ch, mine, req>>
    BY <1>12 DEF ReaderStep, ReadMessage, ReadLoopExits, PushInbound, RejectNotSelected,
       HandleLinktestReq, HandleSelectReq, HandleDeselectReq, Respond, ReaderStore, txn
  <2>2. pc["reader"] # "deliver"
    BY <1>12 DEF ReaderStep, ReadMessage, ReadLoopExits, PushInbound, RejectNotSelected,
       HandleLinktestReq, HandleSelectReq, HandleDeselectReq, ReaderStore, Step
  <2>3. UNCHANGED pc \/ \E l : Goto("reader", l) /\ l # "deliver"
    BY <1>12 DEF ReaderStep, ReadMessage, ReadLoopExits, PushInbound, RejectNotSelected,
       HandleLinktestReq, HandleSelectReq, HandleDeselectReq, Respond, ReaderStore, Step
  <2>4. pc'["reader"] # "deliver" /\ \A v \in Waiter : pc'[v] = pc[v]
    BY <1>g, <2>2, <2>3
  <2> QED BY <2>1, <2>4, AsideTxn
<1>13. CASE Accept \/ AcceptFails \/ AcceptSetConn \/ AcceptStore
  <2>1. UNCHANGED pc \/ \E l : Goto("acceptor", l)
    BY <1>13 DEF Accept, AcceptFails, AcceptSetConn, AcceptStore, Step
  <2>2. UNCHANGED <<nextSystemID, pending, ch, mine, req, cur, target>>
    BY <1>13 DEF Accept, AcceptFails, AcceptSetConn, AcceptStore, txn, rcv
  <2>3. pc'["reader"] = pc["reader"] /\ \A v \in Waiter : pc'[v] = pc[v]
    BY <1>g, <2>1
  <2> QED BY <2>2, <2>3, AsideTxn
<1>14. CASE AppStep
  <2>1. UNCHANGED pc \/ \E l : Goto("app", l)
    BY <1>14 DEF AppStep, ReceiveMessage, SendReply
  <2>2. /\ UNCHANGED <<nextSystemID, pending, ch, mine, cur, target>>
        /\ \A v \in Waiter : req'[v] = req[v]
    BY <1>14 DEF AppStep, ReceiveMessage, SendReply, TypeInv, TypeOK, rcv
  <2>3. pc'["reader"] = pc["reader"] /\ \A v \in Waiter : pc'[v] = pc[v]
    BY <1>g, <2>1
  <2> QED BY <2>2, <2>3, AsideTxn
<1>15. CASE T7Expires \/ T7Stops \/ TTLExpires \/ LinktestStops \/ CallClose
  <2>1. \E p \in {"t7", "ttl", "closer", "linktest"}, l \in {"cas", "exit"} :
          Goto(p, l) /\ (p = "linktest" => pc[p] = "idle")
    BY <1>15 DEF T7Expires, T7Stops, TTLExpires, LinktestStops, CallClose, Step
  <2>2. UNCHANGED <<nextSystemID, pending, ch, mine, req, cur, target>>
    BY <1>15 DEF T7Expires, T7Stops, TTLExpires, LinktestStops, CallClose, txn, rcv
  <2>3. /\ pc'["reader"] = pc["reader"]
        /\ \A v \in Waiter : pc'[v] = pc[v] \/ {pc[v], pc'[v]} \cap {"write", "wait"} = {}
    BY <1>g, <2>1
  <2> QED BY <2>2, <2>3, AsideTxn
<1>16. ASSUME NEW p \in Closers, CloseStep(p) PROVE TxnInv'
  <2>1. \E l : /\ Goto(p, l) /\ l \notin {"write", "wait", "deliver"}
               /\ pc[p] \notin {"write", "wait", "deliver"}
    BY <1>16 DEF CloseStep, CloseCAS, CloseCancel, CloseConn, CloseListener, CloseStore,
       CloseDone, CloseReturns, AfterClose, Step
  <2>2. UNCHANGED <<nextSystemID, pending, ch, mine, req, target>>
    BY <1>16 DEF CloseStep, CloseCAS, CloseCancel, CloseConn, CloseListener, CloseStore,
       CloseDone, txn
  <2>3. \A v \in Waiter : pc'[v] = pc[v] \/ {pc[v], pc'[v]} \cap {"write", "wait"} = {}
    BY <1>g, <2>1
  <2>4. pc'["reader"] = "deliver" => pc["reader"] = "deliver" /\ cur' = cur
    <3>1. CASE p = "reader"
      BY <1>g, <2>1, <3>1
    <3>2. CASE p # "reader"
      <4>1. cur' = cur
        BY <1>16, <3>2 DEF CloseStep, CloseCAS, CloseCancel, CloseConn, CloseListener, CloseStore,
           CloseDone, CloseReturns, rcv
      <4> QED BY <1>g, <2>1, <3>2, <4>1
    <3> QED BY <3>1, <3>2
  <2> QED BY <2>2, <2>3, <2>4, AsideTxn
<1>17. CASE Peer \/ UNCHANGED vars
  <2>1. UNCHANGED <<nextSystemID, pending, ch, mine, req, pc, cur, target>>
    BY <1>17 DEF Peer, PeerDials, PeerSends, PeerReads, PeerCloses, vars, sess, txn, rcv
  <2> QED BY <2>1, AsideTxn
<1>18. CASE UserStep \/ AcceptorStep \/ TimerStep
  BY <1>1, <1>2, <1>3, <1>4, <1>5, <1>13, <1>15, <1>18 DEF UserStep, AcceptorStep, TimerStep
<1>19. CASE ReaderStep
  BY <1>11, <1>12, <1>19, <1>21
<1>20. CASE Local
  BY <1>1, <1>6, <1>7, <1>8, <1>9, <1>10, <1>14, <1>15, <1>16, <1>18, <1>19, <1>20
     DEF Local, SenderStep, CallerStep, SendMessages
<1> QED BY <1>17, <1>20 DEF Next

\* A session fresh from NewSession has no transaction under way.
LEMMA TxnInit == Init => TxnInv
<1> SUFFICES ASSUME Init PROVE TxnInv
    OBVIOUS
<1>1. \A w \in Waiter : pc[w] \notin {"write", "wait"}
  BY Sets DEF Init, LocalInit
<1>2. \A w \in Waiter : ~Waiting(w) /\ mine[w] = None
  BY <1>1 DEF Init, LocalInit, Waiting
<1>3. \A i \in Ids : pending[i] = None
  BY DEF Init, LocalInit
<1> QED BY <1>2, <1>3 DEF TxnInv, PendingMatchesCalls, RepliesCorrelated, Calls

\* The three parts of TxnInv hold together in every reachable state.
LEMMA Transactions == Spec => []TxnInv
<1>1. TypeInv /\ Boot /\ TxnInv /\ [Next]_vars => TypeInv' /\ Boot' /\ TxnInv'
  BY NextType, BootStep, TxnStep
<1> QED BY <1>1, InitType, BootInit, TxnInit, PTL DEF Spec

\* Every entry of the pending map is that of a call under way with that system ID,
\* and a call keeps its entry unless callers choose its system ID themselves: for any
\* number of callers, whichever of them time out, are cancelled or fail to write
\* while the read loop looks the map up.
THEOREM PendingExact == Spec => []PendingMatchesCalls
<1>1. TxnInv => PendingMatchesCalls
  BY DEF TxnInv
<1> QED BY <1>1, Transactions, PTL

\* A call is never given a message with another system ID than its own, although the
\* reader delivers in a later step than it looks the channel up, and although callers
\* may choose the same system ID.
THEOREM RepliesCorrelate == Spec => []RepliesCorrelated
<1>1. TxnInv => RepliesCorrelated
  BY DEF TxnInv
<1> QED BY <1>1, Transactions, PTL

(* Delivery. *)

\* Between the check of the state and the send on inbound, only Close can intervene.
Checked == pc["reader"] = "push" => state = "Selected" \/ closed

\* Checked is inductive: while the reader is between the check and the send,
\* only Close changes the state.
LEMMA CheckedStep ==
    ASSUME TypeInv, Boot, CloseRunsOnce, Checked, [Next]_vars
    PROVE  Checked'
<1> USE Sets, Labels, ConstantsAssumption
<1>0. PcOK
  BY TypeParts DEF TypeInv
<1>g. \A p \in Proc : \A l : Goto(p, l) => pc'[p] = l /\ \A q \in Proc : q # p => pc'[q] = pc[q]
  BY <1>0 DEF PcOK, Goto
<1>1. CASE Connect \/ DialOk \/ ConnectFails \/ DialStore \/ ListenOk
  <2>1. pc["reader"] = "off" /\ pc'["reader"] = "off"
    <3>1. pc["user"] \in {"start", "connecting", "dialed"}
      BY <1>1 DEF Connect, DialOk, ConnectFails, DialStore, ListenOk, Step
    <3>2. pc["reader"] = "off"
      BY <3>1 DEF Boot
    <3>3. pc'["reader"] = pc["reader"]
      BY <1>0, <1>1, <1>g DEF Connect, DialOk, ConnectFails, DialStore, ListenOk, Step, PcOK
    <3> QED BY <3>2, <3>3
  <2> QED BY <2>1 DEF Checked
<1>2. CASE SelectStore
  <2>1. pc'["reader"] = pc["reader"] /\ (state' = "Selected" \/ state' = state) /\ closed' = closed
    BY <1>2, <1>g DEF SelectStore, Step
  <2> QED BY <2>1 DEF Checked
<1>3. CASE ActiveStartLoops \/ PassiveStartLoops
  <2>1. pc'["reader"] = "loop"
    BY <1>0, <1>3 DEF ActiveStartLoops, PassiveStartLoops, StartLoops, PcOK
  <2> QED BY <2>1 DEF Checked
<1>4. CASE Accept \/ AcceptFails \/ AcceptSetConn \/ AcceptStore
  <2>1. pc["acceptor"] \in {"accept", "accepted", "store"}
    BY <1>4 DEF Accept, AcceptFails, AcceptSetConn, AcceptStore, Step
  <2>2. pc["reader"] = "off"
    BY <2>1 DEF Boot
  <2>3. pc'["reader"] = pc["reader"]
    BY <1>4, <1>g DEF Accept, AcceptFails, AcceptSetConn, AcceptStore, Step
  <2> QED BY <2>2, <2>3 DEF Checked
<1>5. CASE ReadMessage
  <2>1. pc'["reader"] # "push"
    BY <1>5, <1>g DEF ReadMessage
  <2> QED BY <2>1 DEF Checked
<1>6. CASE ReadLoopExits \/ Deliver \/ PushInbound \/ ReaderStore
  <2>1. pc'["reader"] # "push"
    BY <1>6, <1>g DEF ReadLoopExits, Deliver, PushInbound, ReaderStore, Step
  <2> QED BY <2>1 DEF Checked
<1>7. CASE RejectNotSelected \/ HandleLinktestReq \/ HandleSelectReq \/ HandleDeselectReq
  <2>1. pc'["reader"] # "push"
    BY <1>7, <1>g DEF RejectNotSelected, HandleLinktestReq, HandleSelectReq, HandleDeselectReq,
       Respond
  <2> QED BY <2>1 DEF Checked
<1>8. CASE HandleMessage
  <2>1. Dispatch(cur) = "push" => state = "Selected"
    BY DEF Dispatch
  <2>2. pc'["reader"] \in {"deliver", Dispatch(cur)} /\ state' = state
    BY <1>8, <1>g DEF HandleMessage, life
  <2> QED BY <2>1, <2>2 DEF Checked
<1>9. CASE \/ SelectRefused \/ Select \/ AppStep \/ TimerStep \/ CallClose
           \/ \E w \in Sender : SenderStep(w)
           \/ \E w \in Waiter : WaiterStep(w)
           \/ CallerStep
  <2>1. state' = state /\ closed' = closed
    BY <1>9 DEF SelectRefused, Select, AppStep, ReceiveMessage, SendReply, TimerStep, T7Expires,
       T7Stops, TTLExpires, LinktestTick, LinktestStops, CallClose, SenderStep, SendWrite,
       SendWriteFails, WaiterStep, ReplyArrives, WaitTimeout, CallerStep, Send, SendMessage, Register, life
  <2>2. pc'["reader"] = pc["reader"]
    <3>1. \/ UNCHANGED pc
          \/ \E p \in Sender \cup {"t7", "ttl", "closer"} : \E l : Goto(p, l)
      BY <1>9 DEF SelectRefused, Select, AppStep, ReceiveMessage, SendReply, TimerStep, T7Expires,
         T7Stops, TTLExpires, LinktestTick, LinktestStops, CallClose, SenderStep, SendWrite,
         SendWriteFails, WaiterStep, ReplyArrives, WaitTimeout, CallerStep, Send, SendMessage, Register,
         SendFailed, Step
    <3> QED BY <1>g, <3>1
  <2> QED BY <2>1, <2>2 DEF Checked
<1>10. ASSUME NEW p \in Closers, CloseStep(p) PROVE Checked'
  <2>1. CASE CloseCAS(p)
    <3>1. closed' = TRUE
      BY <2>1 DEF CloseCAS
    <3> QED BY <3>1 DEF Checked
  <2>2. CASE ~CloseCAS(p)
    <3>1. pc[p] \in ClosePc /\ closed' = closed
      BY <1>10, <2>2 DEF CloseStep, CloseCancel, CloseConn, CloseListener, CloseStore, CloseDone,
         Step, ClosePc, life
    <3> QED BY <3>1 DEF CloseRunsOnce, Checked
  <2> QED BY <2>1, <2>2
<1>11. CASE Peer \/ UNCHANGED vars
  BY <1>11 DEF Peer, PeerDials, PeerSends, PeerReads, PeerCloses, vars, sess, life, Checked
<1> QED
  BY <1>1, <1>2, <1>3, <1>4, <1>5, <1>6, <1>7, <1>8, <1>9, <1>10, <1>11
     DEF Next, Local, UserStep, AcceptorStep, ReaderStep

\* Only PushInbound makes inbound longer.
LEMMA OnlyPushQueues ==
    ASSUME TypeInv, Next, Len(inbound') > Len(inbound)
    PROVE  PushInbound
<1>1. CASE inbound' = inbound
  BY <1>1, LenProperties DEF TypeInv, TypeOK
<1>2. CASE ReceiveMessage
  <2>1. inbound \in Seq(Msg) /\ inbound # <<>> /\ inbound' = Tail(inbound)
    BY <1>2 DEF ReceiveMessage, TypeInv, TypeOK
  <2>2. Len(inbound') = Len(inbound) - 1 /\ Len(inbound) \in Nat
    BY <2>1, HeadTailProperties, LenProperties
  <2> QED BY <2>2
<1>3. CASE ~PushInbound /\ ~ReceiveMessage
  <2>1. Next => inbound' = inbound
    <3>1. CASE Connect \/ UserStep \/ AcceptorStep
      BY <3>1 DEF UserStep, AcceptorStep, Connect, DialOk, ConnectFails, DialStore, ListenOk,
         ActiveStartLoops, StartLoops, SelectRefused, Select, Register, SelectStore, Accept,
         AcceptFails, AcceptSetConn, AcceptStore, PassiveStartLoops, rcv
    <3>2. CASE ReaderStep
      BY <1>3, <3>2 DEF ReaderStep, ReadMessage, ReadLoopExits, HandleMessage, Deliver, RejectNotSelected,
         HandleLinktestReq, HandleSelectReq, HandleDeselectReq, Respond, ReaderStore, rcv
    <3>3. CASE \/ \E w \in Sender : SenderStep(w)
               \/ \E w \in Waiter : WaiterStep(w)
               \/ CallerStep
      BY <3>3 DEF SenderStep, SendWrite, SendWriteFails, WaiterStep, ReplyArrives, WaitTimeout,
         CallerStep, Send, SendMessage, Register, rcv
    <3>4. CASE AppStep \/ TimerStep \/ CallClose
      BY <1>3, <3>4 DEF AppStep, SendReply, TimerStep, T7Expires, T7Stops, TTLExpires,
         LinktestTick, LinktestStops, Register, CallClose, rcv
    <3>5. CASE \E p \in Closers : CloseStep(p)
      BY <3>5 DEF CloseStep, CloseCAS, CloseCancel, CloseConn, CloseListener, CloseStore,
         CloseDone, rcv
    <3>6. CASE Peer
      BY <3>6 DEF Peer, PeerDials, PeerSends, PeerReads, PeerCloses, sess, rcv
    <3> QED BY <3>1, <3>2, <3>3, <3>4, <3>5, <3>6 DEF Next, Local
  <2> QED BY <1>1, <2>1
<1> QED BY <1>2, <1>3

\* A message that is queued for the application was checked against the state, and
\* the state is still Selected when it is queued, unless Close has begun: no
\* Deselect, Connect or accept can come between handleMessage's check and its send.
THEOREM QueuedSelected == Spec => QueuedOnlyWhenSelected
<1>1. Init => Boot /\ CloseRunsOnce /\ Checked
  <2> SUFFICES ASSUME Init PROVE Boot /\ CloseRunsOnce /\ Checked
    OBVIOUS
  <2>1. Boot
    BY BootInit
  <2>3. CloseRunsOnce
    BY CloseOnceInit
  <2>4. pc["reader"] # "push"
    BY Sets, ConstantsAssumption DEF Init, LocalInit, Fixed
  <2> QED BY <2>1, <2>3, <2>4 DEF Checked
<1>2. TypeInv /\ Boot /\ CloseRunsOnce /\ Checked /\ [Next]_vars
        => Boot' /\ CloseRunsOnce' /\ Checked'
  BY BootStep, CloseOnceStep, CheckedStep
<1>3. TypeInv /\ Checked /\ [Next]_vars
        => [Len(inbound') > Len(inbound) => state = "Selected" \/ closed]_vars
  <2> SUFFICES ASSUME TypeInv, Checked, Next, Len(inbound') > Len(inbound)
               PROVE  state = "Selected" \/ closed
    BY DEF vars
  <2> QED BY OnlyPushQueues DEF PushInbound, Step, Checked
<1> QED BY <1>1, <1>2, <1>3, InitType, NextType, PTL DEF Spec, QueuedOnlyWhenSelected

(* What Close leaves behind. *)

\* What Connect and acceptAndRun have set up at each place: the connection is
\* there from setConn on, the run context from startLoops on.  An application
\* that calls Close only once the loops run has not called it before.
SetUp ==
    /\ \/ pc["user"] \in {"dialed", "loops"}
       \/ pc["acceptor"] \in {"store", "loops"}
       \/ pc["reader"] # "off"
       => conn # "nil"
    /\ pc["reader"] # "off" => cancel # "nil"
    /\ CloseFrom # "new" /\ pc["reader"] = "off" => pc["closer"] = "start" /\ done = 0

\* A goroutine that takes no part in setting up moves, after it has started.
LEMMA GotoSetUp ==
    ASSUME TypeInv, SetUp, NEW p \in Proc, NEW l, Goto(p, l), UNCHANGED <<conn, cancel, done>>,
           p \notin {"user", "acceptor", "closer"}, l # "off", pc[p] # "off"
    PROVE  SetUp'
<1>1. pc'[p] = l /\ \A q \in Proc : q # p => pc'[q] = pc[q]
  BY TypeParts DEF TypeInv, PcOK, Goto
<1>2. pc'["reader"] = "off" <=> pc["reader"] = "off"
  BY <1>1, Sets
<1>3. \A q \in {"user", "acceptor", "closer"} : pc'[q] = pc[q]
  BY <1>1, Sets
<1> QED BY <1>2, <1>3 DEF SetUp

\* The steps of setting up store each handle before the place that needs it; no
\* other step makes a handle nil again.
LEMMA SetUpStep ==
    ASSUME TypeInv, Boot, SetUp, [Next]_vars
    PROVE  SetUp'
<1> USE Sets, Labels, ConstantsAssumption
<1>0. PcOK
  BY TypeParts DEF TypeInv
<1>g. \A p \in Proc : \A l : Goto(p, l) => pc'[p] = l /\ \A q \in Proc : q # p => pc'[q] = pc[q]
  BY <1>0 DEF PcOK, Goto
<1>1. CASE Connect \/ ConnectFails \/ SelectRefused \/ SelectStore
  <2>1. \E l \in {"connecting", "start", "stop"} : Goto("user", l)
    BY <1>1 DEF Connect, ConnectFails, SelectRefused, SelectStore, Step
  <2>2. UNCHANGED <<conn, cancel, done>>
    BY <1>1 DEF Connect, ConnectFails, SelectRefused, SelectStore, handles, life
  <2> QED BY <1>g, <2>1, <2>2 DEF SetUp
<1>2. CASE DialOk \/ DialStore
  <2>1. pc["user"] \in {"connecting", "dialed"} /\ UNCHANGED <<cancel, done>> /\ conn' # "nil"
    BY <1>2 DEF DialOk, DialStore, Step, SetUp, handles, life
  <2>2. \E l : Goto("user", l)
    BY <1>2 DEF DialOk, DialStore, Step
  <2> QED BY <1>g, <2>1, <2>2 DEF SetUp
<1>3. CASE ListenOk
  BY <1>0, <1>3 DEF ListenOk, PcOK, SetUp, life
<1>4. CASE ActiveStartLoops \/ PassiveStartLoops
  <2>1. /\ pc["user"] = "loops" \/ pc["acceptor"] = "loops"
        /\ cancel' = "set" /\ conn' = conn /\ pc'["reader"] = "loop"
    BY <1>0, <1>4 DEF ActiveStartLoops, PassiveStartLoops, StartLoops, PcOK
  <2> QED BY <2>1 DEF SetUp
<1>5. CASE Accept \/ AcceptFails
  <2>1. UNCHANGED pc \/ \E l \in {"accepted", "exit"} : Goto("acceptor", l)
    BY <1>5 DEF Accept, AcceptFails, Step
  <2>2. UNCHANGED <<conn, cancel, done>>
    BY <1>5 DEF Accept, AcceptFails, handles, life
  <2> QED BY <1>g, <2>1, <2>2 DEF SetUp
<1>6. CASE AcceptSetConn \/ AcceptStore
  <2>1. /\ UNCHANGED <<cancel, done>> /\ conn' # "nil"
        /\ \E l \in {"store", "loops"} : Goto("acceptor", l)
    BY <1>6 DEF AcceptSetConn, AcceptStore, Step, SetUp, handles, life
  <2> QED BY <1>g, <2>1 DEF SetUp
<1>7. CASE ReaderStep
  <2>1. UNCHANGED pc \/ \E l : l # "off" /\ pc["reader"] # "off" /\ Goto("reader", l)
    <3>1. CASE ReadMessage \/ ReadLoopExits \/ Deliver \/ PushInbound \/ ReaderStore
      BY <3>1 DEF ReadMessage, ReadLoopExits, Deliver, PushInbound, ReaderStore, Step
    <3>2. CASE HandleMessage
      <4>1. Dispatch(cur) # "off"
        BY DEF Dispatch
      <4> QED BY <3>2, <4>1 DEF HandleMessage
    <3>3. CASE RejectNotSelected \/ HandleLinktestReq \/ HandleSelectReq \/ HandleDeselectReq
      BY <3>3 DEF RejectNotSelected, HandleLinktestReq, HandleSelectReq, HandleDeselectReq, Respond
    <3> QED BY <1>7, <3>1, <3>2, <3>3 DEF ReaderStep
  <2>2. UNCHANGED <<conn, cancel, done>>
    BY <1>7 DEF ReaderStep, ReadMessage, ReadLoopExits, HandleMessage, Deliver, PushInbound,
       RejectNotSelected, HandleLinktestReq, HandleSelectReq, HandleDeselectReq, Respond,
       ReaderStore, handles, life
  <2>3. CASE UNCHANGED pc
    BY <2>2, <2>3 DEF SetUp
  <2> QED BY <2>1, <2>2, <2>3, GotoSetUp
<1>8. ASSUME NEW w \in Sender, SenderStep(w) \/ (w \in Waiter /\ WaiterStep(w)) PROVE SetUp'
  <2>1. pc[w] \in {"write", "wait"} /\ UNCHANGED <<conn, cancel, done>>
    BY <1>8 DEF SenderStep, WaiterStep, SendWrite, SendWriteFails, ReplyArrives, WaitTimeout,
       handles, life
  <2>2. \E l \in {"wait", "idle", "cas", "stop", "store"} : Goto(w, l)
    BY <1>8 DEF SenderStep, WaiterStep, SendWrite, SendWriteFails, ReplyArrives, WaitTimeout,
       SendFailed
  <2>3. CASE w = "user"
    BY <1>g, <2>1, <2>2, <2>3 DEF SetUp
  <2>4. CASE w # "user"
    <3>1. w \notin {"user", "acceptor", "closer"}
      BY <2>4 DEF Fixed
    <3> QED BY <2>1, <2>2, <3>1, GotoSetUp
  <2> QED BY <2>3, <2>4
<1>9. CASE AppStep
  <2>1. UNCHANGED pc \/ \E l \in {"idle", "reply", "write"} : Goto("app", l) /\ pc["app"] # "off"
    BY <1>9 DEF AppStep, ReceiveMessage, SendReply
  <2>2. UNCHANGED <<conn, cancel, done>>
    BY <1>9 DEF AppStep, ReceiveMessage, SendReply, handles, life
  <2>3. CASE UNCHANGED pc
    BY <2>2, <2>3 DEF SetUp
  <2> QED BY <2>1, <2>2, <2>3, GotoSetUp
<1>10. CASE T7Expires \/ T7Stops \/ TTLExpires \/ LinktestStops
  <2>1. \E p \in {"t7", "ttl", "linktest"}, l \in {"cas", "exit"} : Goto(p, l) /\ pc[p] # "off"
    BY <1>10 DEF T7Expires, T7Stops, TTLExpires, LinktestStops, Step
  <2>2. UNCHANGED <<conn, cancel, done>>
    BY <1>10 DEF T7Expires, T7Stops, TTLExpires, LinktestStops, handles, life
  <2> QED BY <2>1, <2>2, GotoSetUp
<1>11. CASE CallClose
  <2>1. Goto("closer", "cas") /\ UNCHANGED <<conn, cancel, done>>
        /\ (CloseFrom # "new" => pc["reader"] # "off")
    BY <1>11 DEF CallClose, Step, handles, life
  <2> QED BY <1>g, <2>1 DEF SetUp
<1>12. ASSUME NEW w \in Waiter, NEW t, NEW i, Register(w, t, i), pc[w] # "off" PROVE SetUp'
  <2>1. Goto(w, "write") /\ UNCHANGED <<conn, cancel, done>>
    BY <1>12 DEF Register, handles, life
  <2>2. w \in Proc /\ (w # "user" => w \notin {"user", "acceptor", "closer"})
    BY DEF Fixed
  <2>3. CASE w = "user"
    BY <1>g, <2>1, <2>2, <2>3 DEF SetUp
  <2> QED BY <1>12, <2>1, <2>2, <2>3, GotoSetUp
<1>13. CASE Select \/ LinktestTick \/ SendMessages
  BY <1>12, <1>13 DEF Select, LinktestTick, SendMessages, SendMessage
<1>14. ASSUME NEW c \in Callers, Send(c) PROVE SetUp'
  <2>1. Goto(c, "write") /\ pc[c] # "off" /\ UNCHANGED <<conn, cancel, done>>
    BY <1>14 DEF Send, Step, handles, life
  <2>2. c \in Proc /\ c \notin {"user", "acceptor", "closer"}
    BY DEF Fixed
  <2> QED BY <2>1, <2>2, GotoSetUp
<1>15. ASSUME NEW p \in Closers, CloseStep(p) PROVE SetUp'
  <2>1. PICK l : l # "off" /\ pc[p] \notin {"off", "start"} /\ Goto(p, l)
    BY <1>15 DEF CloseStep, CloseCAS, CloseCancel, CloseConn, CloseListener, CloseStore,
       CloseDone, CloseReturns, AfterClose, Step
  <2>2. (conn # "nil" => conn' # "nil") /\ (cancel # "nil" => cancel' # "nil")
    BY <1>15 DEF CloseStep, CloseCAS, CloseCancel, CloseConn, CloseListener, CloseStore,
       CloseDone, handles
  <2>3. p \notin {"user", "acceptor"} /\ p \in Proc
    BY DEF Closers
  <2>4. /\ pc'["user"] = pc["user"] /\ pc'["acceptor"] = pc["acceptor"]
        /\ pc'["reader"] = "off" <=> pc["reader"] = "off"
    BY <1>g, <2>1, <2>3
  <2>5. CloseFrom # "new" => pc["reader"] # "off"
    BY <2>1 DEF SetUp, Boot, Closers
  <2> QED BY <2>2, <2>4, <2>5 DEF SetUp
<1>16. CASE Peer \/ UNCHANGED vars
  BY <1>16 DEF Peer, PeerDials, PeerSends, PeerReads, PeerCloses, vars, sess, handles, life, SetUp
<1> QED
  BY <1>1, <1>2, <1>3, <1>4, <1>5, <1>6, <1>7, <1>8, <1>9, <1>10, <1>11, <1>13, <1>14, <1>15, <1>16
     DEF Next, Local, UserStep, AcceptorStep, TimerStep, CallerStep, SendMessages

\* Close has passed the step with the first of the labels L.
Past(L) == done > 0 \/ \E p \in Closers : pc[p] \in L

\* Each step of Close has released its handle for good.
Released ==
    /\ Past({"closeConn", "closeListener", "storeDisc", "closeDone"}) => cancel = "called"
    /\ Past({"closeListener", "storeDisc", "closeDone"}) => conn = "closed"
    /\ Past({"storeDisc", "closeDone"}) => listener # "open"

\* Once the loops run, only Close touches the connection, the listener and the
\* run context.
LEMMA HandlesKept ==
    ASSUME TypeInv, Boot, OtherStep, pc["reader"] # "off"
    PROVE  UNCHANGED handles
<1> USE Sets, Labels, ConstantsAssumption
<1>1. ~DialOk /\ ~ListenOk /\ ~ActiveStartLoops /\ ~AcceptSetConn /\ ~PassiveStartLoops
  BY DEF Boot, DialOk, ListenOk, ActiveStartLoops, AcceptSetConn, PassiveStartLoops, StartLoops, Step
<1>2. CASE Connect \/ UserStep \/ AcceptorStep
  BY <1>1, <1>2 DEF Connect, UserStep, ConnectFails, DialStore, SelectRefused, Select, Register,
     SelectStore, AcceptorStep, Accept, AcceptFails, AcceptStore
<1>3. CASE ReaderStep
  BY <1>3 DEF ReaderStep, ReadMessage, ReadLoopExits, HandleMessage, Deliver, PushInbound,
     RejectNotSelected, HandleLinktestReq, HandleSelectReq, HandleDeselectReq, Respond,
     ReaderStore
<1>4. CASE (\E w \in Sender : SenderStep(w)) \/ (\E w \in Waiter : WaiterStep(w))
  BY <1>4 DEF SenderStep, WaiterStep, SendWrite, SendWriteFails, ReplyArrives, WaitTimeout
<1>5. CASE CallerStep
  BY <1>5 DEF CallerStep, Send, SendMessage, Register
<1>6. CASE AppStep \/ TimerStep \/ CallClose
  BY <1>6 DEF AppStep, ReceiveMessage, SendReply, TimerStep, T7Expires, T7Stops, TTLExpires,
     LinktestTick, Register, LinktestStops, CallClose
<1> QED BY <1>2, <1>3, <1>4, <1>5, <1>6 DEF OtherStep

\* Released is kept: the steps of Close come one after the other, and nothing is
\* set up again behind them.
LEMMA ReleasedStep ==
    ASSUME TypeInv, Boot, SetUp, CloseRunsOnce, Released, CloseFrom # "new", [Next]_vars
    PROVE  Released'
<1>1. CASE OtherStep
  <2>1. OutsideClose
    BY <1>1, OtherOutsideClose
  <2>2. \A L \in SUBSET ClosePc : Past(L)' => Past(L)
    BY <2>1 DEF OutsideClose, Past
  <2>3. CASE pc["reader"] # "off"
    <3>1. UNCHANGED <<conn, listener, cancel>>
      BY <1>1, <2>3, HandlesKept DEF handles
    <3> QED BY <2>2, <3>1 DEF Released, ClosePc
  <2>4. CASE pc["reader"] = "off"
    <3>1. done = 0 /\ \A p \in Closers : pc[p] \notin ClosePc
      BY <2>4 DEF SetUp, Boot, Closers, ClosePc
    <3>2. \A L \in SUBSET ClosePc : ~Past(L)
      BY <3>1 DEF Past
    <3> QED BY <2>2, <3>2 DEF Released, ClosePc
  <2> QED BY <2>3, <2>4
<1>2. ASSUME NEW p \in Closers, CloseStep(p) PROVE Released'
  <2>0. \A l : Goto(p, l) => pc'[p] = l /\ \A q \in Closers : q # p => pc'[q] = pc[q]
    BY Sets, TypeParts DEF TypeInv, PcOK, Goto
  <2>r. pc["reader"] # "off"
    BY <1>2 DEF CloseStep, CloseCAS, CloseCancel, CloseConn, CloseListener, CloseStore,
       CloseDone, Step, SetUp, Boot, Closers
  <2>n. conn # "nil" /\ cancel # "nil"
    BY <2>r DEF SetUp
  <2>1. CASE CloseCAS(p)
    <3>1. pc'[p] \in {"cancel", "loop", "exit"} /\ \A q \in Closers : q # p => pc'[q] = pc[q]
      BY <2>0, <2>1 DEF CloseCAS, CloseReturns, AfterClose
    <3>2. UNCHANGED <<done, conn, listener, cancel>>
      BY <2>1 DEF CloseCAS, handles
    <3> QED BY <3>1, <3>2 DEF Released, Past
  <2>2. CASE pc[p] \in ClosePc
    <3>1. done = 0 /\ \A q \in Closers : q # p => pc[q] \notin ClosePc
      BY <2>2 DEF CloseRunsOnce
    <3>2. CASE CloseCancel(p)
      <4>1. cancel' = "called" /\ done' = done /\ pc'[p] = "closeConn"
            /\ \A q \in Closers : q # p => pc'[q] = pc[q]
        BY <2>0, <2>n, <3>2 DEF CloseCancel, Step, life
      <4> QED BY <3>1, <4>1 DEF Released, Past, ClosePc
    <3>3. CASE CloseConn(p)
      <4>1. /\ conn' = "closed" /\ done' = done /\ cancel' = cancel
            /\ pc[p] = "closeConn" /\ pc'[p] = "closeListener"
            /\ \A q \in Closers : q # p => pc'[q] = pc[q]
        BY <2>0, <2>n, <3>3 DEF CloseConn, Step, life
      <4> QED BY <3>1, <4>1 DEF Released, Past, ClosePc
    <3>4. CASE CloseListener(p)
      <4>1. /\ listener' # "open" /\ done' = done /\ cancel' = cancel /\ conn' = conn
            /\ pc[p] = "closeListener" /\ pc'[p] = "storeDisc"
            /\ \A q \in Closers : q # p => pc'[q] = pc[q]
        BY <2>0, <3>4 DEF CloseListener, Step, life
      <4> QED BY <3>1, <4>1 DEF Released, Past, ClosePc
    <3>5. CASE CloseStore(p) \/ CloseDone(p)
      <4>1. pc[p] \in {"storeDisc", "closeDone"} /\ UNCHANGED <<conn, listener, cancel>>
        BY <3>5 DEF CloseStore, CloseDone, Step, handles
      <4> QED BY <4>1 DEF Released, Past
    <3>6. ~CloseCAS(p)
      BY <2>2 DEF CloseCAS, ClosePc
    <3> QED BY <1>2, <3>2, <3>3, <3>4, <3>5, <3>6 DEF CloseStep
  <2> QED BY <1>2, <2>1, <2>2 DEF CloseStep, CloseCancel, CloseConn, CloseListener, CloseStore,
             CloseDone, Step, ClosePc
<1>3. CASE Peer \/ UNCHANGED vars
  BY <1>3 DEF Peer, PeerDials, PeerSends, PeerReads, PeerCloses, vars, sess, handles, life,
     Released, Past
<1> QED BY <1>1, <1>2, <1>3, LocalSteps DEF Next

\* Once Done is closed, the connection and the listener are closed and the run
\* context is cancelled, for any number of callers of Close and in whatever order
\* their steps fall, provided the application calls it after the loops run.
THEOREM CloseReleases == Spec => []CloseReleasesAll
<1>1. Init => SetUp
  <2> SUFFICES ASSUME Init PROVE SetUp
    OBVIOUS
  <2>1. /\ \A p \in {"acceptor", "reader"} : pc[p] = "off"
        /\ \A p \in {"user", "closer"} : pc[p] = "start"
    BY Sets, ConstantsAssumption DEF Init, LocalInit, Fixed
  <2> QED BY <2>1 DEF SetUp, Init, LocalInit
<1>2. Init => Released
  <2> SUFFICES ASSUME Init PROVE Released
    OBVIOUS
  <2>1. done = 0 /\ \A p \in Closers : pc[p] \notin ClosePc
    BY Sets, ConstantsAssumption DEF Init, LocalInit, ClosePc, Closers
  <2> QED BY <2>1 DEF Released, Past, ClosePc
<1> DEFINE Inv == TypeInv /\ Boot /\ SetUp /\ CloseRunsOnce /\ (CloseFrom # "new" => Released)
<1>3. Inv /\ [Next]_vars => Inv'
  BY NextType, BootStep, SetUpStep, CloseOnceStep, ReleasedStep
<1>4. Init => Inv
  BY InitType, BootInit, CloseOnceInit, <1>1, <1>2
<1>5. Inv => CloseReleasesAll
  BY DEF Released, Past, CloseReleasesAll
<1> QED BY <1>3, <1>4, <1>5, PTL DEF Spec

(* The endpoint as its peer sees it. *)

\* No message of the sequence q has a type in T.
NoneOf(q, T) == \A i \in DOMAIN q : q[i].type \notin T
\* m is no message, or one whose type is not in T.
Clear(m, T) == m \in Msg => m.type \notin T
DataTypes == {"Data", "Event", "Reply"}

\* The message in hand is of the type whose handler is running, and Select has a
\* response when it looks at one.
InHandler ==
    /\ pc["reader"] \in {"selectOk", "storeSel"} => cur.type = "SelectReq"
    /\ pc["reader"] \in {"deselect", "storeConn"} => cur.type = "DeselectReq"
    /\ pc["reader"] \in {"push", "reject"} => IsData(cur)
    /\ pc["user"] = "store" => rsp \in Msg

\* A passive endpoint calls no Select, and is Selected only once its loops run.
PassiveOK ==
    role = "Passive" => /\ pc["user"] \in {"start", "connecting", "stop"}
                        /\ state = "Selected" => pc["reader"] # "off"

\* No goroutine sends a message whose type is in T.
SendsNo(T) == \A s \in Sender : Clear(req[s], T)

\* Nothing of a successful Select has reached this endpoint: it is not Selected, no
\* Select.rsp with success is on its way to Select, and there is no data.
Unselected ==
    /\ state # "Selected"
    /\ Clear(rsp, {"SelectRsp"}) /\ Clear(cur, {"SelectRsp"})
    /\ \A c \in Channel : Clear(ch[c], {"SelectRsp"})
    /\ NoneOf(in, {"SelectRsp"})
    /\ pc["reader"] # "push" /\ inbound = <<>>
    /\ SendsNo(DataTypes)
    /\ NoneOf(out, DataTypes)

\* The endpoint has accepted a Select.req and not gone back.
HasSelected == closed \/ state = "Selected" \/ pc["reader"] = "storeSel"

\* A data message in the reader's hand came after a Select.
DataAfterSelect == cur \in Msg /\ IsData(cur) => HasSelected
RejectsOnlyClosed == pc["reader"] = "reject" => closed

\* Every sequence of the model's messages, and what its two ends do to NoneOf.
LEMMA NoneOfSeq ==
    ASSUME NEW T, NEW q \in Seq(Msg), NoneOf(q, T)
    PROVE  /\ \A m \in Msg : m.type \notin T => NoneOf(Append(q, m), T)
           /\ q # <<>> => Head(q).type \notin T /\ NoneOf(Tail(q), T)
<1>1. ASSUME NEW m \in Msg, m.type \notin T
      PROVE  NoneOf(Append(q, m), T)
  <2>1. /\ DOMAIN q = 1 .. Len(q) /\ Len(q) \in Nat
        /\ DOMAIN Append(q, m) = 1 .. Len(q) + 1
        /\ \A i \in 1 .. Len(q) : Append(q, m)[i] = q[i]
        /\ Append(q, m)[Len(q) + 1] = m
    BY AppendProperties, LenProperties
  <2>2. ASSUME NEW i \in DOMAIN Append(q, m) PROVE Append(q, m)[i].type \notin T
    <3>1. i \in 1 .. Len(q) \/ i = Len(q) + 1
      BY <2>1, <2>2
    <3> QED BY <1>1, <2>1, <3>1 DEF NoneOf
  <2> QED BY <2>2 DEF NoneOf
<1>2. ASSUME q # <<>>
      PROVE  Head(q).type \notin T /\ NoneOf(Tail(q), T)
  <2>1. /\ DOMAIN q = 1 .. Len(q) /\ Len(q) \in Nat \ {0}
        /\ Head(q) = q[1]
        /\ Tail(q) \in Seq(Msg) /\ Len(Tail(q)) = Len(q) - 1
        /\ \A i \in 1 .. Len(Tail(q)) : Tail(q)[i] = q[i + 1]
    BY <1>2, HeadTailProperties, LenProperties, EmptySeq
  <2>2. DOMAIN Tail(q) = 1 .. Len(q) - 1
    BY <2>1, LenProperties
  <2>3. ASSUME NEW i \in DOMAIN Tail(q) PROVE Tail(q)[i].type \notin T
    <3>1. i + 1 \in DOMAIN q /\ Tail(q)[i] = q[i + 1]
      BY <2>1, <2>2
    <3> QED BY <3>1 DEF NoneOf
  <2>4. Head(q).type \notin T
    BY <2>1 DEF NoneOf
  <2> QED BY <2>3, <2>4 DEF NoneOf
<1> QED BY <1>1, <1>2

\* Only the reader, and startLoops, move the reader or touch what it reads.
LEMMA ReaderAlone ==
    ASSUME TypeInv, Local
    PROVE  \/ ReaderStep \/ CloseStep("reader")
           \/ (ActiveStartLoops \/ PassiveStartLoops) /\ pc'["reader"] = "loop" /\ UNCHANGED <<cur, in>>
           \/ pc'["reader"] = pc["reader"] /\ UNCHANGED <<cur, in>>
<1> USE Sets, Labels, ConstantsAssumption
<1>0. PcOK
  BY TypeParts DEF TypeInv
<1>g. \A p \in Proc : \A l : Goto(p, l) /\ p # "reader" => pc'["reader"] = pc["reader"]
  BY <1>0 DEF PcOK, Goto
<1>1. CASE Connect \/ DialOk \/ ConnectFails \/ DialStore \/ SelectRefused \/ SelectStore
  <2>1. (\E l : Goto("user", l)) /\ UNCHANGED <<cur, in>>
    BY <1>1 DEF Connect, DialOk, ConnectFails, DialStore, SelectRefused, SelectStore, Step, rcv, net
  <2> QED BY <1>g, <2>1
<1>2. CASE ListenOk
  BY <1>0, <1>2 DEF ListenOk, PcOK, rcv, net
<1>3. CASE ActiveStartLoops \/ PassiveStartLoops
  BY <1>0, <1>3 DEF ActiveStartLoops, PassiveStartLoops, StartLoops, PcOK, rcv, net
<1>4. CASE Accept \/ AcceptFails \/ AcceptSetConn \/ AcceptStore
  <2>1. (UNCHANGED pc \/ \E l : Goto("acceptor", l)) /\ UNCHANGED <<cur, in>>
    BY <1>4 DEF Accept, AcceptFails, AcceptSetConn, AcceptStore, Step, rcv, net
  <2> QED BY <1>g, <2>1
<1>5. CASE \/ Select \/ AppStep \/ TimerStep \/ CallClose
           \/ \E w \in Sender : SenderStep(w)
           \/ \E w \in Waiter : WaiterStep(w)
           \/ CallerStep
  <2>1. \/ UNCHANGED pc
        \/ \E p \in Sender \cup {"t7", "ttl", "closer"} : \E l : Goto(p, l)
    BY <1>5 DEF Select, AppStep, ReceiveMessage, SendReply, TimerStep, T7Expires,
       T7Stops, TTLExpires, LinktestTick, LinktestStops, CallClose, SenderStep, SendWrite,
       SendWriteFails, WaiterStep, ReplyArrives, WaitTimeout, CallerStep, Send, SendMessage, Register,
       SendFailed, Step
  <2>2. UNCHANGED <<cur, in>>
    BY <1>5 DEF Select, AppStep, ReceiveMessage, SendReply, TimerStep, T7Expires,
       T7Stops, TTLExpires, LinktestTick, LinktestStops, CallClose, SenderStep, SendWrite,
       SendWriteFails, WaiterStep, ReplyArrives, WaitTimeout, CallerStep, Send, SendMessage, Register,
       rcv, net
  <2> QED BY <1>g, <2>1, <2>2
<1>6. ASSUME NEW p \in Closers, CloseStep(p), p # "reader"
      PROVE  pc'["reader"] = pc["reader"] /\ UNCHANGED <<cur, in>>
  <2>1. (\E l : Goto(p, l)) /\ UNCHANGED <<cur, in>>
    BY <1>6 DEF CloseStep, CloseCAS, CloseCancel, CloseConn, CloseListener, CloseStore,
       CloseDone, CloseReturns, Step, rcv, net
  <2> QED BY <1>6, <1>g, <2>1
<1> QED BY <1>1, <1>2, <1>3, <1>4, <1>5, <1>6 DEF Local, UserStep, AcceptorStep

\* What the reader takes in hand it reads from the connection, in order; what
\* is in its hand it keeps until it is done with it.
LEMMA CurMoves ==
    ASSUME TypeInv, Local
    PROVE  \/ cur' \in {cur, NoMsg} /\ in' = in
           \/ in # <<>> /\ in' = Tail(in) /\ cur' \in {cur, Head(in)}
<1>1. CASE ReaderStep
  BY <1>1 DEF ReaderStep, ReadMessage, ReadLoopExits, HandleMessage, Deliver, PushInbound,
     RejectNotSelected, HandleLinktestReq, HandleSelectReq, HandleDeselectReq, Respond,
     ReaderStore, rcv, net
<1>2. CASE CloseStep("reader")
  BY <1>2 DEF CloseStep, CloseCAS, CloseCancel, CloseConn, CloseListener, CloseStore,
     CloseDone, CloseReturns, rcv, net
<1> QED BY <1>1, <1>2, ReaderAlone

\* Where the reader goes with the message in its hand.
LEMMA ReaderMoves ==
    ASSUME TypeInv, Local
    PROVE  /\ pc'["reader"] = "push" =>
                  /\ cur' = cur
                  /\ pc["reader"] = "push" \/ (state = "Selected" /\ IsData(cur))
           /\ pc'["reader"] = "reject" =>
                  /\ cur' = cur
                  /\ pc["reader"] = "reject" \/ (state # "Selected" /\ IsData(cur) /\ pc["reader"] = "handle")
           /\ pc'["reader"] = "selectOk" =>
                  cur' = cur /\ (pc["reader"] = "selectOk" \/ cur.type = "SelectReq")
           /\ pc'["reader"] = "storeSel" => cur' = cur /\ pc["reader"] \in {"selectOk", "storeSel"}
           /\ pc'["reader"] = "deselect" =>
                  cur' = cur /\ (pc["reader"] = "deselect" \/ cur.type = "DeselectReq")
           /\ pc'["reader"] = "storeConn" => cur' = cur /\ pc["reader"] \in {"deselect", "storeConn"}
           /\ pc'["reader"] = "off" => pc["reader"] = "off"
<1> USE Sets, Labels, ConstantsAssumption
<1>0. PcOK
  BY TypeParts DEF TypeInv
<1>g. \A l : Goto("reader", l) => pc'["reader"] = l
  BY <1>0 DEF PcOK, Goto
<1>1. CASE ReadMessage
  <2>1. \/ UNCHANGED <<pc, cur>>
        \/ \E l \in {"exit", "cas", "handle"} : Goto("reader", l)
    BY <1>1 DEF ReadMessage
  <2> QED BY <1>g, <2>1
<1>2. CASE ReadLoopExits \/ Deliver \/ PushInbound \/ ReaderStore
  <2>1. \E l \in {"exit", "cas", "loop"} : Goto("reader", l)
    BY <1>2 DEF ReadLoopExits, Deliver, PushInbound, ReaderStore, Step
  <2> QED BY <1>g, <2>1
<1>3. CASE HandleMessage
  <2>1. PICK l : /\ l \in {"deliver"} \cup {Dispatch(cur)}
                 /\ Goto("reader", l)
                 /\ cur' = IF l = "loop" THEN NoMsg ELSE cur
    BY <1>3 DEF HandleMessage
  <2>2. pc'["reader"] = l /\ pc["reader"] = "handle"
    BY <1>3, <1>g, <2>1 DEF HandleMessage
  <2>3. \/ l = "loop"
        \/ l = "push" /\ IsData(cur) /\ state = "Selected"
        \/ l = "reject" /\ IsData(cur) /\ state # "Selected"
        \/ l \in {"selectActive", "selectOk"} /\ cur.type = "SelectReq"
        \/ l = "deselect" /\ cur.type = "DeselectReq"
        \/ l \in {"linktest", "cas", "deliver"}
    BY <2>1 DEF Dispatch
  <2> QED BY <2>1, <2>2, <2>3
<1>4. CASE RejectNotSelected \/ HandleLinktestReq
  <2>1. Goto("reader", "loop")
    BY <1>4 DEF RejectNotSelected, HandleLinktestReq, Respond
  <2> QED BY <1>g, <2>1
<1>5. CASE HandleSelectReq \/ HandleDeselectReq
  <2>1. \/ Goto("reader", "loop")
        \/ pc["reader"] = "selectOk" /\ Goto("reader", "storeSel")
        \/ pc["reader"] = "deselect" /\ Goto("reader", "storeConn")
    BY <1>5 DEF HandleSelectReq, HandleDeselectReq, Respond
  <2>2. cur' = IF pc'["reader"] = "loop" THEN NoMsg ELSE cur
    BY <1>5 DEF HandleSelectReq, HandleDeselectReq, Respond
  <2> QED BY <1>g, <2>1, <2>2
<1>6. CASE CloseStep("reader")
  <2>1. \E l \in {"loop", "exit"} \cup ClosePc : Goto("reader", l)
    BY <1>6 DEF CloseStep, CloseCAS, CloseCancel, CloseConn, CloseListener, CloseStore,
       CloseDone, CloseReturns, AfterClose, Step, ClosePc
  <2> QED BY <1>g, <2>1 DEF ClosePc
<1>7. CASE pc'["reader"] \in {"loop", pc["reader"]} /\ UNCHANGED cur
  BY <1>7
<1> QED BY <1>1, <1>2, <1>3, <1>4, <1>5, <1>6, <1>7, ReaderAlone DEF ReaderStep

\* Who stores which state, and that closed is never taken back.
LEMMA StateMoves ==
    ASSUME TypeInv, Local
    PROVE  /\ closed => closed'
           /\ \/ state' = state
              \/ state' = "Selected" /\ pc["user"] = "store" /\ rsp.type = "SelectRsp"
              \/ state' = "Selected" /\ pc["reader"] = "storeSel"
              \/ /\ state' # "Selected"
                 /\ \/ pc["user"] \in {"start", "connecting", "dialed"}
                    \/ pc["acceptor"] = "store"
                    \/ pc["reader"] = "storeConn"
                    \/ \E p \in Closers : pc[p] \in ClosePc
<1>1. CASE Connect \/ DialOk \/ ConnectFails \/ DialStore \/ ListenOk \/ SelectRefused
  BY <1>1 DEF Connect, DialOk, ConnectFails, DialStore, ListenOk, SelectRefused, Step, life
<1>2. CASE SelectStore
  BY <1>2 DEF SelectStore, Step
<1>3. CASE Accept \/ AcceptFails \/ AcceptSetConn \/ AcceptStore
  BY <1>3 DEF Accept, AcceptFails, AcceptSetConn, AcceptStore, Step, life
<1>4. CASE ReaderStore
  BY <1>4 DEF ReaderStore, Step
<1>5. CASE \/ ActiveStartLoops \/ PassiveStartLoops \/ Select \/ AppStep \/ TimerStep \/ CallClose
           \/ \E w \in Sender : SenderStep(w)
           \/ \E w \in Waiter : WaiterStep(w)
           \/ CallerStep
  <2>1. state' = state /\ closed' = closed
    BY <1>5 DEF ActiveStartLoops, PassiveStartLoops, StartLoops, Select, AppStep, ReceiveMessage,
       SendReply, TimerStep, T7Expires, T7Stops, TTLExpires, LinktestTick, LinktestStops,
       CallClose, SenderStep, SendWrite, SendWriteFails, WaiterStep, ReplyArrives, WaitTimeout,
       CallerStep, Send, SendMessage, Register, life
  <2> QED BY <2>1
<1>6. CASE ReaderStep /\ ~ReaderStore
  <2>1. state' = state /\ closed' = closed
    BY <1>6 DEF ReaderStep, ReadMessage, ReadLoopExits, HandleMessage, Deliver, PushInbound,
       RejectNotSelected, HandleLinktestReq, HandleSelectReq, HandleDeselectReq, Respond, life
  <2> QED BY <2>1
<1>7. ASSUME NEW p \in Closers, CloseStep(p)
      PROVE  (closed => closed') /\ (state' = state \/ (state' # "Selected" /\ pc[p] \in ClosePc))
  <2>1. CASE CloseCAS(p)
    BY <2>1 DEF CloseCAS
  <2>2. CASE CloseStore(p)
    BY <2>2 DEF CloseStore, Step, ClosePc
  <2>3. CASE CloseCancel(p) \/ CloseConn(p) \/ CloseListener(p) \/ CloseDone(p)
    BY <2>3 DEF CloseCancel, CloseConn, CloseListener, CloseDone, life
  <2> QED BY <1>7, <2>1, <2>2, <2>3 DEF CloseStep
<1> QED BY <1>1, <1>2, <1>3, <1>4, <1>5, <1>6, <1>7 DEF Local, UserStep, AcceptorStep

\* What an endpoint puts on the connection: the message of a goroutine that sends
\* one, or an answer of its reader; Select.rsp with success only on the way to
\* the Store of handleSelectReq.
LEMMA OutMoves ==
    ASSUME TypeInv, Local
    PROVE  \/ out' = out
           \/ \E m \in Msg :
                 /\ out' = Append(out, m)
                 /\ \/ \E w \in Sender : m = req[w]
                    \/ m.type \in {"RejectReq", "LinktestRsp", "SelectRspFail", "DeselectRsp"}
                    \/ m.type = "SelectRsp" /\ pc'["reader"] = "storeSel"
<1> USE Sets, Labels, ConstantsAssumption
<1>0. PcOK
  BY TypeParts DEF TypeInv
<1>g. \A l : Goto("reader", l) => pc'["reader"] = l
  BY <1>0 DEF PcOK, Goto
<1>1. ASSUME pc["reader"] \in Busy, NEW t \in MsgType, NEW l, Respond(t, l)
      PROVE  \/ out' = out
             \/ \E m \in Msg : out' = Append(out, m) /\ m.type = t /\ pc'["reader"] = l
  <2>1. cur \in Msg /\ cur.id \in Ids
    BY <1>1 DEF TypeInv, MsgInHand, Msg
  <2>2. Message(t, cur.id) \in Msg /\ Message(t, cur.id).type = t
    BY <2>1, MessageType
  <2> QED BY <1>1, <1>g, <2>2 DEF Respond, WriteOk, WriteFails
<1>2. CASE RejectNotSelected \/ HandleLinktestReq \/ HandleDeselectReq
  <2>1. \E t \in {"RejectReq", "LinktestRsp", "DeselectRsp"} : \E l : pc["reader"] \in Busy /\ Respond(t, l)
    BY <1>2 DEF RejectNotSelected, HandleLinktestReq, HandleDeselectReq, Busy
  <2> QED BY <1>1, <2>1 DEF MsgType
<1>3. CASE HandleSelectReq
  <2>1. pc["reader"] \in Busy /\ (Respond("SelectRsp", "storeSel") \/ Respond("SelectRspFail", "loop"))
    BY <1>3 DEF HandleSelectReq, Busy
  <2> QED BY <1>1, <2>1 DEF MsgType
<1>4. ASSUME NEW w \in Sender, SenderStep(w)
      PROVE  out' = out \/ (out' = Append(out, req[w]) /\ req[w] \in Msg)
  <2>1. pc[w] = "write"
    BY <1>4 DEF SenderStep, SendWrite, SendWriteFails
  <2>2. req[w] \in Msg
    BY <2>1 DEF TypeInv, MsgInHand, OwnMsg
  <2> QED BY <1>4, <2>2 DEF SenderStep, SendWrite, SendWriteFails, WriteOk, WriteFails
<1>5. CASE ReadMessage \/ ReadLoopExits \/ HandleMessage \/ Deliver \/ PushInbound \/ ReaderStore
  BY <1>5 DEF ReadMessage, ReadLoopExits, HandleMessage, Deliver, PushInbound, ReaderStore, net
<1>6. CASE Connect \/ UserStep \/ AcceptorStep
  BY <1>6 DEF UserStep, AcceptorStep, Connect, DialOk, ConnectFails, DialStore, ListenOk,
     ActiveStartLoops, StartLoops, SelectRefused, Select, Register, SelectStore, Accept,
     AcceptFails, AcceptSetConn, AcceptStore, PassiveStartLoops, net
<1>7. CASE \/ AppStep \/ TimerStep \/ CallClose
           \/ \E w \in Waiter : WaiterStep(w)
           \/ CallerStep
           \/ \E p \in Closers : CloseStep(p)
  <2>1. out' = out
    BY <1>7 DEF AppStep, ReceiveMessage, SendReply, TimerStep, T7Expires, T7Stops, TTLExpires,
       LinktestTick, LinktestStops, CallClose, WaiterStep, ReplyArrives, WaitTimeout, CallerStep, Send,
       SendMessage, Register, CloseStep, CloseCAS, CloseCancel, CloseConn, CloseListener,
       CloseStore, CloseDone, net
  <2> QED BY <2>1
<1> QED BY <1>2, <1>3, <1>4, <1>5, <1>6, <1>7 DEF Local, ReaderStep

\* What a goroutine takes up to send: Select.req, Linktest.req, a reply of the
\* application to a message it has received, or what a caller sends, data only
\* in state Selected.
LEMMA ReqMoves ==
    ASSUME TypeInv, Local, NEW s \in Sender
    PROVE  \/ req'[s] \in {req[s], NoMsg}
           \/ req'[s].type = "SelectReq" /\ pc["user"] = "connected"
           \/ req'[s].type = "LinktestReq"
           \/ req'[s].type = "Reply" /\ inbound # <<>>
           \/ req'[s].type = "Event" /\ state = "Selected"
           \/ req'[s].type \in CallTypes /\ (IsData(req'[s]) => state = "Selected")
<1> USE Sets, Labels, ConstantsAssumption
<1>0. req \in [Sender -> Msg \cup {NoMsg}]
  BY DEF TypeInv, TypeOK
<1>1. ASSUME NEW w \in Waiter, NEW t \in MsgType, NEW i \in CallerIDs \cup {0}, Register(w, t, i)
      PROVE  req'[s] = req[s] \/ (s = w /\ req'[s].type = t)
  BY <1>0, <1>1 DEF Register, Message
<1>2. CASE Select
  BY <1>1, <1>2 DEF Select, MsgType
<1>3. CASE LinktestTick
  BY <1>1, <1>3 DEF LinktestTick, MsgType
<1>4. ASSUME NEW c \in Callers, NEW t \in CallTypes, NEW i \in CallerIDs \cup {0}, SendMessage(c, t, i)
      PROVE  req'[s] = req[s] \/ (req'[s].type = t /\ (IsData(req'[s]) => state = "Selected"))
  <2>1. req'[s] = req[s] \/ req'[s].type = t
    BY <1>1, <1>4 DEF SendMessage
  <2> QED BY <1>4, <2>1 DEF SendMessage, IsData, Message
<1>5. ASSUME NEW c \in Callers, Send(c)
      PROVE  req'[s] = req[s] \/ (req'[s].type = "Event" /\ state = "Selected")
  BY <1>0, <1>5 DEF Send, Message
<1>6. CASE ReceiveMessage
  BY <1>0, <1>6 DEF ReceiveMessage, Message
<1>7. CASE SendReply
  BY <1>0, <1>7 DEF SendReply
<1>8. ASSUME NEW w \in Sender, SenderStep(w) \/ WaiterStep(w)
      PROVE  req'[s] \in {req[s], NoMsg}
  BY <1>0, <1>8 DEF SenderStep, WaiterStep, SendWrite, SendWriteFails, ReplyArrives,
     WaitTimeout, DeletePending
<1>9. CASE (Connect \/ UserStep \/ AcceptorStep \/ ReaderStep) /\ ~Select
  <2>1. req' = req
    <3>1. CASE ReaderStep
      BY <3>1 DEF ReaderStep, ReadMessage, ReadLoopExits, HandleMessage, Deliver, PushInbound,
         RejectNotSelected, HandleLinktestReq, HandleSelectReq, HandleDeselectReq, Respond,
         ReaderStore, txn
    <3>2. CASE (Connect \/ UserStep \/ AcceptorStep) /\ ~Select
      BY <3>2 DEF UserStep, AcceptorStep, Connect, DialOk, ConnectFails, DialStore, ListenOk,
         ActiveStartLoops, StartLoops, SelectRefused, SelectStore, Accept,
         AcceptFails, AcceptSetConn, AcceptStore, PassiveStartLoops, txn
    <3> QED BY <1>9, <3>1, <3>2
  <2> QED BY <2>1
<1>10. CASE T7Expires \/ T7Stops \/ TTLExpires \/ LinktestStops \/ CallClose
            \/ \E p \in Closers : CloseStep(p)
  <2>1. req' = req
    BY <1>10 DEF T7Expires, T7Stops, TTLExpires, LinktestStops, CallClose, CloseStep, CloseCAS,
       CloseCancel, CloseConn, CloseListener, CloseStore, CloseDone, txn
  <2> QED BY <2>1
<1> QED BY <1>2, <1>3, <1>4, <1>5, <1>6, <1>7, <1>8, <1>9, <1>10
     DEF Local, AppStep, TimerStep, CallerStep

\* What reaches a waiting call, and Select's response, was in the reader's hand;
\* only what the reader pushes reaches the application.
LEMMA DeliveryMoves ==
    ASSUME TypeInv, Local
    PROVE  /\ rsp' \in {rsp, NoMsg} \/ \E c \in Channel : rsp' = ch[c]
           /\ \A c \in Channel : ch'[c] \in {ch[c], NoMsg, cur}
           /\ inbound = <<>> /\ pc["reader"] # "push" => inbound' = <<>>
<1> USE Sets, Labels, ConstantsAssumption
<1>0. ch \in [Channel -> Msg \cup {NoMsg}]
  BY DEF TypeInv, TypeOK
<1>1. CASE Deliver
  BY <1>0, <1>1 DEF Deliver
<1>2. ASSUME NEW w \in Sender, SenderStep(w)
      PROVE  UNCHANGED <<rsp, inbound, ch>>
  BY <1>2 DEF SenderStep, SendWrite, SendWriteFails, rcv
<1>3. ASSUME NEW w \in Waiter, WaiterStep(w)
      PROVE  /\ UNCHANGED <<inbound, ch>>
             /\ rsp' = rsp \/ \E c \in Channel : rsp' = ch[c]
  <2>1. mine[w] \in Channel
    BY <1>3 DEF WaiterStep, ReplyArrives, WaitTimeout, TypeInv, MsgInHand, HasChannel
  <2> QED BY <1>3, <2>1 DEF WaiterStep, ReplyArrives, WaitTimeout, rcv
<1>4. CASE SelectStore
  BY <1>4 DEF SelectStore, rcv
<1>5. CASE ReceiveMessage
  BY <1>5 DEF ReceiveMessage
<1>6. CASE PushInbound
  BY <1>6 DEF PushInbound, Step, txn
<1>10. ASSUME NEW w \in Waiter, NEW t, NEW i, Register(w, t, i)
       PROVE  UNCHANGED <<rsp, inbound>> /\ \A c \in Channel : ch'[c] \in {ch[c], NoMsg}
  <2>1. UNCHANGED <<rsp, inbound>>
    BY <1>10 DEF Register, rcv
  <2>2. \/ ch' = ch
        \/ \E x : ch' = [ch EXCEPT ![x] = NoMsg]
    BY <1>10 DEF Register
  <2> QED BY <1>0, <2>1, <2>2
<1>11. CASE Select \/ LinktestTick \/ SendMessages
  BY <1>10, <1>11 DEF Select, LinktestTick, SendMessages, SendMessage
<1>7. CASE (Connect \/ UserStep \/ AcceptorStep) /\ ~SelectStore /\ ~Select
  <2>1. UNCHANGED <<rsp, ch, inbound>>
    BY <1>7 DEF UserStep, AcceptorStep, Connect, DialOk, ConnectFails, DialStore, ListenOk,
       ActiveStartLoops, StartLoops, SelectRefused, Accept,
       AcceptFails, AcceptSetConn, AcceptStore, PassiveStartLoops, txn, rcv
  <2> QED BY <2>1
<1>8. CASE ReaderStep /\ ~Deliver /\ ~PushInbound
  <2>1. UNCHANGED <<rsp, ch, inbound>>
    BY <1>8 DEF ReaderStep, ReadMessage, ReadLoopExits, HandleMessage, RejectNotSelected, HandleLinktestReq,
       HandleSelectReq, HandleDeselectReq, Respond, ReaderStore, txn, rcv
  <2> QED BY <2>1
<1>9. CASE \/ SendReply \/ CallClose \/ T7Expires \/ T7Stops \/ TTLExpires \/ LinktestStops
           \/ \E c \in Callers : Send(c)
           \/ \E p \in Closers : CloseStep(p)
  <2>1. UNCHANGED <<rsp, ch, inbound>>
    BY <1>9 DEF SendReply, T7Expires, T7Stops, TTLExpires, LinktestStops, CallClose, Send,
       CloseStep, CloseCAS, CloseCancel, CloseConn, CloseListener, CloseStore, CloseDone, txn, rcv
  <2> QED BY <2>1
<1> QED
  BY <1>1, <1>2, <1>3, <1>4, <1>5, <1>6, <1>7, <1>8, <1>9, <1>11
     DEF Local, AppStep, TimerStep, CallerStep, SendMessages

\* InHandler is kept by the endpoint's steps.
LEMMA InHandlerStep ==
    ASSUME TypeInv, InHandler, Local
    PROVE  InHandler'
<1> USE Sets, Labels, ConstantsAssumption
<1>1. pc'["reader"] \in {"selectOk", "storeSel"} => cur'.type = "SelectReq"
  BY ReaderMoves DEF InHandler
<1>2. pc'["reader"] \in {"deselect", "storeConn"} => cur'.type = "DeselectReq"
  BY ReaderMoves DEF InHandler
<1>3. pc'["reader"] \in {"push", "reject"} => IsData(cur)'
  <2> SUFFICES ASSUME pc'["reader"] \in {"push", "reject"} PROVE cur' = cur /\ IsData(cur)
    BY DEF IsData
  <2> QED BY ReaderMoves DEF InHandler
<1>4. pc'["user"] = "store" => rsp' \in Msg
  <2>0. PcOK
    BY TypeParts DEF TypeInv
  <2>g. \A p \in Proc : \A l : Goto(p, l) => pc'[p] = l /\ \A q \in Proc : q # p => pc'[q] = pc[q]
    BY <2>0 DEF PcOK, Goto
  <2>1. CASE ReplyArrives("user")
    <3>1. mine["user"] \in Channel
      BY <2>1 DEF ReplyArrives, TypeInv, MsgInHand, HasChannel
    <3> QED BY <2>1, <3>1 DEF ReplyArrives, TypeInv, TypeOK
  <2>2. CASE Connect \/ DialOk \/ ConnectFails \/ DialStore \/ SelectRefused \/ SelectStore
    <3>1. \E l \in {"start", "connecting", "dialed", "loops", "stop"} : Goto("user", l)
      BY <2>2 DEF Connect, DialOk, ConnectFails, DialStore, SelectRefused, SelectStore, Step
    <3> QED BY <2>g, <3>1
  <2>3. CASE ListenOk
    BY <2>0, <2>3 DEF ListenOk, PcOK
  <2>4. CASE ActiveStartLoops \/ PassiveStartLoops
    <3>1. pc'["user"] \in {pc["user"], "connected"} /\ rsp' = rsp
      BY <2>0, <2>4 DEF ActiveStartLoops, PassiveStartLoops, StartLoops, PcOK, txn
    <3> QED BY <3>1 DEF InHandler
  <2>5. ASSUME NEW w \in Waiter, NEW t, NEW i, Register(w, t, i) PROVE pc'["user"] = "store" => rsp' \in Msg
    <3>1. pc'["user"] \in {pc["user"], "write"} /\ rsp' = rsp
      BY <2>g, <2>5 DEF Register
    <3> QED BY <3>1 DEF InHandler
  <2>6. ASSUME NEW w \in Sender, SenderStep(w) \/ (w \in Waiter /\ WaiterStep(w)), ~ReplyArrives("user")
        PROVE  pc'["user"] = "store" => rsp' \in Msg
    <3>1. rsp' = rsp /\ \E l : Goto(w, l) /\ (w = "user" => l # "store")
      BY <2>6 DEF SenderStep, WaiterStep, SendWrite, SendWriteFails, ReplyArrives, WaitTimeout,
         SendFailed
    <3> QED BY <2>g, <3>1 DEF InHandler
  <2>7. CASE \/ Accept \/ AcceptFails \/ AcceptSetConn \/ AcceptStore \/ ReaderStep
             \/ AppStep \/ T7Expires \/ T7Stops \/ TTLExpires \/ LinktestStops \/ CallClose
             \/ \E c \in Callers : Send(c)
             \/ \E p \in Closers : CloseStep(p)
    <3>1. rsp' = rsp
      BY <2>7 DEF Accept, AcceptFails, AcceptSetConn, AcceptStore, ReaderStep, ReadMessage,
         ReadLoopExits, HandleMessage, Deliver, PushInbound, RejectNotSelected, HandleLinktestReq,
         HandleSelectReq, HandleDeselectReq, Respond, ReaderStore, AppStep, ReceiveMessage,
         SendReply, T7Expires, T7Stops, TTLExpires, LinktestStops, CallClose, Send, CloseStep,
         CloseCAS, CloseCancel, CloseConn, CloseListener, CloseStore, CloseDone, txn
    <3>2. \/ UNCHANGED pc
          \/ \E p \in Proc : p # "user" /\ \E l : Goto(p, l)
      <4>1. CASE Accept \/ AcceptFails \/ AcceptSetConn \/ AcceptStore
        BY <4>1 DEF Accept, AcceptFails, AcceptSetConn, AcceptStore, Step
      <4>2. CASE ReaderStep
        BY <4>2 DEF ReaderStep, ReadMessage, ReadLoopExits, HandleMessage, Deliver, PushInbound,
           RejectNotSelected, HandleLinktestReq, HandleSelectReq, HandleDeselectReq, Respond,
           ReaderStore, Step
      <4>3. CASE AppStep \/ T7Expires \/ T7Stops \/ TTLExpires \/ LinktestStops \/ CallClose
        BY <4>3 DEF AppStep, ReceiveMessage, SendReply, T7Expires, T7Stops, TTLExpires,
           LinktestStops, CallClose, Step
      <4>4. CASE \E c \in Callers : Send(c)
        BY <4>4 DEF Send, Step, Fixed
      <4>5. CASE \E p \in Closers : CloseStep(p)
        BY <4>5 DEF CloseStep, CloseCAS, CloseCancel, CloseConn, CloseListener, CloseStore,
           CloseDone, CloseReturns, Step, Closers
      <4> QED BY <2>7, <4>1, <4>2, <4>3, <4>4, <4>5
    <3> QED BY <2>g, <3>1, <3>2 DEF InHandler
  <2>8. CASE Select \/ LinktestTick \/ SendMessages
    BY <2>5, <2>8 DEF Select, LinktestTick, SendMessages, SendMessage
  <2> QED BY <2>1, <2>2, <2>3, <2>4, <2>6, <2>7, <2>8
          DEF Local, UserStep, AcceptorStep, TimerStep, WaiterStep, CallerStep, SendMessages
<1> QED BY <1>1, <1>2, <1>3, <1>4 DEF InHandler

\* PassiveOK is kept by the endpoint's steps.
LEMMA PassiveStep ==
    ASSUME TypeInv, PassiveOK, InHandler, Local, role = "Passive"
    PROVE  PassiveOK'
<1> USE Sets, Labels, ConstantsAssumption
<1>0. PcOK
  BY TypeParts DEF TypeInv
<1>g. \A p \in Proc : \A l : Goto(p, l) => pc'[p] = l /\ \A q \in Proc : q # p => pc'[q] = pc[q]
  BY <1>0 DEF PcOK, Goto
<1>u. pc["user"] \in {"start", "connecting", "stop"}
  BY DEF PassiveOK
<1>1. pc'["user"] \in {"start", "connecting", "stop"}
  <2>1. CASE Connect \/ ConnectFails
    <3>1. \E l \in {"start", "connecting"} : Goto("user", l)
      BY <2>1 DEF Connect, ConnectFails, Step
    <3> QED BY <1>g, <3>1
  <2>2. CASE ListenOk
    BY <1>0, <2>2 DEF ListenOk, PcOK
  <2>3. ~DialOk /\ ~DialStore /\ ~ActiveStartLoops /\ ~SelectRefused /\ ~Select /\ ~SelectStore
    BY <1>u DEF DialOk, DialStore, ActiveStartLoops, StartLoops, SelectRefused, Select,
       SelectStore, Step
  <2>4. CASE PassiveStartLoops
    BY <1>0, <1>u, <2>4 DEF PassiveStartLoops, StartLoops, PcOK
  <2>5. ASSUME NEW w \in Sender, SenderStep(w) \/ (w \in Waiter /\ WaiterStep(w))
        PROVE  w # "user" /\ \E l : Goto(w, l)
    BY <1>u, <2>5 DEF SenderStep, WaiterStep, SendWrite, SendWriteFails, ReplyArrives, WaitTimeout,
       SendFailed
  <2>6. CASE Accept \/ AcceptFails \/ AcceptSetConn \/ AcceptStore
    <3>1. UNCHANGED pc \/ \E l : Goto("acceptor", l)
      BY <2>6 DEF Accept, AcceptFails, AcceptSetConn, AcceptStore, Step
    <3> QED BY <1>g, <1>u, <3>1
  <2>7. CASE ReaderStep
    <3>1. UNCHANGED pc \/ \E l : Goto("reader", l)
      BY <2>7 DEF ReaderStep, ReadMessage, ReadLoopExits, HandleMessage, Deliver, PushInbound,
         RejectNotSelected, HandleLinktestReq, HandleSelectReq, HandleDeselectReq, Respond,
         ReaderStore, Step
    <3> QED BY <1>g, <1>u, <3>1
  <2>8. CASE AppStep \/ TimerStep \/ CallClose
    <3>1. UNCHANGED pc \/ \E p \in {"app", "t7", "ttl", "linktest", "closer"} : \E l : Goto(p, l)
      BY <2>8 DEF AppStep, ReceiveMessage, SendReply, TimerStep, T7Expires, T7Stops, TTLExpires,
         LinktestTick, Register, LinktestStops, CallClose, Step
    <3> QED BY <1>g, <1>u, <3>1
  <2>9. CASE CallerStep
    <3>1. \E c \in Callers : \E l : Goto(c, l)
      BY <2>9 DEF CallerStep, Send, SendMessage, Register, Step
    <3> QED BY <1>g, <1>u, <3>1 DEF Fixed
  <2>10. CASE \E p \in Closers : CloseStep(p)
    <3>1. \E p \in Closers : \E l : Goto(p, l)
      BY <2>10 DEF CloseStep, CloseCAS, CloseCancel, CloseConn, CloseListener, CloseStore,
         CloseDone, CloseReturns, Step
    <3> QED BY <1>g, <1>u, <3>1 DEF Closers
  <2> QED BY <1>g, <1>u, <2>1, <2>2, <2>3, <2>4, <2>5, <2>6, <2>7, <2>8, <2>9, <2>10
          DEF Local, UserStep, AcceptorStep
<1>2. state' = "Selected" => pc'["reader"] # "off"
  BY <1>u, StateMoves, ReaderMoves DEF PassiveOK
<1> QED BY <1>1, <1>2 DEF PassiveOK

\* What no caller is asked to send, nobody sends: Select.req and Linktest.req are
\* the only requests of the session's own.
LEMMA SendsNoStep ==
    ASSUME TypeInv, Local, NEW T, SendsNo(T), T \cap (CallTypes \cup {"LinktestReq", "Event", "Reply"}) = {},
           "SelectReq" \in T => pc["user"] # "connected"
    PROVE  SendsNo(T)'
<1> SUFFICES ASSUME NEW s \in Sender PROVE Clear(req[s], T)'
    BY DEF SendsNo
<1>1. req'[s] \in {req[s], NoMsg} \/ req'[s].type \notin T
  BY ReqMoves
<1> QED BY <1>1, ConstantsAssumption DEF SendsNo, Clear, Msg

\* What is not on the way to the reader does not get into its hand.
LEMMA InClearStep ==
    ASSUME TypeInv, Local, NEW T, Clear(cur, T), NoneOf(in, T)
    PROVE  Clear(cur, T)' /\ NoneOf(in, T)'
<1>1. in \in Seq(Msg)
  BY DEF TypeInv, TypeOK
<1>2. in # <<>> => Head(in).type \notin T /\ NoneOf(Tail(in), T)
  BY <1>1, NoneOfSeq, Zenon
<1>3. CASE cur' \in {cur, NoMsg} /\ in' = in
  BY <1>3, ConstantsAssumption DEF Clear, NoneOf, Msg
<1>4. CASE in # <<>> /\ in' = Tail(in) /\ cur' \in {cur, Head(in)}
  BY <1>2, <1>4 DEF Clear, NoneOf, Msg
<1> QED BY <1>3, <1>4, CurMoves

\* What no goroutine sends, and the reader does not answer, is not put on the
\* connection.
LEMMA OutClearStep ==
    ASSUME TypeInv, Local, NEW T, SendsNo(T), NoneOf(out, T),
           T \cap {"RejectReq", "LinktestRsp", "SelectRspFail", "DeselectRsp"} = {},
           "SelectRsp" \in T => pc'["reader"] # "storeSel"
    PROVE  NoneOf(out, T)'
<1>1. out \in Seq(Msg)
  BY DEF TypeInv, TypeOK
<1>2. CASE out' = out
  BY <1>2 DEF NoneOf
<1>3. ASSUME NEW m \in Msg, out' = Append(out, m), m.type \notin T
      PROVE  NoneOf(out, T)'
  <2>1. NoneOf(Append(out, m), T)
    BY <1>1, <1>3, NoneOfSeq
  <2> QED BY <1>3, <2>1 DEF NoneOf
<1>4. \A w \in Sender : req[w] \in Msg => req[w].type \notin T
  BY DEF SendsNo, Clear
<1> QED BY <1>2, <1>3, <1>4, OutMoves

\* Unselected is left only by a Select.rsp that comes in, unless the endpoint gets a
\* Select.req.
LEMMA UnselectedStep ==
    ASSUME TypeInv, InHandler, Unselected, Clear(cur, {"SelectReq"}), Local
    PROVE  Unselected'
<1> USE Sets, Labels, ConstantsAssumption
<1>1. state' # "Selected"
  <2>1. pc["user"] = "store" => rsp.type # "SelectRsp"
    BY DEF Unselected, InHandler, Clear
  <2>2. pc["reader"] # "storeSel"
    BY DEF InHandler, Clear, TypeInv, MsgInHand, Busy
  <2> QED BY <2>1, <2>2, StateMoves DEF Unselected
<1>2. Clear(rsp, {"SelectRsp"})' /\ \A c \in Channel : Clear(ch[c], {"SelectRsp"})'
  <2>1. Clear(rsp, {"SelectRsp"})'
    <3>1. rsp' \in {rsp, NoMsg} \/ \E c \in Channel : rsp' = ch[c]
      BY DeliveryMoves
    <3> QED BY <3>1 DEF Unselected, Clear, Msg
  <2>2. ASSUME NEW c \in Channel PROVE Clear(ch[c], {"SelectRsp"})'
    <3>1. ch'[c] \in {ch[c], NoMsg, cur}
      BY DeliveryMoves
    <3> QED BY <3>1 DEF Unselected, Clear, Msg
  <2> QED BY <2>1, <2>2
<1>3. Clear(cur, {"SelectRsp"})' /\ NoneOf(in, {"SelectRsp"})'
  BY InClearStep DEF Unselected
<1>4. pc'["reader"] # "push" /\ inbound' = <<>>
  BY ReaderMoves, DeliveryMoves DEF Unselected
<1>5. SendsNo(DataTypes)'
  <2> SUFFICES ASSUME NEW s \in Sender PROVE Clear(req[s], DataTypes)'
    BY DEF SendsNo
  <2>1. \/ req'[s] \in {req[s], NoMsg}
        \/ req'[s].type \notin DataTypes
    BY ReqMoves DEF Unselected, DataTypes, IsData
  <2> QED BY <2>1 DEF Unselected, SendsNo, Clear, Msg
<1>6. NoneOf(out, DataTypes)'
  <2>1. /\ DataTypes \cap {"RejectReq", "LinktestRsp", "SelectRspFail", "DeselectRsp"} = {}
        /\ "SelectRsp" \notin DataTypes
    BY DEF DataTypes
  <2> QED BY <2>1, OutClearStep DEF Unselected
<1> QED BY <1>1, <1>2, <1>3, <1>4, <1>5, <1>6 DEF Unselected

\* A passive endpoint that has accepted a Select stays Selected until it closes,
\* unless it is about to store the effect of a Deselect.req.
LEMMA HasSelectedStep ==
    ASSUME TypeInv, Boot, CloseRunsOnce, InHandler, PassiveOK, role = "Passive",
           pc["reader"] # "storeConn", HasSelected, Local
    PROVE  HasSelected'
<1> USE Sets, Labels, ConstantsAssumption
<1>1. CASE closed
  BY <1>1, StateMoves DEF HasSelected
<1>2. CASE ~closed
  <2>1. pc["reader"] # "off"
    BY <1>2 DEF HasSelected, PassiveOK
  <2>2. /\ pc["user"] \notin {"start", "connecting", "dialed"}
        /\ pc["acceptor"] # "store"
    BY <2>1 DEF Boot
  <2>4. \A p \in Closers : pc[p] \notin ClosePc
    BY <1>2 DEF CloseRunsOnce
  <2>5. state' = state \/ state' = "Selected"
    BY <2>2, <2>4, StateMoves
  <2>6. pc["reader"] = "storeSel" => pc'["reader"] = "storeSel" \/ state' = "Selected"
    <3> SUFFICES ASSUME pc["reader"] = "storeSel" PROVE pc'["reader"] = "storeSel" \/ state' = "Selected"
      OBVIOUS
    <3>1. ReaderStep => ReaderStore
      BY DEF ReaderStep, ReadMessage, ReadLoopExits, HandleMessage, Deliver, PushInbound,
         RejectNotSelected, HandleLinktestReq, HandleSelectReq, HandleDeselectReq, ReaderStore, Step
    <3>2. ReaderStore => state' = "Selected"
      BY DEF ReaderStore, Step
    <3>3. ~CloseStep("reader")
      BY DEF CloseStep, CloseCAS, CloseCancel, CloseConn, CloseListener, CloseStore,
         CloseDone, Step
    <3>4. ~ActiveStartLoops /\ ~PassiveStartLoops
      BY <2>1 DEF ActiveStartLoops, PassiveStartLoops, StartLoops, Boot
    <3> QED BY <3>1, <3>2, <3>3, <3>4, ReaderAlone
  <2> QED BY <1>2, <2>5, <2>6 DEF HasSelected
<1> QED BY <1>1, <1>2

\* A data message that came after a Select is rejected only by an endpoint that
\* has been closed.
LEMMA RejectStep ==
    ASSUME TypeInv, DataAfterSelect, RejectsOnlyClosed, Local
    PROVE  RejectsOnlyClosed'
<1> SUFFICES ASSUME pc'["reader"] = "reject" PROVE closed'
    BY DEF RejectsOnlyClosed
<1>1. CASE pc["reader"] = "reject"
  BY <1>1, StateMoves DEF RejectsOnlyClosed
<1>2. CASE state # "Selected" /\ IsData(cur) /\ pc["reader"] = "handle"
  <2>1. cur \in Msg
    BY <1>2 DEF TypeInv, MsgInHand, Busy
  <2> QED BY <1>2, <2>1, StateMoves DEF DataAfterSelect, HasSelected
<1> QED BY <1>1, <1>2, ReaderMoves

\* What the other end does to the connection keeps TypeInv.
LEMMA OtherEndType ==
    ASSUME TypeInv, UNCHANGED sess, in' \in Seq(Msg), out' \in Seq(Msg),
           tcp' \in {"idle", "dialed", "dialedBad", "accepted"}, eof' \in BOOLEAN
    PROVE  TypeInv'
<1>1. PcOK' /\ MsgInHand'
  BY TypeParts DEF sess, txn, rcv, TypeInv, MsgInHand, HasChannel, PcOK
<1>2. DataOK'
  BY DEF sess, life, handles, txn, rcv, TypeInv, TypeOK, DataOK
<1> QED BY <1>1, <1>2 DEF TypeInv, TypeOK, DataOK, PcOK

\* A session fresh from NewSession has sent, received and accepted nothing.
LEMMA EndpointInit ==
    ASSUME LocalInit, eof \in BOOLEAN
    PROVE  TypeInv /\ Boot /\ CloseRunsOnce /\ InHandler /\ PassiveOK /\ Unselected
           /\ (\A T : SendsNo(T) /\ Clear(cur, T) /\ NoneOf(in, T))
           /\ DataAfterSelect /\ RejectsOnlyClosed
<1> USE Sets, ConstantsAssumption
<1>1. \A p \in {"acceptor", "reader", "linktest", "t7", "ttl"} : pc[p] = "off"
  BY DEF LocalInit, Fixed
<1>2. pc["user"] = "start" /\ \A p \in Closers : pc[p] \notin ClosePc
  BY DEF LocalInit, ClosePc, Closers
<1>3. NoMsg \notin Msg /\ rsp = NoMsg /\ cur = NoMsg /\ in = <<>> /\ out = <<>> /\ inbound = <<>>
      /\ (\A c \in Channel : ch[c] = NoMsg) /\ (\A s \in Sender : req[s] = NoMsg)
  BY DEF LocalInit
<1>4. TypeInv
  BY FreshType
<1>5. Boot /\ CloseRunsOnce
  BY <1>1, <1>2 DEF LocalInit, Boot, CloseRunsOnce
<1>6. InHandler /\ PassiveOK /\ DataAfterSelect /\ RejectsOnlyClosed
  BY <1>1, <1>2, <1>3 DEF LocalInit, InHandler, PassiveOK, DataAfterSelect, RejectsOnlyClosed
<1>7. ASSUME NEW T PROVE SendsNo(T) /\ Clear(cur, T) /\ NoneOf(in, T) /\ NoneOf(out, T)
  BY <1>3 DEF SendsNo, Clear, NoneOf
<1>8. Unselected
  BY <1>1, <1>3, <1>7 DEF LocalInit, Unselected, Clear
<1> QED BY <1>4, <1>5, <1>6, <1>7, <1>8

=============================================================================
