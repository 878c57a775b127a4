---------------------------- MODULE ModbusClient ----------------------------
(***************************************************************************)
(* The Modbus TCP client of pkg/transport/modbus and a device that answers *)
(* in order, late or not at all.                                           *)
(*                                                                         *)
(* sendRequest holds the mutex from the write to the response or the       *)
(* deadline, so there is one call at a time.  A deadline that passes       *)
(* leaves the connection open and the response, if it comes, in it;        *)
(* nothing skips it.  A deadline inside a response leaves the rest of it:  *)
(* from then on a call takes bytes of other frames for its response, and   *)
(* what comes of that is left open.  Of the eight functions the model has  *)
(* FC01 and FC15, whose coils are packed into bytes; the others differ in  *)
(* their data.                                                             *)
(***************************************************************************)
EXTENDS Integers, Sequences

CONSTANTS
    TxnModulus,       \* 2^16, the width of the transaction ID
    QuantityModulus,  \* 2^16, the width of the quantity of a write
    CountModulus,     \* 2^8, the width of its byte count
    MaxCalls,         \* bound on the calls
    Coils,            \* the number of coils of the device
    CoilLists         \* the values the callers write

ASSUME ModbusAssumption ==
    /\ TxnModulus \in Nat \ {0} /\ MaxCalls \in Nat /\ Coils \in Nat
    /\ QuantityModulus \in Nat /\ QuantityModulus >= 8
    /\ CountModulus \in Nat \ {0}
    /\ CoilLists \subseteq Seq(BOOLEAN)

VARIABLES
    connected,      \* c.conn # nil
    txnID,          \* c.txnID
    call,           \* the call that holds the mutex
    calls,          \* calls of sendRequest so far; numbers the requests
    requests,       \* frames on their way to the device
    responses,      \* frames on their way back
    abandoned,      \* history: calls given up on this connection
    torn,           \* a part of a response was consumed on this connection
    result,         \* what the last call returned
    coils           \* the coils of the device

modbusVars == <<connected, txnID, call, calls, requests, responses, abandoned, torn,
                result, coils>>

NoCall == [pc |-> "idle"]
Failed == [ok |-> FALSE]
\* A success made of bytes of other frames.
Garbled == [ok |-> TRUE, inStep |-> FALSE]

\* The connection is in step: it is not torn, and fewer calls were given up on
\* it than there are transaction IDs.  The client does not look after either.
InStep == ~torn /\ abandoned < TxnModulus

-----------------------------------------------------------------------------
(* protocol.go: the coils of a response, eight to a byte. *)

Bit(b) == IF b THEN 1 ELSE 0

ByteCount(n) == (n + 7) \div 8

BitAt(values, i) == IF i <= Len(values) THEN Bit(values[i]) ELSE 0

encodeBools(values) ==
    [k \in 1..ByteCount(Len(values)) |->
        LET b(j) == BitAt(values, 8 * (k - 1) + j)
        IN  b(1) + 2 * b(2) + 4 * b(3) + 8 * b(4) + 16 * b(5) + 32 * b(6) + 64 * b(7) + 128 * b(8)]

\* Coils past the end of the data are FALSE.
decodeBools(data, count) ==
    [i \in 1..count |->
        LET byteIdx == (i - 1) \div 8 + 1 IN
        /\ byteIdx <= Len(data)
        /\ (data[byteIdx] \div 2^((i - 1) % 8)) % 2 = 1]

\* ReadCoils and WriteMultipleCoils after sendRequest: checkException, and the
\* values read or written beside the coils as the device had them.
ResultOf(r) ==
    IF r.fc = call.fc /\ ~r.exception
    THEN [ok |-> TRUE, inStep |-> InStep, request |-> r.request, of |-> call.request, coils |-> r.coils,
          values |-> IF r.fc = "ReadCoils" THEN decodeBools(r.data, Coils) ELSE call.values]
    ELSE Failed

-----------------------------------------------------------------------------

ModbusInit ==
    /\ connected = FALSE /\ txnID = 0 /\ call = NoCall /\ calls = 0
    /\ requests = <<>> /\ responses = <<>> /\ abandoned = 0
    /\ torn = FALSE /\ result = Failed
    /\ coils = [i \in 1..Coils |-> FALSE]

\* Connect and Close wait for the mutex.  A new connection is empty; the one
\* before is not closed by Connect, and nothing reads it any more.
NewConnection(up) ==
    /\ call = NoCall
    /\ connected' = up
    /\ requests' = <<>> /\ responses' = <<>> /\ abandoned' = 0 /\ torn' = FALSE
    /\ UNCHANGED <<txnID, call, calls, result, coils>>

Connect == NewConnection(TRUE)
Close == connected /\ NewConnection(FALSE)

\* The frame of a request.  The quantity and the byte count are cut to their
\* widths.
Frame(id, fc, request, values) ==
    [id |-> id, fc |-> fc, request |-> request, quantity |-> Len(values) % QuantityModulus,
     byteCount |-> Len(encodeBools(values)) % CountModulus, data |-> encodeBools(values)]

\* sendRequest up to the write.  Without a connection, or when the write
\* fails, the call returns an error, in the second case with a new txnID.
BeginCall(fc, values) ==
    /\ call = NoCall /\ calls < MaxCalls
    /\ calls' = calls + 1
    /\ \/ /\ ~connected
          /\ result' = Failed
          /\ UNCHANGED <<txnID, call, requests, abandoned>>
       \/ /\ connected
          /\ txnID' = (txnID + 1) % TxnModulus
          /\ \/ /\ requests' = Append(requests, Frame(txnID', fc, calls', values))
                /\ call' = [pc |-> "reading", id |-> txnID', fc |-> fc, request |-> calls',
                            values |-> values]
                /\ UNCHANGED <<result, abandoned>>
             \/ /\ result' = Failed
                /\ abandoned' = abandoned + 1
                /\ UNCHANGED <<call, requests>>
    /\ UNCHANGED <<connected, responses, torn, coils>>

ReadCoils == BeginCall("ReadCoils", <<>>)
WriteMultipleCoils(values) == BeginCall("WriteMultipleCoils", values)

ReadAnyResponse ==
    /\ call.pc = "reading" /\ ~torn /\ responses # <<>>
    /\ result' = ResultOf(Head(responses))
    /\ responses' = Tail(responses)
    /\ call' = NoCall
    /\ UNCHANGED <<connected, txnID, calls, requests, abandoned, torn, coils>>

\* sendRequest: the next frame of the connection, whose transaction ID has to
\* be that of the call.
ReadResponse ==
    /\ call.pc = "reading" /\ ~torn /\ responses # <<>>
    /\ result' = IF Head(responses).id = call.id THEN ResultOf(Head(responses)) ELSE Failed
    /\ responses' = Tail(responses)
    /\ call' = NoCall
    /\ UNCHANGED <<connected, txnID, calls, requests, abandoned, torn, coils>>

\* On a torn connection the client takes the bytes from the middle of a frame
\* for a header: an error by the protocol ID, the length or the transaction
\* ID, or bytes that look like the response.
ReadTorn ==
    /\ call.pc = "reading" /\ torn
    /\ result' \in {Failed, Garbled}
    /\ call' = NoCall
    /\ UNCHANGED <<connected, txnID, calls, requests, responses, abandoned, torn, coils>>

\* The deadline passes or the connection breaks, before a byte of the response
\* or within its header or its PDU, and what was read is lost.
ReadFails ==
    /\ call.pc = "reading"
    /\ result' = Failed
    /\ call' = NoCall
    /\ abandoned' = abandoned + 1
    /\ \/ UNCHANGED <<responses, torn>>
       \/ /\ responses # <<>>
          /\ responses' = Tail(responses)
          /\ torn' = TRUE
    /\ UNCHANGED <<connected, txnID, calls, requests, coils>>

\* The device: coil 8k + j is bit j of byte k.
Pack(list) == [k \in 1..ByteCount(Len(list)) |->
    LET on(j) == IF 8 * (k - 1) + j < Len(list) /\ list[8 * (k - 1) + j + 1] THEN 2^j ELSE 0
    IN  on(0) + on(1) + on(2) + on(3) + on(4) + on(5) + on(6) + on(7)]
Stored(r) == [i \in 1..Coils |->
    IF r.fc = "WriteMultipleCoils" /\ i <= r.quantity
    THEN (r.data[(i - 1) \div 8 + 1] \div 2^((i - 1) % 8)) % 2 = 1
    ELSE coils[i]]

\* The lengths a write states agree with one another and with its data.
WellFormed(r) ==
    r.fc = "WriteMultipleCoils" =>
        /\ r.quantity <= Coils
        /\ r.byteCount = ByteCount(r.quantity) /\ Len(r.data) = r.byteCount

\* It carries the oldest request out and answers, or answers with an exception,
\* as to every request that is not well-formed.
DeviceAnswers(exception) ==
    /\ requests # <<>>
    /\ LET r == Head(requests) IN
       /\ exception \/ WellFormed(r)
       /\ coils' = IF exception THEN coils ELSE Stored(r)
       /\ responses' = Append(responses,
              [id |-> r.id, fc |-> r.fc, request |-> r.request, exception |-> exception,
               coils |-> IF exception THEN <<>>
                         ELSE IF r.fc = "ReadCoils" THEN coils' ELSE SubSeq(coils', 1, r.quantity),
               data |-> IF r.fc = "ReadCoils" THEN Pack(coils') ELSE <<>>])
    /\ requests' = Tail(requests)
    /\ UNCHANGED <<connected, txnID, call, calls, abandoned, torn, result>>

DeviceIgnores ==
    /\ requests # <<>>
    /\ requests' = Tail(requests)
    /\ UNCHANGED <<connected, txnID, call, calls, responses, abandoned, torn, result, coils>>

ModbusNext ==
    \/ Connect \/ Close
    \/ ReadCoils \/ \E values \in CoilLists : WriteMultipleCoils(values)
    \/ ReadResponse \/ ReadTorn \/ ReadFails
    \/ \E exception \in BOOLEAN : DeviceAnswers(exception)
    \/ DeviceIgnores

ModbusSpec == ModbusInit /\ [][ModbusNext]_modbusVars

-----------------------------------------------------------------------------

\* A call that succeeds on a connection in step got the device's answer to
\* that very call, and the values it read or wrote are the coils the device had
\* then, however many answers came late, though the transaction IDs wrap around
\* and the lengths of a write are cut to their widths (sendRequest,
\* readResponse, WriteMultipleCoils, encodeBools, decodeBools).  Nothing is
\* said of a connection on which a deadline fell inside a response, or on which
\* as many calls were given up as there are transaction IDs: the client goes on
\* using both.
ResponseBelongs ==
    result.ok /\ result.inStep =>
        result.request = result.of /\ result.values = result.coils
=============================================================================
