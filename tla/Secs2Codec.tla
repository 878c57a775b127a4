----------------------------- MODULE Secs2Codec -----------------------------
(***************************************************************************)
(* The SECS-II items of pkg/message/secs2: Encode, DecodeMulti, and the    *)
(* wire between them, which may end early.                                 *)
(*                                                                         *)
(* An item is its format and its values.  A string is the sequence of its  *)
(* bytes; an element of one or two bytes is a number.  TLC's integers are  *)
(* too narrow for the others: a number of four or eight bytes is the       *)
(* sequence of its digits to base 2^16, the highest first and with the     *)
(* sign; a float is that of its bit pattern (math.Float32bits).            *)
(***************************************************************************)
EXTENDS Integers, SequencesExt

CONSTANTS
    Items,        \* a sequence of items to encode
    MaxItems,     \* bound on the items on the wire
    Lengths       \* lengths for which the header is checked by itself

VARIABLES
    sent,         \* the items encoded
    data,         \* the bytes on the wire
    cut,          \* the wire ended early
    offset, decoded, failed   \* DecodeMulti

codecVars == <<sent, data, cut, offset, decoded, failed>>

-----------------------------------------------------------------------------
(* format.go and the constructors of item.go *)

Format == [L |-> 0, B |-> 32, BOOLEAN_ |-> 36, A |-> 64, I8 |-> 96, I1 |-> 100, I2 |-> 104,
           I4 |-> 112, F8 |-> 128, F4 |-> 144, U8 |-> 160, U1 |-> 164, U2 |-> 168, U4 |-> 176]

Strings == {"A", "B"}
Signed == {"I1", "I2", "I4", "I8"}
itemSize(f) == CASE f \in {"BOOLEAN_", "A", "B", "I1", "U1"} -> 1
                 [] f \in {"I2", "U2"} -> 2
                 [] f \in {"I4", "U4", "F4"} -> 4
                 [] f \in {"I8", "U8", "F8"} -> 8

New(f, values) == [format |-> f, values |-> values]

\* What the accessors ToASCII ... ToFloat64s and Items return: a string that
\* is not there is empty.
RECURSIVE View(_)
View(item) ==
    <<item.format,
      CASE item.format = "L" -> [i \in DOMAIN item.values |-> View(item.values[i])]
        [] item.format \in Strings -> IF item.values = <<>> THEN <<>> ELSE item.values[1]
        [] OTHER -> item.values>>

-----------------------------------------------------------------------------
(* encode.go *)

Error == [ok |-> FALSE]
Encoded(bytes) == [ok |-> TRUE, bytes |-> bytes]

\* One after the other, or the error of the first that has one.
Joined(parts) ==
    IF \A i \in DOMAIN parts : parts[i].ok
    THEN Encoded(FlattenSeq([i \in DOMAIN parts |-> parts[i].bytes])) ELSE Error

NumLenBytesLoose(n) == IF n <= 256 THEN 1 ELSE IF n <= 65535 THEN 2 ELSE 3

\* The number of length bytes.
NumLenBytes(n) == IF n <= 255 THEN 1 ELSE IF n <= 65535 THEN 2 ELSE 3

BigEndian(n, width) == [i \in 1..width |-> (n \div 256^(width - i)) % 256]

\* A length that needs more than three bytes is refused.
encodeHeader(f, n) ==
    IF n > 16777215 THEN Error
    ELSE Encoded(<<Format[f] + NumLenBytes(n)>> \o BigEndian(n, NumLenBytes(n)))

EncodeElement(f, v) ==
    CASE f = "BOOLEAN_" -> <<IF v THEN 1 ELSE 0>>
      [] itemSize(f) \in {1, 2} -> BigEndian(v % 256^itemSize(f), itemSize(f))
      [] OTHER -> FlattenSeq([i \in DOMAIN v |-> BigEndian(v[i] % 65536, 2)])

RECURSIVE encodeItem(_)
encodeItem(item) ==
    LET f == item.format IN
    CASE f = "L" ->
           Joined(<<encodeHeader(f, Len(item.values))>>
                    \o [i \in DOMAIN item.values |-> encodeItem(item.values[i])])
      [] f \in Strings ->
           Joined(<<encodeHeader(f, Len(View(item)[2])), Encoded(View(item)[2])>>)
      [] OTHER ->
           Joined(<<encodeHeader(f, Len(item.values) * itemSize(f))>>
                    \o [i \in DOMAIN item.values |-> Encoded(EncodeElement(f, item.values[i]))])

-----------------------------------------------------------------------------
(* decode.go; offsets count from 0 *)

Bytes(d, from, n) == SubSeq(d, from + 1, from + n)
Decoded(item, next) == [ok |-> TRUE, item |-> item, next |-> next]

Number(bytes) == FoldLeft(LAMBDA n, byte : n * 256 + byte, 0, bytes)

\* The number a two's complement of so many bytes stands for.
SignedNumber(bytes) ==
    IF bytes[1] >= 128 THEN Number(bytes) - 256^Len(bytes) ELSE Number(bytes)

DecodeElement(f, bytes) ==
    LET number(part, first) == IF first /\ f \in Signed THEN SignedNumber(part) ELSE Number(part)
    IN  CASE f = "BOOLEAN_" -> bytes # <<0>>
          [] itemSize(f) \in {1, 2} -> number(bytes, TRUE)
          [] OTHER -> [i \in 1..(Len(bytes) \div 2) |->
                          number(SubSeq(bytes, 2 * i - 1, 2 * i), i = 1)]

\* decodeASCII ... decodeF8
decodeValue(d, f, from, n) ==
    IF n % itemSize(f) # 0 \/ from + n > Len(d) THEN Error
    ELSE Decoded(New(f, IF f \in Strings THEN (IF n = 0 THEN <<>> ELSE <<Bytes(d, from, n)>>)
                        ELSE [i \in 1..(n \div itemSize(f)) |->
                                DecodeElement(f, Bytes(d, from + (i - 1) * itemSize(f), itemSize(f)))]),
                 from + n)

\* The header at an offset: the format, the length and where the data begin.
decodeHeader(d, from) ==
    LET numLenBytes == d[from + 1] % 4
        code == d[from + 1] - numLenBytes
    IN  IF from >= Len(d) \/ numLenBytes = 0 \/ from + 1 + numLenBytes > Len(d)
           \/ \A f \in DOMAIN Format : Format[f] # code
        THEN Error
        ELSE [ok |-> TRUE, format |-> CHOOSE f \in DOMAIN Format : Format[f] = code,
              n |-> Number(Bytes(d, from + 1, numLenBytes)), next |-> from + 1 + numLenBytes]

RECURSIVE decodeItem(_, _)
RECURSIVE decodeList(_, _, _, _)
decodeItem(d, from) ==
    IF from >= Len(d) THEN Error
    ELSE LET h == decodeHeader(d, from) IN
         IF ~h.ok THEN Error
         ELSE IF h.format = "L" THEN decodeList(d, h.next, h.n, <<>>)
         ELSE decodeValue(d, h.format, h.next, h.n)

decodeList(d, from, count, items) ==
    IF Len(items) = count THEN Decoded(New("L", items), from)
    ELSE LET child == decodeItem(d, from) IN
         IF ~child.ok THEN Error ELSE decodeList(d, child.next, count, Append(items, child.item))

-----------------------------------------------------------------------------

CodecInit ==
    /\ sent = <<>> /\ data = <<>> /\ cut = FALSE
    /\ offset = 0 /\ decoded = <<>> /\ failed = FALSE

\* What cannot be encoded is not sent.
Encode(item) ==
    /\ Len(sent) < MaxItems /\ ~cut /\ offset = 0
    /\ LET e == encodeItem(item) IN
       /\ sent' = IF e.ok THEN Append(sent, item) ELSE sent
       /\ data' = IF e.ok THEN data \o e.bytes ELSE data
    /\ UNCHANGED <<cut, offset, decoded, failed>>

WireEnds(n) ==
    /\ ~cut /\ offset = 0 /\ n < Len(data)
    /\ cut' = TRUE
    /\ data' = SubSeq(data, 1, n)
    /\ UNCHANGED <<sent, offset, decoded, failed>>

\* One round of the loop of DecodeMulti; Decode is one round that has to end
\* at the end of the data.
DecodeNext ==
    /\ offset < Len(data) /\ ~failed
    /\ LET item == decodeItem(data, offset) IN
       /\ failed' = ~item.ok
       /\ decoded' = IF item.ok THEN Append(decoded, item.item) ELSE decoded
       /\ offset' = IF item.ok THEN item.next ELSE offset
    /\ UNCHANGED <<sent, data, cut>>

CodecNext == \/ \E i \in DOMAIN Items : Encode(Items[i])
             \/ \E n \in 0..(Len(data) - 1) : WireEnds(n)
             \/ DecodeNext

CodecSpec == CodecInit /\ [][CodecNext]_codecVars

-----------------------------------------------------------------------------

\* Decoding gives back what was encoded, item by item and no further than the
\* items that are there in full.  The end of the wire inside an item is an
\* error, and the only one; at the end of an item DecodeMulti cannot see it
\* and gives the items before it.  A header that is not refused gives back the
\* format and the length, at all widths of the length (Encode, Decode,
\* DecodeMulti, encodeHeader).
DecodeInvertsEncode ==
    /\ Len(decoded) <= Len(sent)
    /\ \A i \in DOMAIN decoded : View(decoded[i]) = View(sent[i])
    /\ offset = Len(FlattenSeq([i \in DOMAIN decoded |-> encodeItem(sent[i]).bytes]))
    /\ failed => cut /\ Len(data) < offset + Len(encodeItem(sent[Len(decoded) + 1]).bytes)
    /\ \A n \in Lengths, f \in {"L", "A"} :
          LET e == encodeHeader(f, n)
              h == decodeHeader(e.bytes, 0)
          IN  IF e.ok THEN h.ok /\ h.format = f /\ h.n = n ELSE n >= 256^3
=============================================================================
