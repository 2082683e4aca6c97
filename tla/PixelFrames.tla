---------------------------- MODULE PixelFrames ----------------------------
(***************************************************************************)
(* How the remote calls of Pixel Buds become bytes and are found in them   *)
(* again (src/src/sdk/pbp): frames with a checksum, in which some bytes    *)
(* are escaped, and messages of numbered fields.                           *)
(*                                                                         *)
(* A number is the sequence of its digits to the base of 128, the lowest   *)
(* first and none of them a 0 in front; a number of 32 bits on the wire is *)
(* its four bytes, and 64 bits eight.                                      *)
(***************************************************************************)
EXTENDS Packets, Bitwise, FiniteSets

CONSTANT maxFrameSize         \* 4096 in the program

Word(b) == <<b, b, b, b>>
Zero == Word(0)
XorWords(u, v) == [i \in 1..4 |-> u[i] ^^ v[i]]

(***************************************************************************)
(* Crc32                                                                   *)
(***************************************************************************)
Poly == <<32, 131, 184, 237>>          \* 0xEDB88320
Halve(w) == [i \in 1..4 |-> w[i] \div 2 + (IF i < 4 /\ w[i + 1] % 2 = 1 THEN 128 ELSE 0)]
Crc32Table ==
    LET Round(w, i) == IF w[1] % 2 = 1 THEN XorWords(Halve(w), Poly) ELSE Halve(w)
    IN  [b \in 0..255 |-> FoldLeft(Round, <<b, 0, 0, 0>>, <<1, 2, 3, 4, 5, 6, 7, 8>>)]

Checksum(data) ==
    LET Next(state, b) == XorWords(Crc32Table[state[1] ^^ b], Append(Tail(state), 0))
        final == FoldLeft(Next, Word(255), data)
    IN  [i \in 1..4 |-> 255 - final[i]]

(***************************************************************************)
(* PwVarint                                                                *)
(***************************************************************************)
RECURSIVE Normal(_)
Normal(digits) == IF digits # <<>> /\ Last(digits) = 0 THEN Normal(Front(digits)) ELSE digits
AtLeastOne(digits) == IF digits = <<>> THEN <<0>> ELSE digits
Value(digits) == FoldRight(LAMBDA d, v : d + 128 * v, digits, 0)
Digits(n) == Normal([i \in 1..4 |-> (n \div 128^(i - 1)) % 128])

PwVarintEncode(number) ==
    LET digits == AtLeastOne(number)
    IN  [i \in DOMAIN digits |-> 2 * digits[i] + (IF i = Len(digits) THEN 1 ELSE 0)]

MaxEncodedLength == 5
\* The number and how many bytes it took.
PwVarintDecode(data) ==
    LET end == SelectInSeq(data, LAMBDA b : b % 2 = 1)
    IN  Read(/\ end \in 1..MaxEncodedLength
             /\ end = MaxEncodedLength => At(data, end - 1) \div 2 < 16,
             <<Normal([i \in 1..end |-> data[i] \div 2]), end>>)

(***************************************************************************)
(* Hdlc                                                                    *)
(***************************************************************************)
frameFlag == 126
escapeFlag == 125
escapeMask == 32
minFrameSize == 6

HdlcFrame(address, control, data) == [address |-> address, control |-> control, data |-> data]

Encode(frame) ==
    LET bytes == PwVarintEncode(frame.address) \o <<frame.control>> \o frame.data
        Escape(b) == IF b \in {frameFlag, escapeFlag} THEN <<escapeFlag, b ^^ escapeMask>> ELSE <<b>>
        payload == bytes \o Checksum(bytes)
    IN  <<frameFlag>> \o FlattenSeq([i \in DOMAIN payload |-> Escape(payload[i])]) \o <<frameFlag>>

\* What the decoder keeps between the pieces it is given.
Reset == [buffer |-> <<>>, inFrame |-> FALSE, escaped |-> FALSE, corrupt |-> FALSE]

ExtractBuffered(decoder) ==
    LET buffer == decoder.buffer
        size == Len(buffer)
        address == PwVarintDecode(buffer)
    IN  Read(/\ ~decoder.corrupt /\ size >= minFrameSize
             /\ Checksum(SubSeq(buffer, 1, size - 4)) = SubSeq(buffer, size - 3, size)
             /\ address # None /\ size >= address[2] + 5,
             HdlcFrame(address[1], At(buffer, address[2]),
                       SubSeq(buffer, address[2] + 2, size - 4)))

\* Fault: an escape outlives its frame, and nothing makes a frame corrupt.
DecodeByteKeepingEscape(decoder, b) ==
    CASE b = frameFlag -> [decoder EXCEPT !.buffer = <<>>, !.inFrame = TRUE, !.corrupt = FALSE]
      [] b # frameFlag /\ ~decoder.inFrame -> decoder
      [] b = escapeFlag /\ decoder.inFrame -> [decoder EXCEPT !.escaped = ~@]
      [] OTHER -> [decoder EXCEPT !.escaped = FALSE,
                      !.buffer = Append(@, IF decoder.escaped THEN b ^^ escapeMask ELSE b)]

DecodeByte(decoder, b) ==
    CASE b = frameFlag -> [Reset EXCEPT !.inFrame = TRUE]
      [] b # frameFlag /\ ~decoder.inFrame -> decoder
      [] b = escapeFlag /\ decoder.inFrame ->
             [decoder EXCEPT !.escaped = ~@, !.corrupt = @ \/ decoder.escaped]
      [] OTHER ->
             IF Len(decoder.buffer) < maxFrameSize
             THEN [decoder EXCEPT !.escaped = FALSE,
                      !.buffer = Append(@, IF decoder.escaped THEN b ^^ escapeMask ELSE b)]
             ELSE [decoder EXCEPT !.escaped = FALSE, !.corrupt = TRUE]

\* The closing flag of a frame may be the opening flag of the next one.
Decode(decoder, chunk) ==
    LET Ends(state, b) ==
            b = frameFlag /\ state.decoder.inFrame /\ ~state.decoder.escaped
                /\ state.decoder.buffer # <<>> /\ ExtractBuffered(state.decoder) # None
        Next(state, b) ==
            [decoder |-> DecodeByte(state.decoder, b),
             frames |-> IF Ends(state, b) THEN Append(state.frames, ExtractBuffered(state.decoder))
                        ELSE state.frames]
    IN  FoldLeft(Next, [decoder |-> decoder, frames |-> <<>>], chunk)

(***************************************************************************)
(* ProtoWire                                                               *)
(***************************************************************************)
ProtoWireTypes == [Varint |-> 0, Fixed64 |-> 1, Bytes |-> 2, Fixed32 |-> 5]

WriteVarint(number) ==
    LET digits == AtLeastOne(number)
    IN  [i \in DOMAIN digits |-> digits[i] + (IF i < Len(digits) THEN 128 ELSE 0)]
Tag(number, type) == WriteVarint(Digits(8 * number + ProtoWireTypes[type]))
WriteVarintField(number, value) == Tag(number, "Varint") \o WriteVarint(value)
WriteFixed32Field(number, word) == Tag(number, "Fixed32") \o word
WriteBytesField(number, bytes) ==
    Tag(number, "Bytes") \o WriteVarint(Digits(Len(bytes))) \o bytes

ProtoField(number, type, value) == [number |-> number, type |-> type, value |-> value]

\* What is read from the head of data, and the data behind it.
ReadVarint(data) ==
    LET end == SelectInSeq(data, LAMBDA b : b < 128)
    IN  Read(end \in 1..10,
             <<Normal([i \in 1..end |-> data[i] % 128]), SubSeq(data, end + 1, Len(data))>>)
ReadBytes(number, type, data, size) ==
    Read(size <= Len(data),
         <<ProtoField(number, type, SubSeq(data, 1, size)), SubSeq(data, size + 1, Len(data))>>)
ReadValue(number, wire, data) ==
    LET varint == ReadVarint(data)
    IN  CASE wire = ProtoWireTypes.Varint ->
                 Read(varint # None, <<ProtoField(number, "Varint", varint[1]), varint[2]>>)
          [] wire = ProtoWireTypes.Fixed64 -> ReadBytes(number, "Fixed64", data, 8)
          [] wire = ProtoWireTypes.Fixed32 -> ReadBytes(number, "Fixed32", data, 4)
          [] wire = ProtoWireTypes.Bytes ->
                 IF varint = None THEN None
                 ELSE ReadBytes(number, "Bytes", varint[2], Value(varint[1]))
          [] OTHER -> None
ReadField(data) ==
    LET tag == ReadVarint(data)
        number == Value(tag[1]) \div 8
    IN  IF tag = None \/ number = 0 THEN None ELSE ReadValue(number, Value(tag[1]) % 8, tag[2])

RECURSIVE Parse(_), ParseBehind(_)
ParseBehind(field) ==
    LET others == Parse(field[2])
    IN  IF field = None \/ others = None THEN None ELSE <<field[1]>> \o others
Parse(data) == IF data = <<>> THEN <<>> ELSE ParseBehind(ReadField(data))

(***************************************************************************)
(* PwRpcPacket                                                             *)
(***************************************************************************)
RpcFields == [type |-> 1, channel |-> 2, service |-> 3, method |-> 4, payload |-> 5,
              status |-> 6, call |-> 7]
RpcKinds == [type |-> "Varint", channel |-> "Varint", service |-> "Fixed32",
             method |-> "Fixed32", payload |-> "Bytes", status |-> "Varint", call |-> "Varint"]
DefaultPacket == [type |-> <<>>, channel |-> <<>>, service |-> Zero, method |-> Zero,
                  payload |-> <<>>, status |-> <<>>, call |-> <<>>]

\* The lowest bits of a number.
Narrow(number, width) ==
    Normal([i \in 1..Len(number) |->
               IF 7 * i <= width THEN number[i]
               ELSE IF 7 * (i - 1) < width THEN number[i] % 2^(width % 7) ELSE 0])

RpcOrder == <<"type", "channel", "service", "method", "payload", "status", "call">>
EncodeField(packet, f) ==
    CASE packet[f] = DefaultPacket[f] -> <<>>
      [] RpcKinds[f] = "Varint" -> WriteVarintField(RpcFields[f], packet[f])
      [] RpcKinds[f] = "Fixed32" -> WriteFixed32Field(RpcFields[f], packet[f])
      [] OTHER -> WriteBytesField(RpcFields[f], packet[f])
EncodePacket(packet) == FlattenSeq([i \in 1..7 |-> EncodeField(packet, RpcOrder[i])])

SetField(packet, field) ==
    [f \in DOMAIN packet |->
        CASE RpcFields[f] # field.number \/ RpcKinds[f] # field.type -> packet[f]
          [] f = "type" -> Narrow(field.value, 8)
          [] RpcKinds[f] = "Varint" /\ f # "type" -> Narrow(field.value, 32)
          [] OTHER -> field.value]
DecodePacket(data) ==
    LET Packet(fields) ==
            IF fields = None THEN None ELSE FoldLeft(SetField, DefaultPacket, fields)
    IN  Packet(Parse(data))

(***************************************************************************)
(* What is sent and what becomes of it.                                    *)
(***************************************************************************)
Samples ==
    {HdlcFrame(<<62>>, 3, <<>>), HdlcFrame(<<0, 1>>, 3, <<126, 125>>),
     HdlcFrame(<<5>>, 3, <<1, 94, 0>>), HdlcFrame(<<0, 1>>, 3, <<1, 2, 3, 4, 5, 6, 7, 8, 9>>)}
Size(frame) == Len(PwVarintEncode(frame.address)) + 5 + Len(frame.data)
Fits(frame) == Size(frame) <= maxFrameSize

Damages == [at : 1..18, as : {frameFlag, escapeFlag, 33}] \cup {[at |-> 0, as |-> 0]}
Streams ==
    [kind : {"stream"}, lead : {<<escapeFlag>>, <<9, frameFlag>>},
     frames : {<<f, g>> : f, g \in Samples}, which : {1, 2}, damage : Damages]
\* A frame that lacks only its closing flag is whole: the next one's opening flag closes it.
Losses == [kind : {"loss"}, frames : {<<f, g>> : f, g \in Samples}, cut : 2..17, reset : BOOLEAN]

Damaged(bytes, damage) ==
    IF damage.at \in DOMAIN bytes THEN [bytes EXCEPT ![damage.at] = damage.as] ELSE bytes
Sent(input, i) ==
    IF input.which = i THEN Damaged(Encode(input.frames[i]), input.damage)
    ELSE Encode(input.frames[i])
Arriving(input) ==
    LET Arrives(i) == Fits(input.frames[i]) /\ Sent(input, i) = Encode(input.frames[i])
    IN  [i \in 1..Cardinality({j \in {1, 2} : Arrives(j)}) |->
            IF Arrives(i) THEN input.frames[i] ELSE input.frames[2]]

RpcPackets ==
    [type : {<<>>, <<7>>}, channel : {<<>>, <<18>>, <<44, 2>>, <<1, 2, 3, 4, 15>>},
     service : {Zero, <<1, 2, 3, 255>>}, method : {Zero}, payload : {<<>>, <<8, 1>>},
     status : {<<>>, <<5>>}, call : {<<>>, <<127, 1>>}]
Unknowns ==
    {<<>>, WriteVarintField(9, <<1, 2>>), WriteBytesField(8, <<1, 2>>), WriteBytesField(2, <<1>>),
     Tag(300, "Fixed64") \o Zero \o Zero}
Messages == [kind : {"message"}, packet : RpcPackets, unknown : Unknowns, first : BOOLEAN, cut : 0..5]
Bytes(input) ==
    LET packet == EncodePacket(input.packet)
        bytes == IF input.first THEN input.unknown \o packet ELSE packet \o input.unknown
    IN  SubSeq(bytes, 1, Len(bytes) - input.cut)
\* Where the fields of a message end.
Ends(input) ==
    LET parts == [i \in 1..7 |-> EncodeField(input.packet, RpcOrder[i])]
        all == IF input.first THEN <<input.unknown>> \o parts ELSE Append(parts, input.unknown)
    IN  {Len(FlattenSeq(SubSeq(all, 1, i))) : i \in 0..8}

\* Frames arrive as they were sent, in order, whatever was in the air before the first, and
\* however often bytes of theirs look like flags; one byte that is damaged, be it a flag, or
\* damaged into one, costs the frame it belongs to and no other, and a frame that is too long
\* only itself; and the piece of a frame that is left of a lost connection disturbs nothing. A
\* message means the same with fields the program does not know before or behind its own; one
\* that is cut off is refused unless it is cut between two fields.
FramesTrue(input) ==
    CASE input.kind = "stream" ->
             Decode(Reset, input.lead \o Sent(input, 1) \o Sent(input, 2)).frames = Arriving(input)
      [] input.kind = "loss" ->
             LET first == Encode(input.frames[1])
                 piece == SubSeq(first, 1, Len(first) - input.cut)
                 second == Encode(input.frames[2])
             IN  /\ Decode(Reset, piece).frames = <<>>
                 /\ Decode(IF input.reset THEN Reset ELSE Decode(Reset, piece).decoder,
                           second).frames
                        = SelectSeq(Tail(input.frames), Fits)
      [] OTHER ->
             /\ DecodePacket(Bytes(input)) # None <=> Len(Bytes(input)) \in Ends(input)
             /\ input.cut = 0 => DecodePacket(Bytes(input)) = input.packet
=============================================================================
