---------------------------- MODULE GalaxyFrames ----------------------------
(***************************************************************************)
(* The bytes around the packets of Galaxy Buds (src/src/sdk/sgb), which    *)
(* GalaxyBudsPackets takes for granted: two marks, a header and a          *)
(* checksum. The program only knows the marks it has received, and puts    *)
(* them around the requests it sends.                                      *)
(***************************************************************************)
EXTENDS Packets, Bitwise

GalaxyBuds == INSTANCE GalaxyBudsPackets

GalaxyBudsMsgTypes == [Request |-> 0, Response |-> 1]

(***************************************************************************)
(* Crc16. A number of 16 bits is its two bytes, the higher first.          *)
(***************************************************************************)
crc16Tab ==
    LET Poly == 4129                                            \* 0x1021
        Round(w, i) == IF w >= 32768 THEN (2 * w - 65536) ^^ Poly ELSE 2 * w
        Entry(b) == FoldLeft(Round, 256 * b, <<1, 2, 3, 4, 5, 6, 7, 8>>)
    IN  [b \in 0..255 |-> <<Entry(b) \div 256, Entry(b) % 256>>]
ChecksumOf(data) ==
    LET Next(current, t) ==
            LET entry == crc16Tab[current[1] ^^ t] IN <<entry[1] ^^ current[2], entry[2]>>
    IN  FoldLeft(Next, <<0, 0>>, data)
\* The bytes of a packet's checksum, the lower first.
Checksum(id, payload) == Reverse(ChecksumOf(<<id>> \o payload))

(***************************************************************************)
(* GalaxyBudsPacket, a record of its fields                                *)
(***************************************************************************)
GalaxyBudsPacket(isLegacy) == [isLegacy |-> isLegacy, startOfMessage |-> 0, endOfMessage |-> 0]

Header(packet, type, size) ==
    IF packet.isLegacy THEN <<type, size % 256>> ELSE <<size % 256, size \div 256>>
Encode(packet, id, payload) ==
    <<packet.startOfMessage>> \o Header(packet, GalaxyBudsMsgTypes.Request, Len(payload) + 3)
        \o <<id>> \o payload \o Checksum(id, payload) \o <<packet.endOfMessage>>

TypeOf(packet, buffer) ==
    IF packet.isLegacy THEN Read(Names(GalaxyBudsMsgTypes, At(buffer, 1)), At(buffer, 1))
    \* The bit that Encode() does not set in a request; nothing depends on it.
    ELSE IF At(buffer, 2) & 16 # 0 THEN GalaxyBudsMsgTypes.Request ELSE GalaxyBudsMsgTypes.Response
PayloadSize(packet, buffer) ==
    (IF packet.isLegacy THEN At(buffer, 2) ELSE 256 * (At(buffer, 2) % 4) + At(buffer, 1)) - 3
\* Fault: the bytes of the checksum in the order they arrive in.
IntactUnswapped(buffer, size) == ChecksumOf(SubSeq(buffer, 4, 4 + size + 2)) = <<0, 0>>
Intact(buffer, size) ==
    LET crc == <<At(buffer, 3 + size + 2), At(buffer, 3 + size + 1)>>
    IN  ChecksumOf(SubSeq(buffer, 4, 4 + size) \o crc) = <<0, 0>>

\* What a read says, and the marks it has learned from it: a read that is refused
\* teaches them too. For a header that promises more than arrived the program reads behind the
\* read, which is none of the inputs here.
Extract(packet, buffer) ==
    LET size == PayloadSize(packet, buffer)
        fields == [id |-> At(buffer, 3), type |-> TypeOf(packet, buffer),
                   payload |-> SubSeq(buffer, 5, 4 + size)]
    IN  IF Len(buffer) < 6 THEN [packet |-> packet, data |-> None]
        ELSE [packet |-> [packet EXCEPT !.startOfMessage = Head(buffer),
                                        !.endOfMessage = Last(buffer)],
              data |-> Read(/\ TypeOf(packet, buffer) # None
                            /\ Names(GalaxyBuds!GalaxyBudsMsgIds, At(buffer, 3))
                            /\ Intact(buffer, size), fields)]

(***************************************************************************)
(* Two reads, each of a packet, of which the first may be damaged and may  *)
(* come with another one, and then a request.                              *)
(***************************************************************************)
Marks(isLegacy) == IF isLegacy THEN <<254, 238>> ELSE <<253, 221>>
\* What headphones send: their type is a bit of the header, and so is whether more follows.
Sent(isLegacy, report) ==
    LET marks == Marks(isLegacy)
        own == [isLegacy |-> isLegacy, startOfMessage |-> marks[1], endOfMessage |-> marks[2]]
        bytes == Encode(own, report.id, report.payload)
    IN  IF isLegacy THEN [bytes EXCEPT ![2] = report.type]
        ELSE [bytes EXCEPT ![3] = @ + 16 * report.type + 32 * report.more]
Reports ==
    [id : {66, 97, 1}, payload : {<<>>, <<120, 2>>, <<1, 0, 255, 253, 221>>},
     type : {0, 1}, more : {0, 1}]
Second == [id |-> 119, payload |-> <<1, 0>>, type |-> 1, more |-> 0]
Inputs ==
    [isLegacy : BOOLEAN, first : Reports, at : 0..9, as : {0, 66, 221}, merged : BOOLEAN]

FirstRead(input) ==
    LET bytes == Sent(input.isLegacy, input.first)
        damage == DOMAIN bytes \cap ({input.at} \ {2, 3})
    IN  [i \in DOMAIN bytes |-> IF i \in damage THEN input.as ELSE bytes[i]]
            \o (IF input.merged THEN Sent(input.isLegacy, Second) ELSE <<>>)
Says(data, report) == data # None /\ data.id = report.id /\ data.payload = report.payload

RequestTrue(isLegacy, request) ==
    /\ <<Head(request), Last(request)>> = Marks(isLegacy)
    /\ Says(Extract(GalaxyBudsPacket(isLegacy), request).data, [id |-> 120, payload |-> <<2>>])
SecondTrue(isLegacy, read) ==
    Says(read.data, Second) /\ RequestTrue(isLegacy, Encode(read.packet, 120, <<2>>))
FirstTrue(input, read, bytes) ==
    LET damaged == input.at \in 4..(Len(bytes) - 1) /\ bytes[input.at] # input.as IN
    /\ IF input.first.id # 1 /\ ~damaged THEN Says(read.data, input.first) ELSE read.data = None
    /\ SecondTrue(input.isLegacy, Extract(read.packet, Sent(input.isLegacy, Second)))

\* A packet is read as it was sent, whatever arrives behind it, unless any byte between the header
\* and the last mark is damaged; whatever the damage, the next packet is read, and the request
\* that follows it reaches headphones as what it is, in their marks.
FramesTrue(input) ==
    FirstTrue(input, Extract(GalaxyBudsPacket(input.isLegacy), FirstRead(input)),
              Sent(input.isLegacy, input.first))
=============================================================================
