------------------------------ MODULE AapEvents ------------------------------
(***************************************************************************)
(* What Apple headphones say without being asked: where the headphones     *)
(* are, whether their wearer speaks, and what their microphone hears. How  *)
(* the program's volume and players follow is Wearing's subject, when the  *)
(* microphone runs Microphone's.                                           *)
(***************************************************************************)
EXTENDS AapPackets

CONSTANTS
    MaxInputLength,     \* 512 in the program
    FrameSamples        \* 480 in the program

\* What a capability shows, and how often it has told the clients.
NewCapability(option) == [isAvailable |-> FALSE, option |-> option, told |-> 0]
Tells(capability, option) ==
    [isAvailable |-> TRUE, option |-> option, told |-> capability.told + 1]
Changes(capability, option) ==
    IF capability.isAvailable /\ capability.option = option THEN capability
    ELSE Tells(capability, option)

(***************************************************************************)
(* Ears                                                                    *)
(***************************************************************************)
AapEarDetectionState == [InEar |-> 0, OutEar |-> 1, InCase |-> 2, InClosedCase |-> 3]

AapEarDetectionWatcher(data) ==
    Read(/\ Len(data) >= 8 /\ At(data, 4) = AapCmd.EarDetection
         /\ Names(AapEarDetectionState, At(data, 6)) /\ Names(AapEarDetectionState, At(data, 7)),
         <<At(data, 6), At(data, 7)>>)

DeviceEarStatus == [NotAvailable |-> 0, Worn |-> 1, PartiallyWorn |-> 2, NotWorn |-> 3]

ToDeviceEarDetectionData(state) ==
    LET In(ear) == state[ear] = AapEarDetectionState.InEar
        Closed(ear) == state[ear] = AapEarDetectionState.InClosedCase
        One(ear) == IF In(ear) THEN DeviceEarStatus.Worn ELSE DeviceEarStatus.NotWorn
    IN  CASE Closed(1) /\ Closed(2) -> DeviceEarStatus.NotAvailable
          [] Closed(1) /\ ~Closed(2) -> One(2)
          [] ~Closed(1) /\ Closed(2) -> One(1)
          [] ~Closed(1) /\ ~Closed(2) /\ In(1) = In(2) -> One(1)
          [] OTHER -> DeviceEarStatus.PartiallyWorn

AapEarDetectionStateCapability(program, data) ==
    LET state == AapEarDetectionWatcher(data)
    IN  IF state = None THEN program
        ELSE [program EXCEPT !.ears = Changes(@, ToDeviceEarDetectionData(state))]

(***************************************************************************)
(* Conversations                                                           *)
(***************************************************************************)
AapConversationAwarenessMode == [On |-> 1, Off |-> 2]
AapConversationAwarenessState ==
    [Unknown |-> 0, StartSpeaking |-> 1, StopSpeaking1 |-> 4, StopSpeaking2 |-> 6,
     StopSpeaking3 |-> 8, StopSpeaking4 |-> 9]

AapSetConversationAwarenessStatus(mode) ==
    Setting(AapCmdSettings.ConversationAwareness, <<mode, 0, 0, 0>>)
AapConversationAwarenessWatcher(data) ==
    Read(/\ OfSetting(data, 10, AapCmdSettings.ConversationAwareness)
         /\ Names(AapConversationAwarenessMode, At(data, 7)), At(data, 7))
AapConversationAwarenessStateWatcher(data) ==
    Read(/\ Len(data) >= 10 /\ At(data, 4) = AapCmd.ConversationAwareness /\ At(data, 6) = 2
         /\ Names(AapConversationAwarenessState, At(data, 9)), At(data, 9))

\* The volume is a percentage of the user's settings, if it is there at all.
LoadVolumeSetting(volume) ==
    CASE volume = None \/ volume <= 0 -> 0
      [] volume # None /\ volume > 100 -> 100
      [] OTHER -> volume

\* What the clients are shown of it.
CreateJsonBody(program) ==
    [enabled |-> program.awareness.option, volume |-> LoadVolumeSetting(program.volume)]

AapConversationAwarenessCapability(program, data) ==
    LET mode == AapConversationAwarenessWatcher(data)
    IN  IF mode = None THEN program
        ELSE [program EXCEPT !.awareness = Changes(@, mode = AapConversationAwarenessMode.On)]

\* The headphones do not confirm what they are told.
SetConversationAwareness(program, enabled, volume) ==
    LET modes == AapConversationAwarenessMode
        mode == IF enabled THEN modes.On ELSE modes.Off
    IN  IF volume \notin 0..100 THEN program
        ELSE [program EXCEPT !.awareness = Tells(@, enabled), !.volume = volume,
                 !.sent = Append(@, AapSetConversationAwarenessStatus(mode)),
                 !.calls = IF enabled THEN @ ELSE Append(@, <<"stop", 0>>)]

\* Every report starts or stops the reduction of the volume, the same one again too.
AapConversationAwarenessStateCapability(program, data) ==
    LET state == AapConversationAwarenessStateWatcher(data)
        speaks == state = AapConversationAwarenessState.StartSpeaking
    IN  IF state = None THEN program
        ELSE [program EXCEPT !.speaking = Changes(@, speaks),
                 !.calls = Append(@, IF speaks THEN <<"start", LoadVolumeSetting(program.volume)>>
                                     ELSE <<"stop", 0>>)]

NewProgram(volume) ==
    [ears |-> NewCapability(DeviceEarStatus.NotAvailable), awareness |-> NewCapability(FALSE),
     speaking |-> NewCapability(FALSE), volume |-> volume, sent |-> <<>>, calls |-> <<>>]
\* A packet is shown to all of them.
OnResponseDataReceived(program, data) ==
    LET ears == AapEarDetectionStateCapability(program, data)
        awareness == AapConversationAwarenessCapability(ears, data)
    IN  AapConversationAwarenessStateCapability(awareness, data)

(***************************************************************************)
(* The microphone. What the codec, a library, makes of a piece of sound    *)
(* depends on its first byte here.                                         *)
(***************************************************************************)
AapSetMicrophoneOn == Packet(AapCmd.Microphone, <<0, 0, 9, 0, 0, 1, 130, 0, 0, 0, 4, 150, 0>>)
AapSetMicrophoneOff == Packet(AapCmd.Microphone, <<0, 0, 2, 0, 3, 1>>)

IsAudioPacket(data) ==
    /\ Len(data) >= 8
    /\ At(data, 0) = 4 /\ At(data, 2) = 4
    /\ At(data, 4) = AapCmd.Microphone /\ At(data, 5) = 0
    /\ At(data, 6) = 1 /\ At(data, 7) = 0

HeaderLength == 22
\* A frame has a header of 4 bytes and its length; one that is cut off ends the packet.
RECURSIVE Frames(_)
Frames(data) ==
    LET end == 5 + At(data, 4)
    IN  IF Len(data) < 5 \/ end > Len(data) THEN <<>>
        ELSE <<SubSeq(data, 6, end)>> \o Frames(SubSeq(data, end + 1, Len(data)))
AapMicrophoneWatcher(data) ==
    LET frames == Frames(SubSeq(data, HeaderLength + 1, Len(data)))
    IN  IF ~IsAudioPacket(data) \/ Len(data) < HeaderLength \/ frames = <<>> THEN None ELSE frames

\* AacEldDecoder: what it has allocated once its construction, one step of which may fail, ends.
Steps == {"codec", "context", "extradata", "open", "packet", "frame"}
Free(allocated) == allocated \ {"frame", "packet", "context"}
Construct(failing) ==
    CASE failing \in {"codec", "context"} -> {}
      [] failing \in {"extradata", "open"} -> Free({"context"})
      [] failing \in {"packet", "frame"} -> Free({"context", "packet", "frame"} \ {failing})
      [] OTHER -> {"context", "packet", "frame"}
IsOpen(decoder) == {"context", "packet", "frame"} \subseteq decoder

\* A number that is not whole is counted in halves here; .5 is rounded away from 0.
FloatToInt16(sample) ==
    LET size == IF sample < 0 THEN -sample ELSE sample
        rounded == ((IF size > 2 THEN 2 ELSE size) * 32767 + 1) \div 2
    IN  IF sample < 0 THEN -rounded ELSE rounded

\* A frame the codec has decoded: its planes, one for each channel if the format has such.
Planar(format) == format \in {"FLTP", "S16P"}
Samples16(format, samples) ==
    IF format \in {"FLTP", "FLT"} THEN [i \in DOMAIN samples |-> FloatToInt16(samples[i])]
    ELSE samples
\* Fault: one plane after the other.
SamplesByPlane(frame) ==
    FlattenSeq([p \in DOMAIN frame.planes |-> Samples16(frame.format, frame.planes[p])])
SamplesOf(frame) ==
    LET total == frame.samples * frame.channels
        Interleaved(i) ==
            frame.planes[((i - 1) % frame.channels) + 1][(i - 1) \div frame.channels + 1]
    IN  Samples16(frame.format,
            IF Planar(frame.format) THEN [i \in 1..total |-> Interleaved(i)] ELSE frame.planes[1])

\* What is added to the sound for a piece of the stream; None if it cannot be decoded.
Decode(decoder, unit, frame) ==
    Read(/\ IsOpen(decoder) /\ unit # <<>> /\ Len(unit) <= MaxInputLength
         /\ frame # None /\ frame.channels > 0 /\ frame.samples > 0
         /\ frame.format \in {"FLTP", "FLT", "S16P", "S16"}, SamplesOf(frame))

\* What the codec makes of a piece of the stream, by its first byte: samples with their channels.
Recorded(unit) ==
    CASE unit = <<>> \/ unit[1] > 4 -> <<>>
      [] unit # <<>> /\ unit[1] \in {1, 4} -> <<<<2>>, <<-1>>, <<5>>, <<-3>>>>
      [] OTHER -> <<<<7, -300>>, <<32767, -32768>>, <<1, 2>>>>
Formats == <<"FLTP", "S16P", "S16", "FLT", "DBL">>
FrameOf(unit) ==
    LET recorded == IF unit[1] = 5 THEN <<<<1>>>> ELSE Recorded(unit)
        channels == IF recorded = <<>> THEN 0 ELSE Len(recorded[1])
    IN  IF unit[1] = 7 THEN None
        ELSE [format |-> Formats[IF unit[1] = 6 THEN 1 ELSE unit[1]], channels |-> channels,
              samples |-> Len(recorded),
              planes |-> IF unit[1] \in {1, 2}
                         THEN [c \in 1..channels |-> [s \in DOMAIN recorded |-> recorded[s][c]]]
                         ELSE <<FlattenSeq(recorded)>>]

\* DecodeLoop(): silence for what cannot be decoded.
Silence == [i \in 1..FrameSamples |-> 0]
Pcm(decoder, units) ==
    LET Samples(unit) == Decode(decoder, unit, FrameOf(unit))
    IN  FlattenSeq([i \in DOMAIN units |->
            IF Samples(units[i]) = None THEN Silence ELSE Samples(units[i])])

\* VirtualMicrophoneOutput::Write(), without gain control. The FIFO takes at most as many bytes
\* at a time as "takes" says, 0 stands for an interrupted call and -1 for a failed one.
RECURSIVE Write(_, _, _)
Write(fifo, bytes, takes) ==
    CASE bytes = <<>> -> [fifo |-> fifo, broken |-> FALSE]
      [] bytes # <<>> /\ takes # <<>> /\ Head(takes) = -1 -> [fifo |-> fifo, broken |-> TRUE]
      [] OTHER ->
             LET size == IF takes = <<>> THEN Len(bytes) ELSE Min({Head(takes), Len(bytes)})
             IN  Write(fifo \o SubSeq(bytes, 1, size), SubSeq(bytes, size + 1, Len(bytes)),
                       IF takes = <<>> THEN <<>> ELSE Tail(takes))
SampleBytes(samples) ==
    FlattenSeq([i \in DOMAIN samples |-> <<<<samples[i], 1>>, <<samples[i], 2>>>>])

(***************************************************************************)
(* What headphones say, and what becomes of it.                            *)
(***************************************************************************)
Said ==
    {<<"ears", ears>> : ears \in {0, 1, 3} \X {0, 1, 3} \cup {<<2, 0>>, <<9, 0>>}}
        \cup {<<"speech", s>> : s \in {0, 1, 5, 9}} \cup {<<"mode", m>> : m \in {1, 2, 3}}
        \cup {<<"set", <<e, v>>>> : e \in BOOLEAN, v \in {-1, 40}} \cup {<<"short", <<>>>>}
SaidPacket(said) ==
    CASE said[1] = "ears" -> Packet(AapCmd.EarDetection, said[2])
      [] said[1] = "speech" -> Packet(AapCmd.ConversationAwareness, <<2, 0, 1, said[2]>>)
      [] said[1] = "mode" -> AapSetConversationAwarenessStatus(said[2])
      [] OTHER -> Packet(AapCmd.EarDetection, <<0>>)

Whole == (-3 :> -32767) @@ (-1 :> -16384) @@ (2 :> 32767) @@ (5 :> 32767)
Heard(unit) ==
    LET sound == FlattenSeq(Recorded(unit)) IN
    CASE Len(unit) > MaxInputLength \/ sound = <<>> -> Silence
      [] Len(unit) <= MaxInputLength /\ sound # <<>> /\ unit[1] \in {1, 4} ->
             [i \in DOMAIN sound |-> Whole[sound[i]]]
      [] OTHER -> sound

Units == {<<>>, <<1>>, <<2, 0>>, <<3>>, <<4>>, <<5>>, <<6>>, <<7>>, <<1, 0, 0, 0, 0>>}
SoundPacket(units) ==
    Packet(AapCmd.Microphone, <<1>> \o [i \in 1..15 |-> 0]
               \o FlattenSeq([i \in DOMAIN units |-> <<9, 9, 9, 9, Len(units[i])>> \o units[i]]))
Inputs ==
    [kind : {"said"}, volume : {None, -5, 30, 500}, said : SeqOf(Said, 2)]
        \cup [kind : {"sound"}, units : SeqOf(Units, 2), cut : 0..6, takes : SeqOf({-1, 0, 3}, 2)]
        \cup [kind : {"decoder"}, failing : Steps \cup {"none"}]

After(input) ==
    LET Next(program, said) ==
            IF said[1] = "set" THEN SetConversationAwareness(program, said[2][1], said[2][2])
            ELSE OnResponseDataReceived(program, SaidPacket(said))
    IN  FoldLeft(Next, NewProgram(input.volume), input.said)
Differ(options) == {i \in DOMAIN options : i = 1 \/ options[i] # options[i - 1]}
Shows(capability, options) ==
    /\ capability.isAvailable = (options # <<>>)
    /\ options # <<>> => capability.option = Last(options)

\* The last thing that made sense is shown, every change of it has been told once, and the volume
\* is reduced and restored as often as the headphones and the user ask for it.
SaidTrue(input) ==
    LET program == After(input)
        said == input.said
        Sense(i) ==
            CASE said[i][1] = "ears" -> ToSet(said[i][2]) \subseteq 0..3
              [] said[i][1] = "speech" -> said[i][2] \in {0, 1, 9}
              [] said[i][1] = "mode" -> said[i][2] \in {1, 2}
              [] said[i][1] = "set" -> said[i][2][2] >= 0
              [] OTHER -> FALSE
        About(matters) == SetToSortSeq({i \in DOMAIN said : said[i][1] \in matters /\ Sense(i)}, <)
        Worn(i) ==
            LET there == SelectSeq(said[i][2], LAMBDA ear : ear # 3)
                worn == SelectSeq(there, LAMBDA ear : ear = 0)
            IN  CASE there = <<>> -> DeviceEarStatus.NotAvailable
                  [] there # <<>> /\ worn = <<>> -> DeviceEarStatus.NotWorn
                  [] there # <<>> /\ worn = there -> DeviceEarStatus.Worn
                  [] OTHER -> DeviceEarStatus.PartiallyWorn
        On(i) == IF said[i][1] = "set" THEN said[i][2][1] ELSE said[i][2] = 1
        ears == [k \in DOMAIN About({"ears"}) |-> Worn(About({"ears"})[k])]
        speech == [k \in DOMAIN About({"speech"}) |-> said[About({"speech"})[k]][2] = 1]
        modes == About({"mode", "set"})
        on == [k \in DOMAIN modes |-> On(modes[k])]
        Volume(i) ==
            LET sets == {j \in 1..i : said[j][1] = "set" /\ Sense(j)}
                volume == IF sets = {} THEN input.volume ELSE said[Max(sets)][2][2]
            IN  IF volume = None THEN 0 ELSE CHOOSE v \in 0..100 :
                    \A w \in 0..100 : (v - volume) * (v - volume) <= (w - volume) * (w - volume)
        Call(i) ==
            CASE said[i][1] = "speech" /\ Sense(i) /\ said[i][2] = 1 -> <<<<"start", Volume(i)>>>>
              [] said[i][1] = "speech" /\ Sense(i) /\ said[i][2] # 1 -> <<<<"stop", 0>>>>
              [] said[i][1] = "set" /\ Sense(i) /\ ~On(i) -> <<<<"stop", 0>>>>
              [] OTHER -> <<>>
    IN  /\ Shows(program.ears, ears) /\ program.ears.told = Cardinality(Differ(ears))
        /\ Shows(program.speaking, speech) /\ program.speaking.told = Cardinality(Differ(speech))
        /\ Shows(program.awareness, on)
        /\ program.awareness.told =
               Cardinality(Differ(on) \cup {k \in DOMAIN modes : said[modes[k]][1] = "set"})
        /\ CreateJsonBody(program).volume = Volume(Len(said))
        /\ program.calls = FlattenSeq([i \in DOMAIN said |-> Call(i)])

\* Programs listen to the pieces of the stream that have arrived whole, in their order, and to
\* silence for those that cannot be decoded, up to a write that fails.
SoundTrue(input) ==
    LET packet == SoundPacket(input.units)
        data == SubSeq(packet, 1, Len(packet) - input.cut)
        End(k) == Len(SoundPacket(SubSeq(input.units, 1, k)))
        whole == SelectSeq([k \in DOMAIN input.units |-> k], LAMBDA k : End(k) <= Len(data))
        bytes == SampleBytes(FlattenSeq([k \in DOMAIN whole |-> Heard(input.units[k])]))
        frames == AapMicrophoneWatcher(data)
        written == Write(<<>>, SampleBytes(Pcm(Construct("none"), frames)), input.takes)
    IN  /\ frames = IF whole = <<>> THEN None ELSE SubSeq(input.units, 1, Len(whole))
        /\ frames # None =>
               /\ IsPrefix(written.fifo, bytes)
               /\ written.broken \/ written.fifo = bytes
               /\ written.broken => Contains(input.takes, -1)

\* A decoder is used as it was meant to be, or not at all and keeps nothing.
DecoderTrue(input) ==
    LET decoder == Construct(input.failing)
    IN  IF input.failing = "none" THEN IsOpen(decoder) ELSE decoder = {}

EventsTrue(input) ==
    CASE input.kind = "said" -> SaidTrue(input)
      [] input.kind = "sound" -> SoundTrue(input)
      [] OTHER -> DecoderTrue(input)
=============================================================================
