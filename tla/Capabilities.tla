---------------------------- MODULE Capabilities ----------------------------
(***************************************************************************)
(* The capabilities of Apple headphones, Galaxy Buds and Pixel Buds: a      *)
(* setting is kept here as `option` and by the headphones as `register`,    *)
(* and packets both ways are to keep the two the same while users change it *)
(* on either side.                                                          *)
(*                                                                         *)
(* Threads: the reader takes the reports, the server's loop runs            *)
(* SetFromJson(), the one that has connected sends the start data, and      *)
(* whoever connects or loses the link tells the capability so. Capabilities *)
(* hold no lock. They share nothing but the order of packets, so a          *)
(* behaviour is about one of them, any of Tested.                           *)
(***************************************************************************)
EXTENDS AapCapabilityTable, GalaxyBudsPackets, PixelBudsPackets

CONSTANT Tested
    \* the capabilities of headphones a behaviour may be about, as pairs of a name and a model,
    \* with bounds for each: requests of clients, changes at the headphones and reports nobody
    \* understands, and connections

Brand(m) ==
    CASE m \in GalaxyBudsModelIds -> "galaxy" [] m \in PixelBudsModelIds -> "pixel"
      [] OTHER -> "apple"

\* Capabilities that headphones have, with bounds.
Testable ==
    /\ \A t \in DOMAIN Tested :
           IF Brand(t[2]) = "apple" THEN Supports(t[2], t[1]) ELSE t[1] \in {"anc", "battery"}
    /\ Tested \in [DOMAIN Tested -> [sets : Nat, changes : Nat, links : Nat]]
ASSUME CapabilitiesAssumption == Testable

VARIABLES
    which,         \* the name of the capability and the model of the headphones
    option, available,
    saved,         \* its value in the settings file, or None
    shown,         \* what clients were told last, or None
    register,      \* the headphones' value, as a packet that says so
    link,          \* "up" or "down"
    client,        \* _clientState
    starting,      \* the start data that is left to send
    learned,       \* what headphones have to tell before they can be asked: startOfMessage and
                   \* endOfMessage of Galaxy Buds, _channelId of Pixel Buds
    toHeadphones,  \* packets on their way, in _outcomeMessagesQueue or sent
    toProgram,     \* reports on their way, with the number of requests they follow
    connecting, loaded,   \* the step of a Connected handler, and the setting it has read
    dropping,      \* the step of a Disconnected handler
    reader,        \* the step of the reader, or the subscription it sends
    server,        \* the step of SetFromJson() and its value
    sent,          \* requests sent
    crossed,       \* history: the last report taken and a request have met on the way
    overlapped,    \* history: SetFromJson() has run while the headphones connected
    offline,       \* history: made available while disconnected
    swallowed,     \* history: the last report was received with another one, and not read
    counts

vars == <<which, option, available, saved, shown, register, link, client, starting,
          learned, toHeadphones, toProgram, connecting, loaded, dropping, reader, server, sent,
          crossed, overlapped, offline, swallowed, counts>>
handshake == <<starting, learned>>
history == <<crossed, overlapped, offline, swallowed>>

CapabilityOf(n, m) ==
    CASE Brand(m) = "galaxy" -> GalaxyBudsCapabilityOf(n, m)
      [] Brand(m) = "pixel" -> PixelBudsCapabilityOf(n, m)
      [] OTHER -> AapCapabilityOf(n, m)
Table == [t \in DOMAIN Tested |-> CapabilityOf(t[1], t[2])]
Capability == Table[which]
Model == which[2]
Stored == Capability.rule = "stored"

-----------------------------------------------------------------------------
(* What is sent. *)

Hello == AapEnableNotifications(255)
StartData(m) ==
    CASE Brand(m) = "galaxy" -> <<>> [] Brand(m) = "pixel" -> CreateChannelProbes
      [] OTHER -> <<Hello>>

\* What is known of headphones that have not told anything, and the one thing they do tell.
Unlearned(m) == IF Brand(m) = "galaxy" THEN <<0, 0>> ELSE None
Spoken(m) ==
    CASE Brand(m) = "galaxy" -> GalaxyBudsMarks(m) [] Brand(m) = "pixel" -> PixelBudsChannel
      [] OTHER -> None

\* A request the way it is sent, with what is known of the headphones.
Framed(m, known, request) ==
    CASE Brand(m) = "galaxy" -> Encode(known, request)
      [] Brand(m) = "pixel" -> SendPacket(known, request)
      [] OTHER -> request
Frame(request) == Framed(Model, learned, request)

\* What the headphones answer with what they have; the answers they may give to a probe; and the
\* requests they do, with what they have then. They do not have every mode of noise control.
Subscriptions(m) ==
    IF Brand(m) = "pixel"
    THEN {SendPacket(PixelBudsChannel, r) : r \in Range(SubscribeToBudsEvents)} ELSE {}
Prompts ==
    [t \in DOMAIN Tested |->
        CASE Brand(t[2]) = "galaxy" -> {}
          [] Brand(t[2]) = "pixel" ->
                 {SendPacket(PixelBudsChannel,
                      SubscribeToBudsEvents[IF t[1] = "anc" THEN "setting" ELSE "runtime"])}
          [] OTHER -> {Hello}]
Probes(m) == IF Brand(m) = "pixel" THEN Range(StartData(m)) ELSE {}
DoneOf(c, m, known) ==
    LET By(frame) == CHOOSE r \in DOMAIN c.done : Framed(m, known, r) = frame
    IN  [frame \in {Framed(m, known, r) : r \in DOMAIN c.done \ c.lacks} |-> c.done[By(frame)]]
Requests == [t \in DOMAIN Tested |-> DoneOf(Table[t], t[2], Spoken(t[2]))]

\* What is not a client's request.
Unasked == [t \in DOMAIN Tested |-> Range(StartData(t[2])) \cup Subscriptions(t[2])]

-----------------------------------------------------------------------------
Idle == [at |-> "idle", value |-> None]

Json == IF available THEN option ELSE None

Init ==
    /\ which \in DOMAIN Tested
    /\ option \in Capability.first
    /\ saved \in IF Stored THEN {None} \cup Capability.asked \cup Capability.refused ELSE {None}
    /\ register \in IF Capability.reports = {} THEN {None} ELSE Capability.reports
    /\ available = FALSE /\ shown = None
    /\ link = "down" /\ client = "Disconnected"
    /\ starting = <<>> /\ learned = Unlearned(Model)
    /\ toHeadphones = <<>> /\ toProgram = <<>>
    /\ connecting = "idle" /\ loaded = None /\ dropping = "idle"
    /\ reader = "idle" /\ server = Idle
    /\ sent = 0
    /\ crossed = FALSE /\ overlapped = FALSE /\ offline = FALSE /\ swallowed = FALSE
    /\ counts = [sets |-> 0, changes |-> 0, links |-> 0]

Count(what) ==
    /\ counts[what] < Tested[which][what]
    /\ counts' = [counts EXCEPT ![what] = @ + 1]
Put(frame) == toHeadphones' = Append(toHeadphones, frame)

\* Pixel Buds cannot be asked anything before their channel is known.
SendData(request) ==
    IF Brand(Model) = "pixel" /\ learned = None THEN UNCHANGED <<toHeadphones, sent>>
    ELSE Put(Frame(request)) /\ sent' = sent + 1

\* A report follows the requests that are no longer on their way when it is sent.
Following(packet, waiting) ==
    [packet |-> packet,
     follows |-> sent - Len(SelectSeq(waiting, LAMBDA f : f \notin Unasked[which]))]
Report(packet, waiting) == toProgram' = Append(toProgram, Following(packet, waiting))

-----------------------------------------------------------------------------
(* SetFromJson() on the server's loop. *)

Idling == server.at = "idle"
Then(at, value) == server' = [at |-> at, value |-> value]

\* Only AirPods' capabilities test the number before they make a byte of it.
Selected(value) == IF Brand(Model) = "apple" THEN value ELSE value % 256

\* The headphones will report what they make of it.
SetConfirmed(value) ==
    /\ Capability.rule = "confirmed"
    /\ SendData(Capability.send[Selected(value)])
    /\ UNCHANGED <<server, overlapped>>

\* They may not, so the option is changed at once.
SetAtOnce(value) ==
    /\ Capability.rule \in {"optimistic", "assumed"}
    /\ SendData(Capability.send[value])
    /\ Then("apply", value)
    /\ UNCHANGED overlapped

\* One earbud's mode goes into what is known of both.
SetMerged(value) ==
    /\ Capability.rule = "merged"
    /\ available /\ option # None
    /\ LET new == IF value[1] = "right" THEN SetRight(option, value[2])
                                        ELSE SetLeft(option, value[2])
       IN  /\ new # option
           /\ SendData(Capability.send[new])
           /\ Then("apply", new)
    /\ UNCHANGED overlapped

SetStored(value) ==
    /\ Stored
    /\ \E kept \in {Capability.kept[value]} :
           /\ IF kept \in DOMAIN Capability.send
              THEN SendData(Capability.send[kept]) ELSE UNCHANGED <<toHeadphones, sent>>
           /\ Then("save", kept)
    /\ overlapped' = (connecting # "idle")

\* Any other value, and any for a read-only capability, is ignored: there is no step for it.
SetFromJson(value) ==
    /\ Idling /\ Count("sets")
    /\ SetConfirmed(value) \/ SetAtOnce(value) \/ SetMerged(value) \/ SetStored(value)
    /\ crossed' = FALSE
    /\ UNCHANGED <<which, option, available, saved, shown, register, link, client, handshake,
                   toProgram, connecting, loaded, dropping, reader, offline, swallowed>>

Save ==
    /\ server.at = "save"
    /\ saved' = server.value
    /\ Then("apply", server.value)
    /\ UNCHANGED <<which, option, available, shown, register, link, client, handshake,
                   toHeadphones, toProgram, connecting, loaded, dropping, reader, sent, history,
                   counts>>

\* Hearing protection, sleep detection and charging do not wait for a report to be available.
Apply ==
    /\ server.at = "apply"
    /\ option' = server.value
    /\ available' = (available \/ Capability.rule = "assumed")
    /\ IF option' # option \/ available' # available \/ Capability.rule = "merged"
       THEN Then("fire", None) ELSE server' = Idle
    /\ offline' = (offline \/ (available' /\ client = "Disconnected"))
    /\ UNCHANGED <<which, saved, shown, register, link, client, handshake, toHeadphones,
                   toProgram, connecting, loaded, dropping, reader, sent, crossed, overlapped,
                   swallowed, counts>>

FireServer ==
    /\ server.at = "fire"
    /\ shown' = Json
    /\ server' = Idle
    /\ UNCHANGED <<which, option, available, saved, register, link, client, handshake,
                   toHeadphones, toProgram, connecting, loaded, dropping, reader, sent, history,
                   counts>>

-----------------------------------------------------------------------------
(* Reports, on the reader. *)

\* Fault: the first value is only told when it differs from the initial one.
TakeChange(value) ==
    LET new == IF Capability.rule = "battery" THEN UpdateBattery(option, value) ELSE value
        told == Capability.rule = "event" \/ new # option
    IN  IF told THEN option' = new /\ available' = TRUE /\ reader' = "fire"
        ELSE UNCHANGED <<option, available, reader>>

\* A first value is told to clients, and so is a value that differs; every press of the stem is.
Take(value) ==
    LET new == IF Capability.rule = "battery" THEN UpdateBattery(option, value) ELSE value
        told == CASE Capability.rule = "event" -> TRUE
                  [] Capability.rule = "battery" -> new # option
                  [] OTHER -> ~available \/ new # option
    IN  IF told THEN option' = new /\ available' = TRUE /\ reader' = "fire"
        ELSE UNCHANGED <<option, available, reader>>

Reading(packet) == IF packet \in DOMAIN Capability.read THEN Capability.read[packet] ELSE None

Receiving == link = "up" /\ client = "Connected" /\ reader = "idle" /\ toProgram # <<>>
First == Head(toProgram)

\* An answer to a probe, unless one was taken before or it is on a channel without an address.
TellsChannel ==
    /\ Brand(Model) = "pixel" /\ learned = None
    /\ IsSoftwareInfo(First.packet)
    /\ HasAddress(First.packet.channel)

ReceiveChannel ==
    /\ Receiving /\ TellsChannel
    /\ learned' = First.packet.channel
    /\ reader' = "runtime"
    /\ toProgram' = Tail(toProgram)
    /\ UNCHANGED <<which, option, available, saved, shown, register, link, client, starting,
                   toHeadphones, connecting, loaded, dropping, server, sent, history, counts>>

\* Once the channel is known the headphones are asked to tell what they have.
Subscribe ==
    /\ reader \in DOMAIN SubscribeToBudsEvents
    /\ Put(Frame(SubscribeToBudsEvents[reader]))
    /\ reader' = SubscribesNext[reader]
    /\ UNCHANGED <<which, option, available, saved, shown, register, link, client, handshake,
                   toProgram, connecting, loaded, dropping, server, sent, history, counts>>

\* The marks are learned one after the other.
LearnStart ==
    /\ Receiving /\ Brand(Model) = "galaxy"
    /\ learned[1] # First.packet.marks[1]
    /\ learned' = <<First.packet.marks[1], learned[2]>>
    /\ UNCHANGED <<which, option, available, saved, shown, register, link, client, starting,
                   toHeadphones, toProgram, connecting, loaded, dropping, reader, server, sent,
                   history, counts>>

Handle(value, missed) ==
    /\ IF value = None THEN UNCHANGED <<option, available, reader, crossed>>
       ELSE Take(value) /\ crossed' = (First.follows < sent \/ ~Idling)
    /\ swallowed' = (missed \/ (swallowed /\ value = None))

\* Of Galaxy Buds' reports that are received together only the first is read.
Receive ==
    /\ Receiving /\ ~TellsChannel
    /\ Brand(Model) = "galaxy" => learned[1] = First.packet.marks[1]
    /\ \E n \in 1 .. IF Brand(Model) = "galaxy" THEN Len(toProgram) ELSE 1 :
           /\ toProgram' = SubSeq(toProgram, n + 1, Len(toProgram))
           /\ learned' = IF Brand(Model) = "galaxy"
                         THEN <<learned[1], toProgram[n].packet.marks[2]>> ELSE learned
           /\ Handle(Reading(First.packet),
                     \E i \in 2 .. n : Reading(toProgram[i].packet) # None)
    /\ UNCHANGED <<which, saved, shown, register, link, client, starting, toHeadphones,
                   connecting, loaded, dropping, server, sent, overlapped, offline, counts>>

FireReader ==
    /\ reader = "fire"
    /\ shown' = Json
    /\ reader' = "idle"
    /\ UNCHANGED <<which, option, available, saved, register, link, client, handshake,
                   toHeadphones, toProgram, connecting, loaded, dropping, server, sent, history,
                   counts>>

-----------------------------------------------------------------------------
(* The link, as Device and Client make it; the order of their steps is theirs. *)

\* What waits since before goes out first, then the first of the start data. Galaxy Buds tell
\* what they have without being asked.
Up ==
    /\ link = "down" /\ client # "Connected"
    /\ connecting = "idle" /\ dropping = "idle" /\ starting = <<>>
    /\ Count("links")
    /\ link' = "up"
    /\ IF StartData(Model) = <<>> THEN UNCHANGED <<starting, toHeadphones>>
       ELSE starting' = Tail(StartData(Model)) /\ Put(Head(StartData(Model)))
    /\ IF Brand(Model) = "galaxy" /\ Capability.reports # {}
       THEN Report(register, toHeadphones) ELSE UNCHANGED toProgram
    /\ UNCHANGED <<which, option, available, saved, shown, register, client, learned,
                   connecting, loaded, dropping, reader, server, sent, history>>

\* What is left of the probes is not sent once one was answered.
SendStart ==
    /\ starting # <<>>
    /\ IF Brand(Model) = "pixel" /\ learned # None
       THEN starting' = <<>> /\ UNCHANGED toHeadphones
       ELSE starting' = Tail(starting) /\ Put(Head(starting))
    /\ UNCHANGED <<which, option, available, saved, shown, register, link, client, learned,
                   toProgram, connecting, loaded, dropping, reader, server, sent, history,
                   counts>>

\* What the writer had taken is lost, what it had not is kept, and so may be the register.
Lose ==
    /\ link = "up"
    /\ link' = "down"
    /\ toProgram' = <<>>
    /\ \E lost \in 0 .. Len(toHeadphones) :
           toHeadphones' = SubSeq(toHeadphones, lost + 1, Len(toHeadphones))
    /\ register' \in IF Stored THEN {register, None} ELSE {register}
    /\ UNCHANGED <<which, option, available, saved, shown, client, handshake, connecting,
                   loaded, dropping, reader, server, sent, history, counts>>

\* Whoever has sent the start data says so, or the reader with the first data.
Connected ==
    /\ link = "up" /\ client # "Connected"
    /\ starting = <<>> \/ toProgram # <<>>
    /\ client' = "Connected"
    /\ connecting' = IF Stored THEN "reset" ELSE connecting
    /\ overlapped' = (Stored /\ ~Idling)
    /\ UNCHANGED <<which, option, available, saved, shown, register, link, handshake,
                   toHeadphones, toProgram, loaded, dropping, reader, server, sent, crossed,
                   offline, swallowed, counts>>

\* The link is not looked at before the start data is sent, and Stop() waits for the reader.
Stopped == link = "down" /\ starting = <<>> /\ reader = "idle"

\* Pixel Buds are asked for their channel again, Galaxy Buds' marks stay the same.
ResetProtocolState == learned' = IF Brand(Model) = "pixel" THEN None ELSE learned

SetReconnecting ==
    /\ Stopped /\ client = "Connected"
    /\ client' = "Reconnecting"
    /\ ResetProtocolState
    /\ UNCHANGED <<which, option, available, saved, shown, register, link, starting,
                   toHeadphones, toProgram, connecting, loaded, dropping, reader, server, sent,
                   history, counts>>

SetDisconnected ==
    /\ Stopped /\ client # "Disconnected"
    /\ client' = "Disconnected"
    /\ ResetProtocolState
    /\ dropping' = "reset"
    /\ UNCHANGED <<which, option, available, saved, shown, register, link, starting,
                   toHeadphones, toProgram, connecting, loaded, reader, server, sent, history,
                   counts>>

Reset ==
    /\ dropping = "reset"
    /\ available' = FALSE
    /\ option' = IF Capability.rule = "battery" THEN NoBatteries ELSE option
    /\ offline' = FALSE
    /\ dropping' = "fire"
    /\ UNCHANGED <<which, saved, shown, register, link, client, handshake, toHeadphones,
                   toProgram, connecting, loaded, reader, server, sent, crossed, overlapped,
                   swallowed, counts>>

FireDropped ==
    /\ dropping = "fire"
    /\ shown' = Json
    /\ dropping' = "idle"
    /\ UNCHANGED <<which, option, available, saved, register, link, client, handshake,
                   toHeadphones, toProgram, connecting, loaded, reader, server, sent, history,
                   counts>>

-----------------------------------------------------------------------------
(* The Connected handler of a preference. *)

\* The value a setting stands for, if it is a valid one.
Loaded(value) == IF value \in DOMAIN Capability.kept THEN Capability.kept[value] ELSE None

TakeDefault ==
    /\ connecting = "reset"
    /\ option' = Capability.default
    /\ connecting' = "load"
    /\ UNCHANGED <<which, available, saved, shown, register, link, client, handshake,
                   toHeadphones, toProgram, loaded, dropping, reader, server, sent, history,
                   counts>>

LoadSetting ==
    /\ connecting = "load"
    /\ loaded' = Loaded(saved)
    /\ connecting' = "store"
    /\ UNCHANGED <<which, option, available, saved, shown, register, link, client, handshake,
                   toHeadphones, toProgram, dropping, reader, server, sent, history, counts>>

TakeLoaded ==
    /\ connecting = "store"
    /\ option' = IF loaded = None THEN option ELSE loaded
    /\ loaded' = None
    /\ connecting' = "apply"
    /\ UNCHANGED <<which, available, saved, shown, register, link, client, handshake,
                   toHeadphones, toProgram, dropping, reader, server, sent, history, counts>>

\* Fault: nothing is sent when the headphones are only reconnected.
ApplyPreferenceOnce ==
    /\ connecting = "apply"
    /\ IF ~available /\ option \in Capability.applied THEN SendData(Capability.send[option])
       ELSE UNCHANGED <<toHeadphones, sent>>
    /\ available' = TRUE
    /\ offline' = (offline \/ client = "Disconnected")
    /\ connecting' = "fire"
    /\ UNCHANGED <<which, option, saved, shown, register, link, client, handshake, toProgram,
                   loaded, dropping, reader, server, crossed, overlapped, swallowed, counts>>

ApplyPreference ==
    /\ connecting = "apply"
    /\ IF option \in Capability.applied THEN SendData(Capability.send[option])
       ELSE UNCHANGED <<toHeadphones, sent>>
    /\ available' = TRUE
    /\ offline' = (offline \/ client = "Disconnected")
    /\ connecting' = "fire"
    /\ UNCHANGED <<which, option, saved, shown, register, link, client, handshake, toProgram,
                   loaded, dropping, reader, server, crossed, overlapped, swallowed, counts>>

FirePreference ==
    /\ connecting = "fire"
    /\ shown' = Json
    /\ connecting' = "idle"
    /\ UNCHANGED <<which, option, available, saved, register, link, client, handshake,
                   toHeadphones, toProgram, loaded, dropping, reader, server, sent, history,
                   counts>>

-----------------------------------------------------------------------------
(* The headphones. *)

\* They answer a request to be notified with what they have, presses aside.
DeliverPrompt ==
    /\ Head(toHeadphones) \in Prompts[which]
    /\ IF Capability.reports = {} \/ Capability.rule = "event" THEN UNCHANGED toProgram
       ELSE Report(register, Tail(toHeadphones))
    /\ UNCHANGED register

\* Pixel Buds answer a probe whatever the channel it is on.
DeliverProbe ==
    /\ Head(toHeadphones) \in Probes(Model)
    /\ \E answer \in SoftwareInfo : Report(answer, Tail(toHeadphones))
    /\ UNCHANGED register

\* Of what they are asked they always report the mode of noise control and may report anything
\* but preferences.
DeliverRequest ==
    /\ Head(toHeadphones) \in DOMAIN Requests[which]
    /\ register' \in Requests[which][Head(toHeadphones)]
    /\ \/ ~Stored /\ Report(register', Tail(toHeadphones))
       \/ Capability.rule # "confirmed" /\ UNCHANGED toProgram

\* They do nothing for anything else, be it a request they do not support or one that was made
\* before the program had learned how to.
Ignore ==
    /\ Head(toHeadphones) \notin
           Prompts[which] \cup Probes(Model) \cup DOMAIN Requests[which]
    /\ UNCHANGED <<register, toProgram>>

Deliver ==
    /\ link = "up" /\ toHeadphones # <<>>
    /\ toHeadphones' = Tail(toHeadphones)
    /\ DeliverPrompt \/ DeliverProbe \/ DeliverRequest \/ Ignore
    /\ UNCHANGED <<which, option, available, saved, shown, link, client, handshake, connecting,
                   loaded, dropping, reader, server, sent, history, counts>>

LocalChange ==
    /\ Count("changes")
    /\ register' \in Capability.reports \ {register}
    /\ IF link = "up" THEN Report(register', toHeadphones) ELSE UNCHANGED toProgram
    /\ UNCHANGED <<which, option, available, saved, shown, link, client, handshake,
                   toHeadphones, connecting, loaded, dropping, reader, server, sent, history>>

Noise ==
    /\ link = "up" /\ Count("changes")
    /\ \E packet \in Capability.noise : Report(packet, toHeadphones)
    /\ UNCHANGED <<which, option, available, saved, shown, register, link, client, handshake,
                   toHeadphones, connecting, loaded, dropping, reader, server, sent, history>>

-----------------------------------------------------------------------------

Server == (\E value \in Capability.asked : SetFromJson(value)) \/ Save \/ Apply \/ FireServer
Reader == LearnStart \/ Receive \/ ReceiveChannel \/ Subscribe \/ FireReader
Link == \/ Up \/ SendStart \/ Lose \/ Connected \/ SetReconnecting \/ SetDisconnected
        \/ Reset \/ FireDropped
        \/ TakeDefault \/ LoadSetting \/ TakeLoaded \/ ApplyPreference \/ FirePreference
Headphones == Deliver \/ LocalChange \/ Noise

Next == Server \/ Reader \/ Link \/ Headphones
Spec == Init /\ [][Next]_vars

-----------------------------------------------------------------------------
(* Properties. *)

\* What may be known of the headphones, the packets that may be on their way, and the values
\* that may be kept.
Known(m) ==
    {Unlearned(m), Spoken(m)} \cup IF Brand(m) = "galaxy" THEN {<<Spoken(m)[1], 0>>} ELSE {}
TypedAs(c, m, known, unasked) ==
    [known |-> known,
     frames |-> unasked \cup {Framed(m, k, r) : k \in known, r \in Range(c.send)},
     packets |-> c.reports \cup c.noise \cup UNION Range(c.done)
                     \cup IF Brand(m) = "pixel" THEN SoftwareInfo ELSE {},
     values |-> {None} \cup c.first \cup DOMAIN c.send \cup Range(c.read),
     settings |-> {None} \cup c.asked \cup c.refused \cup DOMAIN c.send \cup c.first]
Typed == [t \in DOMAIN Tested |-> TypedAs(Table[t], t[2], Known(t[2]), Unasked[t])]

Keeps(t) ==
    /\ which \in DOMAIN Tested
    /\ Capability.rule # "battery" => {option, shown, server.value, loaded} \subseteq t.values
    /\ available \in BOOLEAN
    /\ saved \in t.settings
    /\ register \in t.packets \cup {None}
    /\ link \in {"up", "down"}
    /\ client \in {"Disconnected", "Connected", "Reconnecting"}
    /\ Range(starting) \subseteq t.frames /\ learned \in t.known
    /\ Range(toHeadphones) \subseteq t.frames
    /\ \A r \in Range(toProgram) : r.packet \in t.packets /\ r.follows \in 0 .. sent
    /\ connecting \in {"idle", "reset", "load", "store", "apply", "fire"}
    /\ dropping \in {"idle", "reset", "fire"}
    /\ reader \in {"idle", "fire"} \cup DOMAIN SubscribeToBudsEvents
    /\ server.at \in {"idle", "save", "apply", "fire"}
    /\ sent \in Nat /\ {crossed, overlapped, offline, swallowed} \subseteq BOOLEAN

\* Every variable keeps to its values: what travels is a packet of this capability, and what
\* is kept and told is None, a start value, a value asked for, or one read from a report.
TypeOK == Keeps(Typed[which])

\* No handler is half-way.
Settled ==
    connecting = "idle" /\ dropping = "idle" /\ starting = <<>> /\ reader = "idle" /\ Idling
\* Nothing is on its way either, and the headphones are connected.
Quiet ==
    Settled /\ link = "up" /\ client = "Connected" /\ toHeadphones = <<>> /\ toProgram = <<>>

\* Whether a value is what a packet says, and one that a client can ask for without a change.
\* A battery that is gone is shown as gone, or with the level it had.
Says(packet, value) ==
    LET said == Capability.read[packet]
    IN  IF Capability.rule = "battery"
        THEN \A battery \in Range(said) :
                 LET kept == value[battery.type]
                 IN  IF battery.status = DeviceBatteryStatus.Disconnected
                     THEN \/ kept = battery
                          \/ kept.status = DeviceBatteryStatus.Cached /\ kept.level > 0
                     ELSE kept = battery
        ELSE /\ value = said \/ (value \in DOMAIN Capability.send
                                    /\ packet \in Capability.done[Capability.send[value]])
             /\ said \in DOMAIN Capability.send =>
                    \A done \in Capability.done[Capability.send[said]] :
                        Capability.read[done] = said

\* Unless a report and a request have met on the way, a report was received together with
\* another one, or no probe was answered with a channel.
Comparable ==
    /\ ~crossed /\ ~swallowed
    /\ Capability.reports # {} /\ Capability.rule # "event"
    /\ Brand(Model) = "pixel" => learned # None

\* Once packets and handlers have come to rest, clients have been told what the headphones
\* have, whoever changed it and however often the link was lost, and asking for what is told
\* would leave the headphones as they are (SetFromJson() and the watchers' handlers of every
\* capability). Of headphones that are disconnected they are told no capability, unless it
\* was made available after they were (GetAsJson() and the Disconnected handlers of
\* AapCapability, GalaxyBudsCapability and PixelBudsCapability).
ShownTrue ==
    /\ TypeOK
    /\ Quiet /\ Comparable => shown # None /\ Says(register, shown)
    /\ Settled /\ client = "Disconnected" /\ ~offline => shown = None

\* A preference survives disconnections: once at rest clients have been told what the settings
\* file says, and the headphones have got it, unless a request came while they connected.
PreferenceApplied ==
    Quiet /\ Stored /\ ~overlapped
        => /\ shown = IF Loaded(saved) = None THEN Capability.default ELSE Loaded(saved)
           /\ shown \in Capability.applied => register = Capability.send[shown]

\* Requests that the headphones do not support do not reach them, as api-reference.md has it
\* of "invalid or unsupported capability values".
UnsupportedIgnored ==
    \A request \in Capability.lacks :
        Framed(Model, Spoken(Model), request) \notin Range(toHeadphones)

=============================================================================
