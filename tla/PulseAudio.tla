----------------------------- MODULE PulseAudio -----------------------------
(***************************************************************************)
(* What the program does to PulseAudio, and what PulseAudio tells it.      *)
(*                                                                         *)
(*   switch   PulseAudioClient::SwitchToCard() and SwitchCardToSpeakers(), *)
(*            on the thread that reports ear detection                     *)
(*   monitor  the microphone's thread: ResetA2dp(), and the life of a      *)
(*            VirtualMicrophone, which is a module PulseAudio loads        *)
(*   server   CmnBluetoothCodecCapability::SetFromJson()                   *)
(*   pulse    the client's main loop, which reads the card after an event  *)
(*   dbus     the thread that creates the codec capability and fires the   *)
(*            device's Connected property                                  *)
(*                                                                         *)
(* A call over a TemporaryPulseConnection may fail with no effect, or take *)
(* effect and miss its three seconds, so that it is reported to have       *)
(* failed. The PulseAudio server, BlueZ and the user are the environment:  *)
(* cards come and go, a sink that goes takes its streams to the default.   *)
(***************************************************************************)
EXTENDS FiniteSets, Naturals

CONSTANTS
    Streams,       \* playing applications
    ModuleIds,     \* bound: modules that can be loaded at a time
    MaxChanges,    \* bound: what the user and BlueZ do
    MaxCalls       \* bound: what the program is asked to do

Playing == {"a2dp", "hfp"}             \* profiles of the card with a sink
Profiles == Playing \cup {"off"}
NoInfo == "no info"
Sinks == {"speaker", "hdmi", "headset"}
Threads == {"switch", "monitor", "dbus"}   \* the other two do all in one step

VARIABLES
    profile,     \* the card's active profile, "gone" without the card
    default,     \* the default sink
    playing,     \* the sink of every stream, "none" when it does not play
    modules,     \* the virtual microphones PulseAudio has loaded
    connected,   \* the device's Connected property, as BlueZ has it
    signal,      \* a PropertiesChanged the D-Bus thread has not handled yet
    pending,     \* a card event the main loop has not handled yet; the server
                 \* merges events of one card
    reply,       \* the card as read for the last one
    info,        \* the codec capability's info.activeProfile
    available,   \* its isAvailable
    pc,          \* where each thread is
    saved,       \* the profile ResetA2dp() restores, or the constructor has read
    source, destination, moving,   \* SwitchOutput(): sinks, and streams to move
    own,         \* VirtualMicrophone's _moduleIndex
    changes, calls,                \* history: how many (bounds)
    wanted,      \* history: the profile chosen by anyone but ResetA2dp()
    excused,     \* history: see Excuses
    left         \* history: streams that were on source when the switch succeeded

serverVars == <<profile, default, playing>>
codecVars  == <<info, available>>
eventVars  == <<connected, signal, pending, reply>>
switchVars == <<source, destination, moving, left>>
bounds     == <<changes, calls>>
vars == <<serverVars, modules, codecVars, eventVars, switchVars, bounds, pc, saved, own,
          wanted, excused>>

Excuses == {"profile", "codec", "streams", "modules"}

Init ==
    /\ profile \in Playing /\ wanted = profile
    /\ default \in Sinks /\ playing \in [Streams -> {default}]
    /\ modules \in {{}} \cup {{m} : m \in ModuleIds}      \* one may be left from a crash
    /\ connected = TRUE /\ signal = FALSE /\ pending = FALSE /\ reply = "none"
    /\ info = NoInfo /\ available = FALSE
    /\ pc = [t \in Threads |-> IF t = "dbus" THEN "constructor" ELSE "idle"]
    /\ saved = [t \in {"monitor", "dbus"} |-> "none"]
    /\ source = "none" /\ destination = "none" /\ moving = {} /\ left = {}
    /\ own = 0 /\ changes = 0 /\ calls = 0 /\ excused = {}

Goes(t, from, to) == pc[t] = from /\ pc' = [pc EXCEPT ![t] = to]
SinksNow == IF profile \in Playing THEN Sinks ELSE Sinks \ {"headset"}

(***************************************************************************)
(* The PulseAudio server.                                                  *)
(***************************************************************************)
\* A sink that goes takes its streams, and the role of default, to another one.
SetProfile(p) ==
    /\ profile' = p
    /\ LET fallen == p \notin Playing
       IN  /\ default' = IF fallen /\ default = "headset" THEN "speaker" ELSE default
           /\ playing' = [s \in Streams |->
                  IF fallen /\ playing[s] = "headset" THEN default' ELSE playing[s]]
    /\ pending' = (pending \/ p # profile)

\* Nobody's switch, and nobody's reset, can be held to what it found.
Disturbs == excused' = excused \cup {"streams"}

Count == changes < MaxChanges /\ changes' = changes + 1 /\ UNCHANGED calls

UserSetsProfile ==
    /\ profile # "gone"
    /\ \E p \in Profiles \ {profile} : SetProfile(p) /\ wanted' = p
    /\ Disturbs /\ Count
    /\ UNCHANGED <<modules, codecVars, connected, signal, reply, switchVars, pc, saved, own>>

UserMovesStream ==
    /\ \E s \in Streams, k \in SinksNow \cup {"none"} :
           /\ playing[s] # k
           /\ playing' = [playing EXCEPT ![s] = IF playing[s] = "none" THEN default ELSE k]
           /\ excused' = IF playing[s] = "none" THEN excused ELSE excused \cup {"streams"}
    /\ Count
    /\ UNCHANGED <<profile, default, modules, codecVars, eventVars, switchVars, pc, saved,
                   own, wanted>>

CardGoes ==                            \* BlueZ: disconnected
    /\ profile # "gone" /\ connected /\ ~signal
    /\ SetProfile("gone") /\ wanted' = "gone"
    /\ connected' = FALSE /\ signal' = TRUE
    /\ Disturbs /\ Count
    /\ UNCHANGED <<modules, codecVars, reply, switchVars, pc, saved, own>>

CardComes ==
    /\ profile = "gone"
    /\ \E p \in Playing : SetProfile(p) /\ wanted' = p
    /\ connected' = TRUE
    /\ Disturbs /\ Count
    /\ UNCHANGED <<modules, codecVars, signal, reply, switchVars, pc, saved, own>>

(***************************************************************************)
(* PulseAudioClient: what its calls do, and how they fail.                 *)
(***************************************************************************)
\* What a call over a TemporaryPulseConnection can answer: the connection may fail, and the
\* answer may be late.
Answers(value, none) == {value, none}

\* What the program knows the card by; no card has no answer.
GetCardInfoByName == Answers(profile, "gone")

\* The index of the new module is lost with the answer.
LoadModule(m) == modules' = modules \cup {m} /\ own' \in Answers(m, 0)
UnloadModule(m) == modules' \in Answers(modules \ {m}, modules)

\* SetCardProfile(), on the client's own context: it waits for the answer.
SetCardProfile(p) ==
    \/ profile # "gone" /\ SetProfile(p)
    \/ UNCHANGED <<serverVars, pending>>

(***************************************************************************)
(* SwitchToCard() and SwitchCardToSpeakers().                              *)
(***************************************************************************)
Call == calls < MaxCalls /\ calls' = calls + 1 /\ UNCHANGED changes

OnCard(k) == k = "headset"             \* SinkInfo::IsOnCard()
IsSpeaker(k) == k = "speaker"

Switch(way) ==
    /\ Goes("switch", "idle", way)
    /\ Call
    /\ source' = "none" /\ destination' = "none" /\ moving' = {} /\ left' = {}
    /\ excused' = excused \ {"streams"}
    /\ UNCHANGED <<serverVars, modules, codecVars, eventVars, saved, own, wanted>>
SwitchToCard == Switch("toCard")
SwitchCardToSpeakers == Switch("toSpeakers")

\* The default sink, what it is, and a sink to go to: three questions, any may fail.
SwitchLooks ==
    /\ \/ /\ Goes("switch", "toCard", "set")
          /\ default # "headset"
          /\ \E k \in SinksNow : OnCard(k) /\ destination' = k
       \/ /\ Goes("switch", "toSpeakers", "set")
          /\ OnCard(default)
          /\ \E k \in SinksNow : ~OnCard(k) /\ IsSpeaker(k) /\ destination' = k
    /\ source' = default
    /\ UNCHANGED <<serverVars, modules, codecVars, eventVars, moving, left, bounds, saved,
                   own, wanted, excused>>

\* No answer, nothing to do or nowhere to go, or the default cannot be set.
SwitchGivesUp ==
    /\ \E at \in {"toCard", "toSpeakers", "set"} : Goes("switch", at, "idle")
    /\ source' = "none" /\ destination' = "none"
    /\ UNCHANGED <<serverVars, modules, codecVars, eventVars, moving, left, bounds, saved,
                   own, wanted, excused>>

\* SwitchOutput(): the default first, so that a stream that starts is not left behind.
SetDefaultSink ==
    /\ Goes("switch", "set", "list")
    /\ destination \in SinksNow /\ default' = destination
    /\ UNCHANGED <<profile, playing, modules, codecVars, eventVars, switchVars, bounds,
                   saved, own, wanted, excused>>

ListSinkInputs ==
    /\ Goes("switch", "list", "move")
    /\ \/ moving' = {s \in Streams : playing[s] = source} /\ UNCHANGED excused
       \/ excused' = excused \cup {"streams"} /\ UNCHANGED moving
    /\ UNCHANGED <<serverVars, modules, codecVars, eventVars, source, destination, left,
                   bounds, saved, own, wanted>>

MoveSinkInput ==
    /\ pc["switch"] = "move" /\ moving # {}
    /\ \E s \in moving :
           /\ moving' = moving \ {s}
           /\ \/ /\ playing[s] # "none" /\ destination \in SinksNow
                 /\ playing' = [playing EXCEPT ![s] = destination] /\ UNCHANGED excused
              \/ excused' = excused \cup {"streams"} /\ UNCHANGED playing
    /\ UNCHANGED <<profile, default, modules, codecVars, eventVars, source, destination,
                   left, bounds, pc, saved, own, wanted>>

SwitchDone ==
    /\ moving = {}
    /\ Goes("switch", "move", "idle")
    /\ left' = {s \in Streams : playing[s] = source}
    /\ source' = "none" /\ destination' = "none"
    /\ UNCHANGED <<serverVars, modules, codecVars, eventVars, moving, bounds, saved, own, wanted,
                   excused>>

(***************************************************************************)
(* ResetA2dp(): off, and back to the profile that was active.              *)
(***************************************************************************)
ResetA2dp ==
    /\ Goes("monitor", "idle", "reset")
    /\ Call
    /\ \E p \in GetCardInfoByName \cap Playing :     \* it gives up on any other
           saved' = [saved EXCEPT !["monitor"] = p]
    /\ excused' = excused \ {"profile"}
    /\ UNCHANGED <<serverVars, modules, codecVars, eventVars, switchVars, own, wanted>>

ResetTurnsOff ==
    /\ Goes("monitor", "reset", "restore")
    /\ SetCardProfile("off")
    /\ excused' = excused \cup {"streams"}
    /\ UNCHANGED <<modules, codecVars, connected, signal, reply, switchVars, bounds, saved,
                   own, wanted>>

\* Somebody else's choice since the first step is overwritten; a call that fails is not repeated.
ResetRestores ==
    /\ Goes("monitor", "restore", "idle")
    /\ SetCardProfile(saved["monitor"])
    /\ excused' = IF profile' # wanted THEN excused \cup {"profile", "streams"}
                  ELSE excused \cup {"streams"}
    /\ saved' = [saved EXCEPT !["monitor"] = "none"]
    /\ UNCHANGED <<modules, codecVars, connected, signal, reply, switchVars, bounds, own,
                   wanted>>

(***************************************************************************)
(* The virtual microphone.                                                 *)
(***************************************************************************)
\* Its constructor lists the modules of its name and unloads each of them.
MicrophoneLists ==
    /\ own = 0
    /\ Call
    /\ \/ Goes("monitor", "idle", "unload") /\ excused' = excused \ {"modules"}
       \/ Goes("monitor", "idle", "load") /\ excused' = excused \cup {"modules"}
    /\ UNCHANGED <<serverVars, modules, codecVars, eventVars, switchVars, saved, own, wanted>>

MicrophoneUnloadsNone ==
    /\ Goes("monitor", "unload", "load")
    /\ UNCHANGED <<serverVars, modules, codecVars, eventVars, switchVars, bounds, saved, own,
                   wanted, excused>>

MicrophoneUnloadsStale ==
    /\ Goes("monitor", "unload", "load")
    /\ modules' \in SUBSET modules
    /\ excused' = IF modules' = {} THEN excused ELSE excused \cup {"modules"}
    /\ UNCHANGED <<serverVars, codecVars, eventVars, switchVars, bounds, saved, own, wanted>>

\* LoadModule() may be told too late that the module is loaded.
MicrophoneLoads ==
    /\ Goes("monitor", "load", "idle")
    /\ \/ UNCHANGED <<modules, own>>
       \/ \E m \in ModuleIds \ modules : LoadModule(m)
    /\ UNCHANGED <<serverVars, codecVars, eventVars, switchVars, bounds, saved, wanted,
                   excused>>

MicrophoneGoes ==                      \* the destructor
    /\ pc["monitor"] = "idle" /\ own # 0
    /\ Call
    /\ UnloadModule(own) /\ own' = 0
    /\ UNCHANGED <<serverVars, codecVars, eventVars, switchVars, pc, saved, wanted, excused>>

(***************************************************************************)
(* The codec capability.                                                   *)
(***************************************************************************)
UpdateCardInfoOnce(p) ==
    /\ info' = IF available THEN info ELSE p
    /\ available' = TRUE

UpdateCardInfo(p) ==
    /\ info' = p
    /\ available' = (available \/ info # p)

\* The subscription's callback asks for the card; a card that is gone gives no answer.
PulseReads ==
    /\ pending /\ reply = "none"
    /\ pending' = FALSE
    /\ reply' = IF profile = "gone" THEN "none" ELSE profile
    /\ UNCHANGED <<serverVars, modules, codecVars, connected, signal, switchVars, bounds, pc,
                   saved, own, wanted, excused>>

PulseFires ==
    /\ reply # "none"
    /\ UpdateCardInfo(reply)
    /\ reply' = "none"
    /\ excused' = IF pc["dbus"] = "store" \/ ~connected THEN excused \cup {"codec"}
                  ELSE excused \ {"codec"}
    /\ UNCHANGED <<serverVars, modules, connected, signal, pending, switchVars, bounds, pc,
                   saved, own, wanted>>

\* The constructor subscribes, then reads the card itself and stores what it has read,
\* which an event may have overtaken.
ConstructorReads ==
    /\ connected
    /\ Goes("dbus", "constructor", "store")
    /\ \E p \in GetCardInfoByName \ {"gone"} : saved' = [saved EXCEPT !["dbus"] = p]
    /\ UNCHANGED <<serverVars, modules, codecVars, eventVars, switchVars, bounds, own, wanted,
                   excused>>

ConstructorFails ==
    /\ Goes("dbus", "constructor", "idle")
    /\ excused' = excused \cup {"codec"}
    /\ UNCHANGED <<serverVars, modules, codecVars, eventVars, switchVars, bounds, saved, own,
                   wanted>>

ConstructorStores ==
    /\ Goes("dbus", "store", "idle")
    /\ UpdateCardInfo(saved["dbus"])
    /\ saved' = [saved EXCEPT !["dbus"] = "none"]
    /\ UNCHANGED <<serverVars, modules, eventVars, switchVars, bounds, own, wanted, excused>>

\* The Connected property turns FALSE: Reset(). The card may be back by then.
CodecResets ==
    /\ pc["dbus"] = "idle" /\ signal
    /\ signal' = FALSE
    /\ info' = NoInfo /\ available' = FALSE
    /\ excused' = IF connected THEN excused \cup {"codec"} ELSE excused
    /\ UNCHANGED <<serverVars, modules, connected, pending, reply, switchVars, bounds, pc,
                   saved, own, wanted>>

\* IsValidSelected(): a profile of the card the capability knows of.
SetFromJson ==
    /\ info # NoInfo
    /\ Call
    /\ \E p \in Profiles :
           /\ SetCardProfile(p)
           /\ wanted' = profile'
    /\ Disturbs
    /\ UNCHANGED <<modules, codecVars, connected, signal, reply, switchVars, pc, saved, own>>

Next ==
    \/ UserSetsProfile \/ UserMovesStream \/ CardGoes \/ CardComes
    \/ SwitchToCard \/ SwitchCardToSpeakers \/ SwitchLooks \/ SwitchGivesUp \/ SetDefaultSink
    \/ ListSinkInputs \/ MoveSinkInput \/ SwitchDone
    \/ ResetA2dp \/ ResetTurnsOff \/ ResetRestores
    \/ MicrophoneLists \/ MicrophoneUnloadsStale \/ MicrophoneLoads \/ MicrophoneGoes
    \/ PulseReads \/ PulseFires \/ ConstructorReads \/ ConstructorFails \/ ConstructorStores
    \/ CodecResets \/ SetFromJson

Spec == Init /\ [][Next]_vars

(***************************************************************************)
(* Properties                                                              *)
(***************************************************************************)
TypeOK ==
    /\ profile \in Profiles \cup {"gone"} /\ default \in SinksNow
    /\ playing \in [Streams -> SinksNow \cup {"none"}]
    /\ modules \subseteq ModuleIds /\ own \in ModuleIds \cup {0}
    /\ reply \in Profiles \cup {"none"}
    /\ info \in Profiles \cup {NoInfo} /\ {available, connected, signal, pending} \subseteq BOOLEAN
    /\ excused \subseteq Excuses

AtRest == pc["monitor"] = "idle" /\ pc["dbus"] = "idle" /\ ~pending /\ reply = "none"

\* ResetA2dp() leaves the card in the profile the user, or a request, has put it in; a
\* request it has overtaken and a call that failed are excused. And the codec that clients
\* are shown is the card's, once its events are handled: excused when an event overtook the
\* constructor's own answer, came for a disconnected device, or when the card was back
\* before the Connected signal was handled.
ProfileTrue ==
    /\ AtRest => profile = wanted \/ "profile" \in excused
    /\ AtRest /\ ~signal /\ "codec" \notin excused =>
           IF connected THEN available /\ info = profile ELSE ~available

\* A switch of the output that succeeded leaves no stream on the sink it came from, those
\* that started meanwhile included. And while the program has a virtual microphone it is
\* the only one PulseAudio has: one that a crash, a lost answer or a failed unloading left
\* behind does not survive the next.
NothingLeft ==
    /\ pc["switch"] = "idle" /\ "streams" \notin excused => left = {}
    /\ own # 0 /\ "modules" \notin excused => modules = {own}
=============================================================================
