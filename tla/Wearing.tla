------------------------------ MODULE Wearing ------------------------------
(***************************************************************************)
(* What AirPods do to the sound when they are put in, taken out or talked  *)
(* over: src/src/device/capabilities/aap/AapEarDetectionCapability.cpp and *)
(* AapConversationAware*Capability.cpp, the volume reduction of            *)
(* src/src/device/AapDevice.cpp, src/src/media/MediaController.cpp and the *)
(* volume and output calls of src/src/pulseaudio/PulseAudioClient.cpp.     *)
(*                                                                         *)
(* Threads: the reading thread of the device ("reader"), the thread of the *)
(* WebSocket server, which sets capabilities ("server"), and the reading   *)
(* thread of other headphones, which share the media controller            *)
(* ("other"). Only the media controller has a mutex. A call to PulseAudio  *)
(* or to a player is a step of its own, and the user acts between any two. *)
(***************************************************************************)
EXTENDS Integers, FiniteSets

CONSTANTS
    Players,       \* MPRIS players on the session bus
    StartVolume,   \* volume the user has set before
    Volumes,       \* volumes the user sets
    Settings,      \* stored settings of both capabilities
    Steps,         \* steps of a fade
    MaxPackets,    \* bound: packets of the headphones
    MaxUser,       \* bound: acts of the user, of other headphones and of PulseAudio
    MaxSets        \* bound: SetCapabilities requests

ASSUME WearingAssumption ==
    /\ StartVolume \in Nat
    /\ Volumes \subseteq Nat
    /\ Settings \subseteq [pauseMedia : BOOLEAN, switchToSpeakers : BOOLEAN,
                           lowerVolume : 0..100, talkVolume : 0..100]
    /\ Steps \in Nat \ {0}
    /\ {MaxPackets, MaxUser, MaxSets} \subseteq Nat

Statuses == {"NotAvailable", "Worn", "PartiallyWorn", "NotWorn"}
Reasons == {"EarDetection", "ConversationAwareness"}
Faders == {"reader", "server"}
Threads == Faders \cup {"other"}

VARIABLES
    a2dp,          \* the card plays to the headphones, so their sink exists
    output,        \* the default sink
    volume,        \* of the headphones' sink
    player,        \* what each player does
    counts,        \* packets, acts and requests so far
    isAvailable, option, previousStatus,   \* AapEarDetectionCapability
    settings,
    reasonActive,  \* the reasons _...VolumeReductionActive holds of
    volumeReduced, savedVolume, reducedVolume,
    mutex, pausedPlayers,                  \* MediaController
    pc,
    fade,          \* volume call of a thread: its reason and percent, and the
                   \* fade's from, to and next step
    media,         \* Pause or Play of a thread: which, and the players left
    wanted,        \* history: the volume the user has set
    pausedBy,      \* history: who paused a player last
    excused        \* history: what somebody else has touched, or a call that failed

soundVars == <<a2dp, output, volume, player>>
earVars   == <<isAvailable, option, previousStatus, settings>>
volumeVars == <<reasonActive, volumeReduced, savedVolume, reducedVolume>>
mediaVars == <<mutex, pausedPlayers, media>>
history   == <<wanted, pausedBy, excused>>
vars == <<soundVars, counts, earVars, volumeVars, mediaVars, pc, fade, history>>

NoFade == [reason |-> "none", percent |-> 0, from |-> 0, to |-> 0, step |-> 0]
NoMedia == [call |-> "none", todo |-> {}, now |-> {}]

Init ==
    /\ a2dp = TRUE
    /\ output = "headphones"
    /\ volume = StartVolume
    /\ player = [p \in Players |-> "Playing"]
    /\ counts = [packets |-> 0, user |-> 0, sets |-> 0]
    /\ isAvailable = FALSE
    /\ option = "NotAvailable"
    /\ previousStatus = "NotAvailable"
    /\ settings \in Settings
    /\ reasonActive = {}
    /\ volumeReduced = FALSE
    /\ savedVolume = 0
    /\ reducedVolume = 0
    /\ mutex = "free"
    /\ pausedPlayers = {}
    /\ pc = [t \in Threads |-> "idle"]
    /\ fade = [t \in Faders |-> NoFade]
    /\ media = [t \in Threads |-> NoMedia]
    /\ wanted = volume
    /\ pausedBy = [p \in Players |-> "user"]
    /\ excused = {}

Goto(t, from, to) == pc[t] = from /\ pc' = [pc EXCEPT ![t] = to]

Count(what, max) ==
    /\ counts[what] < max
    /\ counts' = [counts EXCEPT ![what] = @ + 1]

\* Start- and StopVolumeReduction of two threads, which nothing keeps apart.
ReducingPcs == {"mark", "look", "fadeDown", "keep",
                "unmark", "settle", "compare", "fadeUp", "clear"}

BeginReduction(t, reason, percent) ==
    /\ fade' = [fade EXCEPT ![t] =
                  [NoFade EXCEPT !.reason = reason, !.percent = percent]]
    /\ excused' = IF \E u \in Faders \ {t} : pc[u] \in ReducingPcs
                  THEN excused \cup {"volume"} ELSE excused
-----------------------------------------------------------------------------
\* AapEarDetectionCapability: the listener of its watcher, on the reader.

\* A known state that comes again is ignored.
EarState(status) ==
    /\ Count("packets", MaxPackets)
    /\ ~isAvailable \/ option # status
    /\ Goto("reader", "idle", "switch")
    /\ isAvailable' = TRUE
    /\ previousStatus' = option
    /\ option' = status
    /\ excused' = excused \ {"media", "output"}
    /\ UNCHANGED <<soundVars, settings, volumeVars, mediaVars, fade, wanted,
                   pausedBy>>

\* Fault: one earbud that is put in leaves the sound where it is.
SwitchForBoth ==
    /\ Goto("reader", "switch", "media")
    /\ output' = IF ~settings.switchToSpeakers \/ ~a2dp THEN output
                 ELSE IF option = "NotWorn" THEN "speakers"
                 ELSE IF option = "Worn" THEN "headphones" ELSE output
    /\ UNCHANGED <<a2dp, volume, player, counts, earVars, volumeVars, mediaVars,
                   fade, history>>

\* TriggerAudioOutputSwitch: the default sink is set, or PulseAudio fails.
SwitchOutput ==
    /\ Goto("reader", "switch", "media")
    /\ \/ /\ settings.switchToSpeakers /\ a2dp /\ option # "NotAvailable"
          /\ \/ /\ output' = IF option = "NotWorn" THEN "speakers" ELSE "headphones"
                /\ UNCHANGED excused
             \/ /\ excused' = excused \cup {"output"}
                /\ UNCHANGED output
       \/ /\ ~settings.switchToSpeakers \/ ~a2dp \/ option = "NotAvailable"
          /\ UNCHANGED <<output, excused>>
    /\ UNCHANGED <<a2dp, volume, player, counts, earVars, volumeVars, mediaVars,
                   fade, wanted, pausedBy>>

\* What a change of the ear status asks of the players ...
MediaCall(before, after) ==
    IF after = "Worn" \/ (after = "PartiallyWorn" /\ before = "NotWorn") THEN "Play"
    ELSE IF after = "NotWorn" \/ (after = "PartiallyWorn" /\ before = "Worn")
    THEN "Pause" ELSE "none"

\* ... and of the volume.
VolumeCall(before, after) ==
    IF before = "Worn" /\ after = "PartiallyWorn" THEN "mark"
    ELSE IF after = "Worn" \/ (before = "NotWorn" /\ after = "PartiallyWorn")
    THEN "unmark" ELSE "idle"

TriggerMediaControl ==
    /\ LET call == IF settings.pauseMedia
                   THEN MediaCall(previousStatus, option) ELSE "none" IN
       /\ Goto("reader", "media", IF call = "none" THEN "volume" ELSE "lock")
       /\ media' = [media EXCEPT !["reader"] = [NoMedia EXCEPT !.call = call]]
    /\ UNCHANGED <<soundVars, counts, earVars, volumeVars, mutex, pausedPlayers,
                   fade, history>>

TriggerVolumeControl ==
    /\ Goto("reader", "volume", VolumeCall(previousStatus, option))
    /\ BeginReduction("reader", "EarDetection", settings.lowerVolume)
    /\ previousStatus' = "NotAvailable"
    /\ UNCHANGED <<soundVars, counts, isAvailable, option, settings, volumeVars,
                   mediaVars, wanted, pausedBy>>

\* A client that is down makes every capability unavailable and keeps the rest.
Reset ==
    /\ isAvailable
    /\ isAvailable' = FALSE
    /\ UNCHANGED <<soundVars, counts, option, previousStatus, settings, volumeVars,
                   mediaVars, pc, fade, history>>
-----------------------------------------------------------------------------
\* MediaController.

AfterMedia(t) == IF t = "reader" THEN "volume" ELSE "idle"

\* The players to go through: all of them for Pause(), the paused ones for Play().
Lock(t) ==
    /\ Goto(t, "lock", "each")
    /\ mutex = "free"
    /\ mutex' = t
    /\ media' = [media EXCEPT ![t].todo =
                   IF media[t].call = "Pause" THEN Players ELSE pausedPlayers]
    /\ UNCHANGED <<soundVars, counts, earVars, volumeVars, pausedPlayers, fade,
                   history>>

\* PlaybackStatus of the next player. One that cannot be asked is left out.
AskPlayer(t) ==
    /\ pc[t] = "each"
    /\ \E p \in media[t].todo :
         LET right == IF media[t].call = "Pause" THEN "Playing" ELSE "Paused" IN
         \/ /\ player[p] = right
            /\ media' = [media EXCEPT ![t].todo = @ \ {p}, ![t].now = {p}]
            /\ pc' = [pc EXCEPT ![t] = "call"]
            /\ UNCHANGED excused
         \/ /\ player[p] # right
            /\ media' = [media EXCEPT ![t].todo = @ \ {p}]
            /\ UNCHANGED <<pc, excused>>
         \/ /\ media' = [media EXCEPT ![t].todo = @ \ {p}]
            /\ excused' = excused \cup {"media", "answers"}
            /\ UNCHANGED pc
    /\ UNCHANGED <<soundVars, counts, earVars, volumeVars, mutex, pausedPlayers,
                   fade, wanted, pausedBy>>

\* The call to the player: it works, or fails, or works and its answer is lost.
\* Pausing what does not play, and playing what plays, do nothing.
CallPlayer(t) ==
    /\ Goto(t, "call", "each")
    /\ media' = [media EXCEPT ![t].now = {}]
    /\ \E p \in media[t].now, done, answered \in BOOLEAN :
         /\ answered => done
         /\ IF done /\ media[t].call = "Pause" /\ player[p] = "Playing"
            THEN /\ player' = [player EXCEPT ![p] = "Paused"]
                 /\ pausedBy' = [pausedBy EXCEPT ![p] = "controller"]
            ELSE /\ player' = IF done /\ media[t].call = "Play"
                              THEN [player EXCEPT ![p] = "Playing"] ELSE player
                 /\ UNCHANGED pausedBy
         /\ pausedPlayers' = IF answered /\ media[t].call = "Pause"
                             THEN pausedPlayers \cup {p} ELSE pausedPlayers
         /\ excused' = excused
              \cup (IF answered THEN {} ELSE {"media", "answers"})
              \cup (IF t = "other" THEN {"media"} ELSE {})
    /\ UNCHANGED <<a2dp, output, volume, counts, earVars, volumeVars, mutex, fade,
                   wanted>>

\* Fault: Pause() forgets the players too.
UnlockAndForget(t) ==
    /\ Goto(t, "each", AfterMedia(t))
    /\ media[t].todo = {}
    /\ mutex' = "free"
    /\ pausedPlayers' = {}
    /\ media' = [media EXCEPT ![t] = NoMedia]
    /\ UNCHANGED <<soundVars, counts, earVars, volumeVars, fade, history>>

\* Play() forgets the players it has gone through.
Unlock(t) ==
    /\ Goto(t, "each", AfterMedia(t))
    /\ media[t].todo = {}
    /\ mutex' = "free"
    /\ pausedPlayers' = IF media[t].call = "Play" THEN {} ELSE pausedPlayers
    /\ media' = [media EXCEPT ![t] = NoMedia]
    /\ UNCHANGED <<soundVars, counts, earVars, volumeVars, fade, history>>

\* Connect() to the session bus fails and nothing happens.
NoSessionBus(t) ==
    /\ Goto(t, "lock", AfterMedia(t))
    /\ mutex = "free"
    /\ media' = [media EXCEPT ![t] = NoMedia]
    /\ excused' = excused \cup {"media"}
    /\ UNCHANGED <<soundVars, counts, earVars, volumeVars, mutex, pausedPlayers,
                   fade, wanted, pausedBy>>

Media(t) == Lock(t) \/ NoSessionBus(t) \/ AskPlayer(t) \/ CallPlayer(t) \/ Unlock(t)
-----------------------------------------------------------------------------
\* AapDevice::StartVolumeReduction, run by thread t.

\* AapConversationAwarenessStateCapability: the user starts or stops speaking.
ConversationState(speaking) ==
    /\ Count("packets", MaxPackets)
    /\ Goto("reader", "idle", IF speaking THEN "mark" ELSE "unmark")
    /\ BeginReduction("reader", "ConversationAwareness", settings.talkVolume)
    /\ UNCHANGED <<soundVars, earVars, volumeVars, mediaVars, wanted, pausedBy>>

Mark(t) ==
    /\ Goto(t, "mark", IF fade[t].percent = 0 \/ fade[t].reason \in reasonActive
                       THEN "idle" ELSE "look")
    /\ reasonActive' = IF fade[t].percent = 0 THEN reasonActive
                       ELSE reasonActive \cup {fade[t].reason}
    /\ UNCHANGED <<soundVars, counts, earVars, volumeReduced, savedVolume,
                   reducedVolume, mediaVars, fade, history>>

\* Reduced already, or nothing plays on the headphones, or PulseAudio fails.
LookInVain(t) ==
    /\ Goto(t, "look", "idle")
    /\ UNCHANGED <<soundVars, counts, earVars, volumeVars, mediaVars, fade, history>>

Look(t) ==
    /\ Goto(t, "look", "fadeDown")
    /\ ~volumeReduced /\ a2dp /\ output = "headphones"
    /\ fade' = [fade EXCEPT ![t].from = volume,
                            ![t].to = (volume * (100 - fade[t].percent)) \div 100,
                            ![t].step = 1]
    /\ UNCHANGED <<soundVars, counts, earVars, volumeVars, mediaVars, history>>

\* FadeSinkVolume. The division of a negative difference rounds towards zero.
Between(from, to, step) ==
    IF to >= from THEN from + ((to - from) * step) \div Steps
    ELSE from - ((from - to) * step) \div Steps

FadeStep(t, going, done) ==
    /\ pc[t] = going
    /\ a2dp
    /\ volume' = Between(fade[t].from, fade[t].to, fade[t].step)
    /\ fade' = [fade EXCEPT ![t].step = @ + 1]
    /\ pc' = [pc EXCEPT ![t] = IF fade[t].step = Steps THEN done ELSE going]
    /\ UNCHANGED <<a2dp, output, player, counts, earVars, volumeVars, mediaVars,
                   history>>

\* The sink has gone, or PulseAudio does not answer; a part of the way is gone.
FadeFails(t, going, done) ==
    /\ Goto(t, going, done)
    /\ excused' = excused \cup {"volume"}
    /\ UNCHANGED <<soundVars, counts, earVars, volumeVars, mediaVars, fade, wanted,
                   pausedBy>>

Keep(t) ==
    /\ Goto(t, "keep", "idle")
    /\ savedVolume' = fade[t].from
    /\ reducedVolume' = fade[t].to
    /\ volumeReduced' = TRUE
    /\ fade' = [fade EXCEPT ![t] = NoFade]
    /\ UNCHANGED <<soundVars, counts, earVars, reasonActive, mediaVars, history>>

StartVolumeReduction(t) ==
    \/ Mark(t) \/ LookInVain(t) \/ Look(t)
    \/ FadeStep(t, "fadeDown", "keep") \/ FadeFails(t, "fadeDown", "idle")
    \/ Keep(t)
-----------------------------------------------------------------------------
\* AapDevice::StopVolumeReduction, run by thread t.

Unmark(t) ==
    /\ Goto(t, "unmark", IF fade[t].reason \in reasonActive THEN "settle" ELSE "idle")
    /\ reasonActive' = reasonActive \ {fade[t].reason}
    /\ UNCHANGED <<soundVars, counts, earVars, volumeReduced, savedVolume,
                   reducedVolume, mediaVars, fade, history>>

\* Fault: the other reason is forgotten.
SettleForOne(t) ==
    /\ Goto(t, "settle", IF volumeReduced THEN "compare" ELSE "idle")
    /\ UNCHANGED <<soundVars, counts, earVars, volumeVars, mediaVars, fade, history>>

\* The other reason keeps the volume down.
Settle(t) ==
    /\ Goto(t, "settle",
            IF reasonActive = {} /\ volumeReduced THEN "compare" ELSE "idle")
    /\ UNCHANGED <<soundVars, counts, earVars, volumeVars, mediaVars, fade, history>>

\* Fault: the volume is restored whatever the user has set meanwhile.
CompareNothing(t) ==
    /\ Goto(t, "compare", "fadeUp")
    /\ fade' = [fade EXCEPT ![t].from = volume, ![t].to = savedVolume, ![t].step = 1]
    /\ UNCHANGED <<soundVars, counts, earVars, volumeVars, mediaVars, history>>

\* A volume the user has changed meanwhile is left alone. A sink that cannot be
\* found is not restored either, now or later.
Compare(t) ==
    \/ /\ Goto(t, "compare", "fadeUp")
       /\ a2dp /\ volume = reducedVolume
       /\ fade' = [fade EXCEPT ![t].from = volume, ![t].to = savedVolume, ![t].step = 1]
       /\ UNCHANGED <<soundVars, counts, earVars, volumeVars, mediaVars, history>>
    \/ /\ Goto(t, "compare", "clear")
       /\ a2dp /\ volume # reducedVolume
       /\ UNCHANGED <<soundVars, counts, earVars, volumeVars, mediaVars, fade,
                      history>>
    \/ FadeFails(t, "compare", "clear")

Clear(t) ==
    /\ Goto(t, "clear", "idle")
    /\ volumeReduced' = FALSE
    /\ fade' = [fade EXCEPT ![t] = NoFade]
    /\ UNCHANGED <<soundVars, counts, earVars, reasonActive, savedVolume,
                   reducedVolume, mediaVars, history>>

StopVolumeReduction(t) ==
    \/ Unmark(t) \/ Settle(t) \/ Compare(t)
    \/ FadeStep(t, "fadeUp", "clear") \/ FadeFails(t, "fadeUp", "clear")
    \/ Clear(t)
-----------------------------------------------------------------------------
\* SetFromJson of both capabilities, on the server's thread.

SetEarDetection(json) ==
    /\ Count("sets", MaxSets)
    /\ pc["server"] = "idle"
    /\ settings' = [json EXCEPT !.talkVolume = settings.talkVolume]
    /\ excused' = excused \cup {"media", "output"}
    /\ UNCHANGED <<soundVars, isAvailable, option, previousStatus, volumeVars,
                   mediaVars, pc, fade, wanted, pausedBy>>

\* Turning conversation awareness off ends its reduction.
SetConversationAwareness(enabled, percent) ==
    /\ Count("sets", MaxSets)
    /\ Goto("server", "idle", IF enabled THEN "idle" ELSE "unmark")
    /\ settings' = [settings EXCEPT !.talkVolume = percent]
    /\ IF enabled THEN UNCHANGED <<fade, excused>>
       ELSE BeginReduction("server", "ConversationAwareness", 0)
    /\ UNCHANGED <<soundVars, isAvailable, option, previousStatus, volumeVars,
                   mediaVars, wanted, pausedBy>>
-----------------------------------------------------------------------------
\* The user, other headphones and PulseAudio.

\* A volume set during a fade is overwritten by its next step, and one that is the reduced
\* volume is taken for it.
UserSetsVolume(v) ==
    /\ Count("user", MaxUser)
    /\ a2dp /\ v # volume
    /\ volume' = v
    /\ wanted' = v
    /\ excused' = IF \/ \E t \in Faders :
                            \/ pc[t] \in {"fadeDown", "fadeUp"}
                            \/ pc[t] = "keep" /\ v = fade[t].to
                     \/ volumeReduced /\ v = reducedVolume
                  THEN excused \cup {"volume"} ELSE excused
    /\ UNCHANGED <<a2dp, output, player, earVars, volumeVars, mediaVars, pc, fade,
                   pausedBy>>

UserSetsPlayer(p, status) ==
    /\ Count("user", MaxUser)
    /\ player[p] # status
    /\ player' = [player EXCEPT ![p] = status]
    /\ pausedBy' = IF status = "Paused" THEN [pausedBy EXCEPT ![p] = "user"]
                   ELSE pausedBy
    /\ excused' = excused \cup {"media"}
    /\ UNCHANGED <<a2dp, output, volume, earVars, volumeVars, mediaVars, pc, fade,
                   wanted>>

\* The card changes its profile, and PulseAudio or the user the default sink.
OutputChanges(profile, sink) ==
    /\ Count("user", MaxUser)
    /\ profile # a2dp \/ sink # output
    /\ sink = "headphones" => profile
    /\ a2dp' = profile
    /\ output' = sink
    /\ excused' = excused \cup {"output"}
    /\ UNCHANGED <<volume, player, earVars, volumeVars, mediaVars, pc, fade, wanted,
                   pausedBy>>

OtherHeadphones(call) ==
    /\ Count("user", MaxUser)
    /\ Goto("other", "idle", "lock")
    /\ media' = [media EXCEPT !["other"] = [NoMedia EXCEPT !.call = call]]
    /\ UNCHANGED <<soundVars, earVars, volumeVars, mutex, pausedPlayers, fade,
                   history>>

User ==
    \/ \E v \in Volumes : UserSetsVolume(v)
    \/ \E p \in Players, s \in {"Playing", "Paused", "Stopped"} : UserSetsPlayer(p, s)
    \/ \E profile \in BOOLEAN, sink \in {"headphones", "speakers"} :
         OutputChanges(profile, sink)
    \/ \E call \in {"Play", "Pause"} : OtherHeadphones(call)

Server ==
    \/ \E json \in Settings : SetEarDetection(json)
    \/ \E enabled \in BOOLEAN, json \in Settings :
         SetConversationAwareness(enabled, json.talkVolume)

Packet ==
    \/ \E status \in Statuses : EarState(status)
    \/ \E speaking \in BOOLEAN : ConversationState(speaking)

EarDetection == SwitchOutput \/ TriggerMediaControl \/ TriggerVolumeControl

Next ==
    \/ Packet \/ EarDetection \/ Reset
    \/ \E t \in Threads : Media(t)
    \/ \E t \in Faders : StartVolumeReduction(t) \/ StopVolumeReduction(t)
    \/ Server \/ User

Spec == Init /\ [][Next]_vars
-----------------------------------------------------------------------------
\* Properties.

\* Every variable keeps its type, and the mutex belongs to a thread at the players.
TypeOK ==
    /\ a2dp \in BOOLEAN
    /\ output \in {"headphones", "speakers"}
    /\ {volume, savedVolume, reducedVolume, wanted} \subseteq Nat
    /\ player \in [Players -> {"Playing", "Paused", "Stopped"}]
    /\ {isAvailable, volumeReduced} \subseteq BOOLEAN
    /\ {option, previousStatus} \subseteq Statuses
    /\ reasonActive \subseteq Reasons
    /\ pausedPlayers \subseteq Players
    /\ excused \subseteq {"media", "output", "volume", "answers"}
    /\ \A t \in Threads : (mutex = t) <=> pc[t] \in {"each", "call"}

Rest == \A t \in Threads : pc[t] = "idle"

\* The volume is reduced once for all reasons, from the one the user has set, and
\* when no reason is left it is that one again, whatever the order in which reasons
\* came and went (AapDevice.cpp:91, 120, 137, 142), unless two threads were reducing
\* at a time, a fade failed or was interfered with, the sink had gone, or the user has set
\* the very volume it was reduced to.
VolumeRestored ==
    /\ TypeOK
    /\ Rest /\ "volume" \notin excused =>
           /\ volumeReduced /\ volume # wanted =>
                  volume = reducedVolume /\ savedVolume = wanted
           /\ reasonActive = {} => volume = wanted /\ ~volumeReduced

\* While a reason is left nothing raises the volume but the user: the reason
\* that ends first leaves it down (AapDevice.cpp:137), with the same exceptions.
RaisedAtTheEnd ==
    [][volume' > volume /\ counts' = counts /\ "volume" \notin excused =>
         reasonActive = {}]_vars

\* A player the controller has paused and nobody has touched since is remembered
\* and so resumed when the headphones are put in again (MediaController.cpp:89),
\* unless a player did not answer.
PausedRemembered ==
    Rest /\ "answers" \notin excused =>
        \A p \in Players : player[p] = "Paused" /\ pausedBy[p] = "controller" =>
            p \in pausedPlayers

\* The sound is where the ears are, and headphones that are taken off leave nothing
\* playing (AapEarDetectionCapability.cpp:64, 89), unless somebody else has switched
\* the output or touched the players, or a call to PulseAudio or a player failed.
EarsFollowed ==
    Rest =>
        /\ settings.switchToSpeakers /\ a2dp /\ "output" \notin excused =>
               /\ option = "NotWorn" => output = "speakers"
               /\ option \in {"Worn", "PartiallyWorn"} => output = "headphones"
        /\ option = "NotWorn" /\ settings.pauseMedia /\ "media" \notin excused =>
               \A p \in Players : player[p] # "Playing"

\* The comments at MediaController.cpp:89 and 123: what Play() is about to start
\* is what the controller has paused and the user has not resumed since.
ResumesOwnPause ==
    [][\A t \in Threads, p \in Players :
         media[t].call = "Play" /\ p \in media'[t].now \ media[t].now =>
             pausedBy[p] = "controller"]_vars
=============================================================================
