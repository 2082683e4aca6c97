------------------------------ MODULE MCAudio ------------------------------
(* The microphone's threads, and what the program and PulseAudio do to each *)
(* other. They share no state: a behaviour of this module is one of either, *)
(* chosen at the start, with the variables of the other at rest.            *)
EXTENDS Microphone

CONSTANTS Streams, ModuleIds, MaxChanges, MaxCalls

VARIABLES part, profile, default, playing, modules, connected, signal, pending, reply, info,
          codecAvailable, at, saved, from, to, moving, own, changes, calls, wanted, excused,
          left

Audio == INSTANCE PulseAudio
             WITH pc <- at, source <- from, destination <- to, available <- codecAvailable
audioVars == <<profile, default, playing, modules, connected, signal, pending, reply, info,
               codecAvailable, at, saved, from, to, moving, own, changes, calls, wanted,
               excused, left>>

InMicrophone(A) == part = "microphone" /\ A /\ UNCHANGED <<part, audioVars>>
InAudio(A) == part = "audio" /\ A /\ UNCHANGED <<part, vars>>

BothInit ==
    /\ part \in {"microphone", "audio"} /\ Init /\ Audio!Init
    /\ profile = "a2dp" /\ default = "speaker" /\ ~keep
    /\ part = "microphone" => modules = {}
    /\ part = "audio" => ~enabled

BothNext ==
    \/ \E t \in Starters : InMicrophone(Connects(t)) \/ InMicrophone(StoresConnected(t))
    \/ \E t \in Firers : InMicrophone(GivesUp(t))
    \/ InMicrophone(Drops) \/ InMicrophone(Disconnects)
    \/ InMicrophone(StoresReconnecting) \/ InMicrophone(ReceivesData)
    \/ InMicrophone(SetFromJson) \/ InMicrophone(OnSettingUpdated)
    \/ \E t \in Callers :
           \/ InMicrophone(Fires(t)) \/ InMicrophone(StartTests(t))
           \/ InMicrophone(StartLocks(t)) \/ InMicrophone(StartSpawns(t))
           \/ InMicrophone(StopAsks(t)) \/ InMicrophone(StopJoins(t))
           \/ InMicrophone(Resets(t))
    \/ InMicrophone(MonitorCreates) \/ InMicrophone(MonitorLooks)
    \/ InMicrophone(MonitorCaptures) \/ InMicrophone(MonitorStreams)
    \/ InMicrophone(MonitorStalls) \/ InMicrophone(MonitorRestarts)
    \/ InMicrophone(MonitorFlows) \/ InMicrophone(MonitorDecides)
    \/ InMicrophone(MonitorExits) \/ InMicrophone(MonitorEnds)
    \/ InMicrophone(StopCaptureClears) \/ InMicrophone(StopCaptureJoins)
    \/ InMicrophone(DecoderTests) \/ InMicrophone(DecoderSleeps)
    \/ InMicrophone(DecoderUnblocks)
    \/ InMicrophone(WriterSends) \/ InMicrophone(ReaderQueues)
    \/ InMicrophone(Drains) \/ InMicrophone(Records)
    \/ InAudio(Audio!UserSetsProfile) \/ InAudio(Audio!UserMovesStream)
    \/ InAudio(Audio!CardGoes) \/ InAudio(Audio!CardComes)
    \/ InAudio(Audio!SwitchToCard) \/ InAudio(Audio!SwitchCardToSpeakers)
    \/ InAudio(Audio!SwitchLooks) \/ InAudio(Audio!SwitchGivesUp)
    \/ InAudio(Audio!SetDefaultSink) \/ InAudio(Audio!ListSinkInputs)
    \/ InAudio(Audio!MoveSinkInput) \/ InAudio(Audio!SwitchDone)
    \/ InAudio(Audio!ResetA2dp) \/ InAudio(Audio!ResetTurnsOff)
    \/ InAudio(Audio!ResetRestores)
    \/ InAudio(Audio!MicrophoneLists) \/ InAudio(Audio!MicrophoneUnloadsStale)
    \/ InAudio(Audio!MicrophoneLoads) \/ InAudio(Audio!MicrophoneGoes)
    \/ InAudio(Audio!PulseReads) \/ InAudio(Audio!PulseFires)
    \/ InAudio(Audio!ConstructorReads) \/ InAudio(Audio!ConstructorFails)
    \/ InAudio(Audio!ConstructorStores) \/ InAudio(Audio!CodecResets)
    \/ InAudio(Audio!SetFromJson)

BothSpec == BothInit /\ [][BothNext]_<<part, vars, audioVars>>

\* See PulseAudio: the card has the profile that was asked for, and clients see its codec.
ProfileTrue == part = "audio" => Audio!TypeOK /\ Audio!ProfileTrue
\* See PulseAudio: no stream and no virtual microphone is left behind.
NothingLeft == part = "audio" => Audio!NothingLeft
=============================================================================
