----------------------------- MODULE AudioProofs -----------------------------
(***************************************************************************)
(* Proofs about the audio: that no wake of the microphone is lost and that *)
(* nothing of it is left on, for any threads that start the client, any    *)
(* capacities and any number of connections and requests; and that the     *)
(* card, its codec, the streams and the virtual microphone in PulseAudio   *)
(* end up as the program means them to, whatever the user, the card and    *)
(* the other streams do meanwhile.                                         *)
(***************************************************************************)
EXTENDS MCAudio, TLAPS

(***************************************************************************)
(* The microphone.                                                         *)
(***************************************************************************)
Pcs == {"idle", "started", "lost", "Connected", "Reconnecting", "Disconnected",
        "test", "start", "spawn", "stop", "join", "stopped?"}

Types ==
    /\ client \in {"Disconnected", "Reconnecting", "Connected"}
    /\ pc \in [Callers -> Pcs]
    /\ link \in BOOLEAN /\ headphones \in BOOLEAN /\ enabled \in BOOLEAN
    /\ stop \in BOOLEAN /\ running \in BOOLEAN /\ stream \in BOOLEAN /\ capture \in BOOLEAN
    /\ raced \in BOOLEAN
    /\ outgoing \in {"none", "on", "off"} /\ late \in BOOLEAN
    /\ back \in {"none", "stream", "again", "stalled", "silence"}

Mons == {"none", "create", "while", "state", "capture", "again", "clear", "joins", "stream",
         "stall?", "stalled", "restart", "final", "exit", "silence", "ended"}
Looks == [{"enabled", "keep", "recording", "connected"} -> BOOLEAN]
Decoders == {"none", "test", "tested", "asleep", "write", "ended"}

Flags ==
    /\ keep \in BOOLEAN /\ available \in BOOLEAN /\ consumer \in BOOLEAN
    /\ queueLock \in BOOLEAN /\ terminated \in BOOLEAN
Counts ==
    /\ events \in 0..MaxEvents
    /\ queue \in 0..AudioQueueCapacity /\ fifo \in 0..FifoCapacity
Places ==
    /\ lifecycle \in Callers \cup {"free"}
    /\ mon \in Mons
    /\ source \in {"none", "loaded", "failed"}
    /\ decoder \in Decoders
Rest == Flags /\ Counts /\ Places /\ look \in Looks

\* A capture has its decoder, which is joined before the next one starts.
Held ==
    /\ ~terminated
    /\ capture /\ mon \notin {"clear", "joins"} => decoder # "none"
    /\ decoder # "none" => capture \/ mon \in {"clear", "joins"}
    /\ mon \in {"none", "create", "again", "clear", "joins", "stalled", "restart", "silence",
                "ended"} => ~capture

Ending == mon \in {"exit", "silence", "ended"} \/ (mon \in {"clear", "joins"} /\ back = "silence")
Active == mon # "none" /\ ~Ending

\* The places from which a thread goes on to wake the monitor.
Waking == \E t \in Callers : pc[t] \in {"Connected", "test", "start", "spawn"}

\* Nobody resets while the device is connected; the reader that has lost the connection is on
\* its way to say so.
LinkInv ==
    /\ client = "Connected" => \A u \in Firers : pc[u] \notin Resetting
    /\ client = "Connected" /\ ~link => pc["reader"] = "lost"
    /\ pc["reader"] = "lost" => ~link
    /\ pc["server"] \notin Resetting

\* A monitor that is asked to stop is waited for, then forgotten.
StopInv ==
    /\ stop /\ mon # "none" => \E u \in Firers : pc[u] = "join"
    /\ stop /\ running => \E u \in Firers : pc[u] \in {"join", "stopped?"}
    /\ \A u \in Firers : pc[u] \in {"join", "stopped?"} => stop
    /\ \A u \in Firers : pc[u] = "stopped?" => mon = "none"

\* _monitorRunning is set exactly while the monitor neither ends nor is to be stopped.
RunInv ==
    /\ running /\ ~stop => Active
    /\ Active => running

\* What the monitor has at each point.
OwnInv ==
    /\ mon \notin {"none", "create", "ended"} => source = "loaded"
    /\ mon \in {"none", "create", "ended"} => ~capture /\ ~stream /\ source # "loaded"
    /\ mon \in {"clear", "joins", "silence"} => ~capture
    /\ mon \in {"clear", "joins"} => back # "none"

\* While the device is not connected there is no monitor, or a thread resets it.
OffInv ==
    client # "Connected" => \/ mon = "none" /\ ~running
                            \/ \E u \in Firers : pc[u] \in Resetting

\* Headphones send audio on a connection only, and there, unless an "on" is late, they do or
\* are about to do what the monitor wants.
AudioInv ==
    /\ ~link => ~headphones
    /\ link /\ client # "Connected" =>
           mon = "none" /\ (~late => ~Told) /\ \A u \in Firers : pc[u] \notin Resetting
    /\ link /\ client = "Connected" /\ ~late => Told = stream

\* An enabled microphone of connected headphones has a monitor, or somebody is about to wake it.
WakeInv ==
    enabled /\ link /\ client = "Connected" =>
        source = "failed" \/ Waking \/ (running /\ ~stop)

IInv ==
    /\ Types
    /\ ~raced => /\ LinkInv /\ StopInv /\ RunInv /\ OwnInv /\ OffInv /\ AudioInv /\ WakeInv
-----------------------------------------------------------------------------
\* Who the callers are.
LEMMA Threads ==
    /\ "dbus" \in Firers /\ "reader" \in Firers /\ "server" \in Callers
    /\ "dbus" \in Callers /\ "reader" \in Callers /\ "server" \notin Firers
    /\ Starters \subseteq Firers /\ Firers \subseteq Callers /\ "reader" \notin Starters
    /\ \A t \in Callers : t \in Firers \/ t = "server"
BY MicrophoneAssumption DEF Firers, Callers

\* What the monitor knows before it has looked.
LEMMA NoLook == Nothing \in Looks
<1>1. DOMAIN Nothing = {"enabled", "keep", "recording", "connected"}
  BY DEF Nothing
<1>2. /\ Nothing["enabled"] = FALSE /\ Nothing["keep"] = FALSE
      /\ Nothing["recording"] = FALSE /\ Nothing["connected"] = FALSE
  BY DEF Nothing
<1>3. Nothing = [f \in {"enabled", "keep", "recording", "connected"} |-> Nothing[f]]
  BY <1>1 DEF Nothing
<1> QED BY <1>2, <1>3 DEF Looks

\* Types are kept.
LEMMA TypesStep == IInv /\ [Next]_vars => (Types')
<1> SUFFICES ASSUME IInv, [Next]_vars PROVE Types'
  OBVIOUS
<1>1. ASSUME NEW t \in Starters, Connects(t) PROVE Types'
  BY <1>1, Threads DEF Connects, Goes, IInv, Types, Pcs, captureVars, monVars, commandVars
<1>2. ASSUME NEW t \in Starters, StoresConnected(t) PROVE Types'
  BY <1>2, Threads
    DEF StoresConnected, SetClientState, Goes, IInv, Types, Pcs, settingVars, captureVars,
        monVars, commandVars
<1>3. ASSUME NEW t \in Firers, GivesUp(t) PROVE Types'
  BY <1>3, Threads
    DEF GivesUp, SetClientState, Goes, IInv, Types, Pcs, settingVars, captureVars, monVars,
        commandVars
<1>4. CASE Drops
  BY <1>4, Threads
    DEF Drops, Goes, IInv, Types, Pcs, Overtakes, Resetting, deviceVars, settingVars, threadVars,
        decodeVars, captureVars, monVars, commandVars, LinkEnds
<1>5. CASE Disconnects
  BY <1>5, Threads
    DEF Disconnects, SetClientState, Goes, IInv, Types, Pcs, Overtakes, Resetting, deviceVars,
        settingVars, threadVars, decodeVars, captureVars, monVars, commandVars, LinkEnds
<1>6. CASE StoresReconnecting
  BY <1>6, Threads
    DEF StoresReconnecting, SetClientState, Goes, IInv, Types, Pcs, settingVars, captureVars,
        monVars, commandVars
<1>7. CASE ReceivesData
  BY <1>7, Threads
    DEF ReceivesData, SetClientState, Goes, IInv, Types, Pcs, settingVars, captureVars, monVars,
        commandVars
<1>8. CASE SetFromJson
  BY <1>8, Threads
    DEF SetFromJson, Goes, IInv, Types, Pcs, deviceVars, threadVars, captureVars, monVars,
        commandVars
<1>9. CASE OnSettingUpdated
  BY <1>9 DEF OnSettingUpdated, IInv, Types, deviceVars, threadVars, captureVars, monVars,
      commandVars
<1>10. ASSUME NEW t \in Callers, Fires(t) PROVE Types'
  BY <1>10 DEF Fires, Goes, IInv, Types, Pcs, settingVars, captureVars, monVars, commandVars
<1>11. ASSUME NEW t \in Callers, StartTests(t) PROVE Types'
  BY <1>11
    DEF StartTests, Goes, IInv, Types, Pcs, deviceVars, settingVars, threadVars, captureVars,
        monVars, commandVars
<1>12. ASSUME NEW t \in Callers, StartLocks(t) PROVE Types'
  BY <1>12 DEF StartLocks, Goes, IInv, Types, Pcs, deviceVars, settingVars, captureVars, monVars,
      commandVars
<1>13. ASSUME NEW t \in Callers, StartSpawns(t) PROVE Types'
  BY <1>13, Threads
    DEF StartSpawns, Goes, IInv, Types, Pcs, Overtakes, Resetting, deviceVars, settingVars,
        threadVars, decodeVars, captureVars, monVars, commandVars
<1>14. ASSUME NEW t \in Callers, StopAsks(t) PROVE Types'
  BY <1>14 DEF StopAsks, Goes, IInv, Types, Pcs, deviceVars, settingVars, captureVars, monVars,
      commandVars
<1>15. ASSUME NEW t \in Callers, StopJoins(t) PROVE Types'
  BY <1>15 DEF StopJoins, Goes, IInv, Types, Pcs, deviceVars, settingVars, captureVars, commandVars
<1>16. ASSUME NEW t \in Callers, Resets(t) PROVE Types'
  BY <1>16, Threads
    DEF Resets, Goes, IInv, Types, Pcs, Overtakes, Resetting, deviceVars, settingVars, threadVars,
        decodeVars, captureVars, monVars, commandVars
<1>17. CASE MonitorCreates
  <2>1. UNCHANGED <<client, link, enabled, stop, raced, pc, capture, back, stream,
                   outgoing, headphones, late>>
    BY <1>17 DEF MonitorCreates, deviceVars, settingVars, threadVars, captureVars, commandVars
  <2>2. running' \in BOOLEAN
    BY <1>17 DEF MonitorCreates, IInv, Types
  <2> QED BY <2>1, <2>2 DEF IInv, Types
<1>18. CASE MonitorLooks
  <2>1. UNCHANGED <<client, link, enabled, stop, raced, pc, running, capture, back, stream>>
    BY <1>18 DEF MonitorLooks, deviceVars, settingVars, threadVars, captureVars
  <2>2. UNCHANGED <<outgoing, headphones, late>>
    BY <1>18 DEF MonitorLooks, commandVars
  <2> QED BY <2>1, <2>2 DEF IInv, Types
<1>19. CASE MonitorCaptures
  <2>1. back' \in {"none", "stream", "again", "stalled", "silence"}
    BY <1>19 DEF MonitorCaptures, StopCaptureFlag, IInv, Types
  <2>2. UNCHANGED <<deviceVars, settingVars, threadVars, pc, running, commandVars, stream>>
    BY <1>19 DEF MonitorCaptures
  <2>3. capture' \in BOOLEAN
    BY <1>19 DEF MonitorCaptures, StopCaptureFlag, StartCapture, IInv, Types
  <2> QED
    BY <2>1, <2>2, <2>3 DEF IInv, Types, Pcs, deviceVars, settingVars, threadVars, commandVars
<1>20. CASE MonitorStreams
  <2>1. UNCHANGED <<client, link, enabled, stop, raced, pc, running, capture, back>>
    BY <1>20 DEF MonitorStreams, deviceVars, settingVars, threadVars, captureVars
  <2>2. /\ stream' \in BOOLEAN /\ headphones' \in BOOLEAN
        /\ outgoing' \in {"none", "on", "off"} /\ late' \in BOOLEAN
    BY <1>20
      DEF MonitorStreams, StopMicrophoneStream, StartMicrophoneStream, SendData, commandVars, IInv,
          Types
  <2> QED BY <2>1, <2>2 DEF IInv, Types
<1>21. CASE MonitorStalls
  <2>1. UNCHANGED <<client, link, enabled, stop, raced, pc, running, stream, outgoing,
                   headphones, late>>
    BY <1>21 DEF MonitorStalls, deviceVars, settingVars, threadVars, commandVars
  <2>2. capture' \in BOOLEAN /\ back' \in {"none", "stream", "again", "stalled", "silence"}
    BY <1>21 DEF MonitorStalls, StopCaptureFlag, IInv, Types
  <2> QED BY <2>1, <2>2 DEF IInv, Types
<1>22. CASE MonitorRestarts
  <2>1. (mon = "stalled" /\ mon' = "restart") \/ (mon = "restart" /\ mon' = "final")
    BY <1>22 DEF MonitorRestarts, At, In
  <2>2. /\ UNCHANGED <<deviceVars, settingVars, threadVars, queueLock, fifo, look, back, pc,
                      running, source, consumer>>
        /\ capture' \in BOOLEAN /\ stream' \in BOOLEAN /\ headphones' \in BOOLEAN
        /\ outgoing' \in {"none", "on", "off"} /\ late' \in BOOLEAN
    BY <1>22
      DEF MonitorRestarts, StopMicrophoneStream, StartMicrophoneStream, StartCapture, SendData,
          IInv, Types, commandVars
  <2> QED BY <2>1, <2>2, Threads DEF IInv, Types, Pcs, deviceVars, settingVars, threadVars
<1>23. CASE MonitorFlows
  BY <1>23 DEF MonitorFlows, IInv, Types, deviceVars, settingVars, threadVars, captureVars,
      commandVars
<1>24. CASE MonitorDecides
  BY <1>24 DEF MonitorDecides, IInv, Types, deviceVars, settingVars, threadVars, captureVars,
      commandVars
<1>25. CASE MonitorExits
  <2>1. UNCHANGED <<client, link, enabled, stop, raced, pc, running, stream, outgoing,
                   headphones, late>>
    BY <1>25 DEF MonitorExits, deviceVars, settingVars, threadVars, commandVars
  <2>2. capture' \in BOOLEAN /\ back' \in {"none", "stream", "again", "stalled", "silence"}
    BY <1>25 DEF MonitorExits, StopCaptureFlag, IInv, Types
  <2> QED BY <2>1, <2>2 DEF IInv, Types
<1>26. CASE MonitorEnds
  BY <1>26, Threads
    DEF MonitorEnds, In, At, StopMicrophoneStream, IInv, Types, Pcs, Overtakes, Resetting,
        deviceVars, settingVars, threadVars, decodeVars, captureVars, monVars, commandVars, SendData
<1>27. CASE StopCaptureClears
  BY <1>27 DEF StopCaptureClears, IInv, Types, deviceVars, settingVars, threadVars, captureVars,
      commandVars
<1>28. CASE StopCaptureJoins
  BY <1>28 DEF StopCaptureJoins, IInv, Types, deviceVars, settingVars, threadVars, commandVars
<1>29. CASE Decoder
  BY <1>29
    DEF Decoder, DecoderTests, DecoderSleeps, DecoderUnblocks, IInv, Types, deviceVars,
        settingVars, threadVars, captureVars, monVars, commandVars
<1>30. CASE ReaderQueues
  BY <1>30
    DEF ReaderQueues, IInv, Types, deviceVars, settingVars, threadVars, captureVars, monVars,
        commandVars
<1>31. CASE Drains
  BY <1>31 DEF Drains, IInv, Types, deviceVars, settingVars, threadVars, captureVars, monVars,
      commandVars
<1>32. CASE Records
  BY <1>32 DEF Records, IInv, Types, deviceVars, settingVars, threadVars, captureVars, monVars,
      commandVars
<1>34. CASE WriterSends
  BY <1>34 DEF WriterSends, IInv, Types, deviceVars, settingVars, threadVars, captureVars,
      monVars, commandVars
<1>33. CASE UNCHANGED vars
  BY <1>33 DEF vars, IInv, Types, deviceVars, settingVars, threadVars, captureVars, monVars,
      commandVars
<1> QED
  BY <1>1, <1>2, <1>3, <1>4, <1>5, <1>6, <1>7, <1>8, <1>9, <1>10, <1>11, <1>12, <1>13, <1>14,
     <1>15, <1>16, <1>17, <1>18, <1>19, <1>20, <1>21, <1>22, <1>23, <1>24, <1>25, <1>26, <1>27,
     <1>28, <1>29, <1>30, <1>31, <1>32, <1>33, <1>34
    DEF Next, Caller, Monitor

\* Nobody resets while the device is connected.
LEMMA LinkStep == IInv /\ [Next]_vars => (~raced' => LinkInv')
<1> SUFFICES ASSUME IInv, [Next]_vars, ~raced' PROVE LinkInv'
  OBVIOUS
<1>1. ASSUME NEW t \in Starters, Connects(t) PROVE LinkInv'
  BY <1>1 DEF Connects, Goes, IInv, Resetting, LinkInv
<1>2. ASSUME NEW t \in Starters, StoresConnected(t) PROVE LinkInv'
  BY <1>2, Threads
    DEF StoresConnected, SetClientState, Goes, IInv, Types, Pcs, Overtakes, Resetting, LinkInv,
        deviceVars, settingVars, threadVars, decodeVars, captureVars, monVars
<1>3. ASSUME NEW t \in Firers, GivesUp(t) PROVE LinkInv'
  BY <1>3, Threads DEF GivesUp, SetClientState, Goes, IInv, LinkInv
<1>4. CASE Drops
  BY <1>4, Threads DEF Drops, Goes, IInv, Types, Resetting, LinkInv, LinkEnds
<1>5. CASE Disconnects
  BY <1>5 DEF Disconnects, SetClientState, Goes, IInv, LinkInv, LinkEnds
<1>6. CASE StoresReconnecting
  BY <1>6 DEF StoresReconnecting, SetClientState, Goes, IInv, LinkInv
<1>7. CASE ReceivesData
  BY <1>7, Threads
    DEF ReceivesData, SetClientState, Goes, IInv, Types, Pcs, Overtakes, Resetting, LinkInv,
        deviceVars, settingVars, threadVars, decodeVars, captureVars, monVars
<1>8. CASE SetFromJson
  BY <1>8 DEF SetFromJson, Goes, IInv, Resetting, LinkInv, deviceVars
<1>9. CASE OnSettingUpdated
  BY <1>9 DEF OnSettingUpdated, IInv, LinkInv, deviceVars, threadVars
<1>10. ASSUME NEW t \in Callers, Fires(t) PROVE LinkInv'
  BY <1>10, Threads DEF Fires, Goes, IInv, Types, Resetting, LinkInv
<1>11. ASSUME NEW t \in Callers, StartTests(t) PROVE LinkInv'
  BY <1>11 DEF StartTests, Goes, IInv, Resetting, LinkInv, deviceVars
<1>12. ASSUME NEW t \in Callers, StartLocks(t) PROVE LinkInv'
  BY <1>12, Threads DEF StartLocks, Goes, IInv, Types, Resetting, LinkInv, deviceVars
<1>13. ASSUME NEW t \in Callers, StartSpawns(t) PROVE LinkInv'
  BY <1>13 DEF StartSpawns, Goes, IInv, Resetting, LinkInv, deviceVars
<1>14. ASSUME NEW t \in Callers, StopAsks(t) PROVE LinkInv'
  BY <1>14 DEF StopAsks, Goes, IInv, Resetting, LinkInv, deviceVars
<1>15. ASSUME NEW t \in Callers, StopJoins(t) PROVE LinkInv'
  BY <1>15 DEF StopJoins, Goes, IInv, Resetting, LinkInv, deviceVars
<1>16. ASSUME NEW t \in Callers, Resets(t) PROVE LinkInv'
  BY <1>16 DEF Resets, Goes, IInv, Resetting, LinkInv
<1>17. CASE MonitorCreates
  BY <1>17 DEF MonitorCreates, In, IInv, LinkInv, deviceVars
<1>18. CASE MonitorLooks
  BY <1>18, Threads
    DEF MonitorLooks, In, At, IInv, Types, Pcs, Overtakes, Resetting, LinkInv, deviceVars,
        settingVars, threadVars, decodeVars, captureVars, monVars
<1>19. CASE MonitorCaptures
  BY <1>19 DEF MonitorCaptures, IInv, LinkInv, deviceVars, threadVars
<1>20. CASE MonitorStreams
  BY <1>20 DEF MonitorStreams, IInv, LinkInv, deviceVars, threadVars
<1>21. CASE MonitorStalls
  BY <1>21 DEF MonitorStalls, In, IInv, LinkInv, deviceVars
<1>22. CASE MonitorRestarts
  BY <1>22 DEF MonitorRestarts, In, At, IInv, LinkInv, deviceVars
<1>23. CASE MonitorFlows
  BY <1>23 DEF MonitorFlows, In, At, IInv, LinkInv, deviceVars
<1>24. CASE MonitorDecides
  BY <1>24 DEF MonitorDecides, In, IInv, LinkInv, deviceVars
<1>25. CASE MonitorExits
  BY <1>25 DEF MonitorExits, In, IInv, LinkInv, deviceVars
<1>26. CASE MonitorEnds
  BY <1>26 DEF MonitorEnds, IInv, LinkInv, deviceVars, threadVars
<1>27. CASE StopCaptureClears
  BY <1>27 DEF StopCaptureClears, In, At, IInv, LinkInv, deviceVars
<1>28. CASE StopCaptureJoins
  BY <1>28 DEF StopCaptureJoins, In, At, IInv, LinkInv, deviceVars
<1>29. CASE Decoder
  BY <1>29 DEF Decoder, DecoderTests, DecoderSleeps, DecoderUnblocks, IInv, LinkInv, deviceVars
<1>30. CASE ReaderQueues
  BY <1>30 DEF ReaderQueues, IInv, LinkInv, deviceVars
<1>31. CASE Drains
  BY <1>31 DEF Drains, IInv, LinkInv, deviceVars
<1>32. CASE Records
  BY <1>32 DEF Records, IInv, LinkInv, deviceVars
<1>34. CASE WriterSends
  BY <1>34 DEF WriterSends, IInv, LinkInv, deviceVars
<1>33. CASE UNCHANGED vars
  BY <1>33 DEF vars, IInv, LinkInv, deviceVars, threadVars
<1> QED
  BY <1>1, <1>2, <1>3, <1>4, <1>5, <1>6, <1>7, <1>8, <1>9, <1>10, <1>11, <1>12, <1>13, <1>14,
     <1>15, <1>16, <1>17, <1>18, <1>19, <1>20, <1>21, <1>22, <1>23, <1>24, <1>25, <1>26, <1>27,
     <1>28, <1>29, <1>30, <1>31, <1>32, <1>33, <1>34
    DEF Next, Caller, Monitor

\* A monitor that is asked to stop is waited for.
LEMMA StopStep == IInv /\ [Next]_vars => (~raced' => StopInv')
<1> SUFFICES ASSUME IInv, [Next]_vars, ~raced' PROVE StopInv'
  OBVIOUS
<1>1. ASSUME NEW t \in Starters, Connects(t) PROVE StopInv'
  BY <1>1 DEF Connects, Goes, IInv, StopInv, monVars
<1>2. ASSUME NEW t \in Starters, StoresConnected(t) PROVE StopInv'
  BY <1>2 DEF StoresConnected, SetClientState, Goes, IInv, StopInv, monVars
<1>3. ASSUME NEW t \in Firers, GivesUp(t) PROVE StopInv'
  BY <1>3 DEF GivesUp, SetClientState, Goes, IInv, StopInv, monVars
<1>4. CASE Drops
  BY <1>4 DEF Drops, Goes, IInv, StopInv, threadVars, monVars
<1>5. CASE Disconnects
  BY <1>5 DEF Disconnects, SetClientState, Goes, IInv, StopInv, monVars
<1>6. CASE StoresReconnecting
  BY <1>6 DEF StoresReconnecting, SetClientState, Goes, IInv, StopInv, monVars
<1>7. CASE ReceivesData
  BY <1>7 DEF ReceivesData, SetClientState, Goes, IInv, StopInv, monVars
<1>8. CASE SetFromJson
  BY <1>8 DEF SetFromJson, Goes, IInv, StopInv, threadVars, monVars
<1>9. CASE OnSettingUpdated
  BY <1>9 DEF OnSettingUpdated, IInv, StopInv, threadVars, monVars
<1>10. ASSUME NEW t \in Callers, Fires(t) PROVE StopInv'
  BY <1>10, Threads DEF Fires, Goes, IInv, Types, StopInv, monVars
<1>11. ASSUME NEW t \in Callers, StartTests(t) PROVE StopInv'
  BY <1>11 DEF StartTests, Goes, IInv, StopInv, threadVars, monVars
<1>12. ASSUME NEW t \in Callers, StartLocks(t) PROVE StopInv'
  BY <1>12, Threads DEF StartLocks, Goes, IInv, Types, StopInv, monVars
<1>13. ASSUME NEW t \in Callers, StartSpawns(t) PROVE StopInv'
  BY <1>13 DEF StartSpawns, Goes, IInv, Types, StopInv, Overlap
<1>14. ASSUME NEW t \in Callers, StopAsks(t) PROVE StopInv'
  BY <1>14, Threads DEF StopAsks, Goes, IInv, Types, Resetting, LinkInv, StopInv, monVars
<1>15. ASSUME NEW t \in Callers, StopJoins(t) PROVE StopInv'
  BY <1>15 DEF StopJoins, Goes, IInv, StopInv
<1>16. ASSUME NEW t \in Callers, Resets(t) PROVE StopInv'
  BY <1>16 DEF Resets, Goes, IInv, StopInv, threadVars, monVars
<1>17. CASE MonitorCreates
  BY <1>17 DEF MonitorCreates, In, IInv, StopInv, threadVars
<1>18. CASE MonitorLooks
  BY <1>18, Threads
    DEF MonitorLooks, In, At, IInv, Types, Pcs, Overtakes, Resetting, LinkInv, StopInv, RunInv,
        Joined, Overlap, Active, Ending, deviceVars, settingVars, threadVars, decodeVars,
        captureVars, monVars
<1>19. CASE MonitorCaptures
  BY <1>19 DEF MonitorCaptures, In, At, IInv, StopInv, threadVars
<1>20. CASE MonitorStreams
  BY <1>20 DEF MonitorStreams, In, At, IInv, StopInv, threadVars
<1>21. CASE MonitorStalls
  BY <1>21 DEF MonitorStalls, In, StopCaptureFlag, IInv, StopInv, threadVars
<1>22. CASE MonitorRestarts
  BY <1>22 DEF MonitorRestarts, In, At, IInv, StopInv, threadVars
<1>23. CASE MonitorFlows
  BY <1>23 DEF MonitorFlows, In, At, IInv, StopInv, threadVars
<1>24. CASE MonitorDecides
  BY <1>24 DEF MonitorDecides, In, IInv, StopInv, threadVars
<1>25. CASE MonitorExits
  BY <1>25 DEF MonitorExits, In, IInv, StopInv, threadVars
<1>26. CASE MonitorEnds
  BY <1>26 DEF MonitorEnds, In, At, IInv, StopInv, threadVars
<1>27. CASE StopCaptureClears
  BY <1>27 DEF StopCaptureClears, In, At, IInv, StopInv, threadVars
<1>28. CASE StopCaptureJoins
  BY <1>28 DEF StopCaptureJoins, In, At, IInv, StopInv, threadVars
<1>29. CASE Decoder
  BY <1>29
    DEF Decoder, DecoderTests, DecoderSleeps, DecoderUnblocks, IInv, StopInv, threadVars, monVars
<1>30. CASE ReaderQueues
  BY <1>30 DEF ReaderQueues, IInv, StopInv, threadVars, monVars
<1>31. CASE Drains
  BY <1>31 DEF Drains, IInv, StopInv, threadVars, monVars
<1>32. CASE Records
  BY <1>32 DEF Records, IInv, StopInv, threadVars, monVars
<1>34. CASE WriterSends
  BY <1>34 DEF WriterSends, IInv, StopInv, threadVars, monVars
<1>33. CASE UNCHANGED vars
  BY <1>33 DEF vars, IInv, StopInv, threadVars, monVars
<1> QED
  BY <1>1, <1>2, <1>3, <1>4, <1>5, <1>6, <1>7, <1>8, <1>9, <1>10, <1>11, <1>12, <1>13, <1>14,
     <1>15, <1>16, <1>17, <1>18, <1>19, <1>20, <1>21, <1>22, <1>23, <1>24, <1>25, <1>26, <1>27,
     <1>28, <1>29, <1>30, <1>31, <1>32, <1>33, <1>34
    DEF Next, Caller, Monitor

\* The flag says that the monitor works.
LEMMA RunStep == IInv /\ [Next]_vars => (~raced' => RunInv')
<1> SUFFICES ASSUME IInv, [Next]_vars, ~raced' PROVE RunInv'
  OBVIOUS
<1>1. ASSUME NEW t \in Starters, Connects(t) PROVE RunInv'
  BY <1>1 DEF Connects, Goes, IInv, RunInv, Active, Ending, monVars
<1>2. ASSUME NEW t \in Starters, StoresConnected(t) PROVE RunInv'
  BY <1>2 DEF StoresConnected, SetClientState, Goes, IInv, RunInv, Active, Ending, monVars
<1>3. ASSUME NEW t \in Firers, GivesUp(t) PROVE RunInv'
  BY <1>3 DEF GivesUp, SetClientState, Goes, IInv, RunInv, Active, Ending, monVars
<1>4. CASE Drops
  BY <1>4 DEF Drops, IInv, RunInv, Active, Ending, threadVars, monVars
<1>5. CASE Disconnects
  BY <1>5 DEF Disconnects, SetClientState, Goes, IInv, RunInv, Active, Ending, monVars
<1>6. CASE StoresReconnecting
  BY <1>6 DEF StoresReconnecting, SetClientState, Goes, IInv, RunInv, Active, Ending, monVars
<1>7. CASE ReceivesData
  BY <1>7 DEF ReceivesData, SetClientState, Goes, IInv, RunInv, Active, Ending, monVars
<1>8. CASE SetFromJson
  BY <1>8 DEF SetFromJson, IInv, RunInv, Active, Ending, threadVars, monVars
<1>9. CASE OnSettingUpdated
  BY <1>9 DEF OnSettingUpdated, IInv, RunInv, Active, Ending, threadVars, monVars
<1>10. ASSUME NEW t \in Callers, Fires(t) PROVE RunInv'
  BY <1>10 DEF Fires, Goes, IInv, RunInv, Active, Ending, monVars
<1>11. ASSUME NEW t \in Callers, StartTests(t) PROVE RunInv'
  BY <1>11 DEF StartTests, IInv, RunInv, Active, Ending, threadVars, monVars
<1>12. ASSUME NEW t \in Callers, StartLocks(t) PROVE RunInv'
  BY <1>12 DEF StartLocks, IInv, RunInv, Active, Ending, monVars
<1>13. ASSUME NEW t \in Callers, StartSpawns(t) PROVE RunInv'
  BY <1>13 DEF StartSpawns, RunInv, Active, Ending
<1>14. ASSUME NEW t \in Callers, StopAsks(t) PROVE RunInv'
  BY <1>14 DEF StopAsks, Goes, IInv, RunInv, Active, Ending, monVars
<1>15. ASSUME NEW t \in Callers, StopJoins(t) PROVE RunInv'
  BY <1>15 DEF StopJoins, IInv, RunInv, Active, Ending
<1>16. ASSUME NEW t \in Callers, Resets(t) PROVE RunInv'
  BY <1>16, Threads DEF Resets, Goes, IInv, Resetting, LinkInv, StopInv, RunInv, Active, monVars
<1>17. CASE MonitorCreates
  <2>1. /\ mon = "create" /\ UNCHANGED <<stop, pc, enabled, link, client, raced, back>>
        /\ \/ mon' = "while" /\ source' = "loaded" /\ running' = running
           \/ mon' = "ended" /\ source' = "failed" /\ running' = FALSE
    BY <1>17 DEF MonitorCreates, In, deviceVars, settingVars, threadVars
  <2>2. Active
    BY <2>1 DEF Active, Ending
  <2> QED BY <2>1, <2>2 DEF Active, Ending, RunInv, IInv
<1>18. CASE MonitorLooks
  BY <1>18, Threads
    DEF MonitorLooks, In, At, IInv, Types, Pcs, Overtakes, Resetting, OwnInv, LinkInv, StopInv,
        RunInv, Joined, Overlap, Active, Ending, deviceVars, settingVars, threadVars, decodeVars,
        captureVars, monVars
<1>19. CASE MonitorCaptures
  BY <1>19 DEF MonitorCaptures, In, At, StopCaptureFlag, IInv, RunInv, Active, Ending
<1>20. CASE MonitorStreams
  BY <1>20 DEF MonitorStreams, In, At, IInv, RunInv, Active, Ending
<1>21. CASE MonitorStalls
  BY <1>21 DEF MonitorStalls, In, StopCaptureFlag, IInv, RunInv, Active, Ending
<1>22. CASE MonitorRestarts
  BY <1>22 DEF MonitorRestarts, In, At, IInv, RunInv, Active, Ending
<1>23. CASE MonitorFlows
  BY <1>23 DEF MonitorFlows, In, At, IInv, RunInv, Active, Ending
<1>24. CASE MonitorDecides
  BY <1>24, Threads
    DEF MonitorDecides, In, Leaves, IInv, Types, Pcs, Overtakes, Resetting, OwnInv, LinkInv,
        StopInv, RunInv, Joined, Overlap, Active, Ending, deviceVars, settingVars, threadVars,
        decodeVars, captureVars, monVars
<1>25. CASE MonitorExits
  BY <1>25 DEF MonitorExits, In, StopCaptureFlag, IInv, RunInv, Active, Ending, threadVars
<1>26. CASE MonitorEnds
  BY <1>26 DEF MonitorEnds, At, RunInv, Active, Ending
<1>27. CASE StopCaptureClears
  BY <1>27 DEF StopCaptureClears, In, At, IInv, RunInv, Active, Ending, threadVars
<1>28. CASE StopCaptureJoins
  BY <1>28 DEF StopCaptureJoins, In, At, IInv, Types, OwnInv, RunInv, Active, Ending, threadVars
<1>29. CASE Decoder
  BY <1>29
    DEF Decoder, DecoderTests, DecoderSleeps, DecoderUnblocks, IInv, RunInv, Active, Ending,
        threadVars, monVars
<1>30. CASE ReaderQueues
  BY <1>30 DEF ReaderQueues, IInv, RunInv, Active, Ending, threadVars, monVars
<1>31. CASE Drains
  BY <1>31 DEF Drains, IInv, RunInv, Active, Ending, threadVars, monVars
<1>32. CASE Records
  BY <1>32 DEF Records, IInv, RunInv, Active, Ending, threadVars, monVars
<1>34. CASE WriterSends
  BY <1>34 DEF WriterSends, IInv, RunInv, Active, Ending, threadVars, monVars
<1>33. CASE UNCHANGED vars
  BY <1>33 DEF vars, IInv, RunInv, Active, Ending, threadVars, monVars
<1> QED
  BY <1>1, <1>2, <1>3, <1>4, <1>5, <1>6, <1>7, <1>8, <1>9, <1>10, <1>11, <1>12, <1>13, <1>14,
     <1>15, <1>16, <1>17, <1>18, <1>19, <1>20, <1>21, <1>22, <1>23, <1>24, <1>25, <1>26, <1>27,
     <1>28, <1>29, <1>30, <1>31, <1>32, <1>33, <1>34
    DEF Next, Caller, Monitor

\* The monitor leaves nothing on.
LEMMA OwnStep == IInv /\ [Next]_vars => (~raced' => OwnInv')
<1> SUFFICES ASSUME IInv, [Next]_vars, ~raced' PROVE OwnInv'
  OBVIOUS
<1>1. ASSUME NEW t \in Starters, Connects(t) PROVE OwnInv'
  BY <1>1 DEF Connects, IInv, Types, OwnInv, captureVars, monVars
<1>2. ASSUME NEW t \in Starters, StoresConnected(t) PROVE OwnInv'
  BY <1>2 DEF StoresConnected, SetClientState, Goes, IInv, OwnInv, captureVars, monVars
<1>3. ASSUME NEW t \in Firers, GivesUp(t) PROVE OwnInv'
  BY <1>3 DEF GivesUp, SetClientState, Goes, IInv, OwnInv, captureVars, monVars
<1>4. CASE Drops
  BY <1>4 DEF Drops, Goes, IInv, OwnInv, captureVars, monVars
<1>5. CASE Disconnects
  BY <1>5 DEF Disconnects, SetClientState, Goes, IInv, OwnInv, captureVars, monVars
<1>6. CASE StoresReconnecting
  BY <1>6 DEF StoresReconnecting, SetClientState, Goes, IInv, OwnInv, captureVars, monVars
<1>7. CASE ReceivesData
  BY <1>7 DEF ReceivesData, SetClientState, Goes, IInv, OwnInv, captureVars, monVars
<1>8. CASE SetFromJson
  BY <1>8 DEF SetFromJson, Goes, IInv, OwnInv, captureVars, monVars
<1>9. CASE OnSettingUpdated
  BY <1>9 DEF OnSettingUpdated, IInv, OwnInv, threadVars, captureVars, monVars
<1>10. ASSUME NEW t \in Callers, Fires(t) PROVE OwnInv'
  BY <1>10 DEF Fires, IInv, Types, OwnInv, captureVars, monVars
<1>11. ASSUME NEW t \in Callers, StartTests(t) PROVE OwnInv'
  BY <1>11 DEF StartTests, Goes, IInv, OwnInv, captureVars, monVars
<1>12. ASSUME NEW t \in Callers, StartLocks(t) PROVE OwnInv'
  BY <1>12 DEF StartLocks, IInv, OwnInv, captureVars, monVars
<1>13. ASSUME NEW t \in Callers, StartSpawns(t) PROVE OwnInv'
  BY <1>13 DEF StartSpawns, IInv, Types, OwnInv, Joined, captureVars
<1>14. ASSUME NEW t \in Callers, StopAsks(t) PROVE OwnInv'
  BY <1>14 DEF StopAsks, IInv, Types, OwnInv, captureVars, monVars
<1>15. ASSUME NEW t \in Callers, StopJoins(t) PROVE OwnInv'
  BY <1>15 DEF StopJoins, IInv, OwnInv, captureVars
<1>16. ASSUME NEW t \in Callers, Resets(t) PROVE OwnInv'
  BY <1>16 DEF Resets, Goes, IInv, OwnInv, captureVars, monVars
<1>17. CASE MonitorCreates
  BY <1>17 DEF MonitorCreates, In, IInv, OwnInv, captureVars
<1>18. CASE MonitorLooks
  BY <1>18, Threads
    DEF MonitorLooks, In, At, IInv, Types, Pcs, Overtakes, Resetting, OwnInv, StopInv, Joined,
        Overlap, deviceVars, settingVars, threadVars, decodeVars, captureVars, monVars
<1>19. CASE MonitorCaptures
  BY <1>19 DEF MonitorCaptures, In, At, StopCaptureFlag, IInv, OwnInv
<1>20. CASE MonitorStreams
  BY <1>20 DEF MonitorStreams, In, At, IInv, OwnInv
<1>21. CASE MonitorStalls
  BY <1>21 DEF MonitorStalls, In, StopCaptureFlag, IInv, OwnInv
<1>22. CASE MonitorRestarts
  BY <1>22 DEF MonitorRestarts, In, At, IInv, OwnInv
<1>23. CASE MonitorFlows
  BY <1>23 DEF MonitorFlows, In, At, IInv, OwnInv
<1>24. CASE MonitorDecides
  BY <1>24 DEF MonitorDecides, In, IInv, OwnInv
<1>25. CASE MonitorExits
  BY <1>25 DEF MonitorExits, In, StopCaptureFlag, IInv, OwnInv
<1>26. CASE MonitorEnds
  BY <1>26 DEF MonitorEnds, In, At, StopMicrophoneStream, IInv, OwnInv, captureVars
<1>27. CASE StopCaptureClears
  BY <1>27 DEF StopCaptureClears, In, At, IInv, OwnInv, captureVars
<1>28. CASE StopCaptureJoins
  BY <1>28 DEF StopCaptureJoins, In, At, IInv, Types, OwnInv
<1>29. CASE Decoder
  BY <1>29
    DEF Decoder, DecoderTests, DecoderSleeps, DecoderUnblocks, IInv, OwnInv, captureVars, monVars
<1>30. CASE ReaderQueues
  BY <1>30 DEF ReaderQueues, IInv, OwnInv, monVars
<1>31. CASE Drains
  BY <1>31 DEF Drains, IInv, OwnInv, captureVars, monVars
<1>32. CASE Records
  BY <1>32 DEF Records, IInv, OwnInv, captureVars, monVars
<1>34. CASE WriterSends
  BY <1>34 DEF WriterSends, IInv, OwnInv, captureVars, monVars
<1>33. CASE UNCHANGED vars
  BY <1>33 DEF vars, IInv, OwnInv, threadVars, captureVars, monVars
<1> QED
  BY <1>1, <1>2, <1>3, <1>4, <1>5, <1>6, <1>7, <1>8, <1>9, <1>10, <1>11, <1>12, <1>13, <1>14,
     <1>15, <1>16, <1>17, <1>18, <1>19, <1>20, <1>21, <1>22, <1>23, <1>24, <1>25, <1>26, <1>27,
     <1>28, <1>29, <1>30, <1>31, <1>32, <1>33, <1>34
    DEF Next, Caller, Monitor

\* A device that is not connected has no monitor, or is reset.
LEMMA OffStep == IInv /\ [Next]_vars => (~raced' => OffInv')
<1> SUFFICES ASSUME IInv, [Next]_vars, ~raced' PROVE OffInv'
  OBVIOUS
<1>1. ASSUME NEW t \in Starters, Connects(t) PROVE OffInv'
  BY <1>1 DEF Connects, Goes, IInv, Resetting, OffInv, monVars
<1>2. ASSUME NEW t \in Starters, StoresConnected(t) PROVE OffInv'
  BY <1>2 DEF StoresConnected, SetClientState, OffInv
<1>3. ASSUME NEW t \in Firers, GivesUp(t) PROVE OffInv'
  BY <1>3, Threads DEF GivesUp, SetClientState, Goes, IInv, Types, Resetting, OffInv
<1>4. CASE Drops
  BY <1>4 DEF Drops, Goes, IInv, Resetting, OffInv, monVars
<1>5. CASE Disconnects
  BY <1>5, Threads DEF Disconnects, SetClientState, Goes, IInv, Types, Resetting, OffInv
<1>6. CASE StoresReconnecting
  BY <1>6, Threads
    DEF StoresReconnecting, SetClientState, Goes, IInv, Types, Resetting, OffInv, monVars
<1>7. CASE ReceivesData
  BY <1>7 DEF ReceivesData, SetClientState, OffInv
<1>8. CASE SetFromJson
  BY <1>8 DEF SetFromJson, Goes, IInv, Resetting, OffInv, deviceVars, monVars
<1>9. CASE OnSettingUpdated
  BY <1>9 DEF OnSettingUpdated, IInv, OffInv, deviceVars, threadVars, monVars
<1>10. ASSUME NEW t \in Callers, Fires(t) PROVE OffInv'
  BY <1>10, Threads DEF Fires, Goes, IInv, Types, Resetting, OffInv, monVars
<1>11. ASSUME NEW t \in Callers, StartTests(t) PROVE OffInv'
  BY <1>11 DEF StartTests, Goes, IInv, Resetting, OffInv, deviceVars, monVars
<1>12. ASSUME NEW t \in Callers, StartLocks(t) PROVE OffInv'
  BY <1>12, Threads DEF StartLocks, Goes, IInv, Types, Resetting, OffInv, deviceVars, monVars
<1>13. ASSUME NEW t \in Callers, StartSpawns(t) PROVE OffInv'
  BY <1>13, Threads
    DEF StartSpawns, Goes, IInv, Types, Pcs, Overtakes, Resetting, OffInv, LinkInv, StopInv,
        RunInv, Joined, Overlap, Active, Ending, deviceVars, settingVars, threadVars, decodeVars,
        captureVars, monVars
<1>14. ASSUME NEW t \in Callers, StopAsks(t) PROVE OffInv'
  BY <1>14, Threads DEF StopAsks, Goes, IInv, Resetting, OffInv, LinkInv
<1>15. ASSUME NEW t \in Callers, StopJoins(t) PROVE OffInv'
  BY <1>15, Threads DEF StopJoins, Goes, IInv, Resetting, OffInv, LinkInv
<1>16. ASSUME NEW t \in Callers, Resets(t) PROVE OffInv'
  BY <1>16 DEF Resets, Goes, IInv, OffInv, StopInv, monVars
<1>17. CASE MonitorCreates
  BY <1>17 DEF MonitorCreates, In, IInv, OffInv, deviceVars
<1>18. CASE MonitorLooks
  BY <1>18, Threads
    DEF MonitorLooks, In, At, IInv, Types, Pcs, Overtakes, Resetting, OffInv, LinkInv, StopInv,
        RunInv, Joined, Overlap, Active, Ending, deviceVars, settingVars, threadVars, decodeVars,
        captureVars, monVars
<1>19. CASE MonitorCaptures
  BY <1>19 DEF MonitorCaptures, In, At, IInv, OffInv, deviceVars
<1>20. CASE MonitorStreams
  BY <1>20 DEF MonitorStreams, In, At, IInv, OffInv, deviceVars
<1>21. CASE MonitorStalls
  BY <1>21 DEF MonitorStalls, In, IInv, OffInv, deviceVars
<1>22. CASE MonitorRestarts
  BY <1>22 DEF MonitorRestarts, In, At, IInv, OffInv, deviceVars
<1>23. CASE MonitorFlows
  BY <1>23 DEF MonitorFlows, In, At, IInv, OffInv, deviceVars
<1>24. CASE MonitorDecides
  BY <1>24 DEF MonitorDecides, In, IInv, OffInv, deviceVars
<1>25. CASE MonitorExits
  BY <1>25 DEF MonitorExits, In, IInv, OffInv, deviceVars
<1>26. CASE MonitorEnds
  BY <1>26 DEF MonitorEnds, In, At, IInv, OffInv, deviceVars
<1>27. CASE StopCaptureClears
  BY <1>27 DEF StopCaptureClears, In, At, IInv, OffInv, deviceVars
<1>28. CASE StopCaptureJoins
  BY <1>28 DEF StopCaptureJoins, In, At, IInv, OffInv, deviceVars
<1>29. CASE Decoder
  BY <1>29
    DEF Decoder, DecoderTests, DecoderSleeps, DecoderUnblocks, IInv, OffInv, deviceVars, monVars
<1>30. CASE ReaderQueues
  BY <1>30 DEF ReaderQueues, IInv, OffInv, deviceVars, monVars
<1>31. CASE Drains
  BY <1>31 DEF Drains, IInv, OffInv, deviceVars, monVars
<1>32. CASE Records
  BY <1>32 DEF Records, IInv, OffInv, deviceVars, monVars
<1>34. CASE WriterSends
  BY <1>34 DEF WriterSends, IInv, OffInv, deviceVars, monVars
<1>33. CASE UNCHANGED vars
  BY <1>33 DEF vars, IInv, OffInv, deviceVars, threadVars, monVars
<1> QED
  BY <1>1, <1>2, <1>3, <1>4, <1>5, <1>6, <1>7, <1>8, <1>9, <1>10, <1>11, <1>12, <1>13, <1>14,
     <1>15, <1>16, <1>17, <1>18, <1>19, <1>20, <1>21, <1>22, <1>23, <1>24, <1>25, <1>26, <1>27,
     <1>28, <1>29, <1>30, <1>31, <1>32, <1>33, <1>34
    DEF Next, Caller, Monitor

\* Headphones send what they were asked for.
LEMMA AudioStep == IInv /\ [Next]_vars => (~raced' => AudioInv')
<1> SUFFICES ASSUME IInv, [Next]_vars, ~raced' PROVE AudioInv'
  OBVIOUS
<1>1. ASSUME NEW t \in Starters, Connects(t) PROVE AudioInv'
  BY <1>1, Threads
    DEF Connects, Goes, IInv, Types, Pcs, Overtakes, Resetting, AudioInv, OffInv, LinkInv, OwnInv,
        StopInv, Joined, Overlap, deviceVars, settingVars, threadVars, decodeVars, captureVars,
        monVars, commandVars, Told
<1>2. ASSUME NEW t \in Starters, StoresConnected(t) PROVE AudioInv'
  BY <1>2 DEF StoresConnected, SetClientState, Goes, IInv, Types, OwnInv, AudioInv, Told,
      commandVars
<1>3. ASSUME NEW t \in Firers, GivesUp(t) PROVE AudioInv'
  BY <1>3 DEF GivesUp, SetClientState, Goes, IInv, AudioInv, commandVars, Told
<1>4. CASE Drops
  BY <1>4 DEF Drops, AudioInv, commandVars, Told, LinkEnds
<1>5. CASE Disconnects
  BY <1>5 DEF Disconnects, AudioInv, commandVars, Told, LinkEnds
<1>6. CASE StoresReconnecting
  BY <1>6 DEF StoresReconnecting, SetClientState, Goes, IInv, AudioInv, LinkInv, commandVars, Told
<1>7. CASE ReceivesData
  BY <1>7 DEF ReceivesData, SetClientState, Goes, IInv, Types, OwnInv, AudioInv, Told, commandVars
<1>8. CASE SetFromJson
  BY <1>8 DEF SetFromJson, Goes, IInv, Resetting, AudioInv, deviceVars, monVars, commandVars, Told
<1>9. CASE OnSettingUpdated
  BY <1>9 DEF OnSettingUpdated, IInv, AudioInv, deviceVars, threadVars, monVars, commandVars, Told
<1>10. ASSUME NEW t \in Callers, Fires(t) PROVE AudioInv'
  BY <1>10, Threads DEF Fires, Goes, IInv, Types, Resetting, AudioInv, monVars, commandVars, Told
<1>11. ASSUME NEW t \in Callers, StartTests(t) PROVE AudioInv'
  BY <1>11 DEF StartTests, Goes, IInv, Resetting, AudioInv, deviceVars, monVars, commandVars, Told
<1>12. ASSUME NEW t \in Callers, StartLocks(t) PROVE AudioInv'
  BY <1>12, Threads DEF StartLocks, Goes, IInv, Types, Resetting, AudioInv, deviceVars, monVars,
      commandVars, Told
<1>13. ASSUME NEW t \in Callers, StartSpawns(t) PROVE AudioInv'
  BY <1>13 DEF StartSpawns, IInv, Types, AudioInv, Overlap, deviceVars, commandVars, Told
<1>14. ASSUME NEW t \in Callers, StopAsks(t) PROVE AudioInv'
  BY <1>14 DEF StopAsks, Goes, IInv, Resetting, AudioInv, deviceVars, monVars, commandVars, Told
<1>15. ASSUME NEW t \in Callers, StopJoins(t) PROVE AudioInv'
  BY <1>15 DEF StopJoins, Goes, IInv, Resetting, AudioInv, deviceVars, commandVars, Told
<1>16. ASSUME NEW t \in Callers, Resets(t) PROVE AudioInv'
  BY <1>16 DEF Resets, Goes, IInv, Resetting, AudioInv, monVars, commandVars, Told
<1>17. CASE MonitorCreates
  BY <1>17 DEF MonitorCreates, In, IInv, AudioInv, deviceVars, commandVars, Told
<1>18. CASE MonitorLooks
  BY <1>18, Threads
    DEF MonitorLooks, In, At, IInv, Types, Pcs, Overtakes, Resetting, AudioInv, OffInv, LinkInv,
        OwnInv, StopInv, Joined, Overlap, deviceVars, settingVars, threadVars, decodeVars,
        captureVars, monVars, commandVars, Told
<1>19. CASE MonitorCaptures
  BY <1>19 DEF MonitorCaptures, In, At, IInv, AudioInv, deviceVars, commandVars, Told
<1>20. CASE MonitorStreams
  BY <1>20
    DEF MonitorStreams, In, At, StopMicrophoneStream, StartMicrophoneStream, IInv, Types,
        AudioInv, deviceVars, commandVars, Told, SendData
<1>21. CASE MonitorStalls
  BY <1>21 DEF MonitorStalls, In, IInv, AudioInv, deviceVars, commandVars, Told
<1>22. CASE MonitorRestarts
  BY <1>22
    DEF MonitorRestarts, In, At, StopMicrophoneStream, StartMicrophoneStream, IInv, Types,
        AudioInv, deviceVars, commandVars, Told, SendData
<1>23. CASE MonitorFlows
  BY <1>23 DEF MonitorFlows, In, At, IInv, AudioInv, deviceVars, commandVars, Told
<1>24. CASE MonitorDecides
  BY <1>24 DEF MonitorDecides, In, IInv, AudioInv, deviceVars, commandVars, Told
<1>25. CASE MonitorExits
  BY <1>25 DEF MonitorExits, In, IInv, AudioInv, deviceVars, commandVars, Told
<1>26. CASE MonitorEnds
  BY <1>26 DEF MonitorEnds, In, At, StopMicrophoneStream, IInv, Types, AudioInv, deviceVars,
      commandVars, Told, SendData
<1>27. CASE StopCaptureClears
  BY <1>27 DEF StopCaptureClears, In, At, IInv, AudioInv, deviceVars, commandVars, Told
<1>28. CASE StopCaptureJoins
  BY <1>28 DEF StopCaptureJoins, In, At, IInv, AudioInv, deviceVars, commandVars, Told
<1>29. CASE Decoder
  BY <1>29
    DEF Decoder, DecoderTests, DecoderSleeps, DecoderUnblocks, IInv, AudioInv, deviceVars,
        monVars, commandVars, Told
<1>30. CASE ReaderQueues
  BY <1>30 DEF ReaderQueues, IInv, AudioInv, deviceVars, commandVars, Told, monVars
<1>31. CASE Drains
  BY <1>31 DEF Drains, IInv, AudioInv, deviceVars, monVars, commandVars, Told
<1>32. CASE Records
  BY <1>32 DEF Records, IInv, AudioInv, OwnInv, deviceVars, commandVars, Told, monVars
<1>34. CASE WriterSends
  BY <1>34 DEF WriterSends, IInv, AudioInv, OwnInv, deviceVars, commandVars, Told, monVars
<1>33. CASE UNCHANGED vars
  BY <1>33 DEF vars, IInv, AudioInv, deviceVars, threadVars, monVars, commandVars, Told
<1> QED
  BY <1>1, <1>2, <1>3, <1>4, <1>5, <1>6, <1>7, <1>8, <1>9, <1>10, <1>11, <1>12, <1>13, <1>14,
     <1>15, <1>16, <1>17, <1>18, <1>19, <1>20, <1>21, <1>22, <1>23, <1>24, <1>25, <1>26, <1>27,
     <1>28, <1>29, <1>30, <1>31, <1>32, <1>33, <1>34
    DEF Next, Caller, Monitor

\* A wake is not lost.
LEMMA WakeStep == IInv /\ [Next]_vars => (~raced' => WakeInv')
<1> SUFFICES ASSUME IInv, [Next]_vars, ~raced' PROVE WakeInv'
  OBVIOUS
<1>1. ASSUME NEW t \in Starters, Connects(t) PROVE WakeInv'
  BY <1>1 DEF Connects, IInv, Types, WakeInv, LinkInv
<1>2. ASSUME NEW t \in Starters, StoresConnected(t) PROVE WakeInv'
  BY <1>2, Threads
    DEF StoresConnected, SetClientState, Goes, IInv, Types, WakeInv, Waking, settingVars
<1>3. ASSUME NEW t \in Firers, GivesUp(t) PROVE WakeInv'
  BY <1>3 DEF GivesUp, WakeInv
<1>4. CASE Drops
  BY <1>4 DEF Drops, WakeInv, LinkEnds
<1>5. CASE Disconnects
  BY <1>5 DEF Disconnects, WakeInv, LinkEnds
<1>6. CASE StoresReconnecting
  BY <1>6 DEF StoresReconnecting, SetClientState, WakeInv
<1>7. CASE ReceivesData
  BY <1>7, Threads DEF ReceivesData, SetClientState, Goes, IInv, Types, WakeInv, Waking
<1>8. CASE SetFromJson
  BY <1>8, Threads DEF SetFromJson, Goes, IInv, Types, WakeInv, Waking
<1>9. CASE OnSettingUpdated
  BY <1>9 DEF OnSettingUpdated, IInv, WakeInv, Waking, deviceVars, threadVars
<1>10. ASSUME NEW t \in Callers, Fires(t) PROVE WakeInv'
  BY <1>10, Threads DEF Fires, Goes, IInv, Types, Resetting, WakeInv, Waking, LinkInv
<1>11. ASSUME NEW t \in Callers, StartTests(t) PROVE WakeInv'
  BY <1>11 DEF StartTests, Goes, WakeInv, Waking, deviceVars, settingVars
<1>12. ASSUME NEW t \in Callers, StartLocks(t) PROVE WakeInv'
  BY <1>12
    DEF StartLocks, Goes, IInv, Types, Resetting, WakeInv, Waking, LinkInv, StopInv, deviceVars
<1>13. ASSUME NEW t \in Callers, StartSpawns(t) PROVE WakeInv'
  BY <1>13 DEF StartSpawns, WakeInv
<1>14. ASSUME NEW t \in Callers, StopAsks(t) PROVE WakeInv'
  BY <1>14, Threads DEF StopAsks, Goes, IInv, Resetting, WakeInv, LinkInv, deviceVars
<1>15. ASSUME NEW t \in Callers, StopJoins(t) PROVE WakeInv'
  BY <1>15 DEF StopJoins, Goes, IInv, WakeInv, Waking, deviceVars, settingVars
<1>16. ASSUME NEW t \in Callers, Resets(t) PROVE WakeInv'
  BY <1>16, Threads DEF Resets, Goes, IInv, Resetting, WakeInv, LinkInv
<1>17. CASE MonitorCreates
  <2>1. /\ mon = "create" /\ UNCHANGED <<stop, pc, enabled, link, client, raced, back>>
        /\ \/ mon' = "while" /\ source' = "loaded" /\ running' = running
           \/ mon' = "ended" /\ source' = "failed" /\ running' = FALSE
    BY <1>17 DEF MonitorCreates, In, deviceVars, settingVars, threadVars
  <2>2. Active
    BY <2>1 DEF Active, Ending
  <2>3. raced = FALSE
    BY <1>17 DEF MonitorCreates, In
  <2>4. running
    BY <2>2, <2>3 DEF IInv, RunInv
  <2>5. ASSUME enabled, link, client = "Connected" PROVE ~stop
    <3>1. \A u \in Firers : pc[u] # "join"
      BY <2>3, <2>5 DEF IInv, LinkInv, Resetting
    <3> QED BY <3>1, <2>1, <2>3 DEF IInv, StopInv
  <2> QED BY <2>1, <2>4, <2>5 DEF WakeInv
<1>18. CASE MonitorLooks
  BY <1>18, Threads
    DEF MonitorLooks, In, At, IInv, Types, Pcs, Overtakes, Resetting, WakeInv, Waking, LinkInv,
        StopInv, RunInv, OwnInv, OffInv, AudioInv, Joined, Overlap, Active, Ending, Leaves,
        deviceVars, settingVars, threadVars, decodeVars, captureVars, monVars
<1>19. CASE MonitorCaptures
  BY <1>19 DEF MonitorCaptures, IInv, WakeInv, Waking, deviceVars, settingVars, threadVars
<1>20. CASE MonitorStreams
  BY <1>20 DEF MonitorStreams, IInv, WakeInv, Waking, deviceVars, settingVars, threadVars
<1>21. CASE MonitorStalls
  BY <1>21 DEF MonitorStalls, IInv, WakeInv, Waking, deviceVars, settingVars, threadVars
<1>22. CASE MonitorRestarts
  BY <1>22 DEF MonitorRestarts, IInv, WakeInv, Waking, deviceVars, settingVars, threadVars
<1>23. CASE MonitorFlows
  BY <1>23 DEF MonitorFlows, IInv, WakeInv, Waking, deviceVars, settingVars, threadVars
<1>24. CASE MonitorDecides
  BY <1>24
    DEF MonitorDecides, IInv, Types, WakeInv, Waking, Leaves, deviceVars, settingVars, threadVars
<1>25. CASE MonitorExits
  BY <1>25 DEF MonitorExits, IInv, WakeInv, Waking, deviceVars, settingVars, threadVars
<1>26. CASE MonitorEnds
  BY <1>26
    DEF MonitorEnds, In, At, IInv, WakeInv, Waking, RunInv, OwnInv, Active, Ending, deviceVars,
        settingVars
<1>27. CASE StopCaptureClears
  BY <1>27 DEF StopCaptureClears, IInv, WakeInv, Waking, deviceVars, settingVars, threadVars
<1>28. CASE StopCaptureJoins
  BY <1>28 DEF StopCaptureJoins, IInv, WakeInv, Waking, deviceVars, settingVars, threadVars
<1>29. CASE Decoder
  BY <1>29, Threads
    DEF Decoder, DecoderTests, DecoderSleeps, DecoderUnblocks, IInv, Types, Pcs, Overtakes,
        Resetting, WakeInv, Waking, LinkInv, StopInv, RunInv, OwnInv, OffInv, AudioInv, Joined,
        Overlap, Active, Ending, Leaves, deviceVars, settingVars, threadVars, decodeVars,
        captureVars, monVars
<1>30. CASE ReaderQueues
  BY <1>30 DEF ReaderQueues, IInv, WakeInv, Waking, deviceVars, settingVars, threadVars
<1>31. CASE Drains
  BY <1>31 DEF Drains, IInv, WakeInv, Waking, deviceVars, settingVars, threadVars
<1>32. CASE Records
  BY <1>32 DEF Records, IInv, WakeInv, Waking, deviceVars, settingVars, threadVars
<1>34. CASE WriterSends
  BY <1>34 DEF WriterSends, IInv, WakeInv, Waking, deviceVars, settingVars, threadVars
<1>33. CASE UNCHANGED vars
  BY <1>33 DEF vars, IInv, WakeInv, Waking, deviceVars, settingVars, threadVars
<1> QED
  BY <1>1, <1>2, <1>3, <1>4, <1>5, <1>6, <1>7, <1>8, <1>9, <1>10, <1>11, <1>12, <1>13, <1>14,
     <1>15, <1>16, <1>17, <1>18, <1>19, <1>20, <1>21, <1>22, <1>23, <1>24, <1>25, <1>26, <1>27,
     <1>28, <1>29, <1>30, <1>31, <1>32, <1>33, <1>34
    DEF Next, Caller, Monitor

\* A capture owns its decoder, and no thread is assigned over.
LEMMA HeldStep == Held /\ [Next]_vars => (Held')
<1> SUFFICES ASSUME Held, [Next]_vars PROVE Held'
  OBVIOUS
<1>1. ASSUME NEW t \in Starters, Connects(t) PROVE Held'
  BY <1>1 DEF Connects, Held, decodeVars, captureVars, monVars
<1>2. ASSUME NEW t \in Starters, StoresConnected(t) PROVE Held'
  BY <1>2 DEF StoresConnected, SetClientState, Held, decodeVars, captureVars, monVars
<1>3. ASSUME NEW t \in Firers, GivesUp(t) PROVE Held'
  BY <1>3 DEF GivesUp, SetClientState, Held, decodeVars, captureVars, monVars
<1>4. CASE Drops
  BY <1>4 DEF Drops, Held, decodeVars, captureVars, monVars
<1>5. CASE Disconnects
  BY <1>5 DEF Disconnects, SetClientState, Held, decodeVars, captureVars, monVars
<1>6. CASE StoresReconnecting
  BY <1>6 DEF StoresReconnecting, SetClientState, Held, decodeVars, captureVars, monVars
<1>7. CASE ReceivesData
  BY <1>7 DEF ReceivesData, SetClientState, Held, decodeVars, captureVars, monVars
<1>8. CASE SetFromJson
  BY <1>8 DEF SetFromJson, Held, decodeVars, captureVars, monVars
<1>9. CASE OnSettingUpdated
  BY <1>9 DEF OnSettingUpdated, Held, decodeVars, captureVars, monVars
<1>10. ASSUME NEW t \in Callers, Fires(t) PROVE Held'
  BY <1>10 DEF Fires, Held, decodeVars, captureVars, monVars
<1>11. ASSUME NEW t \in Callers, StartTests(t) PROVE Held'
  BY <1>11 DEF StartTests, Held, decodeVars, captureVars, monVars
<1>12. ASSUME NEW t \in Callers, StartLocks(t) PROVE Held'
  BY <1>12 DEF StartLocks, Held, decodeVars, captureVars, monVars
<1>13. ASSUME NEW t \in Callers, StartSpawns(t) PROVE Held'
  BY <1>13 DEF StartSpawns, Held, Joined, decodeVars, captureVars
<1>14. ASSUME NEW t \in Callers, StopAsks(t) PROVE Held'
  BY <1>14 DEF StopAsks, Held, decodeVars, captureVars, monVars
<1>15. ASSUME NEW t \in Callers, StopJoins(t) PROVE Held'
  BY <1>15 DEF StopJoins, Held, decodeVars, captureVars
<1>16. ASSUME NEW t \in Callers, Resets(t) PROVE Held'
  BY <1>16 DEF Resets, Held, decodeVars, captureVars, monVars
<1>17. CASE MonitorCreates
  BY <1>17 DEF MonitorCreates, In, Held, captureVars
<1>18. CASE MonitorLooks
  BY <1>18
    DEF MonitorLooks, In, At, Held, Joined, deviceVars, settingVars, threadVars, decodeVars,
        captureVars, monVars
<1>19. CASE MonitorCaptures
  <2>1. CASE In("capture") /\ ShouldCapture /\ ~capture /\ StartCapture /\ mon' = "stream"
    <3>1. ~capture /\ decoder = "none" /\ ~terminated
      BY <2>1 DEF In, At, Held
    <3>2. CASE capture' = TRUE /\ decoder' = "test" /\ terminated' = (terminated \/ decoder # "none")
      BY <2>1, <3>1, <3>2 DEF At, Held
    <3>3. CASE UNCHANGED <<capture, decoder, terminated>>
      BY <3>1, <3>3 DEF Held
    <3> QED BY <2>1, <3>2, <3>3 DEF StartCapture
  <2>2. CASE capture /\ StopCaptureFlag(IF ShouldCapture THEN "again" ELSE "stream") /\ UNCHANGED <<decoder, terminated>>
    BY <2>2 DEF StopCaptureFlag, Held
  <2>3. CASE At("capture", "stream") /\ UNCHANGED <<capture, decoder, terminated>>
    BY <2>3 DEF At, In, Held
  <2>4. CASE At("again", "stream") /\ StartCapture
    <3>1. ~capture /\ decoder = "none" /\ ~terminated
      BY <2>4 DEF In, At, Held
    <3>2. CASE capture' = TRUE /\ decoder' = "test" /\ terminated' = (terminated \/ decoder # "none")
      BY <2>4, <3>1, <3>2 DEF At, Held
    <3>3. CASE UNCHANGED <<capture, decoder, terminated>>
      BY <3>1, <3>3 DEF Held
    <3> QED BY <2>4, <3>2, <3>3 DEF StartCapture
  <2> QED BY <1>19, <2>1, <2>2, <2>3, <2>4 DEF MonitorCaptures
<1>20. CASE MonitorStreams
  BY <1>20 DEF MonitorStreams, In, At, Held, decodeVars, captureVars
<1>21. CASE MonitorStalls
  BY <1>21 DEF MonitorStalls, In, StopCaptureFlag, Held, decodeVars
<1>22. CASE MonitorRestarts
  BY <1>22
    DEF MonitorRestarts, In, At, StopMicrophoneStream, StartMicrophoneStream, StartCapture, Held,
        Joined, deviceVars, settingVars, threadVars, decodeVars, captureVars, monVars
<1>23. CASE MonitorFlows
  BY <1>23 DEF MonitorFlows, In, At, Held, decodeVars, captureVars
<1>24. CASE MonitorDecides
  BY <1>24 DEF MonitorDecides, In, Held, decodeVars, captureVars
<1>25. CASE MonitorExits
  BY <1>25 DEF MonitorExits, In, StopCaptureFlag, Held, decodeVars
<1>26. CASE MonitorEnds
  BY <1>26 DEF MonitorEnds, In, At, Held, captureVars
<1>27. CASE StopCaptureClears
  BY <1>27 DEF StopCaptureClears, In, At, Held, captureVars
<1>28. CASE StopCaptureJoins
  BY <1>28 DEF StopCaptureJoins, In, At, Held
<1>29. CASE Decoder
  <2>1. /\ UNCHANGED <<capture, mon, terminated>>
        /\ decoder # "none" /\ decoder' # "none"
    BY <1>29
      DEF Decoder, DecoderTests, DecoderSleeps, DecoderUnblocks, Write, captureVars, monVars
  <2> QED BY <2>1 DEF Held
<1>30. CASE ReaderQueues
  BY <1>30 DEF ReaderQueues, Held, captureVars, monVars
<1>31. CASE Drains
  BY <1>31 DEF Drains, Held, captureVars, monVars
<1>32. CASE Records
  BY <1>32 DEF Records, Held, decodeVars, captureVars, monVars
<1>34. CASE WriterSends
  BY <1>34 DEF WriterSends, Held, decodeVars, captureVars, monVars
<1>33. CASE UNCHANGED vars
  BY <1>33 DEF vars, Held, decodeVars, captureVars, monVars
<1> QED
  BY <1>1, <1>2, <1>3, <1>4, <1>5, <1>6, <1>7, <1>8, <1>9, <1>10, <1>11, <1>12, <1>13, <1>14,
     <1>15, <1>16, <1>17, <1>18, <1>19, <1>20, <1>21, <1>22, <1>23, <1>24, <1>25, <1>26, <1>27,
     <1>28, <1>29, <1>30, <1>31, <1>32, <1>33, <1>34
    DEF Next, Caller, Monitor

\* The rest of the types is kept.
LEMMA RestStep == IInv /\ Rest /\ [Next]_vars => Rest'
<1> SUFFICES ASSUME IInv, Rest, [Next]_vars PROVE Rest'
  OBVIOUS
<1>a. Types
  BY DEF IInv
<1>1. ASSUME NEW t \in Starters, Connects(t) PROVE Rest'
  <2>1. Flags'
    BY <1>1 DEF Connects, Rest, Flags, decodeVars, captureVars
  <2>2. Counts'
    BY <1>1, MicrophoneAssumption DEF Connects, Rest, Counts, decodeVars
  <2>3. Places'
    BY <1>1 DEF Connects, Rest, Places, decodeVars, monVars
  <2>4. look' \in Looks
    BY <1>1 DEF Connects, Rest, monVars
  <2> QED BY <2>1, <2>2, <2>3, <2>4 DEF Rest
<1>2. ASSUME NEW t \in Starters, StoresConnected(t) PROVE Rest'
  BY <1>2
    DEF StoresConnected, SetClientState, Rest, Flags, Counts, Places, settingVars, decodeVars,
        captureVars, monVars
<1>3. ASSUME NEW t \in Firers, GivesUp(t) PROVE Rest'
  BY <1>3
    DEF GivesUp, SetClientState, Rest, Flags, Counts, Places, settingVars, decodeVars,
        captureVars, monVars
<1>4. CASE Drops
  BY <1>4
    DEF Drops, Rest, Flags, Counts, Places, settingVars, threadVars, decodeVars, captureVars,
        monVars
<1>5. CASE Disconnects
  BY <1>5
    DEF Disconnects, SetClientState, Rest, Flags, Counts, Places, settingVars, decodeVars,
        captureVars, monVars
<1>6. CASE StoresReconnecting
  BY <1>6
    DEF StoresReconnecting, SetClientState, Rest, Flags, Counts, Places, settingVars, decodeVars,
        captureVars, monVars
<1>7. CASE ReceivesData
  BY <1>7
    DEF ReceivesData, SetClientState, Rest, Flags, Counts, Places, settingVars, decodeVars,
        captureVars, monVars
<1>8. CASE SetFromJson
  <2>1. Flags'
    BY <1>8 DEF SetFromJson, Rest, Flags, deviceVars, decodeVars, captureVars
  <2>2. Counts'
    BY <1>8, MicrophoneAssumption DEF SetFromJson, Rest, Counts, decodeVars
  <2>3. Places'
    BY <1>8 DEF SetFromJson, Rest, Places, threadVars, decodeVars, monVars
  <2>4. look' \in Looks
    BY <1>8 DEF SetFromJson, Rest, monVars
  <2> QED BY <2>1, <2>2, <2>3, <2>4 DEF Rest
<1>9. CASE OnSettingUpdated
  <2>1. Flags'
    BY <1>9 DEF OnSettingUpdated, Rest, Flags, deviceVars, decodeVars, captureVars
  <2>2. Counts'
    BY <1>9, MicrophoneAssumption DEF OnSettingUpdated, Rest, Counts, decodeVars
  <2>3. Places'
    BY <1>9 DEF OnSettingUpdated, Rest, Places, threadVars, decodeVars, monVars
  <2>4. look' \in Looks
    BY <1>9 DEF OnSettingUpdated, Rest, monVars
  <2> QED BY <2>1, <2>2, <2>3, <2>4 DEF Rest
<1>10. ASSUME NEW t \in Callers, Fires(t) PROVE Rest'
  <2>1. Flags'
    BY <1>10, <1>a
      DEF Fires, Goes, Rest, Flags, Types, deviceVars, settingVars, threadVars, decodeVars,
          captureVars, monVars
  <2>2. Counts'
    BY <1>10 DEF Fires, Rest, Counts, settingVars, decodeVars
  <2>3. Places'
    BY <1>10 DEF Fires, Rest, Places, decodeVars, monVars
  <2>4. look' \in Looks
    BY <1>10 DEF Fires, Rest, monVars
  <2> QED BY <2>1, <2>2, <2>3, <2>4 DEF Rest
<1>11. ASSUME NEW t \in Callers, StartTests(t) PROVE Rest'
  BY <1>11
    DEF StartTests, Rest, Flags, Counts, Places, deviceVars, settingVars, threadVars, decodeVars,
        captureVars, monVars
<1>12. ASSUME NEW t \in Callers, StartLocks(t) PROVE Rest'
  BY <1>12
    DEF StartLocks, Rest, Flags, Counts, Places, deviceVars, settingVars, decodeVars, captureVars,
        monVars
<1>13. ASSUME NEW t \in Callers, StartSpawns(t) PROVE Rest'
  BY <1>13 DEF StartSpawns, Rest, Flags, Counts, Places, Mons, deviceVars, settingVars, decodeVars
<1>14. ASSUME NEW t \in Callers, StopAsks(t) PROVE Rest'
  BY <1>14
    DEF StopAsks, Rest, Flags, Counts, Places, deviceVars, settingVars, decodeVars, captureVars,
        monVars
<1>15. ASSUME NEW t \in Callers, StopJoins(t) PROVE Rest'
  BY <1>15
    DEF StopJoins, Rest, Flags, Counts, Places, Mons, deviceVars, settingVars, decodeVars,
        captureVars
<1>16. ASSUME NEW t \in Callers, Resets(t) PROVE Rest'
  <2>1. Flags'
    BY <1>16, <1>a
      DEF Resets, Goes, Rest, Flags, Types, deviceVars, settingVars, threadVars, decodeVars,
          captureVars, monVars
  <2>2. Counts'
    BY <1>16 DEF Resets, Rest, Counts, settingVars, decodeVars
  <2>3. Places'
    BY <1>16 DEF Resets, Rest, Places, threadVars, decodeVars, monVars
  <2>4. look' \in Looks
    BY <1>16 DEF Resets, Rest, monVars
  <2> QED BY <2>1, <2>2, <2>3, <2>4 DEF Rest
<1>17. CASE MonitorCreates
  <2>1. Flags'
    BY <1>17 DEF MonitorCreates, Rest, Flags, deviceVars, settingVars, captureVars
  <2>2. Counts'
    BY <1>17, MicrophoneAssumption DEF MonitorCreates, Rest, Counts, settingVars
  <2>3. Places'
    BY <1>17 DEF MonitorCreates, Rest, Places, Mons, threadVars
  <2>4. look' \in Looks
    BY <1>17 DEF MonitorCreates, Rest
  <2> QED BY <2>1, <2>2, <2>3, <2>4 DEF Rest
<1>18. CASE MonitorLooks
  <2>1. Flags'
    BY <1>18, <1>a
      DEF MonitorLooks, In, At, Rest, Flags, Types, deviceVars, settingVars, threadVars,
          decodeVars, captureVars, monVars
  <2>2. Counts'
    BY <1>18, MicrophoneAssumption
      DEF MonitorLooks, In, At, Rest, Counts, Write, deviceVars, settingVars, threadVars,
          decodeVars, captureVars, monVars
  <2>3. Places'
    BY <1>18, <1>a
      DEF MonitorLooks, In, At, Rest, Places, Mons, Decoders, Types, StopCaptureFlag, Write,
          deviceVars, settingVars, threadVars, decodeVars, captureVars, monVars
  <2>4. look' \in Looks
    BY <1>18, <1>a, NoLook
      DEF MonitorLooks, In, At, Rest, Looks, Types, Flags, GetConsumer, deviceVars, settingVars,
          threadVars, decodeVars, captureVars, monVars
  <2> QED BY <2>1, <2>2, <2>3, <2>4 DEF Rest
<1>19. CASE MonitorCaptures
  <2>1. Flags'
    BY <1>19, <1>a
      DEF MonitorCaptures, In, At, StartCapture, StopCaptureFlag, Rest, Flags, Types, deviceVars,
          settingVars, threadVars, decodeVars, captureVars, monVars
  <2>2. Counts'
    BY <1>19, MicrophoneAssumption DEF MonitorCaptures, StartCapture, Rest, Counts, settingVars
  <2>3. Places'
    BY <1>19
      DEF MonitorCaptures, At, StartCapture, StopCaptureFlag, Rest, Places, Mons, Decoders,
          threadVars
  <2>4. look' \in Looks
    BY <1>19 DEF MonitorCaptures, Rest
  <2> QED BY <2>1, <2>2, <2>3, <2>4 DEF Rest
<1>20. CASE MonitorStreams
  BY <1>20
    DEF MonitorStreams, At, Rest, Flags, Counts, Places, Mons, deviceVars, settingVars,
        threadVars, decodeVars, captureVars
<1>21. CASE MonitorStalls
  BY <1>21
    DEF MonitorStalls, StopCaptureFlag, Rest, Flags, Counts, Places, Mons, deviceVars,
        settingVars, threadVars, decodeVars
<1>22. CASE MonitorRestarts
  <2>1. Flags'
    BY <1>22, <1>a
      DEF MonitorRestarts, In, At, StopMicrophoneStream, StartMicrophoneStream, StartCapture,
          Rest, Flags, Types, deviceVars, settingVars, threadVars, decodeVars, captureVars,
          monVars
  <2>2. Counts'
    BY <1>22, MicrophoneAssumption DEF MonitorRestarts, StartCapture, Rest, Counts, settingVars
  <2>3. Places'
    BY <1>22 DEF MonitorRestarts, At, StartCapture, Rest, Places, Mons, Decoders, threadVars
  <2>4. look' \in Looks
    BY <1>22 DEF MonitorRestarts, Rest
  <2> QED BY <2>1, <2>2, <2>3, <2>4 DEF Rest
<1>23. CASE MonitorFlows
  BY <1>23
    DEF MonitorFlows, At, Rest, Flags, Counts, Places, Mons, deviceVars, settingVars, threadVars,
        decodeVars, captureVars
<1>24. CASE MonitorDecides
  <2>1. Flags'
    BY <1>24 DEF MonitorDecides, Rest, Flags, deviceVars, settingVars, decodeVars, captureVars
  <2>2. Counts'
    BY <1>24 DEF MonitorDecides, Rest, Counts, settingVars, decodeVars
  <2>3. Places'
    BY <1>24 DEF MonitorDecides, Rest, Places, Mons, threadVars, decodeVars
  <2>4. look' \in Looks
    BY <1>24, NoLook DEF MonitorDecides
  <2> QED BY <2>1, <2>2, <2>3, <2>4 DEF Rest
<1>25. CASE MonitorExits
  BY <1>25
    DEF MonitorExits, StopCaptureFlag, Rest, Flags, Counts, Places, Mons, deviceVars, settingVars,
        threadVars, decodeVars
<1>26. CASE MonitorEnds
  <2>1. Flags'
    BY <1>26, <1>a
      DEF MonitorEnds, In, At, StopMicrophoneStream, Rest, Flags, Types, deviceVars, settingVars,
          threadVars, decodeVars, captureVars, monVars
  <2>2. Counts'
    BY <1>26, MicrophoneAssumption DEF MonitorEnds, Rest, Counts, settingVars
  <2>3. Places'
    BY <1>26 DEF MonitorEnds, At, Rest, Places, Mons, threadVars
  <2>4. look' \in Looks
    BY <1>26 DEF MonitorEnds, Rest
  <2> QED BY <2>1, <2>2, <2>3, <2>4 DEF Rest
<1>27. CASE StopCaptureClears
  <2>1. Flags'
    BY <1>27 DEF StopCaptureClears, Rest, Flags, deviceVars, settingVars, captureVars
  <2>2. Counts'
    BY <1>27, MicrophoneAssumption DEF StopCaptureClears, Rest, Counts, settingVars
  <2>3. Places'
    BY <1>27 DEF StopCaptureClears, At, Rest, Places, Mons, Decoders, threadVars
  <2>4. look' \in Looks
    BY <1>27 DEF StopCaptureClears, Rest
  <2> QED BY <2>1, <2>2, <2>3, <2>4 DEF Rest
<1>28. CASE StopCaptureJoins
  BY <1>28, <1>a
    DEF StopCaptureJoins, At, Rest, Flags, Counts, Places, Mons, Decoders, Types, deviceVars,
        settingVars, threadVars
<1>29. CASE Decoder
  <2>1. Flags'
    BY <1>29, <1>a
      DEF Decoder, DecoderTests, DecoderSleeps, DecoderUnblocks, Rest, Flags, Types, deviceVars,
          settingVars, threadVars, decodeVars, captureVars, monVars
  <2>2. Counts'
    BY <1>29, MicrophoneAssumption
      DEF Decoder, DecoderTests, DecoderSleeps, DecoderUnblocks, Rest, Counts, Write, settingVars
  <2>3. Places'
    BY <1>29
      DEF Decoder, DecoderTests, DecoderSleeps, DecoderUnblocks, Rest, Places, Decoders, Write,
          threadVars, monVars
  <2>4. look' \in Looks
    BY <1>29 DEF Decoder, DecoderTests, DecoderSleeps, DecoderUnblocks, Rest, monVars
  <2> QED BY <2>1, <2>2, <2>3, <2>4 DEF Rest
<1>30. CASE ReaderQueues
  <2>1. Flags'
    BY <1>30 DEF ReaderQueues, Rest, Flags, deviceVars, settingVars, captureVars
  <2>2. Counts'
    BY <1>30, MicrophoneAssumption DEF ReaderQueues, Rest, Counts, settingVars
  <2>3. Places'
    BY <1>30 DEF ReaderQueues, Rest, Places, Decoders, threadVars, monVars
  <2>4. look' \in Looks
    BY <1>30 DEF ReaderQueues, Rest, monVars
  <2> QED BY <2>1, <2>2, <2>3, <2>4 DEF Rest
<1>31. CASE Drains
  <2>1. Flags'
    BY <1>31 DEF Drains, Rest, Flags, deviceVars, settingVars, captureVars
  <2>2. Counts'
    BY <1>31, MicrophoneAssumption DEF Drains, Rest, Counts, settingVars
  <2>3. Places'
    BY <1>31 DEF Drains, Rest, Places, threadVars, monVars
  <2>4. look' \in Looks
    BY <1>31 DEF Drains, Rest, monVars
  <2> QED BY <2>1, <2>2, <2>3, <2>4 DEF Rest
<1>32. CASE Records
  BY <1>32
    DEF Records, Rest, Flags, Counts, Places, deviceVars, settingVars, threadVars, decodeVars,
        captureVars, monVars
<1>34. CASE WriterSends
  BY <1>34
    DEF WriterSends, Rest, Flags, Counts, Places, deviceVars, settingVars, threadVars, decodeVars,
        captureVars, monVars
<1>33. CASE UNCHANGED vars
  BY <1>33
    DEF vars, Rest, Flags, Counts, Places, deviceVars, settingVars, threadVars, decodeVars,
        captureVars, monVars
<1> QED
  BY <1>1, <1>2, <1>3, <1>4, <1>5, <1>6, <1>7, <1>8, <1>9, <1>10, <1>11, <1>12, <1>13, <1>14,
     <1>15, <1>16, <1>17, <1>18, <1>19, <1>20, <1>21, <1>22, <1>23, <1>24, <1>25, <1>26, <1>27,
     <1>28, <1>29, <1>30, <1>31, <1>32, <1>33, <1>34
    DEF Next, Caller, Monitor

\* The invariant holds of every behaviour.
THEOREM Invariance == Spec => []IInv
<1>1. Init => IInv
  <2> SUFFICES ASSUME Init PROVE IInv
    OBVIOUS
  <2>1. \A t \in Callers : pc[t] = "idle"
    BY DEF Init
  <2>2. Types
    BY <2>1 DEF Init, Types, Pcs
  <2>3. LinkInv /\ StopInv /\ RunInv /\ OwnInv /\ OffInv /\ AudioInv /\ WakeInv
    BY Threads
      DEF Init, LinkInv, StopInv, RunInv, OwnInv, OffInv, AudioInv, WakeInv, Active, Resetting,
          Told
  <2> QED BY <2>2, <2>3 DEF IInv
<1>2. IInv /\ [Next]_vars => IInv'
  BY TypesStep, LinkStep, StopStep, RunStep, OwnStep, OffStep, AudioStep, WakeStep DEF IInv
<1> QED BY <1>1, <1>2, PTL DEF Spec

\* When no caller is at work, a device on a live connection whose setting is on has a monitor that
\* is not about to stop, unless the virtual source could not be created, a state was stored or
\* fired too late, or a start overlapped with a stop (AapHighResolutionMicrophoneCapability.cpp:331).
THEOREM WakeIsNotLost == Spec => []WakeNotLost
<1>1. IInv => WakeNotLost
  <2> SUFFICES ASSUME IInv, AtRest, ~raced, enabled, link, client = "Connected", source # "failed"
               PROVE  running /\ ~stop /\ mon \notin {"none", "exit", "silence", "ended"}
    BY DEF WakeNotLost
  <2>1. ~Waking
    BY DEF AtRest, Waking
  <2> QED BY <2>1 DEF IInv, WakeInv, RunInv, Active, Ending
<1> QED BY <1>1, Invariance, PTL

\* When no caller is at work and the device is not connected nothing of the microphone is left, and
\* the headphones of a live connection do, or will once they have had what is queued for them, what
\* the monitor wants, unless an "on" is late: one queued for an earlier connection
\* (AapHighResolutionMicrophoneCapability.cpp:142, 348, 354).
THEOREM MicrophoneIsOff == Spec => []MicrophoneOff
<1>1. IInv => MicrophoneOff
  <2> SUFFICES ASSUME IInv, AtRest, ~raced PROVE MicrophoneOff
    BY DEF MicrophoneOff
  <2>1. \A u \in Firers : pc[u] \notin Resetting
    BY Threads DEF AtRest, Resetting
  <2>2. client # "Connected" => mon = "none" /\ ~running
    BY <2>1 DEF IInv, OffInv
  <2> QED BY <2>2 DEF IInv, OwnInv, AudioInv, MicrophoneOff
<1> QED BY <1>1, Invariance, PTL

\* No std::thread is assigned over while it can be joined, which would end the program, and a
\* capture that goes on has its decoder.
THEOREM NoThreadIsLost ==
    Spec => [](~terminated /\ (capture /\ mon \notin {"clear", "joins"} => decoder # "none"))
<1>1. Init => Held
  BY DEF Init, Held
<1> QED BY <1>1, HeldStep, PTL DEF Spec, Held

\* Every variable keeps to its type, the queue and the FIFO to their capacities among them.
THEOREM TypeCorrect == Spec => []TypeOK
<1>1. Init => Rest
  <2>1. Init => Flags
    BY DEF Init, Flags
  <2>2. Init => Counts
    BY MicrophoneAssumption DEF Init, Counts
  <2>3. Init => Places
    BY DEF Init, Places, Mons, Decoders
  <2> QED BY <2>1, <2>2, <2>3, NoLook DEF Init, Rest
<1>2. IInv /\ Rest => TypeOK
  BY DEF IInv, Types, Rest, Flags, Counts, Places, Pcs, Mons, Decoders, Looks, TypeOK
<1> QED BY <1>1, <1>2, Invariance, RestStep, PTL DEF Spec

(***************************************************************************)
(* PulseAudio: the output's switch, the card and the virtual microphone.   *)
(***************************************************************************)
\* Where a call of each thread is, what the card is, and the sinks and modules there are.
Steps == {"idle", "toCard", "toSpeakers", "set", "list", "move", "reset", "restore", "unload",
          "load", "constructor", "store"}

SoundCallTypes ==
    /\ at \in [Audio!Threads -> Steps]
    /\ at["switch"] \in {"idle", "toCard", "toSpeakers", "set", "list", "move"}
    /\ at["monitor"] \in {"idle", "reset", "restore", "unload", "load"}
    /\ at["dbus"] \in {"constructor", "store", "idle"}
    /\ saved \in [{"monitor", "dbus"} -> Audio!Profiles \cup {"none"}]
    /\ at["monitor"] \in {"reset", "restore"} => saved["monitor"] \in Audio!Playing
    /\ at["dbus"] = "store" => saved["dbus"] \in Audio!Profiles
SoundCardTypes ==
    /\ profile \in Audio!Profiles \cup {"gone"}
    /\ reply \in Audio!Profiles \cup {"none"} /\ info \in Audio!Profiles \cup {Audio!NoInfo}
    /\ codecAvailable \in BOOLEAN /\ connected \in BOOLEAN
    /\ signal \in BOOLEAN /\ pending \in BOOLEAN
SoundSinkTypes ==
    /\ default \in Audio!SinksNow
    /\ playing \in [Streams -> Audio!SinksNow \cup {"none"}]
    /\ modules \subseteq ModuleIds /\ own \in ModuleIds \cup {0}
    /\ excused \subseteq Audio!Excuses
SoundTypes == SoundCallTypes /\ SoundCardTypes /\ SoundSinkTypes

\* Between its first step and its last ResetA2dp() answers for the profile.
ProfileInv ==
    at["monitor"] \notin {"reset", "restore"} => profile = wanted \/ "profile" \in excused

\* There is a card while the device is connected. A card read for an event is the card, unless
\* another event is waiting; so is the one the constructor has read.
CardInv ==
    /\ connected <=> profile # "gone"
    /\ info # Audio!NoInfo => codecAvailable
    /\ reply # "none" /\ ~pending => reply = profile
    /\ at["dbus"] # "idle" /\ ~connected => signal
    /\ at["dbus"] = "store" /\ connected /\ "codec" \notin excused /\ ~pending /\ reply = "none"
           => saved["dbus"] = profile

\* The codec shown is the card's, or an event that will tell is on its way; a device that has
\* been told to be disconnected shows none.
CodecInv ==
    at["dbus"] = "idle" /\ ~signal /\ "codec" \notin excused =>
        IF connected THEN ~pending /\ reply = "none" => codecAvailable /\ info = profile
        ELSE ~codecAvailable

\* A stream that the switch has not moved yet is one it will move: a stream that starts goes to
\* the new default.
SwitchInv ==
    /\ at["switch"] # "idle" => left = {}
    /\ at["switch"] \in {"set", "list", "move"} => from # to
    /\ "streams" \notin excused =>
           /\ at["switch"] = "idle" => left = {}
           /\ at["switch"] \in {"list", "move"} => default = to
           /\ at["switch"] = "move" => \A s \in Streams : playing[s] = from => s \in moving

\* A virtual microphone is created when there is none.
ModuleInv ==
    /\ at["monitor"] \in {"unload", "load"} => own = 0
    /\ "modules" \notin excused =>
           /\ at["monitor"] = "load" => modules = {}
           /\ own # 0 => modules = {own}

SoundInv ==
    SoundTypes /\ ProfileInv /\ CardInv /\ CodecInv /\ SwitchInv /\ ModuleInv

\* Threads are where their calls are.
LEMMA SoundCallTypesStep == SoundInv /\ [Audio!Next]_Audio!vars => SoundCallTypes'
<1> SUFFICES ASSUME SoundInv, [Audio!Next]_Audio!vars PROVE SoundCallTypes'
  OBVIOUS
<1>1. CASE Audio!UserSetsProfile
  BY <1>1 DEF Audio!UserSetsProfile, SoundTypes, SoundCallTypes, SoundInv
<1>2. CASE Audio!UserMovesStream
  BY <1>2 DEF Audio!UserMovesStream, SoundTypes, SoundCallTypes, SoundInv
<1>3. CASE Audio!CardGoes
  BY <1>3 DEF Audio!CardGoes, SoundTypes, SoundCallTypes, SoundInv
<1>4. CASE Audio!CardComes
  BY <1>4 DEF Audio!CardComes, SoundTypes, SoundCallTypes, SoundInv
<1>5. CASE Audio!SwitchToCard
  BY <1>5
    DEF Audio!SwitchToCard, Audio!Switch, Audio!Goes, Steps, Audio!Threads, SoundTypes,
        SoundCallTypes, SoundInv
<1>6. CASE Audio!SwitchCardToSpeakers
  BY <1>6
    DEF Audio!SwitchCardToSpeakers, Audio!Switch, Audio!Goes, Steps, Audio!Threads, SoundTypes,
        SoundCallTypes, SoundInv
<1>7. CASE Audio!SwitchLooks
  BY <1>7
    DEF Audio!SwitchLooks, Audio!Goes, Steps, Audio!Threads, SoundTypes, SoundCallTypes, SoundInv
<1>8. CASE Audio!SwitchGivesUp
  BY <1>8
    DEF Audio!SwitchGivesUp, Audio!Goes, Steps, Audio!Threads, SoundTypes, SoundCallTypes,
        SoundInv
<1>9. CASE Audio!SetDefaultSink
  BY <1>9
    DEF Audio!SetDefaultSink, Audio!Goes, Steps, Audio!Threads, SoundTypes, SoundCallTypes,
        SoundInv
<1>10. CASE Audio!ListSinkInputs
  BY <1>10
    DEF Audio!ListSinkInputs, Audio!Goes, Steps, Audio!Threads, SoundTypes, SoundCallTypes,
        SoundInv
<1>11. CASE Audio!MoveSinkInput
  BY <1>11 DEF Audio!MoveSinkInput, SoundTypes, SoundCallTypes, SoundInv
<1>12. CASE Audio!SwitchDone
  BY <1>12
    DEF Audio!SwitchDone, Audio!Goes, Steps, Audio!Threads, SoundTypes, SoundCallTypes, SoundInv
<1>13. CASE Audio!ResetA2dp
  BY <1>13
    DEF Audio!ResetA2dp, Audio!Goes, Steps, Audio!Profiles, Audio!Threads, SoundTypes,
        SoundCallTypes, SoundInv
<1>14. CASE Audio!ResetTurnsOff
  BY <1>14
    DEF Audio!ResetTurnsOff, Audio!Goes, Steps, Audio!Threads, SoundTypes, SoundCallTypes,
        SoundInv
<1>15. CASE Audio!ResetRestores
  BY <1>15
    DEF Audio!ResetRestores, Audio!Goes, Steps, Audio!Threads, SoundTypes, SoundCallTypes,
        SoundInv
<1>16. CASE Audio!MicrophoneLists
  BY <1>16
    DEF Audio!MicrophoneLists, Audio!Goes, Steps, Audio!Threads, SoundTypes, SoundCallTypes,
        SoundInv
<1>17. CASE Audio!MicrophoneUnloadsStale
  BY <1>17
    DEF Audio!MicrophoneUnloadsStale, Audio!Goes, Steps, Audio!Threads, SoundTypes,
        SoundCallTypes, SoundInv
<1>18. CASE Audio!MicrophoneLoads
  BY <1>18
    DEF Audio!MicrophoneLoads, Audio!Goes, Steps, Audio!Threads, SoundTypes, SoundCallTypes,
        SoundInv
<1>19. CASE Audio!MicrophoneGoes
  BY <1>19 DEF Audio!MicrophoneGoes, SoundTypes, SoundCallTypes, SoundInv
<1>20. CASE Audio!PulseReads
  BY <1>20 DEF Audio!PulseReads, SoundTypes, SoundCallTypes, SoundInv
<1>21. CASE Audio!PulseFires
  BY <1>21 DEF Audio!PulseFires, SoundTypes, SoundCallTypes, SoundInv
<1>22. CASE Audio!ConstructorReads
  BY <1>22
    DEF Audio!ConstructorReads, Audio!Goes, Audio!GetCardInfoByName, Audio!Answers, Steps,
        Audio!Threads, SoundTypes, SoundCallTypes, SoundCardTypes, SoundInv
<1>23. CASE Audio!ConstructorFails
  BY <1>23
    DEF Audio!ConstructorFails, Audio!Goes, Steps, Audio!Threads, SoundTypes, SoundCallTypes,
        SoundInv
<1>24. CASE Audio!ConstructorStores
  BY <1>24
    DEF Audio!ConstructorStores, Audio!Goes, Steps, Audio!Threads, SoundTypes, SoundCallTypes,
        SoundInv
<1>25. CASE Audio!CodecResets
  BY <1>25 DEF Audio!CodecResets, SoundTypes, SoundCallTypes, SoundInv
<1>26. CASE Audio!SetFromJson
  BY <1>26 DEF Audio!SetFromJson, SoundTypes, SoundCallTypes, SoundInv
<1>27. CASE UNCHANGED Audio!vars
  BY <1>27 DEF Audio!vars, SoundInv, SoundTypes, SoundCallTypes
<1> QED
  BY <1>1, <1>2, <1>3, <1>4, <1>5, <1>6, <1>7, <1>8, <1>9, <1>10, <1>11, <1>12, <1>13, <1>14,
     <1>15, <1>16, <1>17, <1>18, <1>19, <1>20, <1>21, <1>22, <1>23, <1>24, <1>25, <1>26, <1>27
    DEF Audio!Next

\* What is known of the card is a profile, or that there is none.
LEMMA SoundCardTypesStep == SoundInv /\ [Audio!Next]_Audio!vars => SoundCardTypes'
<1> SUFFICES ASSUME SoundInv, [Audio!Next]_Audio!vars PROVE SoundCardTypes'
  OBVIOUS
<1>1. CASE Audio!UserSetsProfile
  BY <1>1
    DEF Audio!UserSetsProfile, Audio!SetProfile, Audio!Disturbs, Audio!Count, Audio!Profiles,
        Audio!Playing, Audio!codecVars, Audio!switchVars, Audio!Threads, SoundTypes,
        SoundCardTypes, SoundInv
<1>2. CASE Audio!UserMovesStream
  BY <1>2
    DEF Audio!UserMovesStream, Audio!Count, Audio!codecVars, Audio!eventVars, Audio!switchVars,
        Audio!Profiles, Audio!Playing, Audio!Threads, SoundTypes, SoundCardTypes, SoundInv
<1>3. CASE Audio!CardGoes
  BY <1>3
    DEF Audio!CardGoes, Audio!SetProfile, Audio!Disturbs, Audio!Count, Audio!codecVars,
        Audio!switchVars, Audio!Profiles, Audio!Playing, Audio!Threads, Audio!NoInfo, SoundTypes,
        SoundCallTypes, SoundCardTypes, SoundInv
<1>4. CASE Audio!CardComes
  BY <1>4
    DEF Audio!CardComes, Audio!SetProfile, Audio!Disturbs, Audio!Count, Audio!Playing,
        Audio!Profiles, Audio!codecVars, Audio!switchVars, Audio!Threads, SoundTypes,
        SoundCardTypes, SoundInv
<1>5. CASE Audio!SwitchToCard
  BY <1>5
    DEF Audio!SwitchToCard, Audio!Switch, Audio!serverVars, Audio!codecVars, Audio!eventVars,
        SoundTypes, SoundCardTypes, SoundInv
<1>6. CASE Audio!SwitchCardToSpeakers
  BY <1>6
    DEF Audio!SwitchCardToSpeakers, Audio!Switch, Audio!serverVars, Audio!codecVars,
        Audio!eventVars, SoundTypes, SoundCardTypes, SoundInv
<1>7. CASE Audio!SwitchLooks
  BY <1>7
    DEF Audio!SwitchLooks, Audio!Goes, Audio!OnCard, Audio!IsSpeaker, Audio!serverVars,
        Audio!codecVars, Audio!eventVars, Audio!bounds, Audio!Profiles, Audio!Playing,
        Audio!Threads, SoundTypes, SoundCardTypes, SoundInv
<1>8. CASE Audio!SwitchGivesUp
  BY <1>8
    DEF Audio!SwitchGivesUp, Audio!Goes, Audio!serverVars, Audio!codecVars, Audio!eventVars,
        Audio!bounds, Audio!Profiles, Audio!Playing, Audio!Threads, SoundTypes, SoundCardTypes,
        SoundInv
<1>9. CASE Audio!SetDefaultSink
  BY <1>9
    DEF Audio!SetDefaultSink, Audio!Goes, Audio!codecVars, Audio!eventVars, Audio!switchVars,
        Audio!bounds, Audio!Profiles, Audio!Playing, Audio!Threads, SoundTypes, SoundCardTypes,
        SoundInv
<1>10. CASE Audio!ListSinkInputs
  BY <1>10
    DEF Audio!ListSinkInputs, Audio!Goes, Audio!serverVars, Audio!codecVars, Audio!eventVars,
        Audio!bounds, Audio!Profiles, Audio!Playing, Audio!Threads, SoundTypes, SoundCardTypes,
        SoundInv
<1>11. CASE Audio!MoveSinkInput
  BY <1>11
    DEF Audio!MoveSinkInput, Audio!codecVars, Audio!eventVars, SoundTypes, SoundCardTypes,
        SoundInv
<1>12. CASE Audio!SwitchDone
  BY <1>12
    DEF Audio!SwitchDone, Audio!Goes, Audio!serverVars, Audio!codecVars, Audio!eventVars,
        Audio!bounds, Audio!Profiles, Audio!Playing, Audio!Threads, SoundTypes, SoundCardTypes,
        SoundInv
<1>13. CASE Audio!ResetA2dp
  BY <1>13 DEF Audio!ResetA2dp, Audio!GetCardInfoByName, Audio!Answers, Audio!Playing
<1>14. CASE Audio!ResetTurnsOff
  BY <1>14
    DEF Audio!ResetTurnsOff, Audio!Goes, Audio!SetCardProfile, Audio!SetProfile, Audio!serverVars,
        Audio!codecVars, Audio!switchVars, Audio!bounds, Audio!Profiles, Audio!Playing,
        Audio!Threads, Audio!NoInfo, SoundTypes, SoundCallTypes, SoundCardTypes, SoundInv
<1>15. CASE Audio!ResetRestores
  BY <1>15
    DEF Audio!ResetRestores, Audio!Goes, Audio!SetCardProfile, Audio!SetProfile, Audio!serverVars,
        Audio!codecVars, Audio!switchVars, Audio!bounds, Audio!Profiles, Audio!Playing,
        Audio!Threads, Audio!NoInfo, SoundTypes, SoundCallTypes, SoundCardTypes, SoundInv
<1>16. CASE Audio!MicrophoneLists
  BY <1>16
    DEF Audio!MicrophoneLists, Audio!serverVars, Audio!codecVars, Audio!eventVars, SoundTypes,
        SoundCardTypes, SoundInv
<1>17. CASE Audio!MicrophoneUnloadsStale
  BY <1>17
    DEF Audio!MicrophoneUnloadsStale, Audio!serverVars, Audio!codecVars, Audio!eventVars,
        SoundTypes, SoundCardTypes, SoundInv
<1>18. CASE Audio!MicrophoneLoads
  BY <1>18
    DEF Audio!MicrophoneLoads, Audio!serverVars, Audio!codecVars, Audio!eventVars, SoundTypes,
        SoundCardTypes, SoundInv
<1>19. CASE Audio!MicrophoneGoes
  BY <1>19
    DEF Audio!MicrophoneGoes, Audio!Call, Audio!UnloadModule, Audio!Answers, Audio!serverVars,
        Audio!codecVars, Audio!eventVars, Audio!switchVars, Audio!Profiles, Audio!Playing,
        Audio!Threads, SoundTypes, SoundCardTypes, SoundInv
<1>20. CASE Audio!PulseReads
  BY <1>20
    DEF Audio!PulseReads, Audio!serverVars, Audio!codecVars, Audio!switchVars, Audio!bounds,
        Audio!Profiles, Audio!Playing, Audio!Threads, Audio!NoInfo, SoundTypes, SoundCallTypes,
        SoundCardTypes, SoundInv
<1>21. CASE Audio!PulseFires
  BY <1>21
    DEF Audio!PulseFires, Audio!UpdateCardInfo, Audio!serverVars, Audio!switchVars, Audio!bounds,
        Audio!Profiles, Audio!Playing, Audio!Threads, SoundTypes, SoundCardTypes, SoundInv
<1>22. CASE Audio!ConstructorReads
  BY <1>22
    DEF Audio!ConstructorReads, Audio!serverVars, Audio!codecVars, Audio!eventVars, SoundTypes,
        SoundCardTypes, SoundInv
<1>23. CASE Audio!ConstructorFails
  BY <1>23
    DEF Audio!ConstructorFails, Audio!serverVars, Audio!codecVars, Audio!eventVars, SoundTypes,
        SoundCardTypes, SoundInv
<1>24. CASE Audio!ConstructorStores
  BY <1>24
    DEF Audio!ConstructorStores, Audio!Goes, Audio!UpdateCardInfo, Audio!serverVars,
        Audio!eventVars, SoundTypes, SoundCallTypes, SoundCardTypes, SoundInv
<1>25. CASE Audio!CodecResets
  BY <1>25
    DEF Audio!CodecResets, Audio!serverVars, Audio!switchVars, Audio!bounds, Audio!Profiles,
        Audio!Playing, Audio!Threads, Audio!NoInfo, SoundTypes, SoundCallTypes, SoundCardTypes,
        SoundInv
<1>26. CASE Audio!SetFromJson
  BY <1>26
    DEF Audio!SetFromJson, Audio!Call, Audio!SetCardProfile, Audio!SetProfile, Audio!Disturbs,
        Audio!serverVars, Audio!codecVars, Audio!switchVars, Audio!Profiles, Audio!Playing,
        Audio!Threads, Audio!NoInfo, SoundTypes, SoundCallTypes, SoundCardTypes, SoundInv
<1>27. CASE UNCHANGED Audio!vars
  BY <1>27
    DEF Audio!vars, Audio!serverVars, Audio!codecVars, Audio!eventVars, SoundInv, SoundTypes,
        SoundCardTypes
<1> QED
  BY <1>1, <1>2, <1>3, <1>4, <1>5, <1>6, <1>7, <1>8, <1>9, <1>10, <1>11, <1>12, <1>13, <1>14,
     <1>15, <1>16, <1>17, <1>18, <1>19, <1>20, <1>21, <1>22, <1>23, <1>24, <1>25, <1>26, <1>27
    DEF Audio!Next

\* Streams play on the sinks there are.
LEMMA SoundSinkTypesStep == SoundInv /\ [Audio!Next]_Audio!vars => SoundSinkTypes'
<1> SUFFICES ASSUME SoundInv, [Audio!Next]_Audio!vars PROVE SoundSinkTypes'
  OBVIOUS
<1>1. CASE Audio!UserSetsProfile
  BY <1>1
    DEF Audio!UserSetsProfile, Audio!SetProfile, Audio!Disturbs, Audio!SinksNow, Audio!Sinks,
        Audio!Excuses, SoundTypes, SoundSinkTypes, SoundInv
<1>2. CASE Audio!UserMovesStream
  BY <1>2
    DEF Audio!UserMovesStream, Audio!SinksNow, Audio!Excuses, SoundTypes, SoundSinkTypes, SoundInv
<1>3. CASE Audio!CardGoes
  BY <1>3
    DEF Audio!CardGoes, Audio!SetProfile, Audio!Disturbs, Audio!SinksNow, Audio!Sinks,
        Audio!Excuses, SoundTypes, SoundSinkTypes, SoundInv
<1>4. CASE Audio!CardComes
  BY <1>4
    DEF Audio!CardComes, Audio!SetProfile, Audio!Disturbs, Audio!SinksNow, Audio!Excuses,
        SoundTypes, SoundSinkTypes, SoundInv
<1>5. CASE Audio!SwitchToCard
  BY <1>5
    DEF Audio!SwitchToCard, Audio!Switch, Audio!serverVars, Audio!SinksNow, SoundTypes,
        SoundSinkTypes, SoundInv
<1>6. CASE Audio!SwitchCardToSpeakers
  BY <1>6
    DEF Audio!SwitchCardToSpeakers, Audio!Switch, Audio!serverVars, Audio!SinksNow, SoundTypes,
        SoundSinkTypes, SoundInv
<1>7. CASE Audio!SwitchLooks
  BY <1>7
    DEF Audio!SwitchLooks, Audio!serverVars, Audio!SinksNow, SoundTypes, SoundSinkTypes, SoundInv
<1>8. CASE Audio!SwitchGivesUp
  BY <1>8
    DEF Audio!SwitchGivesUp, Audio!serverVars, Audio!SinksNow, SoundTypes, SoundSinkTypes,
        SoundInv
<1>9. CASE Audio!SetDefaultSink
  BY <1>9 DEF Audio!SetDefaultSink, Audio!SinksNow, SoundTypes, SoundSinkTypes, SoundInv
<1>10. CASE Audio!ListSinkInputs
  BY <1>10
    DEF Audio!ListSinkInputs, Audio!Goes, Audio!serverVars, Audio!codecVars, Audio!eventVars,
        Audio!bounds, Audio!Profiles, Audio!Playing, Audio!SinksNow, Audio!Sinks, Audio!Excuses,
        SoundTypes, SoundCardTypes, SoundSinkTypes, SoundInv
<1>11. CASE Audio!MoveSinkInput
  BY <1>11
    DEF Audio!MoveSinkInput, Audio!codecVars, Audio!eventVars, Audio!bounds, Audio!Profiles,
        Audio!Playing, Audio!SinksNow, Audio!Sinks, Audio!Excuses, SoundTypes, SoundCardTypes,
        SoundSinkTypes, SoundInv
<1>12. CASE Audio!SwitchDone
  BY <1>12
    DEF Audio!SwitchDone, Audio!serverVars, Audio!SinksNow, SoundTypes, SoundSinkTypes, SoundInv
<1>13. CASE Audio!ResetA2dp
  BY <1>13 DEF Audio!ResetA2dp, Audio!GetCardInfoByName, Audio!Answers, Audio!Playing
<1>14. CASE Audio!ResetTurnsOff
  BY <1>14
    DEF Audio!ResetTurnsOff, Audio!SetCardProfile, Audio!SetProfile, Audio!serverVars,
        Audio!SinksNow, Audio!Sinks, Audio!Excuses, SoundTypes, SoundSinkTypes, SoundInv
<1>15. CASE Audio!ResetRestores
  BY <1>15
    DEF Audio!ResetRestores, Audio!SetCardProfile, Audio!SetProfile, Audio!serverVars,
        Audio!SinksNow, Audio!Sinks, Audio!Excuses, SoundTypes, SoundSinkTypes, SoundInv
<1>16. CASE Audio!MicrophoneLists
  BY <1>16
    DEF Audio!MicrophoneLists, Audio!Goes, Audio!Call, Audio!serverVars, Audio!codecVars,
        Audio!eventVars, Audio!switchVars, Audio!Profiles, Audio!Playing, Audio!SinksNow,
        Audio!Sinks, Audio!Excuses, SoundTypes, SoundCardTypes, SoundSinkTypes, SoundInv
<1>17. CASE Audio!MicrophoneUnloadsStale
  BY <1>17
    DEF Audio!MicrophoneUnloadsStale, Audio!serverVars, Audio!SinksNow, Audio!Excuses, SoundTypes,
        SoundSinkTypes, SoundInv
<1>18. CASE Audio!MicrophoneLoads
  BY <1>18
    DEF Audio!MicrophoneLoads, Audio!LoadModule, Audio!Answers, Audio!serverVars, Audio!SinksNow,
        SoundTypes, SoundSinkTypes, SoundInv
<1>19. CASE Audio!MicrophoneGoes
  BY <1>19
    DEF Audio!MicrophoneGoes, Audio!UnloadModule, Audio!Answers, Audio!serverVars, Audio!SinksNow,
        SoundTypes, SoundSinkTypes, SoundInv
<1>20. CASE Audio!PulseReads
  BY <1>20
    DEF Audio!PulseReads, Audio!serverVars, Audio!SinksNow, SoundTypes, SoundSinkTypes, SoundInv
<1>21. CASE Audio!PulseFires
  BY <1>21
    DEF Audio!PulseFires, Audio!serverVars, Audio!SinksNow, Audio!Excuses, SoundTypes,
        SoundSinkTypes, SoundInv
<1>22. CASE Audio!ConstructorReads
  BY <1>22
    DEF Audio!ConstructorReads, Audio!serverVars, Audio!SinksNow, SoundTypes, SoundSinkTypes,
        SoundInv
<1>23. CASE Audio!ConstructorFails
  BY <1>23
    DEF Audio!ConstructorFails, Audio!serverVars, Audio!SinksNow, Audio!Excuses, SoundTypes,
        SoundSinkTypes, SoundInv
<1>24. CASE Audio!ConstructorStores
  BY <1>24
    DEF Audio!ConstructorStores, Audio!serverVars, Audio!SinksNow, SoundTypes, SoundSinkTypes,
        SoundInv
<1>25. CASE Audio!CodecResets
  BY <1>25
    DEF Audio!CodecResets, Audio!serverVars, Audio!SinksNow, Audio!Excuses, SoundTypes,
        SoundSinkTypes, SoundInv
<1>26. CASE Audio!SetFromJson
  BY <1>26
    DEF Audio!SetFromJson, Audio!SetCardProfile, Audio!SetProfile, Audio!Disturbs,
        Audio!serverVars, Audio!SinksNow, Audio!Sinks, Audio!Excuses, SoundTypes, SoundSinkTypes,
        SoundInv
<1>27. CASE UNCHANGED Audio!vars
  BY <1>27 DEF Audio!vars, Audio!serverVars, Audio!SinksNow, SoundInv, SoundTypes, SoundSinkTypes
<1> QED
  BY <1>1, <1>2, <1>3, <1>4, <1>5, <1>6, <1>7, <1>8, <1>9, <1>10, <1>11, <1>12, <1>13, <1>14,
     <1>15, <1>16, <1>17, <1>18, <1>19, <1>20, <1>21, <1>22, <1>23, <1>24, <1>25, <1>26, <1>27
    DEF Audio!Next

\* Whoever leaves the profile is excused or has left it where it was chosen to be.
LEMMA ProfileStep == SoundInv /\ [Audio!Next]_Audio!vars => ProfileInv'
<1> SUFFICES ASSUME SoundInv, [Audio!Next]_Audio!vars PROVE ProfileInv'
  OBVIOUS
<1>1. CASE Audio!UserSetsProfile
  BY <1>1 DEF Audio!UserSetsProfile, Audio!SetProfile, ProfileInv
<1>2. CASE Audio!UserMovesStream
  BY <1>2 DEF Audio!UserMovesStream, ProfileInv, SoundInv
<1>3. CASE Audio!CardGoes
  BY <1>3 DEF Audio!CardGoes, Audio!SetProfile, ProfileInv
<1>4. CASE Audio!CardComes
  BY <1>4 DEF Audio!CardComes, Audio!SetProfile, ProfileInv
<1>5. CASE Audio!SwitchToCard
  BY <1>5 DEF Audio!SwitchToCard, Audio!Switch, Audio!Goes, Audio!serverVars, ProfileInv, SoundInv
<1>6. CASE Audio!SwitchCardToSpeakers
  BY <1>6
    DEF Audio!SwitchCardToSpeakers, Audio!Switch, Audio!Goes, Audio!serverVars, ProfileInv,
        SoundInv
<1>7. CASE Audio!SwitchLooks
  <2>1. at'["monitor"] = at["monitor"]
    BY <1>7 DEF Audio!SwitchLooks, Audio!Goes, SoundInv, SoundTypes, SoundCallTypes, Audio!Threads
  <2> QED BY <1>7, <2>1 DEF Audio!SwitchLooks, Audio!serverVars, SoundInv, ProfileInv
<1>8. CASE Audio!SwitchGivesUp
  BY <1>8 DEF Audio!SwitchGivesUp, Audio!Goes, Audio!serverVars, ProfileInv, SoundInv
<1>9. CASE Audio!SetDefaultSink
  BY <1>9 DEF Audio!SetDefaultSink, Audio!Goes, ProfileInv, SoundInv
<1>10. CASE Audio!ListSinkInputs
  BY <1>10 DEF Audio!ListSinkInputs, Audio!Goes, Audio!serverVars, ProfileInv, SoundInv
<1>11. CASE Audio!MoveSinkInput
  BY <1>11 DEF Audio!MoveSinkInput, ProfileInv, SoundInv
<1>12. CASE Audio!SwitchDone
  BY <1>12 DEF Audio!SwitchDone, Audio!Goes, Audio!serverVars, ProfileInv, SoundInv
<1>13. CASE Audio!ResetA2dp
  BY <1>13 DEF Audio!ResetA2dp, Audio!GetCardInfoByName, Audio!Answers, Audio!Playing
<1>14. CASE Audio!ResetTurnsOff
  BY <1>14 DEF Audio!ResetTurnsOff, Audio!Goes, ProfileInv
<1>15. CASE Audio!ResetRestores
  BY <1>15 DEF Audio!ResetRestores, ProfileInv
<1>16. CASE Audio!MicrophoneLists
  BY <1>16 DEF Audio!MicrophoneLists, Audio!Goes, Audio!serverVars, ProfileInv, SoundInv
<1>17. CASE Audio!MicrophoneUnloadsStale
  BY <1>17 DEF Audio!MicrophoneUnloadsStale, Audio!Goes, Audio!serverVars, ProfileInv, SoundInv
<1>18. CASE Audio!MicrophoneLoads
  BY <1>18 DEF Audio!MicrophoneLoads, Audio!Goes, Audio!serverVars, ProfileInv, SoundInv
<1>19. CASE Audio!MicrophoneGoes
  BY <1>19 DEF Audio!MicrophoneGoes, Audio!serverVars, ProfileInv, SoundInv
<1>20. CASE Audio!PulseReads
  BY <1>20 DEF Audio!PulseReads, Audio!serverVars, ProfileInv, SoundInv
<1>21. CASE Audio!PulseFires
  BY <1>21 DEF Audio!PulseFires, Audio!serverVars, ProfileInv, SoundInv
<1>22. CASE Audio!ConstructorReads
  BY <1>22 DEF Audio!ConstructorReads, Audio!Goes, Audio!serverVars, ProfileInv, SoundInv
<1>23. CASE Audio!ConstructorFails
  BY <1>23 DEF Audio!ConstructorFails, Audio!Goes, Audio!serverVars, ProfileInv, SoundInv
<1>24. CASE Audio!ConstructorStores
  BY <1>24 DEF Audio!ConstructorStores, Audio!Goes, Audio!serverVars, ProfileInv, SoundInv
<1>25. CASE Audio!CodecResets
  BY <1>25 DEF Audio!CodecResets, Audio!serverVars, ProfileInv, SoundInv
<1>26. CASE Audio!SetFromJson
  BY <1>26 DEF Audio!SetFromJson, ProfileInv
<1>27. CASE UNCHANGED Audio!vars
  BY <1>27 DEF Audio!vars, Audio!serverVars, SoundInv, ProfileInv
<1> QED
  BY <1>1, <1>2, <1>3, <1>4, <1>5, <1>6, <1>7, <1>8, <1>9, <1>10, <1>11, <1>12, <1>13, <1>14,
     <1>15, <1>16, <1>17, <1>18, <1>19, <1>20, <1>21, <1>22, <1>23, <1>24, <1>25, <1>26, <1>27
    DEF Audio!Next

\* What is known of the card keeps up with the events on their way.
LEMMA CardStep == SoundInv /\ [Audio!Next]_Audio!vars => CardInv'
<1> SUFFICES ASSUME SoundInv, [Audio!Next]_Audio!vars PROVE CardInv'
  OBVIOUS
<1>1. CASE Audio!UserSetsProfile
  BY <1>1
    DEF Audio!UserSetsProfile, Audio!SetProfile, Audio!Profiles, Audio!Playing, Audio!codecVars,
        SoundTypes, CardInv, SoundCardTypes, SoundInv
<1>2. CASE Audio!UserMovesStream
  BY <1>2 DEF Audio!UserMovesStream, Audio!codecVars, Audio!eventVars, CardInv, SoundInv
<1>3. CASE Audio!CardGoes
  BY <1>3
    DEF Audio!CardGoes, Audio!SetProfile, Audio!Disturbs, Audio!Count, Audio!codecVars,
        Audio!switchVars, Audio!Profiles, Audio!Playing, Audio!NoInfo, Audio!Threads, SoundTypes,
        CardInv, SoundCallTypes, SoundCardTypes, SoundInv
<1>4. CASE Audio!CardComes
  BY <1>4
    DEF Audio!CardComes, Audio!SetProfile, Audio!Playing, Audio!Profiles, Audio!codecVars,
        SoundTypes, CardInv, SoundCardTypes, SoundInv
<1>5. CASE Audio!SwitchToCard
  BY <1>5
    DEF Audio!SwitchToCard, Audio!Switch, Audio!Goes, Audio!serverVars, Audio!codecVars,
        Audio!eventVars, CardInv, SoundInv
<1>6. CASE Audio!SwitchCardToSpeakers
  BY <1>6
    DEF Audio!SwitchCardToSpeakers, Audio!Switch, Audio!Goes, Audio!serverVars, Audio!codecVars,
        Audio!eventVars, CardInv, SoundInv
<1>7. CASE Audio!SwitchLooks
  BY <1>7
    DEF Audio!SwitchLooks, Audio!Goes, Audio!serverVars, Audio!codecVars, Audio!eventVars,
        Audio!Threads, SoundTypes, CardInv, SoundCallTypes, SoundInv
<1>8. CASE Audio!SwitchGivesUp
  BY <1>8
    DEF Audio!SwitchGivesUp, Audio!Goes, Audio!serverVars, Audio!codecVars, Audio!eventVars,
        CardInv, SoundInv
<1>9. CASE Audio!SetDefaultSink
  BY <1>9
    DEF Audio!SetDefaultSink, Audio!Goes, Audio!codecVars, Audio!eventVars, CardInv, SoundInv
<1>10. CASE Audio!ListSinkInputs
  BY <1>10
    DEF Audio!ListSinkInputs, Audio!Goes, Audio!serverVars, Audio!codecVars, Audio!eventVars,
        CardInv, SoundInv
<1>11. CASE Audio!MoveSinkInput
  BY <1>11 DEF Audio!MoveSinkInput, Audio!codecVars, Audio!eventVars, CardInv, SoundInv
<1>12. CASE Audio!SwitchDone
  BY <1>12
    DEF Audio!SwitchDone, Audio!Goes, Audio!serverVars, Audio!codecVars, Audio!eventVars, CardInv,
        SoundInv
<1>13. CASE Audio!ResetA2dp
  BY <1>13 DEF Audio!ResetA2dp, Audio!GetCardInfoByName, Audio!Answers, Audio!Playing
<1>14. CASE Audio!ResetTurnsOff
  BY <1>14
    DEF Audio!ResetTurnsOff, Audio!Goes, Audio!SetCardProfile, Audio!SetProfile, Audio!serverVars,
        Audio!codecVars, SoundTypes, CardInv, SoundCardTypes, SoundInv
<1>15. CASE Audio!ResetRestores
  BY <1>15
    DEF Audio!ResetRestores, Audio!Goes, Audio!SetCardProfile, Audio!SetProfile, Audio!serverVars,
        Audio!codecVars, Audio!switchVars, Audio!bounds, Audio!Profiles, Audio!Playing,
        SoundTypes, CardInv, SoundCallTypes, SoundCardTypes, SoundInv
<1>16. CASE Audio!MicrophoneLists
  BY <1>16
    DEF Audio!MicrophoneLists, Audio!Goes, Audio!Call, Audio!serverVars, Audio!codecVars,
        Audio!eventVars, Audio!switchVars, Audio!Profiles, Audio!Playing, Audio!Threads,
        SoundTypes, CardInv, SoundCallTypes, SoundInv
<1>17. CASE Audio!MicrophoneUnloadsStale
  BY <1>17
    DEF Audio!MicrophoneUnloadsStale, Audio!Goes, Audio!serverVars, Audio!codecVars,
        Audio!eventVars, CardInv, SoundInv
<1>18. CASE Audio!MicrophoneLoads
  BY <1>18
    DEF Audio!MicrophoneLoads, Audio!Goes, Audio!serverVars, Audio!codecVars, Audio!eventVars,
        CardInv, SoundInv
<1>19. CASE Audio!MicrophoneGoes
  BY <1>19
    DEF Audio!MicrophoneGoes, Audio!serverVars, Audio!codecVars, Audio!eventVars, CardInv,
        SoundInv
<1>20. CASE Audio!PulseReads
  BY <1>20
    DEF Audio!PulseReads, Audio!serverVars, Audio!codecVars, Audio!switchVars, Audio!bounds,
        Audio!Profiles, Audio!Playing, SoundTypes, CardInv, SoundCardTypes, SoundInv
<1>21. CASE Audio!PulseFires
  BY <1>21
    DEF Audio!PulseFires, Audio!UpdateCardInfo, Audio!serverVars, Audio!switchVars, Audio!bounds,
        Audio!Profiles, Audio!Playing, SoundTypes, CardInv, SoundCardTypes, SoundInv
<1>22. CASE Audio!ConstructorReads
  BY <1>22
    DEF Audio!ConstructorReads, Audio!GetCardInfoByName, Audio!Answers, Audio!serverVars,
        Audio!codecVars, Audio!eventVars, SoundTypes, CardInv, SoundCallTypes, SoundInv
<1>23. CASE Audio!ConstructorFails
  BY <1>23
    DEF Audio!ConstructorFails, Audio!Goes, Audio!serverVars, Audio!codecVars, Audio!eventVars,
        CardInv, SoundInv
<1>24. CASE Audio!ConstructorStores
  BY <1>24
    DEF Audio!ConstructorStores, Audio!Goes, Audio!UpdateCardInfo, Audio!serverVars,
        Audio!eventVars, Audio!switchVars, Audio!bounds, Audio!Profiles, Audio!Playing,
        Audio!Threads, SoundTypes, CardInv, SoundCallTypes, SoundCardTypes, SoundInv
<1>25. CASE Audio!CodecResets
  BY <1>25 DEF Audio!CodecResets, Audio!serverVars, CardInv, SoundInv
<1>26. CASE Audio!SetFromJson
  <2>1. /\ connected' = connected /\ (profile = "gone" <=> profile' = "gone")
        /\ ((pending' = pending /\ profile' = profile) \/ pending')
    BY <1>26
      DEF Audio!SetFromJson, Audio!SetCardProfile, Audio!SetProfile, Audio!serverVars,
          Audio!Profiles, Audio!Playing, SoundInv, SoundTypes, SoundCardTypes
  <2>2. UNCHANGED <<info, codecAvailable, reply, signal, at, saved>> /\ excused \subseteq excused'
    BY <1>26 DEF Audio!SetFromJson, Audio!Disturbs, Audio!codecVars
  <2> QED BY <2>1, <2>2 DEF SoundInv, CardInv
<1>27. CASE UNCHANGED Audio!vars
  BY <1>27 DEF Audio!vars, Audio!serverVars, Audio!codecVars, Audio!eventVars, SoundInv, CardInv
<1> QED
  BY <1>1, <1>2, <1>3, <1>4, <1>5, <1>6, <1>7, <1>8, <1>9, <1>10, <1>11, <1>12, <1>13, <1>14,
     <1>15, <1>16, <1>17, <1>18, <1>19, <1>20, <1>21, <1>22, <1>23, <1>24, <1>25, <1>26, <1>27
    DEF Audio!Next

\* So does the codec that is shown.
LEMMA CodecStep == SoundInv /\ [Audio!Next]_Audio!vars => CodecInv'
<1> SUFFICES ASSUME SoundInv, [Audio!Next]_Audio!vars PROVE CodecInv'
  OBVIOUS
<1>1. CASE Audio!UserSetsProfile
  BY <1>1
    DEF Audio!UserSetsProfile, Audio!SetProfile, SoundTypes, CardInv, CodecInv, SoundCardTypes,
        SoundInv
<1>2. CASE Audio!UserMovesStream
  BY <1>2 DEF Audio!UserMovesStream, Audio!codecVars, Audio!eventVars, CodecInv, SoundInv
<1>3. CASE Audio!CardGoes
  BY <1>3 DEF Audio!CardGoes, CodecInv
<1>4. CASE Audio!CardComes
  BY <1>4
    DEF Audio!CardComes, Audio!SetProfile, Audio!Disturbs, Audio!Count, Audio!Playing,
        Audio!Profiles, Audio!codecVars, Audio!switchVars, Audio!NoInfo, Audio!Threads,
        SoundTypes, CardInv, CodecInv, SoundCallTypes, SoundCardTypes, SoundInv
<1>5. CASE Audio!SwitchToCard
  BY <1>5
    DEF Audio!SwitchToCard, Audio!Switch, Audio!Goes, Audio!serverVars, Audio!codecVars,
        Audio!eventVars, CodecInv, SoundInv
<1>6. CASE Audio!SwitchCardToSpeakers
  BY <1>6
    DEF Audio!SwitchCardToSpeakers, Audio!Switch, Audio!Goes, Audio!serverVars, Audio!codecVars,
        Audio!eventVars, CodecInv, SoundInv
<1>7. CASE Audio!SwitchLooks
  BY <1>7
    DEF Audio!SwitchLooks, Audio!Goes, Audio!serverVars, Audio!codecVars, Audio!eventVars,
        Audio!Threads, SoundTypes, CodecInv, SoundCallTypes, SoundInv
<1>8. CASE Audio!SwitchGivesUp
  BY <1>8
    DEF Audio!SwitchGivesUp, Audio!Goes, Audio!serverVars, Audio!codecVars, Audio!eventVars,
        CodecInv, SoundInv
<1>9. CASE Audio!SetDefaultSink
  BY <1>9
    DEF Audio!SetDefaultSink, Audio!Goes, Audio!codecVars, Audio!eventVars, CodecInv, SoundInv
<1>10. CASE Audio!ListSinkInputs
  BY <1>10
    DEF Audio!ListSinkInputs, Audio!Goes, Audio!serverVars, Audio!codecVars, Audio!eventVars,
        CodecInv, SoundInv
<1>11. CASE Audio!MoveSinkInput
  BY <1>11 DEF Audio!MoveSinkInput, Audio!codecVars, Audio!eventVars, CodecInv, SoundInv
<1>12. CASE Audio!SwitchDone
  BY <1>12
    DEF Audio!SwitchDone, Audio!Goes, Audio!serverVars, Audio!codecVars, Audio!eventVars,
        CodecInv, SoundInv
<1>13. CASE Audio!ResetA2dp
  BY <1>13
    DEF Audio!ResetA2dp, Audio!Goes, Audio!serverVars, Audio!codecVars, Audio!eventVars, CodecInv,
        SoundInv
<1>14. CASE Audio!ResetTurnsOff
  BY <1>14
    DEF Audio!ResetTurnsOff, Audio!Goes, Audio!SetCardProfile, Audio!SetProfile, Audio!serverVars,
        Audio!codecVars, SoundTypes, CodecInv, SoundCardTypes, SoundInv
<1>15. CASE Audio!ResetRestores
  BY <1>15
    DEF Audio!ResetRestores, Audio!Goes, Audio!SetCardProfile, Audio!SetProfile, Audio!serverVars,
        Audio!codecVars, SoundTypes, CodecInv, SoundCardTypes, SoundInv
<1>16. CASE Audio!MicrophoneLists
  BY <1>16
    DEF Audio!MicrophoneLists, Audio!Goes, Audio!Call, Audio!serverVars, Audio!codecVars,
        Audio!eventVars, Audio!switchVars, Audio!Profiles, Audio!Playing, Audio!Threads,
        SoundTypes, CodecInv, SoundCallTypes, SoundInv
<1>17. CASE Audio!MicrophoneUnloadsStale
  BY <1>17
    DEF Audio!MicrophoneUnloadsStale, Audio!Goes, Audio!serverVars, Audio!codecVars,
        Audio!eventVars, CodecInv, SoundInv
<1>18. CASE Audio!MicrophoneLoads
  BY <1>18
    DEF Audio!MicrophoneLoads, Audio!Goes, Audio!serverVars, Audio!codecVars, Audio!eventVars,
        CodecInv, SoundInv
<1>19. CASE Audio!MicrophoneGoes
  BY <1>19
    DEF Audio!MicrophoneGoes, Audio!serverVars, Audio!codecVars, Audio!eventVars, CodecInv,
        SoundInv
<1>20. CASE Audio!PulseReads
  BY <1>20
    DEF Audio!PulseReads, Audio!codecVars, Audio!Profiles, Audio!Playing, SoundTypes, CardInv,
        CodecInv, SoundCardTypes, SoundInv
<1>21. CASE Audio!PulseFires
  BY <1>21
    DEF Audio!PulseFires, Audio!UpdateCardInfo, Audio!serverVars, Audio!switchVars, Audio!bounds,
        Audio!Profiles, Audio!Playing, Audio!NoInfo, Audio!Threads, SoundTypes, CardInv, CodecInv,
        SoundCallTypes, SoundCardTypes, SoundInv
<1>22. CASE Audio!ConstructorReads
  BY <1>22 DEF Audio!ConstructorReads, Audio!Goes, CodecInv
<1>23. CASE Audio!ConstructorFails
  BY <1>23 DEF Audio!ConstructorFails, CodecInv
<1>24. CASE Audio!ConstructorStores
  BY <1>24
    DEF Audio!ConstructorStores, Audio!Goes, Audio!UpdateCardInfo, Audio!serverVars,
        Audio!eventVars, Audio!switchVars, Audio!bounds, Audio!Profiles, Audio!Playing,
        Audio!NoInfo, Audio!Threads, SoundTypes, CardInv, CodecInv, SoundCallTypes,
        SoundCardTypes, SoundInv
<1>25. CASE Audio!CodecResets
  BY <1>25 DEF Audio!CodecResets, CodecInv
<1>26. CASE Audio!SetFromJson
  <2>1. connected' = connected /\ ((pending' = pending /\ profile' = profile) \/ pending')
    BY <1>26
      DEF Audio!SetFromJson, Audio!SetCardProfile, Audio!SetProfile, Audio!serverVars, SoundInv,
          SoundTypes, SoundCardTypes
  <2>2. UNCHANGED <<info, codecAvailable, reply, signal, at>> /\ excused \subseteq excused'
    BY <1>26 DEF Audio!SetFromJson, Audio!Disturbs, Audio!codecVars
  <2> QED BY <2>1, <2>2 DEF SoundInv, CodecInv
<1>27. CASE UNCHANGED Audio!vars
  BY <1>27 DEF Audio!vars, Audio!serverVars, Audio!codecVars, Audio!eventVars, SoundInv, CodecInv
<1> QED
  BY <1>1, <1>2, <1>3, <1>4, <1>5, <1>6, <1>7, <1>8, <1>9, <1>10, <1>11, <1>12, <1>13, <1>14,
     <1>15, <1>16, <1>17, <1>18, <1>19, <1>20, <1>21, <1>22, <1>23, <1>24, <1>25, <1>26, <1>27
    DEF Audio!Next

\* No stream gets past the switch.
LEMMA SwitchStep == SoundInv /\ [Audio!Next]_Audio!vars => SwitchInv'
<1> SUFFICES ASSUME SoundInv, [Audio!Next]_Audio!vars PROVE SwitchInv'
  OBVIOUS
<1>1. CASE Audio!UserSetsProfile
  BY <1>1 DEF Audio!UserSetsProfile, Audio!Disturbs, Audio!switchVars, SwitchInv, SoundInv
<1>2. CASE Audio!UserMovesStream
  BY <1>2 DEF Audio!UserMovesStream, Audio!switchVars, SwitchInv, SoundInv
<1>3. CASE Audio!CardGoes
  BY <1>3 DEF Audio!CardGoes, Audio!Disturbs, Audio!switchVars, SwitchInv, SoundInv
<1>4. CASE Audio!CardComes
  BY <1>4 DEF Audio!CardComes, Audio!Disturbs, Audio!switchVars, SwitchInv, SoundInv
<1>5. CASE Audio!SwitchToCard
  BY <1>5 DEF Audio!SwitchToCard, Audio!Switch, Audio!Goes, SwitchInv
<1>6. CASE Audio!SwitchCardToSpeakers
  BY <1>6 DEF Audio!SwitchCardToSpeakers, Audio!Switch, Audio!Goes, SwitchInv
<1>7. CASE Audio!SwitchLooks
  BY <1>7
    DEF Audio!SwitchLooks, Audio!Goes, Audio!OnCard, SoundTypes, SwitchInv, SoundCallTypes,
        SoundInv
<1>8. CASE Audio!SwitchGivesUp
  BY <1>8
    DEF Audio!SwitchGivesUp, Audio!Goes, Audio!Threads, SoundTypes, SwitchInv, SoundCallTypes,
        SoundInv
<1>9. CASE Audio!SetDefaultSink
  BY <1>9 DEF Audio!SetDefaultSink, Audio!Goes, Audio!switchVars, SwitchInv, SoundInv
<1>10. CASE Audio!ListSinkInputs
  BY <1>10 DEF Audio!ListSinkInputs, Audio!Goes, Audio!serverVars, SwitchInv, SoundInv
<1>11. CASE Audio!MoveSinkInput
  <2>1. PICK s \in moving :
               /\ moving' = moving \ {s}
               /\ \/ playing' = [playing EXCEPT ![s] = to] /\ UNCHANGED excused
                  \/ "streams" \in excused'
    BY <1>11 DEF Audio!MoveSinkInput
  <2>2. UNCHANGED <<default, from, to, left, at>> /\ at["switch"] = "move"
    BY <1>11 DEF Audio!MoveSinkInput
  <2> QED BY <2>1, <2>2 DEF SoundInv, SoundTypes, SoundSinkTypes, SwitchInv
<1>12. CASE Audio!SwitchDone
  BY <1>12
    DEF Audio!SwitchDone, Audio!Goes, Audio!Threads, SoundTypes, SwitchInv, SoundCallTypes,
        SoundInv
<1>13. CASE Audio!ResetA2dp
  BY <1>13 DEF Audio!ResetA2dp, Audio!GetCardInfoByName, Audio!Answers, Audio!Playing
<1>14. CASE Audio!ResetTurnsOff
  BY <1>14 DEF Audio!ResetTurnsOff, Audio!Goes, Audio!switchVars, SwitchInv, SoundInv
<1>15. CASE Audio!ResetRestores
  BY <1>15 DEF Audio!ResetRestores, Audio!Goes, Audio!switchVars, SwitchInv, SoundInv
<1>16. CASE Audio!MicrophoneLists
  BY <1>16
    DEF Audio!MicrophoneLists, Audio!Goes, Audio!serverVars, Audio!switchVars, Audio!Threads,
        SoundTypes, SwitchInv, SoundCallTypes, SoundInv
<1>17. CASE Audio!MicrophoneUnloadsStale
  BY <1>17
    DEF Audio!MicrophoneUnloadsStale, Audio!Goes, Audio!serverVars, Audio!switchVars, SwitchInv,
        SoundInv
<1>18. CASE Audio!MicrophoneLoads
  BY <1>18
    DEF Audio!MicrophoneLoads, Audio!Goes, Audio!serverVars, Audio!switchVars, SwitchInv, SoundInv
<1>19. CASE Audio!MicrophoneGoes
  BY <1>19 DEF Audio!MicrophoneGoes, Audio!serverVars, Audio!switchVars, SwitchInv, SoundInv
<1>20. CASE Audio!PulseReads
  BY <1>20 DEF Audio!PulseReads, Audio!serverVars, Audio!switchVars, SwitchInv, SoundInv
<1>21. CASE Audio!PulseFires
  BY <1>21 DEF Audio!PulseFires, Audio!serverVars, Audio!switchVars, SwitchInv, SoundInv
<1>22. CASE Audio!ConstructorReads
  BY <1>22
    DEF Audio!ConstructorReads, Audio!Goes, Audio!serverVars, Audio!switchVars, SwitchInv,
        SoundInv
<1>23. CASE Audio!ConstructorFails
  BY <1>23
    DEF Audio!ConstructorFails, Audio!Goes, Audio!serverVars, Audio!switchVars, SwitchInv,
        SoundInv
<1>24. CASE Audio!ConstructorStores
  BY <1>24
    DEF Audio!ConstructorStores, Audio!Goes, Audio!serverVars, Audio!switchVars, SwitchInv,
        SoundInv
<1>25. CASE Audio!CodecResets
  BY <1>25 DEF Audio!CodecResets, Audio!serverVars, Audio!switchVars, SwitchInv, SoundInv
<1>26. CASE Audio!SetFromJson
  BY <1>26 DEF Audio!SetFromJson, Audio!Disturbs, Audio!switchVars, SwitchInv, SoundInv
<1>27. CASE UNCHANGED Audio!vars
  BY <1>27 DEF Audio!vars, Audio!serverVars, Audio!switchVars, SoundInv, SwitchInv
<1> QED
  BY <1>1, <1>2, <1>3, <1>4, <1>5, <1>6, <1>7, <1>8, <1>9, <1>10, <1>11, <1>12, <1>13, <1>14,
     <1>15, <1>16, <1>17, <1>18, <1>19, <1>20, <1>21, <1>22, <1>23, <1>24, <1>25, <1>26, <1>27
    DEF Audio!Next

\* A second virtual microphone is not loaded unless a call has failed.
LEMMA ModuleStep == SoundInv /\ [Audio!Next]_Audio!vars => ModuleInv'
<1> SUFFICES ASSUME SoundInv, [Audio!Next]_Audio!vars PROVE ModuleInv'
  OBVIOUS
<1>1. CASE Audio!UserSetsProfile
  BY <1>1 DEF Audio!UserSetsProfile, Audio!Disturbs, ModuleInv, SoundInv
<1>2. CASE Audio!UserMovesStream
  BY <1>2 DEF Audio!UserMovesStream, ModuleInv, SoundInv
<1>3. CASE Audio!CardGoes
  BY <1>3 DEF Audio!CardGoes, Audio!Disturbs, ModuleInv, SoundInv
<1>4. CASE Audio!CardComes
  BY <1>4 DEF Audio!CardComes, Audio!Disturbs, ModuleInv, SoundInv
<1>5. CASE Audio!SwitchToCard
  BY <1>5 DEF Audio!SwitchToCard, Audio!Switch, Audio!Goes, ModuleInv, SoundInv
<1>6. CASE Audio!SwitchCardToSpeakers
  BY <1>6 DEF Audio!SwitchCardToSpeakers, Audio!Switch, Audio!Goes, ModuleInv, SoundInv
<1>7. CASE Audio!SwitchLooks
  BY <1>7
    DEF Audio!SwitchLooks, Audio!Goes, Audio!Threads, SoundTypes, ModuleInv, SoundCallTypes,
        SoundInv
<1>8. CASE Audio!SwitchGivesUp
  BY <1>8 DEF Audio!SwitchGivesUp, Audio!Goes, ModuleInv, SoundInv
<1>9. CASE Audio!SetDefaultSink
  BY <1>9 DEF Audio!SetDefaultSink, Audio!Goes, ModuleInv, SoundInv
<1>10. CASE Audio!ListSinkInputs
  BY <1>10 DEF Audio!ListSinkInputs, Audio!Goes, ModuleInv, SoundInv
<1>11. CASE Audio!MoveSinkInput
  BY <1>11 DEF Audio!MoveSinkInput, ModuleInv, SoundInv
<1>12. CASE Audio!SwitchDone
  BY <1>12 DEF Audio!SwitchDone, Audio!Goes, ModuleInv, SoundInv
<1>13. CASE Audio!ResetA2dp
  BY <1>13 DEF Audio!ResetA2dp, Audio!Goes, ModuleInv, SoundInv
<1>14. CASE Audio!ResetTurnsOff
  BY <1>14 DEF Audio!ResetTurnsOff, Audio!Goes, ModuleInv, SoundInv
<1>15. CASE Audio!ResetRestores
  BY <1>15 DEF Audio!ResetRestores, Audio!Goes, ModuleInv, SoundInv
<1>16. CASE Audio!MicrophoneLists
  BY <1>16 DEF Audio!MicrophoneLists, Audio!Goes, SoundTypes, ModuleInv, SoundCallTypes, SoundInv
<1>17. CASE Audio!MicrophoneUnloadsStale
  BY <1>17 DEF Audio!MicrophoneUnloadsStale, Audio!Goes, ModuleInv, SoundInv
<1>18. CASE Audio!MicrophoneLoads
  BY <1>18
    DEF Audio!MicrophoneLoads, Audio!Goes, Audio!LoadModule, Audio!Answers, Audio!Threads,
        SoundTypes, ModuleInv, SoundCallTypes, SoundInv
<1>19. CASE Audio!MicrophoneGoes
  BY <1>19 DEF Audio!MicrophoneGoes, ModuleInv
<1>20. CASE Audio!PulseReads
  BY <1>20 DEF Audio!PulseReads, ModuleInv, SoundInv
<1>21. CASE Audio!PulseFires
  BY <1>21 DEF Audio!PulseFires, ModuleInv, SoundInv
<1>22. CASE Audio!ConstructorReads
  BY <1>22 DEF Audio!ConstructorReads, Audio!Goes, ModuleInv, SoundInv
<1>23. CASE Audio!ConstructorFails
  BY <1>23 DEF Audio!ConstructorFails, Audio!Goes, ModuleInv, SoundInv
<1>24. CASE Audio!ConstructorStores
  BY <1>24 DEF Audio!ConstructorStores, Audio!Goes, ModuleInv, SoundInv
<1>25. CASE Audio!CodecResets
  BY <1>25 DEF Audio!CodecResets, ModuleInv, SoundInv
<1>26. CASE Audio!SetFromJson
  BY <1>26 DEF Audio!SetFromJson, Audio!Disturbs, ModuleInv, SoundInv
<1>27. CASE UNCHANGED Audio!vars
  BY <1>27 DEF Audio!vars, SoundInv, ModuleInv
<1> QED
  BY <1>1, <1>2, <1>3, <1>4, <1>5, <1>6, <1>7, <1>8, <1>9, <1>10, <1>11, <1>12, <1>13, <1>14,
     <1>15, <1>16, <1>17, <1>18, <1>19, <1>20, <1>21, <1>22, <1>23, <1>24, <1>25, <1>26, <1>27
    DEF Audio!Next

\* The invariant holds of every behaviour of PulseAudio.
THEOREM SoundInvariance == Audio!Spec => []SoundInv
<1>1. Audio!Init => SoundInv
  <2> SUFFICES ASSUME Audio!Init PROVE SoundInv
    OBVIOUS
  <2>1. SoundTypes
    BY DEF Audio!Init, SoundTypes, SoundCallTypes, SoundCardTypes, SoundSinkTypes, Audio!Profiles,
           Audio!Playing, Audio!SinksNow, Audio!Sinks, Audio!Threads, Audio!NoInfo, Audio!Excuses,
           Steps
  <2>2. ProfileInv /\ CardInv /\ CodecInv /\ SwitchInv /\ ModuleInv
    BY DEF Audio!Init, ProfileInv, CardInv, CodecInv, SwitchInv, ModuleInv, Audio!Playing,
           Audio!Threads
  <2> QED BY <2>1, <2>2 DEF SoundInv
<1>2. SoundInv /\ [Audio!Next]_Audio!vars => SoundInv'
  BY SoundCallTypesStep, SoundCardTypesStep, SoundSinkTypesStep, ProfileStep, CardStep, CodecStep,
     SwitchStep, ModuleStep
    DEF SoundInv, SoundTypes
<1> QED BY <1>1, <1>2, PTL DEF Audio!Spec

\* A behaviour of this module is one of PulseAudio, and one of the microphone.
THEOREM PartsAreThemselves == BothSpec => Spec /\ Audio!Spec
<1>1. BothInit => Init /\ Audio!Init
  BY DEF BothInit
<1>2. [BothNext]_<<part, vars, audioVars>> => [Next]_vars
  <2> SUFFICES ASSUME BothNext, ~UNCHANGED vars PROVE Next
    BY DEF audioVars
  <2> QED BY DEF BothNext, InMicrophone, InAudio, Next, Caller, Monitor, Decoder
<1>3. [BothNext]_<<part, vars, audioVars>> => [Audio!Next]_Audio!vars
  <2>1. audioVars' = audioVars => UNCHANGED Audio!vars
    BY DEF audioVars, Audio!vars, Audio!serverVars, Audio!codecVars, Audio!eventVars,
           Audio!switchVars, Audio!bounds
  <2> SUFFICES ASSUME BothNext, audioVars' # audioVars PROVE Audio!Next
    BY <2>1
  <2> QED BY DEF BothNext, InMicrophone, InAudio, Audio!Next
<1> QED BY <1>1, <1>2, <1>3, PTL DEF BothSpec, Spec, Audio!Spec

\* ResetA2dp() leaves the card in the profile that was asked for, and the codec that
\* CmnBluetoothCodecCapability shows is the card's once its events are handled.
THEOREM ProfileIsTrue == BothSpec => []ProfileTrue
<1>1. SoundInv => ProfileTrue
  <2> SUFFICES ASSUME SoundInv PROVE Audio!TypeOK /\ Audio!ProfileTrue
    BY DEF ProfileTrue
  <2>1. Audio!TypeOK
    BY DEF SoundInv, SoundTypes, SoundCardTypes, SoundSinkTypes, Audio!TypeOK
  <2>2. Audio!ProfileTrue
    BY DEF SoundInv, ProfileInv, CodecInv, Audio!AtRest, Audio!ProfileTrue
  <2> QED BY <2>1, <2>2
<1> QED BY <1>1, SoundInvariance, PartsAreThemselves, PTL

\* A switch of the output that succeeded leaves no stream on the sink it came from
\* (MoveSinkInputs()), and the program's virtual microphone is the only one PulseAudio has (the
\* constructor of VirtualMicrophone, with GetModuleIndexesByArgument() and UnloadModule()).
THEOREM NothingIsLeft == BothSpec => []NothingLeft
<1>1. SoundInv => NothingLeft
  BY DEF SoundInv, SwitchInv, ModuleInv, NothingLeft, Audio!NothingLeft
<1> QED BY <1>1, SoundInvariance, PartsAreThemselves, PTL
=============================================================================
