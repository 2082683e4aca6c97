----------------------------- MODULE Microphone -----------------------------
(***************************************************************************)
(* The high-resolution microphone of AirPods:                              *)
(* AapHighResolutionMicrophoneCapability, with the virtual source it keeps *)
(* in PulseAudio (VirtualMicrophone) and the FIFO that feeds it.           *)
(*                                                                         *)
(* Four kinds of thread meet in it.                                        *)
(*   Callers    the server's thread (a request toggles the setting), and   *)
(*              the threads on which the device fires its client state:    *)
(*              D-Bus, the restart thread and the reader of the connection *)
(*   monitor    MonitorLoop(): one at a time, started by StartMonitor(),   *)
(*              joined by StopMonitor()                                    *)
(*   decoder    DecodeLoop(): one per capture, owned by the monitor        *)
(* Every lock, atomic and join that orders them is in the model. What the  *)
(* device does is its contract (module Device): a state is stored, then    *)
(* fired, in two steps; the client joins the old reader before it starts   *)
(* or stops, and keeps what is queued for its writer over the connections  *)
(* (module Client): of the commands to the microphone only the last one    *)
(* counts. Audio is a number of queued blocks, the FIFO a number of        *)
(* written ones; ResetA2dp(), which waits on nobody here, is in module     *)
(* PulseAudio.                                                             *)
(***************************************************************************)
EXTENDS Naturals

CONSTANTS
    Starters,            \* threads that start the client: "dbus", "restart"
    AudioQueueCapacity,  \* blocks _audioQueue holds before the oldest is dropped
    FifoCapacity,        \* blocks the FIFO holds before write() blocks
    MaxEvents            \* bound: connections made and settings changed

ASSUME MicrophoneAssumption ==
    /\ Starters \subseteq {"dbus", "restart"}
    /\ AudioQueueCapacity \in Nat \ {0}
    /\ FifoCapacity \in Nat \ {0}
    /\ MaxEvents \in Nat

Firers  == Starters \cup {"dbus", "reader"}   \* threads that fire its state
Callers == Firers \cup {"server"}

VARIABLES
    client,      \* the device's _clientState
    link,        \* the connection is up: its reader reads
    outgoing,    \* the last command the client's writer has yet to send: "on", "off"
    headphones,  \* the headphones send audio
    events,      \* history: how many there have been (bound)
    enabled,     \* _enabled
    keep,        \* _keepMicrophoneActive
    available,   \* isAvailable
    lifecycle,   \* the holder of _monitorLifecycleMutex, or "free"
    stop,        \* _stopMonitor
    running,     \* _monitorRunning
    pc,          \* where each caller is
    mon,         \* where the monitor is; "none" once _monitorThread is joined
    look,        \* what it has read in this iteration
    back,        \* where it goes on after StopCapture()
    source,      \* the virtual source: "none", "loaded", or "failed" last time
    consumer,    \* an application records from it
    stream,      \* _microphoneStreamActive
    capture,     \* _captureActive
    decoder,     \* where the decoder is; "none" once _decodeThread is joined
    queue,       \* blocks in _audioQueue
    queueLock,   \* the decoder holds _audioQueueMutex between test and sleep
    fifo,        \* blocks in the FIFO
    late,        \* history: that command, or the one the headphones have had, is an "on"
                 \* for an earlier connection
    raced,       \* history: a state was stored or fired too late, or see Overlap
    terminated   \* history: a joinable std::thread has been assigned over

deviceVars  == <<client, link, available>>
settingVars == <<enabled, keep, events>>
threadVars  == <<lifecycle, stop, raced>>
decodeVars  == <<decoder, queue, queueLock, fifo>>
captureVars == <<capture, terminated>>
monVars     == <<mon, look, back>>
commandVars == <<outgoing, headphones, late>>
vars == <<deviceVars, settingVars, threadVars, decodeVars, captureVars, monVars,
          pc, running, commandVars, source, consumer, stream>>

Nothing == [enabled |-> FALSE, keep |-> FALSE, recording |-> FALSE, connected |-> FALSE]

Init ==
    /\ client = "Disconnected" /\ link = FALSE
    /\ outgoing = "none" /\ headphones = FALSE /\ late = FALSE
    /\ events = 0
    /\ enabled \in BOOLEAN /\ keep \in BOOLEAN /\ available = FALSE
    /\ lifecycle = "free" /\ stop = FALSE /\ running = FALSE
    /\ pc = [t \in Callers |-> "idle"]
    /\ mon = "none" /\ back = "none"
    /\ look = Nothing
    /\ source = "none" /\ consumer = FALSE
    /\ stream = FALSE /\ capture = FALSE
    /\ decoder = "none" /\ queue = 0 /\ queueLock = FALSE
    /\ fifo = 0 /\ raced = FALSE /\ terminated = FALSE

\* A caller's step. What follows once raced holds is undefined: callers stop there.
Goes(t, from, to) ==
    /\ ~raced
    /\ pc[t] = from
    /\ pc' = [pc EXCEPT ![t] = to]

(***************************************************************************)
(* The device: connections come and go, states are stored, then fired.     *)
(***************************************************************************)
\* A command that is queued when a connection ends is kept for the next one, or was on
\* its way and is lost. It is late there if it is an "on".
LinkEnds ==
    /\ link' = FALSE /\ headphones' = FALSE
    /\ outgoing' \in {outgoing, "none"}
    /\ late' = FALSE

\* A thread makes a connection, and stores "Connected", while another is not yet through
\* with the Reset() for the last one; or it stores it when the reader has lost it again.
Resetting == {"Reconnecting", "Disconnected", "stop", "join", "stopped?"}
Overtakes == \E u \in Firers : pc[u] \in Resetting

Connects(t) ==
    /\ pc["reader"] = "idle"         \* Start() joins the reader of the last one
    /\ ~link /\ events < MaxEvents
    /\ Goes(t, "idle", "started")
    /\ link' = TRUE /\ events' = events + 1
    /\ late' = (outgoing = "on")
    /\ raced' = (raced \/ Overtakes)
    /\ UNCHANGED <<client, available, enabled, keep, lifecycle, stop, decodeVars,
                   captureVars, monVars, running, outgoing, headphones, source, consumer,
                   stream>>

Drops ==                             \* the reader notices that the peer is gone
    /\ link
    /\ Goes("reader", "idle", "lost")
    /\ LinkEnds
    /\ UNCHANGED <<client, available, settingVars, threadVars, decodeVars,
                   captureVars, monVars, running, source, consumer, stream>>

\* SetClientState(): the exchange. The event is fired in a step of its own.
SetClientState(t, from, s) ==
    /\ Goes(t, from, IF client # s THEN s ELSE "idle")
    /\ client' = s
    /\ raced' = (raced \/ (s = "Connected" /\ (~link \/ Overtakes)))
    /\ UNCHANGED <<available, settingVars, lifecycle, stop, decodeVars, captureVars,
                   monVars, running, source, consumer, stream>>

StoresConnected(t) ==
    SetClientState(t, "started", "Connected") /\ UNCHANGED <<link, commandVars>>
StoresReconnecting ==
    SetClientState("reader", "lost", "Reconnecting") /\ UNCHANGED <<link, commandVars>>
ReceivesData ==
    /\ link /\ client # "Connected"
    /\ SetClientState("reader", "idle", "Connected") /\ UNCHANGED <<link, commandVars>>
\* RestartClientAfterConnectionLost() with no attempt left, or a disconnect on its way
GivesUp(t) ==
    /\ ~link /\ client = "Reconnecting"
    /\ SetClientState(t, "idle", "Disconnected") /\ UNCHANGED <<link, commandVars>>
Disconnects ==                       \* Stop() joins the reader first
    /\ pc["reader"] = "idle" /\ client # "Disconnected"
    /\ SetClientState("dbus", "idle", "Disconnected")
    /\ LinkEnds

\* The subscriptions of the capability and of its base class. A state that is fired
\* after a later one has been stored is stale.
Fires(t) ==
    /\ \/ /\ Goes(t, "Connected", "test")
          /\ available' = TRUE
       \/ /\ \E s \in {"Reconnecting", "Disconnected"} : Goes(t, s, "stop")
          /\ UNCHANGED available
    /\ raced' = (raced \/ pc[t] # client)
    /\ UNCHANGED <<client, link, settingVars, lifecycle, stop, decodeVars,
                   captureVars, monVars, running, commandVars, source, consumer, stream>>

(***************************************************************************)
(* StartMonitor(), called by any caller.                                   *)
(***************************************************************************)
StartTests(t) ==
    /\ Goes(t, "test", IF enabled /\ client = "Connected" THEN "start" ELSE "idle")
    /\ UNCHANGED <<deviceVars, settingVars, threadVars, decodeVars, captureVars, monVars,
                   running, commandVars, source, consumer, stream>>

Joined == mon \in {"none", "ended"}

\* A start that has read "Connected" spawns while another thread is inside StopMonitor()
\* (which joins the same std::thread, then clears the flag of the new monitor), or after
\* the Reset() for a lost connection is over.
Overlap ==
    \/ \E u \in Firers : pc[u] \in {"join", "stopped?"}
    \/ client # "Connected" /\ \A u \in Firers : pc[u] \notin Resetting

StartLocks(t) ==
    /\ lifecycle = "free"
    /\ IF running
         THEN Goes(t, "start", "idle") /\ UNCHANGED lifecycle    \* notify_all() only
         ELSE Goes(t, "start", "spawn") /\ lifecycle' = t
    /\ UNCHANGED <<deviceVars, settingVars, stop, raced, decodeVars, captureVars, monVars,
                   running, commandVars, source, consumer, stream>>

StartSpawns(t) ==                    \* join() the last one, under the lock
    /\ Joined
    /\ Goes(t, "spawn", "idle")
    /\ lifecycle' = "free"
    /\ stop' = FALSE /\ running' = TRUE
    /\ mon' = "create"
    /\ terminated' = (terminated \/ mon \notin {"none", "ended"})
    /\ raced' = (raced \/ Overlap)
    /\ UNCHANGED <<deviceVars, settingVars, look, back, decodeVars, captureVars,
                   commandVars, source, consumer, stream>>

(***************************************************************************)
(* Reset() and the StopMonitor() it begins with.                           *)
(***************************************************************************)
StopAsks(t) ==
    /\ lifecycle = "free"
    /\ Goes(t, "stop", IF mon # "none" THEN "join" ELSE "stopped?")
    /\ stop' = TRUE
    /\ raced' = (raced \/ \E u \in Firers \ {t} : pc[u] = "join")
    /\ UNCHANGED <<deviceVars, settingVars, lifecycle, decodeVars, captureVars,
                   monVars, running, commandVars, source, consumer, stream>>

StopJoins(t) ==
    /\ mon \in {"none", "ended"}
    /\ Goes(t, "join", "stopped?")
    /\ mon' = "none"
    /\ UNCHANGED <<deviceVars, settingVars, lifecycle, stop, raced, look, back, decodeVars,
                   captureVars, running, commandVars, source, consumer, stream>>

Resets(t) ==
    /\ lifecycle = "free"
    /\ Goes(t, "stopped?", "idle")
    /\ running' = FALSE
    /\ available' = FALSE
    /\ UNCHANGED <<client, link, settingVars, threadVars, decodeVars, captureVars,
                   monVars, commandVars, source, consumer, stream>>

(***************************************************************************)
(* Requests: SetFromJson() and the global settings.                        *)
(***************************************************************************)
SetFromJson ==
    /\ events < MaxEvents
    /\ enabled' = ~enabled           \* the same value returns early
    /\ Goes("server", "idle", IF enabled' THEN "test" ELSE "idle")
    /\ events' = events + 1
    /\ UNCHANGED <<keep, deviceVars, threadVars, decodeVars, captureVars, monVars, running,
                   commandVars, source, consumer, stream>>

OnSettingUpdated ==
    /\ pc["server"] = "idle" /\ events < MaxEvents
    /\ keep' = ~keep
    /\ events' = events + 1
    /\ UNCHANGED <<enabled, deviceVars, threadVars, decodeVars, captureVars, monVars, pc,
                   running, commandVars, source, consumer, stream>>

(***************************************************************************)
(* What MonitorLoop() is made of.                                          *)
(***************************************************************************)
In(at) == ~raced /\ mon = at
At(from, to) == In(from) /\ mon' = to

\* Client::SendData() queues whether or not there is a connection.
SendData(command) == outgoing' = command /\ UNCHANGED headphones

StartMicrophoneStream ==
    /\ stream' = TRUE
    /\ IF stream THEN UNCHANGED commandVars
       ELSE SendData("on") /\ late' = FALSE

StopMicrophoneStream ==
    /\ stream' = FALSE
    /\ IF stream /\ client = "Connected"
         THEN SendData("off") /\ late' = FALSE
         ELSE UNCHANGED commandVars

\* StartCapture(): the decoder or the FIFO may not open.
StartCapture ==
    \/ /\ queue' = 0 /\ capture' = TRUE
       /\ decoder' = "test"
       /\ terminated' = (terminated \/ decoder # "none")
    \/ UNCHANGED <<queue, capture, decoder, terminated>>

\* StopCapture(): the flag, then the queue under its lock, then the join.
StopCaptureFlag(to) ==
    /\ mon' = "clear" /\ back' = to
    /\ capture' = FALSE

StopCaptureClearsQuietly ==
    /\ ~queueLock
    /\ At("clear", "joins")
    /\ queue' = 0
    /\ UNCHANGED <<deviceVars, settingVars, threadVars, decoder, queueLock, fifo,
                   captureVars, look, back, pc, running, commandVars, source, consumer,
                   stream>>

StopCaptureClears ==
    /\ ~queueLock
    /\ At("clear", "joins")
    /\ queue' = 0
    /\ decoder' = IF decoder = "asleep" THEN "test" ELSE decoder   \* notify_all()
    /\ UNCHANGED <<deviceVars, settingVars, threadVars, queueLock, fifo, captureVars, look,
                   back, pc, running, commandVars, source, consumer, stream>>

StopCaptureJoins ==
    /\ decoder \in {"none", "ended"}
    /\ At("joins", back)
    /\ back' = "none"
    /\ decoder' = "none"
    /\ UNCHANGED <<deviceVars, settingVars, threadVars, queue, queueLock, fifo, capture,
                   terminated, look, pc, running, commandVars, source, consumer,
                   stream>>

(***************************************************************************)
(* MonitorLoop() itself.                                                   *)
(***************************************************************************)
\* VirtualMicrophone's constructor unloads stale modules and loads its own.
MonitorCreates ==
    /\ In("create")
    /\ fifo' = 0
    /\ \/ mon' = "while" /\ source' = "loaded" /\ UNCHANGED running
       \/ mon' = "ended" /\ source' = "failed" /\ running' = FALSE
    /\ UNCHANGED <<deviceVars, settingVars, threadVars, decoder, queue, queueLock,
                   captureVars, look, back, pc, commandVars, consumer, stream>>

\* Whether an application records; the question may fail.
GetConsumer == {consumer, FALSE}

MonitorLooks ==
    /\ \/ /\ In("while")
          /\ mon' = IF stop THEN "exit" ELSE "state"
          /\ IF stop THEN UNCHANGED look
             ELSE \E recording \in GetConsumer :
                      look' = [look EXCEPT !.enabled = enabled, !.keep = keep,
                                           !.recording = recording]
       \/ /\ At("state", "capture")
          /\ look' = [look EXCEPT !.connected = (client = "Connected")]
    /\ UNCHANGED <<deviceVars, settingVars, threadVars, decodeVars, captureVars, back, pc,
                   running, commandVars, source, consumer, stream>>

ShouldCapture == look.enabled /\ look.connected /\ look.recording
ShouldStream(capturing) == look.enabled /\ look.connected /\ (look.keep \/ capturing)

\* _outputBroken: the decoder has given up, the capture has not been told.
Broken == decoder = "ended"

MonitorCaptures ==
    /\ \/ /\ In("capture") /\ ShouldCapture /\ ~capture
          /\ StartCapture /\ mon' = "stream" /\ UNCHANGED back
       \/ /\ In("capture") /\ capture /\ ~(ShouldCapture /\ ~Broken)
          /\ StopCaptureFlag(IF ShouldCapture THEN "again" ELSE "stream")
          /\ UNCHANGED <<queue, decoder, terminated>>
       \/ /\ At("capture", "stream")
          /\ IF capture THEN ShouldCapture /\ ~Broken ELSE ~ShouldCapture
          /\ UNCHANGED <<queue, capture, decoder, terminated, back>>
       \/ /\ At("again", "stream")
          /\ StartCapture /\ UNCHANGED back
    /\ UNCHANGED <<deviceVars, settingVars, threadVars, queueLock, fifo, look, pc, running,
                   commandVars, source, consumer, stream>>

MonitorStreams ==
    /\ At("stream", "stall?")
    /\ IF ShouldStream(capture) = stream THEN UNCHANGED <<stream, commandVars>>
       ELSE IF stream THEN StopMicrophoneStream ELSE StartMicrophoneStream
    /\ UNCHANGED <<deviceVars, settingVars, threadVars, decodeVars, captureVars, look, back,
                   pc, running, source, consumer>>

\* No audio for StallTimeout: the stream is stopped and started again.
MonitorStalls ==
    /\ In("stall?") /\ stream
    /\ IF capture THEN StopCaptureFlag("stalled")
       ELSE mon' = "stalled" /\ UNCHANGED <<back, capture>>
    /\ UNCHANGED <<deviceVars, settingVars, threadVars, decodeVars, terminated, look, pc,
                   running, commandVars, source, consumer, stream>>

MonitorRestarts ==
    /\ \/ /\ At("stalled", "restart")
          /\ StopMicrophoneStream
          /\ UNCHANGED <<queue, capture, decoder, terminated>>
       \/ /\ At("restart", "final")
          /\ IF ShouldCapture THEN StartCapture
             ELSE UNCHANGED <<queue, capture, decoder, terminated>>
          /\ IF ShouldStream(capture') THEN StartMicrophoneStream
             ELSE UNCHANGED <<stream, commandVars>>
    /\ UNCHANGED <<deviceVars, settingVars, threadVars, queueLock, fifo, look, back, pc,
                   running, source, consumer>>

MonitorFlows ==                      \* audio has come in time
    /\ At("stall?", "final")
    /\ UNCHANGED <<deviceVars, settingVars, threadVars, decodeVars, captureVars, look, back,
                   pc, running, commandVars, source, consumer, stream>>

LeavesOnLook == ~look.enabled /\ ~look.recording

\* The last decision is taken under the lock of StartMonitor(), on the setting as it is.
Leaves == ~look.enabled /\ ~look.recording /\ ~enabled

MonitorDecides ==
    /\ In("final")
    /\ (~look.enabled /\ ~look.recording) => lifecycle = "free"
    /\ mon' = IF Leaves THEN "exit" ELSE "while"      \* wait_for(MonitorInterval)
    /\ running' = (running /\ ~Leaves)
    /\ look' = Nothing
    /\ UNCHANGED <<deviceVars, settingVars, threadVars, decodeVars, captureVars, back,
                   pc, commandVars, source, consumer, stream>>

MonitorExits ==
    /\ In("exit")
    /\ IF capture THEN StopCaptureFlag("silence")
       ELSE mon' = "silence" /\ UNCHANGED <<back, capture>>
    /\ UNCHANGED <<deviceVars, settingVars, threadVars, decodeVars, terminated, look, pc,
                   running, commandVars, source, consumer, stream>>

MonitorEndsQuietly ==
    /\ At("silence", "ended")
    /\ source' = "none" /\ consumer' = FALSE /\ fifo' = 0
    /\ running' = FALSE
    /\ UNCHANGED <<deviceVars, settingVars, threadVars, decoder, queue, queueLock,
                   captureVars, look, back, pc, stream, commandVars>>

MonitorEnds ==
    /\ At("silence", "ended")
    /\ StopMicrophoneStream
    /\ source' = "none" /\ consumer' = FALSE /\ fifo' = 0
    /\ running' = FALSE
    /\ UNCHANGED <<deviceVars, settingVars, threadVars, decoder, queue, queueLock,
                   captureVars, look, back, pc>>

Monitor ==
    \/ MonitorCreates \/ MonitorLooks \/ MonitorCaptures \/ MonitorStreams
    \/ MonitorStalls \/ MonitorRestarts \/ MonitorFlows \/ MonitorDecides
    \/ MonitorExits \/ MonitorEnds
    \/ StopCaptureClears \/ StopCaptureJoins

(***************************************************************************)
(* Audio: the reader queues it, the decoder writes it, PulseAudio reads    *)
(* the FIFO while somebody records.                                        *)
(***************************************************************************)
ReaderQueues ==
    /\ ~raced /\ pc["reader"] = "idle" /\ ~queueLock
    /\ link /\ headphones /\ stream /\ capture
    /\ queue' = IF queue < AudioQueueCapacity THEN queue + 1 ELSE queue
    /\ decoder' = IF decoder = "asleep" THEN "test" ELSE decoder   \* notify_one()
    /\ UNCHANGED <<deviceVars, settingVars, threadVars, queueLock, fifo, captureVars,
                   monVars, pc, running, commandVars, source, consumer, stream>>

\* VirtualMicrophoneOutput::Write(): the FIFO is opened for reading too, so a full
\* one never fails, it blocks.
Write ==
    \/ fifo < FifoCapacity /\ fifo' = fifo + 1 /\ decoder' = "test"
    \/ fifo = FifoCapacity /\ decoder' = "write" /\ UNCHANGED fifo
    \/ decoder' = "ended" /\ UNCHANGED fifo

\* The predicate of the wait is tested, and the sleep begun, under the lock.
DecoderTests ==
    /\ ~raced /\ decoder = "test"
    /\ \/ ~capture /\ decoder' = "ended" /\ UNCHANGED <<queue, queueLock, fifo>>
       \/ capture /\ queue > 0 /\ queue' = queue - 1 /\ Write /\ UNCHANGED queueLock
       \/ capture /\ queue = 0 /\ decoder' = "tested" /\ queueLock' = TRUE
          /\ UNCHANGED <<queue, fifo>>
    /\ UNCHANGED <<deviceVars, settingVars, threadVars, captureVars, monVars, pc, running,
                   commandVars, source, consumer, stream>>

DecoderSleeps ==
    /\ ~raced /\ decoder = "tested"
    /\ decoder' = "asleep" /\ queueLock' = FALSE
    /\ UNCHANGED <<deviceVars, settingVars, threadVars, queue, fifo, captureVars, monVars,
                   pc, running, commandVars, source, consumer, stream>>

DecoderUnblocks ==
    /\ ~raced /\ decoder = "write" /\ fifo < FifoCapacity
    /\ fifo' = fifo + 1 /\ decoder' = "test"
    /\ UNCHANGED <<deviceVars, settingVars, threadVars, queue, queueLock, captureVars,
                   monVars, pc, running, commandVars, source, consumer, stream>>

Decoder == DecoderTests \/ DecoderSleeps \/ DecoderUnblocks

Drains ==                            \* module-pipe-source, with a listener
    /\ ~raced /\ consumer /\ fifo > 0
    /\ fifo' = fifo - 1
    /\ UNCHANGED <<deviceVars, settingVars, threadVars, decoder, queue, queueLock,
                   captureVars, monVars, pc, running, commandVars, source, consumer, stream>>

WriterSends ==                       \* Client's writer; the headphones do as they are told
    /\ ~raced /\ link /\ outgoing # "none"
    /\ headphones' = (outgoing = "on") /\ outgoing' = "none"
    /\ UNCHANGED <<deviceVars, settingVars, threadVars, decodeVars, captureVars, monVars, pc,
                   running, late, source, consumer, stream>>

Records ==                           \* an application starts or stops recording
    /\ ~raced /\ source = "loaded"
    /\ consumer' = ~consumer
    /\ UNCHANGED <<deviceVars, settingVars, threadVars, decodeVars, captureVars, monVars,
                   pc, running, commandVars, source, stream>>

Caller(t) ==
    \/ Fires(t) \/ StartTests(t) \/ StartLocks(t) \/ StartSpawns(t)
    \/ StopAsks(t) \/ StopJoins(t) \/ Resets(t)

Next ==
    \/ \E t \in Starters : Connects(t) \/ StoresConnected(t)
    \/ \E t \in Firers : GivesUp(t)
    \/ Drops \/ Disconnects \/ StoresReconnecting \/ ReceivesData
    \/ SetFromJson \/ OnSettingUpdated
    \/ \E t \in Callers : Caller(t)
    \/ Monitor \/ Decoder
    \/ WriterSends \/ ReaderQueues \/ Drains \/ Records

Spec == Init /\ [][Next]_vars

(***************************************************************************)
(* Properties                                                              *)
(***************************************************************************)
TypeOK ==
    /\ client \in {"Disconnected", "Reconnecting", "Connected"}
    /\ outgoing \in {"none", "on", "off"}
    /\ {link, headphones, late, enabled, keep, available, stop, running, consumer, stream,
        capture, queueLock, raced, terminated} \subseteq BOOLEAN
    /\ events \in 0..MaxEvents
    /\ lifecycle \in Callers \cup {"free"}
    /\ pc \in [Callers -> {"idle", "started", "lost",
                           "Connected", "Reconnecting", "Disconnected",
                           "test", "start", "spawn",
                           "stop", "join", "stopped?"}]
    /\ mon \in {"none", "create", "while", "state", "capture", "again", "clear", "joins",
                "stream", "stall?", "stalled", "restart", "final", "exit",
                "silence", "ended"}
    /\ look \in [{"enabled", "keep", "recording", "connected"} -> BOOLEAN]
    /\ back \in {"none", "stream", "again", "stalled", "silence"}
    /\ source \in {"none", "loaded", "failed"}
    /\ decoder \in {"none", "test", "tested", "asleep", "write", "ended"}
    /\ queue \in 0..AudioQueueCapacity /\ fifo \in 0..FifoCapacity

AtRest == \A t \in Callers : pc[t] = "idle"

\* When no caller is at work, a device on a live connection whose setting is on has a
\* monitor that is not about to stop, wherever the monitor was when the setting changed,
\* unless the virtual source could not be created: "keep the existing virtual source
\* instead of losing the wake". Excused (raced) are states that are stored or fired too
\* late, and a start that overlaps with a stop.
WakeNotLost ==
    AtRest /\ ~raced /\ enabled /\ link /\ client = "Connected" =>
        \/ source = "failed"
        \/ running /\ ~stop /\ mon \notin {"none", "exit", "silence", "ended"}

\* What the headphones do, or will do once they have had what is queued for them.
Told == IF outgoing = "none" THEN headphones ELSE outgoing = "on"

\* When no caller is at work and the device is not connected, nothing of the microphone
\* is left: no thread, no capture, no virtual source. On a live connection the headphones
\* send audio, or will, if and only if the monitor wants it: one that ends turns it off.
\* An "on" that is queued when its connection is gone is excused (late): it is sent on
\* the next one, and turned off by the next stream that ends.
MicrophoneOff ==
    AtRest /\ ~raced =>
        /\ client # "Connected" =>
               mon = "none" /\ ~running /\ ~capture /\ ~stream /\ source # "loaded"
        /\ link /\ client = "Connected" /\ ~late => Told = stream

\* StopMonitor() gets on, so the threads that call it do: the monitor it waits for can
\* take a step, or the decoder that one waits for, unless the FIFO is full. No thread is
\* assigned over while joinable (that would end the program), a capture has its decoder,
\* and the queue between the reader and the decoder keeps to its capacity.
ThreadsJoined ==
    /\ TypeOK
    /\ ~terminated /\ (capture /\ mon \notin {"clear", "joins"} => decoder # "none")
    /\ ~raced /\ (\E t \in Firers : pc[t] = "join") =>
           \/ Joined \/ ENABLED Monitor \/ ENABLED Decoder
           \/ decoder = "write" /\ fifo = FifoCapacity
=============================================================================
