------------------------------- MODULE Client -------------------------------
(***************************************************************************)
(* The Bluetooth client of src/src/client/Client.cpp with its outgoing     *)
(* BlockingQueue: Start(), Stop(), SendData() and the two threads that     *)
(* Start() creates for every connection.                                   *)
(*                                                                         *)
(* A step of the model is a maximal run of code that no other thread can   *)
(* observe in the middle: the mutexes _lifecycleMutex and _startStopMutex  *)
(* are explicit, the flag _isStarted is atomic and read without them, and  *)
(* joins, the queue and the socket calls are where a thread may block.     *)
(* StopLocked() runs only while _startStopMutex is held, so one variable   *)
(* (stopStep) is its program counter whichever thread runs it.             *)
(***************************************************************************)
EXTENDS Integers, Sequences, FiniteSets

CONSTANTS
    Callers,    \* threads that call Start() and Stop() (D-Bus, restart threads)
    Fds,        \* descriptors the process can be given
    OtherFds,   \* those of them the rest of the process may be given as well
    MaxGen,     \* bound: connections made in a behaviour
    MaxPuts,    \* bound: messages put on the outgoing queue
    StartMsgs   \* messages the start logic sends (_clientStartData)

ASSUME ClientAssumption ==
    /\ \A c \in Callers : c \notin Nat
    /\ \A d \in Fds : d \in Nat
    /\ OtherFds \subseteq Fds
    /\ MaxGen \in Nat \ {0}
    /\ MaxPuts \in Nat
    /\ StartMsgs \in Nat

VARIABLES
    isStarted,       \* _isStarted
    generation,      \* _connectionGeneration
    socket,          \* _socket, NoFd when -1
    lifecycleMutex,  \* holder of _lifecycleMutex, Free when unlocked
    startStopMutex,  \* holder of _startStopMutex: a caller or the number of
                     \*   the connection whose reading thread holds it
    queue,           \* _outcomeMessagesQueue, messages numbered as they are put
    isClosed,        \* BlockingQueue::_isClosed
    writingThread,   \* _writingThread: its connection, 0 when not joinable
    readingThread,   \* _readingThread: likewise
    cpc,             \* where each caller is in Start() or Stop()
    startLeft,       \* start messages the running start logic has left
    stopStep,        \* where StopLocked() is, "none" when nobody runs it
    wpc,             \* where each writing thread is
    inFlight,        \* message each writing thread has taken
    rpc,             \* where each reading thread is
    fdOf,            \* descriptor each pair of threads was started with
    holder,          \* kernel: connection that holds a descriptor, 0 if none
    foreign,         \* kernel: descriptors the rest of the process has open
    link,            \* "none", "up" or "dead" for every connection
    puts,            \* messages put so far
    died,            \* connections whose remote side went away
    stopped,         \* connections ended by Stop()
    lost             \* connections reported by _onConnectionLostEvent

callVars   == <<lifecycleMutex, cpc, startLeft>>
threadVars == <<writingThread, readingThread>>
queueVars  == <<queue, isClosed, puts>>
writeVars  == <<wpc, inFlight>>
kernelVars == <<holder, foreign, link, died>>
vars == <<isStarted, generation, socket, startStopMutex, stopStep, rpc, fdOf,
          stopped, lost, callVars, threadVars, queueVars, writeVars, kernelVars>>

Gens == 1..MaxGen
Free == 0
NoFd == -1

CallerPc == {"idle", "startEnter", "startCheck", "startJoin", "startLock",
             "connect", "spawnReader", "startLogic",
             "stopEnter", "stopLock", "stopping", "stopJoin"}
WriterPc == {"none", "check", "take", "send", "done"}
ReaderPc == {"none", "check", "recv", "deliver", "exit", "stopping",
             "report", "done"}
StopPc   == {"none", "shutdown", "closeQueue", "joinWriter", "closeSocket"}

\* Joining a thread object that is not joinable is skipped by the code.
WriterJoinable == writingThread # 0 => wpc[writingThread] = "done"
ReaderJoinable == readingThread # 0 => rpc[readingThread] = "done"

Init ==
    /\ isStarted = FALSE
    /\ generation = 0
    /\ socket = NoFd
    /\ lifecycleMutex = Free
    /\ startStopMutex = Free
    /\ queue = <<>>
    /\ isClosed = FALSE
    /\ writingThread = 0
    /\ readingThread = 0
    /\ cpc = [c \in Callers |-> "idle"]
    /\ startLeft = 0
    /\ stopStep = "none"
    /\ wpc = [g \in Gens |-> "none"]
    /\ inFlight = [g \in Gens |-> 0]
    /\ rpc = [g \in Gens |-> "none"]
    /\ fdOf = [g \in Gens |-> NoFd]
    /\ holder = [d \in Fds |-> 0]
    /\ foreign = {}
    /\ link = [g \in Gens |-> "none"]
    /\ puts = 0
    /\ died = {}
    /\ stopped = {}
    /\ lost = {}

-----------------------------------------------------------------------------
\* Client::Start, run by caller c.

CallStart(c) ==
    /\ cpc[c] = "idle"
    /\ cpc' = [cpc EXCEPT ![c] = "startEnter"]
    /\ UNCHANGED <<isStarted, generation, socket, startStopMutex, stopStep, rpc,
                   fdOf, stopped, lost, lifecycleMutex, startLeft, threadVars,
                   queueVars, writeVars, kernelVars>>

StartEnter(c) ==
    /\ cpc[c] = "startEnter"
    /\ lifecycleMutex = Free
    /\ lifecycleMutex' = c
    /\ cpc' = [cpc EXCEPT ![c] = "startCheck"]
    /\ UNCHANGED <<isStarted, generation, socket, startStopMutex, stopStep, rpc,
                   fdOf, stopped, lost, startLeft, threadVars, queueVars,
                   writeVars, kernelVars>>

\* A client that is already started is left alone.
StartCheck(c) ==
    /\ cpc[c] = "startCheck"
    /\ startStopMutex = Free
    /\ \/ /\ isStarted
          /\ lifecycleMutex' = Free
          /\ cpc' = [cpc EXCEPT ![c] = "idle"]
       \/ /\ ~isStarted
          /\ cpc' = [cpc EXCEPT ![c] = "startJoin"]
          /\ UNCHANGED lifecycleMutex
    /\ UNCHANGED <<isStarted, generation, socket, startStopMutex, stopStep, rpc,
                   fdOf, stopped, lost, startLeft, threadVars, queueVars,
                   writeVars, kernelVars>>

\* Fault: Start() replaces the thread object without joining the old reader.
StartWithoutJoin(c) ==
    /\ cpc[c] = "startJoin"
    /\ cpc' = [cpc EXCEPT ![c] = "startLock"]
    /\ UNCHANGED <<isStarted, generation, socket, startStopMutex, stopStep, rpc,
                   fdOf, stopped, lost, lifecycleMutex, startLeft, threadVars,
                   queueVars, writeVars, kernelVars>>

\* The previous reader is joined without _startStopMutex, which it may need.
StartJoin(c) ==
    /\ cpc[c] = "startJoin"
    /\ ReaderJoinable
    /\ readingThread' = 0
    /\ cpc' = [cpc EXCEPT ![c] = "startLock"]
    /\ UNCHANGED <<isStarted, generation, socket, startStopMutex, stopStep, rpc,
                   fdOf, stopped, lost, lifecycleMutex, startLeft,
                   writingThread, queueVars, writeVars, kernelVars>>

\* _isStarted is raised before the socket is connected, so IsStarted() already
\* answers true while the connection attempt is blocking.
StartLock(c) ==
    /\ cpc[c] = "startLock"
    /\ startStopMutex = Free
    /\ startStopMutex' = c
    /\ isStarted' = TRUE
    /\ cpc' = [cpc EXCEPT ![c] = "connect"]
    /\ UNCHANGED <<generation, socket, stopStep, rpc, fdOf, stopped, lost,
                   lifecycleMutex, startLeft, threadVars, queueVars, writeVars,
                   kernelVars>>

\* ConnectToSocket fails: no service, no socket, or connect() refused and the
\* descriptor closed again.
ConnectFails(c) ==
    /\ cpc[c] = "connect"
    /\ isStarted' = FALSE
    /\ startStopMutex' = Free
    /\ lifecycleMutex' = Free
    /\ cpc' = [cpc EXCEPT ![c] = "idle"]
    /\ UNCHANGED <<generation, socket, stopStep, rpc, fdOf, stopped, lost,
                   startLeft, threadVars, queueVars, writeVars, kernelVars>>

\* The socket is connected, the queue opened, the connection numbered and the
\* writing thread started on the descriptor of this connection.
ConnectSucceeds(c) ==
    /\ cpc[c] = "connect"
    /\ generation < MaxGen
    /\ LET g == generation + 1 IN
       /\ \E d \in {x \in Fds \ foreign : holder[x] = 0} :
            /\ socket' = d
            /\ holder' = [holder EXCEPT ![d] = g]
            /\ fdOf' = [fdOf EXCEPT ![g] = d]
       /\ generation' = g
       /\ link' = [link EXCEPT ![g] = "up"]
       /\ writingThread' = g
       /\ wpc' = [wpc EXCEPT ![g] = "check"]
    /\ isClosed' = FALSE
    /\ cpc' = [cpc EXCEPT ![c] = "spawnReader"]
    /\ UNCHANGED <<isStarted, startStopMutex, stopStep, rpc, stopped, lost,
                   lifecycleMutex, startLeft, readingThread, queue, puts,
                   inFlight, foreign, died>>

SpawnReader(c) ==
    /\ cpc[c] = "spawnReader"
    /\ readingThread' = generation
    /\ rpc' = [rpc EXCEPT ![generation] = "check"]
    /\ startLeft' = StartMsgs
    /\ cpc' = [cpc EXCEPT ![c] = "startLogic"]
    /\ UNCHANGED <<isStarted, generation, socket, startStopMutex, stopStep, fdOf,
                   stopped, lost, lifecycleMutex, writingThread, queueVars,
                   writeVars, kernelVars>>

\* justAfterStartLogic runs with both mutexes held.
StartLogicSend(c) ==
    /\ cpc[c] = "startLogic"
    /\ startLeft > 0
    /\ puts < MaxPuts
    /\ puts' = puts + 1
    /\ queue' = Append(queue, puts + 1)
    /\ startLeft' = startLeft - 1
    /\ UNCHANGED <<isStarted, generation, socket, startStopMutex, stopStep, rpc,
                   fdOf, stopped, lost, lifecycleMutex, cpc, threadVars,
                   isClosed, writeVars, kernelVars>>

\* All start data sent, or ShouldStopSendingStartData() cut it short.
StartLogicDone(c) ==
    /\ cpc[c] = "startLogic"
    /\ startLeft' = 0
    /\ startStopMutex' = Free
    /\ lifecycleMutex' = Free
    /\ cpc' = [cpc EXCEPT ![c] = "idle"]
    /\ UNCHANGED <<isStarted, generation, socket, stopStep, rpc, fdOf, stopped,
                   lost, threadVars, queueVars, writeVars, kernelVars>>

-----------------------------------------------------------------------------
\* Client::Stop, run by caller c.

CallStop(c) ==
    /\ cpc[c] = "idle"
    /\ cpc' = [cpc EXCEPT ![c] = "stopEnter"]
    /\ UNCHANGED <<isStarted, generation, socket, startStopMutex, stopStep, rpc,
                   fdOf, stopped, lost, lifecycleMutex, startLeft, threadVars,
                   queueVars, writeVars, kernelVars>>

StopEnter(c) ==
    /\ cpc[c] = "stopEnter"
    /\ lifecycleMutex = Free
    /\ lifecycleMutex' = c
    /\ cpc' = [cpc EXCEPT ![c] = "stopLock"]
    /\ UNCHANGED <<isStarted, generation, socket, startStopMutex, stopStep, rpc,
                   fdOf, stopped, lost, startLeft, threadVars, queueVars,
                   writeVars, kernelVars>>

\* StopLocked() does nothing when the client is not started.
StopLock(c) ==
    /\ cpc[c] = "stopLock"
    /\ startStopMutex = Free
    /\ \/ /\ isStarted
          /\ isStarted' = FALSE
          /\ startStopMutex' = c
          /\ stopStep' = "shutdown"
          /\ stopped' = stopped \cup {generation}
          /\ cpc' = [cpc EXCEPT ![c] = "stopping"]
       \/ /\ ~isStarted
          /\ cpc' = [cpc EXCEPT ![c] = "stopJoin"]
          /\ UNCHANGED <<isStarted, startStopMutex, stopStep, stopped>>
    /\ UNCHANGED <<generation, socket, rpc, fdOf, lost, lifecycleMutex,
                   startLeft, threadVars, queueVars, writeVars, kernelVars>>

StopJoin(c) ==
    /\ cpc[c] = "stopJoin"
    /\ ReaderJoinable
    /\ readingThread' = 0
    /\ lifecycleMutex' = Free
    /\ cpc' = [cpc EXCEPT ![c] = "idle"]
    /\ UNCHANGED <<isStarted, generation, socket, startStopMutex, stopStep, rpc,
                   fdOf, stopped, lost, startLeft, writingThread, queueVars,
                   writeVars, kernelVars>>

-----------------------------------------------------------------------------
\* Client::StopLocked and CloseSocket, run by whoever holds _startStopMutex.

\* Fault: nothing unblocks the threads of the connection.
SkipShutdown ==
    /\ stopStep = "shutdown"
    /\ stopStep' = "closeQueue"
    /\ UNCHANGED <<isStarted, generation, socket, startStopMutex, rpc, fdOf,
                   stopped, lost, callVars, threadVars, queueVars, writeVars,
                   kernelVars>>

Shutdown ==
    /\ stopStep = "shutdown"
    /\ link' = [link EXCEPT ![generation] = "dead"]
    /\ stopStep' = "closeQueue"
    /\ UNCHANGED <<isStarted, generation, socket, startStopMutex, rpc, fdOf,
                   stopped, lost, callVars, threadVars, queueVars, writeVars,
                   holder, foreign, died>>

\* Fault: the closed queue drops its values.
CloseAndClearQueue ==
    /\ stopStep = "closeQueue"
    /\ isClosed' = TRUE
    /\ queue' = <<>>
    /\ stopStep' = "joinWriter"
    /\ UNCHANGED <<isStarted, generation, socket, startStopMutex, rpc, fdOf,
                   stopped, lost, callVars, threadVars, puts, writeVars,
                   kernelVars>>

CloseQueue ==
    /\ stopStep = "closeQueue"
    /\ isClosed' = TRUE
    /\ stopStep' = "joinWriter"
    /\ UNCHANGED <<isStarted, generation, socket, startStopMutex, rpc, fdOf,
                   stopped, lost, callVars, threadVars, queue, puts, writeVars,
                   kernelVars>>

\* Fault: the writer is detached and may outlive its connection.
DetachWriter ==
    /\ stopStep = "joinWriter"
    /\ writingThread' = 0
    /\ stopStep' = "closeSocket"
    /\ UNCHANGED <<isStarted, generation, socket, startStopMutex, rpc, fdOf,
                   stopped, lost, callVars, readingThread, queueVars, writeVars,
                   kernelVars>>

JoinWriter ==
    /\ stopStep = "joinWriter"
    /\ WriterJoinable
    /\ writingThread' = 0
    /\ stopStep' = "closeSocket"
    /\ UNCHANGED <<isStarted, generation, socket, startStopMutex, rpc, fdOf,
                   stopped, lost, callVars, readingThread, queueVars, writeVars,
                   kernelVars>>

\* The last step gives the mutex back to Stop() or to the reading thread.
CloseSocket ==
    /\ stopStep = "closeSocket"
    /\ holder' = [holder EXCEPT ![socket] = 0]
    /\ socket' = NoFd
    /\ stopStep' = "none"
    /\ startStopMutex' = Free
    /\ \/ /\ startStopMutex \in Callers
          /\ cpc' = [cpc EXCEPT ![startStopMutex] = "stopJoin"]
          /\ UNCHANGED rpc
       \/ /\ startStopMutex \in Gens
          /\ rpc' = [rpc EXCEPT ![startStopMutex] = "report"]
          /\ UNCHANGED cpc
    /\ UNCHANGED <<isStarted, generation, fdOf, stopped, lost, lifecycleMutex,
                   startLeft, threadVars, queueVars, writeVars, foreign, link,
                   died>>

StopLocked == Shutdown \/ CloseQueue \/ JoinWriter \/ CloseSocket

-----------------------------------------------------------------------------
\* The writing thread of connection g.

WriterCheck(g) ==
    /\ wpc[g] = "check"
    /\ wpc' = [wpc EXCEPT ![g] = IF isStarted THEN "take" ELSE "done"]
    /\ UNCHANGED <<isStarted, generation, socket, startStopMutex, stopStep, rpc,
                   fdOf, stopped, lost, callVars, threadVars, queueVars,
                   inFlight, kernelVars>>

\* BlockingQueue::Take blocks until there is a value or the queue is closed; a
\* closed queue returns nothing and keeps its values.
WriterTake(g) ==
    /\ wpc[g] = "take"
    /\ \/ /\ isClosed
          /\ wpc' = [wpc EXCEPT ![g] = "done"]
          /\ UNCHANGED <<queue, inFlight>>
       \/ /\ ~isClosed
          /\ queue # <<>>
          /\ inFlight' = [inFlight EXCEPT ![g] = Head(queue)]
          /\ queue' = Tail(queue)
          /\ wpc' = [wpc EXCEPT ![g] = "send"]
    /\ UNCHANGED <<isStarted, generation, socket, startStopMutex, stopStep, rpc,
                   fdOf, stopped, lost, callVars, threadVars, isClosed, puts,
                   kernelVars>>

\* The result of send() is ignored: a message taken for a dead link is dropped.
WriterSend(g) ==
    /\ wpc[g] = "send"
    /\ wpc' = [wpc EXCEPT ![g] = "check"]
    /\ UNCHANGED <<isStarted, generation, socket, startStopMutex, stopStep, rpc,
                   fdOf, stopped, lost, callVars, threadVars, queueVars,
                   inFlight, kernelVars>>

-----------------------------------------------------------------------------
\* The reading thread of connection g.

ReaderCheck(g) ==
    /\ rpc[g] = "check"
    /\ rpc' = [rpc EXCEPT ![g] = IF isStarted /\ generation = g
                                 THEN "recv" ELSE "exit"]
    /\ UNCHANGED <<isStarted, generation, socket, startStopMutex, stopStep, fdOf,
                   stopped, lost, callVars, threadVars, queueVars, writeVars,
                   kernelVars>>

\* The descriptor recv() is called on still belongs to connection g.
OwnsFd(g) == fdOf[g] \in Fds /\ holder[fdOf[g]] = g

\* recv() returns bytes: from the peer, or from whoever has the descriptor now.
ReaderReceives(g) ==
    /\ rpc[g] = "recv"
    /\ \/ OwnsFd(g) /\ link[g] = "up"
       \/ fdOf[g] \in foreign
    /\ rpc' = [rpc EXCEPT ![g] = "deliver"]
    /\ UNCHANGED <<isStarted, generation, socket, startStopMutex, stopStep, fdOf,
                   stopped, lost, callVars, threadVars, queueVars, writeVars,
                   kernelVars>>

ReaderDelivers(g) ==
    /\ rpc[g] = "deliver"
    /\ rpc' = [rpc EXCEPT ![g] = "check"]
    /\ UNCHANGED <<isStarted, generation, socket, startStopMutex, stopStep, fdOf,
                   stopped, lost, callVars, threadVars, queueVars, writeVars,
                   kernelVars>>

\* recv() fails: the link is dead, or the descriptor is not ours any more.
ReaderFails(g) ==
    /\ rpc[g] = "recv"
    /\ ~(OwnsFd(g) /\ link[g] = "up")
    /\ rpc' = [rpc EXCEPT ![g] = "exit"]
    /\ UNCHANGED <<isStarted, generation, socket, startStopMutex, stopStep, fdOf,
                   stopped, lost, callVars, threadVars, queueVars, writeVars,
                   kernelVars>>

\* Fault: the result of StopLocked() is ignored, every end of a reader is a loss.
StopIgnoringResult(g) ==
    /\ rpc[g] = "exit"
    /\ startStopMutex = Free
    /\ \/ /\ generation = g
          /\ isStarted
          /\ isStarted' = FALSE
          /\ startStopMutex' = g
          /\ stopStep' = "shutdown"
          /\ rpc' = [rpc EXCEPT ![g] = "stopping"]
       \/ /\ ~(generation = g /\ isStarted)
          /\ rpc' = [rpc EXCEPT ![g] = "report"]
          /\ UNCHANGED <<isStarted, startStopMutex, stopStep>>
    /\ UNCHANGED <<generation, socket, fdOf, stopped, lost, callVars, threadVars,
                   queueVars, writeVars, kernelVars>>

\* Fault: the reader leaves a dead connection started.
LeaveStarted(g) ==
    /\ rpc[g] = "exit"
    /\ startStopMutex = Free
    /\ rpc' = [rpc EXCEPT ![g] = "done"]
    /\ UNCHANGED <<isStarted, generation, socket, startStopMutex, stopStep, fdOf,
                   stopped, lost, callVars, threadVars, queueVars, writeVars,
                   kernelVars>>

\* Only the reader of the connection still current and still started stops it.
StopIfCurrent(g) ==
    /\ rpc[g] = "exit"
    /\ startStopMutex = Free
    /\ \/ /\ generation = g
          /\ isStarted
          /\ isStarted' = FALSE
          /\ startStopMutex' = g
          /\ stopStep' = "shutdown"
          /\ rpc' = [rpc EXCEPT ![g] = "stopping"]
       \/ /\ ~(generation = g /\ isStarted)
          /\ rpc' = [rpc EXCEPT ![g] = "done"]
          /\ UNCHANGED <<isStarted, startStopMutex, stopStep>>
    /\ UNCHANGED <<generation, socket, fdOf, stopped, lost, callVars, threadVars,
                   queueVars, writeVars, kernelVars>>

ReaderReports(g) ==
    /\ rpc[g] = "report"
    /\ lost' = lost \cup {g}
    /\ rpc' = [rpc EXCEPT ![g] = "done"]
    /\ UNCHANGED <<isStarted, generation, socket, startStopMutex, stopStep, fdOf,
                   stopped, callVars, threadVars, queueVars, writeVars,
                   kernelVars>>

-----------------------------------------------------------------------------
\* The rest of the process and the remote side.

\* SendData() from a capability, whether or not the client is started.
SendData ==
    /\ puts < MaxPuts
    /\ puts' = puts + 1
    /\ queue' = Append(queue, puts + 1)
    /\ UNCHANGED <<isStarted, generation, socket, startStopMutex, stopStep, rpc,
                   fdOf, stopped, lost, callVars, threadVars, isClosed,
                   writeVars, kernelVars>>

PeerGone(g) ==
    /\ link[g] = "up"
    /\ link' = [link EXCEPT ![g] = "dead"]
    /\ died' = died \cup {g}
    /\ UNCHANGED <<isStarted, generation, socket, startStopMutex, stopStep, rpc,
                   fdOf, stopped, lost, callVars, threadVars, queueVars,
                   writeVars, holder, foreign>>

\* D-Bus, PulseAudio and files open and close descriptors of the same process.
OthersOpen(d) ==
    /\ d \in OtherFds \ foreign
    /\ holder[d] = 0
    /\ foreign' = foreign \cup {d}
    /\ UNCHANGED <<isStarted, generation, socket, startStopMutex, stopStep, rpc,
                   fdOf, stopped, lost, callVars, threadVars, queueVars,
                   writeVars, holder, link, died>>

OthersClose(d) ==
    /\ d \in foreign
    /\ foreign' = foreign \ {d}
    /\ UNCHANGED <<isStarted, generation, socket, startStopMutex, stopStep, rpc,
                   fdOf, stopped, lost, callVars, threadVars, queueVars,
                   writeVars, holder, link, died>>

-----------------------------------------------------------------------------
StartStep(c) ==
    \/ StartEnter(c) \/ StartCheck(c) \/ StartJoin(c) \/ StartLock(c)
    \/ ConnectFails(c) \/ ConnectSucceeds(c) \/ SpawnReader(c)
    \/ StartLogicSend(c) \/ StartLogicDone(c)

StopStep(c) == StopEnter(c) \/ StopLock(c) \/ StopJoin(c)

Writer(g) == WriterCheck(g) \/ WriterTake(g) \/ WriterSend(g)

Reader(g) ==
    \/ ReaderCheck(g) \/ ReaderReceives(g) \/ ReaderDelivers(g)
    \/ ReaderFails(g) \/ StopIfCurrent(g) \/ ReaderReports(g)

Environment ==
    \/ SendData
    \/ \E g \in Gens : PeerGone(g)
    \/ \E d \in Fds : OthersOpen(d) \/ OthersClose(d)

Next ==
    \/ \E c \in Callers : CallStart(c) \/ CallStop(c) \/ StartStep(c) \/ StopStep(c)
    \/ StopLocked
    \/ \E g \in Gens : Writer(g) \/ Reader(g)
    \/ Environment

Spec == Init /\ [][Next]_vars

-----------------------------------------------------------------------------
\* Fairness. Every thread that can run does, and a thread that waits for a
\* mutex gets it if it is free again and again. connect(), the data handlers
\* and justAfterStartLogic return. Nothing makes the remote side answer, data
\* arrive, anybody call Start() or Stop(), or recv() on a descriptor that meanwhile
\* belongs to somebody else return.

LockStep(c) ==
    StartEnter(c) \/ StartCheck(c) \/ StartLock(c) \/ StopEnter(c) \/ StopLock(c)

CallStep(c) ==
    \/ StartJoin(c) \/ ConnectFails(c) \/ SpawnReader(c) \/ StartLogicDone(c)
    \/ StopJoin(c)

DeadSend(g) == link[g] = "dead" /\ WriterSend(g)
OwnRecvFails(g) == fdOf[g] \notin foreign /\ ReaderFails(g)

WriterStep(g) == WriterCheck(g) \/ WriterTake(g) \/ DeadSend(g)
ReaderStep(g) ==
    ReaderCheck(g) \/ ReaderDelivers(g) \/ OwnRecvFails(g) \/ ReaderReports(g)

Fairness ==
    /\ \A c \in Callers : SF_vars(LockStep(c)) /\ WF_vars(CallStep(c))
    /\ WF_vars(StopLocked)
    /\ \A g \in Gens : WF_vars(WriterStep(g)) /\ WF_vars(ReaderStep(g))
    /\ \A g \in Gens : SF_vars(StopIfCurrent(g))

FairSpec == Spec /\ Fairness

-----------------------------------------------------------------------------
\* Properties.

Msgs == 0..MaxPuts

\* Every variable keeps its type (proved in ClientProofs).
TypeOK ==
    /\ isStarted \in BOOLEAN
    /\ generation \in 0..MaxGen
    /\ socket \in Fds \cup {NoFd}
    /\ lifecycleMutex \in Callers \cup {Free}
    /\ startStopMutex \in Callers \cup Gens \cup {Free}
    /\ queue \in Seq(Msgs)
    /\ isClosed \in BOOLEAN
    /\ writingThread \in Gens \cup {0}
    /\ readingThread \in Gens \cup {0}
    /\ cpc \in [Callers -> CallerPc]
    /\ startLeft \in 0..StartMsgs
    /\ stopStep \in StopPc
    /\ wpc \in [Gens -> WriterPc]
    /\ inFlight \in [Gens -> Msgs]
    /\ rpc \in [Gens -> ReaderPc]
    /\ fdOf \in [Gens -> Fds \cup {NoFd}]
    /\ holder \in [Fds -> Gens \cup {0}]
    /\ foreign \subseteq Fds
    /\ link \in [Gens -> {"none", "up", "dead"}]
    /\ puts \in Msgs
    /\ died \subseteq Gens
    /\ stopped \subseteq Gens
    /\ lost \subseteq Gens

\* No std::thread is assigned while it is joinable (that is std::terminate):
\* when Start() reaches the connection both thread objects are free, and so are
\* the threads of every earlier connection (Client.cpp:35, 58, 143).
ThreadObjectsFree ==
    \A c \in Callers :
        /\ cpc[c] \in {"startLock", "connect"} => readingThread = 0
        /\ cpc[c] = "connect" =>
             /\ writingThread = 0
             /\ \A g \in Gens : wpc[g] \in {"none", "done"}
             /\ \A g \in Gens : rpc[g] \in {"none", "done"}

\* A writer only ever sends on the descriptor of its own connection: it is gone
\* before the descriptor is closed (Client.cpp:138, 144).
WriterOwnsDescriptor == \A g \in Gens : wpc[g] = "send" => OwnsFd(g)

\* The same for the reader and recv(): what the comment at Client.cpp:138 says
\* of both threads ("neither thread can end up on a descriptor which was reused").
ReaderOwnsDescriptor ==
    \A g \in Gens : rpc[g] = "recv" => fdOf[g] \notin foreign

\* A message is only ever taken for the current connection and before its socket
\* is closed, never by a writer left behind (Client.cpp:58).
TakenForCurrent ==
    [][\A g \in Gens : inFlight'[g] # inFlight[g] =>
           g = generation /\ socket = fdOf[g]]_inFlight

\* No message disappears: whatever was put is queued or was taken by a writer,
\* also while the client is stopped (BlockingQueue.h:29, Client.cpp:51).
MessagesKept ==
    \A m \in 1..puts :
        \/ \E i \in 1..Len(queue) : queue[i] = m
        \/ \E g \in Gens : m <= inFlight[g]

\* The connection-lost event is fired for sockets that died on their own, never
\* for one that Stop() closes (Client.h:73).
LostOnlyOnDeath == lost \subseteq died /\ lost \cap stopped = {}

\* A reader in recv() on somebody else's descriptor waits for data that is not
\* for it.
Misled == \E g \in Gens : rpc[g] = "recv" /\ fdOf[g] \in foreign

\* Every call of Start() and Stop() returns, unless the reader it joins is
\* misled (Client.cpp:36, 121, 144).
CallsReturn == \A c \in Callers : cpc[c] # "idle" ~> cpc[c] = "idle" \/ Misled

\* A connection whose remote side is gone does not stay started: its loss is
\* reported, or somebody stopped it first (Client.cpp:102).
DeathAnswered ==
    \A g \in Gens : g \in died ~> g \in lost \cup stopped \/ Misled

-----------------------------------------------------------------------------
\* Refinement of ClientContract.

Starting == isStarted /\ \E c \in Callers : cpc[c] \in {"connect", "spawnReader"}

\* The contract makes the connection and its reader in one step, which is the
\* one that starts the reading thread here.
ReaderPending == \E c \in Callers : cpc[c] = "spawnReader"

phaseBar ==
    IF Starting THEN "starting" ELSE IF isStarted THEN "up" ELSE "down"

generationBar == IF ReaderPending THEN generation - 1 ELSE generation

readerBar ==
    IF generation = 0 \/ ReaderPending THEN "absent"
    ELSE IF rpc[generation] \in {"stopping", "report"} THEN "reporting"
    ELSE IF rpc[generation] \in {"none", "done"} THEN "absent"
    ELSE "listening"

Contract == INSTANCE ClientContract
    WITH phase <- phaseBar, reader <- readerBar, generation <- generationBar

\* The threaded client implements its contract.
ImplementsContract == Contract!ContractSpec
=============================================================================
