---------------------------- MODULE ClientProofs ----------------------------
(***************************************************************************)
(* Proofs that the safety properties of Client hold for any number of      *)
(* callers, descriptors, connections and messages. The properties are not  *)
(* inductive by themselves: that a writer owns its descriptor, for         *)
(* instance, rests on who holds which mutex and on when the socket is      *)
(* open. Every part of IInv is shown to be preserved by every step, one    *)
(* lemma per part.                                                         *)
(***************************************************************************)
EXTENDS Client, SequenceTheorems, TLAPS

\* Callers between the lock and the unlock of _lifecycleMutex, _startStopMutex.
InLifecycle == CallerPc \ {"idle", "startEnter", "stopEnter"}
InStartStop == {"connect", "spawnReader", "startLogic", "stopping"}

\* _lifecycleMutex is held by the caller inside Start() or Stop().
LifecycleHeld ==
    \A c \in Callers : cpc[c] \in InLifecycle <=> lifecycleMutex = c

\* _startStopMutex is held by the caller or the reader that changes the
\* connection, and StopLocked() runs on behalf of one of them.
MutexHeld ==
    /\ \A c \in Callers : cpc[c] \in InStartStop <=> startStopMutex = c
    /\ \A g \in Gens : rpc[g] = "stopping" <=> startStopMutex = g
    /\ stopStep # "none" <=>
         \/ \E g \in Gens : rpc[g] = "stopping"
         \/ \E c \in Callers : cpc[c] = "stopping"

\* What _isStarted is wherever the code relies on it.
StartedInv ==
    /\ \A c \in Callers :
         /\ cpc[c] \in {"startJoin", "startLock"} => ~isStarted
         /\ cpc[c] \in {"connect", "spawnReader", "startLogic"} => isStarted
    /\ stopStep # "none" => ~isStarted
    /\ \A g \in Gens : rpc[g] \in {"stopping", "report"} => ~isStarted

\* There is a connected socket, from ConnectSucceeds to CloseSocket.
Open ==
    \/ stopStep # "none"
    \/ isStarted /\ \A c \in Callers : cpc[c] # "connect"

\* The open socket belongs to the latest connection, and so does the writer.
SocketInv ==
    /\ Open =>
         /\ generation \in Gens
         /\ link[generation] # "none"
         /\ socket \in Fds
         /\ fdOf[generation] = socket
         /\ holder[socket] = generation
    /\ writingThread # 0 => Open /\ writingThread = generation
    /\ stopStep = "closeSocket" => writingThread = 0
    /\ \A g \in Gens : wpc[g] \notin {"none", "done"} => writingThread = g

\* A running reader is joinable and is the latest connection's; Start() has
\* joined it before it connects.
ReaderInv ==
    /\ \A g \in Gens : rpc[g] \notin {"none", "done"} => readingThread = g
    /\ readingThread # 0 => readingThread = generation
    /\ \A c \in Callers :
         cpc[c] \in {"startLock", "connect", "spawnReader"} => readingThread = 0

\* How connections end: by Stop() or on their own, and who knows about it.
FateInv ==
    /\ died \cup stopped \cup lost \subseteq 1..generation
    /\ \A g \in Gens :
         /\ link[g] # "none" => g <= generation
         /\ link[g] = "dead" => g \in died \cup stopped
         /\ rpc[g] \in {"stopping", "report"} => g \in died /\ g \notin stopped
         /\ rpc[g] = "exit" /\ isStarted => g \in died
    /\ Open /\ stopStep = "none" => generation \notin stopped \cup lost
    /\ \A c \in Callers : cpc[c] = "stopping" => generation \in stopped
    /\ LostOnlyOnDeath

IInv ==
    /\ TypeOK
    /\ LifecycleHeld
    /\ MutexHeld
    /\ StartedInv
    /\ SocketInv
    /\ ReaderInv
    /\ FateInv

\* Messages leave the queue in the order they were put: what is queued are the latest, and the
\* one before them is the last that was taken.
QueueInv ==
    /\ Len(queue) <= puts
    /\ \A i \in 1..Len(queue) : queue[i] = puts - Len(queue) + i
    /\ Len(queue) < puts => \E g \in Gens : inFlight[g] = puts - Len(queue)

\* A mutex is free, held by a caller or held by a reader, and these differ.
LEMMA HoldersDiffer ==
    /\ \A c \in Callers, g \in Gens : c # g
    /\ \A c \in Callers : c # Free
    /\ \A g \in Gens : g # Free
BY ClientAssumption DEF Gens, Free

\* The only reader that runs is the latest connection's.
LEMMA ActiveReader ==
    ASSUME ReaderInv, NEW g \in Gens, rpc[g] \notin {"none", "done"}
    PROVE  g = generation /\ readingThread = g
BY ClientAssumption DEF ReaderInv, Gens

\* Types are preserved. The generation is positive whenever Stop() finds the
\* client started.
LEMMA TypeStep == IInv /\ [Next]_vars => TypeOK'
<1> SUFFICES ASSUME IInv, [Next]_vars PROVE TypeOK'
  OBVIOUS
<1> USE ClientAssumption DEF IInv, TypeOK, Gens, Msgs, Free, NoFd, CallerPc,
        WriterPc, ReaderPc, StopPc, callVars, threadVars, queueVars,
        writeVars, kernelVars
<1>1. ASSUME NEW c \in Callers, CallStart(c) PROVE TypeOK'
  BY <1>1 DEF CallStart
<1>2. ASSUME NEW c \in Callers, StartEnter(c) PROVE TypeOK'
  BY <1>2 DEF StartEnter
<1>3. ASSUME NEW c \in Callers, StartCheck(c) PROVE TypeOK'
  BY <1>3 DEF StartCheck
<1>4. ASSUME NEW c \in Callers, StartJoin(c) PROVE TypeOK'
  BY <1>4 DEF StartJoin
<1>5. ASSUME NEW c \in Callers, StartLock(c) PROVE TypeOK'
  BY <1>5 DEF StartLock
<1>6. ASSUME NEW c \in Callers, ConnectFails(c) PROVE TypeOK'
  BY <1>6 DEF ConnectFails
<1>7. ASSUME NEW c \in Callers, ConnectSucceeds(c) PROVE TypeOK'
  <2>1. generation + 1 \in Gens
    BY <1>7 DEF IInv, ConnectSucceeds
  <2>2. PICK d \in Fds :
          /\ socket' = d
          /\ holder' = [holder EXCEPT ![d] = generation + 1]
          /\ fdOf' = [fdOf EXCEPT ![generation + 1] = d]
    BY <1>7 DEF ConnectSucceeds
  <2>3. /\ socket' \in Fds \cup {NoFd}
        /\ holder' \in [Fds -> Gens \cup {0}]
        /\ fdOf' \in [Gens -> Fds \cup {NoFd}]
    BY <2>1, <2>2 DEF IInv
  <2>4. /\ link' \in [Gens -> {"none", "up", "dead"}]
        /\ wpc' \in [Gens -> WriterPc]
        /\ generation' \in 0..MaxGen
        /\ writingThread' \in Gens \cup {0}
    BY <1>7, <2>1 DEF IInv, ConnectSucceeds
  <2>5. cpc' \in [Callers -> CallerPc]
    BY <1>7 DEF IInv, ConnectSucceeds
  <2>6. QED
    BY <1>7, <2>3, <2>4, <2>5 DEF IInv, ConnectSucceeds
<1>8. ASSUME NEW c \in Callers, SpawnReader(c) PROVE TypeOK'
  <2>1. generation \in 0..MaxGen /\ rpc \in [Gens -> ReaderPc]
    BY DEF IInv
  <2>2. rpc' \in [Gens -> ReaderPc]
    BY <1>8, <2>1 DEF SpawnReader
  <2>3. readingThread' \in Gens \cup {0} /\ startLeft' \in 0..StartMsgs
    BY <1>8, <2>1 DEF SpawnReader
  <2>4. cpc' \in [Callers -> CallerPc]
    BY <1>8 DEF IInv, SpawnReader
  <2>5. QED
    BY <1>8, <2>2, <2>3, <2>4 DEF IInv, SpawnReader
<1>9. ASSUME NEW c \in Callers, StartLogicSend(c) PROVE TypeOK'
  BY <1>9, SMTT(20), ZenonT(40) DEF StartLogicSend
<1>10. ASSUME NEW c \in Callers, StartLogicDone(c) PROVE TypeOK'
  BY <1>10 DEF StartLogicDone
<1>11. ASSUME NEW c \in Callers, CallStop(c) PROVE TypeOK'
  BY <1>11 DEF CallStop
<1>12. ASSUME NEW c \in Callers, StopEnter(c) PROVE TypeOK'
  BY <1>12 DEF StopEnter
<1>13. ASSUME NEW c \in Callers, StopLock(c) PROVE TypeOK'
  <2>1. isStarted => generation \in Gens
    BY <1>13 DEF IInv, StopLock, SocketInv, Open, MutexHeld, InStartStop
  <2>2. QED
    BY <1>13, <2>1, SMTT(10), ZenonT(40) DEF IInv, StopLock
<1>14. ASSUME NEW c \in Callers, StopJoin(c) PROVE TypeOK'
  BY <1>14 DEF StopJoin
<1>15. CASE Shutdown
  BY <1>15 DEF Shutdown
<1>16. CASE CloseQueue
  BY <1>16 DEF CloseQueue
<1>17. CASE JoinWriter
  BY <1>17 DEF JoinWriter
<1>18. CASE CloseSocket
  BY <1>18 DEF CloseSocket
<1>19. ASSUME NEW g \in Gens, WriterCheck(g) PROVE TypeOK'
  BY <1>19, SMTT(10), ZenonT(40) DEF WriterCheck
<1>20. ASSUME NEW g \in Gens, WriterTake(g) PROVE TypeOK'
  <2>1. CASE isClosed
    BY <1>20, <2>1, SMTT(20), ZenonT(40) DEF IInv, WriterTake
  <2>2. CASE ~isClosed
    <3>1. queue \in Seq(Msgs) /\ queue # <<>>
      BY <1>20, <2>2 DEF IInv, WriterTake
    <3>2. Head(queue) \in Msgs /\ Tail(queue) \in Seq(Msgs)
      BY <3>1
    <3>3. inFlight' = [inFlight EXCEPT ![g] = Head(queue)]
      BY <1>20, <2>2 DEF WriterTake
    <3>4. inFlight' \in [Gens -> Msgs]
      BY <3>2, <3>3
    <3>5. wpc' \in [Gens -> WriterPc]
      BY <1>20, <2>2 DEF WriterTake
    <3>6. QED
      BY <1>20, <2>2, <3>2, <3>4, <3>5, SMTT(10), ZenonT(40) DEF WriterTake
  <2>3. QED
    BY <2>1, <2>2
<1>21. ASSUME NEW g \in Gens, WriterSend(g) PROVE TypeOK'
  BY <1>21 DEF WriterSend
<1>22. ASSUME NEW g \in Gens, ReaderCheck(g) PROVE TypeOK'
  BY <1>22 DEF ReaderCheck
<1>23. ASSUME NEW g \in Gens, ReaderReceives(g) PROVE TypeOK'
  BY <1>23, SMTT(20), ZenonT(40) DEF ReaderReceives
<1>24. ASSUME NEW g \in Gens, ReaderDelivers(g) PROVE TypeOK'
  BY <1>24 DEF ReaderDelivers
<1>25. ASSUME NEW g \in Gens, ReaderFails(g) PROVE TypeOK'
  BY <1>25 DEF ReaderFails
<1>26. ASSUME NEW g \in Gens, StopIfCurrent(g) PROVE TypeOK'
  BY <1>26, SMTT(10), ZenonT(40) DEF StopIfCurrent
<1>27. ASSUME NEW g \in Gens, ReaderReports(g) PROVE TypeOK'
  BY <1>27 DEF ReaderReports
<1>28. CASE SendData
  BY <1>28 DEF SendData
<1>29. ASSUME NEW g \in Gens, PeerGone(g) PROVE TypeOK'
  BY <1>29, SMTT(20), ZenonT(40) DEF PeerGone
<1>30. ASSUME NEW d \in Fds, OthersOpen(d) PROVE TypeOK'
  BY <1>30 DEF OthersOpen
<1>31. ASSUME NEW d \in Fds, OthersClose(d) PROVE TypeOK'
  BY <1>31 DEF OthersClose
<1>32. CASE UNCHANGED vars
  BY <1>32 DEF vars
<1>33. QED
  BY <1>1, <1>2, <1>3, <1>4, <1>5, <1>6, <1>7, <1>8, <1>9, <1>10, <1>11,
     <1>12, <1>13, <1>14, <1>15, <1>16, <1>17, <1>18, <1>19, <1>20, <1>21,
     <1>22, <1>23, <1>24, <1>25, <1>26, <1>27, <1>28, <1>29, <1>30, <1>31,
     <1>32 DEF Next, StartStep, StopStep, StopLocked, Writer, Reader,
     Environment

\* The lifecycle mutex is taken and given back by its holder only.
LEMMA LifecycleStep == IInv /\ [Next]_vars => LifecycleHeld'
<1> SUFFICES ASSUME IInv, [Next]_vars PROVE LifecycleHeld'
  OBVIOUS
<1> USE ClientAssumption DEF IInv, TypeOK, LifecycleHeld, InLifecycle,
        CallerPc, Free, callVars, threadVars, queueVars, writeVars, kernelVars
<1>1. ASSUME NEW c \in Callers, CallStart(c) PROVE LifecycleHeld'
  BY <1>1 DEF CallStart
<1>2. ASSUME NEW c \in Callers, StartEnter(c) PROVE LifecycleHeld'
  BY <1>2 DEF StartEnter
<1>3. ASSUME NEW c \in Callers, StartCheck(c) PROVE LifecycleHeld'
  BY <1>3, SMTT(20), ZenonT(40) DEF StartCheck
<1>4. ASSUME NEW c \in Callers, StartJoin(c) PROVE LifecycleHeld'
  BY <1>4 DEF StartJoin
<1>5. ASSUME NEW c \in Callers, StartLock(c) PROVE LifecycleHeld'
  BY <1>5 DEF StartLock
<1>6. ASSUME NEW c \in Callers, ConnectFails(c) PROVE LifecycleHeld'
  BY <1>6 DEF ConnectFails
<1>7. ASSUME NEW c \in Callers, ConnectSucceeds(c) PROVE LifecycleHeld'
  BY <1>7 DEF ConnectSucceeds
<1>8. ASSUME NEW c \in Callers, SpawnReader(c) PROVE LifecycleHeld'
  BY <1>8 DEF SpawnReader
<1>9. ASSUME NEW c \in Callers, StartLogicSend(c) PROVE LifecycleHeld'
  BY <1>9 DEF StartLogicSend
<1>10. ASSUME NEW c \in Callers, StartLogicDone(c) PROVE LifecycleHeld'
  BY <1>10 DEF StartLogicDone
<1>11. ASSUME NEW c \in Callers, CallStop(c) PROVE LifecycleHeld'
  BY <1>11 DEF CallStop
<1>12. ASSUME NEW c \in Callers, StopEnter(c) PROVE LifecycleHeld'
  BY <1>12 DEF StopEnter
<1>13. ASSUME NEW c \in Callers, StopLock(c) PROVE LifecycleHeld'
  BY <1>13 DEF StopLock
<1>14. ASSUME NEW c \in Callers, StopJoin(c) PROVE LifecycleHeld'
  BY <1>14 DEF StopJoin
<1>15. CASE Shutdown
  BY <1>15 DEF Shutdown
<1>16. CASE CloseQueue
  BY <1>16 DEF CloseQueue
<1>17. CASE JoinWriter
  BY <1>17 DEF JoinWriter
<1>18. CASE CloseSocket
  BY <1>18 DEF CloseSocket, MutexHeld, InStartStop, Gens
<1>19. ASSUME NEW g \in Gens, WriterCheck(g) PROVE LifecycleHeld'
  BY <1>19 DEF WriterCheck
<1>20. ASSUME NEW g \in Gens, WriterTake(g) PROVE LifecycleHeld'
  BY <1>20 DEF WriterTake
<1>21. ASSUME NEW g \in Gens, WriterSend(g) PROVE LifecycleHeld'
  BY <1>21 DEF WriterSend
<1>22. ASSUME NEW g \in Gens, ReaderCheck(g) PROVE LifecycleHeld'
  BY <1>22 DEF ReaderCheck
<1>23. ASSUME NEW g \in Gens, ReaderReceives(g) PROVE LifecycleHeld'
  BY <1>23 DEF ReaderReceives
<1>24. ASSUME NEW g \in Gens, ReaderDelivers(g) PROVE LifecycleHeld'
  BY <1>24 DEF ReaderDelivers
<1>25. ASSUME NEW g \in Gens, ReaderFails(g) PROVE LifecycleHeld'
  BY <1>25 DEF ReaderFails
<1>26. ASSUME NEW g \in Gens, StopIfCurrent(g) PROVE LifecycleHeld'
  BY <1>26 DEF StopIfCurrent
<1>27. ASSUME NEW g \in Gens, ReaderReports(g) PROVE LifecycleHeld'
  BY <1>27 DEF ReaderReports
<1>28. CASE SendData
  BY <1>28 DEF SendData
<1>29. ASSUME NEW g \in Gens, PeerGone(g) PROVE LifecycleHeld'
  BY <1>29 DEF PeerGone
<1>30. ASSUME NEW d \in Fds, OthersOpen(d) PROVE LifecycleHeld'
  BY <1>30 DEF OthersOpen
<1>31. ASSUME NEW d \in Fds, OthersClose(d) PROVE LifecycleHeld'
  BY <1>31 DEF OthersClose
<1>32. CASE UNCHANGED vars
  BY <1>32 DEF vars
<1>33. QED
  BY <1>1, <1>2, <1>3, <1>4, <1>5, <1>6, <1>7, <1>8, <1>9, <1>10, <1>11,
     <1>12, <1>13, <1>14, <1>15, <1>16, <1>17, <1>18, <1>19, <1>20, <1>21,
     <1>22, <1>23, <1>24, <1>25, <1>26, <1>27, <1>28, <1>29, <1>30, <1>31,
     <1>32 DEF Next, StartStep, StopStep, StopLocked, Writer, Reader,
     Environment

\* An unlocked mutex is nobody's.
LEMMA FreeIsNoCaller == \A k \in Callers : Free # k
BY ClientAssumption DEF Free

\* The same for the state mutex, which a reader may hold as well.
LEMMA MutexStep == IInv /\ [Next]_vars => MutexHeld'
<1> SUFFICES ASSUME IInv, [Next]_vars PROVE MutexHeld'
  OBVIOUS
<1> USE ClientAssumption DEF IInv, TypeOK, MutexHeld, InStartStop, Gens, Free,
        callVars, threadVars, queueVars, writeVars, kernelVars
<1>1. ASSUME NEW c \in Callers, CallStart(c) PROVE MutexHeld'
  BY <1>1 DEF CallStart
<1>2. ASSUME NEW c \in Callers, StartEnter(c) PROVE MutexHeld'
  BY <1>2 DEF StartEnter
<1>3. ASSUME NEW c \in Callers, StartCheck(c) PROVE MutexHeld'
  BY <1>3 DEF StartCheck
<1>4. ASSUME NEW c \in Callers, StartJoin(c) PROVE MutexHeld'
  BY <1>4 DEF StartJoin
<1>5. ASSUME NEW c \in Callers, StartLock(c) PROVE MutexHeld'
  BY <1>5 DEF StartLock
<1>6. ASSUME NEW c \in Callers, ConnectFails(c) PROVE MutexHeld'
  <2>1. startStopMutex = c /\ \A k \in Callers \ {c} : cpc[k] \notin InStartStop
    BY <1>6 DEF ConnectFails
  <2>2. \A g \in Gens : rpc[g] # "stopping"
    BY <1>6, <2>1, HoldersDiffer
  <2>3. stopStep = "none"
    BY <1>6, <2>1, <2>2 DEF ConnectFails
  <2>4. \A k \in Callers : cpc'[k] \notin InStartStop
    BY <1>6, <2>1 DEF ConnectFails
  <2>5. QED
    BY <1>6, <2>2, <2>3, <2>4, FreeIsNoCaller DEF ConnectFails
<1>7. ASSUME NEW c \in Callers, ConnectSucceeds(c) PROVE MutexHeld'
  BY <1>7 DEF ConnectSucceeds
<1>8. ASSUME NEW c \in Callers, SpawnReader(c) PROVE MutexHeld'
  BY <1>8 DEF SpawnReader
<1>9. ASSUME NEW c \in Callers, StartLogicSend(c) PROVE MutexHeld'
  BY <1>9 DEF StartLogicSend
<1>10. ASSUME NEW c \in Callers, StartLogicDone(c) PROVE MutexHeld'
  <2>1. startStopMutex = c /\ \A k \in Callers \ {c} : cpc[k] \notin InStartStop
    BY <1>10 DEF StartLogicDone
  <2>2. \A g \in Gens : rpc[g] # "stopping"
    BY <1>10, <2>1, HoldersDiffer
  <2>3. stopStep = "none"
    BY <1>10, <2>1, <2>2 DEF StartLogicDone
  <2>4. \A k \in Callers : cpc'[k] \notin InStartStop
    BY <1>10, <2>1 DEF StartLogicDone
  <2>5. QED
    BY <1>10, <2>2, <2>3, <2>4, FreeIsNoCaller DEF StartLogicDone
<1>11. ASSUME NEW c \in Callers, CallStop(c) PROVE MutexHeld'
  BY <1>11 DEF CallStop
<1>12. ASSUME NEW c \in Callers, StopEnter(c) PROVE MutexHeld'
  BY <1>12 DEF StopEnter
<1>13. ASSUME NEW c \in Callers, StopLock(c) PROVE MutexHeld'
  BY <1>13 DEF StopLock
<1>14. ASSUME NEW c \in Callers, StopJoin(c) PROVE MutexHeld'
  BY <1>14 DEF StopJoin
<1>15. CASE Shutdown
  BY <1>15 DEF Shutdown
<1>16. CASE CloseQueue
  BY <1>16 DEF CloseQueue
<1>17. CASE JoinWriter
  BY <1>17 DEF JoinWriter
<1>18. CASE CloseSocket
  <2>1. CASE startStopMutex \in Callers
    <3>1. cpc[startStopMutex] = "stopping" /\ cpc' = [cpc EXCEPT ![startStopMutex] = "stopJoin"]
      BY <1>18, <2>1 DEF CloseSocket
    <3>2. \A k \in Callers \ {startStopMutex} : cpc[k] \notin InStartStop
      OBVIOUS
    <3>3. \A k \in Callers : cpc'[k] \notin InStartStop
      BY <3>1, <3>2
    <3>4. \A g \in Gens : rpc'[g] # "stopping"
      BY <1>18, <2>1 DEF CloseSocket
    <3>5. QED
      BY <1>18, <3>3, <3>4, HoldersDiffer DEF CloseSocket
  <2>2. CASE startStopMutex \in Gens
    <3>1. rpc[startStopMutex] = "stopping" /\ rpc' = [rpc EXCEPT ![startStopMutex] = "report"]
      BY <1>18, <2>2 DEF CloseSocket
    <3>2. \A g \in Gens : rpc'[g] # "stopping"
      BY <3>1
    <3>3. \A k \in Callers : cpc[k] \notin InStartStop /\ cpc' = cpc
      BY <1>18, <2>2 DEF CloseSocket
    <3>4. QED
      BY <1>18, <3>2, <3>3, HoldersDiffer DEF CloseSocket
  <2>3. QED
    BY <1>18, <2>1, <2>2 DEF CloseSocket
<1>19. ASSUME NEW g \in Gens, WriterCheck(g) PROVE MutexHeld'
  BY <1>19 DEF WriterCheck
<1>20. ASSUME NEW g \in Gens, WriterTake(g) PROVE MutexHeld'
  BY <1>20 DEF WriterTake
<1>21. ASSUME NEW g \in Gens, WriterSend(g) PROVE MutexHeld'
  BY <1>21 DEF WriterSend
<1>22. ASSUME NEW g \in Gens, ReaderCheck(g) PROVE MutexHeld'
  BY <1>22 DEF ReaderCheck
<1>23. ASSUME NEW g \in Gens, ReaderReceives(g) PROVE MutexHeld'
  BY <1>23 DEF ReaderReceives
<1>24. ASSUME NEW g \in Gens, ReaderDelivers(g) PROVE MutexHeld'
  BY <1>24 DEF ReaderDelivers
<1>25. ASSUME NEW g \in Gens, ReaderFails(g) PROVE MutexHeld'
  BY <1>25 DEF ReaderFails
<1>26. ASSUME NEW g \in Gens, StopIfCurrent(g) PROVE MutexHeld'
  BY <1>26 DEF StopIfCurrent
<1>27. ASSUME NEW g \in Gens, ReaderReports(g) PROVE MutexHeld'
  BY <1>27 DEF ReaderReports
<1>28. CASE SendData
  BY <1>28 DEF SendData
<1>29. ASSUME NEW g \in Gens, PeerGone(g) PROVE MutexHeld'
  BY <1>29 DEF PeerGone
<1>30. ASSUME NEW d \in Fds, OthersOpen(d) PROVE MutexHeld'
  BY <1>30 DEF OthersOpen
<1>31. ASSUME NEW d \in Fds, OthersClose(d) PROVE MutexHeld'
  BY <1>31 DEF OthersClose
<1>32. CASE UNCHANGED vars
  BY <1>32 DEF vars
<1>33. QED
  BY <1>1, <1>2, <1>3, <1>4, <1>5, <1>6, <1>7, <1>8, <1>9, <1>10, <1>11,
     <1>12, <1>13, <1>14, <1>15, <1>16, <1>17, <1>18, <1>19, <1>20, <1>21,
     <1>22, <1>23, <1>24, <1>25, <1>26, <1>27, <1>28, <1>29, <1>30, <1>31,
     <1>32 DEF Next, StartStep, StopStep, StopLocked, Writer, Reader,
     Environment

\* Only the holder of the state mutex changes _isStarted.
LEMMA StartedStep == IInv /\ [Next]_vars => StartedInv'
<1> SUFFICES ASSUME IInv, [Next]_vars PROVE StartedInv'
  OBVIOUS
<1> USE ClientAssumption DEF IInv, TypeOK, StartedInv, LifecycleHeld,
        InLifecycle, CallerPc, MutexHeld, InStartStop, ReaderInv, Gens, Free,
        callVars, threadVars, queueVars, writeVars, kernelVars
<1>1. ASSUME NEW c \in Callers, CallStart(c) PROVE StartedInv'
  BY <1>1 DEF CallStart
<1>2. ASSUME NEW c \in Callers, StartEnter(c) PROVE StartedInv'
  BY <1>2 DEF StartEnter
<1>3. ASSUME NEW c \in Callers, StartCheck(c) PROVE StartedInv'
  BY <1>3 DEF StartCheck
<1>4. ASSUME NEW c \in Callers, StartJoin(c) PROVE StartedInv'
  BY <1>4 DEF StartJoin
<1>5. ASSUME NEW c \in Callers, StartLock(c) PROVE StartedInv'
  <2>1. \A k \in Callers \ {c} : cpc[k] \notin InLifecycle
    BY <1>5 DEF StartLock
  <2>2. \A k \in Callers : cpc'[k] \notin {"startJoin", "startLock"}
    BY <1>5, <2>1, SMTT(20), ZenonT(40) DEF StartLock
  <2>3. \A g \in Gens : rpc[g] \in {"none", "done"}
    BY <1>5 DEF StartLock
  <2>4. stopStep = "none"
    BY <1>5, <2>3 DEF StartLock
  <2>5. QED
    BY <1>5, <2>2, <2>3, <2>4 DEF StartLock
<1>6. ASSUME NEW c \in Callers, ConnectFails(c) PROVE StartedInv'
  BY <1>6 DEF ConnectFails
<1>7. ASSUME NEW c \in Callers, ConnectSucceeds(c) PROVE StartedInv'
  BY <1>7 DEF ConnectSucceeds
<1>8. ASSUME NEW c \in Callers, SpawnReader(c) PROVE StartedInv'
  BY <1>8 DEF SpawnReader
<1>9. ASSUME NEW c \in Callers, StartLogicSend(c) PROVE StartedInv'
  BY <1>9 DEF StartLogicSend
<1>10. ASSUME NEW c \in Callers, StartLogicDone(c) PROVE StartedInv'
  BY <1>10 DEF StartLogicDone
<1>11. ASSUME NEW c \in Callers, CallStop(c) PROVE StartedInv'
  BY <1>11 DEF CallStop
<1>12. ASSUME NEW c \in Callers, StopEnter(c) PROVE StartedInv'
  BY <1>12 DEF StopEnter
<1>13. ASSUME NEW c \in Callers, StopLock(c) PROVE StartedInv'
  BY <1>13 DEF StopLock
<1>14. ASSUME NEW c \in Callers, StopJoin(c) PROVE StartedInv'
  BY <1>14 DEF StopJoin
<1>15. CASE Shutdown
  BY <1>15 DEF Shutdown
<1>16. CASE CloseQueue
  BY <1>16 DEF CloseQueue
<1>17. CASE JoinWriter
  BY <1>17 DEF JoinWriter
<1>18. CASE CloseSocket
  BY <1>18 DEF CloseSocket
<1>19. ASSUME NEW g \in Gens, WriterCheck(g) PROVE StartedInv'
  BY <1>19 DEF WriterCheck
<1>20. ASSUME NEW g \in Gens, WriterTake(g) PROVE StartedInv'
  BY <1>20 DEF WriterTake
<1>21. ASSUME NEW g \in Gens, WriterSend(g) PROVE StartedInv'
  BY <1>21 DEF WriterSend
<1>22. ASSUME NEW g \in Gens, ReaderCheck(g) PROVE StartedInv'
  BY <1>22 DEF ReaderCheck
<1>23. ASSUME NEW g \in Gens, ReaderReceives(g) PROVE StartedInv'
  BY <1>23 DEF ReaderReceives
<1>24. ASSUME NEW g \in Gens, ReaderDelivers(g) PROVE StartedInv'
  BY <1>24 DEF ReaderDelivers
<1>25. ASSUME NEW g \in Gens, ReaderFails(g) PROVE StartedInv'
  BY <1>25 DEF ReaderFails
<1>26. ASSUME NEW g \in Gens, StopIfCurrent(g) PROVE StartedInv'
  BY <1>26 DEF StopIfCurrent
<1>27. ASSUME NEW g \in Gens, ReaderReports(g) PROVE StartedInv'
  BY <1>27 DEF ReaderReports
<1>28. CASE SendData
  BY <1>28 DEF SendData
<1>29. ASSUME NEW g \in Gens, PeerGone(g) PROVE StartedInv'
  BY <1>29 DEF PeerGone
<1>30. ASSUME NEW d \in Fds, OthersOpen(d) PROVE StartedInv'
  BY <1>30 DEF OthersOpen
<1>31. ASSUME NEW d \in Fds, OthersClose(d) PROVE StartedInv'
  BY <1>31 DEF OthersClose
<1>32. CASE UNCHANGED vars
  BY <1>32 DEF vars
<1>33. QED
  BY <1>1, <1>2, <1>3, <1>4, <1>5, <1>6, <1>7, <1>8, <1>9, <1>10, <1>11,
     <1>12, <1>13, <1>14, <1>15, <1>16, <1>17, <1>18, <1>19, <1>20, <1>21,
     <1>22, <1>23, <1>24, <1>25, <1>26, <1>27, <1>28, <1>29, <1>30, <1>31,
     <1>32 DEF Next, StartStep, StopStep, StopLocked, Writer, Reader,
     Environment

\* The socket stays open for as long as the writer may use it.
LEMMA SocketStep == IInv /\ [Next]_vars => SocketInv'
<1> SUFFICES ASSUME IInv, [Next]_vars PROVE SocketInv'
  OBVIOUS
<1> USE ClientAssumption DEF IInv, TypeOK, SocketInv, Open, StartedInv,
        MutexHeld, InStartStop, Gens, Free, callVars, threadVars, queueVars,
        writeVars, kernelVars
<1>1. ASSUME NEW c \in Callers, CallStart(c) PROVE SocketInv'
  BY <1>1 DEF CallStart
<1>2. ASSUME NEW c \in Callers, StartEnter(c) PROVE SocketInv'
  BY <1>2 DEF StartEnter
<1>3. ASSUME NEW c \in Callers, StartCheck(c) PROVE SocketInv'
  BY <1>3 DEF StartCheck
<1>4. ASSUME NEW c \in Callers, StartJoin(c) PROVE SocketInv'
  BY <1>4 DEF StartJoin
<1>5. ASSUME NEW c \in Callers, StartLock(c) PROVE SocketInv'
  BY <1>5 DEF StartLock
<1>6. ASSUME NEW c \in Callers, ConnectFails(c) PROVE SocketInv'
  BY <1>6 DEF ConnectFails
<1>7. ASSUME NEW c \in Callers, ConnectSucceeds(c) PROVE SocketInv'
  BY <1>7 DEF ConnectSucceeds
<1>8. ASSUME NEW c \in Callers, SpawnReader(c) PROVE SocketInv'
  BY <1>8 DEF SpawnReader
<1>9. ASSUME NEW c \in Callers, StartLogicSend(c) PROVE SocketInv'
  BY <1>9 DEF StartLogicSend
<1>10. ASSUME NEW c \in Callers, StartLogicDone(c) PROVE SocketInv'
  BY <1>10 DEF StartLogicDone
<1>11. ASSUME NEW c \in Callers, CallStop(c) PROVE SocketInv'
  BY <1>11 DEF CallStop
<1>12. ASSUME NEW c \in Callers, StopEnter(c) PROVE SocketInv'
  BY <1>12 DEF StopEnter
<1>13. ASSUME NEW c \in Callers, StopLock(c) PROVE SocketInv'
  BY <1>13 DEF StopLock
<1>14. ASSUME NEW c \in Callers, StopJoin(c) PROVE SocketInv'
  BY <1>14 DEF StopJoin
<1>15. CASE Shutdown
  BY <1>15 DEF Shutdown
<1>16. CASE CloseQueue
  BY <1>16 DEF CloseQueue
<1>17. CASE JoinWriter
  BY <1>17 DEF JoinWriter, WriterJoinable
<1>18. CASE CloseSocket
  BY <1>18 DEF CloseSocket
<1>19. ASSUME NEW g \in Gens, WriterCheck(g) PROVE SocketInv'
  BY <1>19 DEF WriterCheck
<1>20. ASSUME NEW g \in Gens, WriterTake(g) PROVE SocketInv'
  BY <1>20 DEF WriterTake
<1>21. ASSUME NEW g \in Gens, WriterSend(g) PROVE SocketInv'
  BY <1>21 DEF WriterSend
<1>22. ASSUME NEW g \in Gens, ReaderCheck(g) PROVE SocketInv'
  BY <1>22 DEF ReaderCheck
<1>23. ASSUME NEW g \in Gens, ReaderReceives(g) PROVE SocketInv'
  BY <1>23 DEF ReaderReceives
<1>24. ASSUME NEW g \in Gens, ReaderDelivers(g) PROVE SocketInv'
  BY <1>24 DEF ReaderDelivers
<1>25. ASSUME NEW g \in Gens, ReaderFails(g) PROVE SocketInv'
  BY <1>25 DEF ReaderFails
<1>26. ASSUME NEW g \in Gens, StopIfCurrent(g) PROVE SocketInv'
  BY <1>26 DEF StopIfCurrent
<1>27. ASSUME NEW g \in Gens, ReaderReports(g) PROVE SocketInv'
  BY <1>27 DEF ReaderReports
<1>28. CASE SendData
  BY <1>28 DEF SendData
<1>29. ASSUME NEW g \in Gens, PeerGone(g) PROVE SocketInv'
  BY <1>29 DEF PeerGone
<1>30. ASSUME NEW d \in Fds, OthersOpen(d) PROVE SocketInv'
  BY <1>30 DEF OthersOpen
<1>31. ASSUME NEW d \in Fds, OthersClose(d) PROVE SocketInv'
  BY <1>31 DEF OthersClose
<1>32. CASE UNCHANGED vars
  BY <1>32 DEF vars
<1>33. QED
  BY <1>1, <1>2, <1>3, <1>4, <1>5, <1>6, <1>7, <1>8, <1>9, <1>10, <1>11,
     <1>12, <1>13, <1>14, <1>15, <1>16, <1>17, <1>18, <1>19, <1>20, <1>21,
     <1>22, <1>23, <1>24, <1>25, <1>26, <1>27, <1>28, <1>29, <1>30, <1>31,
     <1>32 DEF Next, StartStep, StopStep, StopLocked, Writer, Reader,
     Environment

\* No second reader: the previous one is joined first.
LEMMA ReaderStepInv == IInv /\ [Next]_vars => ReaderInv'
<1> SUFFICES ASSUME IInv, [Next]_vars PROVE ReaderInv'
  OBVIOUS
<1> USE ClientAssumption DEF IInv, TypeOK, ReaderInv, LifecycleHeld,
        InLifecycle, CallerPc, MutexHeld, InStartStop, Gens, Free, callVars,
        threadVars, queueVars, writeVars, kernelVars
<1>1. ASSUME NEW c \in Callers, CallStart(c) PROVE ReaderInv'
  BY <1>1 DEF CallStart
<1>2. ASSUME NEW c \in Callers, StartEnter(c) PROVE ReaderInv'
  BY <1>2 DEF StartEnter
<1>3. ASSUME NEW c \in Callers, StartCheck(c) PROVE ReaderInv'
  BY <1>3 DEF StartCheck
<1>4. ASSUME NEW c \in Callers, StartJoin(c) PROVE ReaderInv'
  BY <1>4 DEF StartJoin, ReaderJoinable
<1>5. ASSUME NEW c \in Callers, StartLock(c) PROVE ReaderInv'
  BY <1>5 DEF StartLock
<1>6. ASSUME NEW c \in Callers, ConnectFails(c) PROVE ReaderInv'
  BY <1>6 DEF ConnectFails
<1>7. ASSUME NEW c \in Callers, ConnectSucceeds(c) PROVE ReaderInv'
  BY <1>7 DEF ConnectSucceeds
<1>8. ASSUME NEW c \in Callers, SpawnReader(c) PROVE ReaderInv'
  <2>1. generation \in Gens
    BY <1>8 DEF SpawnReader, SocketInv, Open, StartedInv
  <2>2. readingThread = 0 /\ \A k \in Callers \ {c} : cpc[k] \notin InLifecycle
    BY <1>8 DEF SpawnReader
  <2>3. \A h \in Gens : rpc'[h] \notin {"none", "done"} => h = generation
    BY <1>8, <2>1, <2>2 DEF SpawnReader
  <2>4. \A k \in Callers :
          cpc'[k] \notin {"startLock", "connect", "spawnReader"}
    <3>1. cpc' = [cpc EXCEPT ![c] = "startLogic"] /\ cpc \in [Callers -> CallerPc]
      BY <1>8, Zenon DEF SpawnReader
    <3>2. \A k \in Callers : cpc'[k] = IF k = c THEN "startLogic" ELSE cpc[k]
      BY <3>1, Zenon
    <3>3. {"startLock", "connect", "spawnReader"} \subseteq InLifecycle
      OBVIOUS
    <3> QED
      BY <2>2, <3>2, <3>3, Zenon
  <2>5. readingThread' = generation /\ generation' = generation
    BY <1>8 DEF SpawnReader
  <2>6. QED
    BY <2>3, <2>4, <2>5
<1>9. ASSUME NEW c \in Callers, StartLogicSend(c) PROVE ReaderInv'
  BY <1>9 DEF StartLogicSend
<1>10. ASSUME NEW c \in Callers, StartLogicDone(c) PROVE ReaderInv'
  BY <1>10 DEF StartLogicDone
<1>11. ASSUME NEW c \in Callers, CallStop(c) PROVE ReaderInv'
  BY <1>11 DEF CallStop
<1>12. ASSUME NEW c \in Callers, StopEnter(c) PROVE ReaderInv'
  BY <1>12 DEF StopEnter
<1>13. ASSUME NEW c \in Callers, StopLock(c) PROVE ReaderInv'
  BY <1>13 DEF StopLock
<1>14. ASSUME NEW c \in Callers, StopJoin(c) PROVE ReaderInv'
  BY <1>14 DEF StopJoin, ReaderJoinable
<1>15. CASE Shutdown
  BY <1>15 DEF Shutdown
<1>16. CASE CloseQueue
  BY <1>16 DEF CloseQueue
<1>17. CASE JoinWriter
  BY <1>17 DEF JoinWriter
<1>18. CASE CloseSocket
  <2>1. CASE startStopMutex \in Callers
    BY <1>18, <2>1 DEF CloseSocket
  <2>2. CASE startStopMutex \in Gens
    <3>1. rpc[startStopMutex] = "stopping" /\ readingThread = startStopMutex
      BY <2>2
    <3>2. \A h \in Gens : rpc'[h] \notin {"none", "done"} => readingThread = h
      BY <1>18, <2>2, <3>1 DEF CloseSocket
    <3>3. cpc' = cpc
      BY <1>18, <2>2 DEF CloseSocket
    <3>4. QED
      BY <1>18, <3>2, <3>3, HoldersDiffer DEF CloseSocket
  <2>3. QED
    BY <1>18, <2>1, <2>2 DEF CloseSocket
<1>19. ASSUME NEW g \in Gens, WriterCheck(g) PROVE ReaderInv'
  BY <1>19 DEF WriterCheck
<1>20. ASSUME NEW g \in Gens, WriterTake(g) PROVE ReaderInv'
  BY <1>20 DEF WriterTake
<1>21. ASSUME NEW g \in Gens, WriterSend(g) PROVE ReaderInv'
  BY <1>21 DEF WriterSend
<1>22. ASSUME NEW g \in Gens, ReaderCheck(g) PROVE ReaderInv'
  BY <1>22 DEF ReaderCheck
<1>23. ASSUME NEW g \in Gens, ReaderReceives(g) PROVE ReaderInv'
  BY <1>23 DEF ReaderReceives
<1>24. ASSUME NEW g \in Gens, ReaderDelivers(g) PROVE ReaderInv'
  BY <1>24 DEF ReaderDelivers
<1>25. ASSUME NEW g \in Gens, ReaderFails(g) PROVE ReaderInv'
  BY <1>25 DEF ReaderFails
<1>26. ASSUME NEW g \in Gens, StopIfCurrent(g) PROVE ReaderInv'
  BY <1>26 DEF StopIfCurrent
<1>27. ASSUME NEW g \in Gens, ReaderReports(g) PROVE ReaderInv'
  BY <1>27 DEF ReaderReports
<1>28. CASE SendData
  BY <1>28 DEF SendData
<1>29. ASSUME NEW g \in Gens, PeerGone(g) PROVE ReaderInv'
  BY <1>29 DEF PeerGone
<1>30. ASSUME NEW d \in Fds, OthersOpen(d) PROVE ReaderInv'
  BY <1>30 DEF OthersOpen
<1>31. ASSUME NEW d \in Fds, OthersClose(d) PROVE ReaderInv'
  BY <1>31 DEF OthersClose
<1>32. CASE UNCHANGED vars
  BY <1>32 DEF vars
<1>33. QED
  BY <1>1, <1>2, <1>3, <1>4, <1>5, <1>6, <1>7, <1>8, <1>9, <1>10, <1>11,
     <1>12, <1>13, <1>14, <1>15, <1>16, <1>17, <1>18, <1>19, <1>20, <1>21,
     <1>22, <1>23, <1>24, <1>25, <1>26, <1>27, <1>28, <1>29, <1>30, <1>31,
     <1>32 DEF Next, StartStep, StopStep, StopLocked, Writer, Reader,
     Environment

\* A connection ends by Stop() or on its own, and only the latter is reported.
LEMMA FateStep == IInv /\ [Next]_vars => FateInv'
<1> SUFFICES ASSUME IInv, [Next]_vars PROVE FateInv'
  OBVIOUS
<1> USE ClientAssumption DEF IInv, TypeOK, FateInv, LostOnlyOnDeath, Open,
        OwnsFd, SocketInv, StartedInv, ReaderInv, MutexHeld, InStartStop,
        Gens, Free, callVars, threadVars, queueVars, writeVars, kernelVars
<1>1. ASSUME NEW c \in Callers, CallStart(c) PROVE FateInv'
  BY <1>1 DEF CallStart
<1>2. ASSUME NEW c \in Callers, StartEnter(c) PROVE FateInv'
  BY <1>2 DEF StartEnter
<1>3. ASSUME NEW c \in Callers, StartCheck(c) PROVE FateInv'
  BY <1>3 DEF StartCheck
<1>4. ASSUME NEW c \in Callers, StartJoin(c) PROVE FateInv'
  BY <1>4 DEF StartJoin
<1>5. ASSUME NEW c \in Callers, StartLock(c) PROVE FateInv'
  <2>1. \A g \in Gens : rpc[g] \in {"none", "done"}
    BY <1>5 DEF StartLock
  <2>2. ~Open'
    BY <1>5 DEF StartLock
  <2>3. \A k \in Callers : cpc'[k] = "stopping" => cpc[k] = "stopping"
    BY <1>5 DEF StartLock
  <2>4. QED
    BY <1>5, <2>1, <2>2, <2>3 DEF StartLock
<1>6. ASSUME NEW c \in Callers, ConnectFails(c) PROVE FateInv'
  BY <1>6 DEF ConnectFails
<1>7. ASSUME NEW c \in Callers, ConnectSucceeds(c) PROVE FateInv'
  BY <1>7 DEF ConnectSucceeds
<1>8. ASSUME NEW c \in Callers, SpawnReader(c) PROVE FateInv'
  BY <1>8 DEF SpawnReader
<1>9. ASSUME NEW c \in Callers, StartLogicSend(c) PROVE FateInv'
  BY <1>9 DEF StartLogicSend
<1>10. ASSUME NEW c \in Callers, StartLogicDone(c) PROVE FateInv'
  BY <1>10 DEF StartLogicDone
<1>11. ASSUME NEW c \in Callers, CallStop(c) PROVE FateInv'
  BY <1>11 DEF CallStop
<1>12. ASSUME NEW c \in Callers, StopEnter(c) PROVE FateInv'
  BY <1>12 DEF StopEnter
<1>13. ASSUME NEW c \in Callers, StopLock(c) PROVE FateInv'
  <2>1. CASE ~isStarted
    <3>1. UNCHANGED <<isStarted, stopStep, generation, rpc, link, died, stopped, lost>>
      BY <1>13, <2>1 DEF StopLock
    <3>2. ~Open' /\ \A k \in Callers : cpc'[k] = "stopping" => cpc[k] = "stopping"
      BY <1>13, <2>1 DEF StopLock
    <3>3. QED
      BY <3>1, <3>2
  <2>2. CASE isStarted
    <3>1. stopStep = "none" /\ Open /\ generation \in Gens
      BY <1>13, <2>2 DEF StopLock
    <3>2. generation \notin lost
      BY <3>1
    <3>3. \A g \in Gens : rpc[g] \notin {"stopping", "report"}
      BY <2>2
    <3>4. /\ stopped' = stopped \cup {generation}
          /\ stopStep' = "shutdown"
          /\ isStarted' = FALSE
          /\ UNCHANGED <<generation, rpc, link, died, lost>>
      BY <1>13, <2>2 DEF StopLock
    <3>5. QED
      BY <3>1, <3>2, <3>3, <3>4
  <2>3. QED
    BY <2>1, <2>2
<1>14. ASSUME NEW c \in Callers, StopJoin(c) PROVE FateInv'
  BY <1>14 DEF StopJoin
<1>15. CASE Shutdown
  BY <1>15 DEF Shutdown
<1>16. CASE CloseQueue
  BY <1>16 DEF CloseQueue
<1>17. CASE JoinWriter
  BY <1>17 DEF JoinWriter
<1>18. CASE CloseSocket
  BY <1>18 DEF CloseSocket
<1>19. ASSUME NEW g \in Gens, WriterCheck(g) PROVE FateInv'
  BY <1>19 DEF WriterCheck
<1>20. ASSUME NEW g \in Gens, WriterTake(g) PROVE FateInv'
  BY <1>20 DEF WriterTake
<1>21. ASSUME NEW g \in Gens, WriterSend(g) PROVE FateInv'
  BY <1>21 DEF WriterSend
<1>22. ASSUME NEW g \in Gens, ReaderCheck(g) PROVE FateInv'
  <2>1. g = generation
    BY <1>22, ActiveReader DEF ReaderCheck
  <2>2. \A h \in Gens : rpc'[h] = "exit" /\ isStarted => rpc[h] = "exit"
    BY <1>22, <2>1 DEF ReaderCheck
  <2>3. \A h \in Gens : rpc'[h] \in {"stopping", "report"} => rpc[h] = rpc'[h]
    BY <1>22 DEF ReaderCheck
  <2>4. QED
    BY <1>22, <2>2, <2>3 DEF ReaderCheck
<1>23. ASSUME NEW g \in Gens, ReaderReceives(g) PROVE FateInv'
  BY <1>23 DEF ReaderReceives
<1>24. ASSUME NEW g \in Gens, ReaderDelivers(g) PROVE FateInv'
  BY <1>24 DEF ReaderDelivers
<1>25. ASSUME NEW g \in Gens, ReaderFails(g) PROVE FateInv'
  <2>1. g = generation /\ \A c \in Callers : cpc[c] # "connect"
    BY <1>25 DEF ReaderFails
  <2>2. isStarted => g \in died
    <3>1. SUFFICES ASSUME isStarted PROVE g \in died
      OBVIOUS
    <3>2. Open /\ stopStep = "none"
      BY <2>1, <3>1
    <3>3. OwnsFd(g) /\ link[g] # "none"
      BY <2>1, <3>2
    <3>4. link[g] = "dead"
      BY <1>25, <3>3 DEF ReaderFails
    <3>5. QED
      BY <2>1, <3>2, <3>4
  <2>3. \A h \in Gens : rpc'[h] = "exit" /\ isStarted => h \in died
    BY <1>25, <2>2 DEF ReaderFails
  <2>4. \A h \in Gens : rpc'[h] \in {"stopping", "report"} => rpc[h] = rpc'[h]
    BY <1>25 DEF ReaderFails
  <2>5. QED
    BY <1>25, <2>3, <2>4 DEF ReaderFails
<1>26. ASSUME NEW g \in Gens, StopIfCurrent(g) PROVE FateInv'
  BY <1>26 DEF StopIfCurrent
<1>27. ASSUME NEW g \in Gens, ReaderReports(g) PROVE FateInv'
  BY <1>27 DEF ReaderReports
<1>28. CASE SendData
  BY <1>28 DEF SendData
<1>29. ASSUME NEW g \in Gens, PeerGone(g) PROVE FateInv'
  BY <1>29 DEF PeerGone
<1>30. ASSUME NEW d \in Fds, OthersOpen(d) PROVE FateInv'
  BY <1>30 DEF OthersOpen
<1>31. ASSUME NEW d \in Fds, OthersClose(d) PROVE FateInv'
  BY <1>31 DEF OthersClose
<1>32. CASE UNCHANGED vars
  BY <1>32 DEF vars
<1>33. QED
  BY <1>1, <1>2, <1>3, <1>4, <1>5, <1>6, <1>7, <1>8, <1>9, <1>10, <1>11,
     <1>12, <1>13, <1>14, <1>15, <1>16, <1>17, <1>18, <1>19, <1>20, <1>21,
     <1>22, <1>23, <1>24, <1>25, <1>26, <1>27, <1>28, <1>29, <1>30, <1>31,
     <1>32 DEF Next, StartStep, StopStep, StopLocked, Writer, Reader,
     Environment


-----------------------------------------------------------------------------
\* The invariant holds when nothing has been called yet.
LEMMA InitInv == Init => IInv
<1> SUFFICES ASSUME Init PROVE IInv
  OBVIOUS
<1> USE ClientAssumption
<1>1. TypeOK
  <2>1. /\ queue \in Seq(Msgs)
        /\ 0 \in Msgs /\ startLeft \in 0..StartMsgs /\ generation \in 0..MaxGen
    BY DEF Init, Msgs
  <2>2. QED
    BY <2>1 DEF Init, TypeOK, Free, NoFd, CallerPc, WriterPc, ReaderPc, StopPc
<1>2. LifecycleHeld /\ MutexHeld
  BY HoldersDiffer
     DEF Init, LifecycleHeld, MutexHeld, InLifecycle, InStartStop, CallerPc
<1>3. StartedInv /\ ReaderInv
  BY DEF Init, StartedInv, ReaderInv
<1>4. SocketInv /\ FateInv
  BY DEF Init, SocketInv, FateInv, LostOnlyOnDeath, Open
<1>5. QED
  BY <1>1, <1>2, <1>3, <1>4 DEF IInv

\* Every step of the client preserves the inductive invariant.
THEOREM Invariance == Spec => []IInv
<1>1. IInv /\ [Next]_vars => IInv'
  BY TypeStep, LifecycleStep, MutexStep, StartedStep, SocketStep, ReaderStepInv,
     FateStep DEF IInv
<1>2. QED
  BY InitInv, <1>1, PTL DEF Spec

\* Every variable of the client keeps its type.
THEOREM TypeCorrect == Spec => []TypeOK
<1>1. IInv => TypeOK
  BY DEF IInv
<1>2. QED
  BY Invariance, <1>1, PTL

\* Start() never assigns a std::thread that is joinable, and finds every earlier
\* thread finished when it connects (Client.cpp:35, 58).
THEOREM ThreadsJoined == Spec => []ThreadObjectsFree
<1>1. IInv => ThreadObjectsFree
  <2> SUFFICES ASSUME IInv, NEW c \in Callers
               PROVE  /\ cpc[c] \in {"startLock", "connect"} => readingThread = 0
                      /\ cpc[c] = "connect" =>
                           /\ writingThread = 0
                           /\ \A g \in Gens : wpc[g] \in {"none", "done"}
                           /\ \A g \in Gens : rpc[g] \in {"none", "done"}
    BY DEF ThreadObjectsFree
  <2>1. cpc[c] \in {"startLock", "connect"} => readingThread = 0
    BY DEF IInv, ReaderInv
  <2>2. ASSUME cpc[c] = "connect" PROVE ~Open
    <3>1. isStarted
      BY <2>2 DEF IInv, StartedInv
    <3>2. QED
      BY <2>2, <3>1 DEF Open, IInv, StartedInv
  <2>3. \A g \in Gens : g # 0
    BY DEF Gens
  <2>4. ASSUME cpc[c] = "connect"
        PROVE  /\ writingThread = 0
               /\ \A g \in Gens : wpc[g] \in {"none", "done"}
               /\ \A g \in Gens : rpc[g] \in {"none", "done"}
    BY <2>1, <2>2, <2>3, <2>4 DEF IInv, SocketInv, ReaderInv
  <2>5. QED
    BY <2>1, <2>4
<1>2. QED
  BY Invariance, <1>1, PTL

\* No writer ever sends on a descriptor that is not its connection's
\* (Client.cpp:138, 144).
THEOREM WriterSafe == Spec => []WriterOwnsDescriptor
<1>1. IInv => WriterOwnsDescriptor
  <2> SUFFICES ASSUME IInv, NEW g \in Gens, wpc[g] = "send" PROVE OwnsFd(g)
    BY DEF WriterOwnsDescriptor
  <2>1. writingThread = g /\ g # 0
    BY DEF IInv, SocketInv, Gens
  <2>2. Open /\ g = generation
    BY <2>1 DEF IInv, SocketInv
  <2>3. QED
    BY <2>2 DEF IInv, SocketInv, OwnsFd
<1>2. QED
  BY Invariance, <1>1, PTL

\* A loss is reported only for a connection that died on its own, never for one
\* that Stop() ended (Client.h:73).
THEOREM LossTrue == Spec => []LostOnlyOnDeath
<1>1. IInv => LostOnlyOnDeath
  BY DEF IInv, FateInv
<1>2. QED
  BY Invariance, <1>1, PTL

\* Messages are taken for the current connection only, while its socket is open
\* (Client.cpp:58).
THEOREM TakenSafe == Spec => TakenForCurrent
<1>1. IInv /\ [Next]_vars =>
        [\A g \in Gens : inFlight'[g] # inFlight[g] =>
           g = generation /\ socket = fdOf[g]]_inFlight
  <2> SUFFICES ASSUME IInv, [Next]_vars, inFlight' # inFlight,
                      NEW g \in Gens, inFlight'[g] # inFlight[g]
               PROVE  g = generation /\ socket = fdOf[g]
    OBVIOUS
  <2>1. PICK h \in Gens : WriterTake(h)
    BY DEF Next, StartStep, StopStep, StopLocked, Writer, Reader, Environment,
       vars, callVars, threadVars, queueVars, writeVars, kernelVars,
       CallStart, StartEnter, StartCheck, StartJoin, StartLock, ConnectFails,
       ConnectSucceeds, SpawnReader, StartLogicSend, StartLogicDone, CallStop,
       StopEnter, StopLock, StopJoin, Shutdown, CloseQueue, JoinWriter,
       CloseSocket, WriterCheck, WriterSend, ReaderCheck, ReaderReceives,
       ReaderDelivers, ReaderFails, StopIfCurrent, ReaderReports, SendData,
       PeerGone, OthersOpen, OthersClose
  <2>2. h = g /\ wpc[g] = "take"
    BY <2>1 DEF WriterTake, IInv, TypeOK
  <2>3. writingThread = g /\ g # 0
    BY <2>2 DEF IInv, SocketInv, Gens
  <2>4. QED
    BY <2>3 DEF IInv, SocketInv
<1>2. QED
  BY Invariance, <1>1, PTL DEF Spec, TakenForCurrent

-----------------------------------------------------------------------------
\* The queue.

\* A message that is put goes to the end.
LEMMA PutKeeps ==
    ASSUME TypeOK, QueueInv, puts' = puts + 1, queue' = Append(queue, puts + 1),
           UNCHANGED inFlight
    PROVE  QueueInv'
<1>1. queue \in Seq(Nat) /\ puts \in Nat
  <2>1. queue \in Seq(Msgs) /\ Msgs \subseteq Nat /\ puts \in Nat
    BY ClientAssumption DEF TypeOK, Msgs
  <2>2. QED
    BY <2>1, SeqMonotonic
<1>2. Len(queue') = Len(queue) + 1 /\ Len(queue) \in Nat
  BY <1>1
<1>3. \A i \in 1..Len(queue') :
        queue'[i] = IF i <= Len(queue) THEN queue[i] ELSE puts + 1
  BY <1>1
<1>4. puts' - Len(queue') = puts - Len(queue)
  BY <1>1, <1>2
<1>5. \A i \in 1..Len(queue') : queue'[i] = puts' - Len(queue') + i
  BY <1>1, <1>2, <1>3, <1>4 DEF QueueInv
<1>6. Len(queue') < puts' => \E g \in Gens : inFlight'[g] = puts' - Len(queue')
  <2>1. inFlight' = inFlight /\ (Len(queue') < puts' => Len(queue) < puts)
    BY <1>1, <1>2
  <2>2. QED
    BY <2>1, <1>4 DEF QueueInv
<1>7. QED
  BY <1>1, <1>2, <1>5, <1>6 DEF QueueInv

\* A message that is taken was the first, and is now in flight.
LEMMA TakeKeeps ==
    ASSUME TypeOK, QueueInv, NEW g \in Gens, WriterTake(g)
    PROVE  QueueInv'
<1>1. queue \in Seq(Nat) /\ puts \in Nat
  <2>1. queue \in Seq(Msgs) /\ Msgs \subseteq Nat /\ puts \in Nat
    BY ClientAssumption DEF TypeOK, Msgs
  <2>2. QED
    BY <2>1, SeqMonotonic
<1>2. CASE UNCHANGED <<queue, inFlight, puts>>
  BY <1>2 DEF QueueInv
<1>3. CASE /\ queue # <<>> /\ queue' = Tail(queue) /\ UNCHANGED puts
           /\ inFlight' = [inFlight EXCEPT ![g] = Head(queue)]
  <2>1. Len(queue) \in Nat \ {0} /\ Len(queue') = Len(queue) - 1
    BY <1>1, <1>3
  <2>2. \A i \in 1..Len(queue') : queue'[i] = queue[i + 1]
    BY <1>1, <1>3
  <2>3. inFlight'[g] = queue[1]
    BY <1>1, <1>3 DEF TypeOK
  <2>4. queue[1] = puts - Len(queue')
    BY <1>1, <2>1 DEF QueueInv
  <2>5. QED
    BY <1>1, <1>3, <2>1, <2>2, <2>3, <2>4 DEF QueueInv
<1>4. QED
  BY <1>2, <1>3 DEF WriterTake, queueVars

\* Every other step leaves the queue alone.
LEMMA QueueStep == IInv /\ QueueInv /\ [Next]_vars => QueueInv'
<1> SUFFICES ASSUME IInv, QueueInv, [Next]_vars PROVE QueueInv'
  OBVIOUS
<1>1. TypeOK
  BY DEF IInv
<1>2. ASSUME NEW c \in Callers, StartLogicSend(c) PROVE QueueInv'
  BY <1>1, <1>2, PutKeeps DEF StartLogicSend, writeVars
<1>3. CASE SendData
  BY <1>1, <1>3, PutKeeps DEF SendData, writeVars
<1>4. ASSUME NEW g \in Gens, WriterTake(g) PROVE QueueInv'
  BY <1>1, <1>4, TakeKeeps
<1>5. CASE UNCHANGED <<queue, puts, inFlight>>
  BY <1>5 DEF QueueInv
<1>6. QED
  BY <1>2, <1>3, <1>4, <1>5 DEF Next, StartStep, StopStep, StopLocked, Writer, Reader, Environment,
       vars, callVars, threadVars, queueVars, writeVars, kernelVars,
       CallStart, StartEnter, StartCheck, StartJoin, StartLock, ConnectFails,
       ConnectSucceeds, SpawnReader, StartLogicDone, CallStop,
       StopEnter, StopLock, StopJoin, Shutdown, CloseQueue, JoinWriter,
       CloseSocket, WriterCheck, WriterSend, ReaderCheck, ReaderReceives,
       ReaderDelivers, ReaderFails, StopIfCurrent, ReaderReports,
       PeerGone, OthersOpen, OthersClose

\* Nothing that was put on the queue disappears from it except into a writer's hands
\* (BlockingQueue.h:29, Client.cpp:51).
THEOREM NothingDropped == Spec => []MessagesKept
<1>1. Init => QueueInv
  BY DEF Init, QueueInv
<1>2. TypeOK /\ QueueInv => MessagesKept
  <2> SUFFICES ASSUME TypeOK, QueueInv, NEW m \in 1..puts
               PROVE  \/ \E i \in 1..Len(queue) : queue[i] = m
                      \/ \E g \in Gens : m <= inFlight[g]
    BY DEF MessagesKept
  <2>1. queue \in Seq(Msgs) /\ puts \in Nat /\ Len(queue) \in Nat
    BY ClientAssumption DEF TypeOK, Msgs
  <2>2. CASE m <= puts - Len(queue)
    BY <2>1, <2>2 DEF QueueInv
  <2>3. CASE m > puts - Len(queue)
    <3>1. m - (puts - Len(queue)) \in 1..Len(queue)
      BY <2>1, <2>3
    <3>2. queue[m - (puts - Len(queue))] = m
      BY <2>1, <3>1 DEF QueueInv
    <3>3. QED
      BY <3>1, <3>2
  <2>4. QED
    BY <2>1, <2>2, <2>3
<1>3. IInv => TypeOK
  BY DEF IInv
<1>4. QED
  BY Invariance, QueueStep, <1>1, <1>2, <1>3, PTL DEF Spec

-----------------------------------------------------------------------------
\* The refinement of ClientContract. Its state is a function of the flag, the generation, the
\* readers and of which callers are connecting; steps that change none of them stutter.

\* At most one caller is inside Start() or Stop().
LEMMA OneInside ==
    ASSUME LifecycleHeld, NEW c \in Callers, NEW k \in Callers,
           cpc[c] \in InLifecycle, cpc[k] \in InLifecycle
    PROVE  c = k
BY DEF LifecycleHeld

\* A caller past the check of the flag is inside Start() or Stop().
LEMMA Connecting ==
    {"connect", "spawnReader", "startLock", "stopLock", "startLogic"} \subseteq InLifecycle
BY DEF InLifecycle, CallerPc

\* While Start() has joined the reader the contract's reader is absent.
LEMMA ReaderAbsent ==
    ASSUME TypeOK, ReaderInv, readingThread = 0
    PROVE  readerBar = "absent"
<1>1. \A g \in Gens : rpc[g] \in {"none", "done"}
  BY DEF ReaderInv, Gens
<1>2. generation # 0 => generation \in Gens
  BY ClientAssumption DEF TypeOK, Gens
<1>3. QED
  BY <1>1, <1>2 DEF readerBar

\* While a reader runs, its connection is the contract's latest one.
LEMMA ReaderPresent ==
    ASSUME IInv, NEW g \in Gens, rpc[g] \notin {"none", "done"}
    PROVE  /\ g = generation /\ generationBar = g
           /\ ~ReaderPending
           /\ readerBar = IF rpc[g] \in {"stopping", "report"} THEN "reporting" ELSE "listening"
<1>1. g = generation /\ readingThread = g /\ g # 0
  BY ActiveReader DEF IInv, Gens
<1>2. ~ReaderPending
  BY <1>1 DEF IInv, ReaderInv, ReaderPending
<1>3. QED
  BY <1>1, <1>2 DEF readerBar, generationBar

\* A step that leaves the flag, the readers, the reports and the starting callers alone is
\* not seen by the contract.
LEMMA Stutters ==
    ASSUME UNCHANGED <<isStarted, generation, rpc, lost>>,
           \A c \in Callers : /\ cpc'[c] = "connect" <=> cpc[c] = "connect"
                              /\ cpc'[c] = "spawnReader" <=> cpc[c] = "spawnReader"
    PROVE  UNCHANGED <<phaseBar, readerBar, generationBar, lost>>
<1>1. ReaderPending' <=> ReaderPending
  BY DEF ReaderPending
<1>2. Starting' <=> Starting
  BY DEF Starting
<1>3. QED
  BY <1>1, <1>2 DEF phaseBar, readerBar, generationBar

\* Start() that has joined the reader begins a connection.
LEMMA StartLockBegins ==
    ASSUME IInv, NEW c \in Callers, StartLock(c)
    PROVE  Contract!BeginStart
<1>1. ~isStarted /\ readingThread = 0
  BY DEF StartLock, IInv, StartedInv, ReaderInv
<1>2. cpc' = [cpc EXCEPT ![c] = "connect"] /\ isStarted' /\ UNCHANGED <<generation, rpc, lost>>
  BY DEF StartLock
<1>3. phaseBar = "down" /\ readerBar = "absent"
  BY <1>1, ReaderAbsent DEF IInv, phaseBar, Starting
<1>4. cpc \in [Callers -> CallerPc] /\ ~ReaderPending
  BY OneInside, Connecting DEF StartLock, IInv, TypeOK, ReaderPending
<1>5. cpc'[c] = "connect" /\ ~ReaderPending'
  BY <1>2, <1>4 DEF ReaderPending
<1>6. phaseBar' = "starting"
  BY <1>2, <1>5 DEF phaseBar, Starting
<1>7. UNCHANGED <<readerBar, generationBar, lost>>
  BY <1>2, <1>4, <1>5 DEF readerBar, generationBar
<1>8. QED
  BY <1>3, <1>6, <1>7 DEF Contract!BeginStart

\* A connection that fails is down again.
LEMMA ConnectFailsFails ==
    ASSUME IInv, NEW c \in Callers, ConnectFails(c)
    PROVE  Contract!StartFails
<1>1. cpc[c] = "connect" /\ isStarted
  BY DEF ConnectFails, IInv, StartedInv
<1>2. cpc' = [cpc EXCEPT ![c] = "idle"] /\ ~isStarted' /\ UNCHANGED <<generation, rpc, lost>>
  BY DEF ConnectFails
<1>3. phaseBar = "starting" /\ phaseBar' = "down"
  BY <1>1, <1>2 DEF phaseBar, Starting
<1>4. ~ReaderPending
  BY <1>1, OneInside, Connecting DEF IInv, ReaderPending
<1>5. ~ReaderPending'
  BY <1>2, <1>4 DEF ReaderPending, IInv, TypeOK
<1>6. UNCHANGED <<readerBar, generationBar, lost>>
  BY <1>2, <1>4, <1>5 DEF readerBar, generationBar
<1>7. QED
  BY <1>3, <1>6 DEF Contract!StartFails

\* The connection is numbered here, but the contract counts it with its reader.
LEMMA ConnectSucceedsStutters ==
    ASSUME IInv, NEW c \in Callers, ConnectSucceeds(c)
    PROVE  UNCHANGED <<phaseBar, readerBar, generationBar, lost>>
<1>1. cpc[c] = "connect" /\ isStarted /\ readingThread = 0
  BY DEF ConnectSucceeds, IInv, StartedInv, ReaderInv
<1>2. /\ cpc' = [cpc EXCEPT ![c] = "spawnReader"] /\ generation' = generation + 1
      /\ UNCHANGED <<isStarted, lost>>
  BY DEF ConnectSucceeds
<1>3. cpc'[c] = "spawnReader" /\ ReaderPending'
  BY <1>2 DEF IInv, TypeOK, ReaderPending
<1>4. ~ReaderPending
  BY <1>1, OneInside, Connecting DEF IInv, ReaderPending
<1>5. phaseBar = "starting" /\ phaseBar' = "starting"
  BY <1>1, <1>2, <1>3 DEF phaseBar, Starting
<1>6. readerBar = "absent" /\ readerBar' = "absent"
  BY <1>1, <1>3, ReaderAbsent DEF IInv, readerBar
<1>7. generation \in Nat
  BY DEF IInv, TypeOK
<1>8. generationBar' = generationBar
  BY <1>2, <1>3, <1>4, <1>7 DEF generationBar
<1>9. QED
  BY <1>2, <1>5, <1>6, <1>8

\* The reading thread that Start() creates is the contract's new connection.
LEMMA SpawnReaderSucceeds ==
    ASSUME IInv, NEW c \in Callers, SpawnReader(c)
    PROVE  Contract!StartSucceeds
<1>1. cpc[c] = "spawnReader" /\ isStarted /\ readingThread = 0
  BY DEF SpawnReader, IInv, StartedInv, ReaderInv
<1>2. /\ cpc' = [cpc EXCEPT ![c] = "startLogic"] /\ rpc' = [rpc EXCEPT ![generation] = "check"]
      /\ UNCHANGED <<isStarted, generation, lost>>
  BY DEF SpawnReader
<1>3. generation \in Gens /\ generation \in Nat \ {0} /\ generation <= MaxGen
  <2>1. \A k \in Callers : cpc[k] # "connect"
    BY <1>1, OneInside, Connecting DEF IInv
  <2>2. Open
    BY <1>1, <2>1 DEF Open
  <2>3. QED
    BY <2>2, ClientAssumption DEF IInv, SocketInv, Gens
<1>4. ReaderPending /\ phaseBar = "starting"
  BY <1>1 DEF ReaderPending, phaseBar, Starting
<1>5. \A k \in Callers : cpc'[k] \notin {"connect", "spawnReader"}
  <2>1. \A k \in Callers \ {c} : cpc[k] \notin {"connect", "spawnReader"}
    BY <1>1, OneInside, Connecting DEF IInv
  <2>2. QED
    BY <1>2, <2>1 DEF IInv, TypeOK
<1>6. ~ReaderPending' /\ phaseBar' = "up"
  BY <1>1, <1>2, <1>5 DEF ReaderPending, phaseBar, Starting
<1>7. rpc'[generation] = "check"
  BY <1>2, <1>3 DEF IInv, TypeOK
<1>8. readerBar' = "listening"
  BY <1>2, <1>3, <1>6, <1>7 DEF readerBar
<1>9. generationBar = generation - 1 /\ generationBar' = generation
  BY <1>2, <1>4, <1>6 DEF generationBar
<1>10. generationBar < MaxGen /\ generationBar' = generationBar + 1
  BY <1>3, <1>9, ClientAssumption
<1>11. QED
  BY <1>2, <1>4, <1>6, <1>8, <1>10 DEF Contract!StartSucceeds

\* Stop() takes the connection down with the exchange of the flag.
LEMMA StopLockStops ==
    ASSUME IInv, NEW c \in Callers, StopLock(c)
    PROVE  Contract!OwnerStops \/ UNCHANGED <<phaseBar, readerBar, generationBar, lost>>
<1>1. CASE /\ isStarted /\ ~isStarted' /\ cpc' = [cpc EXCEPT ![c] = "stopping"]
  <2>1. \A k \in Callers : cpc[k] \notin {"connect", "spawnReader"}
    BY OneInside, Connecting DEF StopLock, IInv
  <2>2. \A k \in Callers : cpc'[k] \notin {"connect", "spawnReader"}
    BY <1>1, <2>1 DEF IInv, TypeOK
  <2>3. phaseBar = "up" /\ phaseBar' = "down"
    BY <1>1, <2>1 DEF phaseBar, Starting
  <2>4. UNCHANGED <<readerBar, generationBar, lost>>
    BY <2>1, <2>2 DEF StopLock, readerBar, generationBar, ReaderPending
  <2>5. QED
    BY <2>3, <2>4 DEF Contract!OwnerStops
<1>2. CASE cpc' = [cpc EXCEPT ![c] = "stopJoin"] /\ UNCHANGED isStarted
  BY <1>2, Stutters DEF StopLock, IInv, TypeOK
<1>3. QED
  BY <1>1, <1>2 DEF StopLock

\* A reader that only moves on is the same to the contract.
LEMMA ListensOn ==
    ASSUME IInv, NEW g \in Gens, rpc[g] \in {"check", "recv", "deliver", "exit"},
           rpc'[g] \in {"check", "recv", "deliver", "exit"},
           UNCHANGED <<isStarted, generation, lost, cpc>>
    PROVE  UNCHANGED <<phaseBar, readerBar, generationBar, lost>>
<1>1. g = generation /\ ~ReaderPending /\ readerBar = "listening" /\ g # 0
  BY ReaderPresent DEF Gens
<1>2. readerBar' = "listening"
  BY <1>1 DEF readerBar, ReaderPending
<1>3. QED
  BY <1>1, <1>2 DEF phaseBar, generationBar, Starting, ReaderPending

\* A reader that finds its connection dead takes it down, or leaves when Stop() was first.
LEMMA StopIfCurrentStops ==
    ASSUME IInv, NEW g \in Gens, StopIfCurrent(g)
    PROVE  Contract!ReaderStops \/ Contract!ReaderLeaves
<1>1. /\ rpc[g] = "exit" /\ startStopMutex = Free
      /\ UNCHANGED <<generation, lost, cpc>>
  BY DEF StopIfCurrent, callVars
<1>2. g = generation /\ ~ReaderPending /\ readerBar = "listening" /\ g # 0
  BY <1>1, ReaderPresent DEF Gens
<1>3. ~ReaderPending' /\ generationBar' = generationBar
  BY <1>1, <1>2 DEF ReaderPending, generationBar
<1>4. rpc \in [Gens -> ReaderPc]
  BY DEF IInv, TypeOK
<1>5. CASE isStarted /\ ~isStarted' /\ rpc' = [rpc EXCEPT ![g] = "stopping"]
  <2>1. \A c \in Callers : cpc[c] \notin {"connect", "spawnReader"}
    BY <1>1, HoldersDiffer DEF IInv, MutexHeld, InStartStop
  <2>2. phaseBar = "up" /\ phaseBar' = "down"
    BY <1>5, <2>1 DEF phaseBar, Starting
  <2>3. readerBar' = "reporting"
    BY <1>1, <1>2, <1>3, <1>4, <1>5 DEF readerBar
  <2>4. QED
    BY <1>1, <1>2, <1>3, <2>2, <2>3 DEF Contract!ReaderStops
<1>6. CASE ~isStarted /\ rpc' = [rpc EXCEPT ![g] = "done"] /\ UNCHANGED isStarted
  <2>1. phaseBar = "down" /\ phaseBar' = "down"
    BY <1>6 DEF phaseBar, Starting
  <2>2. readerBar' = "absent"
    BY <1>1, <1>2, <1>3, <1>4, <1>6 DEF readerBar
  <2>3. QED
    BY <1>1, <1>2, <1>3, <2>1, <2>2 DEF Contract!ReaderLeaves
<1>7. QED
  BY <1>2, <1>5, <1>6 DEF StopIfCurrent

\* The last step of a reader that took its connection down is the report.
LEMMA ReaderReportsLoss ==
    ASSUME IInv, NEW g \in Gens, ReaderReports(g)
    PROVE  Contract!ReportLoss
<1>1. /\ rpc[g] = "report" /\ rpc' = [rpc EXCEPT ![g] = "done"] /\ lost' = lost \cup {g}
      /\ UNCHANGED <<isStarted, generation, cpc>>
  BY DEF ReaderReports, callVars
<1>2. g = generation /\ generationBar = g /\ ~ReaderPending /\ readerBar = "reporting"
  BY <1>1, ReaderPresent
<1>3. ~ReaderPending' /\ generationBar' = generationBar /\ phaseBar' = phaseBar
  BY <1>1, <1>2 DEF ReaderPending, generationBar, phaseBar, Starting
<1>4. rpc'[g] = "done"
  BY <1>1 DEF IInv, TypeOK
<1>5. readerBar' = "absent"
  BY <1>1, <1>2, <1>3, <1>4 DEF readerBar
<1>6. QED
  BY <1>1, <1>2, <1>3, <1>5 DEF Contract!ReportLoss

\* Every step of the client is a step of the contract, or one it does not see.
LEMMA ContractStep ==
    IInv /\ [Next]_vars => [Contract!ContractNext]_<<phaseBar, readerBar, generationBar, lost>>
<1> SUFFICES ASSUME IInv, [Next]_vars
             PROVE  Contract!ContractNext \/ UNCHANGED <<phaseBar, readerBar, generationBar, lost>>
  OBVIOUS
<1> USE DEF callVars, threadVars, queueVars, writeVars, kernelVars
<1>1. cpc \in [Callers -> CallerPc] /\ rpc \in [Gens -> ReaderPc]
  BY DEF IInv, TypeOK
<1>2. ASSUME NEW c \in Callers,
             CallStart(c) \/ StartEnter(c) \/ StartCheck(c) \/ StartJoin(c) \/ StartLogicSend(c)
                 \/ StartLogicDone(c) \/ CallStop(c) \/ StopEnter(c) \/ StopJoin(c)
      PROVE  UNCHANGED <<phaseBar, readerBar, generationBar, lost>>
  BY <1>1, <1>2, Stutters
     DEF CallStart, StartEnter, StartCheck, StartJoin, StartLogicSend, StartLogicDone, CallStop,
         StopEnter, StopJoin
<1>3. ASSUME NEW c \in Callers, StartStep(c) \/ StopStep(c) \/ CallStart(c) \/ CallStop(c)
      PROVE  Contract!ContractNext \/ UNCHANGED <<phaseBar, readerBar, generationBar, lost>>
  BY <1>2, <1>3, StartLockBegins, ConnectFailsFails, ConnectSucceedsStutters,
     SpawnReaderSucceeds, StopLockStops
     DEF StartStep, StopStep, Contract!ContractNext
<1>4. CASE StopLocked
  <2>1. CASE Shutdown \/ CloseQueue \/ JoinWriter
    BY <2>1, Stutters DEF Shutdown, CloseQueue, JoinWriter
  <2>2. CASE CloseSocket /\ startStopMutex \in Callers /\ UNCHANGED rpc
    <3>1. cpc[startStopMutex] = "stopping"
      BY <2>2 DEF CloseSocket, IInv, MutexHeld, StartedInv, InStartStop
    <3>2. QED
      BY <2>2, <3>1, <1>1, Stutters DEF CloseSocket
  <2>3. CASE CloseSocket /\ startStopMutex \in Gens /\ UNCHANGED cpc
    <3> DEFINE g == startStopMutex
    <3>1. rpc[g] = "stopping" /\ rpc' = [rpc EXCEPT ![g] = "report"] /\ g \in Gens
      BY <2>3, HoldersDiffer DEF CloseSocket, IInv, MutexHeld
    <3>2. UNCHANGED <<isStarted, generation, lost, cpc>>
      BY <2>3 DEF CloseSocket
    <3> HIDE DEF g
    <3>3. g = generation /\ ~ReaderPending /\ readerBar = "reporting" /\ g # 0
      BY <3>1, ReaderPresent DEF Gens
    <3>4. rpc'[g] = "report" /\ ~ReaderPending'
      BY <1>1, <3>1, <3>2, <3>3 DEF ReaderPending
    <3>5. readerBar' = "reporting"
      BY <3>2, <3>3, <3>4 DEF readerBar
    <3>6. QED
      BY <3>2, <3>3, <3>4, <3>5 DEF phaseBar, generationBar, Starting
  <2>4. QED
    BY <1>4, <2>1, <2>2, <2>3, HoldersDiffer DEF StopLocked, CloseSocket
<1>5. ASSUME NEW g \in Gens, Writer(g)
      PROVE  UNCHANGED <<phaseBar, readerBar, generationBar, lost>>
  BY <1>5, Stutters DEF Writer, WriterCheck, WriterTake, WriterSend
<1>6. ASSUME NEW g \in Gens, Reader(g)
      PROVE  Contract!ContractNext \/ UNCHANGED <<phaseBar, readerBar, generationBar, lost>>
  <2>1. CASE ReaderCheck(g) \/ ReaderReceives(g) \/ ReaderDelivers(g) \/ ReaderFails(g)
    BY <1>1, <2>1, ListensOn DEF ReaderCheck, ReaderReceives, ReaderDelivers, ReaderFails
  <2>2. QED
    BY <1>6, <2>1, StopIfCurrentStops, ReaderReportsLoss DEF Reader, Contract!ContractNext
<1>7. CASE Environment
  BY <1>7, Stutters DEF Environment, SendData, PeerGone, OthersOpen, OthersClose
<1>8. CASE UNCHANGED vars
  BY <1>8, Stutters DEF vars
<1>9. QED
  BY <1>3, <1>4, <1>5, <1>6, <1>7, <1>8 DEF Next

\* The threaded client keeps every promise of Client.h that ClientContract states: mapped by
\* phaseBar, readerBar and generationBar, each of its behaviours is one of the contract.
THEOREM Refinement == Spec => ImplementsContract
<1>1. Init => Contract!ContractInit
  BY DEF Init, Contract!ContractInit, phaseBar, readerBar, generationBar, Starting, ReaderPending
<1>2. QED
  BY <1>1, ContractStep, Invariance, PTL
  DEF Spec, ImplementsContract, Contract!ContractSpec, Contract!contractVars
=============================================================================
