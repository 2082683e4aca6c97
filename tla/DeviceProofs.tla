---------------------------- MODULE DeviceProofs ----------------------------
(***************************************************************************)
(* Proofs that the safety properties of Device hold for any number of      *)
(* restart threads, attempts, connections and changes of the Connected     *)
(* property. Every part of IInv is shown to be preserved by every step,    *)
(* one lemma per part.                                                     *)
(***************************************************************************)
EXTENDS Device, FiniteSetTheorems, SequenceTheorems, TLAPS

-----------------------------------------------------------------------------
\* The inductive invariant.

\* Only one thread is inside Client::Start, while the contract is starting; there is a
\* connection to lose or to stop only after one was made.
PhaseInv ==
    /\ phase = "starting" => reader = "absent" /\ \E t \in Threads : pc[t] = "connecting"
    /\ \A t \in Threads : pc[t] = "connecting" => phase = "starting"
    /\ \A t, u \in Threads : pc[t] = "connecting" /\ pc[u] = "connecting" => t = u
    /\ phase = "up" \/ reader # "absent" => generation > 0

\* Nobody but Init() has done anything yet.
Untouched ==
    /\ phase = "down"
    /\ \A t \in Threads \ {"init"} : pc[t] = "idle"

\* _connected is the value the proxy holds, from the first signal handled or from the
\* store of Init() on; the listener stops the client only while it is FALSE.
ValueInv ==
    /\ pc["init"] = "subscribe" => ~connected /\ Untouched
    /\ ~overtaken =>
         \/ connected = value
         \/ ~connected /\ pc["init"] \in {"subscribe", "read", "write"} /\ Untouched
    /\ ~overtaken /\ pc["dbus"] \in {"stop", "stopJoin"} => ~connected

\* The last signal on its way tells what BlueZ holds.
SignalInv ==
    /\ signals = <<>> => bluez = value
    /\ signals # <<>> => bluez = signals[Len(signals)]

\* A client of a disconnected device is about to be stopped, or news is on its way.
StopInv ==
    ~overtaken /\ phase = "up" /\ ~connected =>
        pc["dbus"] \in {"branch", "stop"} \/ signals # <<>>

\* _clientRestartPending stands for the one restart thread that is created or waits.
PendingInv ==
    /\ pending <=> \E t \in Threads : pc[t] \in {"count", "waiting"}
    /\ \A t, u \in Threads :
         pc[t] \in {"count", "waiting"} /\ pc[u] \in {"count", "waiting"} => t = u

\* While the reader handles data its connection is up, or its end is waited for.
DataInv ==
    pc["reader"] = "data" => /\ reader = "listening"
                             /\ phase = "up" \/ pc["dbus"] = "stopJoin"

\* Where a thread is that may still start the client or give up the attempts.
Coming == {"check", "branch", "reset", "isStarted", "callStart", "started", "restart",
           "setReconnecting", "checkAttempts", "claim", "count", "waiting", "recheck"}

CoverInv ==
    ~overtaken /\ connected /\ phase = "down" =>
        attempts >= MaxAttempts \/ \E t \in Threads : pc[t] \in Coming

\* Where a thread is that will store a client state before it rests.
Telling == {"stopJoin", "connecting", "started", "restart",
            "setConnected", "setReconnecting", "setDisconnected"}

StateInv ==
    ~misstated => \/ state = "Connected" <=> IsStarted
                  \/ \E t \in Threads : pc[t] \in Telling

\* The threads that have seen an attempt left.
Entitled == {t \in Threads : pc[t] \in {"claim", "count"}}

CountInv == attempts + Cardinality(Entitled) <= MaxAttempts + Cardinality(Threads)

\* The types, without the bound on the attempts, which is CountInv's.
ClientTypes ==
    /\ phase \in {"down", "starting", "up"}
    /\ reader \in {"absent", "listening", "reporting"}
    /\ generation \in 0..MaxGen
    /\ lost \subseteq 1..MaxGen

FlagTypes ==
    /\ bluez \in BOOLEAN /\ value \in BOOLEAN /\ connected \in BOOLEAN
    /\ readValue \in BOOLEAN /\ pending \in BOOLEAN
    /\ signals \in Seq(BOOLEAN)
    /\ overtaken \in BOOLEAN /\ misstated \in BOOLEAN

CounterTypes ==
    /\ attempts \in Nat
    /\ state \in States
    /\ changes \in 0..MaxChanges

TypeInv == ClientTypes /\ FlagTypes /\ CounterTypes /\ pc \in [Threads -> Pcs]

IInv ==
    /\ TypeInv
    /\ PhaseInv
    /\ ValueInv
    /\ SignalInv
    /\ StopInv
    /\ PendingInv
    /\ DataInv
    /\ CoverInv
    /\ StateInv
    /\ CountInv

-----------------------------------------------------------------------------
\* The signals.

\* A signal that is sent is the last one.
LEMMA SentLast ==
    ASSUME NEW s \in Seq(BOOLEAN), NEW b \in BOOLEAN
    PROVE  /\ Append(s, b) \in Seq(BOOLEAN) /\ Append(s, b) # <<>>
           /\ Append(s, b)[Len(Append(s, b))] = b
<1>1. ASSUME NEW S, NEW q \in Seq(S), NEW e \in S
      PROVE  /\ Append(q, e) \in Seq(S) /\ Append(q, e) # <<>>
             /\ Append(q, e)[Len(Append(q, e))] = e
  OBVIOUS
<1>2. QED
  BY <1>1

\* Handling the first signal leaves the last one, unless it was that.
LEMMA HandledFirst ==
    ASSUME NEW s \in Seq(BOOLEAN), s # <<>>
    PROVE  /\ Tail(s) \in Seq(BOOLEAN) /\ Head(s) \in BOOLEAN
           /\ Tail(s) = <<>> => s[Len(s)] = Head(s)
           /\ Tail(s) # <<>> => Tail(s)[Len(Tail(s))] = s[Len(s)]
<1>1. ASSUME NEW S, NEW q \in Seq(S), q # <<>>
      PROVE  /\ Tail(q) \in Seq(S) /\ Head(q) \in S
             /\ Tail(q) = <<>> => q[Len(q)] = Head(q)
             /\ Tail(q) # <<>> => Tail(q)[Len(Tail(q))] = q[Len(q)]
  <2>1. Len(q) \in Nat /\ Len(q) > 0 /\ Len(Tail(q)) = Len(q) - 1 /\ Head(q) = q[1]
    BY <1>1
  <2>2. \A i \in 1..Len(Tail(q)) : Tail(q)[i] = q[i + 1]
    BY <1>1
  <2>3. Tail(q) \in Seq(S) /\ Head(q) \in S
    BY <1>1
  <2>4. Tail(q) = <<>> <=> Len(q) = 1
    <3>1. Tail(q) # <<>> => Len(Tail(q)) # 0
      <4>1. ASSUME NEW p \in Seq(S), p # <<>> PROVE Len(p) # 0
        BY <4>1
      <4>2. QED
        BY <2>3, <4>1
    <3>2. Tail(q) = <<>> => Len(Tail(q)) = 0
      BY EmptySeq, Zenon
    <3>3. QED
      BY <2>1, <3>1, <3>2
  <2>5. Tail(q) # <<>> => Tail(q)[Len(Tail(q))] = q[Len(q)]
    BY <2>1, <2>2, <2>3, <2>4
  <2>6. QED
    BY <2>1, <2>3, <2>4, <2>5
<1>2. QED
  BY <1>1

-----------------------------------------------------------------------------
\* Every part is preserved.

\* Every thread stays at a place of the code.
LEMMA PlaceStep == IInv /\ [Next]_vars => pc' \in [Threads -> Pcs]
<1> SUFFICES ASSUME IInv, [Next]_vars PROVE pc' \in [Threads -> Pcs]
  OBVIOUS
<1> USE DEF contractVars, bluezVars, stateVars, deviceVars, Goto, AfterCall, IsStarted
<1>1. pc \in [Threads -> Pcs] /\ {"init", "dbus", "reader"} \subseteq Threads
  BY DEF IInv, TypeInv, Threads, Fixed
<1>2. \A r \in Restarters : r \in Threads /\ r \notin Fixed
  BY DeviceAssumption DEF Threads
<1>3. CASE InitStep
  BY <1>3
  DEF IInv, TypeInv, Pcs, InitStep, Subscribe, ReadConnected, StoreConnected, CheckConnected
<1>4. CASE ConnectedChanged
  BY <1>4 DEF IInv, TypeInv, Pcs, ConnectedChanged
<1>5. CASE DbusStep
  BY <1>5
  DEF IInv, TypeInv, Pcs, DbusStep, Branch, ResetAttempts, StopClient, JoinReader, OwnerStops
<1>6. CASE DataReceived \/ LinkLost
  BY <1>6 DEF IInv, TypeInv, Pcs, DataReceived, LinkLost, ReaderStops
<1>7. CASE ReaderStep
  BY <1>7
  DEF IInv, TypeInv, Pcs, ReaderStep, DataHandled, ReaderEnds, LossReported, ReaderLeaves,
      ReportLoss
<1>8. ASSUME NEW t \in Threads, SeeStarted(t) \/ SeeResult(t) PROVE pc' \in [Threads -> Pcs]
  BY <1>8 DEF IInv, TypeInv, Pcs, SeeStarted, SeeResult
<1>9. ASSUME NEW t \in Threads, CallStart(t) PROVE pc' \in [Threads -> Pcs]
  BY <1>9 DEF IInv, TypeInv, Pcs, CallStart, BeginStart
<1>10. ASSUME NEW t \in Threads, Connecting(t) PROVE pc' \in [Threads -> Pcs]
  BY <1>10 DEF IInv, TypeInv, Pcs, Connecting, StartFails, StartSucceeds
<1>11. ASSUME NEW t \in Threads, SetClientState(t) PROVE pc' \in [Threads -> Pcs]
  BY <1>11 DEF IInv, TypeInv, Pcs, SetClientState
<1>12. ASSUME NEW t \in Threads, Restart(t) \/ CheckAttempts(t) \/ ClaimRestart(t) PROVE pc' \in [Threads -> Pcs]
  BY <1>12 DEF IInv, TypeInv, Pcs, Restart, CheckAttempts, ClaimRestart
<1>13. ASSUME NEW t \in Threads, SpawnRestart(t) PROVE pc' \in [Threads -> Pcs]
  BY <1>13 DEF IInv, TypeInv, Pcs, SpawnRestart
<1>14. ASSUME NEW r \in Restarters, WaitOver(r) \/ Recheck(r) PROVE pc' \in [Threads -> Pcs]
  BY <1>14 DEF IInv, TypeInv, Pcs, WaitOver, Recheck
<1>15. CASE ConnectedFlips
  BY <1>15 DEF IInv, TypeInv, ConnectedFlips
<1>16. CASE UNCHANGED vars
  BY <1>16 DEF IInv, TypeInv, vars
<1>17. QED
  BY <1>3, <1>4, <1>5, <1>6, <1>7, <1>8, <1>9, <1>10, <1>11, <1>12, <1>13, <1>14, <1>15, <1>16
  DEF Next, ThreadStep, StartClient, RestartStep

\* The client's types are preserved.
LEMMA ClientTypesStep == IInv /\ [Next]_vars => ClientTypes'
<1> SUFFICES ASSUME IInv, [Next]_vars PROVE ClientTypes'
  OBVIOUS
<1> USE DEF contractVars, bluezVars, stateVars, deviceVars, Goto, AfterCall, IsStarted
<1>1. pc \in [Threads -> Pcs] /\ {"init", "dbus", "reader"} \subseteq Threads
  BY DEF IInv, TypeInv, Threads, Fixed
<1>2. \A r \in Restarters : r \in Threads /\ r \notin Fixed
  BY DeviceAssumption DEF Threads
<1>3. CASE InitStep
  BY <1>3
  DEF IInv, TypeInv, ClientTypes, InitStep, Subscribe, ReadConnected, StoreConnected,
      CheckConnected
<1>4. CASE ConnectedChanged
  BY <1>4 DEF IInv, TypeInv, ClientTypes, ConnectedChanged
<1>5. CASE DbusStep
  BY <1>5
  DEF IInv, TypeInv, ClientTypes, DbusStep, Branch, ResetAttempts, StopClient, JoinReader,
      OwnerStops
<1>6. CASE DataReceived \/ LinkLost
  BY <1>6 DEF IInv, TypeInv, ClientTypes, DataReceived, LinkLost, ReaderStops
<1>7. CASE ReaderStep
  <2>1. CASE LossReported
    <3>1. generation \in 1..MaxGen
      BY <2>1, ContractAssumption
      DEF LossReported, ReportLoss, IInv, TypeInv, ClientTypes, PhaseInv
    <3>2. QED
      BY <2>1, <3>1 DEF LossReported, ReportLoss, IInv, TypeInv, ClientTypes
  <2>2. CASE DataHandled \/ ReaderEnds
    BY <2>2 DEF DataHandled, ReaderEnds, ReaderLeaves, IInv, TypeInv, ClientTypes
  <2>3. QED
    BY <1>7, <2>1, <2>2 DEF ReaderStep
<1>8. ASSUME NEW t \in Threads, SeeStarted(t) \/ SeeResult(t) PROVE ClientTypes'
  BY <1>8 DEF IInv, TypeInv, ClientTypes, SeeStarted, SeeResult
<1>9. ASSUME NEW t \in Threads, CallStart(t) PROVE ClientTypes'
  BY <1>9 DEF IInv, TypeInv, ClientTypes, CallStart, BeginStart
<1>10. ASSUME NEW t \in Threads, Connecting(t) PROVE ClientTypes'
  <2>1. generation \in Nat /\ MaxGen \in Nat
    BY ContractAssumption DEF IInv, TypeInv, ClientTypes
  <2>2. CASE StartFails
    BY <2>2 DEF StartFails, IInv, TypeInv, ClientTypes
  <2>3. CASE StartSucceeds
    BY <2>1, <2>3 DEF StartSucceeds, IInv, TypeInv, ClientTypes
  <2>4. QED
    BY <1>10, <2>2, <2>3 DEF Connecting
<1>11. ASSUME NEW t \in Threads, SetClientState(t) PROVE ClientTypes'
  BY <1>11 DEF IInv, TypeInv, ClientTypes, SetClientState
<1>12. ASSUME NEW t \in Threads, Restart(t) \/ CheckAttempts(t) \/ ClaimRestart(t) PROVE ClientTypes'
  BY <1>12 DEF IInv, TypeInv, ClientTypes, Restart, CheckAttempts, ClaimRestart
<1>13. ASSUME NEW t \in Threads, SpawnRestart(t) PROVE ClientTypes'
  BY <1>13 DEF IInv, TypeInv, ClientTypes, SpawnRestart
<1>14. ASSUME NEW r \in Restarters, WaitOver(r) \/ Recheck(r) PROVE ClientTypes'
  BY <1>14 DEF IInv, TypeInv, ClientTypes, WaitOver, Recheck
<1>15. CASE ConnectedFlips
  BY <1>15 DEF IInv, TypeInv, ClientTypes, ConnectedFlips
<1>16. CASE UNCHANGED vars
  BY <1>16 DEF IInv, TypeInv, ClientTypes, vars
<1>17. QED
  BY <1>3, <1>4, <1>5, <1>6, <1>7, <1>8, <1>9, <1>10, <1>11, <1>12, <1>13, <1>14, <1>15, <1>16
  DEF Next, ThreadStep, StartClient, RestartStep

\* The flags stay flags, and the signals a queue of them.
LEMMA FlagTypesStep == IInv /\ [Next]_vars => FlagTypes'
<1> SUFFICES ASSUME IInv, [Next]_vars PROVE FlagTypes'
  OBVIOUS
<1> USE DEF contractVars, bluezVars, stateVars, deviceVars, Goto, AfterCall, IsStarted
<1>1. pc \in [Threads -> Pcs] /\ {"init", "dbus", "reader"} \subseteq Threads
  BY DEF IInv, TypeInv, Threads, Fixed
<1>2. \A r \in Restarters : r \in Threads /\ r \notin Fixed
  BY DeviceAssumption DEF Threads
<1>3. CASE InitStep
  BY <1>3
  DEF IInv, TypeInv, FlagTypes, InitStep, Subscribe, ReadConnected, StoreConnected, CheckConnected
<1>4. CASE ConnectedChanged
  BY <1>4 DEF IInv, TypeInv, FlagTypes, ConnectedChanged
<1>5. CASE DbusStep
  BY <1>5
  DEF IInv, TypeInv, FlagTypes, DbusStep, Branch, ResetAttempts, StopClient, JoinReader,
      OwnerStops
<1>6. CASE DataReceived \/ LinkLost
  BY <1>6 DEF IInv, TypeInv, FlagTypes, DataReceived, LinkLost, ReaderStops
<1>7. CASE ReaderStep
  BY <1>7
  DEF IInv, TypeInv, FlagTypes, ReaderStep, DataHandled, ReaderEnds, LossReported, ReaderLeaves,
      ReportLoss
<1>8. ASSUME NEW t \in Threads, SeeStarted(t) \/ SeeResult(t) PROVE FlagTypes'
  BY <1>8 DEF IInv, TypeInv, FlagTypes, SeeStarted, SeeResult
<1>9. ASSUME NEW t \in Threads, CallStart(t) PROVE FlagTypes'
  BY <1>9 DEF IInv, TypeInv, FlagTypes, CallStart, BeginStart
<1>10. ASSUME NEW t \in Threads, Connecting(t) PROVE FlagTypes'
  <2>1. Append(signals, TRUE) \in Seq(BOOLEAN)
    BY SentLast DEF IInv, TypeInv, FlagTypes
  <2>2. QED
    BY <1>10, <2>1 DEF Connecting, IInv, TypeInv, FlagTypes
<1>11. ASSUME NEW t \in Threads, SetClientState(t) PROVE FlagTypes'
  BY <1>11 DEF IInv, TypeInv, FlagTypes, SetClientState
<1>12. ASSUME NEW t \in Threads, Restart(t) \/ CheckAttempts(t) \/ ClaimRestart(t) PROVE FlagTypes'
  BY <1>12 DEF IInv, TypeInv, FlagTypes, Restart, CheckAttempts, ClaimRestart
<1>13. ASSUME NEW t \in Threads, SpawnRestart(t) PROVE FlagTypes'
  BY <1>13 DEF IInv, TypeInv, FlagTypes, SpawnRestart
<1>14. ASSUME NEW r \in Restarters, WaitOver(r) \/ Recheck(r) PROVE FlagTypes'
  BY <1>14 DEF IInv, TypeInv, FlagTypes, WaitOver, Recheck
<1>15. CASE ConnectedFlips
  BY <1>15 DEF IInv, TypeInv, FlagTypes, ConnectedFlips
<1>16. CASE UNCHANGED vars
  BY <1>16 DEF IInv, TypeInv, FlagTypes, vars
<1>17. QED
  BY <1>3, <1>4, <1>5, <1>6, <1>7, <1>8, <1>9, <1>10, <1>11, <1>12, <1>13, <1>14, <1>15, <1>16
  DEF Next, ThreadStep, StartClient, RestartStep

\* The counters and the state keep their types.
LEMMA CounterTypesStep == IInv /\ [Next]_vars => CounterTypes'
<1> SUFFICES ASSUME IInv, [Next]_vars PROVE CounterTypes'
  OBVIOUS
<1> USE DEF contractVars, bluezVars, stateVars, deviceVars, Goto, AfterCall, IsStarted
<1>1. pc \in [Threads -> Pcs] /\ {"init", "dbus", "reader"} \subseteq Threads
  BY DEF IInv, TypeInv, Threads, Fixed
<1>2. \A r \in Restarters : r \in Threads /\ r \notin Fixed
  BY DeviceAssumption DEF Threads
<1>3. CASE InitStep
  BY <1>3
  DEF IInv, TypeInv, CounterTypes, InitStep, Subscribe, ReadConnected, StoreConnected,
      CheckConnected
<1>4. CASE ConnectedChanged
  BY <1>4 DEF IInv, TypeInv, CounterTypes, ConnectedChanged
<1>5. CASE DbusStep
  BY <1>5
  DEF IInv, TypeInv, CounterTypes, DbusStep, Branch, ResetAttempts, StopClient, JoinReader,
      OwnerStops
<1>6. CASE DataReceived \/ LinkLost
  BY <1>6 DEF IInv, TypeInv, CounterTypes, DataReceived, LinkLost, ReaderStops
<1>7. CASE ReaderStep
  BY <1>7
  DEF IInv, TypeInv, CounterTypes, ReaderStep, DataHandled, ReaderEnds, LossReported,
      ReaderLeaves, ReportLoss
<1>8. ASSUME NEW t \in Threads, SeeStarted(t) \/ SeeResult(t) PROVE CounterTypes'
  BY <1>8 DEF IInv, TypeInv, CounterTypes, SeeStarted, SeeResult
<1>9. ASSUME NEW t \in Threads, CallStart(t) PROVE CounterTypes'
  BY <1>9 DEF IInv, TypeInv, CounterTypes, CallStart, BeginStart
<1>10. ASSUME NEW t \in Threads, Connecting(t) PROVE CounterTypes'
  BY <1>10 DEF IInv, TypeInv, CounterTypes, Connecting, StartFails, StartSucceeds
<1>11. ASSUME NEW t \in Threads, SetClientState(t) PROVE CounterTypes'
  BY <1>11 DEF IInv, TypeInv, CounterTypes, States, SetClientState
<1>12. ASSUME NEW t \in Threads, Restart(t) \/ CheckAttempts(t) \/ ClaimRestart(t) PROVE CounterTypes'
  BY <1>12 DEF IInv, TypeInv, CounterTypes, Restart, CheckAttempts, ClaimRestart
<1>13. ASSUME NEW t \in Threads, SpawnRestart(t) PROVE CounterTypes'
  BY <1>13 DEF IInv, TypeInv, CounterTypes, SpawnRestart
<1>14. ASSUME NEW r \in Restarters, WaitOver(r) \/ Recheck(r) PROVE CounterTypes'
  BY <1>14 DEF IInv, TypeInv, CounterTypes, WaitOver, Recheck
<1>15. CASE ConnectedFlips
  BY <1>15, DeviceAssumption DEF ConnectedFlips, IInv, TypeInv, CounterTypes
<1>16. CASE UNCHANGED vars
  BY <1>16 DEF IInv, TypeInv, CounterTypes, vars
<1>17. QED
  BY <1>3, <1>4, <1>5, <1>6, <1>7, <1>8, <1>9, <1>10, <1>11, <1>12, <1>13, <1>14, <1>15, <1>16
  DEF Next, ThreadStep, StartClient, RestartStep

\* PhaseInv is preserved.
LEMMA PhaseStep == IInv /\ [Next]_vars => PhaseInv'
<1> SUFFICES ASSUME IInv, [Next]_vars PROVE PhaseInv'
  OBVIOUS
<1> USE DEF contractVars, bluezVars, stateVars, deviceVars, Goto, AfterCall, IsStarted
<1>1. pc \in [Threads -> Pcs] /\ {"init", "dbus", "reader"} \subseteq Threads
  BY DEF IInv, TypeInv, Threads, Fixed
<1>2. \A r \in Restarters : r \in Threads /\ r \notin Fixed
  BY DeviceAssumption DEF Threads
<1>3. CASE InitStep
  BY <1>3
  DEF IInv, TypeInv, PhaseInv, InitStep, Subscribe, ReadConnected, StoreConnected, CheckConnected
<1>4. CASE ConnectedChanged
  BY <1>4 DEF IInv, TypeInv, PhaseInv, ConnectedChanged
<1>5. CASE DbusStep
  BY <1>5
  DEF IInv, TypeInv, PhaseInv, DbusStep, Branch, ResetAttempts, StopClient, JoinReader, OwnerStops
<1>6. CASE DataReceived \/ LinkLost
  BY <1>6 DEF IInv, TypeInv, PhaseInv, DataReceived, LinkLost, ReaderStops
<1>7. CASE ReaderStep
  BY <1>7
  DEF IInv, TypeInv, PhaseInv, ReaderStep, DataHandled, ReaderEnds, LossReported, ReaderLeaves,
      ReportLoss
<1>8. ASSUME NEW t \in Threads, SeeStarted(t) \/ SeeResult(t) PROVE PhaseInv'
  BY <1>8 DEF IInv, TypeInv, PhaseInv, SeeStarted, SeeResult
<1>9. ASSUME NEW t \in Threads, CallStart(t) PROVE PhaseInv'
  BY <1>9 DEF IInv, TypeInv, PhaseInv, CallStart, BeginStart
<1>10. ASSUME NEW t \in Threads, Connecting(t) PROVE PhaseInv'
  <2>1. generation \in Nat
    BY ContractAssumption DEF IInv, TypeInv, ClientTypes
  <2>2. CASE StartFails
    BY <2>1, <1>10, <2>2 DEF Connecting, StartFails, IInv, TypeInv, PhaseInv
  <2>3. CASE StartSucceeds
    BY <2>1, <1>10, <2>3 DEF Connecting, StartSucceeds, IInv, TypeInv, PhaseInv
  <2>4. QED
    BY <1>10, <2>2, <2>3 DEF Connecting
<1>11. ASSUME NEW t \in Threads, SetClientState(t) PROVE PhaseInv'
  BY <1>11 DEF IInv, TypeInv, PhaseInv, SetClientState
<1>12. ASSUME NEW t \in Threads, Restart(t) \/ CheckAttempts(t) \/ ClaimRestart(t) PROVE PhaseInv'
  BY <1>12 DEF IInv, TypeInv, PhaseInv, Restart, CheckAttempts, ClaimRestart
<1>13. ASSUME NEW t \in Threads, SpawnRestart(t) PROVE PhaseInv'
  BY <1>13 DEF IInv, TypeInv, PhaseInv, SpawnRestart
<1>14. ASSUME NEW r \in Restarters, WaitOver(r) \/ Recheck(r) PROVE PhaseInv'
  BY <1>14 DEF IInv, TypeInv, PhaseInv, WaitOver, Recheck
<1>15. CASE ConnectedFlips
  BY <1>15 DEF IInv, PhaseInv, ConnectedFlips
<1>16. CASE UNCHANGED vars
  BY <1>16 DEF IInv, PhaseInv, vars
<1>17. QED
  BY <1>3, <1>4, <1>5, <1>6, <1>7, <1>8, <1>9, <1>10, <1>11, <1>12, <1>13, <1>14, <1>15, <1>16
  DEF Next, ThreadStep, StartClient, RestartStep

\* ValueInv is preserved.
LEMMA ValueStep == IInv /\ [Next]_vars => ValueInv'
<1> SUFFICES ASSUME IInv, [Next]_vars PROVE ValueInv'
  OBVIOUS
<1> USE DEF contractVars, bluezVars, stateVars, deviceVars, Goto, AfterCall, IsStarted
<1>1. pc \in [Threads -> Pcs] /\ {"init", "dbus", "reader"} \subseteq Threads
  BY DEF IInv, TypeInv, Threads, Fixed
<1>2. \A r \in Restarters : r \in Threads /\ r \notin Fixed
  BY DeviceAssumption DEF Threads
<1>3. CASE InitStep
  BY <1>1, <1>3
  DEF IInv, TypeInv, FlagTypes, ValueInv, Untouched, InitStep, Subscribe, ReadConnected,
      StoreConnected, CheckConnected
<1>4. CASE ConnectedChanged
  BY <1>1, <1>4 DEF IInv, ValueInv, Untouched, ConnectedChanged
<1>5. CASE DbusStep
  BY <1>1, <1>5
  DEF IInv, ValueInv, Untouched, DbusStep, Branch, ResetAttempts, StopClient, JoinReader,
      OwnerStops
<1>6. CASE DataReceived \/ LinkLost
  BY <1>1, <1>6 DEF IInv, ValueInv, Untouched, DataReceived, LinkLost, ReaderStops
<1>7. CASE ReaderStep
  BY <1>1, <1>7
  DEF IInv, ValueInv, Untouched, ReaderStep, DataHandled, ReaderEnds, LossReported, ReaderLeaves,
      ReportLoss
<1>8. ASSUME NEW t \in Threads, SeeStarted(t) \/ SeeResult(t) PROVE ValueInv'
  BY <1>1, <1>8 DEF IInv, ValueInv, Untouched, SeeStarted, SeeResult
<1>9. ASSUME NEW t \in Threads, CallStart(t) PROVE ValueInv'
  BY <1>1, <1>9 DEF IInv, ValueInv, Untouched, CallStart, BeginStart
<1>10. ASSUME NEW t \in Threads, Connecting(t) PROVE ValueInv'
  BY <1>10 DEF IInv, ValueInv, Untouched, Connecting, StartFails, StartSucceeds
<1>11. ASSUME NEW t \in Threads, SetClientState(t) PROVE ValueInv'
  BY <1>1, <1>11 DEF IInv, ValueInv, Untouched, SetClientState
<1>12. ASSUME NEW t \in Threads, Restart(t) \/ CheckAttempts(t) \/ ClaimRestart(t) PROVE ValueInv'
  BY <1>1, <1>12 DEF IInv, ValueInv, Untouched, Restart, CheckAttempts, ClaimRestart
<1>13. ASSUME NEW t \in Threads, SpawnRestart(t) PROVE ValueInv'
  BY <1>1, <1>13 DEF IInv, ValueInv, Untouched, SpawnRestart
<1>14. ASSUME NEW r \in Restarters, WaitOver(r) \/ Recheck(r) PROVE ValueInv'
  BY <1>1, <1>14 DEF IInv, ValueInv, Untouched, WaitOver, Recheck
<1>15. CASE ConnectedFlips
  BY <1>15 DEF IInv, ValueInv, Untouched, ConnectedFlips
<1>16. CASE UNCHANGED vars
  BY <1>16 DEF IInv, ValueInv, Untouched, vars
<1>17. QED
  BY <1>3, <1>4, <1>5, <1>6, <1>7, <1>8, <1>9, <1>10, <1>11, <1>12, <1>13, <1>14, <1>15, <1>16
  DEF Next, ThreadStep, StartClient, RestartStep

\* SignalInv is preserved.
LEMMA SignalStep == IInv /\ [Next]_vars => SignalInv'
<1> SUFFICES ASSUME IInv, [Next]_vars PROVE SignalInv'
  OBVIOUS
<1> USE DEF contractVars, bluezVars, stateVars, deviceVars, Goto, AfterCall, IsStarted
<1>1. pc \in [Threads -> Pcs] /\ {"init", "dbus", "reader"} \subseteq Threads
  BY DEF IInv, TypeInv, Threads, Fixed
<1>2. \A r \in Restarters : r \in Threads /\ r \notin Fixed
  BY DeviceAssumption DEF Threads
<1>3. CASE InitStep
  BY <1>3 DEF IInv, SignalInv, InitStep, Subscribe, ReadConnected, StoreConnected, CheckConnected
<1>4. CASE ConnectedChanged
  <2>1. /\ signals # <<>> /\ signals' = Tail(signals)
        /\ value' = Head(signals) /\ bluez' = bluez
    BY <1>4 DEF ConnectedChanged
  <2>2. signals # <<>> /\ bluez = signals[Len(signals)]
    BY <2>1 DEF IInv, SignalInv
  <2>3. /\ Tail(signals) = <<>> => signals[Len(signals)] = Head(signals)
        /\ Tail(signals) # <<>> => Tail(signals)[Len(Tail(signals))] = signals[Len(signals)]
    BY <2>1, HandledFirst DEF IInv, TypeInv, FlagTypes
  <2>4. QED
    BY <2>1, <2>2, <2>3, Zenon DEF SignalInv
<1>5. CASE DbusStep
  BY <1>5 DEF IInv, SignalInv, DbusStep, Branch, ResetAttempts, StopClient, JoinReader, OwnerStops
<1>6. CASE DataReceived \/ LinkLost
  BY <1>6 DEF IInv, SignalInv, DataReceived, LinkLost, ReaderStops
<1>7. CASE ReaderStep
  BY <1>7
  DEF IInv, SignalInv, ReaderStep, DataHandled, ReaderEnds, LossReported, ReaderLeaves, ReportLoss
<1>8. ASSUME NEW t \in Threads, SeeStarted(t) \/ SeeResult(t) PROVE SignalInv'
  BY <1>8 DEF IInv, SignalInv, SeeStarted, SeeResult
<1>9. ASSUME NEW t \in Threads, CallStart(t) PROVE SignalInv'
  BY <1>9 DEF IInv, SignalInv, CallStart, BeginStart
<1>10. ASSUME NEW t \in Threads, Connecting(t) PROVE SignalInv'
  <2>1. Append(signals, TRUE) # <<>> /\ Append(signals, TRUE)[Len(Append(signals, TRUE))] = TRUE
    BY SentLast DEF IInv, TypeInv, FlagTypes
  <2>2. \/ UNCHANGED <<bluez, signals, value>>
        \/ /\ bluez' = TRUE /\ value' = value
           /\ signals' = IF bluez THEN signals ELSE Append(signals, TRUE)
    BY <1>10 DEF Connecting
  <2>3. QED
    BY <2>1, <2>2 DEF IInv, SignalInv
<1>11. ASSUME NEW t \in Threads, SetClientState(t) PROVE SignalInv'
  BY <1>11 DEF IInv, SignalInv, SetClientState
<1>12. ASSUME NEW t \in Threads, Restart(t) \/ CheckAttempts(t) \/ ClaimRestart(t) PROVE SignalInv'
  BY <1>12 DEF IInv, SignalInv, Restart, CheckAttempts, ClaimRestart
<1>13. ASSUME NEW t \in Threads, SpawnRestart(t) PROVE SignalInv'
  BY <1>13 DEF IInv, SignalInv, SpawnRestart
<1>14. ASSUME NEW r \in Restarters, WaitOver(r) \/ Recheck(r) PROVE SignalInv'
  BY <1>14 DEF IInv, SignalInv, WaitOver, Recheck
<1>15. CASE ConnectedFlips
  <2>1. /\ Append(signals, ~bluez) # <<>>
        /\ Append(signals, ~bluez)[Len(Append(signals, ~bluez))] = ~bluez
    BY SentLast DEF IInv, TypeInv, FlagTypes
  <2>2. QED
    BY <1>15, <2>1 DEF ConnectedFlips, SignalInv
<1>16. CASE UNCHANGED vars
  BY <1>16 DEF IInv, SignalInv, vars
<1>17. QED
  BY <1>3, <1>4, <1>5, <1>6, <1>7, <1>8, <1>9, <1>10, <1>11, <1>12, <1>13, <1>14, <1>15, <1>16
  DEF Next, ThreadStep, StartClient, RestartStep

\* StopInv is preserved: a connection made while the device counts as disconnected is news.
LEMMA StopStep == IInv /\ [Next]_vars => StopInv'
<1> SUFFICES ASSUME IInv, [Next]_vars PROVE StopInv'
  OBVIOUS
<1> USE DEF contractVars, bluezVars, stateVars, deviceVars, Goto, AfterCall, IsStarted
<1>1. pc \in [Threads -> Pcs] /\ {"init", "dbus", "reader"} \subseteq Threads
  BY DEF IInv, TypeInv, Threads, Fixed
<1>2. \A r \in Restarters : r \in Threads /\ r \notin Fixed
  BY DeviceAssumption DEF Threads
<1>3. CASE InitStep
  BY <1>1, <1>3
  DEF IInv, TypeInv, FlagTypes, StopInv, ValueInv, InitStep, Subscribe, ReadConnected,
      StoreConnected, CheckConnected
<1>4. CASE ConnectedChanged
  BY <1>1, <1>4 DEF IInv, StopInv, ValueInv, Untouched, ConnectedChanged
<1>5. CASE DbusStep
  BY <1>5
  DEF IInv, TypeInv, StopInv, DbusStep, Branch, ResetAttempts, StopClient, JoinReader, OwnerStops
<1>6. CASE DataReceived \/ LinkLost
  BY <1>1, <1>6 DEF IInv, StopInv, DataReceived, LinkLost, ReaderStops
<1>7. CASE ReaderStep
  BY <1>1, <1>7
  DEF IInv, StopInv, ReaderStep, DataHandled, ReaderEnds, LossReported, ReaderLeaves, ReportLoss
<1>8. ASSUME NEW t \in Threads, SeeStarted(t) \/ SeeResult(t) PROVE StopInv'
  BY <1>1, <1>8 DEF IInv, StopInv, SeeStarted, SeeResult
<1>9. ASSUME NEW t \in Threads, CallStart(t) PROVE StopInv'
  BY <1>1, <1>9 DEF IInv, StopInv, CallStart, BeginStart
<1>10. ASSUME NEW t \in Threads, Connecting(t) PROVE StopInv'
  <2>1. CASE connected \/ overtaken \/ StartFails
    BY <1>10, <2>1 DEF Connecting, StartFails, IInv, StopInv
  <2>2. CASE ~connected /\ ~overtaken /\ StartSucceeds
    <3>1. ~value
      BY <1>10, <2>2 DEF Connecting, IInv, ValueInv, Untouched
    <3>2. signals = <<>> => ~bluez
      BY <3>1 DEF IInv, SignalInv
    <3>3. Append(signals, TRUE) # <<>>
      BY SentLast DEF IInv, TypeInv, FlagTypes
    <3>4. signals' = IF bluez THEN signals ELSE Append(signals, TRUE)
      BY <1>10, <2>2 DEF Connecting, StartSucceeds, StartFails
    <3>5. QED
      BY <3>2, <3>3, <3>4 DEF StopInv
  <2>3. QED
    BY <1>10, <2>1, <2>2 DEF Connecting, IInv
<1>11. ASSUME NEW t \in Threads, SetClientState(t) PROVE StopInv'
  BY <1>1, <1>11 DEF IInv, StopInv, SetClientState
<1>12. ASSUME NEW t \in Threads, Restart(t) \/ CheckAttempts(t) \/ ClaimRestart(t) PROVE StopInv'
  BY <1>1, <1>12 DEF IInv, StopInv, Restart, CheckAttempts, ClaimRestart
<1>13. ASSUME NEW t \in Threads, SpawnRestart(t) PROVE StopInv'
  BY <1>1, <1>13 DEF IInv, StopInv, SpawnRestart
<1>14. ASSUME NEW r \in Restarters, WaitOver(r) \/ Recheck(r) PROVE StopInv'
  BY <1>1, <1>14 DEF IInv, StopInv, WaitOver, Recheck
<1>15. CASE ConnectedFlips
  BY <1>15 DEF IInv, StopInv, ConnectedFlips
<1>16. CASE UNCHANGED vars
  BY <1>16 DEF IInv, StopInv, vars
<1>17. QED
  BY <1>3, <1>4, <1>5, <1>6, <1>7, <1>8, <1>9, <1>10, <1>11, <1>12, <1>13, <1>14, <1>15, <1>16
  DEF Next, ThreadStep, StartClient, RestartStep

\* PendingInv is preserved.
LEMMA PendingStep == IInv /\ [Next]_vars => PendingInv'
<1> SUFFICES ASSUME IInv, [Next]_vars PROVE PendingInv'
  OBVIOUS
<1> USE DEF contractVars, bluezVars, stateVars, deviceVars, Goto, AfterCall, IsStarted
<1>1. pc \in [Threads -> Pcs] /\ {"init", "dbus", "reader"} \subseteq Threads
  BY DEF IInv, TypeInv, Threads, Fixed
<1>2. \A r \in Restarters : r \in Threads /\ r \notin Fixed
  BY DeviceAssumption DEF Threads
<1>3. CASE InitStep
  BY <1>3
  DEF IInv, TypeInv, PendingInv, InitStep, Subscribe, ReadConnected, StoreConnected,
      CheckConnected
<1>4. CASE ConnectedChanged
  BY <1>4 DEF IInv, TypeInv, PendingInv, ConnectedChanged
<1>5. CASE DbusStep
  BY <1>5
  DEF IInv, TypeInv, PendingInv, DbusStep, Branch, ResetAttempts, StopClient, JoinReader,
      OwnerStops
<1>6. CASE DataReceived \/ LinkLost
  BY <1>6 DEF IInv, TypeInv, PendingInv, DataReceived, LinkLost, ReaderStops
<1>7. CASE ReaderStep
  BY <1>7
  DEF IInv, TypeInv, PendingInv, ReaderStep, DataHandled, ReaderEnds, LossReported, ReaderLeaves,
      ReportLoss
<1>8. ASSUME NEW t \in Threads, SeeStarted(t) \/ SeeResult(t) PROVE PendingInv'
  BY <1>8 DEF IInv, TypeInv, PendingInv, SeeStarted, SeeResult
<1>9. ASSUME NEW t \in Threads, CallStart(t) PROVE PendingInv'
  BY <1>9 DEF IInv, TypeInv, PendingInv, CallStart, BeginStart
<1>10. ASSUME NEW t \in Threads, Connecting(t) PROVE PendingInv'
  BY <1>10 DEF IInv, PendingInv, Connecting, StartFails, StartSucceeds
<1>11. ASSUME NEW t \in Threads, SetClientState(t) PROVE PendingInv'
  BY <1>11 DEF IInv, TypeInv, PendingInv, SetClientState
<1>12. ASSUME NEW t \in Threads, Restart(t) \/ CheckAttempts(t) \/ ClaimRestart(t) PROVE PendingInv'
  BY <1>12 DEF IInv, TypeInv, PendingInv, Restart, CheckAttempts, ClaimRestart
<1>13. ASSUME NEW t \in Threads, SpawnRestart(t) PROVE PendingInv'
  BY <1>2, <1>13 DEF IInv, TypeInv, PendingInv, SpawnRestart
<1>14. ASSUME NEW r \in Restarters, WaitOver(r) \/ Recheck(r) PROVE PendingInv'
  BY <1>2, <1>14 DEF IInv, TypeInv, PendingInv, WaitOver, Recheck
<1>15. CASE ConnectedFlips
  BY <1>15 DEF IInv, PendingInv, ConnectedFlips
<1>16. CASE UNCHANGED vars
  BY <1>16 DEF IInv, PendingInv, vars
<1>17. QED
  BY <1>3, <1>4, <1>5, <1>6, <1>7, <1>8, <1>9, <1>10, <1>11, <1>12, <1>13, <1>14, <1>15, <1>16
  DEF Next, ThreadStep, StartClient, RestartStep

\* DataInv is preserved.
LEMMA DataStep == IInv /\ [Next]_vars => DataInv'
<1> SUFFICES ASSUME IInv, [Next]_vars PROVE DataInv'
  OBVIOUS
<1> USE DEF contractVars, bluezVars, stateVars, deviceVars, Goto, AfterCall, IsStarted
<1>1. pc \in [Threads -> Pcs] /\ {"init", "dbus", "reader"} \subseteq Threads
  BY DEF IInv, TypeInv, Threads, Fixed
<1>2. \A r \in Restarters : r \in Threads /\ r \notin Fixed
  BY DeviceAssumption DEF Threads
<1>3. CASE InitStep
  BY <1>1, <1>3
  DEF IInv, DataInv, InitStep, Subscribe, ReadConnected, StoreConnected, CheckConnected
<1>4. CASE ConnectedChanged
  BY <1>1, <1>4 DEF IInv, DataInv, ConnectedChanged
<1>5. CASE DbusStep
  BY <1>1, <1>5
  DEF IInv, DataInv, DbusStep, Branch, ResetAttempts, StopClient, JoinReader, OwnerStops
<1>6. CASE DataReceived \/ LinkLost
  BY <1>6 DEF IInv, TypeInv, DataInv, DataReceived, LinkLost, ReaderStops
<1>7. CASE ReaderStep
  BY <1>7
  DEF IInv, TypeInv, DataInv, ReaderStep, DataHandled, ReaderEnds, LossReported, ReaderLeaves,
      ReportLoss
<1>8. ASSUME NEW t \in Threads, SeeStarted(t) \/ SeeResult(t) PROVE DataInv'
  BY <1>1, <1>8 DEF IInv, DataInv, SeeStarted, SeeResult
<1>9. ASSUME NEW t \in Threads, CallStart(t) PROVE DataInv'
  BY <1>1, <1>9 DEF IInv, DataInv, CallStart, BeginStart
<1>10. ASSUME NEW t \in Threads, Connecting(t) PROVE DataInv'
  BY <1>10 DEF IInv, DataInv, PhaseInv, Connecting, StartFails, StartSucceeds
<1>11. ASSUME NEW t \in Threads, SetClientState(t) PROVE DataInv'
  BY <1>1, <1>11 DEF IInv, DataInv, SetClientState
<1>12. ASSUME NEW t \in Threads, Restart(t) \/ CheckAttempts(t) \/ ClaimRestart(t) PROVE DataInv'
  BY <1>1, <1>12 DEF IInv, DataInv, Restart, CheckAttempts, ClaimRestart
<1>13. ASSUME NEW t \in Threads, SpawnRestart(t) PROVE DataInv'
  BY <1>1, <1>13 DEF IInv, DataInv, SpawnRestart
<1>14. ASSUME NEW r \in Restarters, WaitOver(r) \/ Recheck(r) PROVE DataInv'
  BY <1>1, <1>14 DEF IInv, DataInv, WaitOver, Recheck
<1>15. CASE ConnectedFlips
  BY <1>15 DEF IInv, DataInv, ConnectedFlips
<1>16. CASE UNCHANGED vars
  BY <1>16 DEF IInv, DataInv, vars
<1>17. QED
  BY <1>3, <1>4, <1>5, <1>6, <1>7, <1>8, <1>9, <1>10, <1>11, <1>12, <1>13, <1>14, <1>15, <1>16
  DEF Next, ThreadStep, StartClient, RestartStep

\* CoverInv is preserved: whoever leaves Coming has found a client, a disconnect or no attempt left,
\* or its request is covered by the restart thread that holds pending.
LEMMA CoverStep == IInv /\ [Next]_vars => CoverInv'
<1> SUFFICES ASSUME IInv, [Next]_vars PROVE CoverInv'
  OBVIOUS
<1> USE DEF contractVars, bluezVars, stateVars, deviceVars, Goto, AfterCall, IsStarted
<1>1. pc \in [Threads -> Pcs] /\ {"init", "dbus", "reader"} \subseteq Threads
  BY DEF IInv, TypeInv, Threads, Fixed
<1>2. \A r \in Restarters : r \in Threads /\ r \notin Fixed
  BY DeviceAssumption DEF Threads
<1>3. CASE InitStep
  BY <1>1, <1>3
  DEF IInv, CoverInv, Coming, InitStep, Subscribe, ReadConnected, StoreConnected, CheckConnected
<1>4. CASE ConnectedChanged
  BY <1>1, <1>4 DEF IInv, CoverInv, Coming, ConnectedChanged
<1>5. CASE DbusStep
  BY <1>1, <1>5
  DEF IInv, CoverInv, Coming, ValueInv, DbusStep, Branch, ResetAttempts, StopClient, JoinReader,
      OwnerStops
<1>6. CASE DataReceived \/ LinkLost
  BY <1>1, <1>6 DEF IInv, CoverInv, Coming, DataReceived, LinkLost, ReaderStops
<1>7. CASE ReaderStep
  BY <1>7
  DEF IInv, TypeInv, CoverInv, Coming, ValueInv, DataInv, ReaderStep, DataHandled, ReaderEnds,
      LossReported, ReaderLeaves, ReportLoss
<1>8. ASSUME NEW t \in Threads, SeeStarted(t) \/ SeeResult(t) PROVE CoverInv'
  BY <1>8 DEF IInv, TypeInv, CoverInv, Coming, SeeStarted, SeeResult
<1>9. ASSUME NEW t \in Threads, CallStart(t) PROVE CoverInv'
  BY <1>9 DEF IInv, CoverInv, CallStart, BeginStart
<1>10. ASSUME NEW t \in Threads, Connecting(t) PROVE CoverInv'
  BY <1>10 DEF IInv, TypeInv, CoverInv, Coming, Connecting, StartFails, StartSucceeds
<1>11. ASSUME NEW t \in Threads, SetClientState(t) PROVE CoverInv'
  BY <1>11 DEF IInv, TypeInv, CoverInv, Coming, SetClientState
<1>12. ASSUME NEW t \in Threads, Restart(t) \/ CheckAttempts(t) \/ ClaimRestart(t) PROVE CoverInv'
  BY <1>12 DEF IInv, TypeInv, CoverInv, Coming, PendingInv, Restart, CheckAttempts, ClaimRestart
<1>13. ASSUME NEW t \in Threads, SpawnRestart(t) PROVE CoverInv'
  BY <1>2, <1>13 DEF IInv, TypeInv, CoverInv, Coming, SpawnRestart
<1>14. ASSUME NEW r \in Restarters, WaitOver(r) \/ Recheck(r) PROVE CoverInv'
  BY <1>14 DEF IInv, TypeInv, CoverInv, Coming, WaitOver, Recheck
<1>15. CASE ConnectedFlips
  BY <1>15 DEF IInv, CoverInv, ConnectedFlips
<1>16. CASE UNCHANGED vars
  BY <1>16 DEF IInv, CoverInv, vars
<1>17. QED
  BY <1>3, <1>4, <1>5, <1>6, <1>7, <1>8, <1>9, <1>10, <1>11, <1>12, <1>13, <1>14, <1>15, <1>16
  DEF Next, ThreadStep, StartClient, RestartStep

\* StateInv is preserved.
LEMMA StateStep == IInv /\ [Next]_vars => StateInv'
<1> SUFFICES ASSUME IInv, [Next]_vars PROVE StateInv'
  OBVIOUS
<1> USE DEF contractVars, bluezVars, stateVars, deviceVars, Goto, AfterCall, IsStarted
<1>1. pc \in [Threads -> Pcs] /\ {"init", "dbus", "reader"} \subseteq Threads
  BY DEF IInv, TypeInv, Threads, Fixed
<1>2. \A r \in Restarters : r \in Threads /\ r \notin Fixed
  BY DeviceAssumption DEF Threads
<1>3. CASE InitStep
  BY <1>3
  DEF IInv, TypeInv, StateInv, Telling, InitStep, Subscribe, ReadConnected, StoreConnected,
      CheckConnected
<1>4. CASE ConnectedChanged
  BY <1>4 DEF IInv, TypeInv, StateInv, Telling, ConnectedChanged
<1>5. CASE DbusStep
  BY <1>1, <1>5
  DEF IInv, StateInv, Telling, DbusStep, Branch, ResetAttempts, StopClient, JoinReader, OwnerStops
<1>6. CASE DataReceived \/ LinkLost
  BY <1>1, <1>6 DEF IInv, StateInv, Telling, DataReceived, LinkLost, ReaderStops
<1>7. CASE ReaderStep
  BY <1>7
  DEF IInv, TypeInv, StateInv, Telling, ReaderStep, DataHandled, ReaderEnds, LossReported,
      ReaderLeaves, ReportLoss
<1>8. ASSUME NEW t \in Threads, SeeStarted(t) \/ SeeResult(t) PROVE StateInv'
  BY <1>8 DEF IInv, TypeInv, StateInv, Telling, SeeStarted, SeeResult
<1>9. ASSUME NEW t \in Threads, CallStart(t) PROVE StateInv'
  BY <1>9 DEF IInv, TypeInv, StateInv, Telling, CallStart, BeginStart
<1>10. ASSUME NEW t \in Threads, Connecting(t) PROVE StateInv'
  BY <1>10 DEF IInv, StateInv, Telling, Connecting, StartFails, StartSucceeds
<1>11. ASSUME NEW t \in Threads, SetClientState(t) PROVE StateInv'
  BY <1>11 DEF IInv, StateInv, SetClientState
<1>12. ASSUME NEW t \in Threads, Restart(t) \/ CheckAttempts(t) \/ ClaimRestart(t) PROVE StateInv'
  BY <1>12 DEF IInv, TypeInv, StateInv, Telling, Restart, CheckAttempts, ClaimRestart
<1>13. ASSUME NEW t \in Threads, SpawnRestart(t) PROVE StateInv'
  BY <1>13 DEF IInv, TypeInv, StateInv, Telling, SpawnRestart
<1>14. ASSUME NEW r \in Restarters, WaitOver(r) \/ Recheck(r) PROVE StateInv'
  BY <1>14 DEF IInv, TypeInv, StateInv, Telling, WaitOver, Recheck
<1>15. CASE ConnectedFlips
  BY <1>15 DEF IInv, StateInv, ConnectedFlips
<1>16. CASE UNCHANGED vars
  BY <1>16 DEF IInv, StateInv, vars
<1>17. QED
  BY <1>3, <1>4, <1>5, <1>6, <1>7, <1>8, <1>9, <1>10, <1>11, <1>12, <1>13, <1>14, <1>15, <1>16
  DEF Next, ThreadStep, StartClient, RestartStep

\* There are finitely many threads.
LEMMA ThreadsFinite == IsFiniteSet(Threads) /\ Cardinality(Threads) \in Nat
<1>1. IsFiniteSet(Fixed)
  <2>1. Fixed = (({} \cup {"init"}) \cup {"dbus"}) \cup {"reader"}
    BY DEF Fixed
  <2>2. QED
    BY <2>1, FS_EmptySet, FS_AddElement
<1>2. IsFiniteSet(Threads)
  BY <1>1, FS_Union, DeviceAssumption DEF Threads
<1>3. QED
  BY <1>2, FS_CardinalityType

\* A step that counts nothing and gives nobody the right to keeps the bound.
LEMMA CountKeeps ==
    ASSUME IInv, Entitled' \subseteq Entitled, attempts' \in {0, attempts}
    PROVE  CountInv'
<1>1. IsFiniteSet(Threads)
  BY ThreadsFinite
<1>2. /\ IsFiniteSet(Entitled) /\ Cardinality(Entitled) \in Nat
      /\ Cardinality(Entitled') \in Nat /\ Cardinality(Threads) \in Nat
      /\ Cardinality(Entitled') <= Cardinality(Entitled)
      /\ Cardinality(Entitled) <= Cardinality(Threads)
  <2>1. Entitled \subseteq Threads
    BY DEF Entitled
  <2>2. QED
    BY <1>1, <2>1, FS_Subset, FS_CardinalityType
<1>3. QED
  BY <1>2, DeviceAssumption DEF IInv, CountInv

\* CountInv is preserved: whoever counts an attempt gives up the right to one.
LEMMA CountStep == IInv /\ [Next]_vars => CountInv'
<1> SUFFICES ASSUME IInv, [Next]_vars PROVE CountInv'
  OBVIOUS
<1> USE DEF contractVars, bluezVars, stateVars, deviceVars, Goto, AfterCall
<1>1. pc \in [Threads -> Pcs] /\ {"init", "dbus", "reader"} \subseteq Threads
  BY DEF IInv, TypeInv, Threads, Fixed
<1>2. /\ IsFiniteSet(Entitled) /\ IsFiniteSet(Entitled')
      /\ Cardinality(Entitled') \in Nat /\ Cardinality(Threads) \in Nat
      /\ Cardinality(Entitled') <= Cardinality(Threads)
  <2>1. Entitled \subseteq Threads /\ Entitled' \subseteq Threads
    BY DEF Entitled
  <2>2. QED
    BY <2>1, ThreadsFinite, FS_Subset, FS_CardinalityType
<1>3. ASSUME NEW t \in Threads, CheckAttempts(t)
      PROVE  CountInv'
  <2>1. CASE attempts < MaxAttempts /\ attempts' = attempts
    BY <1>2, <2>1, DeviceAssumption DEF IInv, TypeInv, CounterTypes, CountInv
  <2>2. CASE attempts >= MaxAttempts
    <3>1. Entitled' \subseteq Entitled /\ attempts' = attempts
      BY <1>3, <2>2 DEF CheckAttempts, Entitled
    <3>2. QED
      BY <3>1, CountKeeps
  <2>3. QED
    BY <1>3, <2>1, <2>2, DeviceAssumption DEF CheckAttempts, IInv, TypeInv, CounterTypes
<1>4. ASSUME NEW t \in Threads, SpawnRestart(t)
      PROVE  CountInv'
  <2>1. t \in Entitled /\ Entitled' = Entitled \ {t} /\ attempts' = attempts + 1
    BY <1>1, <1>4 DEF SpawnRestart, Entitled
  <2>2. /\ Cardinality(Entitled') = Cardinality(Entitled) - 1
        /\ Cardinality(Entitled) \in Nat
    BY <1>2, <2>1, FS_RemoveElement, FS_CardinalityType
  <2>3. QED
    BY <2>1, <2>2, DeviceAssumption DEF IInv, TypeInv, CounterTypes, CountInv
<1>5. CASE InitStep \/ DbusStep
  <2>1. Entitled' \subseteq Entitled /\ attempts' \in {0, attempts}
    BY <1>1, <1>5
    DEF InitStep, Subscribe, ReadConnected, StoreConnected, CheckConnected, DbusStep, Branch,
        ResetAttempts, StopClient, JoinReader, Entitled
  <2>2. QED
    BY <2>1, CountKeeps
<1>6. CASE ConnectedChanged \/ DataReceived \/ LinkLost \/ ReaderStep
  <2>1. Entitled' \subseteq Entitled /\ attempts' \in {0, attempts}
    BY <1>1, <1>6
    DEF ConnectedChanged, DataReceived, LinkLost, ReaderStep, DataHandled, ReaderEnds,
        LossReported, Entitled
  <2>2. QED
    BY <2>1, CountKeeps
<1>7. ASSUME NEW t \in Threads,
             StartClient(t) \/ SetClientState(t) \/ Restart(t) \/ ClaimRestart(t)
      PROVE  CountInv'
  <2>1. Entitled' \subseteq Entitled /\ attempts' \in {0, attempts}
    BY <1>1, <1>7
    DEF StartClient, SeeStarted, CallStart, Connecting, SeeResult, SetClientState, Restart,
        ClaimRestart, Entitled
  <2>2. QED
    BY <2>1, CountKeeps
<1>8. ASSUME NEW r \in Restarters, WaitOver(r) \/ Recheck(r)
      PROVE  CountInv'
  <2>1. Entitled' \subseteq Entitled /\ attempts' \in {0, attempts}
    BY <1>1, <1>8 DEF WaitOver, Recheck, Entitled, Threads
  <2>2. QED
    BY <2>1, CountKeeps
<1>9. CASE ConnectedFlips \/ UNCHANGED vars
  <2>1. Entitled' \subseteq Entitled /\ attempts' \in {0, attempts}
    BY <1>9 DEF ConnectedFlips, vars, Entitled
  <2>2. QED
    BY <2>1, CountKeeps
<1>10. QED
  BY <1>3, <1>4, <1>5, <1>6, <1>7, <1>8, <1>9 DEF Next, ThreadStep, RestartStep

-----------------------------------------------------------------------------
\* The theorems.

\* The invariant holds when the device is created.
LEMMA InitInv == Init => IInv
<1> SUFFICES ASSUME Init PROVE IInv
  OBVIOUS
<1>1. {"init", "dbus", "reader"} \subseteq Threads
  BY DEF Threads, Fixed
<1>2. TypeInv
  <2>1. ClientTypes
    BY ContractAssumption DEF Init, ContractInit, ClientTypes
  <2>2. FlagTypes
    BY EmptySeq DEF Init, FlagTypes
  <2>3. CounterTypes
    BY DeviceAssumption DEF Init, CounterTypes, States
  <2>4. pc \in [Threads -> Pcs]
    BY DEF Init, Pcs
  <2>5. QED
    BY <2>1, <2>2, <2>3, <2>4 DEF TypeInv
<1>3. /\ PhaseInv /\ ValueInv /\ SignalInv /\ StopInv /\ PendingInv /\ DataInv
      /\ CoverInv /\ StateInv
  BY <1>1
  DEF Init, ContractInit, PhaseInv, ValueInv, Untouched, SignalInv, StopInv, PendingInv, DataInv,
      CoverInv, StateInv, IsStarted
<1>4. CountInv
  <2>1. Entitled = {}
    BY DEF Init, Entitled
  <2>2. QED
    BY <2>1, FS_EmptySet, ThreadsFinite, DeviceAssumption DEF Init, CountInv
<1>5. QED
  BY <1>2, <1>3, <1>4 DEF IInv

\* In every reachable state the invariant holds.
THEOREM Invariance == Spec => []IInv
<1>1. IInv /\ [Next]_vars => IInv'
  BY PlaceStep, ClientTypesStep, FlagTypesStep, CounterTypesStep, PhaseStep, ValueStep,
     SignalStep, StopStep, PendingStep, DataStep, CoverStep, StateStep, CountStep
  DEF IInv, TypeInv
<1>2. QED
  BY InitInv, <1>1, PTL DEF Spec

\* At rest nobody is on the way to anything.
LEMMA AtRest ==
    ASSUME IInv, Quiet
    PROVE  /\ phase # "starting"
           /\ \A t \in Threads : pc[t] \notin Coming \cup Telling
           /\ pc["init"] = "idle" /\ pc["dbus"] = "idle"
BY DEF IInv, Quiet, PhaseInv, Coming, Telling, Threads, Fixed

\* A connected device without a client has a restart coming, unless its attempts are used up
\* (Device.cpp:112, 129), and all variables have their types.
THEOREM Covered == Spec => []RestartCovers
<1>1. ASSUME IInv PROVE TypeOK
  <2>1. Cardinality(Entitled) \in Nat
    <3>1. Entitled \subseteq Threads
      BY DEF Entitled
    <3>2. QED
      BY <3>1, ThreadsFinite, FS_Subset, FS_CardinalityType
  <2>2. attempts \in 0..(MaxAttempts + Cardinality(Threads))
    BY <1>1, <2>1, ThreadsFinite, DeviceAssumption DEF IInv, TypeInv, CounterTypes, CountInv
  <2>3. /\ {bluez, value, connected, readValue, pending} \subseteq BOOLEAN
        /\ {overtaken, misstated} \subseteq BOOLEAN
    BY <1>1, Zenon DEF IInv, TypeInv, FlagTypes
  <2>4. QED
    BY <1>1, <2>2, <2>3 DEF IInv, TypeInv, ClientTypes, FlagTypes, CounterTypes, TypeOK
<1>2. ASSUME IInv, Quiet PROVE ~overtaken /\ connected /\ phase = "down" => attempts >= MaxAttempts
  BY <1>2, AtRest DEF IInv, CoverInv
<1>3. IInv => RestartCovers
  BY <1>1, <1>2 DEF RestartCovers
<1>4. QED
  BY Invariance, <1>3, PTL

\* At rest the device knows what BlueZ knows and runs no client while disconnected, unless
\* Init() has stored an older value (Device.cpp:83-104).
THEOREM DisconnectWins == Spec => []StopWins
<1>1. ASSUME IInv, Quiet, ~overtaken PROVE connected = bluez
  BY <1>1, AtRest DEF Quiet, IInv, ValueInv, SignalInv
<1>2. ASSUME IInv, Quiet, ~overtaken, ~connected PROVE phase = "down"
  BY <1>2, AtRest DEF Quiet, IInv, TypeInv, ClientTypes, StopInv
<1>3. IInv => StopWins
  BY <1>1, <1>2 DEF StopWins
<1>4. QED
  BY Invariance, <1>3, PTL

\* At rest the client state is Connected exactly while there is a client, unless it was stored
\* after the client had changed again (Device.cpp:47, 174).
THEOREM StateShown == Spec => []StateTrue
<1>1. ASSUME IInv, Quiet, ~misstated PROVE state = "Connected" <=> phase = "up"
  BY <1>1, AtRest DEF IInv, TypeInv, ClientTypes, StateInv, IsStarted
<1>2. IInv => StateTrue
  BY <1>1 DEF StateTrue
<1>3. QED
  BY Invariance, <1>2, PTL

\* A restart is dropped for a disconnect only when there is one, or news of one on its way
\* (Device.cpp:115).
THEOREM Explained == Spec => []DropExplained
<1>1. ASSUME IInv, NEW t \in Threads, pc[t] = "restart", ~connected, ~overtaken, signals = <<>>
      PROVE  ~bluez
  <2>1. connected = value
    BY <1>1 DEF IInv, ValueInv, Untouched
  <2>2. QED
    BY <1>1, <2>1 DEF IInv, SignalInv
<1>2. IInv => DropExplained
  BY <1>1 DEF DropExplained
<1>3. QED
  BY Invariance, <1>2, PTL
=============================================================================
