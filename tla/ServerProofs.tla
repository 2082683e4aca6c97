---------------------------- MODULE ServerProofs ----------------------------
(***************************************************************************)
(* Proofs that what a user interface shows is current when nothing is      *)
(* under way, for any number of clients, devices, events and requests.     *)
(* Every part of IInv is shown to be preserved by every step.              *)
(***************************************************************************)
EXTENDS Server, SequenceTheorems, TLAPS

-----------------------------------------------------------------------------
\* The inductive invariant.

Messages == [topic : Topics, to : Clients \cup {All}]
Firing == {"loop"} \cup Devices

\* Types, of which TypeOK states all but the shape of the queue and of the views.
DeviceTypes ==
    /\ phase \in {"devices", "added", "ready"}
    /\ heard \subseteq known /\ known \subseteq Devices
    /\ connected \in [Devices -> BOOLEAN]
    /\ capability \in [Devices -> 0..1]
    /\ active \in Devices \cup {NoDevice}
    /\ unannounced \subseteq Topics

ThreadTypes ==
    /\ pc \in [Threads -> {"idle", "fire", "select", "tellActive", "tellConnected", "added"}]
    /\ subject \in [Threads -> Devices \cup {NoDevice}]
    /\ \A d \in Devices : subject[d] = d

QueueTypes == deferred \in Seq(Messages)

RequestTypes ==
    /\ \A r \in pending :
         r.from \in Clients /\ r.device \in Devices \cup {NoDevice} /\ r.topic \in Topics
    /\ socket \in [Clients -> {"none", "open", "closed"}]
    /\ owed \in [Clients -> {"nothing", "answer", "nothing any more"}]

ViewTypes == view = [c \in Clients |-> view[c]]

\* Nobody is let in before the server listens, and nobody has been told anything then.
SocketInv ==
    \A c \in Clients : socket[c] = "none" =>
        \A t \in Topics : view[c][t] = Unknown
EarlyInv == phase # "ready" => \A c \in Clients : socket[c] = "none"

\* The active device is a connected one, except while another one is being selected. The server
\* hears of a device that is in the map.
Candidate == active \in known /\ connected[active]
ActiveInv ==
    /\ active # NoDevice /\ pc["dbus"] # "select" => Candidate
    /\ pc["dbus"] = "added" => subject["dbus"] \in known

\* A broadcast of the topic has been deferred to the loop.
Announced(topic) == \E i \in DOMAIN deferred : deferred[i] = [topic |-> topic, to |-> All]

\* A thread that has changed the topic is about to announce it, or to hold it back.
Announcing(topic) ==
    \/ /\ topic = "headphones"
       /\ pc["dbus"] \notin {"idle", "added"} /\ subject["dbus"] # NoDevice
    \/ /\ topic = "info"
       /\ \/ pc["dbus"] = "tellActive"
          \/ pc["dbus"] = "select" /\ active # NoDevice /\ ~Candidate
          \/ \E t \in Firing : pc[t] = "fire" /\ subject[t] = active

\* What a client shows and is not current will be sent again.
FreshInv ==
    \A c \in Clients, t \in Topics \ unannounced :
        Shows(c, t) \/ Announced(t) \/ Announcing(t)

IInv ==
    /\ DeviceTypes
    /\ ThreadTypes
    /\ QueueTypes
    /\ RequestTypes
    /\ ViewTypes
    /\ SocketInv
    /\ EarlyInv
    /\ ActiveInv
    /\ FreshInv
-----------------------------------------------------------------------------
\* What is deferred to the loop.

\* What was deferred stays deferred when something is added behind it, and that is deferred too.
LEMMA DeferKeeps ==
    ASSUME NEW m \in Messages, deferred \in Seq(Messages), deferred' = Append(deferred, m)
    PROVE  /\ deferred' \in Seq(Messages)
           /\ \A topic \in Topics : Announced(topic) => Announced(topic)'
           /\ \A topic \in Topics : m = [topic |-> topic, to |-> All] => Announced(topic)'
<1>1. /\ deferred' \in Seq(Messages) /\ Len(deferred) \in Nat
      /\ DOMAIN deferred = 1..Len(deferred) /\ DOMAIN deferred' = 1..(Len(deferred) + 1)
      /\ \A i \in 1..Len(deferred) : deferred'[i] = deferred[i]
      /\ deferred'[Len(deferred) + 1] = m
  OBVIOUS
<1>2. QED
  BY <1>1 DEF Announced

\* The first of what is deferred is run, and the rest stays.
LEMMA RunKeeps ==
    ASSUME deferred \in Seq(Messages), deferred # <<>>, deferred' = Tail(deferred)
    PROVE  /\ deferred' \in Seq(Messages) /\ Head(deferred) \in Messages
           /\ \A topic \in Topics : Announced(topic) =>
                Announced(topic)' \/ Head(deferred) = [topic |-> topic, to |-> All]
<1>1. /\ deferred' \in Seq(Messages) /\ Head(deferred) \in Messages /\ Head(deferred) = deferred[1]
      /\ Len(deferred) \in Nat \ {0}
      /\ DOMAIN deferred = 1..Len(deferred) /\ DOMAIN deferred' = 1..(Len(deferred) - 1)
      /\ \A i \in 1..(Len(deferred) - 1) : deferred'[i] = deferred[i + 1]
  <2>1. Len(deferred) \in Nat /\ Len(deferred) # 0
    BY EmptySeq
  <2>2. QED
    BY <2>1
<1>2. \A i \in 1..Len(deferred) :
         i = 1 \/ (i - 1 \in DOMAIN deferred' /\ deferred'[i - 1] = deferred[i])
  BY <1>1
<1>3. QED
  BY <1>1, <1>2 DEF Announced

\* What a client is told of a topic, by what it depends on.
LEMMA NowOf ==
    /\ Now("headphones") = {<<d, connected[d]>> : d \in known}
    /\ Now("info") = IF active = NoDevice THEN <<>>
                     ELSE <<active, connected[active], capability[active]>>
    /\ Now("defaultbluetooth") = powered
    /\ Now("settings") = setting
BY DEF Now

\* A message says what the topic is in all shapes a message has.
LEMMA MessageOf ==
    /\ \A topic \in Topics, to \in Clients \cup {All} : [topic |-> topic, to |-> to] \in Messages
    /\ \A m \in Messages : m.topic \in Topics /\ m.to \in Clients \cup {All}
BY DEF Messages

\* A client that is told nothing and whose topic has not changed is as well informed as before.
LEMMA Kept ==
    ASSUME FreshInv, NEW c \in Clients, NEW topic \in Topics, topic \notin unannounced,
           socket'[c] = "open" => socket[c] = "open" /\ view'[c][topic] = view[c][topic],
           Now(topic)' = Now(topic),
           Announced(topic) => Announced(topic)',
           Announcing(topic) => Announcing(topic)'
    PROVE  Shows(c, topic)' \/ Announced(topic)' \/ Announcing(topic)'
BY DEF FreshInv, Shows

-----------------------------------------------------------------------------
\* Every part is preserved.

\* The types of the devices are preserved.
LEMMA DeviceTypesStep == IInv /\ [Next]_vars => DeviceTypes'
<1> SUFFICES ASSUME IInv, [Next]_vars PROVE DeviceTypes'
  OBVIOUS
<1> USE DEF world, talk, Count
<1>1. /\ pc \in [Threads -> {"idle", "fire", "select", "tellActive", "tellConnected", "added"}]
      /\ Firing \cup {"dbus"} = Threads /\ "dbus" \notin Firing /\ "loop" \notin Devices
      /\ NoDevice \notin Devices
  BY ServerAssumption DEF IInv, ThreadTypes, Threads, Firing
<1>2. CASE SubscribeDevices
  BY <1>2 DEF IInv, DeviceTypes, SubscribeDevices
<1>3. CASE SubscribeAdded
  BY <1>3 DEF IInv, DeviceTypes, SubscribeAdded
<1>4. CASE RunDeferred
  BY <1>4 DEF IInv, DeviceTypes, RunDeferred, Tell
<1>5. ASSUME NEW c \in Clients, Open(c) PROVE DeviceTypes'
  BY <1>5 DEF IInv, DeviceTypes, Open
<1>6. ASSUME NEW c \in Clients, Close(c) PROVE DeviceTypes'
  BY <1>6 DEF IInv, DeviceTypes, Close
<1>7. ASSUME NEW c \in Clients, SetSetting(c) PROVE DeviceTypes'
  BY <1>7 DEF IInv, DeviceTypes, Topics, SetSetting, Message, Broadcast, Silent, Defer
<1>8. ASSUME NEW c \in Clients, EnableDefaultBluetoothAdapter(c) PROVE DeviceTypes'
  BY <1>8 DEF IInv, DeviceTypes, EnableDefaultBluetoothAdapter, Message, Ask
<1>9. ASSUME NEW c \in Clients, NEW topics \in SUBSET Topics, Get(c, topics) PROVE DeviceTypes'
  BY <1>9 DEF IInv, DeviceTypes, Get, Message, Tell
<1>10. ASSUME NEW c \in Clients, NEW d \in Devices, SetCapabilities(c, d) PROVE DeviceTypes'
  BY <1>10 DEF IInv, DeviceTypes, SetCapabilities, Message
<1>11. ASSUME NEW c \in Clients, NEW d \in Devices, NEW wish \in BOOLEAN,
             ConnectDevice(c, d, wish)
      PROVE  DeviceTypes'
  BY <1>11 DEF IInv, DeviceTypes, ConnectDevice, Message, Ask, Tell
<1>12. CASE Select
  BY <1>12 DEF IInv, DeviceTypes, Select
<1>13. CASE TellActive
  BY <1>13 DEF IInv, DeviceTypes, TellActive, Broadcast, Defer, Nothing
<1>14. CASE TellConnected
  BY <1>14 DEF IInv, DeviceTypes, Topics, TellConnected, Broadcast, Silent, Defer, Nothing
<1>15. CASE PoweredChanges
  BY <1>15 DEF IInv, DeviceTypes, PoweredChanges, Powered, Broadcast, Defer, Nothing
<1>16. CASE AdapterRemoved
  BY <1>16 DEF IInv, DeviceTypes, AdapterRemoved, Powered, Drop, Broadcast, Defer, Nothing
<1>17. ASSUME NEW d \in Devices, ConnectedChanges(d) PROVE DeviceTypes'
  BY <1>17 DEF IInv, DeviceTypes, ConnectedChanges
<1>18. ASSUME NEW d \in Devices, DeviceAdded(d) PROVE DeviceTypes'
  BY <1>18 DEF IInv, DeviceTypes, Topics, DeviceAdded, Silent
<1>19. ASSUME NEW d \in Devices, DeviceRemoved(d) PROVE DeviceTypes'
  BY <1>19 DEF IInv, DeviceTypes, Topics, DeviceRemoved, Drop, Silent
<1>20. ASSUME NEW r \in pending, Reply(r) PROVE DeviceTypes'
  BY <1>20 DEF IInv, DeviceTypes, Reply, Defer
<1>21. ASSUME NEW d \in Devices, CapabilityChanges(d) PROVE DeviceTypes'
  BY <1>21 DEF IInv, DeviceTypes, CapabilityChanges
<1>22. ASSUME NEW t \in Firing, Fire(t) PROVE DeviceTypes'
  BY <1>22 DEF IInv, DeviceTypes, Topics, Fire, Broadcast, Silent, Defer, Nothing
<1>23. CASE UNCHANGED vars
  BY <1>23 DEF IInv, DeviceTypes, vars
<1>25. CASE HearsAdded
  BY <1>25 DEF IInv, DeviceTypes, ActiveInv, HearsAdded, Goto
<1>24. QED
  BY <1>2, <1>3, <1>4, <1>5, <1>6, <1>7, <1>8, <1>9, <1>10, <1>11, <1>12, <1>13, <1>14, <1>15,
     <1>16, <1>17, <1>18, <1>19, <1>20, <1>21, <1>22, <1>23, <1>25
  DEF Next, Loop, Dbus, Firing

\* Threads and their devices stay what they are.
LEMMA ThreadTypesStep == IInv /\ [Next]_vars => ThreadTypes'
<1> SUFFICES ASSUME IInv, [Next]_vars PROVE ThreadTypes'
  OBVIOUS
<1> USE DEF world, talk, Count
<1>1. /\ pc \in [Threads -> {"idle", "fire", "select", "tellActive", "tellConnected", "added"}]
      /\ Firing \cup {"dbus"} = Threads /\ "dbus" \notin Firing /\ "loop" \notin Devices
      /\ NoDevice \notin Devices
  BY ServerAssumption DEF IInv, ThreadTypes, Threads, Firing
<1>2. CASE SubscribeDevices
  BY <1>2 DEF IInv, ThreadTypes, SubscribeDevices
<1>3. CASE SubscribeAdded
  BY <1>3 DEF IInv, ThreadTypes, SubscribeAdded
<1>4. CASE RunDeferred
  BY <1>4 DEF IInv, ThreadTypes, RunDeferred, Tell, At
<1>5. ASSUME NEW c \in Clients, Open(c) PROVE ThreadTypes'
  BY <1>5 DEF IInv, ThreadTypes, Open, At
<1>6. ASSUME NEW c \in Clients, Close(c) PROVE ThreadTypes'
  BY <1>6 DEF IInv, ThreadTypes, Close, At
<1>7. ASSUME NEW c \in Clients, SetSetting(c) PROVE ThreadTypes'
  BY <1>7 DEF IInv, ThreadTypes, SetSetting, Message, Defer
<1>8. ASSUME NEW c \in Clients, EnableDefaultBluetoothAdapter(c) PROVE ThreadTypes'
  BY <1>8 DEF IInv, ThreadTypes, EnableDefaultBluetoothAdapter, Message, Ask
<1>9. ASSUME NEW c \in Clients, NEW topics \in SUBSET Topics, Get(c, topics) PROVE ThreadTypes'
  BY <1>9 DEF IInv, ThreadTypes, Get, Message, Tell
<1>10. ASSUME NEW c \in Clients, NEW d \in Devices, SetCapabilities(c, d) PROVE ThreadTypes'
  BY <1>1, <1>10 DEF IInv, ThreadTypes, Threads, SetCapabilities, Message, Goto
<1>11. ASSUME NEW c \in Clients, NEW d \in Devices, NEW wish \in BOOLEAN,
             ConnectDevice(c, d, wish)
      PROVE  ThreadTypes'
  BY <1>11 DEF IInv, ThreadTypes, ConnectDevice, Message, Ask, Tell
<1>12. CASE Select
  BY <1>12 DEF IInv, ThreadTypes, Select, Goto
<1>13. CASE TellActive
  BY <1>13 DEF IInv, ThreadTypes, TellActive, Defer, Goto
<1>14. CASE TellConnected
  BY <1>1, <1>14 DEF IInv, ThreadTypes, Firing, TellConnected, Defer, Goto
<1>15. CASE PoweredChanges
  BY <1>15 DEF IInv, ThreadTypes, PoweredChanges, Powered, At, Defer
<1>16. CASE AdapterRemoved
  BY <1>16 DEF IInv, ThreadTypes, AdapterRemoved, Powered, Drop, At, Defer
<1>17. ASSUME NEW d \in Devices, ConnectedChanges(d) PROVE ThreadTypes'
  BY <1>1, <1>17 DEF IInv, ThreadTypes, Firing, ConnectedChanges, Goto
<1>18. ASSUME NEW d \in Devices, DeviceAdded(d) PROVE ThreadTypes'
  BY <1>1, <1>18 DEF IInv, ThreadTypes, Firing, DeviceAdded, Goto
<1>19. ASSUME NEW d \in Devices, DeviceRemoved(d) PROVE ThreadTypes'
  BY <1>19 DEF IInv, ThreadTypes, DeviceRemoved, Goto, Drop
<1>20. ASSUME NEW r \in pending, Reply(r) PROVE ThreadTypes'
  BY <1>20 DEF IInv, ThreadTypes, Reply, At, Defer
<1>21. ASSUME NEW d \in Devices, CapabilityChanges(d) PROVE ThreadTypes'
  BY <1>21 DEF IInv, ThreadTypes, CapabilityChanges, Goto
<1>22. ASSUME NEW t \in Firing, Fire(t) PROVE ThreadTypes'
  BY <1>1, <1>22 DEF IInv, ThreadTypes, Threads, Fire, Goto, Defer
<1>23. CASE UNCHANGED vars
  BY <1>23 DEF IInv, ThreadTypes, vars
<1>25. CASE HearsAdded
  BY <1>1, <1>25 DEF IInv, ThreadTypes, Firing, HearsAdded, Goto
<1>24. QED
  BY <1>2, <1>3, <1>4, <1>5, <1>6, <1>7, <1>8, <1>9, <1>10, <1>11, <1>12, <1>13, <1>14, <1>15,
     <1>16, <1>17, <1>18, <1>19, <1>20, <1>21, <1>22, <1>23, <1>25
  DEF Next, Loop, Dbus, Firing

\* What is deferred are messages.
LEMMA QueueTypesStep == IInv /\ [Next]_vars => QueueTypes'
<1> SUFFICES ASSUME IInv, [Next]_vars PROVE QueueTypes'
  OBVIOUS
<1> USE DEF world, talk, Count
<1>1. /\ pc \in [Threads -> {"idle", "fire", "select", "tellActive", "tellConnected", "added"}]
      /\ Firing \cup {"dbus"} = Threads /\ "dbus" \notin Firing /\ "loop" \notin Devices
      /\ NoDevice \notin Devices
  BY ServerAssumption DEF IInv, ThreadTypes, Threads, Firing
<1>0. \A topic \in Topics, to \in Clients \cup {All} :
        Append(deferred, [topic |-> topic, to |-> to]) \in Seq(Messages)
  <2>1. deferred \in Seq(Messages)
    BY DEF IInv, QueueTypes
  <2>2. \A m \in Messages : Append(deferred, m) \in Seq(Messages)
    BY <2>1
  <2>3. QED
    BY <2>2, MessageOf
<1>2. CASE SubscribeDevices
  BY <1>0, <1>2 DEF IInv, QueueTypes, SubscribeDevices
<1>3. CASE SubscribeAdded
  BY <1>0, <1>3 DEF IInv, QueueTypes, SubscribeAdded
<1>4. CASE RunDeferred
  BY <1>0, <1>4 DEF IInv, QueueTypes, RunDeferred, Tell
<1>5. ASSUME NEW c \in Clients, Open(c) PROVE QueueTypes'
  BY <1>0, <1>5 DEF IInv, QueueTypes, Open
<1>6. ASSUME NEW c \in Clients, Close(c) PROVE QueueTypes'
  BY <1>0, <1>6 DEF IInv, QueueTypes, Close
<1>7. ASSUME NEW c \in Clients, SetSetting(c) PROVE QueueTypes'
  BY <1>0, <1>7 DEF QueueTypes, Topics, SetSetting, Message, Broadcast, Silent, Defer
<1>8. ASSUME NEW c \in Clients, EnableDefaultBluetoothAdapter(c) PROVE QueueTypes'
  BY <1>0, <1>8 DEF IInv, QueueTypes, EnableDefaultBluetoothAdapter, Message, Ask
<1>9. ASSUME NEW c \in Clients, NEW topics \in SUBSET Topics, Get(c, topics) PROVE QueueTypes'
  BY <1>0, <1>9 DEF IInv, QueueTypes, Get, Message, Tell
<1>10. ASSUME NEW c \in Clients, NEW d \in Devices, SetCapabilities(c, d) PROVE QueueTypes'
  BY <1>0, <1>10 DEF IInv, QueueTypes, SetCapabilities, Message
<1>11. ASSUME NEW c \in Clients, NEW d \in Devices, NEW wish \in BOOLEAN,
             ConnectDevice(c, d, wish)
      PROVE  QueueTypes'
  BY <1>0, <1>11 DEF IInv, QueueTypes, ConnectDevice, Message, Ask, Tell
<1>12. CASE Select
  BY <1>0, <1>12 DEF IInv, QueueTypes, Select
<1>13. CASE TellActive
  BY <1>0, <1>13 DEF QueueTypes, Topics, TellActive, Broadcast, Defer, Nothing
<1>14. CASE TellConnected
  BY <1>0, <1>14 DEF QueueTypes, Topics, TellConnected, Broadcast, Silent, Defer, Nothing
<1>15. CASE PoweredChanges
  BY <1>0, <1>15 DEF QueueTypes, Topics, PoweredChanges, Powered, Broadcast, Defer, Nothing
<1>16. CASE AdapterRemoved
  BY <1>0, <1>16
  DEF IInv, QueueTypes, Topics, AdapterRemoved, Powered, Drop, Broadcast, Defer, Nothing
<1>17. ASSUME NEW d \in Devices, ConnectedChanges(d) PROVE QueueTypes'
  BY <1>0, <1>17 DEF IInv, QueueTypes, ConnectedChanges
<1>18. ASSUME NEW d \in Devices, DeviceAdded(d) PROVE QueueTypes'
  BY <1>0, <1>18 DEF IInv, QueueTypes, DeviceAdded, Silent
<1>19. ASSUME NEW d \in Devices, DeviceRemoved(d) PROVE QueueTypes'
  BY <1>0, <1>19 DEF IInv, QueueTypes, DeviceRemoved, Drop, Silent
<1>20. ASSUME NEW r \in pending, Reply(r) PROVE QueueTypes'
  BY <1>0, <1>20 DEF IInv, QueueTypes, RequestTypes, Reply, Defer
<1>21. ASSUME NEW d \in Devices, CapabilityChanges(d) PROVE QueueTypes'
  BY <1>0, <1>21 DEF IInv, QueueTypes, CapabilityChanges
<1>22. ASSUME NEW t \in Firing, Fire(t) PROVE QueueTypes'
  BY <1>0, <1>22 DEF QueueTypes, Topics, Fire, Broadcast, Silent, Defer, Nothing
<1>23. CASE UNCHANGED vars
  BY <1>0, <1>23 DEF IInv, QueueTypes, vars
<1>25. CASE HearsAdded
  BY <1>25 DEF IInv, QueueTypes, HearsAdded
<1>24. QED
  BY <1>2, <1>3, <1>4, <1>5, <1>6, <1>7, <1>8, <1>9, <1>10, <1>11, <1>12, <1>13, <1>14, <1>15,
     <1>16, <1>17, <1>18, <1>19, <1>20, <1>21, <1>22, <1>23, <1>25
  DEF Next, Loop, Dbus, Firing

\* Requests and sockets keep their types.
LEMMA RequestTypesStep == IInv /\ [Next]_vars => RequestTypes'
<1> SUFFICES ASSUME IInv, [Next]_vars PROVE RequestTypes'
  OBVIOUS
<1> USE DEF world, talk, Count
<1>1. /\ pc \in [Threads -> {"idle", "fire", "select", "tellActive", "tellConnected", "added"}]
      /\ Firing \cup {"dbus"} = Threads /\ "dbus" \notin Firing /\ "loop" \notin Devices
      /\ NoDevice \notin Devices
  BY ServerAssumption DEF IInv, ThreadTypes, Threads, Firing
<1>2. CASE SubscribeDevices
  BY <1>2 DEF IInv, RequestTypes, SubscribeDevices
<1>3. CASE SubscribeAdded
  BY <1>3 DEF IInv, RequestTypes, SubscribeAdded
<1>4. CASE RunDeferred
  BY <1>4 DEF IInv, RequestTypes, RunDeferred, Tell
<1>5. ASSUME NEW c \in Clients, Open(c) PROVE RequestTypes'
  BY <1>5 DEF IInv, RequestTypes, Open
<1>6. ASSUME NEW c \in Clients, Close(c) PROVE RequestTypes'
  BY <1>6 DEF IInv, RequestTypes, Close
<1>7. ASSUME NEW c \in Clients, SetSetting(c) PROVE RequestTypes'
  BY <1>7 DEF IInv, RequestTypes, SetSetting, Message, Defer
<1>8. ASSUME NEW c \in Clients, EnableDefaultBluetoothAdapter(c) PROVE RequestTypes'
  <2>1. /\ pending' = pending \cup {[from |-> c, topic |-> "defaultbluetooth", device |-> NoDevice]}
        /\ owed' = [owed EXCEPT ![c] = "answer"] /\ UNCHANGED socket
    BY <1>8 DEF EnableDefaultBluetoothAdapter, Ask
  <2>2. ASSUME NEW r \in pending'
        PROVE  r.from \in Clients /\ r.device \in Devices \cup {NoDevice} /\ r.topic \in Topics
    <3>1. r \in pending \/ r = [from |-> c, topic |-> "defaultbluetooth", device |-> NoDevice]
      BY <2>1
    <3>2. CASE r \in pending
      BY <3>2 DEF IInv, RequestTypes
    <3>3. CASE r = [from |-> c, topic |-> "defaultbluetooth", device |-> NoDevice]
      <4>1. r.from = c /\ r.device = NoDevice /\ r.topic = "defaultbluetooth"
        BY <3>3
      <4>2. QED
        BY <4>1 DEF Topics
    <3>4. QED
      BY <3>1, <3>2, <3>3
  <2>3. owed' \in [Clients -> {"nothing", "answer", "nothing any more"}]
    BY <2>1 DEF IInv, RequestTypes
  <2>4. QED
    BY <2>1, <2>2, <2>3 DEF IInv, RequestTypes
<1>9. ASSUME NEW c \in Clients, NEW topics \in SUBSET Topics, Get(c, topics) PROVE RequestTypes'
  BY <1>9 DEF IInv, RequestTypes, Get, Message, Tell
<1>10. ASSUME NEW c \in Clients, NEW d \in Devices, SetCapabilities(c, d) PROVE RequestTypes'
  BY <1>10 DEF IInv, RequestTypes, SetCapabilities, Message
<1>11. ASSUME NEW c \in Clients, NEW d \in Devices, NEW wish \in BOOLEAN,
             ConnectDevice(c, d, wish)
      PROVE  RequestTypes'
  <2>1. /\ \/ /\ pending' = pending \cup {[from |-> c, topic |-> "headphones", device |-> d]}
              /\ owed' = [owed EXCEPT ![c] = "answer"]
           \/ UNCHANGED <<pending, owed>>
        /\ UNCHANGED socket
    BY <1>11 DEF ConnectDevice, Ask
  <2>2. ASSUME NEW r \in pending'
        PROVE  r.from \in Clients /\ r.device \in Devices \cup {NoDevice} /\ r.topic \in Topics
    <3>1. r \in pending \/ r = [from |-> c, topic |-> "headphones", device |-> d]
      BY <2>1
    <3>2. CASE r \in pending
      BY <3>2 DEF IInv, RequestTypes
    <3>3. CASE r = [from |-> c, topic |-> "headphones", device |-> d]
      <4>1. r.from = c /\ r.device = d /\ r.topic = "headphones"
        BY <3>3
      <4>2. QED
        BY <4>1 DEF Topics
    <3>4. QED
      BY <3>1, <3>2, <3>3
  <2>3. owed' \in [Clients -> {"nothing", "answer", "nothing any more"}]
    BY <2>1 DEF IInv, RequestTypes
  <2>4. QED
    BY <2>1, <2>2, <2>3 DEF IInv, RequestTypes
<1>12. CASE Select
  BY <1>12 DEF IInv, RequestTypes, Select
<1>13. CASE TellActive
  BY <1>13 DEF IInv, RequestTypes, TellActive, Defer
<1>14. CASE TellConnected
  BY <1>14 DEF IInv, RequestTypes, TellConnected, Defer
<1>15. CASE PoweredChanges
  BY <1>15 DEF IInv, RequestTypes, PoweredChanges, Powered, Defer
<1>16. CASE AdapterRemoved
  BY <1>16 DEF IInv, RequestTypes, AdapterRemoved, Powered, Drop, Defer
<1>17. ASSUME NEW d \in Devices, ConnectedChanges(d) PROVE RequestTypes'
  BY <1>17 DEF IInv, RequestTypes, ConnectedChanges
<1>18. ASSUME NEW d \in Devices, DeviceAdded(d) PROVE RequestTypes'
  BY <1>18 DEF IInv, RequestTypes, DeviceAdded
<1>19. ASSUME NEW d \in Devices, DeviceRemoved(d) PROVE RequestTypes'
  BY <1>19 DEF IInv, RequestTypes, DeviceRemoved, Drop
<1>20. ASSUME NEW r \in pending, Reply(r) PROVE RequestTypes'
  BY <1>20 DEF IInv, RequestTypes, Reply, Defer
<1>21. ASSUME NEW d \in Devices, CapabilityChanges(d) PROVE RequestTypes'
  BY <1>21 DEF IInv, RequestTypes, CapabilityChanges
<1>22. ASSUME NEW t \in Firing, Fire(t) PROVE RequestTypes'
  BY <1>22 DEF IInv, RequestTypes, Fire, Defer
<1>23. CASE UNCHANGED vars
  BY <1>23 DEF IInv, RequestTypes, vars
<1>25. CASE HearsAdded
  BY <1>25 DEF IInv, RequestTypes, HearsAdded
<1>24. QED
  BY <1>2, <1>3, <1>4, <1>5, <1>6, <1>7, <1>8, <1>9, <1>10, <1>11, <1>12, <1>13, <1>14, <1>15,
     <1>16, <1>17, <1>18, <1>19, <1>20, <1>21, <1>22, <1>23, <1>25
  DEF Next, Loop, Dbus, Firing

\* Every client has a view.
LEMMA ViewTypesStep == IInv /\ [Next]_vars => ViewTypes'
<1> SUFFICES ASSUME IInv, [Next]_vars PROVE ViewTypes'
  OBVIOUS
<1> USE DEF world, talk, Count
<1>1. /\ pc \in [Threads -> {"idle", "fire", "select", "tellActive", "tellConnected", "added"}]
      /\ Firing \cup {"dbus"} = Threads /\ "dbus" \notin Firing /\ "loop" \notin Devices
      /\ NoDevice \notin Devices
  BY ServerAssumption DEF IInv, ThreadTypes, Threads, Firing
<1>2. CASE SubscribeDevices
  BY <1>2 DEF IInv, ViewTypes, SubscribeDevices
<1>3. CASE SubscribeAdded
  BY <1>3 DEF IInv, ViewTypes, SubscribeAdded
<1>4. CASE RunDeferred
  BY <1>4 DEF ViewTypes, RunDeferred, Tell
<1>5. ASSUME NEW c \in Clients, Open(c) PROVE ViewTypes'
  BY <1>5 DEF IInv, ViewTypes, Open
<1>6. ASSUME NEW c \in Clients, Close(c) PROVE ViewTypes'
  BY <1>6 DEF IInv, ViewTypes, Close
<1>7. ASSUME NEW c \in Clients, SetSetting(c) PROVE ViewTypes'
  BY <1>7 DEF IInv, ViewTypes, SetSetting, Message, Defer
<1>8. ASSUME NEW c \in Clients, EnableDefaultBluetoothAdapter(c) PROVE ViewTypes'
  BY <1>8 DEF IInv, ViewTypes, EnableDefaultBluetoothAdapter, Message, Ask
<1>9. ASSUME NEW c \in Clients, NEW topics \in SUBSET Topics, Get(c, topics) PROVE ViewTypes'
  BY <1>9 DEF ViewTypes, Get, Message, Tell
<1>10. ASSUME NEW c \in Clients, NEW d \in Devices, SetCapabilities(c, d) PROVE ViewTypes'
  BY <1>10 DEF IInv, ViewTypes, SetCapabilities, Message
<1>11. ASSUME NEW c \in Clients, NEW d \in Devices, NEW wish \in BOOLEAN,
             ConnectDevice(c, d, wish)
      PROVE  ViewTypes'
  BY <1>11 DEF IInv, ViewTypes, ConnectDevice, Message, Ask, Tell
<1>12. CASE Select
  BY <1>12 DEF IInv, ViewTypes, Select
<1>13. CASE TellActive
  BY <1>13 DEF IInv, ViewTypes, TellActive, Defer
<1>14. CASE TellConnected
  BY <1>14 DEF IInv, ViewTypes, TellConnected, Defer
<1>15. CASE PoweredChanges
  BY <1>15 DEF IInv, ViewTypes, PoweredChanges, Powered, Defer
<1>16. CASE AdapterRemoved
  BY <1>16 DEF IInv, ViewTypes, AdapterRemoved, Powered, Drop, Defer
<1>17. ASSUME NEW d \in Devices, ConnectedChanges(d) PROVE ViewTypes'
  BY <1>17 DEF IInv, ViewTypes, ConnectedChanges
<1>18. ASSUME NEW d \in Devices, DeviceAdded(d) PROVE ViewTypes'
  BY <1>18 DEF IInv, ViewTypes, DeviceAdded
<1>19. ASSUME NEW d \in Devices, DeviceRemoved(d) PROVE ViewTypes'
  BY <1>19 DEF IInv, ViewTypes, DeviceRemoved, Drop
<1>20. ASSUME NEW r \in pending, Reply(r) PROVE ViewTypes'
  BY <1>20 DEF IInv, ViewTypes, Reply, Defer
<1>21. ASSUME NEW d \in Devices, CapabilityChanges(d) PROVE ViewTypes'
  BY <1>21 DEF IInv, ViewTypes, CapabilityChanges
<1>22. ASSUME NEW t \in Firing, Fire(t) PROVE ViewTypes'
  BY <1>22 DEF IInv, ViewTypes, Fire, Defer
<1>23. CASE UNCHANGED vars
  BY <1>23 DEF IInv, ViewTypes, vars
<1>25. CASE HearsAdded
  BY <1>25 DEF IInv, ViewTypes, HearsAdded
<1>24. QED
  BY <1>2, <1>3, <1>4, <1>5, <1>6, <1>7, <1>8, <1>9, <1>10, <1>11, <1>12, <1>13, <1>14, <1>15,
     <1>16, <1>17, <1>18, <1>19, <1>20, <1>21, <1>22, <1>23, <1>25
  DEF Next, Loop, Dbus, Firing

\* A client that has not been let in has been told nothing.
LEMMA SocketStep == IInv /\ [Next]_vars => SocketInv'
<1> SUFFICES ASSUME IInv, [Next]_vars PROVE SocketInv'
  OBVIOUS
<1> USE DEF world, talk, Count
<1>1. /\ pc \in [Threads -> {"idle", "fire", "select", "tellActive", "tellConnected", "added"}]
      /\ Firing \cup {"dbus"} = Threads /\ "dbus" \notin Firing /\ "loop" \notin Devices
      /\ NoDevice \notin Devices
  BY ServerAssumption DEF IInv, ThreadTypes, Threads, Firing
<1>2. CASE SubscribeDevices
  BY <1>2 DEF IInv, SocketInv, SubscribeDevices
<1>3. CASE SubscribeAdded
  BY <1>3 DEF IInv, SocketInv, SubscribeAdded
<1>4. CASE RunDeferred
  BY <1>4 DEF IInv, SocketInv, RunDeferred, Tell
<1>5. ASSUME NEW c \in Clients, Open(c) PROVE SocketInv'
  BY <1>5 DEF IInv, SocketInv, Open
<1>6. ASSUME NEW c \in Clients, Close(c) PROVE SocketInv'
  BY <1>6 DEF IInv, SocketInv, Close
<1>7. ASSUME NEW c \in Clients, SetSetting(c) PROVE SocketInv'
  BY <1>7 DEF IInv, SocketInv, SetSetting, Message, Defer
<1>8. ASSUME NEW c \in Clients, EnableDefaultBluetoothAdapter(c) PROVE SocketInv'
  BY <1>8 DEF IInv, SocketInv, EnableDefaultBluetoothAdapter, Message, Ask
<1>9. ASSUME NEW c \in Clients, NEW topics \in SUBSET Topics, Get(c, topics) PROVE SocketInv'
  BY <1>9 DEF IInv, SocketInv, Get, Message, Tell
<1>10. ASSUME NEW c \in Clients, NEW d \in Devices, SetCapabilities(c, d) PROVE SocketInv'
  BY <1>10 DEF IInv, SocketInv, SetCapabilities, Message
<1>11. ASSUME NEW c \in Clients, NEW d \in Devices, NEW wish \in BOOLEAN,
             ConnectDevice(c, d, wish)
      PROVE  SocketInv'
  <2>1. /\ socket' = socket /\ socket[c] # "none"
        /\ \A k \in Clients \ {c}, t \in Topics : view'[k][t] = view[k][t]
    BY <1>11 DEF ConnectDevice, Message, Ask, Tell
  <2>2. QED
    BY <2>1 DEF IInv, SocketInv
<1>12. CASE Select
  BY <1>12 DEF IInv, SocketInv, Select
<1>13. CASE TellActive
  BY <1>13 DEF IInv, SocketInv, TellActive, Defer
<1>14. CASE TellConnected
  BY <1>14 DEF IInv, SocketInv, TellConnected, Defer
<1>15. CASE PoweredChanges
  BY <1>15 DEF IInv, SocketInv, PoweredChanges, Powered, Defer
<1>16. CASE AdapterRemoved
  BY <1>16 DEF IInv, SocketInv, AdapterRemoved, Powered, Drop, Defer
<1>17. ASSUME NEW d \in Devices, ConnectedChanges(d) PROVE SocketInv'
  BY <1>17 DEF IInv, SocketInv, ConnectedChanges
<1>18. ASSUME NEW d \in Devices, DeviceAdded(d) PROVE SocketInv'
  BY <1>18 DEF IInv, SocketInv, DeviceAdded
<1>19. ASSUME NEW d \in Devices, DeviceRemoved(d) PROVE SocketInv'
  BY <1>19 DEF IInv, SocketInv, DeviceRemoved, Drop
<1>20. ASSUME NEW r \in pending, Reply(r) PROVE SocketInv'
  BY <1>20 DEF IInv, SocketInv, Reply, Defer
<1>21. ASSUME NEW d \in Devices, CapabilityChanges(d) PROVE SocketInv'
  BY <1>21 DEF IInv, SocketInv, CapabilityChanges
<1>22. ASSUME NEW t \in Firing, Fire(t) PROVE SocketInv'
  BY <1>22 DEF IInv, SocketInv, Fire, Defer
<1>23. CASE UNCHANGED vars
  BY <1>23 DEF IInv, SocketInv, vars
<1>25. CASE HearsAdded
  BY <1>25 DEF IInv, SocketInv, HearsAdded
<1>24. QED
  BY <1>2, <1>3, <1>4, <1>5, <1>6, <1>7, <1>8, <1>9, <1>10, <1>11, <1>12, <1>13, <1>14, <1>15,
     <1>16, <1>17, <1>18, <1>19, <1>20, <1>21, <1>22, <1>23, <1>25
  DEF Next, Loop, Dbus, Firing

\* Nobody is let in early.
LEMMA EarlyStep == IInv /\ [Next]_vars => EarlyInv'
<1> SUFFICES ASSUME IInv, [Next]_vars PROVE EarlyInv'
  OBVIOUS
<1> USE DEF world, talk, Count
<1>1. /\ pc \in [Threads -> {"idle", "fire", "select", "tellActive", "tellConnected", "added"}]
      /\ Firing \cup {"dbus"} = Threads /\ "dbus" \notin Firing /\ "loop" \notin Devices
      /\ NoDevice \notin Devices
  BY ServerAssumption DEF IInv, ThreadTypes, Threads, Firing
<1>2. CASE SubscribeDevices
  BY <1>2 DEF IInv, EarlyInv, SubscribeDevices
<1>3. CASE SubscribeAdded
  BY <1>3 DEF EarlyInv, SubscribeAdded
<1>4. CASE RunDeferred
  BY <1>4 DEF EarlyInv, RunDeferred, Tell
<1>5. ASSUME NEW c \in Clients, Open(c) PROVE EarlyInv'
  BY <1>5 DEF EarlyInv, Open
<1>6. ASSUME NEW c \in Clients, Close(c) PROVE EarlyInv'
  BY <1>6 DEF IInv, EarlyInv, Close
<1>7. ASSUME NEW c \in Clients, SetSetting(c) PROVE EarlyInv'
  BY <1>7 DEF EarlyInv, SetSetting, Message, Defer
<1>8. ASSUME NEW c \in Clients, EnableDefaultBluetoothAdapter(c) PROVE EarlyInv'
  BY <1>8 DEF EarlyInv, EnableDefaultBluetoothAdapter, Message, Ask
<1>9. ASSUME NEW c \in Clients, NEW topics \in SUBSET Topics, Get(c, topics) PROVE EarlyInv'
  BY <1>9 DEF EarlyInv, Get, Message, Tell
<1>10. ASSUME NEW c \in Clients, NEW d \in Devices, SetCapabilities(c, d) PROVE EarlyInv'
  BY <1>10 DEF EarlyInv, SetCapabilities, Message
<1>11. ASSUME NEW c \in Clients, NEW d \in Devices, NEW wish \in BOOLEAN,
             ConnectDevice(c, d, wish)
      PROVE  EarlyInv'
  BY <1>11 DEF EarlyInv, ConnectDevice, Message, Ask, Tell
<1>12. CASE Select
  BY <1>12 DEF IInv, EarlyInv, Select
<1>13. CASE TellActive
  BY <1>13 DEF IInv, EarlyInv, TellActive, Defer
<1>14. CASE TellConnected
  BY <1>14 DEF IInv, EarlyInv, TellConnected, Defer
<1>15. CASE PoweredChanges
  BY <1>15 DEF IInv, EarlyInv, PoweredChanges, Powered, Defer
<1>16. CASE AdapterRemoved
  BY <1>16 DEF IInv, EarlyInv, AdapterRemoved, Powered, Drop, Defer
<1>17. ASSUME NEW d \in Devices, ConnectedChanges(d) PROVE EarlyInv'
  BY <1>17 DEF IInv, EarlyInv, ConnectedChanges
<1>18. ASSUME NEW d \in Devices, DeviceAdded(d) PROVE EarlyInv'
  BY <1>18 DEF IInv, EarlyInv, DeviceAdded
<1>19. ASSUME NEW d \in Devices, DeviceRemoved(d) PROVE EarlyInv'
  BY <1>19 DEF IInv, EarlyInv, DeviceRemoved, Drop
<1>20. ASSUME NEW r \in pending, Reply(r) PROVE EarlyInv'
  BY <1>20 DEF IInv, EarlyInv, Reply, Defer
<1>21. ASSUME NEW d \in Devices, CapabilityChanges(d) PROVE EarlyInv'
  BY <1>21 DEF IInv, EarlyInv, CapabilityChanges
<1>22. ASSUME NEW t \in Firing, Fire(t) PROVE EarlyInv'
  BY <1>22 DEF IInv, EarlyInv, Fire, Defer
<1>23. CASE UNCHANGED vars
  BY <1>23 DEF IInv, EarlyInv, vars
<1>25. CASE HearsAdded
  BY <1>25 DEF IInv, EarlyInv, HearsAdded
<1>24. QED
  BY <1>2, <1>3, <1>4, <1>5, <1>6, <1>7, <1>8, <1>9, <1>10, <1>11, <1>12, <1>13, <1>14, <1>15,
     <1>16, <1>17, <1>18, <1>19, <1>20, <1>21, <1>22, <1>23, <1>25
  DEF Next, Loop, Dbus, Firing

\* The active device stays connected until another is selected.
LEMMA ActiveStep == IInv /\ [Next]_vars => ActiveInv'
<1> SUFFICES ASSUME IInv, [Next]_vars PROVE ActiveInv'
  OBVIOUS
<1> USE DEF world, talk, Count
<1>1. /\ pc \in [Threads -> {"idle", "fire", "select", "tellActive", "tellConnected", "added"}]
      /\ Firing \cup {"dbus"} = Threads /\ "dbus" \notin Firing /\ "loop" \notin Devices
      /\ NoDevice \notin Devices
  BY ServerAssumption DEF IInv, ThreadTypes, Threads, Firing
<1>2. CASE SubscribeDevices
  BY <1>2 DEF IInv, ActiveInv, Candidate, SubscribeDevices
<1>3. CASE SubscribeAdded
  BY <1>3 DEF IInv, ActiveInv, Candidate, SubscribeAdded
<1>4. CASE RunDeferred
  BY <1>4 DEF IInv, ActiveInv, Candidate, RunDeferred, Tell, At
<1>5. ASSUME NEW c \in Clients, Open(c) PROVE ActiveInv'
  BY <1>5 DEF IInv, ActiveInv, Candidate, Open, At
<1>6. ASSUME NEW c \in Clients, Close(c) PROVE ActiveInv'
  BY <1>6 DEF IInv, ActiveInv, Candidate, Close, At
<1>7. ASSUME NEW c \in Clients, SetSetting(c) PROVE ActiveInv'
  BY <1>7 DEF IInv, ActiveInv, Candidate, SetSetting, Message, Defer
<1>8. ASSUME NEW c \in Clients, EnableDefaultBluetoothAdapter(c) PROVE ActiveInv'
  BY <1>8 DEF IInv, ActiveInv, Candidate, EnableDefaultBluetoothAdapter, Message, Ask
<1>9. ASSUME NEW c \in Clients, NEW topics \in SUBSET Topics, Get(c, topics) PROVE ActiveInv'
  BY <1>9 DEF IInv, ActiveInv, Candidate, Get, Message, Tell
<1>10. ASSUME NEW c \in Clients, NEW d \in Devices, SetCapabilities(c, d) PROVE ActiveInv'
  BY <1>10 DEF IInv, ActiveInv, Candidate, SetCapabilities, Message, Goto
<1>11. ASSUME NEW c \in Clients, NEW d \in Devices, NEW wish \in BOOLEAN,
             ConnectDevice(c, d, wish)
      PROVE  ActiveInv'
  BY <1>11 DEF IInv, ActiveInv, Candidate, ConnectDevice, Message, Ask, Tell
<1>12. CASE Select
  <2>1. pc'["dbus"] \notin {"select", "added"}
    BY <1>1, <1>12 DEF Select, Goto
  <2>2. active' # NoDevice => Candidate'
    BY <1>12 DEF Select, Candidate
  <2>3. QED
    BY <2>1, <2>2 DEF ActiveInv
<1>13. CASE TellActive
  BY <1>13 DEF IInv, ActiveInv, Candidate, TellActive, Defer, Goto
<1>14. CASE TellConnected
  BY <1>14 DEF IInv, ActiveInv, Candidate, TellConnected, Defer, Goto
<1>15. CASE PoweredChanges
  BY <1>15 DEF IInv, ActiveInv, Candidate, PoweredChanges, Powered, At, Defer
<1>16. CASE AdapterRemoved
  BY <1>16 DEF IInv, ActiveInv, Candidate, AdapterRemoved, Powered, Drop, At, Defer
<1>17. ASSUME NEW d \in Devices, ConnectedChanges(d) PROVE ActiveInv'
  BY <1>1, <1>17 DEF ActiveInv, ConnectedChanges, Goto
<1>18. ASSUME NEW d \in Devices, DeviceAdded(d) PROVE ActiveInv'
  BY <1>1, <1>18 DEF IInv, ThreadTypes, ActiveInv, Candidate, DeviceAdded, Goto
<1>19. ASSUME NEW d \in Devices, DeviceRemoved(d) PROVE ActiveInv'
  BY <1>1, <1>19 DEF ActiveInv, DeviceRemoved, Goto, Drop
<1>20. ASSUME NEW r \in pending, Reply(r) PROVE ActiveInv'
  BY <1>20 DEF IInv, ActiveInv, Candidate, Reply, At, Defer
<1>21. ASSUME NEW d \in Devices, CapabilityChanges(d) PROVE ActiveInv'
  BY <1>21 DEF IInv, ActiveInv, Candidate, CapabilityChanges, Goto
<1>22. ASSUME NEW t \in Firing, Fire(t) PROVE ActiveInv'
  BY <1>22 DEF IInv, ActiveInv, Candidate, Fire, Goto, Defer
<1>23. CASE UNCHANGED vars
  BY <1>23 DEF IInv, ActiveInv, Candidate, vars
<1>25. CASE HearsAdded
  BY <1>1, <1>25 DEF IInv, ActiveInv, Candidate, HearsAdded, Goto
<1>24. QED
  BY <1>2, <1>3, <1>4, <1>5, <1>6, <1>7, <1>8, <1>9, <1>10, <1>11, <1>12, <1>13, <1>14, <1>15,
     <1>16, <1>17, <1>18, <1>19, <1>20, <1>21, <1>22, <1>23, <1>25
  DEF Next, Loop, Dbus, Firing

\* A client that is not let in shows nothing.
LEMMA Outside ==
    ASSUME EarlyInv, NEW k \in Clients, NEW topic \in Topics, phase # "ready", socket' = socket
    PROVE  Shows(k, topic)'
BY DEF EarlyInv, Shows

\* FreshInv is preserved: whatever changes what a client shows is announced, or will be by the
\* thread that changed it, or is held back and listed in unannounced.
LEMMA FreshStep == IInv /\ [Next]_vars => FreshInv'
<1> SUFFICES ASSUME IInv, [Next]_vars, NEW k \in Clients, NEW topic \in Topics,
                    topic \notin unannounced'
             PROVE  Shows(k, topic)' \/ Announced(topic)' \/ Announcing(topic)'
  BY DEF FreshInv
<1> DEFINE Goal == Shows(k, topic)' \/ Announced(topic)' \/ Announcing(topic)'
<1> USE DEF world, talk, Count
<1>1. /\ pc \in [Threads -> {"idle", "fire", "select", "tellActive", "tellConnected", "added"}]
      /\ Firing \cup {"dbus"} = Threads /\ "dbus" \notin Firing /\ "loop" \notin Devices
      /\ NoDevice \notin Devices
      /\ subject \in [Threads -> Devices \cup {NoDevice}] /\ \A d \in Devices : subject[d] = d
  BY ServerAssumption DEF IInv, ThreadTypes, Threads, Firing
<1>2. /\ FreshInv /\ EarlyInv /\ deferred \in Seq(Messages)
      /\ view = [c \in Clients |-> view[c]] /\ socket \in [Clients -> {"none", "open", "closed"}]
      /\ connected \in [Devices -> BOOLEAN] /\ capability \in [Devices -> 0..1]
      /\ known \subseteq Devices
  BY DEF IInv, QueueTypes, ViewTypes, RequestTypes, DeviceTypes
<1>3. ASSUME NEW what \in Topics, NEW to \in Clients \cup {All}, Defer(what, to)
      PROVE  /\ Announced(topic) => Announced(topic)'
             /\ topic = what /\ to = All => Announced(topic)'
  BY <1>2, <1>3, DeferKeeps, MessageOf DEF Defer
<1>4. ASSUME NEW what \in Topics, Broadcast(what) \/ Silent(what) \/ Nothing
      PROVE  /\ Announced(topic) => Announced(topic)'
             /\ topic # what => topic \notin unannounced
             /\ topic = what /\ Broadcast(what) => Announced(topic)'
             /\ topic = what => ~Silent(what)
             /\ Nothing => topic \notin unannounced
  BY <1>3, <1>4 DEF Broadcast, Silent, Nothing, Announced
<1>5. {"headphones", "info", "defaultbluetooth", "settings"} = Topics
  BY DEF Topics
<1>6. ASSUME world' = world PROVE Now(topic)' = Now(topic)
  BY <1>6 DEF Now
<1>10. CASE SubscribeDevices \/ SubscribeAdded
  BY <1>2, <1>6, <1>10, Kept
  DEF SubscribeDevices, SubscribeAdded, Announced, Announcing, Candidate
<1>11. ASSUME NEW c \in Clients, Open(c) PROVE Goal
  <2>1. CASE k = c
    BY <1>11, <2>1 DEF Open, IInv, SocketInv, Shows
  <2>2. CASE k # c
    BY <1>2, <1>6, <1>11, <2>2, Kept DEF Open, At, Announced, Announcing, Candidate
  <2>3. QED
    BY <2>1, <2>2
<1>12. ASSUME NEW c \in Clients, Close(c) PROVE Goal
  <2>1. CASE k = c
    BY <1>2, <1>12, <2>1 DEF Close, Shows
  <2>2. CASE k # c
    BY <1>2, <1>6, <1>12, <2>2, Kept DEF Close, At, Announced, Announcing, Candidate
  <2>3. QED
    BY <2>1, <2>2
<1>13. ASSUME NEW c \in Clients, EnableDefaultBluetoothAdapter(c) PROVE Goal
  BY <1>2, <1>6, <1>13, Kept
  DEF EnableDefaultBluetoothAdapter, Message, Ask, Announced, Announcing, Candidate
<1>14. ASSUME NEW clients, NEW topics, Tell(clients, topics),
              UNCHANGED <<world, deferred, pc, subject, socket, unannounced>>
       PROVE  Goal
  <2>1. CASE k \in clients /\ topic \in topics
    BY <1>6, <1>14, <2>1 DEF Tell, Shows
  <2>2. CASE ~(k \in clients /\ topic \in topics)
    BY <1>2, <1>6, <1>14, <2>2, Kept DEF Tell, Announced, Announcing, Candidate
  <2>3. QED
    BY <2>1, <2>2
<1>15. ASSUME NEW c \in Clients, NEW topics, Get(c, topics) PROVE Goal
  BY <1>14, <1>15 DEF Get
<1>16. ASSUME NEW c \in Clients, NEW d \in Devices, NEW wish \in BOOLEAN,
              ConnectDevice(c, d, wish)
       PROVE  Goal
  <2>1. CASE Ask(c, "headphones", d)
    BY <1>2, <1>6, <1>16, <2>1, Kept DEF Ask, Announced, Announcing, Candidate
  <2>2. QED
    BY <1>14, <1>16, <2>1 DEF ConnectDevice
<1>17. ASSUME NEW c \in Clients, SetSetting(c) PROVE Goal
  <2>1. CASE topic = "settings"
    BY <1>4, <1>5, <1>17, <2>1 DEF SetSetting
  <2>2. CASE topic # "settings"
    <3>1. Now(topic)' = Now(topic)
      BY <1>5, <1>17, <2>2 DEF SetSetting, Now
    <3>2. QED
      BY <1>2, <1>4, <1>5, <1>17, <2>2, <3>1, Kept DEF SetSetting, Announcing, Candidate
  <2>3. QED
    BY <2>1, <2>2
<1>18. ASSUME NEW c \in Clients, NEW d \in Devices, SetCapabilities(c, d) PROVE Goal
  <2>1. /\ pc' = [pc EXCEPT !["loop"] = "fire"] /\ pc["loop"] = "idle"
        /\ subject' = [subject EXCEPT !["loop"] = d] /\ "loop" \in Threads /\ "loop" \in Firing
    BY <1>1, <1>18 DEF SetCapabilities, Goto, Firing
  <2>2. CASE topic = "info" /\ active = d
    BY <1>1, <1>18, <2>1, <2>2 DEF SetCapabilities, Announcing
  <2>3. CASE topic # "info" \/ active # d
    <3>1. Now(topic)' = Now(topic)
      BY <1>2, <1>5, <1>18, <2>3 DEF SetCapabilities, Now
    <3>2. Announcing(topic) => Announcing(topic)'
      BY <1>18, <2>1 DEF SetCapabilities, Announcing, Candidate
    <3>3. QED
      BY <1>2, <1>18, <3>1, <3>2, Kept DEF SetCapabilities, Announced
  <2>4. QED
    BY <2>2, <2>3
<1>19. CASE RunDeferred
  <2> DEFINE f == Head(deferred)
  <2>1. /\ Announced(topic) => Announced(topic)' \/ f = [topic |-> topic, to |-> All]
    BY <1>2, <1>19, RunKeeps DEF RunDeferred
  <2>2. /\ UNCHANGED <<world, socket, unannounced, pc, subject>>
        /\ Tell({c \in Clients : socket[c] = "open" /\ f.to \in {All, c}}, {f.topic})
    BY <1>19 DEF RunDeferred, At
  <2> HIDE DEF f
  <2>3. CASE f = [topic |-> topic, to |-> All]
    <3>1. f.topic = topic /\ f.to = All
      BY <2>3
    <3>2. QED
      BY <1>6, <2>2, <3>1 DEF Tell, Shows
  <2>4. CASE k \in {c \in Clients : socket[c] = "open" /\ f.to \in {All, c}} /\ topic = f.topic
    BY <1>6, <2>2, <2>4 DEF Tell, Shows
  <2>5. CASE /\ f # [topic |-> topic, to |-> All]
             /\ ~(/\ k \in {c \in Clients : socket[c] = "open" /\ f.to \in {All, c}}
                  /\ topic = f.topic)
    <3>1. view'[k][topic] = view[k][topic]
      BY <2>2, <2>5 DEF Tell
    <3>2. QED
      BY <1>2, <1>6, <2>1, <2>2, <2>5, <3>1, Kept DEF Announcing, Candidate
  <2>6. QED
    BY <2>3, <2>4, <2>5
<1>20. CASE Select
  <2>1. CASE pc' = [pc EXCEPT !["dbus"] = "tellActive"] /\ topic = "info"
    BY <1>1, <2>1 DEF Announcing
  <2>2. CASE pc' = [pc EXCEPT !["dbus"] = "tellActive"] /\ topic # "info"
    <3>1. Now(topic)' = Now(topic)
      BY <1>5, <1>20, <2>2 DEF Select, Now
    <3>2. Announcing(topic) => Announcing(topic)'
      BY <1>20, <2>2 DEF Select, Announcing
    <3>3. QED
      BY <1>2, <1>20, <3>1, <3>2, Kept DEF Select, Announced
  <2>3. CASE pc' = [pc EXCEPT !["dbus"] = "tellConnected"] /\ UNCHANGED active
    <3>1. active = NoDevice \/ Candidate
      BY <1>20, <2>3 DEF Select, Candidate
    <3>2. Announcing(topic) => Announcing(topic)'
      BY <1>20, <2>3, <3>1 DEF Select, Goto, Announcing
    <3>3. QED
      BY <1>2, <1>6, <1>20, <2>3, <3>2, Kept DEF Select, Announced
  <2>4. QED
    BY <1>20, <2>1, <2>2, <2>3 DEF Select, Goto
<1>21. CASE TellActive
  <2>1. CASE phase # "ready"
    BY <1>2, <1>21, <2>1, Outside DEF TellActive
  <2>2. CASE phase = "ready" /\ topic = "info"
    BY <1>4, <1>5, <1>21, <2>2 DEF TellActive
  <2>3. CASE phase = "ready" /\ topic # "info"
    <3>1. Announcing(topic) => Announcing(topic)'
      BY <1>21, <2>3 DEF TellActive, Goto, Announcing
    <3>2. QED
      BY <1>2, <1>4, <1>5, <1>6, <1>21, <2>3, <3>1, Kept DEF TellActive
  <2>4. QED
    BY <2>1, <2>2, <2>3
<1>22. CASE TellConnected
  <2>1. CASE topic = "headphones" /\ subject["dbus"] # NoDevice
    BY <1>4, <1>5, <1>22, <2>1 DEF TellConnected
  <2>2. CASE topic # "headphones" \/ subject["dbus"] = NoDevice
    <3>1. Announcing(topic) => Announcing(topic)'
      BY <1>22, <2>2 DEF TellConnected, Goto, Announcing
    <3>2. topic \notin unannounced /\ (Announced(topic) => Announced(topic)')
      BY <1>4, <1>5, <1>22, <2>2 DEF TellConnected
    <3>3. QED
      BY <1>2, <1>6, <1>22, <3>1, <3>2, Kept DEF TellConnected
  <2>3. QED
    BY <2>1, <2>2
<1>23. ASSUME NEW on \in BOOLEAN, Powered(on), UNCHANGED <<pc, socket, view>>
       PROVE  Goal
  <2>1. CASE phase # "ready"
    BY <1>2, <1>23, <2>1, Outside
  <2>2. CASE phase = "ready" /\ topic = "defaultbluetooth"
    BY <1>4, <1>5, <1>23, <2>2 DEF Powered
  <2>3. CASE phase = "ready" /\ topic # "defaultbluetooth"
    <3>1. Now(topic)' = Now(topic)
      BY <1>5, <1>23, <2>3 DEF Powered, Now
    <3>2. QED
      BY <1>2, <1>4, <1>5, <1>23, <2>3, <3>1, Kept DEF Powered, Announcing, Candidate
  <2>4. QED
    BY <2>1, <2>2, <2>3
<1>24. CASE PoweredChanges
  BY <1>23, <1>24 DEF PoweredChanges, At
<1>25. CASE AdapterRemoved
  BY <1>23, <1>25 DEF AdapterRemoved, At
<1>26. ASSUME NEW d \in Devices, ConnectedChanges(d) PROVE Goal
  <2>1. /\ pc["dbus"] = "idle" /\ pc' = [pc EXCEPT !["dbus"] = "select"]
        /\ subject' = [subject EXCEPT !["dbus"] = d]
        /\ connected' = [connected EXCEPT ![d] = ~@]
    BY <1>26 DEF ConnectedChanges, Goto
  <2>2. CASE topic = "headphones"
    BY <1>1, <2>1, <2>2 DEF Announcing
  <2>3. CASE topic = "info" /\ active = d
    <3>1. connected[d]
      BY <1>1, <2>1, <2>3 DEF IInv, ActiveInv, Candidate
    <3>2. ~connected'[d] /\ active' = d
      BY <1>2, <1>26, <2>1, <2>3, <3>1 DEF ConnectedChanges
    <3>3. QED
      BY <1>1, <2>1, <2>3, <3>2 DEF Announcing, Candidate
  <2>4. CASE topic # "headphones" /\ (topic # "info" \/ active # d)
    <3>1. Now(topic)' = Now(topic)
      BY <1>2, <1>5, <1>26, <2>4 DEF ConnectedChanges, Now, IInv
    <3>2. Announcing(topic) => Announcing(topic)'
      BY <1>26, <2>1, <2>4 DEF ConnectedChanges, Announcing
    <3>3. QED
      BY <1>2, <1>26, <3>1, <3>2, Kept DEF ConnectedChanges, Announced
  <2>5. QED
    BY <2>2, <2>3, <2>4
<1>27. ASSUME NEW d \in Devices, DeviceAdded(d) PROVE Goal
  <2>1. topic # "headphones" /\ topic \notin unannounced /\ UNCHANGED <<deferred, active>>
    BY <1>27 DEF DeviceAdded, Silent
  <2>2. /\ pc["dbus"] = "idle" /\ pc' = [pc EXCEPT !["dbus"] = "added"]
        /\ subject' = [subject EXCEPT !["dbus"] = d]
    BY <1>27 DEF DeviceAdded, Goto
  <2>3. active # d
    BY <1>1, <1>27, <2>2 DEF DeviceAdded, IInv, ActiveInv, Candidate
  <2>4. Now(topic)' = Now(topic)
    BY <1>2, <1>5, <1>27, <2>1, <2>3 DEF DeviceAdded, Now
  <2>5. Announcing(topic) => Announcing(topic)'
    BY <1>1, <2>1, <2>2 DEF Announcing
  <2>6. QED
    BY <1>2, <1>27, <2>1, <2>4, <2>5, Kept DEF DeviceAdded, Announced
<1>34. CASE HearsAdded
  <2>1. pc["dbus"] = "added" /\ pc' = [pc EXCEPT !["dbus"] = "idle"]
    BY <1>34 DEF HearsAdded, Goto
  <2>2. Announcing(topic) => Announcing(topic)'
    BY <1>1, <1>34, <2>1 DEF HearsAdded, Announcing, Candidate
  <2>3. QED
    BY <1>2, <1>6, <1>34, <2>2, Kept DEF HearsAdded, Announced
<1>28. ASSUME NEW d \in Devices, DeviceRemoved(d) PROVE Goal
  <2>1. topic # "headphones" /\ topic \notin unannounced /\ UNCHANGED <<deferred, subject, active>>
    BY <1>28 DEF DeviceRemoved, Silent
  <2>2. pc["dbus"] = "idle" /\ pc' = [pc EXCEPT !["dbus"] = "select"]
    BY <1>28 DEF DeviceRemoved, Goto
  <2>3. Now(topic)' = Now(topic)
    BY <1>5, <1>28, <2>1 DEF DeviceRemoved, Now
  <2>4. Announcing(topic) => Announcing(topic)'
    BY <2>1, <2>2 DEF Announcing
  <2>5. QED
    BY <1>2, <1>28, <2>1, <2>3, <2>4, Kept DEF DeviceRemoved, Announced, Drop
<1>29. ASSUME NEW r \in pending, Reply(r) PROVE Goal
  <2>1. Announced(topic) => Announced(topic)'
    BY <1>3, <1>29 DEF Reply, IInv, RequestTypes
  <2>2. QED
    BY <1>2, <1>6, <1>29, <2>1, Kept DEF Reply, At, Announcing
<1>30. ASSUME NEW d \in Devices, CapabilityChanges(d) PROVE Goal
  <2>1. pc[d] = "idle" /\ pc' = [pc EXCEPT ![d] = "fire"] /\ d \in Firing /\ subject[d] = d
    BY <1>1, <1>30 DEF CapabilityChanges, Goto, Firing
  <2>2. CASE topic = "info" /\ active = d
    BY <1>1, <1>30, <2>1, <2>2 DEF CapabilityChanges, Announcing
  <2>3. CASE topic # "info" \/ active # d
    <3>1. Now(topic)' = Now(topic)
      BY <1>2, <1>5, <1>30, <2>3 DEF CapabilityChanges, Now
    <3>2. Announcing(topic) => Announcing(topic)'
      BY <1>30, <2>1 DEF CapabilityChanges, Announcing, Candidate
    <3>3. QED
      BY <1>2, <1>30, <3>1, <3>2, Kept DEF CapabilityChanges, Announced
  <2>4. QED
    BY <2>2, <2>3
<1>31. ASSUME NEW t \in Firing, Fire(t) PROVE Goal
  <2>1. CASE topic = "info" /\ active = subject[t]
    BY <1>4, <1>5, <1>31, <2>1 DEF Fire
  <2>2. CASE topic # "info" \/ active # subject[t]
    <3>1. Announcing(topic) => Announcing(topic)'
      BY <1>1, <1>31, <2>2 DEF Fire, Goto, Announcing, Candidate
    <3>2. topic \notin unannounced /\ (Announced(topic) => Announced(topic)')
      BY <1>4, <1>5, <1>31, <2>2 DEF Fire
    <3>3. QED
      BY <1>2, <1>6, <1>31, <3>1, <3>2, Kept DEF Fire
  <2>3. QED
    BY <2>1, <2>2
<1>32. CASE UNCHANGED vars
  BY <1>2, <1>6, <1>32, Kept DEF vars, Announced, Announcing, Candidate
<1>33. QED
  BY <1>10, <1>11, <1>12, <1>13, <1>15, <1>16, <1>17, <1>18, <1>19, <1>20, <1>21, <1>22, <1>24,
     <1>25, <1>26, <1>27, <1>28, <1>29, <1>30, <1>31, <1>32, <1>34
  DEF Next, Loop, Dbus, Firing

-----------------------------------------------------------------------------
\* The theorem.

\* The invariant holds at the start, when nobody has been told anything.
LEMMA InitInv == Init => IInv
<1> SUFFICES ASSUME Init PROVE IInv
  OBVIOUS
<1>1. DeviceTypes /\ ActiveInv
  BY DEF Init, DeviceTypes, ActiveInv, Candidate, Threads
<1>2. ThreadTypes
  BY ServerAssumption DEF Init, ThreadTypes, Threads
<1>3. QueueTypes /\ RequestTypes /\ ViewTypes
  BY EmptySeq DEF Init, QueueTypes, RequestTypes, ViewTypes
<1>4. SocketInv /\ EarlyInv /\ FreshInv
  BY DEF Init, SocketInv, EarlyInv, FreshInv, Shows
<1>5. QED
  BY <1>1, <1>2, <1>3, <1>4 DEF IInv

\* In every reachable state the invariant holds.
THEOREM Invariance == Spec => []IInv
<1>1. IInv /\ [Next]_vars => IInv'
  BY DeviceTypesStep, ThreadTypesStep, QueueTypesStep, RequestTypesStep, ViewTypesStep,
     SocketStep, EarlyStep, ActiveStep, FreshStep
  DEF IInv
<1>2. QED
  BY InitInv, <1>1, PTL DEF Spec

\* When nothing is under way every client has the present state of all it has been told of
\* (main.cpp:289), but for what changed without an announcement; no client is let in before the
\* server listens to the devices, and every variable keeps its type.
THEOREM ViewsCurrent == Spec => []ViewCurrent
<1>1. ASSUME IInv PROVE TypeOK
  <2>1. \A f \in {deferred[i] : i \in DOMAIN deferred} :
          f.topic \in Topics /\ f.to \in Clients \cup {All}
    <3>1. \A i \in DOMAIN deferred : deferred[i] \in Messages
      BY <1>1 DEF IInv, QueueTypes
    <3>2. QED
      BY <3>1, MessageOf
  <2>2. QED
    BY <1>1, <2>1 DEF IInv, DeviceTypes, ThreadTypes, RequestTypes, TypeOK
<1>2. ASSUME IInv, Quiet, NEW c \in Clients, NEW t \in Topics \ unannounced
      PROVE  Shows(c, t)
  <2>1. ~Announced(t)
    BY <1>2 DEF Quiet, Announced
  <2>2. ~Announcing(t)
    BY <1>2 DEF Quiet, Announcing, Threads, Firing
  <2>3. QED
    BY <1>2, <2>1, <2>2 DEF IInv, FreshInv
<1>3. IInv => ViewCurrent
  BY <1>1, <1>2 DEF ViewCurrent, IInv, EarlyInv
<1>4. QED
  BY Invariance, <1>3, PTL
=============================================================================
