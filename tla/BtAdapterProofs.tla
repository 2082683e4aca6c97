-------------------------- MODULE BtAdapterProofs --------------------------
(***************************************************************************)
(* Proofs that an adapter is selected whenever there is one, that the      *)
(* first stays so, and that Bluetooth is shown as on when BlueZ says so,   *)
(* for any number of adapters, proxies, signals and requests.              *)
(***************************************************************************)
EXTENDS BtAdapter, SequenceTheorems, WellFoundedInduction, TLAPS

Selecting == {"release", "powerOff", "create", "publish"}

\* Thread t is on its way to select an adapter that is available.
Pending(t) == pc[t] \in Selecting /\ target[t] \in available

\* Who selects holds a proxy of its own, a callback that runs has a signal to handle, and
\* without a selected adapter there is no proxy of one.
HeldInv ==
    /\ current = NoAdapter => proxy = NoProxy
    /\ \A t \in Threads :
           pc[t] \in {"publish", "read", "recheck", "store"} =>
               local[t] \in Proxies /\ proxyOf[local[t]] = target[t]
    /\ \A p \in Proxies : handler[p] = "store" => inbox[p] # <<>>

\* While no adapter is selected and nothing has failed, somebody is about to select one that
\* stays available: the D-Bus thread, which would have to remove it, or the enumerating thread
\* if there is no other adapter.
SelectsInv ==
    current = NoAdapter /\ available # {} =>
        \/ failed # {}
        \/ Pending("bus")
        \/ Pending("fetch") /\ available = {target["fetch"]}

IInv == TypeOK /\ HeldInv /\ SelectsInv

-----------------------------------------------------------------------------
\* The first of the available adapters is one of them.
LEMMA LeastIsOne ==
    ASSUME NEW s \in SUBSET Adapters, s # {}
    PROVE  Least(s) \in s
<1> DEFINE R == {ss \in Nat \X Nat : ss[1] < ss[2]}
<1>1. s \subseteq Nat
  BY BtAdapterAssumption
<1>2. IsWellFoundedOn(R, Nat)
  BY NatLessThanWellFounded, Zenon DEF OpToRel
<1>3. \E a \in s : \A b \in s : <<b, a>> \notin R
  <2> HIDE DEF R
  <2> QED BY <1>1, <1>2, WFMin
<1>4. PICK a \in s : \A b \in s : <<b, a>> \notin R
  BY <1>3
<1>5. \A b \in s : a <= b
  <2> TAKE b \in s
  <2>1. a \in Nat /\ b \in Nat /\ ~(b < a)
    BY <1>1, <1>4
  <2> QED BY <2>1
<1> QED
  BY <1>5 DEF Least

\* The invariant holds initially.
LEMMA InitInv == Init => IInv
<1> SUFFICES ASSUME Init PROVE IInv
  OBVIOUS
<1> USE BtAdapterAssumption DEF Init, NoAdapter, NoProxy
<1>1. TypeOK
  <2>1. <<>> \in Seq([added : BOOLEAN, adapter : Adapters]) /\ <<>> \in Seq(BOOLEAN)
    OBVIOUS
  <2>2. inbox \in [Proxies -> Seq(BOOLEAN)] /\ announced \in Seq([added : BOOLEAN, adapter : Adapters])
    BY <2>1
  <2>3. pc \in [Threads -> Pcs] /\ target \in [Threads -> Adapters \cup {NoAdapter}]
    BY DEF Pcs
  <2>4. \A t \in Threads : pc[t] = "idle"
    OBVIOUS
  <2> QED BY <2>2, <2>3, <2>4 DEF TypeOK
<1>2. HeldInv
  BY DEF HeldInv, Threads
<1>3. SelectsInv
  BY DEF SelectsInv
<1> QED
  BY <1>1, <1>2, <1>3 DEF IInv

\* A reference that is dropped takes no proxy from anybody who holds it.
LEMMA DropKeeps ==
    ASSUME IInv, NEW t \in Threads, DropReference(t)
    PROVE  /\ proxyOf' \in [Proxies -> Adapters \cup {NoAdapter}]
           /\ inbox' \in [Proxies -> Seq(BOOLEAN)]
           /\ local' = [local EXCEPT ![t] = NoProxy]
           /\ handler' = handler
           /\ \A p \in Proxies :
                  (p = proxy \/ \E u \in Threads \ {t} : local[u] = p) => proxyOf'[p] = proxyOf[p]
           /\ \A p \in Proxies : handler[p] = "store" => inbox'[p] = inbox[p]
<1> USE DEF IInv, TypeOK
<1> DEFINE p == local[t]
<1>1. CASE UNCHANGED proxyVars /\ local' = [local EXCEPT ![t] = NoProxy]
  BY <1>1 DEF proxyVars
<1>2. CASE /\ p # NoProxy
           /\ p \notin {proxy, request} \cup {local[u] : u \in Threads \ {t}}
           /\ handler[p] = "idle"
           /\ proxyOf' = [proxyOf EXCEPT ![p] = NoAdapter]
           /\ inbox' = [inbox EXCEPT ![p] = <<>>]
           /\ UNCHANGED handler
           /\ local' = [local EXCEPT ![t] = NoProxy]
  BY <1>2
<1> QED
  BY <1>1, <1>2 DEF DropReference

\* A signal reaches the proxies of an adapter, and changes nothing that is waiting.
LEMMA SignalTyped ==
    ASSUME TypeOK, NEW a, NEW v \in BOOLEAN, Signal(a, v)
    PROVE  /\ inbox' \in [Proxies -> Seq(BOOLEAN)]
           /\ \A p \in Proxies : inbox[p] # <<>> => inbox'[p] # <<>>
<1>1. \A p \in Proxies : inbox[p] \in Seq(BOOLEAN)
  BY DEF TypeOK
<1>2. \A p \in Proxies : Append(inbox[p], v) \in Seq(BOOLEAN) /\ Append(inbox[p], v) # <<>>
  <2>1. ASSUME NEW S, NEW q \in Seq(S), NEW e \in S PROVE Append(q, e) \in Seq(S) /\ Append(q, e) # <<>>
    OBVIOUS
  <2> QED BY <1>1, <2>1
<1> QED
  BY <1>1, <1>2 DEF Signal

\* A request that ends frees its proxy if nobody else holds it, and its callback is not running.
LEMMA RequestKeeps ==
    ASSUME TypeOK, EndRequest
    PROVE  /\ inbox' \in [Proxies -> Seq(BOOLEAN)]
           /\ proxyOf' \in [Proxies -> Adapters \cup {NoAdapter}]
           /\ \A p \in {proxy} \cup {local[t] : t \in Threads} :
                  p \in Proxies => proxyOf'[p] = proxyOf[p]
           /\ \A p \in Proxies : handler[p] = "store" /\ inbox[p] # <<>> => inbox'[p] # <<>>
<1> DEFINE a == proxyOf[request]
           others == {proxy} \cup {local[t] : t \in Threads}
<1>1. power' # power => a \in Adapters /\ power'[a] \in BOOLEAN
  BY DEF TypeOK, EndRequest
<1>2. CASE /\ IF power' # power THEN Signal(a, power'[a]) ELSE UNCHANGED inbox
           /\ UNCHANGED proxyOf
  <2>1. CASE power' # power
    BY <1>1, <1>2, <2>1, SignalTyped DEF TypeOK
  <2>2. CASE power' = power
    BY <1>2, <2>2 DEF TypeOK
  <2> QED BY <2>1, <2>2
<1>3. CASE /\ request \notin others
           /\ handler[request] = "idle"
           /\ proxyOf' = [proxyOf EXCEPT ![request] = NoAdapter]
           /\ inbox' = [q \in Proxies |->
                          IF q = request THEN <<>>
                          ELSE IF proxyOf[q] = a /\ power' # power
                          THEN Append(inbox[q], power'[a]) ELSE inbox[q]]
  <2> HIDE DEF a
  <2>1. \A q \in Proxies : inbox[q] \in Seq(BOOLEAN)
    BY DEF TypeOK
  <2>2. power' # power => \A q \in Proxies : /\ Append(inbox[q], power'[a]) \in Seq(BOOLEAN)
                                            /\ Append(inbox[q], power'[a]) # <<>>
    BY <1>1, <2>1
  <2>3. <<>> \in Seq(BOOLEAN)
    OBVIOUS
  <2>4. inbox' \in [Proxies -> Seq(BOOLEAN)]
    BY <1>3, <2>1, <2>2, <2>3
  <2>5. \A p \in Proxies : handler[p] = "store" /\ inbox[p] # <<>> => inbox'[p] # <<>>
    BY <1>3, <2>2
  <2>6. proxyOf' \in [Proxies -> Adapters \cup {NoAdapter}]
    BY <1>3 DEF TypeOK
  <2>7. \A p \in others : p \in Proxies => proxyOf'[p] = proxyOf[p]
    BY <1>3 DEF TypeOK
  <2> QED BY <2>4, <2>5, <2>6, <2>7
<1> QED
  BY <1>2, <1>3 DEF EndRequest

\* Types are preserved.
LEMMA TypeStep == IInv /\ [Next]_vars => TypeOK'
<1> SUFFICES ASSUME IInv, [Next]_vars PROVE TypeOK'
  OBVIOUS
<1> USE BtAdapterAssumption DEF IInv, TypeOK, NoAdapter, NoProxy, bluezVars, proxyVars,
        threadVars, appVars, history
<1>1. CASE FetchNext
  <2>1. Least(todo) \in todo /\ Least(todo) \in Adapters
    BY <1>1, LeastIsOne DEF FetchNext
  <2> QED BY <1>1, <2>1 DEF FetchNext, AddAdapter, Goto, Threads, Pcs
<1>2. CASE HandleAnnounced
  <2> DEFINE a == Head(announced).adapter
  <2> DEFINE A == [added : BOOLEAN, adapter : Adapters]
  <2>1. a \in Adapters /\ Tail(announced) \in Seq(A)
    <3>1. announced \in Seq(A) /\ announced # <<>>
      BY <1>2 DEF HandleAnnounced
    <3>2. Head(announced) \in A /\ Tail(announced) \in Seq(A)
      <4> HIDE DEF A
      <4> QED BY <3>1
    <3> QED BY <3>2
  <2>2. announced' = Tail(announced) /\ UNCHANGED <<proxyVars, todo, isPowered, readValue, power, request>>
    BY <1>2 DEF HandleAnnounced
  <2>3. CASE AddAdapter("bus", a)
    BY <2>1, <2>2, <2>3 DEF AddAdapter, Goto, Threads, Pcs
  <2>4. CASE RemoveAdapter("bus", a)
    <3>1. Least(available \ {a}) \in Adapters \cup {NoAdapter}
      <4>1. CASE available \ {a} = {}
        BY <4>1 DEF Least
      <4>2. CASE available \ {a} # {}
        <5>1. available \ {a} \in SUBSET Adapters
          OBVIOUS
        <5>2. Least(available \ {a}) \in available \ {a}
          BY <4>2, <5>1, LeastIsOne
        <5> QED BY <5>1, <5>2
      <4> QED BY <4>1, <4>2
    <3> HIDE DEF a
    <3> QED BY <2>1, <2>2, <2>4, <3>1 DEF RemoveAdapter, Goto, Threads, Pcs
  <2> QED BY <1>2, <2>3, <2>4 DEF HandleAnnounced
<1>3. ASSUME NEW t \in Threads, CreateProxy(t) PROVE TypeOK'
  <2>1. CASE Goto(t, "create", "idle") /\ UNCHANGED <<proxyOf, local>>
    BY <1>3, <2>1 DEF CreateProxy, Goto, Pcs
  <2>2. ASSUME NEW p \in Proxies, proxyOf[p] = NoAdapter, Goto(t, "create", "publish"),
               proxyOf' = [proxyOf EXCEPT ![p] = target[t]], local' = [local EXCEPT ![t] = p]
        PROVE  TypeOK'
    BY <1>3, <2>2 DEF CreateProxy, Goto, Pcs
  <2> QED BY <1>3, <2>1, <2>2 DEF CreateProxy
<1>4. ASSUME NEW t \in Threads, Publish(t) PROVE TypeOK'
  BY <1>4, SMTT(10), ZenonT(40) DEF Publish, Goto, Pcs, HeldInv
<1>5. ASSUME NEW t \in Threads, ReadPowered(t) PROVE TypeOK'
  BY <1>5, SMTT(10), ZenonT(40) DEF ReadPowered, Goto, Pcs
<1>6. ASSUME NEW t \in Threads, Recheck(t) PROVE TypeOK'
  BY <1>6 DEF Recheck, Goto, Pcs
<1>7. ASSUME NEW t \in Threads, StorePowered(t) PROVE TypeOK'
  BY <1>7 DEF StorePowered, Goto, Pcs
<1>8. ASSUME NEW t \in Threads, Drop(t) PROVE TypeOK'
  <2> HIDE DEF IInv
  <2>1. DropReference(t) /\ Goto(t, "drop", "idle") /\ readValue' = [readValue EXCEPT ![t] = FALSE]
    BY <1>8 DEF Drop
  <2>2. /\ proxyOf' \in [Proxies -> Adapters \cup {NoAdapter}]
        /\ inbox' \in [Proxies -> Seq(BOOLEAN)]
        /\ local' = [local EXCEPT ![t] = NoProxy]
        /\ handler' = handler
        /\ proxy \in Proxies => proxyOf'[proxy] = proxyOf[proxy]
    BY <2>1, DropKeeps
  <2> QED BY <1>8, <2>1, <2>2 DEF Drop, Goto, Pcs, IInv
<1>9. ASSUME NEW t \in Threads, Release(t) PROVE TypeOK'
  <2> HIDE DEF IInv
  <2>1. DropReference(t) /\ Goto(t, "release", "powerOff")
    BY <1>9 DEF Release
  <2>2. /\ proxyOf' \in [Proxies -> Adapters \cup {NoAdapter}]
        /\ inbox' \in [Proxies -> Seq(BOOLEAN)]
        /\ local' = [local EXCEPT ![t] = NoProxy]
        /\ handler' = handler
        /\ proxy \in Proxies => proxyOf'[proxy] = proxyOf[proxy]
    BY <2>1, DropKeeps
  <2> QED BY <1>9, <2>1, <2>2 DEF Release, Goto, Pcs, IInv
<1>10. ASSUME NEW t \in Threads, PowerOff(t) PROVE TypeOK'
  BY <1>10 DEF PowerOff, Goto, Pcs
<1>11. ASSUME NEW p \in Proxies, CheckCurrent(p) PROVE TypeOK'
  <2>1. inbox[p] \in Seq(BOOLEAN) /\ inbox[p] # <<>>
    BY <1>11 DEF CheckCurrent
  <2>2. Tail(inbox[p]) \in Seq(BOOLEAN)
    BY <2>1
  <2>3. CASE handler' = [handler EXCEPT ![p] = "store"] /\ UNCHANGED inbox
    BY <1>11, <2>3 DEF CheckCurrent
  <2>4. CASE inbox' = [inbox EXCEPT ![p] = Tail(@)] /\ UNCHANGED handler
    BY <1>11, <2>2, <2>4 DEF CheckCurrent
  <2> QED BY <1>11, <2>3, <2>4 DEF CheckCurrent
<1>12. ASSUME NEW p \in Proxies, SetPoweredValue(p) PROVE TypeOK'
  <2>1. inbox[p] # <<>> /\ inbox[p] \in Seq(BOOLEAN)
    BY <1>12 DEF SetPoweredValue, HeldInv
  <2>2. Head(inbox[p]) \in BOOLEAN /\ Tail(inbox[p]) \in Seq(BOOLEAN)
    BY <2>1
  <2> QED BY <1>12, <2>2 DEF SetPoweredValue
<1>13. ASSUME NEW a \in Adapters, Plug(a) PROVE TypeOK'
  BY <1>13 DEF Plug
<1>14. ASSUME NEW a \in Adapters, Unplug(a) PROVE TypeOK'
  BY <1>14 DEF Unplug
<1>15. ASSUME NEW a \in Adapters, PowerFlips(a) PROVE TypeOK'
  <2>1. power' \in [Adapters -> BOOLEAN]
    BY <1>15 DEF PowerFlips, SetPower
  <2>2. inbox' \in [Proxies -> Seq(BOOLEAN)]
    BY <1>15, SignalTyped DEF PowerFlips, SetPower
  <2> QED BY <1>15, <2>1, <2>2 DEF PowerFlips
<1>16. CASE BeginRequest
  BY <1>16 DEF BeginRequest
<1>17. CASE EndRequest
  <2>1. request \in Proxies /\ request' = NoProxy
    BY <1>17 DEF EndRequest
  <2>2. power' \in [Adapters -> BOOLEAN]
    BY <1>17 DEF EndRequest
  <2>3. /\ inbox' \in [Proxies -> Seq(BOOLEAN)]
        /\ proxyOf' \in [Proxies -> Adapters \cup {NoAdapter}]
        /\ proxy \in Proxies => proxyOf'[proxy] = proxyOf[proxy]
    BY <1>17, RequestKeeps
  <2> QED BY <1>17, <2>1, <2>2, <2>3 DEF EndRequest
<1>18. CASE UNCHANGED vars
  BY <1>18 DEF vars
<1> QED
  BY <1>1, <1>2, <1>3, <1>4, <1>5, <1>6, <1>7, <1>8, <1>9, <1>10, <1>11, <1>12, <1>13, <1>14,
     <1>15, <1>16, <1>17, <1>18 DEF Next, Thread, SelectAdapter

\* HeldInv is preserved.
LEMMA HeldStep == IInv /\ [Next]_vars => HeldInv'
<1> SUFFICES ASSUME IInv, [Next]_vars PROVE HeldInv'
  OBVIOUS
<1> USE BtAdapterAssumption DEF IInv, TypeOK, HeldInv, NoAdapter, NoProxy, bluezVars,
        proxyVars, threadVars, appVars, history
<1>1. CASE FetchNext
  BY <1>1 DEF FetchNext, AddAdapter, Goto
<1>2. CASE HandleAnnounced
  <2> DEFINE a == Head(announced).adapter
  <2>1. UNCHANGED proxyVars
    BY <1>2 DEF HandleAnnounced
  <2>2. CASE AddAdapter("bus", a)
    BY <2>1, <2>2 DEF AddAdapter, Goto
  <2>3. CASE RemoveAdapter("bus", a)
    <3> HIDE DEF a
    <3>1. pc["bus"] = "idle"
      BY <1>2 DEF HandleAnnounced
    <3>2. CASE UNCHANGED <<current, proxy, local, target, pc>>
      BY <2>1, <3>2
    <3>3. CASE /\ proxy' = NoProxy
               /\ local' = [local EXCEPT !["bus"] = proxy]
               /\ target' = [target EXCEPT !["bus"] = Least(available \ {a})]
               /\ pc' = [pc EXCEPT !["bus"] = "release"]
      <4> DEFINE b == Least(available \ {a})
      <4> HIDE DEF b
      <4> QED BY <2>1, <3>1, <3>3 DEF Threads, b
    <3> QED BY <2>3, <3>2, <3>3 DEF RemoveAdapter, Goto
  <2> QED BY <1>2, <2>2, <2>3 DEF HandleAnnounced
<1>3. ASSUME NEW t \in Threads, CreateProxy(t) PROVE HeldInv'
  <2>1. CASE Goto(t, "create", "idle") /\ UNCHANGED <<proxyOf, local>>
    BY <1>3, <2>1 DEF CreateProxy, Goto
  <2>2. ASSUME NEW p \in Proxies, proxyOf[p] = NoAdapter, Goto(t, "create", "publish"),
               proxyOf' = [proxyOf EXCEPT ![p] = target[t]], local' = [local EXCEPT ![t] = p]
        PROVE  HeldInv'
    BY <1>3, <2>2 DEF CreateProxy, Goto
  <2> QED BY <1>3, <2>1, <2>2 DEF CreateProxy
<1>4. ASSUME NEW t \in Threads, Publish(t) PROVE HeldInv'
  BY <1>4 DEF Publish, Goto
<1>5. ASSUME NEW t \in Threads, ReadPowered(t) PROVE HeldInv'
  BY <1>5 DEF ReadPowered, Goto
<1>6. ASSUME NEW t \in Threads, Recheck(t) PROVE HeldInv'
  BY <1>6 DEF Recheck, Goto
<1>7. ASSUME NEW t \in Threads, StorePowered(t) PROVE HeldInv'
  BY <1>7 DEF StorePowered, Goto
<1>8. ASSUME NEW t \in Threads, DropReference(t), NEW to \in {"idle", "powerOff"},
             pc' = [pc EXCEPT ![t] = to], UNCHANGED <<current, proxy, target>>
      PROVE  HeldInv'
  <2> HIDE DEF IInv
  <2>1. /\ local' = [local EXCEPT ![t] = NoProxy]
        /\ handler' = handler
        /\ \A p \in Proxies :
               (p = proxy \/ \E u \in Threads \ {t} : local[u] = p) => proxyOf'[p] = proxyOf[p]
        /\ \A p \in Proxies : handler[p] = "store" => inbox'[p] = inbox[p]
    BY <1>8, DropKeeps
  <2> QED BY <1>8, <2>1 DEF IInv
<1>9. ASSUME NEW t \in Threads, Drop(t) PROVE HeldInv'
  BY <1>8, <1>9 DEF Drop, Goto
<1>10. ASSUME NEW t \in Threads, Release(t) PROVE HeldInv'
  BY <1>8, <1>10 DEF Release, Goto
<1>11. ASSUME NEW t \in Threads, PowerOff(t) PROVE HeldInv'
  BY <1>11 DEF PowerOff, Goto
<1>12. ASSUME NEW p \in Proxies, CheckCurrent(p) PROVE HeldInv'
  <2>1. CASE handler' = [handler EXCEPT ![p] = "store"] /\ UNCHANGED inbox
    BY <1>12, <2>1 DEF CheckCurrent
  <2>2. CASE inbox' = [inbox EXCEPT ![p] = Tail(@)] /\ UNCHANGED handler
    BY <1>12, <2>2 DEF CheckCurrent
  <2> QED BY <1>12, <2>1, <2>2 DEF CheckCurrent
<1>13. ASSUME NEW p \in Proxies, SetPoweredValue(p) PROVE HeldInv'
  BY <1>13 DEF SetPoweredValue
<1>14. ASSUME NEW a \in Adapters, Plug(a) \/ Unplug(a) PROVE HeldInv'
  BY <1>14 DEF Plug, Unplug
<1>15. ASSUME NEW a \in Adapters, PowerFlips(a) PROVE HeldInv'
  <2>1. \A p \in Proxies : inbox[p] # <<>> => inbox'[p] # <<>>
    BY <1>15, SignalTyped DEF PowerFlips, SetPower
  <2> QED BY <1>15, <2>1 DEF PowerFlips
<1>16. CASE BeginRequest
  BY <1>16 DEF BeginRequest
<1>17. CASE EndRequest
  <2>1. /\ \A p \in {proxy} \cup {local[t] : t \in Threads} :
               p \in Proxies => proxyOf'[p] = proxyOf[p]
        /\ \A p \in Proxies : handler[p] = "store" /\ inbox[p] # <<>> => inbox'[p] # <<>>
    BY <1>17, RequestKeeps
  <2> QED BY <1>17, <2>1 DEF EndRequest
<1>18. CASE UNCHANGED vars
  BY <1>18 DEF vars
<1> QED
  BY <1>1, <1>2, <1>3, <1>4, <1>5, <1>6, <1>7, <1>9, <1>10, <1>11, <1>12, <1>13, <1>14,
     <1>15, <1>16, <1>17, <1>18 DEF Next, Thread, SelectAdapter

\* SelectsInv is preserved.
LEMMA SelectsStep == IInv /\ [Next]_vars => SelectsInv'
<1> SUFFICES ASSUME IInv, [Next]_vars PROVE SelectsInv'
  OBVIOUS
<1> USE BtAdapterAssumption DEF IInv, TypeOK, SelectsInv, Pending, Selecting, NoAdapter,
        bluezVars, proxyVars, threadVars, appVars, history
<1>1. CASE FetchNext
  <2> DEFINE a == Least(todo)
  <2> HIDE DEF a
  <2>1. AddAdapter("fetch", a) /\ UNCHANGED failed
    BY <1>1 DEF FetchNext, a
  <2>2. pc["fetch"] = "idle" /\ current' = current /\ available' = available \cup {a}
    BY <2>1 DEF AddAdapter, Goto
  <2>3. pc'["bus"] = pc["bus"] /\ target'["bus"] = target["bus"]
    BY <2>1 DEF AddAdapter, Goto, Threads
  <2>4. current = NoAdapter => pc'["fetch"] = "create" /\ target'["fetch"] = a
    BY <2>1 DEF AddAdapter, Goto, Threads
  <2> QED BY <2>1, <2>2, <2>3, <2>4
<1>2. CASE HandleAnnounced
  <2> DEFINE a == Head(announced).adapter
  <2> HIDE DEF a
  <2>1. pc["bus"] = "idle" /\ UNCHANGED failed
    BY <1>2 DEF HandleAnnounced
  <2>2. CASE AddAdapter("bus", a)
    <3>1. current' = current /\ a \in available'
      BY <2>2 DEF AddAdapter
    <3>2. current = NoAdapter => pc'["bus"] = "create" /\ target'["bus"] = a
      BY <2>2 DEF AddAdapter, Goto, Threads
    <3> QED BY <3>1, <3>2
  <2>3. CASE RemoveAdapter("bus", a)
    <3>1. available' = available \ {a}
      BY <2>3 DEF RemoveAdapter
    <3>2. CASE current # a /\ UNCHANGED <<current, target, pc>>
      <4>1. ~Pending("bus")
        BY <2>1
      <4>2. Pending("fetch") /\ available = {target["fetch"]} /\ available' # {}
                => available' = available
        BY <3>1
      <4> QED BY <2>1, <3>2, <3>1, <4>1, <4>2
    <3>3. CASE /\ pc'["bus"] = "release"
               /\ target'["bus"] = Least(available \ {a})
      <4>1. available' # {} => target'["bus"] \in available'
        <5>1. available \ {a} \in SUBSET Adapters
          OBVIOUS
        <5> QED BY <3>1, <3>3, <5>1, LeastIsOne
      <4> QED BY <3>3, <4>1
    <3> QED BY <2>3, <3>2, <3>3 DEF RemoveAdapter, Goto, Threads
  <2> QED BY <1>2, <2>2, <2>3 DEF HandleAnnounced, a
<1>3. ASSUME NEW t \in Threads, CreateProxy(t) PROVE SelectsInv'
  <2>1. CASE failed' = failed \cup {target[t]}
    BY <2>1
  <2>2. CASE Goto(t, "create", "publish") /\ UNCHANGED failed
    BY <1>3, <2>2 DEF CreateProxy, Goto, Threads
  <2> QED BY <1>3, <2>1, <2>2 DEF CreateProxy
<1>4. ASSUME NEW t \in Threads, Publish(t) PROVE SelectsInv'
  <2>1. CASE current' = target[t]
    BY <1>4, <2>1 DEF Publish, Goto
  <2>2. CASE /\ target[t] \notin available \/ current # NoAdapter
             /\ Goto(t, "publish", "drop")
             /\ UNCHANGED <<current, failed>>
    BY <1>4, <2>2 DEF Publish, Goto, Threads
  <2> QED BY <1>4, <2>1, <2>2 DEF Publish
<1>5. ASSUME NEW t \in Threads, NEW to \in Pcs, pc[t] \notin Selecting,
             pc' = [pc EXCEPT ![t] = to], UNCHANGED <<available, current, target, failed>>
      PROVE  SelectsInv'
  BY <1>5 DEF Threads
<1>6. ASSUME NEW t \in Threads, ReadPowered(t) \/ Recheck(t) \/ StorePowered(t) \/ Drop(t)
      PROVE  SelectsInv'
  BY <1>5, <1>6 DEF ReadPowered, Recheck, StorePowered, Drop, Goto, Pcs
<1>7. ASSUME NEW t \in Threads, Release(t) PROVE SelectsInv'
  BY <1>7 DEF Release, Goto, Threads
<1>8. ASSUME NEW t \in Threads, PowerOff(t) PROVE SelectsInv'
  BY <1>8 DEF PowerOff, Goto, Threads
<1>9. CASE UNCHANGED <<available, current, pc, target, failed>>
  BY <1>9
<1>10. ASSUME NEW p \in Proxies, CheckCurrent(p) \/ SetPoweredValue(p) PROVE SelectsInv'
  BY <1>9, <1>10 DEF CheckCurrent, SetPoweredValue
<1>11. ASSUME NEW a \in Adapters, Plug(a) \/ Unplug(a) \/ PowerFlips(a) PROVE SelectsInv'
  BY <1>9, <1>11 DEF Plug, Unplug, PowerFlips
<1>12. CASE BeginRequest \/ EndRequest \/ UNCHANGED vars
  BY <1>9, <1>12 DEF BeginRequest, EndRequest, vars
<1> QED
  BY <1>1, <1>2, <1>3, <1>4, <1>6, <1>7, <1>8, <1>10, <1>11, <1>12
  DEF Next, Thread, SelectAdapter

\* The three parts are kept together by every step, for any number of adapters and proxies.
THEOREM Invariance == Spec => []IInv
<1>1. IInv /\ [Next]_vars => IInv'
  BY TypeStep, HeldStep, SelectsStep DEF IInv
<1> QED
  BY InitInv, <1>1, PTL DEF Spec

\* Once everything is handled an adapter is selected if there is one, unless the proxy of one
\* could not be created since the last was selected (DBusBtAdapter.cpp:32, 55, 92).
THEOREM AdapterIsUsed == Spec => []AdapterUsed
<1>1. IInv => AdapterUsed
  BY DEF IInv, SelectsInv, Pending, Selecting, AdapterUsed, Rest, Threads
<1> QED
  BY Invariance, <1>1, PTL

\* The first adapter selected stays so until it is removed (DBusBtAdapter.h:20), whichever of the
\* two threads come to select another.
THEOREM FirstStays == Spec => FirstStaysSelected
<1> DEFINE Stays == current # NoAdapter /\ current' # current =>
                       current' = NoAdapter /\ current \notin available'
<1>1. ASSUME Next PROVE Stays
  <2> USE DEF bluezVars, proxyVars, threadVars, appVars, history
  <2>1. CASE FetchNext
    BY <2>1 DEF FetchNext, AddAdapter
  <2>2. CASE HandleAnnounced
    BY <2>2 DEF HandleAnnounced, AddAdapter, RemoveAdapter
  <2>3. ASSUME NEW t \in Threads, Publish(t) PROVE Stays
    BY <2>3 DEF Publish
  <2>4. ASSUME NEW t \in Threads, Thread(t), ~Publish(t) PROVE Stays
    BY <2>4 DEF Thread, SelectAdapter, CreateProxy, ReadPowered, Recheck, StorePowered, Drop,
                Release, PowerOff
  <2>5. ASSUME NEW p \in Proxies, CheckCurrent(p) \/ SetPoweredValue(p) PROVE Stays
    BY <2>5 DEF CheckCurrent, SetPoweredValue
  <2>6. ASSUME NEW a \in Adapters, Plug(a) \/ Unplug(a) \/ PowerFlips(a) PROVE Stays
    BY <2>6 DEF Plug, Unplug, PowerFlips
  <2>7. CASE BeginRequest \/ EndRequest
    BY <2>7 DEF BeginRequest, EndRequest
  <2> QED BY <1>1, <2>1, <2>2, <2>3, <2>4, <2>5, <2>6, <2>7 DEF Next
<1>2. [Next]_vars => [Stays]_current
  BY <1>1 DEF vars
<1> QED
  BY <1>2, PTL DEF Spec, FirstStaysSelected

-----------------------------------------------------------------------------
(***************************************************************************)
(* Whether Bluetooth is shown as on                                        *)
(***************************************************************************)
Reading(t) == pc[t] \in {"read", "recheck", "store"}

\* BlueZ has announced that the adapter goes, or it has gone and its proxy is being released.
Leaving(a) == \E i \in DOMAIN announced : announced[i] = [added |-> FALSE, adapter |-> a]
Released(a) == \E t \in Threads : pc[t] = "release" /\ proxyOf[local[t]] = a
Gone(a) == Leaving(a) \/ Released(a)

\* The latest signal that waits at proxy p says v.
Latest(p, v) == inbox[p] # <<>> /\ inbox[p][Len(inbox[p])] = v

\* A proxy somebody holds, or one with a signal, is alive.
LiveInv ==
    /\ \A t \in Threads : local[t] # NoProxy => proxyOf[local[t]] # NoAdapter
    /\ request # NoProxy => proxyOf[request] # NoAdapter
    /\ \A p \in Proxies : inbox[p] # <<>> => proxyOf[p] # NoAdapter

\* Nobody else holds a proxy that is to be published, and one that is released is not selected.
OwnInv ==
    \A t \in Threads :
        /\ pc[t] = "publish" =>
               /\ local[t] \notin {proxy, request}
               /\ \A u \in Threads \ {t} : local[u] # local[t]
        /\ pc[t] = "release" => local[t] \in Proxies /\ local[t] # proxy

\* One thread at a time reads Powered, of the selected adapter or of one that is released.
ReadingInv ==
    ~survived =>
        /\ \A t \in Threads : Reading(t) =>
               \/ current = target[t] /\ proxy = local[t]
               \/ /\ current = NoAdapter
                  /\ \E u \in Threads \ {t} : pc[u] = "release" /\ local[u] = local[t]
        /\ \A t, u \in Threads : Reading(t) /\ Reading(u) => t = u

\* A callback stores the power of the selected adapter or of one that is released.
StoringInv ==
    ~survived =>
        \A p \in Proxies :
            handler[p] = "store" => current = proxyOf[p] \/ Released(proxyOf[p])

\* The latest signal says what the power is, unless the adapter goes.
LatestInv ==
    ~survived =>
        \A p \in Proxies :
            inbox[p] # <<>> => Latest(p, power[proxyOf[p]]) \/ Gone(proxyOf[p])

\* Without a selected adapter the state is powered off, or is about to be.
OffInv ==
    ~survived /\ current = NoAdapter =>
        ~isPowered \/ \E t \in Threads : pc[t] \in {"release", "powerOff"}

\* The state is that of the selected adapter, or a thread reads it.
Known ==
    \/ \E t \in Threads :
         /\ target[t] = current
         /\ \/ pc[t] = "read"
            \/ pc[t] \in {"recheck", "store"} /\ readValue[t] = power[current]
    \/ /\ isPowered = power[current]
       /\ \A t \in Threads : ~Reading(t)

\* So it is unless a signal will bring it up to date.
CurrentInv ==
    current # NoAdapter /\ current \notin misread /\ ~survived /\ ~overtaken =>
        Gone(current) \/ inbox[proxy] # <<>> \/ Known

ValuesInv ==
    /\ LiveInv
    /\ OwnInv
    /\ ReadingInv
    /\ StoringInv
    /\ LatestInv
    /\ OffInv
    /\ CurrentInv

\* A signal of an adapter's power is the latest of its proxies, and no other proxy's.
LEMMA SignalIsLatest ==
    ASSUME TypeOK, NEW a, NEW v \in BOOLEAN, Signal(a, v), NEW p \in Proxies
    PROVE  /\ proxyOf[p] = a => inbox'[p] # <<>> /\ inbox'[p][Len(inbox'[p])] = v
           /\ proxyOf[p] # a => inbox'[p] = inbox[p]
<1>1. inbox[p] \in Seq(BOOLEAN)
  BY DEF TypeOK
<1>2. ASSUME NEW S, NEW q \in Seq(S), NEW e \in S
      PROVE  Append(q, e) # <<>> /\ Append(q, e)[Len(Append(q, e))] = e
  OBVIOUS
<1>3. Append(inbox[p], v) # <<>> /\ Append(inbox[p], v)[Len(Append(inbox[p], v))] = v
  BY <1>1, <1>2
<1> QED
  BY <1>3 DEF Signal

\* What a proxy has been signalled and what its adapter's power is change together.
PowerMoves ==
    \A p \in Proxies :
        \/ /\ proxyOf'[p] = proxyOf[p]
           /\ \/ /\ inbox'[p] = inbox[p]
                 /\ proxyOf[p] \in Adapters => power'[proxyOf[p]] = power[proxyOf[p]]
              \/ /\ proxyOf[p] \in Adapters
                 /\ Latest(p, power[proxyOf[p]])'
        \/ /\ p \notin {proxy} \cup {local[t] : t \in Threads}
           /\ handler[p] = "idle"
           /\ proxyOf'[p] = NoAdapter /\ inbox'[p] = <<>>

\* A change of power reaches every proxy of the adapter.
LEMMA FlipMoves == ASSUME TypeOK, NEW a \in Adapters, PowerFlips(a) PROVE PowerMoves
<1> DEFINE v == ~power[a]
<1>1. power[a] \in BOOLEAN /\ power' = [power EXCEPT ![a] = v] /\ proxyOf' = proxyOf
  BY DEF TypeOK, PowerFlips, SetPower
<1>2. power[a] # v => Signal(a, v)
  BY DEF PowerFlips, SetPower
<1>3. v \in BOOLEAN /\ power[a] # v
  <2>1. power' \in [Adapters -> BOOLEAN] /\ power \in [Adapters -> BOOLEAN]
    BY DEF TypeOK, PowerFlips, SetPower
  <2>2. power'[a] = v
    <3> HIDE DEF v
    <3> QED BY <1>1, <2>1
  <2>3. ASSUME NEW b \in BOOLEAN PROVE b # ~b
    OBVIOUS
  <2> QED BY <1>1, <2>1, <2>2, <2>3
<1> HIDE DEF v
<1>4. ASSUME NEW p \in Proxies
      PROVE  \/ /\ inbox'[p] = inbox[p]
                /\ proxyOf[p] \in Adapters => power'[proxyOf[p]] = power[proxyOf[p]]
             \/ proxyOf[p] \in Adapters /\ Latest(p, power[proxyOf[p]])'
  <2>1. CASE proxyOf[p] = a
    <3>1. inbox'[p] # <<>> /\ inbox'[p][Len(inbox'[p])] = v
      BY <1>2, <1>3, <2>1, SignalIsLatest
    <3>2. proxyOf'[p] = a /\ power'[a] = v
      BY <1>1, <2>1 DEF TypeOK
    <3> QED BY <2>1, <3>1, <3>2 DEF Latest
  <2>2. CASE proxyOf[p] # a
    <3>1. inbox'[p] = inbox[p]
      BY <1>2, <1>3, <2>2, SignalIsLatest
    <3> QED BY <1>1, <2>2, <3>1 DEF TypeOK
  <2> QED BY <2>1, <2>2
<1> QED
  BY <1>1, <1>4 DEF PowerMoves

\* So does one that a request makes; the proxy of the request goes if nobody else holds it.
LEMMA RequestMoves == ASSUME TypeOK, EndRequest PROVE PowerMoves
<1> DEFINE a == proxyOf[request]
           others == {proxy} \cup {local[t] : t \in Threads}
<1>1. power' = power \/ (a \in Adapters /\ \E v \in BOOLEAN : power' = [power EXCEPT ![a] = v])
  BY DEF TypeOK, EndRequest
<1>2. power' # power => a \in Adapters /\ power'[a] \in BOOLEAN /\ power'[a] # power[a]
  BY <1>1 DEF TypeOK
<1>3. \A b \in Adapters : b # a => power'[b] = power[b]
  BY <1>1 DEF TypeOK
<1> HIDE DEF a
<1>4. CASE /\ IF power' # power THEN Signal(a, power'[a]) ELSE UNCHANGED inbox
           /\ UNCHANGED proxyOf
  <2>1. ASSUME NEW p \in Proxies
        PROVE  \/ /\ inbox'[p] = inbox[p]
                  /\ proxyOf[p] \in Adapters => power'[proxyOf[p]] = power[proxyOf[p]]
               \/ proxyOf[p] \in Adapters /\ Latest(p, power[proxyOf[p]])'
    <3>1. CASE power' = power
      BY <1>4, <3>1
    <3>2. CASE power' # power /\ proxyOf[p] = a
      BY <1>2, <1>4, <3>2, SignalIsLatest DEF Latest
    <3>3. CASE power' # power /\ proxyOf[p] # a
      BY <1>2, <1>3, <1>4, <3>3, SignalIsLatest
    <3> QED BY <3>1, <3>2, <3>3
  <2> QED BY <1>4, <2>1 DEF PowerMoves
<1>5. CASE /\ request \notin others
           /\ handler[request] = "idle"
           /\ proxyOf' = [proxyOf EXCEPT ![request] = NoAdapter]
           /\ inbox' = [q \in Proxies |->
                          IF q = request THEN <<>>
                          ELSE IF proxyOf[q] = a /\ power' # power
                          THEN Append(inbox[q], power'[a]) ELSE inbox[q]]
  <2>1. ASSUME NEW p \in Proxies, p = request
        PROVE  p \notin others /\ handler[p] = "idle" /\ proxyOf'[p] = NoAdapter /\ inbox'[p] = <<>>
    BY <1>5, <2>1 DEF TypeOK
  <2>2. ASSUME NEW p \in Proxies, p # request
        PROVE  /\ proxyOf'[p] = proxyOf[p]
               /\ \/ /\ inbox'[p] = inbox[p]
                     /\ proxyOf[p] \in Adapters => power'[proxyOf[p]] = power[proxyOf[p]]
                  \/ proxyOf[p] \in Adapters /\ Latest(p, power[proxyOf[p]])'
    <3>1. proxyOf'[p] = proxyOf[p]
      BY <1>5, <2>2 DEF TypeOK
    <3>2. CASE power' = power
      BY <1>5, <2>2, <3>1, <3>2
    <3>3. CASE power' # power /\ proxyOf[p] = a
      <4>1. inbox'[p] = Append(inbox[p], power'[a]) /\ inbox[p] \in Seq(BOOLEAN)
        BY <1>5, <2>2, <3>3 DEF TypeOK
      <4>2. ASSUME NEW S, NEW q \in Seq(S), NEW e \in S
            PROVE  Append(q, e) # <<>> /\ Append(q, e)[Len(Append(q, e))] = e
        OBVIOUS
      <4>3. inbox'[p] # <<>> /\ inbox'[p][Len(inbox'[p])] = power'[a]
        BY <1>2, <3>3, <4>1, <4>2
      <4> QED BY <1>2, <3>1, <3>3, <4>3 DEF Latest
    <3>4. CASE power' # power /\ proxyOf[p] # a
      BY <1>3, <1>5, <2>2, <3>1, <3>4
    <3> QED BY <3>1, <3>2, <3>3, <3>4
  <2> QED BY <2>1, <2>2 DEF PowerMoves
<1> QED
  BY <1>4, <1>5 DEF EndRequest, a

\* Announcements are only added, and handled one by one.
LEMMA LeavingStays ==
    ASSUME TypeOK, [Next]_vars, NEW b, Leaving(b),
           HandleAnnounced => Head(announced) # [added |-> FALSE, adapter |-> b]
    PROVE  Leaving(b)'
<1> DEFINE M == [added : BOOLEAN, adapter : Adapters]
           gone == [added |-> FALSE, adapter |-> b]
<1>1. announced \in Seq(M)
  BY DEF TypeOK
<1>2. PICK i \in DOMAIN announced : announced[i] = gone
  BY DEF Leaving
<1>3. HandleAnnounced => Head(announced) # gone
  OBVIOUS
<1>a. (\E j \in DOMAIN announced' : announced'[j] = gone) => Leaving(b)'
  BY DEF Leaving
<1> HIDE DEF gone
<1>4. ASSUME announced' = announced PROVE \E j \in DOMAIN announced' : announced'[j] = gone
  BY <1>2, <1>4
<1>5. ASSUME NEW m \in M, announced' = Append(announced, m)
      PROVE  \E j \in DOMAIN announced' : announced'[j] = gone
  <2> HIDE DEF M
  <2>1. i \in DOMAIN announced' /\ announced'[i] = announced[i]
    BY <1>1, <1>2, <1>5
  <2> QED BY <1>2, <2>1
<1>6. ASSUME HandleAnnounced PROVE \E j \in DOMAIN announced' : announced'[j] = gone
  <2>1. announced # <<>> /\ announced' = Tail(announced)
    BY <1>6 DEF HandleAnnounced
  <2>2. i # 1
    BY <1>2, <1>3, <1>6, <2>1
  <2>3. i - 1 \in DOMAIN announced' /\ announced'[i - 1] = announced[i]
    <3> HIDE DEF M
    <3> QED BY <1>1, <1>2, <2>1, <2>2
  <2> QED BY <1>2, <2>3
<1>7. ASSUME NEW a \in Adapters, Plug(a) \/ Unplug(a)
      PROVE  \E j \in DOMAIN announced' : announced'[j] = gone
  <2>1. [added |-> TRUE, adapter |-> a] \in M /\ [added |-> FALSE, adapter |-> a] \in M
    OBVIOUS
  <2> HIDE DEF M
  <2> QED BY <1>5, <1>7, <2>1 DEF Plug, Unplug
<1> USE DEF bluezVars
<1>8. ASSUME NEW t \in Threads, Thread(t) PROVE announced' = announced
  BY <1>8 DEF Thread, SelectAdapter, CreateProxy, Publish, ReadPowered, Recheck, StorePowered,
              Drop, Release, PowerOff
<1>9. CASE FetchNext \/ BeginRequest \/ EndRequest \/ UNCHANGED vars
  <2>1. announced' = announced
    BY <1>9 DEF FetchNext, BeginRequest, EndRequest, vars
  <2> QED BY <1>a, <1>4, <2>1
<1>10. ASSUME NEW p \in Proxies, CheckCurrent(p) \/ SetPoweredValue(p) PROVE announced' = announced
  BY <1>10 DEF CheckCurrent, SetPoweredValue
<1>11. ASSUME NEW a \in Adapters, PowerFlips(a) PROVE announced' = announced
  BY <1>11 DEF PowerFlips
<1> HIDE DEF M, bluezVars
<1> QED
  BY <1>a, <1>4, <1>6, <1>7, <1>8, <1>9, <1>10, <1>11 DEF Next

\* An adapter that is unplugged is announced to leave.
LEMMA UnplugLeaves == ASSUME TypeOK, NEW a \in Adapters, Unplug(a) PROVE Leaving(a)'
<1> DEFINE M == [added : BOOLEAN, adapter : Adapters]
           gone == [added |-> FALSE, adapter |-> a]
<1>1. gone \in M /\ announced \in Seq(M) /\ announced' = Append(announced, gone)
  BY DEF TypeOK, Unplug
<1>2. Len(announced') \in DOMAIN announced' /\ announced'[Len(announced')] = gone
  <2> HIDE DEF M, gone
  <2> QED BY <1>1
<1> QED
  BY <1>2 DEF Leaving

\* A thread that releases a proxy holds it until it has.
LEMMA ReleasedStays ==
    ASSUME IInv, LiveInv, OwnInv, [Next]_vars, NEW b \in Adapters, Released(b)
    PROVE  Released(b)' \/ \E t \in Threads : Release(t) /\ proxyOf[local[t]] = b
<1> USE BtAdapterAssumption DEF IInv, TypeOK, bluezVars, proxyVars, threadVars, appVars, history,
        NoAdapter, NoProxy
<1>0. PICK r \in Threads : pc[r] = "release" /\ proxyOf[local[r]] = b
  BY DEF Released
<1>1. SUFFICES ASSUME ~Release(r)
               PROVE  pc'[r] = "release" /\ local'[r] = local[r] /\ proxyOf'[local[r]] = b
  BY <1>0 DEF Released
<1>a. ASSUME NEW t \in Threads, t # r, DropReference(t), pc'[r] = pc[r]
      PROVE  pc'[r] = "release" /\ local'[r] = local[r] /\ proxyOf'[local[r]] = b
  <2>1. local'[r] = local[r]
    BY <1>a DEF DropReference
  <2>2. CASE proxyOf' = proxyOf
    BY <1>0, <1>a, <2>1, <2>2
  <2>3. CASE /\ local[t] \notin {proxy, request} \cup {local[u] : u \in Threads \ {t}}
             /\ proxyOf' = [proxyOf EXCEPT ![local[t]] = NoAdapter]
    BY <1>0, <1>a, <2>1, <2>3
  <2> QED BY <1>a, <2>2, <2>3 DEF DropReference
<1>2. CASE FetchNext
  BY <1>0, <1>2 DEF FetchNext, AddAdapter, Goto
<1>3. CASE HandleAnnounced
  BY <1>0, <1>3 DEF HandleAnnounced, AddAdapter, RemoveAdapter, Goto
<1>4. ASSUME NEW t \in Threads, CreateProxy(t)
      PROVE  pc'[r] = "release" /\ local'[r] = local[r] /\ proxyOf'[local[r]] = b
  <2>1. t # r
    BY <1>0, <1>4 DEF CreateProxy, Goto
  <2>2. CASE Goto(t, "create", "idle") /\ UNCHANGED <<proxyOf, local>>
    BY <1>0, <2>1, <2>2 DEF Goto
  <2>3. ASSUME NEW p \in Proxies, proxyOf[p] = NoAdapter, Goto(t, "create", "publish"),
               proxyOf' = [proxyOf EXCEPT ![p] = target[t]], local' = [local EXCEPT ![t] = p]
        PROVE  pc'[r] = "release" /\ local'[r] = local[r] /\ proxyOf'[local[r]] = b
    BY <1>0, <2>1, <2>3 DEF Goto
  <2> QED BY <1>4, <2>2, <2>3 DEF CreateProxy
<1>5. ASSUME NEW t \in Threads, Publish(t) \/ ReadPowered(t) \/ Recheck(t) \/ StorePowered(t)
      PROVE  pc'[r] = "release" /\ local'[r] = local[r] /\ proxyOf'[local[r]] = b
  BY <1>0, <1>5 DEF Publish, ReadPowered, Recheck, StorePowered, Goto
<1>6. ASSUME NEW t \in Threads, Drop(t)
      PROVE  pc'[r] = "release" /\ local'[r] = local[r] /\ proxyOf'[local[r]] = b
  <2>1. t # r /\ pc'[r] = pc[r] /\ DropReference(t)
    BY <1>0, <1>6 DEF Drop, Goto
  <2> QED BY <1>a, <2>1
<1>7. ASSUME NEW t \in Threads, Release(t)
      PROVE  pc'[r] = "release" /\ local'[r] = local[r] /\ proxyOf'[local[r]] = b
  <2>1. t # r /\ pc'[r] = pc[r] /\ DropReference(t)
    BY <1>0, <1>1, <1>7 DEF Release, Goto
  <2> QED BY <1>a, <2>1
<1>8. ASSUME NEW t \in Threads, PowerOff(t)
      PROVE  pc'[r] = "release" /\ local'[r] = local[r] /\ proxyOf'[local[r]] = b
  BY <1>0, <1>8 DEF PowerOff, Goto
<1>9. ASSUME NEW p \in Proxies, CheckCurrent(p) \/ SetPoweredValue(p)
      PROVE  pc'[r] = "release" /\ local'[r] = local[r] /\ proxyOf'[local[r]] = b
  BY <1>0, <1>9 DEF CheckCurrent, SetPoweredValue
<1>10. ASSUME NEW a \in Adapters, Plug(a) \/ Unplug(a) \/ PowerFlips(a)
       PROVE  pc'[r] = "release" /\ local'[r] = local[r] /\ proxyOf'[local[r]] = b
  BY <1>0, <1>10 DEF Plug, Unplug, PowerFlips
<1>11. CASE BeginRequest \/ UNCHANGED vars
  BY <1>0, <1>11 DEF BeginRequest, vars
<1>12. CASE EndRequest
  <2>1. local[r] \in Proxies
    BY <1>0 DEF OwnInv
  <2>2. proxyOf'[local[r]] = proxyOf[local[r]]
    BY <1>12, <2>1, RequestKeeps
  <2> QED BY <1>0, <1>12, <2>2 DEF EndRequest
<1> QED
  BY <1>2, <1>3, <1>4, <1>5, <1>6, <1>7, <1>8, <1>9, <1>10, <1>11, <1>12
  DEF Next, Thread, SelectAdapter

\* A release that leaves nobody with a proxy of the adapter frees the proxy, which is idle.
LEMMA ReleaseFrees ==
    ASSUME TypeOK, OwnInv, NEW t \in Threads, Release(t), ~survived'
    PROVE  /\ ~survived
           /\ pc[t] = "release" /\ pc' = [pc EXCEPT ![t] = "powerOff"]
           /\ local[t] \in Proxies /\ local' = [local EXCEPT ![t] = NoProxy]
           /\ \A u \in Threads \ {t} : local[u] # local[t]
           /\ \A p \in Proxies \ {local[t]} : proxyOf[p] # proxyOf[local[t]]
           /\ handler[local[t]] = "idle" /\ handler' = handler
           /\ proxyOf' = [proxyOf EXCEPT ![local[t]] = NoAdapter]
           /\ inbox' = [inbox EXCEPT ![local[t]] = <<>>]
<1>1. ~survived /\ ~Shared(t)
  BY DEF Release
<1>2. pc[t] = "release" /\ pc' = [pc EXCEPT ![t] = "powerOff"] /\ DropReference(t)
  BY DEF Release, Goto
<1>3. local[t] \in Proxies /\ local[t] # proxy /\ local[t] # NoProxy
  BY <1>2, BtAdapterAssumption DEF OwnInv
<1>4. /\ local[t] # request
      /\ \A u \in Threads \ {t} : local[u] # local[t]
      /\ \A p \in Proxies \ {local[t]} : proxyOf[p] # proxyOf[local[t]]
  BY <1>1 DEF Shared
<1>5. local[t] \notin {proxy, request} \cup {local[u] : u \in Threads \ {t}}
  BY <1>3, <1>4
<1> QED
  BY <1>1, <1>2, <1>3, <1>4, <1>5 DEF DropReference

\* That a proxy outlived its adapter is not forgotten, nor that a value was stored too late.
LEMMA HistoryStays ==
    ASSUME [Next]_vars
    PROVE  (~survived' => ~survived) /\ (~overtaken' => ~overtaken)
<1> USE DEF history
<1>1. CASE UNCHANGED <<survived, overtaken>>
  BY <1>1
<1>2. CASE HandleAnnounced
  BY <1>2 DEF HandleAnnounced
<1>3. ASSUME NEW t \in Threads, Release(t)
      PROVE  (~survived' => ~survived) /\ (~overtaken' => ~overtaken)
  BY <1>3 DEF Release
<1>4. ASSUME NEW t \in Threads, PowerOff(t)
      PROVE  (~survived' => ~survived) /\ (~overtaken' => ~overtaken)
  BY <1>4 DEF PowerOff
<1>5. ASSUME NEW p \in Proxies, SetPoweredValue(p)
      PROVE  (~survived' => ~survived) /\ (~overtaken' => ~overtaken)
  BY <1>5 DEF SetPoweredValue
<1>6. ASSUME NEW t \in Threads, SelectAdapter(t) PROVE UNCHANGED <<survived, overtaken>>
  BY <1>6 DEF SelectAdapter, CreateProxy, Publish, ReadPowered, Recheck, StorePowered, Drop
<1>7. CASE FetchNext \/ BeginRequest \/ EndRequest
  <2>1. UNCHANGED <<survived, overtaken>>
    BY <1>7 DEF FetchNext, BeginRequest, EndRequest
  <2> QED BY <1>1, <2>1
<1>8. CASE UNCHANGED vars
  <2>1. UNCHANGED <<survived, overtaken>>
    BY <1>8 DEF vars
  <2> QED BY <1>1, <2>1
<1>9. ASSUME NEW p \in Proxies, CheckCurrent(p) PROVE UNCHANGED <<survived, overtaken>>
  BY <1>9 DEF CheckCurrent
<1>10. ASSUME NEW a \in Adapters, Plug(a) \/ Unplug(a) \/ PowerFlips(a)
       PROVE  UNCHANGED <<survived, overtaken>>
  BY <1>10 DEF Plug, Unplug, PowerFlips
<1> HIDE DEF history
<1> QED
  BY <1>1, <1>2, <1>3, <1>4, <1>5, <1>6, <1>7, <1>8, <1>9, <1>10 DEF Next, Thread

\* An adapter that goes is gone for good, or no proxy of it is left.
LEMMA GoneStays ==
    ASSUME IInv, LiveInv, OwnInv, [Next]_vars, ~survived', NEW b \in Adapters, Gone(b)
    PROVE  Gone(b)' \/ \A p \in Proxies : proxyOf'[p] # b
<1>1. CASE Released(b)
  <2>1. ASSUME NEW t \in Threads, Release(t), proxyOf[local[t]] = b
        PROVE  \A p \in Proxies : proxyOf'[p] # b
    <3>1. /\ local[t] \in Proxies
          /\ \A p \in Proxies \ {local[t]} : proxyOf[p] # proxyOf[local[t]]
          /\ proxyOf' = [proxyOf EXCEPT ![local[t]] = NoAdapter]
      BY <2>1, ReleaseFrees DEF IInv
    <3> QED BY <2>1, <3>1, BtAdapterAssumption DEF IInv, TypeOK
  <2> QED BY <1>1, <2>1, ReleasedStays DEF Gone
<1>2. CASE Leaving(b) /\ HandleAnnounced /\ Head(announced) = [added |-> FALSE, adapter |-> b]
  <2>1. /\ ~Head(announced).added /\ Head(announced).adapter = b
        /\ RemoveAdapter("bus", b)
        /\ proxyOf' = proxyOf
    BY <1>2 DEF HandleAnnounced, proxyVars
  <2>2. CASE current # b
    <3>1. ~(/\ ~Head(announced).added /\ Head(announced).adapter # current
            /\ \E p \in Proxies : proxyOf[p] = Head(announced).adapter)
      BY <1>2 DEF HandleAnnounced
    <3> QED BY <2>1, <2>2, <3>1
  <2>3. CASE current = b
    <3>1. proxy \in Proxies /\ proxyOf[proxy] = b
      BY <2>3, BtAdapterAssumption DEF IInv, TypeOK, NoAdapter, NoProxy
    <3>2. pc'["bus"] = "release" /\ local'["bus"] = proxy
      BY <2>1, <2>3 DEF RemoveAdapter, Goto, IInv, TypeOK, Threads
    <3> QED BY <2>1, <3>1, <3>2 DEF Gone, Released, Threads
  <2> QED BY <2>2, <2>3
<1> QED
  BY <1>1, <1>2, LeavingStays DEF Gone, IInv

\* Proxies that are in use stay alive.
LEMMA LiveStep == IInv /\ ValuesInv /\ [Next]_vars => LiveInv'
<1> SUFFICES ASSUME IInv, ValuesInv, [Next]_vars PROVE LiveInv'
  OBVIOUS
<1> USE BtAdapterAssumption
    DEF NoAdapter, NoProxy, bluezVars, proxyVars, threadVars, appVars, history
<1>1. CASE FetchNext
  BY <1>1 DEF ValuesInv, LiveInv, FetchNext, AddAdapter
<1>2. CASE HandleAnnounced
  BY <1>2
  DEF IInv, TypeOK, ValuesInv, HeldInv, LiveInv, HandleAnnounced, AddAdapter, RemoveAdapter
<1>3. ASSUME NEW t \in Threads, CreateProxy(t) PROVE LiveInv'
  <2>1. CASE Goto(t, "create", "idle") /\ UNCHANGED <<proxyOf, local>>
    BY <1>3, <2>1 DEF ValuesInv, LiveInv, CreateProxy
  <2>2. ASSUME NEW p \in Proxies, proxyOf[p] = NoAdapter, Goto(t, "create", "publish"),
               proxyOf' = [proxyOf EXCEPT ![p] = target[t]], local' = [local EXCEPT ![t] = p]
        PROVE  LiveInv'
    BY <1>3, <2>2 DEF IInv, TypeOK, ValuesInv, LiveInv, CreateProxy, Goto
  <2> QED BY <1>3, <2>1, <2>2 DEF CreateProxy
<1>4. ASSUME NEW t \in Threads, Publish(t) PROVE LiveInv'
  BY <1>4 DEF ValuesInv, LiveInv, Publish
<1>5. ASSUME NEW t \in Threads, ReadPowered(t) PROVE LiveInv'
  BY <1>5 DEF ValuesInv, LiveInv, ReadPowered
<1>6. ASSUME NEW t \in Threads, Recheck(t) PROVE LiveInv'
  BY <1>6 DEF ValuesInv, LiveInv, Recheck
<1>7. ASSUME NEW t \in Threads, StorePowered(t) PROVE LiveInv'
  BY <1>7 DEF ValuesInv, LiveInv, StorePowered
<1>8. ASSUME NEW t \in Threads, Drop(t) PROVE LiveInv'
  BY <1>8 DEF IInv, TypeOK, ValuesInv, LiveInv, Drop, DropReference
<1>9. ASSUME NEW t \in Threads, Release(t) PROVE LiveInv'
  BY <1>9 DEF IInv, TypeOK, ValuesInv, LiveInv, Release, DropReference, Goto
<1>10. ASSUME NEW t \in Threads, PowerOff(t) PROVE LiveInv'
  BY <1>10 DEF ValuesInv, LiveInv, PowerOff
<1>11. ASSUME NEW p \in Proxies, CheckCurrent(p) PROVE LiveInv'
  BY <1>11 DEF IInv, TypeOK, ValuesInv, LiveInv, CheckCurrent
<1>12. ASSUME NEW p \in Proxies, SetPoweredValue(p) PROVE LiveInv'
  BY <1>12 DEF ValuesInv, LiveInv, SetPoweredValue
<1>13. ASSUME NEW a \in Adapters, Plug(a) PROVE LiveInv'
  BY <1>13 DEF ValuesInv, LiveInv, Plug
<1>14. ASSUME NEW a \in Adapters, Unplug(a) PROVE LiveInv'
  BY <1>14 DEF ValuesInv, LiveInv, Unplug
<1>15. ASSUME NEW a \in Adapters, PowerFlips(a) PROVE LiveInv'
  <2>1. PowerMoves
    BY <1>15, FlipMoves DEF IInv
  <2> QED
    BY <1>15, <2>1 DEF ValuesInv, LiveInv, PowerFlips, PowerMoves
<1>16. CASE BeginRequest
  BY <1>16 DEF IInv, TypeOK, ValuesInv, HeldInv, LiveInv, BeginRequest
<1>17. CASE EndRequest
  <2>1. PowerMoves
    BY <1>17, RequestMoves DEF IInv
  <2> QED
    BY <1>17, <2>1 DEF IInv, TypeOK, ValuesInv, LiveInv, EndRequest, PowerMoves
<1>18. CASE UNCHANGED vars
  BY <1>18 DEF ValuesInv, LiveInv, vars
<1> QED
  BY <1>1, <1>2, <1>3, <1>4, <1>5, <1>6, <1>7, <1>8, <1>9, <1>10, <1>11, <1>12, <1>13, <1>14,
     <1>15, <1>16, <1>17, <1>18
  DEF Next, Thread, SelectAdapter

\* Proxies stay their owners'.
LEMMA OwnStep == IInv /\ ValuesInv /\ [Next]_vars => OwnInv'
<1> SUFFICES ASSUME IInv, ValuesInv, [Next]_vars PROVE OwnInv'
  OBVIOUS
<1> USE BtAdapterAssumption
    DEF NoAdapter, NoProxy, bluezVars, proxyVars, threadVars, appVars, history
<1>1. CASE FetchNext
  BY <1>1 DEF ValuesInv, OwnInv, FetchNext, AddAdapter, Goto
<1>2. CASE HandleAnnounced
  <2> DEFINE a == Head(announced).adapter
  <2>1. /\ pc["bus"] = "idle" /\ "bus" \in Threads
        /\ UNCHANGED <<proxyOf, inbox, handler, request, power, readValue, isPowered>>
        /\ survived' = (survived \/ /\ ~Head(announced).added /\ a # current
                                     /\ \E p \in Proxies : proxyOf[p] = a)
    BY <1>2 DEF HandleAnnounced, Threads
  <2>2. ~survived' => ~survived
    BY <2>1
  <2>3. a \in Adapters
    <3> DEFINE M == [added : BOOLEAN, adapter : Adapters]
    <3>1. announced \in Seq(M) /\ announced # <<>>
      BY <1>2 DEF HandleAnnounced, IInv, TypeOK
    <3> HIDE DEF M
    <3>2. Head(announced) \in M
      BY <3>1
    <3> QED BY <3>2 DEF M
  <2> HIDE DEF a
  <2>4. CASE AddAdapter("bus", a)
    BY <2>1, <2>2, <2>4 DEF ValuesInv, OwnInv, AddAdapter, Goto
  <2>5. CASE current # a /\ UNCHANGED <<current, proxy, local, target, pc>>
    BY <2>1, <2>2, <2>5 DEF ValuesInv, OwnInv
  <2>6. CASE /\ current = a /\ current' = NoAdapter /\ proxy' = NoProxy
             /\ local' = [local EXCEPT !["bus"] = proxy]
             /\ target' = [target EXCEPT !["bus"] = Least(available \ {a})]
             /\ pc' = [pc EXCEPT !["bus"] = "release"]
    BY <2>1, <2>2, <2>3, <2>6 DEF IInv, TypeOK, ValuesInv, HeldInv, OwnInv
  <2> QED BY <1>2, <2>4, <2>5, <2>6 DEF HandleAnnounced, RemoveAdapter, Goto, a
<1>3. ASSUME NEW t \in Threads, CreateProxy(t) PROVE OwnInv'
  BY <1>3 DEF IInv, TypeOK, ValuesInv, HeldInv, LiveInv, OwnInv, CreateProxy, Goto
<1>4. ASSUME NEW t \in Threads, Publish(t) PROVE OwnInv'
  BY <1>4 DEF IInv, TypeOK, ValuesInv, OwnInv, Publish, Goto
<1>5. ASSUME NEW t \in Threads, ReadPowered(t) PROVE OwnInv'
  BY <1>5 DEF ValuesInv, OwnInv, ReadPowered, Goto
<1>6. ASSUME NEW t \in Threads, Recheck(t) PROVE OwnInv'
  BY <1>6 DEF ValuesInv, OwnInv, Recheck, Goto
<1>7. ASSUME NEW t \in Threads, StorePowered(t) PROVE OwnInv'
  BY <1>7 DEF ValuesInv, OwnInv, StorePowered, Goto
<1>8. ASSUME NEW t \in Threads, Drop(t) PROVE OwnInv'
  BY <1>8 DEF IInv, ValuesInv, HeldInv, OwnInv, Drop, DropReference, Goto
<1>9. ASSUME NEW t \in Threads, Release(t) PROVE OwnInv'
  BY <1>9 DEF IInv, TypeOK, ValuesInv, HeldInv, OwnInv, Release, DropReference, Goto
<1>10. ASSUME NEW t \in Threads, PowerOff(t) PROVE OwnInv'
  BY <1>10 DEF ValuesInv, OwnInv, PowerOff, Goto
<1>11. ASSUME NEW p \in Proxies, CheckCurrent(p) PROVE OwnInv'
  BY <1>11 DEF ValuesInv, OwnInv, CheckCurrent
<1>12. ASSUME NEW p \in Proxies, SetPoweredValue(p) PROVE OwnInv'
  BY <1>12 DEF ValuesInv, OwnInv, SetPoweredValue
<1>13. ASSUME NEW a \in Adapters, Plug(a) PROVE OwnInv'
  BY <1>13 DEF ValuesInv, OwnInv, Plug
<1>14. ASSUME NEW a \in Adapters, Unplug(a) PROVE OwnInv'
  BY <1>14 DEF ValuesInv, OwnInv, Unplug
<1>15. ASSUME NEW a \in Adapters, PowerFlips(a) PROVE OwnInv'
  BY <1>15 DEF ValuesInv, OwnInv, PowerFlips, SetPower
<1>16. CASE BeginRequest
  BY <1>16 DEF ValuesInv, OwnInv, BeginRequest
<1>17. CASE EndRequest
  BY <1>17 DEF IInv, ValuesInv, HeldInv, OwnInv, EndRequest
<1>18. CASE UNCHANGED vars
  BY <1>18 DEF ValuesInv, OwnInv, vars
<1> QED
  BY <1>1, <1>2, <1>3, <1>4, <1>5, <1>6, <1>7, <1>8, <1>9, <1>10, <1>11, <1>12, <1>13, <1>14,
     <1>15, <1>16, <1>17, <1>18
  DEF Next, Thread, SelectAdapter

\* Readers stay readers of the selected adapter.
LEMMA ReadingStep == IInv /\ ValuesInv /\ [Next]_vars => ReadingInv'
<1> SUFFICES ASSUME IInv, ValuesInv, [Next]_vars PROVE ReadingInv'
  OBVIOUS
<1> USE BtAdapterAssumption
    DEF NoAdapter, NoProxy, bluezVars, proxyVars, threadVars, appVars, history
<1>1. CASE FetchNext
  BY <1>1 DEF ValuesInv, ReadingInv, Reading, FetchNext, AddAdapter, Goto
<1>2. CASE HandleAnnounced
  <2> DEFINE a == Head(announced).adapter
  <2>1. /\ pc["bus"] = "idle" /\ "bus" \in Threads
        /\ UNCHANGED <<proxyOf, inbox, handler, request, power, readValue, isPowered>>
        /\ survived' = (survived \/ /\ ~Head(announced).added /\ a # current
                                     /\ \E p \in Proxies : proxyOf[p] = a)
    BY <1>2 DEF HandleAnnounced, Threads
  <2>2. ~survived' => ~survived
    BY <2>1
  <2>3. a \in Adapters
    <3> DEFINE M == [added : BOOLEAN, adapter : Adapters]
    <3>1. announced \in Seq(M) /\ announced # <<>>
      BY <1>2 DEF HandleAnnounced, IInv, TypeOK
    <3> HIDE DEF M
    <3>2. Head(announced) \in M
      BY <3>1
    <3> QED BY <3>2 DEF M
  <2> HIDE DEF a
  <2>4. CASE AddAdapter("bus", a)
    BY <2>1, <2>2, <2>4 DEF ValuesInv, ReadingInv, Reading, AddAdapter, Goto
  <2>5. CASE current # a /\ UNCHANGED <<current, proxy, local, target, pc>>
    BY <2>1, <2>2, <2>5 DEF ValuesInv, ReadingInv, Reading
  <2>6. CASE /\ current = a /\ current' = NoAdapter /\ proxy' = NoProxy
             /\ local' = [local EXCEPT !["bus"] = proxy]
             /\ target' = [target EXCEPT !["bus"] = Least(available \ {a})]
             /\ pc' = [pc EXCEPT !["bus"] = "release"]
    BY <2>1, <2>2, <2>3, <2>6 DEF IInv, TypeOK, ValuesInv, ReadingInv, Reading
  <2> QED BY <1>2, <2>4, <2>5, <2>6 DEF HandleAnnounced, RemoveAdapter, Goto, a
<1>3. ASSUME NEW t \in Threads, CreateProxy(t) PROVE ReadingInv'
  BY <1>3 DEF IInv, TypeOK, ValuesInv, ReadingInv, Reading, Threads, CreateProxy, Goto
<1>4. ASSUME NEW t \in Threads, Publish(t) PROVE ReadingInv'
  BY <1>4 DEF IInv, TypeOK, ValuesInv, ReadingInv, Reading, Threads, Publish, Goto
<1>5. ASSUME NEW t \in Threads, ReadPowered(t) PROVE ReadingInv'
  BY <1>5 DEF ValuesInv, ReadingInv, Reading, ReadPowered, Goto
<1>6. ASSUME NEW t \in Threads, Recheck(t) PROVE ReadingInv'
  BY <1>6 DEF ValuesInv, ReadingInv, Reading, Recheck, Goto
<1>7. ASSUME NEW t \in Threads, StorePowered(t) PROVE ReadingInv'
  BY <1>7 DEF ValuesInv, ReadingInv, Reading, StorePowered, Goto
<1>8. ASSUME NEW t \in Threads, Drop(t) PROVE ReadingInv'
  BY <1>8 DEF ValuesInv, ReadingInv, Reading, Drop, DropReference, Goto
<1>9. ASSUME NEW t \in Threads, Release(t) PROVE ReadingInv'
  <2> SUFFICES ASSUME ~survived' PROVE ReadingInv'
    BY DEF ReadingInv
  <2>1. /\ ~survived
        /\ pc[t] = "release" /\ pc' = [pc EXCEPT ![t] = "powerOff"]
        /\ local[t] \in Proxies /\ local' = [local EXCEPT ![t] = NoProxy]
        /\ \A u \in Threads \ {t} : local[u] # local[t]
        /\ \A p \in Proxies \ {local[t]} : proxyOf[p] # proxyOf[local[t]]
        /\ handler[local[t]] = "idle" /\ handler' = handler
        /\ proxyOf' = [proxyOf EXCEPT ![local[t]] = NoAdapter]
        /\ inbox' = [inbox EXCEPT ![local[t]] = <<>>]
    BY <1>9, ReleaseFrees DEF IInv, ValuesInv
  <2> QED
    BY <1>9, <2>1 DEF ValuesInv, ReadingInv, Reading, Release
<1>10. ASSUME NEW t \in Threads, PowerOff(t) PROVE ReadingInv'
  BY <1>10 DEF ValuesInv, ReadingInv, Reading, PowerOff, Goto
<1>11. ASSUME NEW p \in Proxies, CheckCurrent(p) PROVE ReadingInv'
  BY <1>11 DEF ValuesInv, ReadingInv, Reading, CheckCurrent
<1>12. ASSUME NEW p \in Proxies, SetPoweredValue(p) PROVE ReadingInv'
  BY <1>12 DEF ValuesInv, ReadingInv, Reading, SetPoweredValue
<1>13. ASSUME NEW a \in Adapters, Plug(a) PROVE ReadingInv'
  BY <1>13 DEF ValuesInv, ReadingInv, Reading, Plug
<1>14. ASSUME NEW a \in Adapters, Unplug(a) PROVE ReadingInv'
  BY <1>14 DEF ValuesInv, ReadingInv, Reading, Unplug
<1>15. ASSUME NEW a \in Adapters, PowerFlips(a) PROVE ReadingInv'
  BY <1>15 DEF ValuesInv, ReadingInv, Reading, PowerFlips, SetPower
<1>16. CASE BeginRequest
  BY <1>16 DEF ValuesInv, ReadingInv, Reading, BeginRequest
<1>17. CASE EndRequest
  BY <1>17 DEF ValuesInv, ReadingInv, Reading, EndRequest
<1>18. CASE UNCHANGED vars
  BY <1>18 DEF ValuesInv, ReadingInv, Reading, vars
<1> QED
  BY <1>1, <1>2, <1>3, <1>4, <1>5, <1>6, <1>7, <1>8, <1>9, <1>10, <1>11, <1>12, <1>13, <1>14,
     <1>15, <1>16, <1>17, <1>18
  DEF Next, Thread, SelectAdapter

\* Callbacks stay the selected adapter's.
LEMMA StoringStep == IInv /\ ValuesInv /\ [Next]_vars => StoringInv'
<1> SUFFICES ASSUME IInv, ValuesInv, [Next]_vars PROVE StoringInv'
  OBVIOUS
<1> USE BtAdapterAssumption
    DEF NoAdapter, NoProxy, bluezVars, proxyVars, threadVars, appVars, history
<1>1. CASE FetchNext
  BY <1>1 DEF ValuesInv, StoringInv, Released, FetchNext, AddAdapter, Goto
<1>2. CASE HandleAnnounced
  <2> DEFINE a == Head(announced).adapter
  <2>1. /\ pc["bus"] = "idle" /\ "bus" \in Threads
        /\ UNCHANGED <<proxyOf, inbox, handler, request, power, readValue, isPowered>>
        /\ survived' = (survived \/ /\ ~Head(announced).added /\ a # current
                                     /\ \E p \in Proxies : proxyOf[p] = a)
    BY <1>2 DEF HandleAnnounced, Threads
  <2>2. ~survived' => ~survived
    BY <2>1
  <2>3. a \in Adapters
    <3> DEFINE M == [added : BOOLEAN, adapter : Adapters]
    <3>1. announced \in Seq(M) /\ announced # <<>>
      BY <1>2 DEF HandleAnnounced, IInv, TypeOK
    <3> HIDE DEF M
    <3>2. Head(announced) \in M
      BY <3>1
    <3> QED BY <3>2 DEF M
  <2> HIDE DEF a
  <2>4. CASE AddAdapter("bus", a)
    BY <2>1, <2>2, <2>4 DEF ValuesInv, StoringInv, Released, AddAdapter, Goto
  <2>5. CASE current # a /\ UNCHANGED <<current, proxy, local, target, pc>>
    BY <2>1, <2>2, <2>5 DEF ValuesInv, StoringInv, Released
  <2>6. CASE /\ current = a /\ current' = NoAdapter /\ proxy' = NoProxy
             /\ local' = [local EXCEPT !["bus"] = proxy]
             /\ target' = [target EXCEPT !["bus"] = Least(available \ {a})]
             /\ pc' = [pc EXCEPT !["bus"] = "release"]
    BY <2>1, <2>2, <2>3, <2>6 DEF IInv, TypeOK, ValuesInv, StoringInv, Released
  <2> QED BY <1>2, <2>4, <2>5, <2>6 DEF HandleAnnounced, RemoveAdapter, Goto, a
<1>3. ASSUME NEW t \in Threads, CreateProxy(t) PROVE StoringInv'
  <2>1. CASE Goto(t, "create", "idle") /\ UNCHANGED <<proxyOf, local>>
    BY <1>3, <2>1 DEF ValuesInv, StoringInv, Released, CreateProxy, Goto
  <2>2. ASSUME NEW p \in Proxies, proxyOf[p] = NoAdapter, Goto(t, "create", "publish"),
               proxyOf' = [proxyOf EXCEPT ![p] = target[t]], local' = [local EXCEPT ![t] = p]
        PROVE  StoringInv'
    BY <1>3, <2>2 DEF IInv, ValuesInv, HeldInv, LiveInv, StoringInv, Released, CreateProxy, Goto
  <2> QED BY <1>3, <2>1, <2>2 DEF CreateProxy
<1>4. ASSUME NEW t \in Threads, Publish(t) PROVE StoringInv'
  BY <1>4 DEF IInv, TypeOK, ValuesInv, HeldInv, LiveInv, StoringInv, Released, Publish, Goto
<1>5. ASSUME NEW t \in Threads, ReadPowered(t) PROVE StoringInv'
  BY <1>5 DEF ValuesInv, StoringInv, Released, ReadPowered, Goto
<1>6. ASSUME NEW t \in Threads, Recheck(t) PROVE StoringInv'
  BY <1>6 DEF ValuesInv, StoringInv, Released, Recheck, Goto
<1>7. ASSUME NEW t \in Threads, StorePowered(t) PROVE StoringInv'
  BY <1>7 DEF ValuesInv, StoringInv, Released, StorePowered, Goto
<1>8. ASSUME NEW t \in Threads, Drop(t) PROVE StoringInv'
  BY <1>8
  DEF IInv, TypeOK, ValuesInv, HeldInv, OwnInv, StoringInv, Released, Threads, Drop,
      DropReference, Goto
<1>9. ASSUME NEW t \in Threads, Release(t) PROVE StoringInv'
  <2> SUFFICES ASSUME ~survived' PROVE StoringInv'
    BY DEF StoringInv
  <2>1. /\ ~survived
        /\ pc[t] = "release" /\ pc' = [pc EXCEPT ![t] = "powerOff"]
        /\ local[t] \in Proxies /\ local' = [local EXCEPT ![t] = NoProxy]
        /\ \A u \in Threads \ {t} : local[u] # local[t]
        /\ \A p \in Proxies \ {local[t]} : proxyOf[p] # proxyOf[local[t]]
        /\ handler[local[t]] = "idle" /\ handler' = handler
        /\ proxyOf' = [proxyOf EXCEPT ![local[t]] = NoAdapter]
        /\ inbox' = [inbox EXCEPT ![local[t]] = <<>>]
    BY <1>9, ReleaseFrees DEF IInv, ValuesInv
  <2> QED
    BY <1>9, <2>1 DEF ValuesInv, StoringInv, Released, Release
<1>10. ASSUME NEW t \in Threads, PowerOff(t) PROVE StoringInv'
  BY <1>10 DEF ValuesInv, StoringInv, Released, PowerOff, Goto
<1>11. ASSUME NEW p \in Proxies, CheckCurrent(p) PROVE StoringInv'
  BY <1>11 DEF IInv, TypeOK, ValuesInv, StoringInv, Released, Threads, CheckCurrent
<1>12. ASSUME NEW p \in Proxies, SetPoweredValue(p) PROVE StoringInv'
  BY <1>12 DEF ValuesInv, StoringInv, Released, SetPoweredValue
<1>13. ASSUME NEW a \in Adapters, Plug(a) PROVE StoringInv'
  BY <1>13 DEF ValuesInv, StoringInv, Released, Plug
<1>14. ASSUME NEW a \in Adapters, Unplug(a) PROVE StoringInv'
  BY <1>14 DEF ValuesInv, StoringInv, Released, Unplug
<1>15. ASSUME NEW a \in Adapters, PowerFlips(a) PROVE StoringInv'
  <2>1. PowerMoves
    BY <1>15, FlipMoves DEF IInv
  <2> QED
    BY <1>15, <2>1 DEF ValuesInv, StoringInv, Released, PowerFlips, PowerMoves
<1>16. CASE BeginRequest
  BY <1>16 DEF ValuesInv, StoringInv, Released, BeginRequest
<1>17. CASE EndRequest
  <2>1. PowerMoves
    BY <1>17, RequestMoves DEF IInv
  <2> QED
    BY <1>17, <2>1 DEF ValuesInv, OwnInv, StoringInv, Released, EndRequest, PowerMoves
<1>18. CASE UNCHANGED vars
  BY <1>18 DEF ValuesInv, StoringInv, Released, vars
<1> QED
  BY <1>1, <1>2, <1>3, <1>4, <1>5, <1>6, <1>7, <1>8, <1>9, <1>10, <1>11, <1>12, <1>13, <1>14,
     <1>15, <1>16, <1>17, <1>18
  DEF Next, Thread, SelectAdapter

\* The latest signal stays true of the power.
LEMMA LatestStep == IInv /\ IInv' /\ ValuesInv /\ LiveInv' /\ [Next]_vars => LatestInv'
<1> SUFFICES ASSUME IInv, IInv', ValuesInv, LiveInv', [Next]_vars, ~survived',
                    NEW p \in Proxies, inbox'[p] # <<>>
             PROVE  Latest(p, power[proxyOf[p]])' \/ Gone(proxyOf[p])'
  BY DEF LatestInv
<1>0. PICK b \in Adapters : proxyOf'[p] = b
  BY DEF IInv, TypeOK, LiveInv
<1> DEFINE Said == Latest(p, power[b])
           Kept == proxyOf'[p] = proxyOf[p] /\ inbox'[p] = inbox[p]
<1>1. Said' \/ Gone(b)' => Latest(p, power[proxyOf[p]])' \/ Gone(proxyOf[p])'
  BY <1>0 DEF Latest, Gone, Leaving
<1>2. ~survived
  BY HistoryStays
<1>3. ASSUME proxyOf'[p] = proxyOf[p], inbox[p] # <<>>, Said => Said' PROVE Said' \/ Gone(b)'
  <2>1. Said \/ Gone(b)
    BY <1>0, <1>2, <1>3 DEF ValuesInv, LatestInv
  <2>2. Gone(b) => Gone(b)'
    BY <1>0, GoneStays DEF ValuesInv
  <2> QED BY <1>3, <2>1, <2>2
<1>4. ASSUME UNCHANGED <<proxyOf, inbox, power>> PROVE Said' \/ Gone(b)'
  <2>1. Said => Said'
    BY <1>4 DEF Latest
  <2> QED BY <1>3, <1>4, <2>1
<1>5. ASSUME PowerMoves PROVE Said' \/ Gone(b)'
  <2>1. CASE Kept /\ power'[b] = power[b]
    <3>1. Said => Said'
      BY <2>1 DEF Latest
    <3> QED BY <1>3, <2>1, <3>1
  <2> QED BY <1>0, <1>5, <2>1 DEF PowerMoves
<1>6. ASSUME inbox'[p] = Tail(inbox[p]), inbox[p] # <<>>, UNCHANGED <<proxyOf, power>>
      PROVE  Said' \/ Gone(b)'
  <2>1. inbox[p] \in Seq(BOOLEAN)
    BY DEF IInv, TypeOK
  <2>2. inbox'[p][Len(inbox'[p])] = inbox[p][Len(inbox[p])]
    BY <1>6, <2>1
  <2>3. Said => Said'
    BY <1>6, <2>2 DEF Latest
  <2> QED BY <1>3, <1>6, <2>3
<1>7. ASSUME NEW t \in Threads, DropReference(t), UNCHANGED power PROVE Said' \/ Gone(b)'
  <2>1. CASE UNCHANGED proxyVars
    BY <1>4, <1>7, <2>1 DEF proxyVars
  <2>2. CASE /\ local[t] # NoProxy
             /\ proxyOf' = [proxyOf EXCEPT ![local[t]] = NoAdapter]
             /\ inbox' = [inbox EXCEPT ![local[t]] = <<>>]
    <3>1. p # local[t]
      BY <2>2 DEF IInv, TypeOK
    <3>2. Kept /\ power' = power
      BY <1>7, <2>2, <3>1
    <3>3. Said => Said'
      BY <3>2 DEF Latest
    <3> QED BY <1>3, <3>2, <3>3
  <2> QED BY <1>7, <2>1, <2>2 DEF DropReference
<1> HIDE DEF Said, Kept
<1> USE DEF bluezVars, proxyVars
<1>8. ASSUME NEW t \in Threads, CreateProxy(t) PROVE Said' \/ Gone(b)'
  <2>1. UNCHANGED <<inbox, power>>
    BY <1>8 DEF CreateProxy
  <2>2. proxyOf[p] # NoAdapter
    BY <2>1 DEF ValuesInv, LiveInv
  <2>3. proxyOf'[p] = proxyOf[p]
    <3>1. CASE UNCHANGED proxyOf
      BY <3>1
    <3>2. ASSUME NEW q \in Proxies, proxyOf[q] = NoAdapter,
                 proxyOf' = [proxyOf EXCEPT ![q] = target[t]]
          PROVE  proxyOf'[p] = proxyOf[p]
      BY <2>2, <3>2
    <3> QED BY <1>8, <3>1, <3>2 DEF CreateProxy
  <2>4. Said => Said'
    BY <2>1, <2>3 DEF Said, Latest
  <2> QED BY <1>3, <2>1, <2>3, <2>4
<1>9. ASSUME NEW t \in Threads,
             Publish(t) \/ ReadPowered(t) \/ Recheck(t) \/ StorePowered(t) \/ PowerOff(t)
      PROVE  Said' \/ Gone(b)'
  BY <1>4, <1>9 DEF Publish, ReadPowered, Recheck, StorePowered, PowerOff
<1>10. ASSUME NEW t \in Threads, Drop(t) \/ Release(t) PROVE Said' \/ Gone(b)'
  BY <1>7, <1>10 DEF Drop, Release
<1>11. CASE FetchNext \/ HandleAnnounced \/ BeginRequest \/ UNCHANGED vars
  BY <1>1, <1>4, <1>11 DEF FetchNext, HandleAnnounced, BeginRequest, vars
<1>12. ASSUME NEW q \in Proxies, CheckCurrent(q) \/ SetPoweredValue(q) PROVE Said' \/ Gone(b)'
  <2>1. UNCHANGED <<proxyOf, power>> /\ (inbox' = inbox \/ inbox' = [inbox EXCEPT ![q] = Tail(@)])
    BY <1>12 DEF CheckCurrent, SetPoweredValue
  <2>2. inbox[q] # <<>>
    BY <1>12 DEF CheckCurrent, SetPoweredValue, IInv, HeldInv
  <2>3. CASE q = p /\ inbox' = [inbox EXCEPT ![q] = Tail(@)]
    <3>1. inbox'[p] = Tail(inbox[p])
      BY <2>3 DEF IInv, TypeOK
    <3> QED BY <1>6, <2>1, <2>2, <2>3, <3>1
  <2>4. CASE q # p /\ inbox' = [inbox EXCEPT ![q] = Tail(@)]
    <3>1. inbox'[p] = inbox[p]
      BY <2>4
    <3>2. Said => Said'
      BY <2>1, <3>1 DEF Said, Latest
    <3> QED BY <1>3, <2>1, <3>1, <3>2
  <2> QED BY <1>4, <2>1, <2>3, <2>4
<1>13. ASSUME NEW a \in Adapters, Plug(a) PROVE Said' \/ Gone(b)'
  BY <1>4, <1>13 DEF Plug
<1>14. ASSUME NEW a \in Adapters, Unplug(a) PROVE Said' \/ Gone(b)'
  <2>1. UNCHANGED <<proxyOf, inbox>> /\ power' = [power EXCEPT ![a] = FALSE]
    BY <1>14 DEF Unplug
  <2>2. CASE b = a
    BY <1>14, <2>2, UnplugLeaves DEF Gone, IInv
  <2>3. CASE b # a
    <3>1. power'[b] = power[b]
      BY <2>1, <2>3
    <3>2. Said => Said'
      BY <2>1, <3>1 DEF Said, Latest
    <3> QED BY <1>3, <2>1, <3>2
  <2> QED BY <2>2, <2>3
<1>15. ASSUME NEW a \in Adapters, PowerFlips(a) PROVE Said' \/ Gone(b)'
  BY <1>5, <1>15, FlipMoves DEF IInv
<1>16. CASE EndRequest
  BY <1>1, <1>5, <1>16, RequestMoves DEF IInv
<1> QED
  BY <1>1, <1>8, <1>9, <1>10, <1>11, <1>12, <1>13, <1>14, <1>15, <1>16
  DEF Next, Thread, SelectAdapter

\* Without an adapter the state is off.
LEMMA OffStep == IInv /\ ValuesInv /\ [Next]_vars => OffInv'
<1> SUFFICES ASSUME IInv, ValuesInv, [Next]_vars PROVE OffInv'
  OBVIOUS
<1> USE BtAdapterAssumption
    DEF NoAdapter, NoProxy, bluezVars, proxyVars, threadVars, appVars, history
<1>1. CASE FetchNext
  BY <1>1 DEF ValuesInv, OffInv, FetchNext, AddAdapter, Goto
<1>2. CASE HandleAnnounced
  BY <1>2
  DEF IInv, TypeOK, ValuesInv, LiveInv, OffInv, Threads, HandleAnnounced, AddAdapter,
      RemoveAdapter, Goto
<1>3. ASSUME NEW t \in Threads, CreateProxy(t) PROVE OffInv'
  BY <1>3 DEF IInv, TypeOK, ValuesInv, LiveInv, OffInv, CreateProxy, Goto
<1>4. ASSUME NEW t \in Threads, Publish(t) PROVE OffInv'
  BY <1>4 DEF IInv, TypeOK, ValuesInv, OffInv, Publish, Goto
<1>5. ASSUME NEW t \in Threads, ReadPowered(t) PROVE OffInv'
  BY <1>5 DEF ValuesInv, OffInv, ReadPowered, Goto
<1>6. ASSUME NEW t \in Threads, Recheck(t) PROVE OffInv'
  BY <1>6 DEF ValuesInv, OffInv, Recheck, Goto
<1>7. ASSUME NEW t \in Threads, StorePowered(t) PROVE OffInv'
  BY <1>7 DEF IInv, ValuesInv, HeldInv, ReadingInv, OffInv, Reading, StorePowered, Goto
<1>8. ASSUME NEW t \in Threads, Drop(t) PROVE OffInv'
  BY <1>8 DEF ValuesInv, OffInv, Drop, Goto
<1>9. ASSUME NEW t \in Threads, Release(t) PROVE OffInv'
  BY <1>9 DEF OffInv, Release, Goto
<1>10. ASSUME NEW t \in Threads, PowerOff(t) PROVE OffInv'
  BY <1>10 DEF OffInv, PowerOff
<1>11. ASSUME NEW p \in Proxies, CheckCurrent(p) PROVE OffInv'
  BY <1>11 DEF ValuesInv, OffInv, CheckCurrent
<1>12. ASSUME NEW p \in Proxies, SetPoweredValue(p) PROVE OffInv'
  BY <1>12 DEF IInv, ValuesInv, HeldInv, LiveInv, StoringInv, OffInv, Released, SetPoweredValue
<1>13. ASSUME NEW a \in Adapters, Plug(a) PROVE OffInv'
  BY <1>13 DEF ValuesInv, OffInv, Plug
<1>14. ASSUME NEW a \in Adapters, Unplug(a) PROVE OffInv'
  BY <1>14 DEF ValuesInv, OffInv, Unplug
<1>15. ASSUME NEW a \in Adapters, PowerFlips(a) PROVE OffInv'
  BY <1>15 DEF ValuesInv, OffInv, PowerFlips, SetPower
<1>16. CASE BeginRequest
  BY <1>16 DEF ValuesInv, OffInv, BeginRequest
<1>17. CASE EndRequest
  BY <1>17 DEF ValuesInv, OffInv, EndRequest
<1>18. CASE UNCHANGED vars
  BY <1>18 DEF ValuesInv, OffInv, vars
<1> QED
  BY <1>1, <1>2, <1>3, <1>4, <1>5, <1>6, <1>7, <1>8, <1>9, <1>10, <1>11, <1>12, <1>13, <1>14,
     <1>15, <1>16, <1>17, <1>18
  DEF Next, Thread, SelectAdapter

\* While nothing is signalled the state stays that of the selected adapter, or somebody reads it.
LEMMA CurrentStep ==
    IInv /\ IInv' /\ ValuesInv /\ ReadingInv' /\ [Next]_vars => CurrentInv'
<1> SUFFICES ASSUME IInv, IInv', ValuesInv, ReadingInv', [Next]_vars, ~survived', ~overtaken',
                    current' # NoAdapter, current' \notin misread', ~Gone(current)',
                    inbox'[proxy'] = <<>>
             PROVE  Known'
  BY DEF CurrentInv
<1>1. ~survived /\ ~overtaken
  BY HistoryStays
<1>2. PICK a \in Adapters : current' = a
  BY DEF IInv, TypeOK
<1>3. /\ proxy' \in Proxies /\ proxyOf'[proxy'] = a
      /\ a # NoAdapter
  BY <1>2, BtAdapterAssumption DEF IInv, TypeOK, NoAdapter, NoProxy
<1>4. ~Gone(a)'
  BY <1>2 DEF Gone, Leaving
<1>5. ~Gone(a)
  BY <1>1, <1>3, <1>4, GoneStays DEF ValuesInv
<1>6. ASSUME current = a, a \notin misread, inbox[proxy] = <<>> PROVE Known
  BY <1>1, <1>3, <1>5, <1>6 DEF ValuesInv, CurrentInv
<1>7. ASSUME current = a, inbox[proxy] # <<>>, proxy' = proxy, proxyOf'[proxy] = proxyOf[proxy]
      PROVE  inbox[proxy][Len(inbox[proxy])] = power[a]
  BY <1>1, <1>3, <1>5, <1>7 DEF ValuesInv, LatestInv, Latest
<1>8. ASSUME current = a, a \notin misread, inbox[proxy] = <<>>, power'[a] = power[a],
             isPowered' = isPowered,
             \A t \in Threads : Reading(t) \/ Reading(t)' =>
                 pc'[t] = pc[t] /\ target'[t] = target[t] /\ readValue'[t] = readValue[t]
      PROVE  Known'
  BY <1>2, <1>6, <1>8 DEF Known, Reading
<1>9. ASSUME UNCHANGED <<current, proxy, misread, inbox, power, isPowered>>,
             \A t \in Threads : Reading(t) \/ Reading(t)' =>
                 pc'[t] = pc[t] /\ target'[t] = target[t] /\ readValue'[t] = readValue[t]
      PROVE  Known'
  BY <1>2, <1>8, <1>9
<1>10. pc \in [Threads -> Pcs] /\ target \in [Threads -> Adapters \cup {NoAdapter}]
  BY DEF IInv, TypeOK
<1> USE BtAdapterAssumption
    DEF NoAdapter, bluezVars, proxyVars, threadVars, appVars, history
<1>11. CASE FetchNext
  BY <1>9, <1>11 DEF FetchNext, AddAdapter, Goto, Reading
<1>12. CASE HandleAnnounced
  <2>1. UNCHANGED <<misread, inbox, power, isPowered, readValue>>
    BY <1>12 DEF HandleAnnounced
  <2>2. CASE AddAdapter("bus", Head(announced).adapter)
    BY <1>9, <2>1, <2>2 DEF AddAdapter, Goto, Reading
  <2>3. CASE RemoveAdapter("bus", Head(announced).adapter)
    <3>1. UNCHANGED <<current, proxy, target, pc>>
      BY <2>3 DEF RemoveAdapter
    <3> QED BY <1>9, <2>1, <3>1
  <2> QED BY <1>12, <2>2, <2>3 DEF HandleAnnounced
<1>13. ASSUME NEW t \in Threads, CreateProxy(t) PROVE Known'
  <2>1. /\ UNCHANGED <<current, proxy, misread, inbox, power, isPowered, target, readValue>>
        /\ pc[t] = "create" /\ pc' \in {[pc EXCEPT ![t] = "idle"], [pc EXCEPT ![t] = "publish"]}
    BY <1>13 DEF CreateProxy, Goto
  <2> QED BY <1>9, <1>10, <2>1 DEF Reading
<1>14. ASSUME NEW t \in Threads, Publish(t) PROVE Known'
  <2>1. CASE current' = target[t] /\ Goto(t, "publish", "read")
    BY <1>10, <1>14, <2>1 DEF Publish, Goto, Known
  <2>2. CASE UNCHANGED <<current, proxy>> /\ Goto(t, "publish", "drop")
    BY <1>9, <1>14, <2>2 DEF Publish, Goto, Reading
  <2> QED BY <1>14, <2>1, <2>2 DEF Publish
<1>15. ASSUME NEW t \in Threads, ReadPowered(t) PROVE Known'
  <2>1. /\ UNCHANGED <<current, proxy, inbox, power, isPowered, target>>
        /\ pc[t] = "read" /\ pc' = [pc EXCEPT ![t] = "recheck"]
    BY <1>15 DEF ReadPowered, Goto
  <2>2. CASE target[t] = a
    <3>1. readValue' = [readValue EXCEPT ![t] = power[target[t]]]
      BY <1>2, <1>15, <2>2 DEF ReadPowered
    <3>2. readValue'[t] = power[a]
      BY <2>2, <3>1 DEF IInv, TypeOK
    <3> QED BY <1>2, <1>10, <2>1, <2>2, <3>2 DEF Known
  <2>3. CASE target[t] # a
    <3>1. a \notin misread /\ \A u \in Threads \ {t} : readValue'[u] = readValue[u]
      BY <1>2, <1>15, <2>3 DEF ReadPowered, IInv, TypeOK
    <3>2. Known
      BY <1>2, <1>6, <2>1, <3>1
    <3> QED BY <1>2, <1>10, <2>1, <2>3, <3>1, <3>2 DEF Known, Reading
  <2> QED BY <2>2, <2>3
<1>16. ASSUME NEW t \in Threads, Recheck(t) PROVE Known'
  <2>1. UNCHANGED <<current, proxy, misread, inbox, power, isPowered, target, readValue>>
    BY <1>16 DEF Recheck
  <2>2. Known /\ current = a
    BY <1>2, <1>6, <2>1
  <2> QED BY <1>10, <1>16, <2>1, <2>2 DEF Recheck, Goto, Known, Reading
<1>17. ASSUME NEW t \in Threads, StorePowered(t) PROVE Known'
  <2>1. /\ UNCHANGED <<current, proxy, misread, inbox, power, target, readValue>>
        /\ pc[t] = "store" /\ pc' = [pc EXCEPT ![t] = "drop"] /\ isPowered' = readValue[t]
    BY <1>17 DEF StorePowered, Goto
  <2>2. Known /\ current = a
    BY <1>2, <1>6, <2>1
  <2>3. \A u \in Threads : Reading(u) => u = t
    BY <1>1, <2>1 DEF ValuesInv, ReadingInv, Reading
  <2>4. readValue[t] = power[a]
    BY <2>1, <2>2, <2>3 DEF Known, Reading
  <2> QED BY <1>2, <1>10, <2>1, <2>3, <2>4 DEF Known, Reading
<1>18. ASSUME NEW t \in Threads, DropReference(t),
              UNCHANGED <<current, proxy, misread, power, isPowered, target>>,
              ~Reading(t), NEW to \in {"idle", "powerOff"}, pc' = [pc EXCEPT ![t] = to],
              \A u \in Threads \ {t} : readValue'[u] = readValue[u]
       PROVE  Known'
  <2>1. inbox'[proxy] = inbox[proxy]
    BY <1>18 DEF DropReference, IInv, TypeOK
  <2>2. \A u \in Threads : Reading(u) \/ Reading(u)' => u # t
    BY <1>18 DEF Reading
  <2> QED BY <1>2, <1>8, <1>10, <1>18, <2>1, <2>2
<1>19. ASSUME NEW t \in Threads, Drop(t) PROVE Known'
  BY <1>18, <1>19 DEF Drop, Goto, Reading, IInv, TypeOK
<1>20. ASSUME NEW t \in Threads, Release(t) PROVE Known'
  BY <1>18, <1>20 DEF Release, Goto, Reading
<1>21. ASSUME NEW t \in Threads, PowerOff(t) PROVE Known'
  BY <1>21 DEF PowerOff
<1>22. ASSUME NEW q \in Proxies, CheckCurrent(q) PROVE Known'
  <2>1. /\ UNCHANGED <<current, proxy, misread, power, isPowered, pc, target, readValue>>
        /\ proxyOf[proxy] = current
    BY <1>2, <1>3, <1>22 DEF CheckCurrent
  <2>2. inbox'[proxy] = inbox[proxy]
    BY <1>22, <2>1 DEF CheckCurrent, IInv, TypeOK
  <2> QED BY <1>2, <1>8, <2>1, <2>2
<1>23. ASSUME NEW q \in Proxies, SetPoweredValue(q) PROVE Known'
  <2>1. /\ UNCHANGED <<current, proxy, misread, power, pc, target, readValue, proxyOf>>
        /\ q = proxy /\ isPowered' = Head(inbox[q]) /\ inbox' = [inbox EXCEPT ![q] = Tail(@)]
        /\ \A t \in Threads : pc[t] \in {"recheck", "store"} => target[t] # proxyOf[q]
    BY <1>23 DEF SetPoweredValue
  <2>2. inbox[q] \in Seq(BOOLEAN) /\ inbox[q] # <<>> /\ Tail(inbox[q]) = <<>>
    BY <1>23, <2>1 DEF SetPoweredValue, IInv, TypeOK
  <2>3. Len(inbox[q]) = 1 /\ Head(inbox[q]) = inbox[q][1]
    <3>1. /\ Head(inbox[q]) = inbox[q][1] /\ Len(inbox[q]) \in Nat
          /\ Len(Tail(inbox[q])) = Len(inbox[q]) - 1
      BY <2>2, HeadTailProperties
    <3>2. Len(Tail(inbox[q])) = 0
      BY <2>2, EmptySeq, Zenon
    <3> QED BY <3>1, <3>2
  <2>4. isPowered' = power[a]
    BY <1>2, <1>7, <2>1, <2>2, <2>3
  <2>5. \A t \in Threads : Reading(t) => pc[t] = "read" /\ target[t] = a
    BY <1>1, <1>2, <1>3, <2>1 DEF ReadingInv, Reading
  <2> QED BY <1>2, <2>1, <2>4, <2>5 DEF Known, Reading
<1>24. ASSUME NEW b \in Adapters, Plug(b) PROVE Known'
  BY <1>9, <1>24 DEF Plug
<1>25. ASSUME NEW b \in Adapters, Unplug(b) PROVE Known'
  <2>1. b # a
    BY <1>4, <1>25, UnplugLeaves DEF Gone, IInv
  <2>2. power'[a] = power[a]
    BY <1>25, <2>1 DEF Unplug, IInv, TypeOK
  <2> QED BY <1>2, <1>8, <1>25, <2>2 DEF Unplug
<1>26. ASSUME PowerMoves, UNCHANGED <<current, proxy, misread, isPowered, threadVars>>
       PROVE  Known'
  <2>1. inbox[proxy] = <<>> /\ power'[a] = power[a]
    BY <1>3, <1>26 DEF PowerMoves, Latest
  <2> QED BY <1>2, <1>8, <1>26, <2>1
<1>27. ASSUME NEW b \in Adapters, PowerFlips(b) PROVE Known'
  BY <1>26, <1>27, FlipMoves DEF PowerFlips, IInv
<1>28. CASE EndRequest
  BY <1>26, <1>28, RequestMoves DEF EndRequest, IInv
<1>29. CASE BeginRequest \/ UNCHANGED vars
  BY <1>9, <1>29 DEF BeginRequest, vars
<1> QED
  BY <1>11, <1>12, <1>13, <1>14, <1>15, <1>16, <1>17, <1>19, <1>20, <1>21, <1>22, <1>23, <1>24,
     <1>25, <1>27, <1>28, <1>29
  DEF Next, Thread, SelectAdapter

\* The parts are kept together by every step.
LEMMA ValuesStep == IInv /\ IInv' /\ ValuesInv /\ [Next]_vars => ValuesInv'
BY LiveStep, OwnStep, ReadingStep, StoringStep, LatestStep, OffStep, CurrentStep DEF ValuesInv

\* What the program says of the adapter's power is true once everything is handled
\* (api-reference.md:39, main.cpp:52), for any number of adapters, proxies, signals and requests,
\* unless a removed adapter's proxy was kept alive or a value was stored too late
\* (DBusBtAdapter.cpp:65, 102, 114).
THEOREM PoweredIsTrue == Spec => []PoweredTrue
<1>1. Init => ValuesInv
  <2> SUFFICES ASSUME Init PROVE ValuesInv
    OBVIOUS
  <2>1. \A t \in Threads : local[t] = NoProxy /\ pc[t] = "idle"
    BY DEF Init
  <2>2. \A p \in Proxies : inbox[p] = <<>> /\ handler[p] = "idle"
    BY DEF Init
  <2> QED BY <2>1, <2>2 DEF Init, ValuesInv, LiveInv, OwnInv, ReadingInv, Reading, StoringInv,
                            LatestInv, OffInv, CurrentInv, NoProxy
<1>2. ValuesInv /\ IInv => PoweredTrue
  <2> SUFFICES ASSUME ValuesInv, IInv, Rest PROVE PoweredTrue
    BY DEF PoweredTrue
  <2>1. \A t \in Threads : pc[t] = "idle"
    BY DEF Rest
  <2>2. ~Gone(current)
    BY <2>1 DEF Rest, Gone, Leaving, Released
  <2>3. current # NoAdapter => inbox[proxy] = <<>>
    BY BtAdapterAssumption DEF Rest, IInv, TypeOK, NoAdapter, NoProxy
  <2> QED BY <2>1, <2>2, <2>3 DEF ValuesInv, OffInv, CurrentInv, Known, PoweredTrue
<1> QED
  BY Invariance, InitInv, <1>1, <1>2, ValuesStep, PTL DEF Spec
=============================================================================
