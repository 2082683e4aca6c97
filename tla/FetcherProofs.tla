--------------------------- MODULE FetcherProofs ---------------------------
(***************************************************************************)
(* Proofs that the active device is a connected one of the program, that   *)
(* the devices of the program are the paired ones BlueZ has and are shown  *)
(* as they are, and that an object taken down is quiet, for any number of  *)
(* devices, objects and events.                                            *)
(***************************************************************************)
EXTENDS Fetcher, FiniteSetTheorems, SequenceTheorems, WellFoundedInduction, TLAPS

(***************************************************************************)
(* The invariant                                                           *)
(***************************************************************************)
Snapshots == [added : BOOLEAN, path : Devices, connected : BOOLEAN, paired : BOOLEAN]
Signals == [property : {"Connected", "Paired"}, value : BOOLEAN]

BluezTypes ==
    /\ present \subseteq Devices
    /\ bConnected \in [Devices -> BOOLEAN]
    /\ bPaired \in [Devices -> BOOLEAN]
    /\ announced \in Seq(Snapshots)
    /\ unheard \subseteq Devices

InfoTypes ==
    /\ pathOf \in [Infos -> Devices \cup {NoDevice}]
    /\ listening \subseteq Infos
    /\ inbox \in [Infos -> Seq(Signals)]
    /\ infoConnected \in [Infos -> BOOLEAN]
    /\ infoPaired \in [Infos -> BOOLEAN]

ProgramTypes ==
    /\ known \in [Devices -> Infos \cup {NoInfo}]
    /\ paired \subseteq Infos
    /\ devicesMap \in [Devices -> Infos \cup {NoInfo}]
    /\ connected \in [Devices -> BOOLEAN]
    /\ active \in Devices \cup {NoDevice}
    /\ subscribed \in BOOLEAN

ThreadTypes ==
    /\ pc \in [Threads -> Pcs]
    /\ arg \in [Threads -> Infos \cup {NoInfo}]
    /\ previous \in [Threads -> Devices \cup {NoDevice}]
    /\ candidate \in [Threads -> Devices \cup {NoDevice}]
    /\ resume \in [Threads -> Pcs]
    /\ overlapped \in BOOLEAN

\* Before main fills the map.
Early == pc[Main] \in {"idle", "clearMaps", "create", "deviceAdded", "fill"}

\* What main goes through: snapshots of devices, then objects of paired ones.
TodoTypes ==
    /\ Early => todo \subseteq Snapshots
    /\ pc[Main] = "filling" => todo \subseteq Infos

\* Every object in use was made for a device, and is listed under its path.
PathInv ==
    /\ \A i \in listening \cup paired : pathOf[i] # NoDevice
    /\ \A d \in Devices : known[d] # NoInfo => pathOf[known[d]] = d
    /\ \A d \in Devices : devicesMap[d] # NoInfo => pathOf[devicesMap[d]] = d
    /\ pc[Main] = "filling" => \A i \in todo : pathOf[i] # NoDevice

ArgInv == \A t \in Threads :
    /\ \/ pc[t] \in {"deviceAdded", "stopListening", "eraseDevice", "forget"}
       \/ t = Bus /\ Selecting(t)
       => arg[t] # NoInfo
    /\ arg[t] # NoInfo => pathOf[arg[t]] # NoDevice

Types ==
    /\ BluezTypes /\ InfoTypes /\ ProgramTypes /\ ThreadTypes /\ TodoTypes
    /\ PathInv /\ ArgInv

\* Where each thread goes on after a selection, or after it has announced a device.
Selected(t) == IF t = Main THEN "subscribe" ELSE IF t = Bus THEN "forget" ELSE "idle"
Announced(t) == IF t = Main THEN "create" ELSE "idle"

ResumeInv == \A t \in Threads :
    /\ Selecting(t) => resume[t] = Selected(t)
    /\ pc[t] = "deviceAdded" => resume[t] = Announced(t)

\* What threads of each kind do.
PlaceInv == \A t \in Threads :
    /\ pc[t] \in {"clearMaps", "create", "fill", "filling", "subscribe", "ready"} => t = Main
    /\ pc[t] \in {"stopListening", "eraseDevice", "forget"} => t = Bus

\* Then there is no device, no listener and no selection yet.
EarlyInv ==
    Early => /\ ~subscribed
             /\ \A d \in Devices : devicesMap[d] = NoInfo
             /\ \A t \in Threads : ~Selecting(t)

OneSelects ==
    ~overlapped => \A t, u \in Threads : Selecting(t) /\ Selecting(u) => t = u

Good(d) == devicesMap[d] # NoInfo /\ connected[d]

\* An active device is good, or somebody is about to look at it again.
ActiveInv ==
    ~overlapped /\ active # NoDevice =>
        Good(active) \/ \E t \in Threads : pc[t] \in {"previous", "clear"}

\* What a thread is about to make the active device still is a good one.
CandidateInv ==
    ~overlapped => \A t \in Threads :
        pc[t] = "assign" /\ candidate[t] # NoDevice => Good(candidate[t])

IInv ==
    /\ Types /\ ResumeInv /\ PlaceInv /\ EarlyInv
    /\ OneSelects /\ ActiveInv /\ CandidateInv

-----------------------------------------------------------------------------
\* A finite set of numbers has a greatest one: the last device of the map (std::map) exists.
LEMMA Greatest ==
    ASSUME NEW S, S \subseteq Nat, IsFiniteSet(S), S # {}
    PROVE  \E m \in S : \A e \in S : e <= m
<1> DEFINE R == OpToRel(<, Nat)
           Above(d) == {e \in S : e > d}
           Sizes == {Cardinality(Above(d)) : d \in S}
<1>1. \A d \in S : IsFiniteSet(Above(d)) /\ Cardinality(Above(d)) \in Nat
  BY FS_Subset, FS_CardinalityType
<1>2. Sizes \subseteq Nat /\ Sizes # {}
  BY <1>1
<1>3. PICK n \in Sizes : \A k \in Sizes : <<k, n>> \notin R
  BY <1>2, NatLessThanWellFounded, WFMin
<1>4. PICK m \in S : n = Cardinality(Above(m))
  OBVIOUS
<1>5. SUFFICES ASSUME NEW e \in S, e > m
               PROVE  FALSE
  OBVIOUS
<1> HIDE DEF R, Sizes
<1>6. Above(e) \subseteq Above(m) /\ e \in Above(m) /\ e \notin Above(e)
  <2>1. \A x \in S : x \in Nat
    OBVIOUS
  <2>2. \A x \in S : x > e => x > m
    BY <1>5, <2>1
  <2>3. ~(e > e)
    BY <2>1
  <2> QED BY <1>5, <2>2, <2>3
<1>7. Cardinality(Above(e)) < Cardinality(Above(m))
  <2>1. /\ Cardinality(Above(e)) <= Cardinality(Above(m))
        /\ Cardinality(Above(m)) = Cardinality(Above(e)) => Above(m) = Above(e)
    BY <1>1, <1>6, FS_Subset
  <2> QED BY <1>1, <1>6, <2>1
<1>8. <<Cardinality(Above(e)), n>> \in R
  BY <1>1, <1>4, <1>7 DEF OpToRel, R
<1>9. Cardinality(Above(e)) \in Sizes
  BY DEF Sizes
<1> QED BY <1>3, <1>8, <1>9

\* Threads are told apart: the numbers of objects are not negative.
LEMMA ThreadsDiffer ==
    /\ Main # Bus /\ Main \in Threads /\ Bus \in Threads
    /\ \A i \in Infos : i \in Threads /\ i # Main /\ i # Bus
BY FetcherAssumption DEF Main, Bus, Threads

\* A set of numbers has a least one: a new object, and the first snapshot, exist.
LEMMA Least ==
    ASSUME NEW S, S \subseteq Nat, S # {}
    PROVE  \E m \in S : \A e \in S : m <= e
<1> DEFINE R == OpToRel(<, Nat)
<1>1. PICK m \in S : \A e \in S : <<e, m>> \notin R
  BY NatLessThanWellFounded, WFMin
<1>2. \A e \in S : ~(e < m)
  BY <1>1 DEF OpToRel
<1> HIDE DEF R
<1> QED BY <1>2

\* An object is made in a place nobody uses.
LEMMA NewInfoFree ==
    ASSUME \E j \in Infos : pathOf[j] = NoDevice
    PROVE  NewInfo \in Infos /\ pathOf[NewInfo] = NoDevice
<1> DEFINE Free == {j \in Infos : pathOf[j] = NoDevice}
<1>1. PICK m \in Free : \A e \in Free : m <= e
  BY Least, FetcherAssumption
<1> QED BY <1>1 DEF NewInfo

\* What the constructor makes next is a snapshot it has fetched.
LEMMA FetchedIsSnapshot ==
    ASSUME todo \subseteq Snapshots, todo # {}
    PROVE  (CHOOSE x \in todo : \A y \in todo : x.path <= y.path) \in todo \cap Snapshots
<1> DEFINE Paths == {x.path : x \in todo}
<1>1. Paths \subseteq Nat /\ Paths # {}
  BY FetcherAssumption DEF Snapshots
<1>2. PICK m \in Paths : \A e \in Paths : m <= e
  BY <1>1, Least
<1>3. PICK x \in todo : x.path = m
  BY <1>2
<1>4. \A y \in todo : x.path <= y.path
  BY <1>2, <1>3
<1> QED BY <1>4

\* What BlueZ holds and announces is of its types.
LEMMA BluezTypesStep == IInv /\ [Next]_vars => BluezTypes'
<1> SUFFICES ASSUME IInv, [Next]_vars PROVE BluezTypes'
  OBVIOUS
<1>1. CASE FetchDevices
  BY <1>1 DEF FetchDevices, IInv, Types, BluezTypes, bluezVars
<1>2. CASE ClearMaps
  BY <1>2 DEF ClearMaps, IInv, Types, BluezTypes, bluezVars
<1>3. CASE CreateFetched
  BY <1>3 DEF CreateFetched, IInv, Types, BluezTypes, bluezVars
<1>4. CASE AllFetched
  BY <1>4 DEF AllFetched, IInv, Types, BluezTypes, bluezVars
<1>5. CASE BeginFill
  BY <1>5 DEF BeginFill, IInv, Types, BluezTypes, bluezVars
<1>6. CASE Fill
  BY <1>6 DEF Fill, IInv, Types, BluezTypes, bluezVars
<1>7. CASE Filled
  BY <1>7 DEF Filled, IInv, Types, BluezTypes, bluezVars
<1>8. CASE Subscribe
  BY <1>8 DEF Subscribe, IInv, Types, BluezTypes, bluezVars
<1>9. CASE HandleInterfacesAdded

  <2>1. Tail(announced) \in Seq(Snapshots)
    BY <1>9, HeadTailProperties DEF HandleInterfacesAdded, IInv, Types, BluezTypes
  <2> QED BY <1>9, <2>1 DEF HandleInterfacesAdded, IInv, Types, BluezTypes
<1>10. CASE HandleInterfacesRemoved

  <2>1. Tail(announced) \in Seq(Snapshots)
    BY <1>10, HeadTailProperties DEF HandleInterfacesRemoved, IInv, Types, BluezTypes
  <2> QED BY <1>10, <2>1 DEF HandleInterfacesRemoved, IInv, Types, BluezTypes
<1>11. CASE StopListening
  BY <1>11 DEF StopListening, IInv, Types, BluezTypes, bluezVars
<1>12. CASE OnDeviceRemoved
  BY <1>12 DEF OnDeviceRemoved, IInv, Types, BluezTypes, bluezVars
<1>13. CASE Forget
  BY <1>13 DEF Forget, IInv, Types, BluezTypes, bluezVars
<1>14. ASSUME NEW t \in Threads, OnDeviceAdded(t) PROVE BluezTypes'
  BY <1>14 DEF OnDeviceAdded, IInv, Types, BluezTypes, bluezVars
<1>15. ASSUME NEW t \in Threads, RememberPrevious(t) PROVE BluezTypes'
  BY <1>15 DEF RememberPrevious, IInv, Types, BluezTypes, bluezVars
<1>16. ASSUME NEW t \in Threads, ClearActive(t) PROVE BluezTypes'
  BY <1>16 DEF ClearActive, IInv, Types, BluezTypes, bluezVars
<1>17. ASSUME NEW t \in Threads, ReadConnected(t) PROVE BluezTypes'
  BY <1>17 DEF ReadConnected, IInv, Types, BluezTypes, bluezVars
<1>18. ASSUME NEW t \in Threads, AssignActive(t) PROVE BluezTypes'
  BY <1>18 DEF AssignActive, IInv, Types, BluezTypes, bluezVars
<1>19. ASSUME NEW i \in Infos, ConnectedChanged(i) PROVE BluezTypes'
  BY <1>19 DEF ConnectedChanged, Take, IInv, Types, BluezTypes, bluezVars
<1>20. ASSUME NEW i \in Infos, PairedChanged(i) PROVE BluezTypes'
  BY <1>20 DEF PairedChanged, Take, IInv, Types, BluezTypes, bluezVars
<1>21. ASSUME NEW d \in Devices, Appear(d) PROVE BluezTypes'
  <2>1. [added |-> TRUE, path |-> d, connected |-> FALSE, paired |-> FALSE] \in Snapshots
    BY <1>21 DEF Snapshots
  <2> QED BY <1>21, <2>1 DEF Appear, Event, IInv, Types, BluezTypes
<1>22. ASSUME NEW d \in Devices, Vanish(d) PROVE BluezTypes'
  <2>1. [added |-> FALSE, path |-> d, connected |-> FALSE, paired |-> FALSE] \in Snapshots
    BY <1>22 DEF Snapshots
  <2> QED BY <1>22, <2>1 DEF Vanish, Event, IInv, Types, BluezTypes
<1>23. ASSUME NEW d \in Devices, ConnectedFlips(d) PROVE BluezTypes'
  BY <1>23 DEF ConnectedFlips, Event, Signal, IInv, Types, BluezTypes
<1>24. ASSUME NEW d \in Devices, Pairs(d) PROVE BluezTypes'
  BY <1>24 DEF Pairs, Event, Signal, IInv, Types, BluezTypes
<1>25. CASE UNCHANGED vars
  BY <1>25 DEF IInv, Types, BluezTypes, vars, bluezVars
<1>26. CASE RemovalBreaksOff
  <2>1. pathOf[arg[Bus]] \in Devices /\ arg[Bus] \in Infos
    BY <1>26, ThreadsDiffer
      DEF RemovalBreaksOff, Goto, IInv, Types, InfoTypes, ThreadTypes, ArgInv
  <2> QED BY <1>26, <2>1 DEF RemovalBreaksOff, IInv, Types, BluezTypes
<1> QED
  BY <1>1, <1>2, <1>3, <1>4, <1>5, <1>6, <1>7, <1>8, <1>9, <1>10, <1>11, <1>12, <1>13, <1>14,
     <1>15, <1>16, <1>17, <1>18, <1>19, <1>20, <1>21, <1>22, <1>23, <1>24, <1>25, <1>26
    DEF Next, Startup, BusStep, TrySelectNewActiveDevice

\* What objects hold, and the signals they receive, is of its types.
LEMMA InfoTypesStep == IInv /\ [Next]_vars => InfoTypes'
<1> SUFFICES ASSUME IInv, [Next]_vars PROVE InfoTypes'
  OBVIOUS
<1> USE DEF Signals
<1> DEFINE Received(d, p, v) ==
             [i \in Infos |-> IF i \in listening /\ pathOf[i] = d
                              THEN Append(inbox[i], [property |-> p, value |-> v])
                              ELSE inbox[i]]
<1>a. \A i \in Infos : inbox[i] \in Seq(Signals)
  BY DEF IInv, Types, InfoTypes
<1>b. ASSUME NEW d, NEW p \in {"Connected", "Paired"}, NEW v \in BOOLEAN
      PROVE  Received(d, p, v) \in [Infos -> Seq(Signals)]
  <2>1. [property |-> p, value |-> v] \in Signals
    OBVIOUS
  <2>2. \A i \in Infos : Append(inbox[i], [property |-> p, value |-> v]) \in Seq(Signals)
    BY <2>1, <1>a, AppendProperties
  <2> QED BY <2>2, <1>a
<1>c. ASSUME NEW i \in Infos, inbox[i] # <<>>
      PROVE  /\ Head(inbox[i]).value \in BOOLEAN
             /\ Tail(inbox[i]) \in Seq(Signals)
  <2>1. Head(inbox[i]) \in Signals /\ Tail(inbox[i]) \in Seq(Signals)
    BY <1>a, <1>c, HeadTailProperties
  <2> QED BY <2>1
<1>d. <<>> \in Seq(Signals)
  BY EmptySeq
<1>1. CASE FetchDevices
  BY <1>1 DEF FetchDevices, IInv, Types, InfoTypes, infoVars
<1>2. CASE ClearMaps
  BY <1>2 DEF ClearMaps, IInv, Types, InfoTypes
<1>3. CASE CreateFetched

  <2> DEFINE s == CHOOSE x \in todo : \A y \in todo : x.path <= y.path
  <2>1. s \in Snapshots
    BY <1>3, FetchedIsSnapshot DEF CreateFetched, IInv, Types, TodoTypes, Early
  <2>2. CreateInfo(Main, s, "create")
    BY <1>3 DEF CreateFetched
  <2> HIDE DEF s
  <2> QED BY <1>a, <1>d, <2>1, <2>2, NewInfoFree DEF CreateInfo, Snapshots, IInv, Types, InfoTypes
<1>4. CASE AllFetched
  BY <1>4 DEF AllFetched, IInv, Types, InfoTypes, infoVars
<1>5. CASE BeginFill
  BY <1>5 DEF BeginFill, IInv, Types, InfoTypes, infoVars
<1>6. CASE Fill
  BY <1>6 DEF Fill, IInv, Types, InfoTypes, infoVars
<1>7. CASE Filled
  BY <1>7 DEF Filled, IInv, Types, InfoTypes, infoVars
<1>8. CASE Subscribe
  BY <1>8 DEF Subscribe, IInv, Types, InfoTypes, infoVars
<1>9. CASE HandleInterfacesAdded

  <2>1. Head(announced) \in Snapshots
    BY <1>9, HeadTailProperties DEF HandleInterfacesAdded, IInv, Types, BluezTypes
  <2>2. CreateInfo(Bus, Head(announced), "idle")
    BY <1>9 DEF HandleInterfacesAdded
  <2> QED BY <1>a, <1>d, <2>1, <2>2, NewInfoFree DEF CreateInfo, Snapshots, IInv, Types, InfoTypes
<1>10. CASE HandleInterfacesRemoved
  BY <1>10 DEF HandleInterfacesRemoved, IInv, Types, InfoTypes, infoVars
<1>11. CASE StopListening
  BY <1>11, <1>d DEF StopListening, IInv, Types, InfoTypes
<1>12. CASE OnDeviceRemoved
  BY <1>12 DEF OnDeviceRemoved, IInv, Types, InfoTypes, infoVars
<1>13. CASE Forget
  BY <1>13 DEF Forget, IInv, Types, InfoTypes, infoVars
<1>14. ASSUME NEW t \in Threads, OnDeviceAdded(t) PROVE InfoTypes'
  BY <1>14 DEF OnDeviceAdded, IInv, Types, InfoTypes, infoVars
<1>15. ASSUME NEW t \in Threads, RememberPrevious(t) PROVE InfoTypes'
  BY <1>15 DEF RememberPrevious, IInv, Types, InfoTypes, infoVars
<1>16. ASSUME NEW t \in Threads, ClearActive(t) PROVE InfoTypes'
  BY <1>16 DEF ClearActive, IInv, Types, InfoTypes, infoVars
<1>17. ASSUME NEW t \in Threads, ReadConnected(t) PROVE InfoTypes'
  BY <1>17 DEF ReadConnected, IInv, Types, InfoTypes, infoVars
<1>18. ASSUME NEW t \in Threads, AssignActive(t) PROVE InfoTypes'
  BY <1>18 DEF AssignActive, IInv, Types, InfoTypes, infoVars
<1>19. ASSUME NEW i \in Infos, ConnectedChanged(i) PROVE InfoTypes'
  BY <1>19, <1>c DEF ConnectedChanged, Take, IInv, Types, InfoTypes
<1>20. ASSUME NEW i \in Infos, PairedChanged(i) PROVE InfoTypes'
  BY <1>20, <1>c DEF PairedChanged, Take, IInv, Types, InfoTypes
<1>21. ASSUME NEW d \in Devices, Appear(d) PROVE InfoTypes'
  BY <1>21 DEF Appear, Event, IInv, Types, InfoTypes, infoVars
<1>22. ASSUME NEW d \in Devices, Vanish(d) PROVE InfoTypes'
  BY <1>22 DEF Vanish, Event, IInv, Types, InfoTypes, infoVars
<1>23. ASSUME NEW d \in Devices, ConnectedFlips(d) PROVE InfoTypes'
  <2>1. Received(d, "Connected", ~bConnected[d]) \in [Infos -> Seq(Signals)]
    <3>1. (~bConnected[d]) \in BOOLEAN
      OBVIOUS
    <3> QED BY <1>b, <3>1
  <2> QED BY <1>23, <2>1 DEF ConnectedFlips, Signal, IInv, Types, InfoTypes
<1>24. ASSUME NEW d \in Devices, Pairs(d) PROVE InfoTypes'
  <2>1. Received(d, "Paired", TRUE) \in [Infos -> Seq(Signals)]
    BY <1>b
  <2> QED BY <1>24, <2>1 DEF Pairs, Signal, IInv, Types, InfoTypes
<1>25. CASE UNCHANGED vars
  BY <1>25 DEF IInv, Types, InfoTypes, vars, infoVars
<1>26. CASE RemovalBreaksOff
  BY <1>26
    DEF RemovalBreaksOff, Goto, IInv, Types, InfoTypes, infoVars
<1> QED
  BY <1>1, <1>2, <1>3, <1>4, <1>5, <1>6, <1>7, <1>8, <1>9, <1>10, <1>11, <1>12, <1>13, <1>14,
     <1>15, <1>16, <1>17, <1>18, <1>19, <1>20, <1>21, <1>22, <1>23, <1>24, <1>25, <1>26
    DEF Next, Startup, BusStep, TrySelectNewActiveDevice

\* What the program knows, and its devices, is of its types.
LEMMA ProgramTypesStep == IInv /\ [Next]_vars => ProgramTypes'
<1> SUFFICES ASSUME IInv, [Next]_vars PROVE ProgramTypes'
  OBVIOUS

<1>a. /\ pathOf \in [Infos -> Devices \cup {NoDevice}]
      /\ infoConnected \in [Infos -> BOOLEAN]
      /\ \A i \in Infos : i # NoInfo
      /\ \A d \in Devices : d # NoDevice
  BY FetcherAssumption DEF IInv, Types, InfoTypes
<1>b. \A t \in Threads : pc[t] = "deviceAdded" => arg[t] \in Infos
  BY DEF IInv, Types, ThreadTypes, ArgInv
<1>c. \A t \in Threads : candidate[t] \in Devices \cup {NoDevice}
  BY DEF IInv, Types, ThreadTypes
<1>1. CASE FetchDevices
  BY <1>1 DEF FetchDevices, IInv, Types, ProgramTypes, serviceVars, deviceVars
<1>2. CASE ClearMaps
  BY <1>2 DEF ClearMaps, IInv, Types, ProgramTypes, deviceVars
<1>3. CASE CreateFetched

  <2> DEFINE s == CHOOSE x \in todo : \A y \in todo : x.path <= y.path
  <2>1. s \in Snapshots
    BY <1>3, FetchedIsSnapshot DEF CreateFetched, IInv, Types, TodoTypes, Early
  <2>2. CreateInfo(Main, s, "create")
    BY <1>3 DEF CreateFetched
  <2> HIDE DEF s
  <2>3. UNCHANGED <<deviceVars, active, subscribed>>
    BY <1>3 DEF CreateFetched
  <2> QED BY <2>1, <2>2, <2>3, NewInfoFree
      DEF CreateInfo, Snapshots, IInv, Types, ProgramTypes, deviceVars
<1>4. CASE AllFetched
  BY <1>4 DEF AllFetched, IInv, Types, ProgramTypes, serviceVars, deviceVars
<1>5. CASE BeginFill
  BY <1>5 DEF BeginFill, IInv, Types, ProgramTypes, serviceVars
<1>6. CASE Fill
  BY <1>6, <1>a DEF Fill, AddDevice, IInv, Types, ProgramTypes, TodoTypes, serviceVars, deviceVars
<1>7. CASE Filled
  BY <1>7 DEF Filled, IInv, Types, ProgramTypes, serviceVars, deviceVars
<1>8. CASE Subscribe
  BY <1>8 DEF Subscribe, IInv, Types, ProgramTypes, serviceVars, deviceVars
<1>9. CASE HandleInterfacesAdded

  <2>1. Head(announced) \in Snapshots
    BY <1>9, HeadTailProperties DEF HandleInterfacesAdded, IInv, Types, BluezTypes
  <2>2. CreateInfo(Bus, Head(announced), "idle")
    BY <1>9 DEF HandleInterfacesAdded
  <2> QED BY <1>9, <2>1, <2>2, NewInfoFree DEF CreateInfo, HandleInterfacesAdded, Snapshots, IInv, Types, ProgramTypes, deviceVars
<1>10. CASE HandleInterfacesRemoved
  BY <1>10 DEF HandleInterfacesRemoved, IInv, Types, ProgramTypes, serviceVars, deviceVars
<1>11. CASE StopListening
  BY <1>11 DEF StopListening, IInv, Types, ProgramTypes, serviceVars, deviceVars
<1>12. CASE OnDeviceRemoved
  BY <1>12 DEF OnDeviceRemoved, IInv, Types, ProgramTypes, serviceVars
<1>13. CASE Forget
  BY <1>13 DEF Forget, IInv, Types, ProgramTypes, deviceVars
<1>14. ASSUME NEW t \in Threads, OnDeviceAdded(t) PROVE ProgramTypes'
  BY <1>14, <1>a, <1>b
    DEF OnDeviceAdded, AddDevice, IInv, Types, ProgramTypes, serviceVars, deviceVars
<1>15. ASSUME NEW t \in Threads, RememberPrevious(t) PROVE ProgramTypes'
  BY <1>15 DEF RememberPrevious, IInv, Types, ProgramTypes, serviceVars, deviceVars
<1>16. ASSUME NEW t \in Threads, ClearActive(t) PROVE ProgramTypes'
  BY <1>16 DEF ClearActive, IInv, Types, ProgramTypes, serviceVars, deviceVars
<1>17. ASSUME NEW t \in Threads, ReadConnected(t) PROVE ProgramTypes'
  BY <1>17 DEF ReadConnected, IInv, Types, ProgramTypes, serviceVars, deviceVars
<1>18. ASSUME NEW t \in Threads, AssignActive(t) PROVE ProgramTypes'
  BY <1>18, <1>c DEF AssignActive, IInv, Types, ProgramTypes, serviceVars, deviceVars
<1>19. ASSUME NEW i \in Infos, ConnectedChanged(i) PROVE ProgramTypes'
  <2>1. Head(inbox[i]).value \in BOOLEAN
    <3>1. Head(inbox[i]) \in Signals
      BY <1>19, HeadTailProperties DEF ConnectedChanged, Take, IInv, Types, InfoTypes
    <3> QED BY <3>1 DEF Signals
  <2> QED BY <1>19, <2>1 DEF ConnectedChanged, IInv, Types, ProgramTypes, serviceVars
<1>20. ASSUME NEW i \in Infos, PairedChanged(i) PROVE ProgramTypes'
  <2>1. known[pathOf[i]] # NoInfo => known[pathOf[i]] \in Infos
    BY <1>20 DEF PairedChanged, Take, IInv, Types, InfoTypes, ProgramTypes, PathInv
  <2> QED BY <1>20, <2>1 DEF PairedChanged, IInv, Types, ProgramTypes, deviceVars
<1>21. ASSUME NEW d \in Devices, Appear(d) PROVE ProgramTypes'
  BY <1>21 DEF Appear, Event, IInv, Types, ProgramTypes, serviceVars, deviceVars
<1>22. ASSUME NEW d \in Devices, Vanish(d) PROVE ProgramTypes'
  BY <1>22 DEF Vanish, Event, IInv, Types, ProgramTypes, serviceVars, deviceVars
<1>23. ASSUME NEW d \in Devices, ConnectedFlips(d) PROVE ProgramTypes'
  BY <1>23 DEF ConnectedFlips, IInv, Types, ProgramTypes, serviceVars, deviceVars
<1>24. ASSUME NEW d \in Devices, Pairs(d) PROVE ProgramTypes'
  BY <1>24 DEF Pairs, IInv, Types, ProgramTypes, serviceVars, deviceVars
<1>25. CASE UNCHANGED vars
  BY <1>25 DEF IInv, Types, ProgramTypes, vars, serviceVars, deviceVars
<1>26. CASE RemovalBreaksOff
  BY <1>26
    DEF RemovalBreaksOff, Goto, IInv, Types, ProgramTypes, serviceVars
<1> QED
  BY <1>1, <1>2, <1>3, <1>4, <1>5, <1>6, <1>7, <1>8, <1>9, <1>10, <1>11, <1>12, <1>13, <1>14,
     <1>15, <1>16, <1>17, <1>18, <1>19, <1>20, <1>21, <1>22, <1>23, <1>24, <1>25, <1>26
    DEF Next, Startup, BusStep, TrySelectNewActiveDevice

\* Where threads are, and what they work with, is of its types.
LEMMA ThreadTypesStep == IInv /\ [Next]_vars => ThreadTypes'
<1> SUFFICES ASSUME IInv, [Next]_vars PROVE ThreadTypes'
  OBVIOUS
<1>1. CASE FetchDevices
  BY <1>1 DEF FetchDevices, Goto, IInv, Types, ThreadTypes, Pcs, selectVars
<1>2. CASE ClearMaps
  BY <1>2 DEF ClearMaps, Goto, IInv, Types, ThreadTypes, Pcs, selectVars
<1>3. CASE CreateFetched

  <2> DEFINE s == CHOOSE x \in todo : \A y \in todo : x.path <= y.path
  <2>1. CreateInfo(Main, s, "create")
    BY <1>3 DEF CreateFetched
  <2> HIDE DEF s
  <2> QED BY <1>3, <2>1, NewInfoFree, ThreadsDiffer
      DEF CreateInfo, CreateFetched, IInv, Types, ThreadTypes, Pcs
<1>4. CASE AllFetched
  BY <1>4 DEF AllFetched, Goto, IInv, Types, ThreadTypes, Pcs, selectVars
<1>5. CASE BeginFill
  BY <1>5 DEF BeginFill, Goto, IInv, Types, ThreadTypes, Pcs, selectVars
<1>6. CASE Fill
  BY <1>6 DEF Fill, IInv, Types, ThreadTypes, Pcs, selectVars
<1>7. CASE Filled
  BY <1>7 DEF Filled, Select, IInv, Types, ThreadTypes, Pcs
<1>8. CASE Subscribe
  BY <1>8 DEF Subscribe, Goto, IInv, Types, ThreadTypes, Pcs, selectVars
<1>9. CASE HandleInterfacesAdded

  <2>1. CreateInfo(Bus, Head(announced), "idle")
    BY <1>9 DEF HandleInterfacesAdded
  <2> QED BY <1>9, <2>1, NewInfoFree, ThreadsDiffer
      DEF CreateInfo, HandleInterfacesAdded, IInv, Types, ThreadTypes, Pcs
<1>10. CASE HandleInterfacesRemoved

  <2>1. known[Head(announced).path] \in Infos \cup {NoInfo}
    <3>1. Head(announced) \in Snapshots
      BY <1>10, HeadTailProperties DEF HandleInterfacesRemoved, IInv, Types, BluezTypes
    <3> QED BY <3>1 DEF Snapshots, IInv, Types, ProgramTypes
  <2> QED BY <1>10, <2>1, ThreadsDiffer
      DEF HandleInterfacesRemoved, Goto, IInv, Types, ThreadTypes, Pcs, selectVars
<1>11. CASE StopListening
  BY <1>11 DEF StopListening, Goto, IInv, Types, ThreadTypes, Pcs, selectVars
<1>12. CASE OnDeviceRemoved
  BY <1>12 DEF OnDeviceRemoved, Select, Goto, IInv, Types, ThreadTypes, Pcs
<1>13. CASE Forget
  BY <1>13 DEF Forget, Goto, IInv, Types, ThreadTypes, Pcs, selectVars
<1>14. ASSUME NEW t \in Threads, OnDeviceAdded(t) PROVE ThreadTypes'
  BY <1>14 DEF OnDeviceAdded, IInv, Types, ThreadTypes, Pcs, selectVars
<1>15. ASSUME NEW t \in Threads, RememberPrevious(t) PROVE ThreadTypes'

  BY <1>15 DEF RememberPrevious, Goto, IInv, Types, ProgramTypes, ThreadTypes, Pcs
<1>16. ASSUME NEW t \in Threads, ClearActive(t) PROVE ThreadTypes'
  BY <1>16 DEF ClearActive, Goto, IInv, Types, ThreadTypes, Pcs, selectVars
<1>17. ASSUME NEW t \in Threads, ReadConnected(t) PROVE ThreadTypes'
  <2> DEFINE up == {d \in Devices : devicesMap[d] # NoInfo /\ connected[d]}
             next == IF active # NoDevice \/ up = {} THEN NoDevice
                     ELSE CHOOSE d \in up : \A e \in up : e <= d
  <2>1. next \in Devices \cup {NoDevice}
    <3>1. CASE up = {}
      BY <3>1
    <3>2. CASE up # {}
      <4>1. up \subseteq Nat /\ IsFiniteSet(up)
        BY FetcherAssumption, FS_Subset
      <4>2. \E m \in up : \A e \in up : e <= m
        <5> HIDE DEF up
        <5> QED BY <3>2, <4>1, Greatest
      <4> QED BY <4>2
    <3> QED BY <3>1, <3>2
  <2>2. candidate' = [candidate EXCEPT ![t] = next]
    BY <1>17 DEF ReadConnected
  <2> HIDE DEF next
  <2> QED BY <1>17, <2>1, <2>2 DEF ReadConnected, Goto, IInv, Types, ThreadTypes, Pcs
<1>18. ASSUME NEW t \in Threads, AssignActive(t) PROVE ThreadTypes'
  BY <1>18 DEF AssignActive, IInv, Types, ThreadTypes, Pcs
<1>19. ASSUME NEW i \in Infos, ConnectedChanged(i) PROVE ThreadTypes'
  <2>1. pc' \in [Threads -> Pcs] /\ resume' \in [Threads -> Pcs] /\ overlapped' \in BOOLEAN
    BY <1>19 DEF ConnectedChanged, Select, IInv, Types, ThreadTypes, Pcs
  <2> QED BY <1>19, <2>1 DEF ConnectedChanged, IInv, Types, ThreadTypes
<1>20. ASSUME NEW i \in Infos, PairedChanged(i) PROVE ThreadTypes'
  <2>1. known[pathOf[i]] # NoInfo => known[pathOf[i]] \in Infos
    BY <1>20 DEF PairedChanged, Take, IInv, Types, InfoTypes, ProgramTypes, PathInv
  <2> QED BY <1>20, <2>1, ThreadsDiffer DEF PairedChanged, IInv, Types, ThreadTypes, Pcs
<1>21. ASSUME NEW d \in Devices, Appear(d) PROVE ThreadTypes'
  BY <1>21 DEF Appear, Event, IInv, Types, ThreadTypes, Pcs, selectVars
<1>22. ASSUME NEW d \in Devices, Vanish(d) PROVE ThreadTypes'
  BY <1>22 DEF Vanish, Event, IInv, Types, ThreadTypes, Pcs, selectVars
<1>23. ASSUME NEW d \in Devices, ConnectedFlips(d) PROVE ThreadTypes'
  BY <1>23 DEF ConnectedFlips, IInv, Types, ThreadTypes, Pcs, selectVars
<1>24. ASSUME NEW d \in Devices, Pairs(d) PROVE ThreadTypes'
  BY <1>24 DEF Pairs, IInv, Types, ThreadTypes, Pcs, selectVars
<1>25. CASE UNCHANGED vars
  BY <1>25 DEF IInv, Types, ThreadTypes, vars, selectVars
<1>26. CASE RemovalBreaksOff
  BY <1>26
    DEF RemovalBreaksOff, Goto, IInv, Types, ThreadTypes, Pcs
<1> QED
  BY <1>1, <1>2, <1>3, <1>4, <1>5, <1>6, <1>7, <1>8, <1>9, <1>10, <1>11, <1>12, <1>13, <1>14,
     <1>15, <1>16, <1>17, <1>18, <1>19, <1>20, <1>21, <1>22, <1>23, <1>24, <1>25, <1>26
    DEF Next, Startup, BusStep, TrySelectNewActiveDevice

\* Main goes through snapshots, then through objects.
LEMMA TodoTypesStep == IInv /\ [Next]_vars => TodoTypes'
<1> SUFFICES ASSUME IInv, [Next]_vars PROVE TodoTypes'
  OBVIOUS
<1>1. CASE FetchDevices

  <2>1. \A d \in present : Snapshot(d) \in Snapshots
    BY DEF Snapshot, Snapshots, IInv, Types, BluezTypes
  <2> QED BY <1>1, <2>1, ThreadsDiffer DEF FetchDevices, Goto, TodoTypes, Early
<1>2. CASE ClearMaps
  BY <1>2 DEF ClearMaps, Goto, IInv, Types, TodoTypes, Early
<1>3. CASE CreateFetched

  <2> DEFINE s == CHOOSE x \in todo : \A y \in todo : x.path <= y.path
  <2>1. s \in Snapshots
    BY <1>3, FetchedIsSnapshot DEF CreateFetched, IInv, Types, TodoTypes, Early
  <2>2. CreateInfo(Main, s, "create")
    BY <1>3 DEF CreateFetched
  <2>3. todo' \subseteq todo /\ UNCHANGED <<deviceVars, active, subscribed, candidate, overlapped>>
    BY <1>3 DEF CreateFetched
  <2> HIDE DEF s

  <2> QED BY <1>3, <2>2, <2>3, ThreadsDiffer
      DEF CreateFetched, CreateInfo, IInv, Types, TodoTypes, Early, ThreadTypes
<1>4. CASE AllFetched
  BY <1>4 DEF AllFetched, TodoTypes
<1>5. CASE BeginFill
  BY <1>5, ThreadsDiffer
    DEF BeginFill, Goto, IInv, Types, ProgramTypes, TodoTypes, ThreadTypes, Early
<1>6. CASE Fill
  BY <1>6 DEF Fill, IInv, Types, TodoTypes, Early
<1>7. CASE Filled
  BY <1>7 DEF Filled, TodoTypes
<1>8. CASE Subscribe
  BY <1>8 DEF Subscribe, Goto, TodoTypes, Early
<1>9. CASE HandleInterfacesAdded

  <2>1. Head(announced) \in Snapshots
    BY <1>9, HeadTailProperties DEF HandleInterfacesAdded, IInv, Types, BluezTypes
  <2>2. CreateInfo(Bus, Head(announced), "idle")
    BY <1>9 DEF HandleInterfacesAdded
  <2>3. UNCHANGED <<deviceVars, active, subscribed, todo, candidate, overlapped>>
    BY <1>9 DEF HandleInterfacesAdded

  <2> QED BY <1>9, <2>2, <2>3, ThreadsDiffer
      DEF HandleInterfacesAdded, CreateInfo, IInv, Types, TodoTypes, Early, ThreadTypes
<1>10. CASE HandleInterfacesRemoved
  BY <1>10 DEF HandleInterfacesRemoved, Goto, IInv, Types, TodoTypes, Early
<1>11. CASE StopListening
  BY <1>11 DEF StopListening, Goto, IInv, Types, TodoTypes, Early
<1>12. CASE OnDeviceRemoved
  BY <1>12, ThreadsDiffer
    DEF OnDeviceRemoved, Select, Goto, IInv, Types, TodoTypes, Early, ThreadTypes
<1>13. CASE Forget
  BY <1>13, ThreadsDiffer DEF Forget, Goto, IInv, Types, TodoTypes, Early
<1>14. ASSUME NEW t \in Threads, OnDeviceAdded(t) PROVE TodoTypes'
  BY <1>14 DEF OnDeviceAdded, IInv, Types, TodoTypes, Early, ResumeInv, Announced
<1>15. ASSUME NEW t \in Threads, RememberPrevious(t) PROVE TodoTypes'
  BY <1>15 DEF RememberPrevious, Goto, IInv, Types, TodoTypes, Early
<1>16. ASSUME NEW t \in Threads, ClearActive(t) PROVE TodoTypes'
  BY <1>16 DEF ClearActive, Goto, IInv, Types, TodoTypes, Early
<1>17. ASSUME NEW t \in Threads, ReadConnected(t) PROVE TodoTypes'
  BY <1>17 DEF ReadConnected, Goto, IInv, Types, TodoTypes, Early
<1>18. ASSUME NEW t \in Threads, AssignActive(t) PROVE TodoTypes'
  BY <1>18, ThreadsDiffer
    DEF AssignActive, IInv, Types, TodoTypes, Early, ThreadTypes, ResumeInv, Selected, Selecting
<1>19. ASSUME NEW i \in Infos, ConnectedChanged(i) PROVE TodoTypes'
  BY <1>19, ThreadsDiffer
    DEF ConnectedChanged, Take, Select, IInv, Types, TodoTypes, Early, ThreadTypes
<1>20. ASSUME NEW i \in Infos, PairedChanged(i) PROVE TodoTypes'
  BY <1>20, ThreadsDiffer DEF PairedChanged, IInv, Types, TodoTypes, Early, ThreadTypes
<1>21. ASSUME NEW d \in Devices, Appear(d) PROVE TodoTypes'
  BY <1>21 DEF Appear, Event, IInv, Types, TodoTypes, Early
<1>22. ASSUME NEW d \in Devices, Vanish(d) PROVE TodoTypes'
  BY <1>22 DEF Vanish, Event, IInv, Types, TodoTypes, Early
<1>23. ASSUME NEW d \in Devices, ConnectedFlips(d) PROVE TodoTypes'
  BY <1>23 DEF ConnectedFlips, IInv, Types, TodoTypes, Early
<1>24. ASSUME NEW d \in Devices, Pairs(d) PROVE TodoTypes'
  BY <1>24 DEF Pairs, IInv, Types, TodoTypes, Early
<1>25. CASE UNCHANGED vars
  BY <1>25 DEF vars, IInv, Types, TodoTypes, Early
<1>26. CASE RemovalBreaksOff
  BY <1>26, ThreadsDiffer
    DEF RemovalBreaksOff, Goto, IInv, Types, TodoTypes, Early, ThreadTypes
<1> QED
  BY <1>1, <1>2, <1>3, <1>4, <1>5, <1>6, <1>7, <1>8, <1>9, <1>10, <1>11, <1>12, <1>13, <1>14,
     <1>15, <1>16, <1>17, <1>18, <1>19, <1>20, <1>21, <1>22, <1>23, <1>24, <1>25, <1>26
    DEF Next, Startup, BusStep, TrySelectNewActiveDevice

\* A selection goes on where it was called from.
LEMMA ResumeStep == IInv /\ [Next]_vars => ResumeInv'
<1> SUFFICES ASSUME IInv, [Next]_vars PROVE ResumeInv'
  OBVIOUS
<1>1. CASE FetchDevices
  BY <1>1 DEF FetchDevices, Goto, IInv, ResumeInv, Selecting, PlaceInv, selectVars
<1>2. CASE ClearMaps
  BY <1>2 DEF ClearMaps, Goto, IInv, ResumeInv, Selecting, PlaceInv, selectVars
<1>3. CASE CreateFetched

  <2> DEFINE s == CHOOSE x \in todo : \A y \in todo : x.path <= y.path
  <2>1. s \in Snapshots
    BY <1>3, FetchedIsSnapshot DEF CreateFetched, IInv, Types, TodoTypes, Early
  <2>2. CreateInfo(Main, s, "create")
    BY <1>3 DEF CreateFetched
  <2>3. todo' \subseteq todo /\ UNCHANGED <<deviceVars, active, subscribed, candidate, overlapped>>
    BY <1>3 DEF CreateFetched
  <2> HIDE DEF s

  <2> QED BY <1>3, <2>2, <2>3, ThreadsDiffer
      DEF CreateFetched, CreateInfo, IInv, Types, ThreadTypes, ResumeInv, Selecting, Selected,
          Announced
<1>4. CASE AllFetched
  BY <1>4 DEF AllFetched, Goto, IInv, ResumeInv, Selecting, PlaceInv, selectVars
<1>5. CASE BeginFill
  BY <1>5 DEF BeginFill, Goto, IInv, ResumeInv, Selecting, PlaceInv, selectVars
<1>6. CASE Fill
  BY <1>6 DEF Fill, IInv, ResumeInv, Selecting, PlaceInv, selectVars
<1>7. CASE Filled
  BY <1>7 DEF Filled, Select, IInv, Types, ResumeInv, Selecting, ThreadTypes, Selected, PlaceInv
<1>8. CASE Subscribe
  BY <1>8 DEF Subscribe, Goto, IInv, ResumeInv, Selecting, PlaceInv, selectVars
<1>9. CASE HandleInterfacesAdded

  <2>1. Head(announced) \in Snapshots
    BY <1>9, HeadTailProperties DEF HandleInterfacesAdded, IInv, Types, BluezTypes
  <2>2. CreateInfo(Bus, Head(announced), "idle")
    BY <1>9 DEF HandleInterfacesAdded
  <2>3. UNCHANGED <<deviceVars, active, subscribed, todo, candidate, overlapped>>
    BY <1>9 DEF HandleInterfacesAdded

  <2> QED BY <1>9, <2>2, <2>3, ThreadsDiffer
      DEF HandleInterfacesAdded, CreateInfo, IInv, Types, ThreadTypes, ResumeInv, Selecting,
          Selected, Announced
<1>10. CASE HandleInterfacesRemoved
  BY <1>10 DEF HandleInterfacesRemoved, Goto, IInv, ResumeInv, Selecting, PlaceInv, selectVars
<1>11. CASE StopListening
  BY <1>11 DEF StopListening, Goto, IInv, ResumeInv, Selecting, PlaceInv, selectVars
<1>12. CASE OnDeviceRemoved
  BY <1>12, ThreadsDiffer
    DEF OnDeviceRemoved, Select, Goto, IInv, Types, ResumeInv, Selecting, ThreadTypes, Selected,
        Announced, PlaceInv, selectVars
<1>13. CASE Forget
  BY <1>13 DEF Forget, Goto, IInv, ResumeInv, Selecting, PlaceInv, selectVars
<1>14. ASSUME NEW t \in Threads, OnDeviceAdded(t) PROVE ResumeInv'
  BY <1>14, ThreadsDiffer
    DEF OnDeviceAdded, AddDevice, IInv, Types, ResumeInv, Selecting, ThreadTypes, Selected,
        Announced, PlaceInv, selectVars
<1>15. ASSUME NEW t \in Threads, RememberPrevious(t) PROVE ResumeInv'
  BY <1>15 DEF RememberPrevious, Goto, IInv, ResumeInv, Selecting
<1>16. ASSUME NEW t \in Threads, ClearActive(t) PROVE ResumeInv'
  BY <1>16 DEF ClearActive, Goto, IInv, ResumeInv, Selecting, PlaceInv, selectVars
<1>17. ASSUME NEW t \in Threads, ReadConnected(t) PROVE ResumeInv'
  BY <1>17 DEF ReadConnected, Goto, IInv, ResumeInv, Selecting
<1>18. ASSUME NEW t \in Threads, AssignActive(t) PROVE ResumeInv'
  BY <1>18 DEF AssignActive, IInv, ResumeInv, Selecting, Selected, selectVars
<1>19. ASSUME NEW i \in Infos, ConnectedChanged(i) PROVE ResumeInv'
  BY <1>19, ThreadsDiffer
    DEF ConnectedChanged, Take, Select, IInv, Types, ResumeInv, Selecting, ThreadTypes, Selected,
        PlaceInv
<1>20. ASSUME NEW i \in Infos, PairedChanged(i) PROVE ResumeInv'
  BY <1>20, ThreadsDiffer
    DEF PairedChanged, Take, IInv, Types, ResumeInv, Selecting, ThreadTypes, Announced
<1>21. ASSUME NEW d \in Devices, Appear(d) PROVE ResumeInv'
  BY <1>21 DEF Appear, Event, IInv, ResumeInv, Selecting, selectVars
<1>22. ASSUME NEW d \in Devices, Vanish(d) PROVE ResumeInv'
  BY <1>22 DEF Vanish, Event, IInv, ResumeInv, Selecting, selectVars
<1>23. ASSUME NEW d \in Devices, ConnectedFlips(d) PROVE ResumeInv'
  BY <1>23 DEF ConnectedFlips, IInv, ResumeInv, Selecting, selectVars
<1>24. ASSUME NEW d \in Devices, Pairs(d) PROVE ResumeInv'
  BY <1>24 DEF Pairs, IInv, ResumeInv, Selecting, selectVars
<1>25. CASE UNCHANGED vars
  BY <1>25 DEF vars, IInv, ResumeInv, Selecting, PlaceInv, selectVars
<1>26. CASE RemovalBreaksOff
  BY <1>26, ThreadsDiffer
    DEF RemovalBreaksOff, Goto, IInv, Types, ResumeInv, Selecting, ThreadTypes, Selected,
        Announced, PlaceInv, selectVars
<1> QED
  BY <1>1, <1>2, <1>3, <1>4, <1>5, <1>6, <1>7, <1>8, <1>9, <1>10, <1>11, <1>12, <1>13, <1>14,
     <1>15, <1>16, <1>17, <1>18, <1>19, <1>20, <1>21, <1>22, <1>23, <1>24, <1>25, <1>26
    DEF Next, Startup, BusStep, TrySelectNewActiveDevice

\* Each kind of thread keeps to its own code.
LEMMA PlaceStep == IInv /\ [Next]_vars => PlaceInv'
<1> SUFFICES ASSUME IInv, [Next]_vars PROVE PlaceInv'
  OBVIOUS
<1>1. CASE FetchDevices
  BY <1>1 DEF FetchDevices, Goto, IInv, PlaceInv
<1>2. CASE ClearMaps
  BY <1>2 DEF ClearMaps, Goto, IInv, PlaceInv
<1>3. CASE CreateFetched

  <2> DEFINE s == CHOOSE x \in todo : \A y \in todo : x.path <= y.path
  <2>1. s \in Snapshots
    BY <1>3, FetchedIsSnapshot DEF CreateFetched, IInv, Types, TodoTypes, Early
  <2>2. CreateInfo(Main, s, "create")
    BY <1>3 DEF CreateFetched
  <2>3. todo' \subseteq todo /\ UNCHANGED <<deviceVars, active, subscribed, candidate, overlapped>>
    BY <1>3 DEF CreateFetched
  <2> HIDE DEF s

  <2> QED BY <1>3, <2>2, ThreadsDiffer DEF CreateFetched, CreateInfo, IInv, Types, ThreadTypes, PlaceInv
<1>4. CASE AllFetched
  BY <1>4 DEF AllFetched, Goto, IInv, PlaceInv
<1>5. CASE BeginFill
  BY <1>5 DEF BeginFill, Goto, IInv, PlaceInv
<1>6. CASE Fill
  BY <1>6 DEF Fill, IInv, PlaceInv
<1>7. CASE Filled
  BY <1>7 DEF Filled, Select, IInv, PlaceInv
<1>8. CASE Subscribe
  BY <1>8 DEF Subscribe, Goto, IInv, PlaceInv
<1>9. CASE HandleInterfacesAdded

  <2>1. Head(announced) \in Snapshots
    BY <1>9, HeadTailProperties DEF HandleInterfacesAdded, IInv, Types, BluezTypes
  <2>2. CreateInfo(Bus, Head(announced), "idle")
    BY <1>9 DEF HandleInterfacesAdded
  <2>3. UNCHANGED <<deviceVars, active, subscribed, todo, candidate, overlapped>>
    BY <1>9 DEF HandleInterfacesAdded

  <2> QED BY <1>9, <2>2, ThreadsDiffer
      DEF HandleInterfacesAdded, CreateInfo, IInv, Types, ThreadTypes, PlaceInv
<1>10. CASE HandleInterfacesRemoved
  BY <1>10 DEF HandleInterfacesRemoved, Goto, IInv, PlaceInv
<1>11. CASE StopListening
  BY <1>11 DEF StopListening, Goto, IInv, PlaceInv
<1>12. CASE OnDeviceRemoved
  BY <1>12 DEF OnDeviceRemoved, Select, Goto, IInv, Types, ThreadTypes, PlaceInv
<1>13. CASE Forget
  BY <1>13 DEF Forget, Goto, IInv, PlaceInv
<1>14. ASSUME NEW t \in Threads, OnDeviceAdded(t) PROVE PlaceInv'
  BY <1>14 DEF OnDeviceAdded, IInv, ResumeInv, Announced, PlaceInv
<1>15. ASSUME NEW t \in Threads, RememberPrevious(t) PROVE PlaceInv'
  BY <1>15 DEF RememberPrevious, Goto, IInv, PlaceInv
<1>16. ASSUME NEW t \in Threads, ClearActive(t) PROVE PlaceInv'
  BY <1>16 DEF ClearActive, Goto, IInv, PlaceInv
<1>17. ASSUME NEW t \in Threads, ReadConnected(t) PROVE PlaceInv'
  BY <1>17 DEF ReadConnected, Goto, IInv, PlaceInv
<1>18. ASSUME NEW t \in Threads, AssignActive(t) PROVE PlaceInv'
  BY <1>18 DEF AssignActive, IInv, ResumeInv, Selected, Selecting, PlaceInv
<1>19. ASSUME NEW i \in Infos, ConnectedChanged(i) PROVE PlaceInv'
  BY <1>19 DEF ConnectedChanged, Take, Select, IInv, Types, ThreadTypes, PlaceInv
<1>20. ASSUME NEW i \in Infos, PairedChanged(i) PROVE PlaceInv'
  BY <1>20 DEF PairedChanged, Take, IInv, Types, ThreadTypes, PlaceInv
<1>21. ASSUME NEW d \in Devices, Appear(d) PROVE PlaceInv'
  BY <1>21 DEF Appear, Event, IInv, PlaceInv
<1>22. ASSUME NEW d \in Devices, Vanish(d) PROVE PlaceInv'
  BY <1>22 DEF Vanish, Event, IInv, PlaceInv
<1>23. ASSUME NEW d \in Devices, ConnectedFlips(d) PROVE PlaceInv'
  BY <1>23 DEF ConnectedFlips, Event, Signal, IInv, PlaceInv
<1>24. ASSUME NEW d \in Devices, Pairs(d) PROVE PlaceInv'
  BY <1>24 DEF Pairs, Event, Signal, IInv, PlaceInv
<1>25. CASE UNCHANGED vars
  BY <1>25 DEF IInv, PlaceInv, vars
<1>26. CASE RemovalBreaksOff
  BY <1>26
    DEF RemovalBreaksOff, Goto, IInv, Types, ThreadTypes, PlaceInv
<1> QED
  BY <1>1, <1>2, <1>3, <1>4, <1>5, <1>6, <1>7, <1>8, <1>9, <1>10, <1>11, <1>12, <1>13, <1>14,
     <1>15, <1>16, <1>17, <1>18, <1>19, <1>20, <1>21, <1>22, <1>23, <1>24, <1>25, <1>26
    DEF Next, Startup, BusStep, TrySelectNewActiveDevice

\* Objects stay with the device they were made for.
LEMMA PathStep == IInv /\ [Next]_vars => PathInv'
<1> SUFFICES ASSUME IInv, [Next]_vars PROVE PathInv'
  OBVIOUS
<1>a. \A d \in Devices : /\ known[d] # NoInfo => known[d] \in Infos
                         /\ devicesMap[d] # NoInfo => devicesMap[d] \in Infos
                         /\ d # NoDevice
  BY FetcherAssumption DEF IInv, Types, ProgramTypes
<1>b. paired \subseteq Infos /\ pathOf \in [Infos -> Devices \cup {NoDevice}]
  BY DEF IInv, Types, ProgramTypes, InfoTypes
<1>c. \A t \in Threads : pc[t] = "deviceAdded" => arg[t] \in Infos /\ pathOf[arg[t]] # NoDevice
  BY DEF IInv, Types, ThreadTypes, ArgInv
<1>1. CASE FetchDevices
  BY <1>1, ThreadsDiffer
    DEF FetchDevices, Goto, IInv, Types, PathInv, infoVars, serviceVars, deviceVars
<1>2. CASE ClearMaps
  BY <1>2 DEF ClearMaps, Goto, IInv, Types, PathInv, serviceVars, deviceVars
<1>3. CASE CreateFetched

  <2> DEFINE s == CHOOSE x \in todo : \A y \in todo : x.path <= y.path
  <2>1. s \in Snapshots
    BY <1>3, FetchedIsSnapshot DEF CreateFetched, IInv, Types, TodoTypes, Early
  <2>2. CreateInfo(Main, s, "create")
    BY <1>3 DEF CreateFetched
  <2>3. todo' \subseteq todo /\ UNCHANGED <<deviceVars, active, subscribed, candidate, overlapped>>
    BY <1>3 DEF CreateFetched
  <2> HIDE DEF s

  <2>4. /\ s.path \in Devices /\ NewInfo \in Infos /\ pathOf[NewInfo] = NoDevice
        /\ pathOf' = [pathOf EXCEPT ![NewInfo] = s.path]
        /\ known' = [known EXCEPT ![s.path] = NewInfo]
        /\ listening' \subseteq listening \cup {NewInfo}
        /\ paired' \subseteq paired \cup {NewInfo}
    BY <2>1, <2>2, NewInfoFree DEF CreateInfo, Snapshots
  <2>5. pc'[Main] # "filling"
    BY <1>3, <2>2 DEF CreateFetched, CreateInfo
  <2>6. UNCHANGED devicesMap
    BY <2>3 DEF deviceVars
  <2> QED BY <1>a, <1>b, <2>4, <2>5, <2>6 DEF IInv, Types, InfoTypes, ProgramTypes, PathInv
<1>4. CASE AllFetched
  BY <1>4, ThreadsDiffer
    DEF AllFetched, Goto, IInv, Types, PathInv, infoVars, serviceVars, deviceVars
<1>5. CASE BeginFill
  BY <1>5, ThreadsDiffer DEF BeginFill, Goto, IInv, Types, PathInv, infoVars, serviceVars
<1>6. CASE Fill

  <2>1. PICK i \in todo : AddDevice(i) /\ todo' = todo \ {i}
    BY <1>6 DEF Fill
  <2>2. i \in Infos /\ pathOf[i] # NoDevice
    BY <1>6, <2>1 DEF Fill, IInv, Types, TodoTypes, PathInv
  <2> QED BY <1>6, <2>1, <2>2, <1>a, <1>b
      DEF Fill, AddDevice, IInv, Types, ProgramTypes, PathInv, infoVars, serviceVars, deviceVars
<1>7. CASE Filled
  BY <1>7, ThreadsDiffer
    DEF Filled, Select, IInv, Types, PathInv, infoVars, serviceVars, deviceVars
<1>8. CASE Subscribe
  BY <1>8, ThreadsDiffer
    DEF Subscribe, Goto, IInv, Types, PathInv, infoVars, serviceVars, deviceVars
<1>9. CASE HandleInterfacesAdded

  <2>1. Head(announced) \in Snapshots
    BY <1>9, HeadTailProperties DEF HandleInterfacesAdded, IInv, Types, BluezTypes
  <2>2. CreateInfo(Bus, Head(announced), "idle")
    BY <1>9 DEF HandleInterfacesAdded
  <2>3. UNCHANGED <<deviceVars, active, subscribed, todo, candidate, overlapped>>
    BY <1>9 DEF HandleInterfacesAdded

  <2> DEFINE s == Head(announced)
  <2>4. /\ s.path \in Devices /\ NewInfo \in Infos /\ pathOf[NewInfo] = NoDevice
        /\ pathOf' = [pathOf EXCEPT ![NewInfo] = s.path]
        /\ known' = [known EXCEPT ![s.path] = NewInfo]
        /\ listening' \subseteq listening \cup {NewInfo}
        /\ paired' \subseteq paired \cup {NewInfo}
    BY <2>1, <2>2, NewInfoFree DEF CreateInfo, Snapshots
  <2>5. pc'[Main] = "filling" => pc[Main] = "filling"
    BY <2>2 DEF CreateInfo
  <2>6. UNCHANGED <<devicesMap, todo>>
    BY <2>3 DEF deviceVars
  <2> HIDE DEF s
  <2> QED BY <1>a, <1>b, <2>4, <2>5, <2>6 DEF IInv, Types, InfoTypes, ProgramTypes, PathInv, TodoTypes
<1>10. CASE HandleInterfacesRemoved
  BY <1>10, ThreadsDiffer
    DEF HandleInterfacesRemoved, Goto, IInv, Types, PathInv, infoVars, serviceVars, deviceVars
<1>11. CASE StopListening
  BY <1>11 DEF StopListening, Goto, IInv, Types, PathInv, serviceVars, deviceVars
<1>12. CASE OnDeviceRemoved
  BY <1>12, ThreadsDiffer
    DEF OnDeviceRemoved, Select, Goto, IInv, Types, InfoTypes, ProgramTypes, ThreadTypes, PathInv,
        infoVars, serviceVars, deviceVars
<1>13. CASE Forget
  BY <1>13, ThreadsDiffer
    DEF Forget, Goto, IInv, Types, PathInv, infoVars, serviceVars, deviceVars
<1>14. ASSUME NEW t \in Threads, OnDeviceAdded(t) PROVE PathInv'
  <2>1. pc'[Main] = "filling" => pc[Main] = "filling"
    BY <1>14 DEF OnDeviceAdded, IInv, ResumeInv, Announced
  <2> QED BY <1>14, <2>1, <1>a, <1>b, <1>c
      DEF OnDeviceAdded, AddDevice, IInv, Types, ProgramTypes, PathInv, infoVars, serviceVars,
          deviceVars
<1>15. ASSUME NEW t \in Threads, RememberPrevious(t) PROVE PathInv'
  BY <1>15, ThreadsDiffer
    DEF RememberPrevious, Goto, IInv, Types, PathInv, infoVars, serviceVars, deviceVars
<1>16. ASSUME NEW t \in Threads, ClearActive(t) PROVE PathInv'
  BY <1>16, ThreadsDiffer
    DEF ClearActive, Goto, IInv, Types, PathInv, infoVars, serviceVars, deviceVars
<1>17. ASSUME NEW t \in Threads, ReadConnected(t) PROVE PathInv'
  BY <1>17, ThreadsDiffer
    DEF ReadConnected, Goto, IInv, Types, PathInv, infoVars, serviceVars, deviceVars
<1>18. ASSUME NEW t \in Threads, AssignActive(t) PROVE PathInv'
  <2>1. pc'[Main] # "filling" \/ pc[Main] = "filling"
    BY <1>18 DEF AssignActive, IInv, ResumeInv, Selected, Selecting
  <2> QED BY <1>18, <2>1 DEF AssignActive, IInv, Types, PathInv, infoVars, serviceVars, deviceVars
<1>19. ASSUME NEW i \in Infos, ConnectedChanged(i) PROVE PathInv'
  BY <1>19, ThreadsDiffer
    DEF ConnectedChanged, Take, Select, IInv, Types, ThreadTypes, PathInv, serviceVars
<1>20. ASSUME NEW i \in Infos, PairedChanged(i) PROVE PathInv'
  BY <1>20, ThreadsDiffer
    DEF PairedChanged, Take, IInv, Types, InfoTypes, ThreadTypes, PathInv, deviceVars
<1>21. ASSUME NEW d \in Devices, Appear(d) PROVE PathInv'
  BY <1>21, ThreadsDiffer
    DEF Appear, Event, IInv, Types, PathInv, infoVars, serviceVars, deviceVars
<1>22. ASSUME NEW d \in Devices, Vanish(d) PROVE PathInv'
  BY <1>22, ThreadsDiffer
    DEF Vanish, Event, IInv, Types, PathInv, infoVars, serviceVars, deviceVars
<1>23. ASSUME NEW d \in Devices, ConnectedFlips(d) PROVE PathInv'
  BY <1>23, ThreadsDiffer
    DEF ConnectedFlips, Event, Signal, IInv, Types, InfoTypes, ProgramTypes, ThreadTypes, PathInv,
        infoVars, serviceVars, deviceVars
<1>24. ASSUME NEW d \in Devices, Pairs(d) PROVE PathInv'
  BY <1>24, ThreadsDiffer
    DEF Pairs, Event, Signal, IInv, Types, InfoTypes, ProgramTypes, ThreadTypes, PathInv,
        infoVars, serviceVars, deviceVars
<1>25. CASE UNCHANGED vars
  BY <1>25, ThreadsDiffer
    DEF vars, IInv, Types, InfoTypes, ProgramTypes, ThreadTypes, PathInv, infoVars, serviceVars,
        deviceVars
<1>26. CASE RemovalBreaksOff
  BY <1>26, ThreadsDiffer
    DEF RemovalBreaksOff, Goto, IInv, Types, InfoTypes, ProgramTypes, ThreadTypes, PathInv,
        infoVars, serviceVars, deviceVars
<1> QED
  BY <1>1, <1>2, <1>3, <1>4, <1>5, <1>6, <1>7, <1>8, <1>9, <1>10, <1>11, <1>12, <1>13, <1>14,
     <1>15, <1>16, <1>17, <1>18, <1>19, <1>20, <1>21, <1>22, <1>23, <1>24, <1>25, <1>26
    DEF Next, Startup, BusStep, TrySelectNewActiveDevice

\* A thread works on an object of a device.
LEMMA ArgStep == IInv /\ [Next]_vars => ArgInv'
<1> SUFFICES ASSUME IInv, [Next]_vars PROVE ArgInv'
  OBVIOUS

<1>a. /\ \A d \in Devices : d # NoDevice
      /\ \A i \in Infos : i # NoInfo
  BY FetcherAssumption
<1>1. CASE FetchDevices
  BY <1>1, ThreadsDiffer, <1>a
    DEF FetchDevices, Goto, IInv, Types, InfoTypes, ThreadTypes, ArgInv, Selecting, infoVars
<1>2. CASE ClearMaps
  BY <1>2, ThreadsDiffer, <1>a
    DEF ClearMaps, Goto, IInv, Types, InfoTypes, ThreadTypes, ArgInv, Selecting, infoVars
<1>3. CASE CreateFetched

  <2> DEFINE s == CHOOSE x \in todo : \A y \in todo : x.path <= y.path
  <2>1. s \in Snapshots
    BY <1>3, FetchedIsSnapshot DEF CreateFetched, IInv, Types, TodoTypes, Early
  <2>2. CreateInfo(Main, s, "create")
    BY <1>3 DEF CreateFetched
  <2>3. todo' \subseteq todo /\ UNCHANGED <<deviceVars, active, subscribed, candidate, overlapped>>
    BY <1>3 DEF CreateFetched
  <2> HIDE DEF s

  <2>4. /\ s.path \in Devices /\ NewInfo \in Infos /\ pathOf[NewInfo] = NoDevice
        /\ pathOf' = [pathOf EXCEPT ![NewInfo] = s.path]
        /\ arg' = [arg EXCEPT ![Main] = NewInfo]
    BY <2>1, <2>2, NewInfoFree DEF CreateInfo, Snapshots
  <2>5. \A t \in Threads \ {Main} : pc'[t] = pc[t]
    BY <2>2 DEF CreateInfo
  <2> HIDE DEF s
  <2> QED BY <1>a, <2>4, <2>5, ThreadsDiffer DEF IInv, Types, InfoTypes, ThreadTypes, ArgInv, Selecting
<1>4. CASE AllFetched
  BY <1>4, ThreadsDiffer, <1>a
    DEF AllFetched, Goto, IInv, Types, InfoTypes, ThreadTypes, ArgInv, Selecting, infoVars
<1>5. CASE BeginFill
  BY <1>5, ThreadsDiffer, <1>a
    DEF BeginFill, Goto, IInv, Types, InfoTypes, ThreadTypes, ArgInv, Selecting, infoVars
<1>6. CASE Fill
  BY <1>6, ThreadsDiffer, <1>a
    DEF Fill, AddDevice, IInv, Types, InfoTypes, ThreadTypes, ArgInv, Selecting, infoVars
<1>7. CASE Filled
  BY <1>7, ThreadsDiffer, <1>a
    DEF Filled, Select, IInv, Types, InfoTypes, ThreadTypes, ArgInv, Selecting, infoVars
<1>8. CASE Subscribe
  BY <1>8, ThreadsDiffer, <1>a
    DEF Subscribe, Goto, IInv, Types, InfoTypes, ThreadTypes, ArgInv, Selecting, infoVars
<1>9. CASE HandleInterfacesAdded

  <2>1. Head(announced) \in Snapshots
    BY <1>9, HeadTailProperties DEF HandleInterfacesAdded, IInv, Types, BluezTypes
  <2>2. CreateInfo(Bus, Head(announced), "idle")
    BY <1>9 DEF HandleInterfacesAdded
  <2>3. UNCHANGED <<deviceVars, active, subscribed, todo, candidate, overlapped>>
    BY <1>9 DEF HandleInterfacesAdded
  <2> DEFINE s == Head(announced)
  <2>4. /\ s.path \in Devices /\ NewInfo \in Infos /\ pathOf[NewInfo] = NoDevice
        /\ pathOf' = [pathOf EXCEPT ![NewInfo] = s.path]
        /\ arg' = [arg EXCEPT ![Bus] = NewInfo]
    BY <2>1, <2>2, NewInfoFree DEF CreateInfo, Snapshots
  <2>5. \A t \in Threads \ {Bus} : pc'[t] = pc[t]
    BY <2>2 DEF CreateInfo
  <2> HIDE DEF s
  <2> QED BY <1>a, <2>4, <2>5, ThreadsDiffer DEF IInv, Types, InfoTypes, ThreadTypes, ArgInv, Selecting
<1>10. CASE HandleInterfacesRemoved

  <2> DEFINE d == Head(announced).path
  <2>1. d \in Devices
    <3>1. Head(announced) \in Snapshots
      BY <1>10, HeadTailProperties DEF HandleInterfacesRemoved, IInv, Types, BluezTypes
    <3> QED BY <3>1 DEF Snapshots
  <2>2. known[d] # NoInfo => known[d] \in Infos /\ pathOf[known[d]] # NoDevice
    BY <1>a, <2>1 DEF IInv, Types, ProgramTypes, PathInv
  <2>3. /\ pc' = [pc EXCEPT ![Bus] = IF known[d] = NoInfo THEN "idle" ELSE "stopListening"]
        /\ arg' = [arg EXCEPT ![Bus] = known[d]]
        /\ UNCHANGED pathOf
    BY <1>10 DEF HandleInterfacesRemoved, Goto, infoVars
  <2> HIDE DEF d
  <2> QED BY <2>2, <2>3, ThreadsDiffer DEF IInv, Types, ThreadTypes, ArgInv, Selecting
<1>11. CASE StopListening
  BY <1>11 DEF StopListening, Goto, IInv, Types, ArgInv, infoVars
<1>12. CASE OnDeviceRemoved
  BY <1>12, ThreadsDiffer, <1>a
    DEF OnDeviceRemoved, Select, Goto, IInv, Types, InfoTypes, ThreadTypes, ArgInv, Selecting,
        infoVars
<1>13. CASE Forget
  BY <1>13 DEF Forget, Goto, IInv, Types, ArgInv, infoVars
<1>14. ASSUME NEW t \in Threads, OnDeviceAdded(t) PROVE ArgInv'
  <2>1. pc' = [pc EXCEPT ![t] = resume[t]] /\ resume[t] \in {"create", "idle"}
    BY <1>14 DEF OnDeviceAdded, IInv, ResumeInv, Announced
  <2> QED BY <1>14, <2>1 DEF OnDeviceAdded, IInv, Types, ThreadTypes, ArgInv, Selecting, infoVars
<1>15. ASSUME NEW t \in Threads, RememberPrevious(t) PROVE ArgInv'
  BY <1>15, ThreadsDiffer, <1>a
    DEF RememberPrevious, Goto, IInv, Types, InfoTypes, ThreadTypes, ArgInv, Selecting, infoVars
<1>16. ASSUME NEW t \in Threads, ClearActive(t) PROVE ArgInv'
  BY <1>16, ThreadsDiffer, <1>a
    DEF ClearActive, Goto, IInv, Types, InfoTypes, ThreadTypes, ArgInv, Selecting, infoVars
<1>17. ASSUME NEW t \in Threads, ReadConnected(t) PROVE ArgInv'
  BY <1>17, ThreadsDiffer, <1>a
    DEF ReadConnected, Goto, IInv, Types, InfoTypes, ThreadTypes, ArgInv, Selecting, infoVars
<1>18. ASSUME NEW t \in Threads, AssignActive(t) PROVE ArgInv'
  <2>1. /\ pc' = [pc EXCEPT ![t] = resume[t]]
        /\ t # Bus => resume[t] \in {"subscribe", "idle"}
        /\ t = Bus => Selecting(t) /\ resume[t] = "forget"
    BY <1>18, ThreadsDiffer DEF AssignActive, IInv, ResumeInv, Selected, Selecting
  <2> QED BY <1>18, <2>1 DEF AssignActive, IInv, Types, ThreadTypes, ArgInv, Selecting, infoVars
<1>19. ASSUME NEW i \in Infos, ConnectedChanged(i) PROVE ArgInv'
  BY <1>19, ThreadsDiffer, <1>a
    DEF ConnectedChanged, Take, Select, IInv, Types, InfoTypes, ThreadTypes, ArgInv, Selecting
<1>20. ASSUME NEW i \in Infos, PairedChanged(i) PROVE ArgInv'
  <2> DEFINE k == known[pathOf[i]]
  <2>1. k # NoInfo => k \in Infos /\ pathOf[k] # NoDevice
    BY <1>20 DEF PairedChanged, Take, IInv, Types, InfoTypes, ProgramTypes, PathInv
  <2>2. \/ /\ k # NoInfo
           /\ arg' = [arg EXCEPT ![i] = k]
           /\ pc' = [pc EXCEPT ![i] = "deviceAdded"]
        \/ UNCHANGED <<arg, pc>>
    BY <1>20 DEF PairedChanged
  <2>3. UNCHANGED pathOf
    BY <1>20 DEF PairedChanged
  <2> HIDE DEF k
  <2> QED BY <2>1, <2>2, <2>3, ThreadsDiffer DEF IInv, Types, ThreadTypes, ArgInv, Selecting
<1>21. ASSUME NEW d \in Devices, Appear(d) PROVE ArgInv'
  BY <1>21, ThreadsDiffer, <1>a
    DEF Appear, Event, IInv, Types, InfoTypes, ThreadTypes, ArgInv, Selecting, infoVars
<1>22. ASSUME NEW d \in Devices, Vanish(d) PROVE ArgInv'
  BY <1>22, ThreadsDiffer, <1>a
    DEF Vanish, Event, IInv, Types, InfoTypes, ThreadTypes, ArgInv, Selecting, infoVars
<1>23. ASSUME NEW d \in Devices, ConnectedFlips(d) PROVE ArgInv'
  BY <1>23 DEF ConnectedFlips, IInv, Types, ArgInv, Selecting
<1>24. ASSUME NEW d \in Devices, Pairs(d) PROVE ArgInv'
  BY <1>24 DEF Pairs, IInv, Types, ArgInv, Selecting
<1>25. CASE UNCHANGED vars
  BY <1>25, ThreadsDiffer, <1>a
    DEF vars, IInv, Types, InfoTypes, ThreadTypes, ArgInv, Selecting, infoVars
<1>26. CASE RemovalBreaksOff
  BY <1>26, ThreadsDiffer
    DEF RemovalBreaksOff, Goto, IInv, Types, InfoTypes, ThreadTypes, ArgInv, Selecting, infoVars
<1> QED
  BY <1>1, <1>2, <1>3, <1>4, <1>5, <1>6, <1>7, <1>8, <1>9, <1>10, <1>11, <1>12, <1>13, <1>14,
     <1>15, <1>16, <1>17, <1>18, <1>19, <1>20, <1>21, <1>22, <1>23, <1>24, <1>25, <1>26
    DEF Next, Startup, BusStep, TrySelectNewActiveDevice

\* Nobody selects before main fills the map.
LEMMA EarlyStep == IInv /\ [Next]_vars => EarlyInv'
<1> SUFFICES ASSUME IInv, [Next]_vars PROVE EarlyInv'
  OBVIOUS
<1>1. CASE FetchDevices
  BY <1>1, ThreadsDiffer
    DEF FetchDevices, Goto, IInv, Types, EarlyInv, Early, Selecting, deviceVars
<1>2. CASE ClearMaps
  BY <1>2, ThreadsDiffer DEF ClearMaps, Goto, IInv, Types, EarlyInv, Early, Selecting, deviceVars
<1>3. CASE CreateFetched

  <2> DEFINE s == CHOOSE x \in todo : \A y \in todo : x.path <= y.path
  <2>1. s \in Snapshots
    BY <1>3, FetchedIsSnapshot DEF CreateFetched, IInv, Types, TodoTypes, Early
  <2>2. CreateInfo(Main, s, "create")
    BY <1>3 DEF CreateFetched
  <2>3. todo' \subseteq todo /\ UNCHANGED <<deviceVars, active, subscribed, candidate, overlapped>>
    BY <1>3 DEF CreateFetched
  <2> HIDE DEF s

  <2> QED BY <1>3, <2>2, <2>3, ThreadsDiffer
      DEF CreateFetched, CreateInfo, deviceVars, IInv, Types, ThreadTypes, EarlyInv, Early,
          Selecting
<1>4. CASE AllFetched
  BY <1>4, ThreadsDiffer DEF AllFetched, Goto, IInv, Types, EarlyInv, Early, Selecting, deviceVars
<1>5. CASE BeginFill
  BY <1>5, ThreadsDiffer DEF BeginFill, Goto, IInv, Types, EarlyInv, Early, Selecting
<1>6. CASE Fill
  BY <1>6, ThreadsDiffer DEF Fill, EarlyInv, Early, Selecting
<1>7. CASE Filled
  BY <1>7, ThreadsDiffer DEF Filled, Select, IInv, Types, EarlyInv, Early, Selecting
<1>8. CASE Subscribe
  BY <1>8, ThreadsDiffer DEF Subscribe, Goto, IInv, Types, EarlyInv, Early, Selecting
<1>9. CASE HandleInterfacesAdded

  <2>1. Head(announced) \in Snapshots
    BY <1>9, HeadTailProperties DEF HandleInterfacesAdded, IInv, Types, BluezTypes
  <2>2. CreateInfo(Bus, Head(announced), "idle")
    BY <1>9 DEF HandleInterfacesAdded
  <2>3. UNCHANGED <<deviceVars, active, subscribed, todo, candidate, overlapped>>
    BY <1>9 DEF HandleInterfacesAdded

  <2> QED BY <1>9, <2>2, <2>3, ThreadsDiffer
      DEF HandleInterfacesAdded, CreateInfo, deviceVars, IInv, Types, ThreadTypes, EarlyInv,
          Early, Selecting
<1>10. CASE HandleInterfacesRemoved
  BY <1>10, ThreadsDiffer
    DEF HandleInterfacesRemoved, Goto, IInv, Types, EarlyInv, Early, Selecting, deviceVars
<1>11. CASE StopListening
  BY <1>11, ThreadsDiffer
    DEF StopListening, Goto, IInv, Types, EarlyInv, Early, Selecting, deviceVars
<1>12. CASE OnDeviceRemoved
  BY <1>12, ThreadsDiffer
    DEF OnDeviceRemoved, Select, Goto, IInv, Types, ThreadTypes, ProgramTypes, PlaceInv, EarlyInv,
        Early, Selecting, deviceVars
<1>13. CASE Forget
  BY <1>13, ThreadsDiffer DEF Forget, Goto, IInv, Types, EarlyInv, Early, Selecting, deviceVars
<1>14. ASSUME NEW t \in Threads, OnDeviceAdded(t) PROVE EarlyInv'
  BY <1>14, ThreadsDiffer
    DEF OnDeviceAdded, IInv, Types, ThreadTypes, ResumeInv, Announced, EarlyInv, Early, Selecting,
        deviceVars
<1>15. ASSUME NEW t \in Threads, RememberPrevious(t) PROVE EarlyInv'
  BY <1>15, ThreadsDiffer DEF RememberPrevious, Goto, IInv, Types, EarlyInv, Early, Selecting
<1>16. ASSUME NEW t \in Threads, ClearActive(t) PROVE EarlyInv'
  BY <1>16, ThreadsDiffer DEF ClearActive, Goto, IInv, Types, EarlyInv, Early, Selecting
<1>17. ASSUME NEW t \in Threads, ReadConnected(t) PROVE EarlyInv'
  BY <1>17, ThreadsDiffer DEF ReadConnected, Goto, IInv, Types, EarlyInv, Early, Selecting
<1>18. ASSUME NEW t \in Threads, AssignActive(t) PROVE EarlyInv'
  BY <1>18, ThreadsDiffer
    DEF AssignActive, deviceVars, IInv, Types, ThreadTypes, ResumeInv, Selected, EarlyInv, Early,
        Selecting
<1>19. ASSUME NEW i \in Infos, ConnectedChanged(i) PROVE EarlyInv'
  <2>1. pathOf[i] \in Devices /\ i # NoInfo
    BY <1>19, FetcherAssumption DEF ConnectedChanged, Take, IInv, Types, InfoTypes, PathInv
  <2> QED BY <1>19, <2>1, ThreadsDiffer
      DEF ConnectedChanged, Select, IInv, Types, ThreadTypes, EarlyInv, Early, Selecting
<1>20. ASSUME NEW i \in Infos, PairedChanged(i) PROVE EarlyInv'
  BY <1>20, ThreadsDiffer
    DEF PairedChanged, Take, IInv, Types, ThreadTypes, ProgramTypes, PlaceInv, EarlyInv, Early,
        Selecting, deviceVars
<1>21. ASSUME NEW d \in Devices, Appear(d) PROVE EarlyInv'
  BY <1>21, ThreadsDiffer DEF Appear, Event, IInv, Types, EarlyInv, Early, Selecting, deviceVars
<1>22. ASSUME NEW d \in Devices, Vanish(d) PROVE EarlyInv'
  BY <1>22, ThreadsDiffer DEF Vanish, Event, IInv, Types, EarlyInv, Early, Selecting, deviceVars
<1>23. ASSUME NEW d \in Devices, ConnectedFlips(d) PROVE EarlyInv'
  BY <1>23, ThreadsDiffer
    DEF ConnectedFlips, Event, Signal, IInv, PlaceInv, EarlyInv, Early, Selecting, deviceVars
<1>24. ASSUME NEW d \in Devices, Pairs(d) PROVE EarlyInv'
  BY <1>24, ThreadsDiffer
    DEF Pairs, Event, Signal, IInv, PlaceInv, EarlyInv, Early, Selecting, deviceVars
<1>25. CASE UNCHANGED vars
  BY <1>25 DEF IInv, EarlyInv, Early, Selecting, vars, deviceVars
<1>26. CASE RemovalBreaksOff
  BY <1>26, ThreadsDiffer
    DEF RemovalBreaksOff, Goto, IInv, Types, ThreadTypes, ProgramTypes, PlaceInv, EarlyInv, Early,
        Selecting, deviceVars
<1> QED
  BY <1>1, <1>2, <1>3, <1>4, <1>5, <1>6, <1>7, <1>8, <1>9, <1>10, <1>11, <1>12, <1>13, <1>14,
     <1>15, <1>16, <1>17, <1>18, <1>19, <1>20, <1>21, <1>22, <1>23, <1>24, <1>25, <1>26
    DEF Next, Startup, BusStep, TrySelectNewActiveDevice

\* A second selection at the same time is noted.
LEMMA OneSelectsStep == IInv /\ [Next]_vars => OneSelects'
<1> SUFFICES ASSUME IInv, [Next]_vars PROVE OneSelects'
  OBVIOUS
<1>1. CASE FetchDevices
  BY <1>1, ThreadsDiffer
    DEF FetchDevices, Goto, IInv, Types, Selected, OneSelects, Selecting, selectVars
<1>2. CASE ClearMaps
  BY <1>2, ThreadsDiffer
    DEF ClearMaps, Goto, IInv, Types, Selected, OneSelects, Selecting, selectVars
<1>3. CASE CreateFetched

  <2> DEFINE s == CHOOSE x \in todo : \A y \in todo : x.path <= y.path
  <2>1. s \in Snapshots
    BY <1>3, FetchedIsSnapshot DEF CreateFetched, IInv, Types, TodoTypes, Early
  <2>2. CreateInfo(Main, s, "create")
    BY <1>3 DEF CreateFetched
  <2>3. todo' \subseteq todo /\ UNCHANGED <<deviceVars, active, subscribed, candidate, overlapped>>
    BY <1>3 DEF CreateFetched
  <2> HIDE DEF s

  <2> QED BY <1>3, <2>2, <2>3, ThreadsDiffer
      DEF CreateFetched, CreateInfo, IInv, Types, ThreadTypes, OneSelects, Selecting
<1>4. CASE AllFetched
  BY <1>4, ThreadsDiffer
    DEF AllFetched, Goto, IInv, Types, Selected, OneSelects, Selecting, selectVars
<1>5. CASE BeginFill
  BY <1>5, ThreadsDiffer
    DEF BeginFill, Goto, IInv, Types, Selected, OneSelects, Selecting, selectVars
<1>6. CASE Fill
  BY <1>6, ThreadsDiffer
    DEF Fill, AddDevice, IInv, Types, Selected, OneSelects, Selecting, selectVars
<1>7. CASE Filled
  BY <1>7, ThreadsDiffer
    DEF Filled, Select, IInv, Types, ThreadTypes, ResumeInv, Announced, Selected, OneSelects,
        Selecting, selectVars
<1>8. CASE Subscribe
  BY <1>8, ThreadsDiffer
    DEF Subscribe, Goto, IInv, Types, Selected, OneSelects, Selecting, selectVars
<1>9. CASE HandleInterfacesAdded

  <2>1. Head(announced) \in Snapshots
    BY <1>9, HeadTailProperties DEF HandleInterfacesAdded, IInv, Types, BluezTypes
  <2>2. CreateInfo(Bus, Head(announced), "idle")
    BY <1>9 DEF HandleInterfacesAdded
  <2>3. UNCHANGED <<deviceVars, active, subscribed, todo, candidate, overlapped>>
    BY <1>9 DEF HandleInterfacesAdded

  <2> QED BY <1>9, <2>2, <2>3, ThreadsDiffer
      DEF HandleInterfacesAdded, CreateInfo, IInv, Types, ThreadTypes, OneSelects, Selecting
<1>10. CASE HandleInterfacesRemoved
  BY <1>10, ThreadsDiffer
    DEF HandleInterfacesRemoved, Goto, IInv, Types, Selected, OneSelects, Selecting, selectVars
<1>11. CASE StopListening
  BY <1>11, ThreadsDiffer
    DEF StopListening, Goto, IInv, Types, Selected, OneSelects, Selecting, selectVars
<1>12. CASE OnDeviceRemoved

  <2>1. \/ /\ pc' = [pc EXCEPT ![Bus] = "previous"]
           /\ overlapped' = (overlapped \/ \E u \in Threads : Selecting(u))
        \/ /\ overlapped' = overlapped
           /\ \A u \in Threads : Selecting(u)' => Selecting(u)
    BY <1>12 DEF OnDeviceRemoved, Select, Goto, IInv, Types, ThreadTypes, Selecting
  <2> QED BY <2>1, ThreadsDiffer DEF IInv, Types, ThreadTypes, OneSelects, Selecting
<1>13. CASE Forget
  BY <1>13, ThreadsDiffer
    DEF Forget, Goto, IInv, Types, Selected, OneSelects, Selecting, selectVars
<1>14. ASSUME NEW t \in Threads, OnDeviceAdded(t) PROVE OneSelects'
  BY <1>14, ThreadsDiffer
    DEF OnDeviceAdded, AddDevice, IInv, Types, ThreadTypes, ResumeInv, Announced, Selected,
        OneSelects, Selecting, selectVars
<1>15. ASSUME NEW t \in Threads, RememberPrevious(t) PROVE OneSelects'
  BY <1>15, ThreadsDiffer DEF RememberPrevious, Goto, IInv, Types, Selected, OneSelects, Selecting
<1>16. ASSUME NEW t \in Threads, ClearActive(t) PROVE OneSelects'
  BY <1>16, ThreadsDiffer
    DEF ClearActive, Goto, IInv, Types, Selected, OneSelects, Selecting, selectVars
<1>17. ASSUME NEW t \in Threads, ReadConnected(t) PROVE OneSelects'
  BY <1>17, ThreadsDiffer DEF ReadConnected, Goto, IInv, Types, Selected, OneSelects, Selecting
<1>18. ASSUME NEW t \in Threads, AssignActive(t) PROVE OneSelects'
  BY <1>18, ThreadsDiffer
    DEF AssignActive, IInv, Types, ThreadTypes, OneSelects, Selecting, selectVars
<1>19. ASSUME NEW i \in Infos, ConnectedChanged(i) PROVE OneSelects'
  <2>1. \/ /\ pc' = [pc EXCEPT ![i] = "previous"]
           /\ overlapped' = (overlapped \/ \E u \in Threads : Selecting(u))
        \/ /\ overlapped' = overlapped
           /\ \A u \in Threads : Selecting(u)' => Selecting(u)
    BY <1>19 DEF ConnectedChanged, Select, Selecting
  <2> QED BY <2>1, ThreadsDiffer DEF IInv, Types, ThreadTypes, OneSelects, Selecting
<1>20. ASSUME NEW i \in Infos, PairedChanged(i) PROVE OneSelects'
  BY <1>20, ThreadsDiffer
    DEF PairedChanged, Take, IInv, Types, ThreadTypes, ResumeInv, Announced, Selected, OneSelects,
        Selecting
<1>21. ASSUME NEW d \in Devices, Appear(d) PROVE OneSelects'
  BY <1>21, ThreadsDiffer
    DEF Appear, Event, IInv, Types, Selected, OneSelects, Selecting, selectVars
<1>22. ASSUME NEW d \in Devices, Vanish(d) PROVE OneSelects'
  BY <1>22, ThreadsDiffer
    DEF Vanish, Event, IInv, Types, Selected, OneSelects, Selecting, selectVars
<1>23. ASSUME NEW d \in Devices, ConnectedFlips(d) PROVE OneSelects'
  BY <1>23, ThreadsDiffer
    DEF ConnectedFlips, Event, Signal, IInv, Announced, Selected, OneSelects, Selecting,
        selectVars
<1>24. ASSUME NEW d \in Devices, Pairs(d) PROVE OneSelects'
  BY <1>24, ThreadsDiffer
    DEF Pairs, Event, Signal, IInv, Announced, Selected, OneSelects, Selecting, selectVars
<1>25. CASE UNCHANGED vars
  BY <1>25, ThreadsDiffer DEF vars, IInv, Types, ThreadTypes, OneSelects, Selecting, selectVars
<1>26. CASE RemovalBreaksOff
  BY <1>26, ThreadsDiffer
    DEF RemovalBreaksOff, Goto, IInv, Types, ThreadTypes, Selecting, OneSelects
<1> QED
  BY <1>1, <1>2, <1>3, <1>4, <1>5, <1>6, <1>7, <1>8, <1>9, <1>10, <1>11, <1>12, <1>13, <1>14,
     <1>15, <1>16, <1>17, <1>18, <1>19, <1>20, <1>21, <1>22, <1>23, <1>24, <1>25, <1>26
    DEF Next, Startup, BusStep, TrySelectNewActiveDevice

\* An active device that is no good is looked at again.
LEMMA ActiveStep == IInv /\ [Next]_vars => ActiveInv'
<1> SUFFICES ASSUME IInv, [Next]_vars PROVE ActiveInv'
  OBVIOUS
<1>1. CASE FetchDevices
  BY <1>1, ThreadsDiffer
    DEF FetchDevices, Goto, IInv, Types, ThreadTypes, ProgramTypes, ActiveInv, deviceVars,
        selectVars, Good
<1>2. CASE ClearMaps
  BY <1>2, ThreadsDiffer
    DEF ClearMaps, Goto, IInv, Types, ThreadTypes, ProgramTypes, ActiveInv, deviceVars,
        selectVars, Good
<1>3. CASE CreateFetched

  <2> DEFINE s == CHOOSE x \in todo : \A y \in todo : x.path <= y.path
  <2>1. s \in Snapshots
    BY <1>3, FetchedIsSnapshot DEF CreateFetched, IInv, Types, TodoTypes, Early
  <2>2. CreateInfo(Main, s, "create")
    BY <1>3 DEF CreateFetched
  <2>3. todo' \subseteq todo /\ UNCHANGED <<deviceVars, active, subscribed, candidate, overlapped>>
    BY <1>3 DEF CreateFetched
  <2> HIDE DEF s

  <2> QED BY <1>3, <2>2, <2>3, ThreadsDiffer
      DEF CreateFetched, CreateInfo, IInv, Types, ThreadTypes, ActiveInv, Good, deviceVars
<1>4. CASE AllFetched
  BY <1>4, ThreadsDiffer
    DEF AllFetched, Goto, IInv, Types, ThreadTypes, ProgramTypes, ActiveInv, deviceVars,
        selectVars, Good
<1>5. CASE BeginFill
  BY <1>5 DEF BeginFill, ActiveInv, Good
<1>6. CASE Fill
  BY <1>6, ThreadsDiffer
    DEF Fill, AddDevice, IInv, Types, ThreadTypes, ProgramTypes, ActiveInv, deviceVars,
        selectVars, Good
<1>7. CASE Filled
  BY <1>7 DEF Filled, Select, IInv, Types, ThreadTypes, ActiveInv, deviceVars, Good
<1>8. CASE Subscribe
  BY <1>8, ThreadsDiffer
    DEF Subscribe, Goto, IInv, Types, ThreadTypes, ProgramTypes, ActiveInv, deviceVars,
        selectVars, Good
<1>9. CASE HandleInterfacesAdded

  <2>1. Head(announced) \in Snapshots
    BY <1>9, HeadTailProperties DEF HandleInterfacesAdded, IInv, Types, BluezTypes
  <2>2. CreateInfo(Bus, Head(announced), "idle")
    BY <1>9 DEF HandleInterfacesAdded
  <2>3. UNCHANGED <<deviceVars, active, subscribed, todo, candidate, overlapped>>
    BY <1>9 DEF HandleInterfacesAdded

  <2> QED BY <1>9, <2>2, <2>3, ThreadsDiffer
      DEF HandleInterfacesAdded, CreateInfo, IInv, Types, ThreadTypes, ActiveInv, Good, deviceVars
<1>10. CASE HandleInterfacesRemoved
  BY <1>10, ThreadsDiffer
    DEF HandleInterfacesRemoved, Goto, IInv, Types, ThreadTypes, ProgramTypes, ActiveInv,
        deviceVars, selectVars, Good
<1>11. CASE StopListening
  BY <1>11, ThreadsDiffer
    DEF StopListening, Goto, IInv, Types, ThreadTypes, ProgramTypes, ActiveInv, deviceVars,
        selectVars, Good
<1>12. CASE OnDeviceRemoved
  BY <1>12, ThreadsDiffer
    DEF OnDeviceRemoved, Select, Goto, IInv, Types, ThreadTypes, ActiveInv, selectVars, Good
<1>13. CASE Forget
  BY <1>13, ThreadsDiffer
    DEF Forget, Goto, IInv, Types, ThreadTypes, ProgramTypes, ActiveInv, deviceVars, selectVars,
        Good
<1>14. ASSUME NEW t \in Threads, OnDeviceAdded(t) PROVE ActiveInv'
  BY <1>14, ThreadsDiffer
    DEF OnDeviceAdded, AddDevice, IInv, Types, ThreadTypes, ProgramTypes, ActiveInv, deviceVars,
        selectVars, Good
<1>15. ASSUME NEW t \in Threads, RememberPrevious(t) PROVE ActiveInv'
  BY <1>15 DEF RememberPrevious, Goto, ActiveInv, Good
<1>16. ASSUME NEW t \in Threads, ClearActive(t) PROVE ActiveInv'
  BY <1>16 DEF ClearActive, ActiveInv, deviceVars, Good
<1>17. ASSUME NEW t \in Threads, ReadConnected(t) PROVE ActiveInv'
  BY <1>17 DEF ReadConnected, Goto, IInv, ActiveInv, Good, deviceVars
<1>18. ASSUME NEW t \in Threads, AssignActive(t) PROVE ActiveInv'
  BY <1>18, ThreadsDiffer
    DEF AssignActive, IInv, Types, ThreadTypes, ActiveInv, CandidateInv, OneSelects, Selecting,
        Good, deviceVars
<1>19. ASSUME NEW i \in Infos, ConnectedChanged(i) PROVE ActiveInv'
  BY <1>19, ThreadsDiffer
    DEF ConnectedChanged, Take, Select, IInv, Types, ThreadTypes, ActiveInv, Good
<1>20. ASSUME NEW i \in Infos, PairedChanged(i) PROVE ActiveInv'
  BY <1>20, ThreadsDiffer
    DEF PairedChanged, Take, IInv, Types, ThreadTypes, ProgramTypes, ActiveInv, deviceVars,
        selectVars, Good
<1>21. ASSUME NEW d \in Devices, Appear(d) PROVE ActiveInv'
  BY <1>21, ThreadsDiffer
    DEF Appear, Event, IInv, Types, ThreadTypes, ProgramTypes, ActiveInv, deviceVars, selectVars,
        Good
<1>22. ASSUME NEW d \in Devices, Vanish(d) PROVE ActiveInv'
  BY <1>22, ThreadsDiffer
    DEF Vanish, Event, IInv, Types, ThreadTypes, ProgramTypes, ActiveInv, deviceVars, selectVars,
        Good
<1>23. ASSUME NEW d \in Devices, ConnectedFlips(d) PROVE ActiveInv'
  BY <1>23, ThreadsDiffer
    DEF ConnectedFlips, Event, Signal, IInv, ActiveInv, deviceVars, selectVars, Good
<1>24. ASSUME NEW d \in Devices, Pairs(d) PROVE ActiveInv'
  BY <1>24, ThreadsDiffer DEF Pairs, Event, Signal, IInv, ActiveInv, deviceVars, selectVars, Good
<1>25. CASE UNCHANGED vars
  BY <1>25, ThreadsDiffer DEF vars, IInv, ProgramTypes, ActiveInv, deviceVars, selectVars, Good
<1>26. CASE RemovalBreaksOff
  BY <1>26, ThreadsDiffer
    DEF RemovalBreaksOff, Goto, IInv, Types, ThreadTypes, ActiveInv, selectVars, Good
<1> QED
  BY <1>1, <1>2, <1>3, <1>4, <1>5, <1>6, <1>7, <1>8, <1>9, <1>10, <1>11, <1>12, <1>13, <1>14,
     <1>15, <1>16, <1>17, <1>18, <1>19, <1>20, <1>21, <1>22, <1>23, <1>24, <1>25, <1>26
    DEF Next, Startup, BusStep, TrySelectNewActiveDevice

\* A candidate stays a good one, unless another selection begins.
LEMMA CandidateStep == IInv /\ [Next]_vars => CandidateInv'
<1> SUFFICES ASSUME IInv, [Next]_vars PROVE CandidateInv'
  OBVIOUS
<1>1. CASE FetchDevices
  BY <1>1, ThreadsDiffer
    DEF FetchDevices, Goto, IInv, Types, ThreadTypes, ProgramTypes, CandidateInv, deviceVars,
        selectVars, Good
<1>2. CASE ClearMaps
  BY <1>2, ThreadsDiffer
    DEF ClearMaps, Goto, IInv, Types, ThreadTypes, ProgramTypes, CandidateInv, deviceVars,
        selectVars, Good
<1>3. CASE CreateFetched

  <2> DEFINE s == CHOOSE x \in todo : \A y \in todo : x.path <= y.path
  <2>1. s \in Snapshots
    BY <1>3, FetchedIsSnapshot DEF CreateFetched, IInv, Types, TodoTypes, Early
  <2>2. CreateInfo(Main, s, "create")
    BY <1>3 DEF CreateFetched
  <2>3. todo' \subseteq todo /\ UNCHANGED <<deviceVars, active, subscribed, candidate, overlapped>>
    BY <1>3 DEF CreateFetched
  <2> HIDE DEF s

  <2> QED BY <1>3, <2>2, <2>3, ThreadsDiffer
      DEF CreateFetched, CreateInfo, IInv, Types, ThreadTypes, CandidateInv, Good, deviceVars
<1>4. CASE AllFetched
  BY <1>4, ThreadsDiffer
    DEF AllFetched, Goto, IInv, Types, ThreadTypes, ProgramTypes, CandidateInv, deviceVars,
        selectVars, Good
<1>5. CASE BeginFill
  BY <1>5, ThreadsDiffer
    DEF BeginFill, Goto, IInv, Types, ThreadTypes, CandidateInv, EarlyInv, Early, Selecting,
        selectVars
<1>6. CASE Fill
  BY <1>6, ThreadsDiffer
    DEF Fill, AddDevice, IInv, Types, ThreadTypes, ProgramTypes, CandidateInv, deviceVars,
        selectVars, Good
<1>7. CASE Filled
  BY <1>7 DEF Filled, Select, IInv, Types, ThreadTypes, CandidateInv, deviceVars, Good
<1>8. CASE Subscribe
  BY <1>8, ThreadsDiffer
    DEF Subscribe, Goto, IInv, Types, ThreadTypes, ProgramTypes, CandidateInv, deviceVars,
        selectVars, Good
<1>9. CASE HandleInterfacesAdded

  <2>1. Head(announced) \in Snapshots
    BY <1>9, HeadTailProperties DEF HandleInterfacesAdded, IInv, Types, BluezTypes
  <2>2. CreateInfo(Bus, Head(announced), "idle")
    BY <1>9 DEF HandleInterfacesAdded
  <2>3. UNCHANGED <<deviceVars, active, subscribed, todo, candidate, overlapped>>
    BY <1>9 DEF HandleInterfacesAdded

  <2> QED BY <1>9, <2>2, <2>3, ThreadsDiffer
      DEF HandleInterfacesAdded, CreateInfo, IInv, Types, ThreadTypes, CandidateInv, Good,
          deviceVars
<1>10. CASE HandleInterfacesRemoved
  BY <1>10, ThreadsDiffer
    DEF HandleInterfacesRemoved, Goto, IInv, Types, ThreadTypes, ProgramTypes, CandidateInv,
        deviceVars, selectVars, Good
<1>11. CASE StopListening
  BY <1>11, ThreadsDiffer
    DEF StopListening, Goto, IInv, Types, ThreadTypes, ProgramTypes, CandidateInv, deviceVars,
        selectVars, Good
<1>12. CASE OnDeviceRemoved
  BY <1>12, ThreadsDiffer
    DEF OnDeviceRemoved, Select, Goto, IInv, Types, ThreadTypes, CandidateInv, Selecting, Good
<1>13. CASE Forget
  BY <1>13, ThreadsDiffer
    DEF Forget, Goto, IInv, Types, ThreadTypes, ProgramTypes, CandidateInv, deviceVars,
        selectVars, Good
<1>14. ASSUME NEW t \in Threads, OnDeviceAdded(t) PROVE CandidateInv'
  <2>1. \A d \in Devices : Good(d) => Good(d)'
    BY <1>14 DEF OnDeviceAdded, AddDevice, deviceVars, IInv, Types, ProgramTypes, Good
  <2>2. pc' = [pc EXCEPT ![t] = resume[t]] /\ resume[t] # "assign"
    BY <1>14 DEF OnDeviceAdded, IInv, ResumeInv, Announced
  <2>3. UNCHANGED <<candidate, overlapped>>
    BY <1>14 DEF OnDeviceAdded, selectVars
  <2> QED BY <2>1, <2>2, <2>3 DEF IInv, Types, ThreadTypes, CandidateInv
<1>15. ASSUME NEW t \in Threads, RememberPrevious(t) PROVE CandidateInv'
  BY <1>15 DEF RememberPrevious, Goto, IInv, CandidateInv, deviceVars, Good
<1>16. ASSUME NEW t \in Threads, ClearActive(t) PROVE CandidateInv'
  BY <1>16, ThreadsDiffer
    DEF ClearActive, Goto, IInv, Types, ThreadTypes, ProgramTypes, CandidateInv, deviceVars,
        selectVars, Good
<1>17. ASSUME NEW t \in Threads, ReadConnected(t) PROVE CandidateInv'
  <2> DEFINE up == {d \in Devices : devicesMap[d] # NoInfo /\ connected[d]}
             next == IF active # NoDevice \/ up = {} THEN NoDevice
                     ELSE CHOOSE d \in up : \A e \in up : e <= d
  <2>1. next = NoDevice \/ Good(next)
    <3>1. CASE up = {}
      BY <3>1
    <3>2. CASE up # {}
      <4>1. up \subseteq Nat /\ IsFiniteSet(up)
        BY FetcherAssumption, FS_Subset
      <4>2. \E m \in up : \A e \in up : e <= m
        <5> HIDE DEF up
        <5> QED BY <3>2, <4>1, Greatest
      <4> QED BY <4>2 DEF Good
    <3> QED BY <3>1, <3>2
  <2>2. candidate' = [candidate EXCEPT ![t] = next]
    BY <1>17 DEF ReadConnected
  <2> HIDE DEF next
  <2> QED BY <1>17, <2>1, <2>2
      DEF ReadConnected, Goto, IInv, Types, ThreadTypes, CandidateInv, Good, deviceVars
<1>18. ASSUME NEW t \in Threads, AssignActive(t) PROVE CandidateInv'
  BY <1>18, ThreadsDiffer
    DEF AssignActive, IInv, ProgramTypes, CandidateInv, deviceVars, selectVars, Good
<1>19. ASSUME NEW i \in Infos, ConnectedChanged(i) PROVE CandidateInv'
  <2>1. \/ /\ pc' = [pc EXCEPT ![i] = "previous"]
           /\ overlapped' = (overlapped \/ \E u \in Threads : Selecting(u))
        \/ UNCHANGED <<connected, overlapped, pc>>
    BY <1>19 DEF ConnectedChanged, Select
  <2>2. UNCHANGED <<devicesMap, candidate>>
    BY <1>19 DEF ConnectedChanged
  <2> QED BY <2>1, <2>2, ThreadsDiffer DEF IInv, Types, ThreadTypes, CandidateInv, Selecting, Good
<1>20. ASSUME NEW i \in Infos, PairedChanged(i) PROVE CandidateInv'
  BY <1>20, ThreadsDiffer
    DEF PairedChanged, Take, IInv, Types, ThreadTypes, ProgramTypes, CandidateInv, deviceVars,
        selectVars, Good
<1>21. ASSUME NEW d \in Devices, Appear(d) PROVE CandidateInv'
  BY <1>21, ThreadsDiffer
    DEF Appear, Event, IInv, Types, ThreadTypes, ProgramTypes, CandidateInv, deviceVars,
        selectVars, Good
<1>22. ASSUME NEW d \in Devices, Vanish(d) PROVE CandidateInv'
  BY <1>22, ThreadsDiffer
    DEF Vanish, Event, IInv, Types, ThreadTypes, ProgramTypes, CandidateInv, deviceVars,
        selectVars, Good
<1>23. ASSUME NEW d \in Devices, ConnectedFlips(d) PROVE CandidateInv'
  BY <1>23, ThreadsDiffer
    DEF ConnectedFlips, Event, Signal, IInv, CandidateInv, deviceVars, selectVars, Good
<1>24. ASSUME NEW d \in Devices, Pairs(d) PROVE CandidateInv'
  BY <1>24, ThreadsDiffer
    DEF Pairs, Event, Signal, IInv, CandidateInv, deviceVars, selectVars, Good
<1>25. CASE UNCHANGED vars
  BY <1>25, ThreadsDiffer DEF vars, IInv, ProgramTypes, CandidateInv, deviceVars, selectVars, Good
<1>26. CASE RemovalBreaksOff
  BY <1>26, ThreadsDiffer
    DEF RemovalBreaksOff, Goto, IInv, Types, ThreadTypes, CandidateInv, Selecting, Good
<1> QED
  BY <1>1, <1>2, <1>3, <1>4, <1>5, <1>6, <1>7, <1>8, <1>9, <1>10, <1>11, <1>12, <1>13, <1>14,
     <1>15, <1>16, <1>17, <1>18, <1>19, <1>20, <1>21, <1>22, <1>23, <1>24, <1>25, <1>26
    DEF Next, Startup, BusStep, TrySelectNewActiveDevice

\* Nothing has happened at first.
LEMMA InitIInv == Init => IInv
<1> SUFFICES ASSUME Init PROVE IInv
  OBVIOUS
<1>1. Types
  <2>1. BluezTypes /\ InfoTypes
    BY EmptySeq DEF Init, BluezTypes, InfoTypes
  <2>2. ProgramTypes /\ ThreadTypes
    BY DEF Init, ProgramTypes, ThreadTypes, Pcs
  <2>3. TodoTypes /\ PathInv /\ ArgInv
    <3>1. TodoTypes /\ PathInv
      BY DEF Init, TodoTypes, PathInv
    <3>2. ArgInv
      BY DEF Init, ArgInv, Selecting
    <3> QED BY <3>1, <3>2
  <2> QED BY <2>1, <2>2, <2>3 DEF Types
<1>2. ResumeInv /\ PlaceInv /\ EarlyInv
  BY DEF Init, ResumeInv, PlaceInv, EarlyInv, Selecting
<1>3. OneSelects /\ ActiveInv /\ CandidateInv
  BY DEF Init, OneSelects, ActiveInv, CandidateInv, Selecting
<1> QED BY <1>1, <1>2, <1>3 DEF IInv

\* Whatever the order in which devices come, connect, pair and go, the invariant holds.
THEOREM Invariance == Spec => []IInv
<1>1. IInv /\ [Next]_vars => IInv'
  BY BluezTypesStep, InfoTypesStep, ProgramTypesStep, ThreadTypesStep, TodoTypesStep, PathStep,
     ArgStep, ResumeStep, PlaceStep, EarlyStep, OneSelectsStep, ActiveStep, CandidateStep
    DEF IInv, Types
<1> QED BY InitIInv, <1>1, PTL DEF Spec

\* The active device is one of the program's, and connected (api-reference.md:296), whenever
\* every callback has been handled, unless two threads have been choosing it at the same time, or
\* a failed start of the scan has kept one from it.
THEOREM ActiveIsTrue == Spec => []ActiveTrue
<1>1. IInv => ActiveTrue
  BY DEF IInv, ActiveInv, Good, ActiveTrue, Rest, Started
<1> QED BY Invariance, <1>1, PTL

-----------------------------------------------------------------------------
(***************************************************************************)
(* What holds of a device that nobody has missed a change of               *)
(***************************************************************************)
Heard == Devices \ unheard

\* The "bus" thread takes an object down; its proxy is still there at first.
Removing == pc[Bus] = "stopListening" \/ pc[Bus] \in {"eraseDevice", "forget"} \/ Selecting(Bus)
Stopped == Removing /\ pc[Bus] # "stopListening"
Erased == Stopped /\ pc[Bus] # "eraseDevice"

\* The program knows the device, and is not taking it down.
Here(d) == known[d] # NoInfo /\ ~(Removing /\ arg[Bus] = known[d])

\* Main has made an object of every device it has fetched.
Made == pc[Main] \notin {"idle", "clearMaps", "create", "deviceAdded"}

Of(d, k) == k \in 1..Len(announced) /\ announced[k].path = d
FirstOf(d, k) == Of(d, k) /\ \A j \in 1..(k - 1) : announced[j].path # d
LastOf(d, k) == Of(d, k) /\ \A j \in (k + 1)..Len(announced) : announced[j].path # d
Successive(d, j, k) ==
    /\ Of(d, j) /\ Of(d, k) /\ j < k
    /\ \A m \in (j + 1)..(k - 1) : announced[m].path # d

PresentInv == \A d \in Devices : bConnected[d] \/ bPaired[d] => d \in present

\* What is announced of a device was true when it appeared, and still is.
AnnouncedInv ==
    /\ \A k \in 1..Len(announced) : ~announced[k].connected /\ ~announced[k].paired
    /\ \A d \in Heard : ~Settled(d) => ~bConnected[d] /\ ~bPaired[d]

ReadyInv == pc[Main] = "ready" <=> subscribed

\* Only an object that listens has callbacks; the one taken down has not.
ListenInv == \A i \in Infos : pc[i] # "idle" => i \in listening
StoppedInv == Stopped => arg[Bus] \notin listening

\* Nothing is sent to an object that has not been made.
FreshInv == \A i \in Infos : pathOf[i] = NoDevice => inbox[i] = <<>>

\* A device shows what the object it was made from has last heard.
MapConnectedInv ==
    \A d \in Devices : devicesMap[d] # NoInfo => connected[d] = infoConnected[devicesMap[d]]

\* Nothing has happened to it before the program is ready.
QuietInv == ~Started => \A d \in Heard :
    /\ Settled(d)
    /\ \A i \in Infos : pathOf[i] = d => inbox[i] = <<>> /\ pc[i] = "idle"
    /\ Removing => pathOf[arg[Bus]] # d

\* Main makes one object of it, if it is present.
FetchInv == \A d \in Heard :
    /\ Early => \A s \in todo : s.path = d => s = Snapshot(d)
    /\ pc[Main] \in {"idle", "clearMaps"} => \A i \in Infos : pathOf[i] # d
    /\ pc[Main] = "clearMaps" => (d \in present <=> \E s \in todo : s.path = d)
    /\ pc[Main] \in {"create", "deviceAdded"} =>
           /\ d \in present <=> known[d] # NoInfo \/ \E s \in todo : s.path = d
           /\ known[d] # NoInfo => \A s \in todo : s.path # d

\* It has one object that listens, the known one, and only this one has callbacks.
ObjectInv == \A d \in Heard :
    /\ known[d] # NoInfo => known[d] \in listening \/ (Stopped /\ arg[Bus] = known[d])
    /\ \A i \in listening : pathOf[i] = d => i = known[d]
    /\ Removing /\ pathOf[arg[Bus]] = d => arg[Bus] = known[d]
    /\ \A i \in Infos : pathOf[i] = d /\ pc[i] = "deviceAdded" => arg[i] = i

\* Its announcements alternate, from what the program knows to what is so.
AlternateInv == \A d \in Heard :
    /\ \A k \in 1..Len(announced) : FirstOf(d, k) => (announced[k].added <=> ~Here(d))
    /\ \A k \in 1..Len(announced) : LastOf(d, k) => (announced[k].added <=> d \in present)
    /\ \A j, k \in 1..Len(announced) :
           Successive(d, j, k) => (announced[j].added <=> ~announced[k].added)
    /\ Settled(d) /\ Made => (Here(d) <=> d \in present)

\* The program's device is made from the known object, a paired one, until it is erased.
MapInv == \A d \in Heard : devicesMap[d] # NoInfo =>
    /\ devicesMap[d] = known[d] /\ known[d] \in paired
    /\ ~(Erased /\ arg[Bus] = known[d])

\* A paired object has a device, or somebody is about to make it.
PairedMappedInv == \A d \in Heard : known[d] # NoInfo /\ known[d] \in paired =>
    \/ devicesMap[d] = known[d]
    \/ Early
    \/ pc[Main] = "filling" /\ known[d] \in todo
    \/ pc[known[d]] = "deviceAdded"
    \/ Erased /\ arg[Bus] = known[d]

\* A device is made of the paired, known object.
AddingInv ==
    /\ pc[Bus] # "deviceAdded"
    /\ \A i \in Infos : pc[i] = "deviceAdded" => pathOf[arg[i]] = pathOf[i]
    /\ \A d \in Heard : \A i \in Infos : pathOf[i] = d /\ pc[i] = "deviceAdded" => i \in paired
    /\ \A d \in Heard : \A i \in paired : pathOf[i] = d => i = known[d]
    /\ pc[Main] = "filling" =>
           \A d \in Heard : \A i \in todo : pathOf[i] = d => i = known[d] /\ i \in paired

\* The known object is paired if the device is, or will hear of it.
Sent(i, k, p) == k \in 1..Len(inbox[i]) /\ inbox[i][k].property = p
PairedFor(d) == Here(d) /\ Settled(d) =>
    /\ known[d] \in paired \/ (\E k \in 1..Len(inbox[known[d]]) : Sent(known[d], k, "Paired"))
           => bPaired[d]
    /\ bPaired[d] =>
           known[d] \in paired \/ \E k \in 1..Len(inbox[known[d]]) : Sent(known[d], k, "Paired")
PairedInv == \A d \in Heard : PairedFor(d)

\* The last of its signals says whether it is connected; without one its object knows.
LastSent(i, k) ==
    /\ Sent(i, k, "Connected")
    /\ \A j \in (k + 1)..Len(inbox[i]) : inbox[i][j].property # "Connected"
ConnectedFor(d) == Here(d) /\ Settled(d) =>
    /\ \A k \in 1..Len(inbox[known[d]]) :
           LastSent(known[d], k) => inbox[known[d]][k].value = bConnected[d]
    /\ (\A k \in 1..Len(inbox[known[d]]) : ~Sent(known[d], k, "Connected"))
           => infoConnected[known[d]] = bConnected[d]
ConnectedInv == \A d \in Heard : ConnectedFor(d)

HeardInv ==
    /\ PresentInv /\ AnnouncedInv /\ ReadyInv /\ ListenInv /\ StoppedInv /\ FreshInv
    /\ MapConnectedInv
    /\ QuietInv /\ FetchInv /\ ObjectInv /\ AlternateInv
    /\ MapInv /\ AddingInv /\ PairedMappedInv /\ PairedInv /\ ConnectedInv

\* A new object is one that nothing refers to yet.
LEMMA NewInfoUnused ==
    ASSUME IInv, \E j \in Infos : pathOf[j] = NoDevice
    PROVE  /\ NewInfo \in Infos /\ pathOf[NewInfo] = NoDevice /\ NewInfo # NoInfo
           /\ NewInfo \notin listening /\ NewInfo \notin paired
           /\ \A d \in Devices : devicesMap[d] # NewInfo /\ known[d] # NewInfo
           /\ \A t \in Threads : arg[t] # NewInfo
<1>1. NewInfo \in Infos /\ pathOf[NewInfo] = NoDevice /\ NewInfo # NoInfo
  BY NewInfoFree, FetcherAssumption
<1>2. \A d \in Devices : d # NoDevice
  BY FetcherAssumption
<1> QED BY <1>1, <1>2 DEF IInv, Types, PathInv, ArgInv

\* A device that is gone is neither connected nor paired.
LEMMA PresentStep == IInv /\ HeardInv /\ [Next]_vars => PresentInv'
<1> SUFFICES ASSUME IInv, HeardInv, [Next]_vars PROVE PresentInv'
  OBVIOUS
<1>1. CASE FetchDevices
  BY <1>1 DEF FetchDevices, HeardInv, PresentInv, bluezVars
<1>2. CASE ClearMaps
  BY <1>2 DEF ClearMaps, HeardInv, PresentInv, bluezVars
<1>3. CASE CreateFetched
  BY <1>3 DEF CreateFetched, HeardInv, PresentInv, bluezVars
<1>4. CASE AllFetched
  BY <1>4 DEF AllFetched, HeardInv, PresentInv, bluezVars
<1>5. CASE BeginFill
  BY <1>5 DEF BeginFill, HeardInv, PresentInv, bluezVars
<1>6. CASE Fill
  BY <1>6 DEF Fill, HeardInv, PresentInv, bluezVars
<1>7. CASE Filled
  BY <1>7 DEF Filled, HeardInv, PresentInv, bluezVars
<1>8. CASE Subscribe
  BY <1>8 DEF Subscribe, HeardInv, PresentInv, bluezVars
<1>9. CASE HandleInterfacesAdded
  BY <1>9 DEF HandleInterfacesAdded, HeardInv, PresentInv
<1>10. CASE HandleInterfacesRemoved
  BY <1>10 DEF HandleInterfacesRemoved, HeardInv, PresentInv
<1>11. CASE StopListening
  BY <1>11 DEF StopListening, HeardInv, PresentInv, bluezVars
<1>12. CASE OnDeviceRemoved
  BY <1>12 DEF OnDeviceRemoved, HeardInv, PresentInv, bluezVars
<1>13. CASE Forget
  BY <1>13 DEF Forget, HeardInv, PresentInv, bluezVars
<1>14. ASSUME NEW t \in Threads, OnDeviceAdded(t) PROVE PresentInv'
  BY <1>14 DEF OnDeviceAdded, HeardInv, PresentInv, bluezVars
<1>15. ASSUME NEW t \in Threads, RememberPrevious(t) PROVE PresentInv'
  BY <1>15 DEF RememberPrevious, HeardInv, PresentInv, bluezVars
<1>16. ASSUME NEW t \in Threads, ClearActive(t) PROVE PresentInv'
  BY <1>16 DEF ClearActive, HeardInv, PresentInv, bluezVars
<1>17. ASSUME NEW t \in Threads, ReadConnected(t) PROVE PresentInv'
  BY <1>17 DEF ReadConnected, HeardInv, PresentInv, bluezVars
<1>18. ASSUME NEW t \in Threads, AssignActive(t) PROVE PresentInv'
  BY <1>18 DEF AssignActive, HeardInv, PresentInv, bluezVars
<1>19. ASSUME NEW i \in Infos, ConnectedChanged(i) PROVE PresentInv'
  BY <1>19 DEF ConnectedChanged, Take, HeardInv, PresentInv, bluezVars
<1>20. ASSUME NEW i \in Infos, PairedChanged(i) PROVE PresentInv'
  BY <1>20 DEF PairedChanged, Take, HeardInv, PresentInv, bluezVars
<1>21. ASSUME NEW d \in Devices, Appear(d) PROVE PresentInv'
  BY <1>21 DEF Appear, Event, HeardInv, PresentInv
<1>22. ASSUME NEW d \in Devices, Vanish(d) PROVE PresentInv'
  BY <1>22 DEF Vanish, Event, IInv, Types, HeardInv, BluezTypes, PresentInv
<1>23. ASSUME NEW d \in Devices, ConnectedFlips(d) PROVE PresentInv'
  BY <1>23 DEF ConnectedFlips, Event, Signal, HeardInv, PresentInv
<1>24. ASSUME NEW d \in Devices, Pairs(d) PROVE PresentInv'
  BY <1>24 DEF Pairs, Event, Signal, HeardInv, PresentInv
<1>25. CASE UNCHANGED vars
  BY <1>25 DEF HeardInv, PresentInv, vars, bluezVars
<1>26. CASE RemovalBreaksOff
  BY <1>26
    DEF RemovalBreaksOff, Goto, HeardInv, PresentInv
<1> QED
  BY <1>1, <1>2, <1>3, <1>4, <1>5, <1>6, <1>7, <1>8, <1>9, <1>10, <1>11, <1>12, <1>13, <1>14,
     <1>15, <1>16, <1>17, <1>18, <1>19, <1>20, <1>21, <1>22, <1>23, <1>24, <1>25, <1>26
    DEF Next, Startup, BusStep, TrySelectNewActiveDevice

\* What is announced is what has been; what was announced first is handled first.
LEMMA TailMoves ==
    ASSUME NEW S, NEW q \in Seq(S), q # <<>>
    PROVE  /\ Head(q) = q[1] /\ Len(q) \in Nat \ {0} /\ Len(Tail(q)) = Len(q) - 1
           /\ \A k \in 1..Len(Tail(q)) : Tail(q)[k] = q[k + 1] /\ k + 1 \in 1..Len(q)
BY EmptySeq, HeadTailProperties

LEMMA AppendMoves ==
    ASSUME NEW S, NEW q \in Seq(S), NEW e \in S
    PROVE  /\ Len(q) \in Nat /\ Len(Append(q, e)) = Len(q) + 1
           /\ \A k \in 1..Len(q) : Append(q, e)[k] = q[k]
           /\ Append(q, e)[Len(q) + 1] = e
BY AppendProperties

\* A device on its way is neither connected nor paired.
LEMMA AnnouncedStep == IInv /\ HeardInv /\ [Next]_vars => AnnouncedInv'
<1> SUFFICES ASSUME IInv, HeardInv, [Next]_vars PROVE AnnouncedInv'
  OBVIOUS

<1>a. announced \in Seq(Snapshots)
  BY DEF IInv, Types, BluezTypes
<1>1. CASE FetchDevices
  BY <1>1
    DEF FetchDevices, Goto, IInv, Types, HeardInv, BluezTypes, PresentInv, AnnouncedInv, Heard,
        Settled, bluezVars
<1>2. CASE ClearMaps
  BY <1>2
    DEF ClearMaps, Goto, IInv, Types, HeardInv, BluezTypes, PresentInv, AnnouncedInv, Heard,
        Settled, bluezVars
<1>3. CASE CreateFetched
  BY <1>3
    DEF CreateFetched, HeardInv, BluezTypes, PresentInv, AnnouncedInv, Heard, Settled, bluezVars
<1>4. CASE AllFetched
  BY <1>4
    DEF AllFetched, Goto, IInv, Types, HeardInv, BluezTypes, PresentInv, AnnouncedInv, Heard,
        Settled, bluezVars
<1>5. CASE BeginFill
  BY <1>5
    DEF BeginFill, Goto, IInv, Types, HeardInv, BluezTypes, PresentInv, AnnouncedInv, Heard,
        Settled, bluezVars
<1>6. CASE Fill
  BY <1>6
    DEF Fill, AddDevice, IInv, Types, HeardInv, BluezTypes, PresentInv, AnnouncedInv, Heard,
        Settled, bluezVars
<1>7. CASE Filled
  BY <1>7
    DEF Filled, Select, IInv, Types, HeardInv, BluezTypes, PresentInv, AnnouncedInv, Heard,
        Settled, bluezVars
<1>8. CASE Subscribe
  BY <1>8
    DEF Subscribe, Goto, IInv, Types, HeardInv, BluezTypes, PresentInv, AnnouncedInv, Heard,
        Settled, bluezVars
<1>9. CASE HandleInterfacesAdded

  <2>1. announced # <<>> /\ announced' = Tail(announced)
    BY <1>9 DEF HandleInterfacesAdded
  <2> QED BY <1>9, <1>a, <2>1, TailMoves
      DEF HandleInterfacesAdded, HeardInv, AnnouncedInv, Heard, Settled
<1>10. CASE HandleInterfacesRemoved

  <2>1. announced # <<>> /\ announced' = Tail(announced)
    BY <1>10 DEF HandleInterfacesRemoved
  <2> QED BY <1>10, <1>a, <2>1, TailMoves
      DEF HandleInterfacesRemoved, HeardInv, AnnouncedInv, Heard, Settled
<1>11. CASE StopListening
  BY <1>11
    DEF StopListening, Goto, IInv, Types, HeardInv, BluezTypes, PresentInv, AnnouncedInv, Heard,
        Settled, bluezVars
<1>12. CASE OnDeviceRemoved
  BY <1>12
    DEF OnDeviceRemoved, Select, HeardInv, BluezTypes, PresentInv, AnnouncedInv, Heard, Settled,
        bluezVars
<1>13. CASE Forget
  BY <1>13
    DEF Forget, Goto, IInv, Types, HeardInv, BluezTypes, PresentInv, AnnouncedInv, Heard, Settled,
        bluezVars
<1>14. ASSUME NEW t \in Threads, OnDeviceAdded(t) PROVE AnnouncedInv'
  BY <1>14
    DEF OnDeviceAdded, AddDevice, IInv, Types, HeardInv, BluezTypes, PresentInv, AnnouncedInv,
        Heard, Settled, bluezVars
<1>15. ASSUME NEW t \in Threads, RememberPrevious(t) PROVE AnnouncedInv'
  BY <1>15
    DEF RememberPrevious, Goto, IInv, Types, HeardInv, BluezTypes, PresentInv, AnnouncedInv,
        Heard, Settled, bluezVars
<1>16. ASSUME NEW t \in Threads, ClearActive(t) PROVE AnnouncedInv'
  BY <1>16
    DEF ClearActive, Goto, IInv, Types, HeardInv, BluezTypes, PresentInv, AnnouncedInv, Heard,
        Settled, bluezVars
<1>17. ASSUME NEW t \in Threads, ReadConnected(t) PROVE AnnouncedInv'
  BY <1>17
    DEF ReadConnected, Goto, IInv, Types, HeardInv, BluezTypes, PresentInv, AnnouncedInv, Heard,
        Settled, bluezVars
<1>18. ASSUME NEW t \in Threads, AssignActive(t) PROVE AnnouncedInv'
  BY <1>18
    DEF AssignActive, HeardInv, BluezTypes, PresentInv, AnnouncedInv, Heard, Settled, bluezVars
<1>19. ASSUME NEW i \in Infos, ConnectedChanged(i) PROVE AnnouncedInv'
  BY <1>19
    DEF ConnectedChanged, Take, HeardInv, BluezTypes, PresentInv, AnnouncedInv, Heard, Settled,
        bluezVars
<1>20. ASSUME NEW i \in Infos, PairedChanged(i) PROVE AnnouncedInv'
  BY <1>20
    DEF PairedChanged, Take, IInv, Types, HeardInv, BluezTypes, PresentInv, AnnouncedInv, Heard,
        Settled, bluezVars
<1>21. ASSUME NEW d \in Devices, Appear(d) PROVE AnnouncedInv'
  <2> DEFINE e == [added |-> TRUE, path |-> d, connected |-> FALSE, paired |-> FALSE]
  <2>1. e \in Snapshots
    BY <1>21 DEF Snapshots
  <2>2. announced' = Append(announced, e)
    BY <1>21 DEF Appear
  <2>3. e.path = d /\ ~e.connected /\ ~e.paired
    OBVIOUS
  <2> HIDE DEF e
  <2>4. \A k \in 1..Len(announced') : ~announced'[k].connected /\ ~announced'[k].paired
    BY <1>a, <2>1, <2>2, <2>3, AppendMoves DEF HeardInv, AnnouncedInv
  <2>5. Heard' \subseteq Heard /\ \A c \in Heard : ~Settled(c)' => ~Settled(c) \/ c = d
    BY <1>21, <1>a, <2>1, <2>2, <2>3, AppendMoves DEF Appear, Event, Heard, Settled
  <2>6. ~bConnected'[d] /\ ~bPaired'[d] /\ \A c \in Devices \ {d} :
            bConnected'[c] = bConnected[c] /\ bPaired'[c] = bPaired[c]
    BY <1>21 DEF Appear, HeardInv, PresentInv, IInv, Types, BluezTypes
  <2> QED BY <2>4, <2>5, <2>6 DEF HeardInv, AnnouncedInv, Heard
<1>22. ASSUME NEW d \in Devices, Vanish(d) PROVE AnnouncedInv'
  <2> DEFINE e == [added |-> FALSE, path |-> d, connected |-> FALSE, paired |-> FALSE]
  <2>1. e \in Snapshots
    BY <1>22 DEF Snapshots
  <2>2. announced' = Append(announced, e)
    BY <1>22 DEF Vanish
  <2>3. e.path = d /\ ~e.connected /\ ~e.paired
    OBVIOUS
  <2> HIDE DEF e
  <2>4. \A k \in 1..Len(announced') : ~announced'[k].connected /\ ~announced'[k].paired
    BY <1>a, <2>1, <2>2, <2>3, AppendMoves DEF HeardInv, AnnouncedInv
  <2>5. Heard' \subseteq Heard /\ \A c \in Heard : ~Settled(c)' => ~Settled(c) \/ c = d
    BY <1>22, <1>a, <2>1, <2>2, <2>3, AppendMoves DEF Vanish, Event, Heard, Settled
  <2>6. ~bConnected'[d] /\ ~bPaired'[d] /\ \A c \in Devices \ {d} :
            bConnected'[c] = bConnected[c] /\ bPaired'[c] = bPaired[c]
    BY <1>22 DEF Vanish, HeardInv, PresentInv, IInv, Types, BluezTypes
  <2> QED BY <2>4, <2>5, <2>6 DEF HeardInv, AnnouncedInv, Heard
<1>23. ASSUME NEW d \in Devices, ConnectedFlips(d) PROVE AnnouncedInv'
  BY <1>23 DEF ConnectedFlips, Event, Signal, HeardInv, AnnouncedInv, Heard, Settled
<1>24. ASSUME NEW d \in Devices, Pairs(d) PROVE AnnouncedInv'
  BY <1>24 DEF Pairs, Event, Signal, HeardInv, AnnouncedInv, Heard, Settled
<1>25. CASE UNCHANGED vars
  BY <1>25 DEF HeardInv, AnnouncedInv, Heard, Settled, vars, bluezVars
<1>26. CASE RemovalBreaksOff
  BY <1>26
    DEF RemovalBreaksOff, Goto, HeardInv, BluezTypes, PresentInv, AnnouncedInv, Heard, Settled
<1> QED
  BY <1>1, <1>2, <1>3, <1>4, <1>5, <1>6, <1>7, <1>8, <1>9, <1>10, <1>11, <1>12, <1>13, <1>14,
     <1>15, <1>16, <1>17, <1>18, <1>19, <1>20, <1>21, <1>22, <1>23, <1>24, <1>25, <1>26
    DEF Next, Startup, BusStep, TrySelectNewActiveDevice

\* The program listens once it is ready.
LEMMA ReadyStep == IInv /\ HeardInv /\ [Next]_vars => ReadyInv'
<1> SUFFICES ASSUME IInv, HeardInv, [Next]_vars PROVE ReadyInv'
  OBVIOUS
<1>1. CASE FetchDevices
  BY <1>1 DEF FetchDevices, Goto, HeardInv, ReadyInv
<1>2. CASE ClearMaps
  BY <1>2 DEF ClearMaps, Goto, HeardInv, ReadyInv
<1>3. CASE CreateFetched

  <2> DEFINE s == CHOOSE x \in todo : \A y \in todo : x.path <= y.path
  <2>1. s \in Snapshots
    BY <1>3, FetchedIsSnapshot DEF CreateFetched, IInv, Types, TodoTypes, Early
  <2>2. CreateInfo(Main, s, "create")
    BY <1>3 DEF CreateFetched
  <2>3. /\ s \in todo /\ todo' = todo \ {s} /\ pc[Main] = "create"
        /\ UNCHANGED <<bluezVars, deviceVars, active, subscribed, candidate, overlapped>>
    BY <1>3, FetchedIsSnapshot DEF CreateFetched, IInv, Types, TodoTypes, Early
  <2> HIDE DEF s
  <2> QED BY <1>3, <2>1, <2>2, <2>3, NewInfoFree, ThreadsDiffer
      DEF CreateFetched, CreateInfo, IInv, Types, ThreadTypes, HeardInv, ReadyInv
<1>4. CASE AllFetched
  BY <1>4 DEF AllFetched, Goto, HeardInv, ReadyInv
<1>5. CASE BeginFill
  BY <1>5 DEF BeginFill, Goto, HeardInv, ReadyInv
<1>6. CASE Fill
  BY <1>6 DEF Fill, HeardInv, Selecting, Early, ReadyInv
<1>7. CASE Filled
  BY <1>7 DEF Filled, Select, HeardInv, ReadyInv
<1>8. CASE Subscribe
  BY <1>8, ThreadsDiffer
    DEF Subscribe, Goto, IInv, Types, ThreadTypes, Selecting, PlaceInv, EarlyInv, Early, ReadyInv
<1>9. CASE HandleInterfacesAdded

  <2> DEFINE s == Head(announced)
  <2>1. s \in Snapshots
    BY <1>9, HeadTailProperties DEF HandleInterfacesAdded, IInv, Types, BluezTypes
  <2>2. CreateInfo(Bus, s, "idle")
    BY <1>9 DEF HandleInterfacesAdded
  <2>3. UNCHANGED <<deviceVars, active, subscribed, todo, candidate, overlapped>>
    BY <1>9 DEF HandleInterfacesAdded
  <2> HIDE DEF s
  <2> QED BY <1>9, <2>1, <2>2, <2>3, NewInfoFree, ThreadsDiffer
      DEF HandleInterfacesAdded, CreateInfo, IInv, Types, ThreadTypes, HeardInv, ReadyInv
<1>10. CASE HandleInterfacesRemoved
  BY <1>10 DEF HandleInterfacesRemoved, Goto, HeardInv, ReadyInv
<1>11. CASE StopListening
  BY <1>11 DEF StopListening, Goto, HeardInv, ReadyInv
<1>12. CASE OnDeviceRemoved
  BY <1>12, ThreadsDiffer
    DEF OnDeviceRemoved, Select, Goto, IInv, Types, HeardInv, ThreadTypes, Selected, Selecting,
        PlaceInv, EarlyInv, Early, ReadyInv
<1>13. CASE Forget
  BY <1>13 DEF Forget, Goto, HeardInv, ReadyInv
<1>14. ASSUME NEW t \in Threads, OnDeviceAdded(t) PROVE ReadyInv'
  BY <1>14
    DEF OnDeviceAdded, IInv, HeardInv, ResumeInv, Announced, Selecting, PlaceInv, EarlyInv, Early,
        ReadyInv
<1>15. ASSUME NEW t \in Threads, RememberPrevious(t) PROVE ReadyInv'
  BY <1>15 DEF RememberPrevious, Goto, HeardInv, ReadyInv
<1>16. ASSUME NEW t \in Threads, ClearActive(t) PROVE ReadyInv'
  BY <1>16 DEF ClearActive, Goto, HeardInv, ReadyInv
<1>17. ASSUME NEW t \in Threads, ReadConnected(t) PROVE ReadyInv'
  BY <1>17 DEF ReadConnected, Goto, HeardInv, ReadyInv
<1>18. ASSUME NEW t \in Threads, AssignActive(t) PROVE ReadyInv'
  BY <1>18, ThreadsDiffer
    DEF AssignActive, IInv, Types, HeardInv, ThreadTypes, ResumeInv, Announced, Selected,
        Selecting, PlaceInv, EarlyInv, Early, ReadyInv
<1>19. ASSUME NEW i \in Infos, ConnectedChanged(i) PROVE ReadyInv'
  BY <1>19, ThreadsDiffer
    DEF ConnectedChanged, Take, Select, IInv, Types, HeardInv, ThreadTypes, Early, ReadyInv
<1>20. ASSUME NEW i \in Infos, PairedChanged(i) PROVE ReadyInv'
  BY <1>20, ThreadsDiffer
    DEF PairedChanged, Take, IInv, Types, HeardInv, ThreadTypes, PlaceInv, EarlyInv, Early,
        ReadyInv
<1>21. ASSUME NEW d \in Devices, Appear(d) PROVE ReadyInv'
  BY <1>21 DEF Appear, Event, HeardInv, Early, ReadyInv
<1>22. ASSUME NEW d \in Devices, Vanish(d) PROVE ReadyInv'
  BY <1>22 DEF Vanish, Event, HeardInv, Early, ReadyInv
<1>23. ASSUME NEW d \in Devices, ConnectedFlips(d) PROVE ReadyInv'
  BY <1>23 DEF ConnectedFlips, HeardInv, PlaceInv, EarlyInv, Early, ReadyInv
<1>24. ASSUME NEW d \in Devices, Pairs(d) PROVE ReadyInv'
  BY <1>24 DEF Pairs, HeardInv, PlaceInv, EarlyInv, Early, ReadyInv
<1>25. CASE UNCHANGED vars
  BY <1>25 DEF HeardInv, ReadyInv, vars
<1>26. CASE RemovalBreaksOff
  BY <1>26, ThreadsDiffer
    DEF RemovalBreaksOff, Goto, IInv, Types, HeardInv, ThreadTypes, Selected, Selecting, PlaceInv,
        EarlyInv, Early, ReadyInv
<1> QED
  BY <1>1, <1>2, <1>3, <1>4, <1>5, <1>6, <1>7, <1>8, <1>9, <1>10, <1>11, <1>12, <1>13, <1>14,
     <1>15, <1>16, <1>17, <1>18, <1>19, <1>20, <1>21, <1>22, <1>23, <1>24, <1>25, <1>26
    DEF Next, Startup, BusStep, TrySelectNewActiveDevice

\* An object that is taken down has no callback.
LEMMA ListenStep == IInv /\ HeardInv /\ [Next]_vars => ListenInv'
<1> SUFFICES ASSUME IInv, HeardInv, [Next]_vars PROVE ListenInv'
  OBVIOUS
<1>1. CASE FetchDevices
  BY <1>1, ThreadsDiffer
    DEF FetchDevices, Goto, IInv, Types, HeardInv, ThreadTypes, InfoTypes, Selecting, ListenInv,
        infoVars
<1>2. CASE ClearMaps
  BY <1>2, ThreadsDiffer
    DEF ClearMaps, Goto, IInv, Types, HeardInv, ThreadTypes, InfoTypes, Selecting, ListenInv,
        infoVars
<1>3. CASE CreateFetched

  <2> DEFINE s == CHOOSE x \in todo : \A y \in todo : x.path <= y.path
  <2>1. s \in Snapshots
    BY <1>3, FetchedIsSnapshot DEF CreateFetched, IInv, Types, TodoTypes, Early
  <2>2. CreateInfo(Main, s, "create")
    BY <1>3 DEF CreateFetched
  <2>3. /\ s \in todo /\ todo' = todo \ {s} /\ pc[Main] = "create"
        /\ UNCHANGED <<bluezVars, deviceVars, active, subscribed, candidate, overlapped>>
    BY <1>3, FetchedIsSnapshot DEF CreateFetched, IInv, Types, TodoTypes, Early
  <2> HIDE DEF s
  <2> QED BY <1>3, <2>1, <2>2, <2>3, NewInfoFree, ThreadsDiffer
      DEF CreateFetched, CreateInfo, IInv, Types, ThreadTypes, InfoTypes, HeardInv, ListenInv
<1>4. CASE AllFetched
  BY <1>4, ThreadsDiffer
    DEF AllFetched, Goto, IInv, Types, HeardInv, ThreadTypes, InfoTypes, Selecting, ListenInv,
        infoVars
<1>5. CASE BeginFill
  BY <1>5, ThreadsDiffer
    DEF BeginFill, Goto, IInv, Types, HeardInv, ThreadTypes, InfoTypes, Selecting, ListenInv,
        infoVars
<1>6. CASE Fill
  BY <1>6, ThreadsDiffer
    DEF Fill, HeardInv, ThreadTypes, InfoTypes, Selecting, ListenInv, infoVars
<1>7. CASE Filled
  BY <1>7, ThreadsDiffer
    DEF Filled, Select, IInv, Types, HeardInv, ThreadTypes, InfoTypes, Selecting, ListenInv,
        infoVars
<1>8. CASE Subscribe
  BY <1>8, ThreadsDiffer
    DEF Subscribe, Goto, IInv, Types, HeardInv, ThreadTypes, InfoTypes, Selecting, ListenInv,
        infoVars
<1>9. CASE HandleInterfacesAdded

  <2> DEFINE s == Head(announced)
  <2>1. s \in Snapshots
    BY <1>9, HeadTailProperties DEF HandleInterfacesAdded, IInv, Types, BluezTypes
  <2>2. CreateInfo(Bus, s, "idle")
    BY <1>9 DEF HandleInterfacesAdded
  <2>3. UNCHANGED <<deviceVars, active, subscribed, todo, candidate, overlapped>>
    BY <1>9 DEF HandleInterfacesAdded
  <2> HIDE DEF s
  <2> QED BY <1>9, <2>1, <2>2, <2>3, NewInfoFree, ThreadsDiffer
      DEF HandleInterfacesAdded, CreateInfo, IInv, Types, ThreadTypes, InfoTypes, HeardInv,
          ListenInv
<1>10. CASE HandleInterfacesRemoved
  BY <1>10, ThreadsDiffer
    DEF HandleInterfacesRemoved, Goto, IInv, Types, HeardInv, ThreadTypes, InfoTypes, Selecting,
        ListenInv, infoVars
<1>11. CASE StopListening
  BY <1>11, ThreadsDiffer
    DEF StopListening, Goto, IInv, Types, HeardInv, ThreadTypes, InfoTypes, Selecting, ListenInv,
        infoVars
<1>12. CASE OnDeviceRemoved
  BY <1>12, ThreadsDiffer
    DEF OnDeviceRemoved, Select, Goto, IInv, Types, HeardInv, ThreadTypes, ListenInv, infoVars,
        PlaceInv
<1>13. CASE Forget
  BY <1>13, ThreadsDiffer
    DEF Forget, Goto, IInv, Types, HeardInv, ThreadTypes, InfoTypes, Selecting, ListenInv,
        infoVars
<1>14. ASSUME NEW t \in Threads, OnDeviceAdded(t) PROVE ListenInv'
  BY <1>14, ThreadsDiffer
    DEF OnDeviceAdded, HeardInv, ThreadTypes, InfoTypes, Selecting, ListenInv, infoVars
<1>15. ASSUME NEW t \in Threads, RememberPrevious(t) PROVE ListenInv'
  BY <1>15, ThreadsDiffer
    DEF RememberPrevious, Goto, IInv, Types, HeardInv, ThreadTypes, InfoTypes, Selecting,
        ListenInv, infoVars
<1>16. ASSUME NEW t \in Threads, ClearActive(t) PROVE ListenInv'
  BY <1>16, ThreadsDiffer
    DEF ClearActive, Goto, IInv, Types, HeardInv, ThreadTypes, InfoTypes, Selecting, ListenInv,
        infoVars
<1>17. ASSUME NEW t \in Threads, ReadConnected(t) PROVE ListenInv'
  BY <1>17, ThreadsDiffer
    DEF ReadConnected, Goto, IInv, Types, HeardInv, ThreadTypes, InfoTypes, Selecting, ListenInv,
        infoVars
<1>18. ASSUME NEW t \in Threads, AssignActive(t) PROVE ListenInv'
  BY <1>18, ThreadsDiffer DEF AssignActive, IInv, Types, HeardInv, ListenInv, infoVars, PlaceInv
<1>19. ASSUME NEW i \in Infos, ConnectedChanged(i) PROVE ListenInv'
  BY <1>19, ThreadsDiffer
    DEF ConnectedChanged, Take, Select, IInv, Types, HeardInv, ThreadTypes, InfoTypes, Selecting,
        ListenInv, infoVars, PlaceInv
<1>20. ASSUME NEW i \in Infos, PairedChanged(i) PROVE ListenInv'
  BY <1>20, ThreadsDiffer
    DEF PairedChanged, Take, IInv, Types, HeardInv, ThreadTypes, ListenInv, PlaceInv
<1>21. ASSUME NEW d \in Devices, Appear(d) PROVE ListenInv'
  BY <1>21, ThreadsDiffer
    DEF Appear, HeardInv, ThreadTypes, InfoTypes, Selecting, ListenInv, infoVars
<1>22. ASSUME NEW d \in Devices, Vanish(d) PROVE ListenInv'
  BY <1>22, ThreadsDiffer
    DEF Vanish, HeardInv, ThreadTypes, InfoTypes, Selecting, ListenInv, infoVars
<1>23. ASSUME NEW d \in Devices, ConnectedFlips(d) PROVE ListenInv'
  BY <1>23 DEF ConnectedFlips, Event, Signal, HeardInv, ListenInv, PlaceInv
<1>24. ASSUME NEW d \in Devices, Pairs(d) PROVE ListenInv'
  BY <1>24 DEF Pairs, Event, Signal, HeardInv, ListenInv, PlaceInv
<1>25. CASE UNCHANGED vars
  BY <1>25 DEF HeardInv, ListenInv, vars, infoVars
<1>26. CASE RemovalBreaksOff
  BY <1>26, ThreadsDiffer
    DEF RemovalBreaksOff, Goto, IInv, Types, HeardInv, ThreadTypes, ListenInv, infoVars, PlaceInv
<1> QED
  BY <1>1, <1>2, <1>3, <1>4, <1>5, <1>6, <1>7, <1>8, <1>9, <1>10, <1>11, <1>12, <1>13, <1>14,
     <1>15, <1>16, <1>17, <1>18, <1>19, <1>20, <1>21, <1>22, <1>23, <1>24, <1>25, <1>26
    DEF Next, Startup, BusStep, TrySelectNewActiveDevice

\* An object that has been taken down stays so.
LEMMA StoppedStep == IInv /\ HeardInv /\ [Next]_vars => StoppedInv'
<1> SUFFICES ASSUME IInv, HeardInv, [Next]_vars PROVE StoppedInv'
  OBVIOUS
<1>1. CASE FetchDevices
  BY <1>1
    DEF FetchDevices, Goto, HeardInv, PlaceInv, ResumeInv, Announced, Selected, Selecting,
        Stopped, Removing, StoppedInv, infoVars
<1>2. CASE ClearMaps
  BY <1>2 DEF ClearMaps, Selecting, Stopped, Removing, StoppedInv
<1>3. CASE CreateFetched

  <2> DEFINE s == CHOOSE x \in todo : \A y \in todo : x.path <= y.path
  <2>1. s \in Snapshots
    BY <1>3, FetchedIsSnapshot DEF CreateFetched, IInv, Types, TodoTypes, Early
  <2>2. CreateInfo(Main, s, "create")
    BY <1>3 DEF CreateFetched
  <2>3. /\ s \in todo /\ todo' = todo \ {s} /\ pc[Main] = "create"
        /\ UNCHANGED <<bluezVars, deviceVars, active, subscribed, candidate, overlapped>>
    BY <1>3, FetchedIsSnapshot DEF CreateFetched, IInv, Types, TodoTypes, Early
  <2> HIDE DEF s
  <2> QED BY <1>3, <2>1, <2>2, <2>3, NewInfoFree, ThreadsDiffer
      DEF CreateFetched, CreateInfo, IInv, Types, ThreadTypes, InfoTypes, PathInv, ArgInv,
          Selecting, HeardInv, Stopped, Removing, StoppedInv
<1>4. CASE AllFetched
  BY <1>4
    DEF AllFetched, Goto, HeardInv, PlaceInv, ResumeInv, Announced, Selected, Selecting, Stopped,
        Removing, StoppedInv, infoVars
<1>5. CASE BeginFill
  BY <1>5
    DEF BeginFill, Goto, HeardInv, PlaceInv, ResumeInv, Announced, Selected, Selecting, Stopped,
        Removing, StoppedInv, infoVars
<1>6. CASE Fill
  BY <1>6 DEF Fill, HeardInv, Selected, Selecting, Stopped, Removing, StoppedInv, infoVars
<1>7. CASE Filled
  BY <1>7, ThreadsDiffer
    DEF Filled, Select, HeardInv, PlaceInv, Selecting, Stopped, Removing, StoppedInv, infoVars
<1>8. CASE Subscribe
  BY <1>8
    DEF Subscribe, Goto, HeardInv, PlaceInv, ResumeInv, Announced, Selected, Selecting, Stopped,
        Removing, StoppedInv, infoVars
<1>9. CASE HandleInterfacesAdded

  <2> DEFINE s == Head(announced)
  <2>1. s \in Snapshots
    BY <1>9, HeadTailProperties DEF HandleInterfacesAdded, IInv, Types, BluezTypes
  <2>2. CreateInfo(Bus, s, "idle")
    BY <1>9 DEF HandleInterfacesAdded
  <2>3. UNCHANGED <<deviceVars, active, subscribed, todo, candidate, overlapped>>
    BY <1>9 DEF HandleInterfacesAdded
  <2> HIDE DEF s
  <2> QED BY <1>9, <2>1, <2>2, <2>3, NewInfoFree, ThreadsDiffer
      DEF HandleInterfacesAdded, CreateInfo, IInv, Types, ThreadTypes, InfoTypes, PathInv, ArgInv,
          Selecting, HeardInv, Stopped, Removing, StoppedInv
<1>10. CASE HandleInterfacesRemoved
  BY <1>10
    DEF HandleInterfacesRemoved, Goto, Selected, Selecting, Stopped, Removing, StoppedInv,
        infoVars
<1>11. CASE StopListening
  BY <1>11 DEF StopListening, Selecting, Stopped, Removing, StoppedInv
<1>12. CASE OnDeviceRemoved
  BY <1>12 DEF OnDeviceRemoved, HeardInv, Stopped, Removing, StoppedInv, infoVars
<1>13. CASE Forget
  BY <1>13
    DEF Forget, Goto, HeardInv, PlaceInv, ResumeInv, Stopped, Removing, StoppedInv, infoVars
<1>14. ASSUME NEW t \in Threads, OnDeviceAdded(t) PROVE StoppedInv'
  BY <1>14, ThreadsDiffer
    DEF OnDeviceAdded, IInv, HeardInv, PlaceInv, ResumeInv, Announced, Selected, Selecting,
        Stopped, Removing, StoppedInv, infoVars
<1>15. ASSUME NEW t \in Threads, RememberPrevious(t) PROVE StoppedInv'
  BY <1>15
    DEF RememberPrevious, Goto, HeardInv, PlaceInv, ResumeInv, Announced, Selected, Selecting,
        Stopped, Removing, StoppedInv, infoVars
<1>16. ASSUME NEW t \in Threads, ClearActive(t) PROVE StoppedInv'
  BY <1>16
    DEF ClearActive, Goto, HeardInv, PlaceInv, ResumeInv, Announced, Selected, Selecting, Stopped,
        Removing, StoppedInv, infoVars
<1>17. ASSUME NEW t \in Threads, ReadConnected(t) PROVE StoppedInv'
  BY <1>17
    DEF ReadConnected, Goto, HeardInv, PlaceInv, ResumeInv, Announced, Selected, Selecting,
        Stopped, Removing, StoppedInv, infoVars
<1>18. ASSUME NEW t \in Threads, AssignActive(t) PROVE StoppedInv'
  BY <1>18
    DEF AssignActive, HeardInv, ResumeInv, Selecting, Stopped, Removing, StoppedInv, infoVars
<1>19. ASSUME NEW i \in Infos, ConnectedChanged(i) PROVE StoppedInv'
  BY <1>19, ThreadsDiffer
    DEF ConnectedChanged, Take, Select, IInv, Types, HeardInv, ThreadTypes, PlaceInv, ResumeInv,
        Announced, Selected, Selecting, Stopped, Removing, StoppedInv, infoVars
<1>20. ASSUME NEW i \in Infos, PairedChanged(i) PROVE StoppedInv'
  BY <1>20, ThreadsDiffer
    DEF PairedChanged, Take, IInv, Types, HeardInv, ThreadTypes, ResumeInv, Announced, Selected,
        Selecting, Stopped, Removing, StoppedInv, infoVars
<1>21. ASSUME NEW d \in Devices, Appear(d) PROVE StoppedInv'
  BY <1>21
    DEF Appear, Event, HeardInv, ResumeInv, Announced, Selected, Selecting, Stopped, Removing,
        StoppedInv, infoVars
<1>22. ASSUME NEW d \in Devices, Vanish(d) PROVE StoppedInv'
  BY <1>22
    DEF Vanish, Event, HeardInv, ResumeInv, Announced, Selected, Selecting, Stopped, Removing,
        StoppedInv, infoVars
<1>23. ASSUME NEW d \in Devices, ConnectedFlips(d) PROVE StoppedInv'
  BY <1>23
    DEF ConnectedFlips, Event, Signal, HeardInv, ResumeInv, Announced, Selected, Selecting,
        Stopped, Removing, StoppedInv
<1>24. ASSUME NEW d \in Devices, Pairs(d) PROVE StoppedInv'
  BY <1>24
    DEF Pairs, Event, Signal, HeardInv, ResumeInv, Announced, Selected, Selecting, Stopped,
        Removing, StoppedInv
<1>25. CASE UNCHANGED vars
  BY <1>25
    DEF IInv, Types, ArgInv, Selecting, HeardInv, Stopped, Removing, StoppedInv, vars, infoVars
<1>26. CASE RemovalBreaksOff
  BY <1>26
    DEF RemovalBreaksOff, Goto, HeardInv, Stopped, Removing, StoppedInv, infoVars
<1> QED
  BY <1>1, <1>2, <1>3, <1>4, <1>5, <1>6, <1>7, <1>8, <1>9, <1>10, <1>11, <1>12, <1>13, <1>14,
     <1>15, <1>16, <1>17, <1>18, <1>19, <1>20, <1>21, <1>22, <1>23, <1>24, <1>25, <1>26
    DEF Next, Startup, BusStep, TrySelectNewActiveDevice

\* Devices show what their objects hold.
LEMMA MapConnectedStep == IInv /\ HeardInv /\ [Next]_vars => MapConnectedInv'
<1> SUFFICES ASSUME IInv, HeardInv, [Next]_vars PROVE MapConnectedInv'
  OBVIOUS
<1>1. CASE FetchDevices
  BY <1>1 DEF FetchDevices, HeardInv, ArgInv, TodoTypes, MapConnectedInv, infoVars, deviceVars
<1>2. CASE ClearMaps
  BY <1>2 DEF ClearMaps, HeardInv, ArgInv, TodoTypes, MapConnectedInv, infoVars, deviceVars
<1>3. CASE CreateFetched

  <2> DEFINE s == CHOOSE x \in todo : \A y \in todo : x.path <= y.path
  <2>1. s \in Snapshots
    BY <1>3, FetchedIsSnapshot DEF CreateFetched, IInv, Types, TodoTypes, Early
  <2>2. CreateInfo(Main, s, "create")
    BY <1>3 DEF CreateFetched
  <2>3. /\ s \in todo /\ todo' = todo \ {s} /\ pc[Main] = "create"
        /\ UNCHANGED <<bluezVars, deviceVars, active, subscribed, candidate, overlapped>>
    BY <1>3, FetchedIsSnapshot DEF CreateFetched, IInv, Types, TodoTypes, Early
  <2> HIDE DEF s

  <2>4. /\ NewInfo \in Infos /\ \A d \in Devices : d # NoDevice /\ devicesMap[d] # NewInfo
        /\ infoConnected' = [infoConnected EXCEPT ![NewInfo] = s.connected]
    BY <2>2, NewInfoUnused, FetcherAssumption DEF CreateInfo

  <2> QED BY <2>3, <2>4 DEF IInv, Types, InfoTypes, ProgramTypes, PathInv, HeardInv, MapConnectedInv, deviceVars
<1>4. CASE AllFetched
  BY <1>4 DEF AllFetched, HeardInv, ArgInv, TodoTypes, MapConnectedInv, infoVars, deviceVars
<1>5. CASE BeginFill
  BY <1>5 DEF BeginFill, ArgInv, TodoTypes, MapConnectedInv, infoVars, deviceVars
<1>6. CASE Fill
  BY <1>6, ThreadsDiffer
    DEF Fill, AddDevice, IInv, Types, HeardInv, ThreadTypes, ProgramTypes, ArgInv, TodoTypes,
        MapConnectedInv, infoVars, deviceVars
<1>7. CASE Filled
  BY <1>7 DEF Filled, HeardInv, ArgInv, TodoTypes, MapConnectedInv, infoVars, deviceVars
<1>8. CASE Subscribe
  BY <1>8 DEF Subscribe, HeardInv, ArgInv, TodoTypes, MapConnectedInv, infoVars, deviceVars
<1>9. CASE HandleInterfacesAdded

  <2> DEFINE s == Head(announced)
  <2>1. s \in Snapshots
    BY <1>9, HeadTailProperties DEF HandleInterfacesAdded, IInv, Types, BluezTypes
  <2>2. CreateInfo(Bus, s, "idle")
    BY <1>9 DEF HandleInterfacesAdded
  <2>3. UNCHANGED <<deviceVars, active, subscribed, todo, candidate, overlapped>>
    BY <1>9 DEF HandleInterfacesAdded
  <2> HIDE DEF s

  <2>4. /\ NewInfo \in Infos /\ \A d \in Devices : d # NoDevice /\ devicesMap[d] # NewInfo
        /\ infoConnected' = [infoConnected EXCEPT ![NewInfo] = s.connected]
    BY <2>2, NewInfoUnused, FetcherAssumption DEF CreateInfo

  <2> QED BY <2>3, <2>4 DEF IInv, Types, InfoTypes, ProgramTypes, PathInv, HeardInv, MapConnectedInv, deviceVars
<1>10. CASE HandleInterfacesRemoved
  BY <1>10
    DEF HandleInterfacesRemoved, HeardInv, ArgInv, TodoTypes, MapConnectedInv, infoVars,
        deviceVars
<1>11. CASE StopListening
  BY <1>11 DEF StopListening, HeardInv, ArgInv, TodoTypes, MapConnectedInv, infoVars, deviceVars
<1>12. CASE OnDeviceRemoved
  BY <1>12, ThreadsDiffer
    DEF OnDeviceRemoved, Select, Goto, IInv, Types, HeardInv, ThreadTypes, InfoTypes,
        ProgramTypes, PathInv, ArgInv, TodoTypes, MapConnectedInv, infoVars
<1>13. CASE Forget
  BY <1>13 DEF Forget, HeardInv, ArgInv, TodoTypes, MapConnectedInv, infoVars, deviceVars
<1>14. ASSUME NEW t \in Threads, OnDeviceAdded(t) PROVE MapConnectedInv'
  <2>1. pathOf[arg[t]] \in Devices => arg[t] \in Infos
    BY <1>14 DEF OnDeviceAdded, IInv, Types, ThreadTypes, ArgInv
  <2>2. UNCHANGED infoConnected /\ (AddDevice(arg[t]) \/ UNCHANGED deviceVars)
    BY <1>14 DEF OnDeviceAdded, infoVars
  <2> QED BY <2>1, <2>2 DEF AddDevice, deviceVars, IInv, Types, ProgramTypes, HeardInv, MapConnectedInv
<1>15. ASSUME NEW t \in Threads, RememberPrevious(t) PROVE MapConnectedInv'
  BY <1>15
    DEF RememberPrevious, HeardInv, ArgInv, TodoTypes, MapConnectedInv, infoVars, deviceVars
<1>16. ASSUME NEW t \in Threads, ClearActive(t) PROVE MapConnectedInv'
  BY <1>16 DEF ClearActive, HeardInv, ArgInv, TodoTypes, MapConnectedInv, infoVars, deviceVars
<1>17. ASSUME NEW t \in Threads, ReadConnected(t) PROVE MapConnectedInv'
  BY <1>17 DEF ReadConnected, HeardInv, ArgInv, TodoTypes, MapConnectedInv, infoVars, deviceVars
<1>18. ASSUME NEW t \in Threads, AssignActive(t) PROVE MapConnectedInv'
  BY <1>18 DEF AssignActive, HeardInv, TodoTypes, MapConnectedInv, infoVars, deviceVars
<1>19. ASSUME NEW i \in Infos, ConnectedChanged(i) PROVE MapConnectedInv'
  BY <1>19, ThreadsDiffer
    DEF ConnectedChanged, Take, Select, IInv, Types, HeardInv, ThreadTypes, InfoTypes,
        ProgramTypes, PathInv, ArgInv, TodoTypes, MapConnectedInv, infoVars
<1>20. ASSUME NEW i \in Infos, PairedChanged(i) PROVE MapConnectedInv'
  BY <1>20 DEF PairedChanged, Take, HeardInv, TodoTypes, MapConnectedInv, infoVars, deviceVars
<1>21. ASSUME NEW d \in Devices, Appear(d) PROVE MapConnectedInv'
  BY <1>21 DEF Appear, Event, HeardInv, TodoTypes, MapConnectedInv, infoVars, deviceVars
<1>22. ASSUME NEW d \in Devices, Vanish(d) PROVE MapConnectedInv'
  BY <1>22 DEF Vanish, Event, HeardInv, TodoTypes, MapConnectedInv, infoVars, deviceVars
<1>23. ASSUME NEW d \in Devices, ConnectedFlips(d) PROVE MapConnectedInv'
  BY <1>23 DEF ConnectedFlips, HeardInv, TodoTypes, MapConnectedInv, infoVars, deviceVars
<1>24. ASSUME NEW d \in Devices, Pairs(d) PROVE MapConnectedInv'
  BY <1>24 DEF Pairs, HeardInv, TodoTypes, MapConnectedInv, infoVars, deviceVars
<1>25. CASE UNCHANGED vars
  BY <1>25 DEF HeardInv, MapConnectedInv, deviceVars, infoVars, vars
<1>26. CASE RemovalBreaksOff
  BY <1>26, ThreadsDiffer
    DEF RemovalBreaksOff, Goto, IInv, Types, HeardInv, ThreadTypes, InfoTypes, ProgramTypes,
        PathInv, ArgInv, TodoTypes, MapConnectedInv, infoVars
<1> QED
  BY <1>1, <1>2, <1>3, <1>4, <1>5, <1>6, <1>7, <1>8, <1>9, <1>10, <1>11, <1>12, <1>13, <1>14,
     <1>15, <1>16, <1>17, <1>18, <1>19, <1>20, <1>21, <1>22, <1>23, <1>24, <1>25, <1>26
    DEF Next, Startup, BusStep, TrySelectNewActiveDevice

\* Signals are sent to objects that listen.
LEMMA FreshStep == IInv /\ HeardInv /\ [Next]_vars => FreshInv'
<1> SUFFICES ASSUME IInv, HeardInv, [Next]_vars PROVE FreshInv'
  OBVIOUS

<1>a. \A d \in Devices : d # NoDevice
  BY FetcherAssumption
<1>1. CASE FetchDevices
  BY <1>1 DEF FetchDevices, HeardInv, FreshInv, infoVars
<1>2. CASE ClearMaps
  BY <1>2 DEF ClearMaps, FreshInv
<1>3. CASE CreateFetched

  <2> DEFINE s == CHOOSE x \in todo : \A y \in todo : x.path <= y.path
  <2>1. s \in Snapshots
    BY <1>3, FetchedIsSnapshot DEF CreateFetched, IInv, Types, TodoTypes, Early
  <2>2. CreateInfo(Main, s, "create")
    BY <1>3 DEF CreateFetched
  <2>3. /\ s \in todo /\ todo' = todo \ {s} /\ pc[Main] = "create"
        /\ UNCHANGED <<bluezVars, deviceVars, active, subscribed, candidate, overlapped>>
    BY <1>3, FetchedIsSnapshot DEF CreateFetched, IInv, Types, TodoTypes, Early
  <2> HIDE DEF s

  <2>4. /\ NewInfo \in Infos /\ pathOf[NewInfo] = NoDevice /\ NewInfo # NoInfo
        /\ NewInfo \notin listening /\ NewInfo \notin paired
        /\ \A d \in Devices : devicesMap[d] # NewInfo /\ known[d] # NewInfo
        /\ \A t \in Threads : arg[t] # NewInfo
    BY <2>2, NewInfoUnused DEF CreateInfo

  <2> QED BY <2>1, <2>2, <2>4, <1>a DEF CreateInfo, Snapshots, IInv, Types, InfoTypes, HeardInv, FreshInv
<1>4. CASE AllFetched
  BY <1>4 DEF AllFetched, HeardInv, FreshInv, infoVars
<1>5. CASE BeginFill
  BY <1>5 DEF BeginFill, HeardInv, FreshInv, infoVars
<1>6. CASE Fill
  BY <1>6 DEF Fill, HeardInv, FreshInv, infoVars
<1>7. CASE Filled
  BY <1>7 DEF Filled, HeardInv, FreshInv, infoVars
<1>8. CASE Subscribe
  BY <1>8 DEF Subscribe, HeardInv, FreshInv, infoVars
<1>9. CASE HandleInterfacesAdded

  <2> DEFINE s == Head(announced)
  <2>1. s \in Snapshots
    BY <1>9, HeadTailProperties DEF HandleInterfacesAdded, IInv, Types, BluezTypes
  <2>2. CreateInfo(Bus, s, "idle")
    BY <1>9 DEF HandleInterfacesAdded
  <2>3. UNCHANGED <<deviceVars, active, subscribed, todo, candidate, overlapped>>
    BY <1>9 DEF HandleInterfacesAdded
  <2> HIDE DEF s

  <2>4. /\ NewInfo \in Infos /\ pathOf[NewInfo] = NoDevice /\ NewInfo # NoInfo
        /\ NewInfo \notin listening /\ NewInfo \notin paired
        /\ \A d \in Devices : devicesMap[d] # NewInfo /\ known[d] # NewInfo
        /\ \A t \in Threads : arg[t] # NewInfo
    BY <2>2, NewInfoUnused DEF CreateInfo

  <2> QED BY <2>1, <2>2, <2>4, <1>a DEF CreateInfo, Snapshots, IInv, Types, InfoTypes, HeardInv, FreshInv
<1>10. CASE HandleInterfacesRemoved
  BY <1>10 DEF HandleInterfacesRemoved, HeardInv, FreshInv, infoVars
<1>11. CASE StopListening
  BY <1>11 DEF StopListening, HeardInv, FreshInv
<1>12. CASE OnDeviceRemoved
  BY <1>12 DEF OnDeviceRemoved, HeardInv, InfoTypes, PathInv, FreshInv, infoVars
<1>13. CASE Forget
  BY <1>13 DEF Forget, HeardInv, FreshInv, infoVars
<1>14. ASSUME NEW t \in Threads, OnDeviceAdded(t) PROVE FreshInv'
  BY <1>14 DEF OnDeviceAdded, HeardInv, FreshInv, infoVars
<1>15. ASSUME NEW t \in Threads, RememberPrevious(t) PROVE FreshInv'
  BY <1>15 DEF RememberPrevious, HeardInv, FreshInv, infoVars
<1>16. ASSUME NEW t \in Threads, ClearActive(t) PROVE FreshInv'
  BY <1>16 DEF ClearActive, HeardInv, FreshInv, infoVars
<1>17. ASSUME NEW t \in Threads, ReadConnected(t) PROVE FreshInv'
  BY <1>17 DEF ReadConnected, HeardInv, FreshInv, infoVars
<1>18. ASSUME NEW t \in Threads, AssignActive(t) PROVE FreshInv'
  BY <1>18 DEF AssignActive, HeardInv, FreshInv, infoVars
<1>19. ASSUME NEW i \in Infos, ConnectedChanged(i) PROVE FreshInv'
  BY <1>19 DEF ConnectedChanged, Take, HeardInv, FreshInv
<1>20. ASSUME NEW i \in Infos, PairedChanged(i) PROVE FreshInv'
  BY <1>20 DEF PairedChanged, Take, HeardInv, FreshInv
<1>21. ASSUME NEW d \in Devices, Appear(d) PROVE FreshInv'
  BY <1>21 DEF Appear, Event, HeardInv, FreshInv, infoVars
<1>22. ASSUME NEW d \in Devices, Vanish(d) PROVE FreshInv'
  BY <1>22 DEF Vanish, Event, HeardInv, FreshInv, infoVars
<1>23. ASSUME NEW d \in Devices, ConnectedFlips(d) PROVE FreshInv'
  BY <1>23, <1>a DEF ConnectedFlips, Signal, HeardInv, FreshInv
<1>24. ASSUME NEW d \in Devices, Pairs(d) PROVE FreshInv'
  BY <1>24, <1>a DEF Pairs, Signal, HeardInv, FreshInv
<1>25. CASE UNCHANGED vars
  BY <1>25 DEF HeardInv, FreshInv, infoVars, vars
<1>26. CASE RemovalBreaksOff
  BY <1>26
    DEF RemovalBreaksOff, Goto, HeardInv, InfoTypes, PathInv, FreshInv, infoVars
<1> QED
  BY <1>1, <1>2, <1>3, <1>4, <1>5, <1>6, <1>7, <1>8, <1>9, <1>10, <1>11, <1>12, <1>13, <1>14,
     <1>15, <1>16, <1>17, <1>18, <1>19, <1>20, <1>21, <1>22, <1>23, <1>24, <1>25, <1>26
    DEF Next, Startup, BusStep, TrySelectNewActiveDevice

\* Before the program is ready, what happens to a device is not heard of.
LEMMA QuietStep == IInv /\ HeardInv /\ [Next]_vars => QuietInv'
<1> SUFFICES ASSUME IInv, HeardInv, [Next]_vars PROVE QuietInv'
  OBVIOUS

<1>a. /\ announced \in Seq(Snapshots) /\ unheard \subseteq Devices
      /\ \A d \in Devices : d # NoDevice
  BY FetcherAssumption DEF IInv, Types, BluezTypes
<1>b. ASSUME NEW d \in Devices, NEW b, Event(d, b), ~Started
      PROVE  Heard' \subseteq Heard \ {d}
  BY <1>b DEF Event, Heard
<1>1. CASE FetchDevices
  BY <1>1, <1>a, ThreadsDiffer
    DEF FetchDevices, Goto, IInv, Types, InfoTypes, ThreadTypes, HeardInv, QuietInv, Heard,
        Settled, Started, Removing, Selecting, PlaceInv, ResumeInv, Selected, Announced,
        bluezVars, infoVars
<1>2. CASE ClearMaps
  BY <1>2, <1>a, ThreadsDiffer
    DEF ClearMaps, Goto, IInv, Types, InfoTypes, ThreadTypes, HeardInv, QuietInv, Heard, Settled,
        Started, Removing, Selecting, PlaceInv, ResumeInv, Selected, Announced, bluezVars,
        infoVars
<1>3. CASE CreateFetched

  <2> DEFINE s == CHOOSE x \in todo : \A y \in todo : x.path <= y.path
  <2>1. s \in Snapshots
    BY <1>3, FetchedIsSnapshot DEF CreateFetched, IInv, Types, TodoTypes, Early
  <2>2. CreateInfo(Main, s, "create")
    BY <1>3 DEF CreateFetched
  <2>3. /\ s \in todo /\ todo' = todo \ {s} /\ pc[Main] = "create"
        /\ UNCHANGED <<bluezVars, deviceVars, active, subscribed, candidate, overlapped>>
    BY <1>3, FetchedIsSnapshot DEF CreateFetched, IInv, Types, TodoTypes, Early
  <2> HIDE DEF s

  <2>4. /\ NewInfo \in Infos /\ pathOf[NewInfo] = NoDevice /\ NewInfo # NoInfo
        /\ NewInfo \notin listening /\ NewInfo \notin paired
        /\ \A d \in Devices : devicesMap[d] # NewInfo /\ known[d] # NewInfo
        /\ \A t \in Threads : arg[t] # NewInfo
    BY <2>2, NewInfoUnused DEF CreateInfo

  <2> QED BY <2>1, <2>2, <2>3, <2>4, <1>a, ThreadsDiffer
      DEF CreateInfo, Snapshots, ListenInv, FreshInv, PathInv, ArgInv, bluezVars, IInv, Types,
          InfoTypes, ThreadTypes, HeardInv, QuietInv, Heard, Settled, Started, Removing, Selecting
<1>4. CASE AllFetched
  BY <1>4, <1>a, ThreadsDiffer
    DEF AllFetched, Goto, IInv, Types, InfoTypes, ThreadTypes, HeardInv, QuietInv, Heard, Settled,
        Started, Removing, Selecting, PlaceInv, ResumeInv, Selected, Announced, bluezVars,
        infoVars
<1>5. CASE BeginFill
  BY <1>5, <1>a, ThreadsDiffer
    DEF BeginFill, Goto, IInv, Types, InfoTypes, ThreadTypes, HeardInv, QuietInv, Heard, Settled,
        Started, Removing, Selecting, PlaceInv, ResumeInv, Selected, Announced, bluezVars,
        infoVars
<1>6. CASE Fill
  BY <1>6, <1>a, ThreadsDiffer
    DEF Fill, AddDevice, IInv, Types, InfoTypes, ThreadTypes, HeardInv, QuietInv, Heard, Settled,
        Started, Removing, Selecting, PlaceInv, ResumeInv, Selected, Announced, bluezVars,
        infoVars
<1>7. CASE Filled
  BY <1>7, <1>a, ThreadsDiffer
    DEF Filled, Select, IInv, Types, InfoTypes, ThreadTypes, HeardInv, QuietInv, Heard, Settled,
        Started, Removing, Selecting, PlaceInv, ResumeInv, Selected, Announced, bluezVars,
        infoVars
<1>8. CASE Subscribe
  BY <1>8, <1>a, ThreadsDiffer
    DEF Subscribe, Goto, IInv, Types, InfoTypes, ThreadTypes, HeardInv, QuietInv, Heard, Settled,
        Started, Removing, bluezVars, infoVars
<1>9. CASE HandleInterfacesAdded

  <2> DEFINE s == Head(announced)
  <2>1. s \in Snapshots
    BY <1>9, HeadTailProperties DEF HandleInterfacesAdded, IInv, Types, BluezTypes
  <2>2. CreateInfo(Bus, s, "idle")
    BY <1>9 DEF HandleInterfacesAdded
  <2>3. UNCHANGED <<deviceVars, active, subscribed, todo, candidate, overlapped>>
    BY <1>9 DEF HandleInterfacesAdded
  <2> HIDE DEF s

  <2>4. /\ NewInfo \in Infos /\ pathOf[NewInfo] = NoDevice /\ NewInfo # NoInfo
        /\ NewInfo \notin listening /\ NewInfo \notin paired
        /\ \A d \in Devices : devicesMap[d] # NewInfo /\ known[d] # NewInfo
        /\ \A t \in Threads : arg[t] # NewInfo
    BY <2>2, NewInfoUnused DEF CreateInfo

  <2>5. /\ announced # <<>> /\ announced' = Tail(announced) /\ UNCHANGED <<unheard, present, bConnected, bPaired>>
        /\ \A d \in Heard : Settled(d) => s.path # d
    BY <1>9, TailMoves DEF HandleInterfacesAdded, Settled, s

  <2> QED BY <2>1, <2>2, <2>4, <2>5, <1>a, TailMoves, ThreadsDiffer
      DEF CreateInfo, Snapshots, ListenInv, FreshInv, PathInv, ArgInv, IInv, Types, InfoTypes,
          ThreadTypes, HeardInv, QuietInv, Heard, Settled, Started, Removing, Selecting
<1>10. CASE HandleInterfacesRemoved

  <2>1. announced # <<>> /\ announced' = Tail(announced) /\ UNCHANGED unheard
    BY <1>10 DEF HandleInterfacesRemoved
  <2>2. \A d \in Heard : Settled(d) => Head(announced).path # d
    BY <2>1, TailMoves DEF Settled
  <2>3. Head(announced).path \in Devices
    <3>1. Head(announced) \in Snapshots
      BY <1>a, <2>1, HeadTailProperties
    <3> QED BY <3>1 DEF Snapshots
  <2> QED BY <1>10, <1>a, <2>1, <2>2, <2>3, TailMoves, ThreadsDiffer
      DEF HandleInterfacesRemoved, Goto, PathInv, ProgramTypes, infoVars, IInv, Types, InfoTypes,
          ThreadTypes, HeardInv, QuietInv, Heard, Settled, Started, Removing, Selecting
<1>11. CASE StopListening
  BY <1>11, <1>a, ThreadsDiffer
    DEF StopListening, Goto, IInv, Types, InfoTypes, ThreadTypes, HeardInv, QuietInv, Heard,
        Settled, Started, Removing, bluezVars, infoVars
<1>12. CASE OnDeviceRemoved
  BY <1>12, <1>a, ThreadsDiffer
    DEF OnDeviceRemoved, Select, Goto, IInv, Types, InfoTypes, ThreadTypes, HeardInv, QuietInv,
        Heard, Settled, Started, Removing, Selecting, PlaceInv, ResumeInv, Selected, Announced,
        bluezVars, infoVars
<1>13. CASE Forget
  BY <1>13, <1>a, ThreadsDiffer
    DEF Forget, Goto, IInv, Types, InfoTypes, ThreadTypes, HeardInv, QuietInv, Heard, Settled,
        Started, Removing, bluezVars, infoVars
<1>14. ASSUME NEW t \in Threads, OnDeviceAdded(t) PROVE QuietInv'
  BY <1>14, <1>a, ThreadsDiffer
    DEF OnDeviceAdded, AddDevice, IInv, Types, InfoTypes, ThreadTypes, HeardInv, QuietInv, Heard,
        Settled, Started, Removing, Selecting, PlaceInv, ResumeInv, Selected, Announced,
        bluezVars, infoVars
<1>15. ASSUME NEW t \in Threads, RememberPrevious(t) PROVE QuietInv'
  BY <1>15, <1>a, ThreadsDiffer
    DEF RememberPrevious, Goto, IInv, Types, InfoTypes, ThreadTypes, HeardInv, QuietInv, Heard,
        Settled, Started, Removing, Selecting, PlaceInv, ResumeInv, Selected, Announced,
        bluezVars, infoVars
<1>16. ASSUME NEW t \in Threads, ClearActive(t) PROVE QuietInv'
  BY <1>16, <1>a, ThreadsDiffer
    DEF ClearActive, Goto, IInv, Types, InfoTypes, ThreadTypes, HeardInv, QuietInv, Heard,
        Settled, Started, Removing, Selecting, PlaceInv, ResumeInv, Selected, Announced,
        bluezVars, infoVars
<1>17. ASSUME NEW t \in Threads, ReadConnected(t) PROVE QuietInv'
  BY <1>17, <1>a, ThreadsDiffer
    DEF ReadConnected, Goto, IInv, Types, InfoTypes, ThreadTypes, HeardInv, QuietInv, Heard,
        Settled, Started, Removing, Selecting, PlaceInv, ResumeInv, Selected, Announced,
        bluezVars, infoVars
<1>18. ASSUME NEW t \in Threads, AssignActive(t) PROVE QuietInv'
  BY <1>18, <1>a, ThreadsDiffer
    DEF AssignActive, IInv, Types, InfoTypes, ThreadTypes, HeardInv, QuietInv, Heard, Settled,
        Started, Removing, Selecting, PlaceInv, ResumeInv, Selected, Announced, bluezVars,
        infoVars
<1>19. ASSUME NEW i \in Infos, ConnectedChanged(i) PROVE QuietInv'
  BY <1>19, <1>a, ThreadsDiffer
    DEF ConnectedChanged, Take, Select, IInv, Types, InfoTypes, ThreadTypes, HeardInv, QuietInv,
        Heard, Settled, Started, Removing, Selecting, PlaceInv, ResumeInv, Selected, Announced,
        bluezVars
<1>20. ASSUME NEW i \in Infos, PairedChanged(i) PROVE QuietInv'
  BY <1>20, <1>a, ThreadsDiffer
    DEF PairedChanged, Take, IInv, Types, InfoTypes, ThreadTypes, HeardInv, QuietInv, Heard,
        Settled, Started, Removing, Selecting, PlaceInv, ResumeInv, Selected, Announced,
        bluezVars, infoVars
<1>21. ASSUME NEW d \in Devices, Appear(d) PROVE QuietInv'
  <2> DEFINE e == [added |-> TRUE, path |-> d, connected |-> FALSE, paired |-> FALSE]
  <2>1. ~Started => Heard' \subseteq Heard \ {d}
    BY <1>21, <1>b DEF Appear
  <2>2. e \in Snapshots /\ e.path = d
    BY DEF Snapshots
  <2>3. announced' = Append(announced, e)
    BY <1>21 DEF Appear
  <2>4. UNCHANGED <<infoVars, pc, arg>>
    BY <1>21 DEF Appear
  <2> HIDE DEF e
  <2>5. ASSUME NEW c \in Heard, c # d, Settled(c)
        PROVE  Settled(c)'
    BY <1>a, <2>2, <2>3, <2>5, AppendMoves DEF Settled
  <2> QED BY <2>1, <2>4, <2>5
      DEF infoVars, HeardInv, QuietInv, Started, Removing, Selecting
<1>22. ASSUME NEW d \in Devices, Vanish(d) PROVE QuietInv'
  <2> DEFINE e == [added |-> FALSE, path |-> d, connected |-> FALSE, paired |-> FALSE]
  <2>1. ~Started => Heard' \subseteq Heard \ {d}
    BY <1>22, <1>b DEF Vanish
  <2>2. e \in Snapshots /\ e.path = d
    BY DEF Snapshots
  <2>3. announced' = Append(announced, e)
    BY <1>22 DEF Vanish
  <2>4. UNCHANGED <<infoVars, pc, arg>>
    BY <1>22 DEF Vanish
  <2> HIDE DEF e
  <2>5. ASSUME NEW c \in Heard, c # d, Settled(c)
        PROVE  Settled(c)'
    BY <1>a, <2>2, <2>3, <2>5, AppendMoves DEF Settled
  <2> QED BY <2>1, <2>4, <2>5
      DEF infoVars, HeardInv, QuietInv, Started, Removing, Selecting
<1>23. ASSUME NEW d \in Devices, ConnectedFlips(d) PROVE QuietInv'
  <2>1. ~Started => Heard' \subseteq Heard \ {d}
    BY <1>23, <1>b DEF ConnectedFlips, Signal
  <2> QED BY <1>23, <2>1, <1>a, AppendMoves, ThreadsDiffer DEF ConnectedFlips, Signal, Event, Snapshots, infoVars, IInv, Types, InfoTypes, ThreadTypes, HeardInv, QuietInv, Heard, Settled, Started, Removing, Selecting
<1>24. ASSUME NEW d \in Devices, Pairs(d) PROVE QuietInv'
  <2>1. ~Started => Heard' \subseteq Heard \ {d}
    BY <1>24, <1>b DEF Pairs, Signal
  <2> QED BY <1>24, <2>1, <1>a, AppendMoves, ThreadsDiffer DEF Pairs, Signal, Event, Snapshots, infoVars, IInv, Types, InfoTypes, ThreadTypes, HeardInv, QuietInv, Heard, Settled, Started, Removing, Selecting
<1>25. CASE UNCHANGED vars
  BY <1>25
    DEF vars, bluezVars, infoVars, IInv, Types, InfoTypes, ThreadTypes, HeardInv, QuietInv, Heard,
        Settled, Started, Removing, Selecting
<1>26. CASE RemovalBreaksOff
  BY <1>26, ThreadsDiffer
    DEF RemovalBreaksOff, Goto, IInv, Types, InfoTypes, ThreadTypes, HeardInv, QuietInv, Heard,
        Settled, Started, Removing, Selecting, PlaceInv, ResumeInv, Selected, Announced, infoVars
<1> QED
  BY <1>1, <1>2, <1>3, <1>4, <1>5, <1>6, <1>7, <1>8, <1>9, <1>10, <1>11, <1>12, <1>13, <1>14,
     <1>15, <1>16, <1>17, <1>18, <1>19, <1>20, <1>21, <1>22, <1>23, <1>24, <1>25, <1>26
    DEF Next, Startup, BusStep, TrySelectNewActiveDevice

\* Main makes one object of every device that is present.
LEMMA FetchStep == IInv /\ HeardInv /\ [Next]_vars => FetchInv'
<1> SUFFICES ASSUME IInv, HeardInv, [Next]_vars PROVE FetchInv'
  OBVIOUS

<1>a. /\ announced \in Seq(Snapshots) /\ unheard \subseteq Devices
      /\ \A d \in Devices : d # NoDevice
  BY FetcherAssumption DEF IInv, Types, BluezTypes
<1>b. ASSUME NEW d \in Devices, NEW b, Event(d, b), ~Started
      PROVE  Heard' \subseteq Heard \ {d}
  BY <1>b DEF Event, Heard
<1>c. \A d \in Heard : d \in Devices
  BY DEF Heard
<1>d. ASSUME ~Started => \A c \in Heard' :
               /\ c \in Heard /\ (c \in present' <=> c \in present)
               /\ bConnected'[c] = bConnected[c] /\ bPaired'[c] = bPaired[c],
             UNCHANGED <<pc, todo, known, pathOf>>
      PROVE  FetchInv'
  BY <1>d DEF HeardInv, FetchInv, Early, Started, Snapshot
<1>1. CASE FetchDevices

  <2>0. todo' = {Snapshot(d) : d \in present} /\ \A d \in Devices : Snapshot(d).path = d
    BY <1>1 DEF FetchDevices, Snapshot
  <2>1. \A c \in Heard : c \in present <=> \E s \in todo' : s.path = c
    BY <2>0 DEF IInv, Types, BluezTypes
  <2>2. \A s \in todo' : s = Snapshot(s.path)
    BY <2>0 DEF IInv, Types, BluezTypes
  <2>3. \A c \in Heard : \A i \in Infos : pathOf[i] # c
    BY <1>1 DEF FetchDevices, Goto, HeardInv, FetchInv
  <2>4. pc'[Main] = "clearMaps"
    BY <1>1, ThreadsDiffer DEF FetchDevices, Goto, IInv, Types, ThreadTypes
  <2>5. UNCHANGED <<present, bConnected, bPaired, unheard, pathOf>>
    BY <1>1 DEF FetchDevices, bluezVars, infoVars
  <2> QED BY <2>1, <2>2, <2>3, <2>4, <2>5 DEF FetchInv, Heard, Early, Snapshot
<1>2. CASE ClearMaps
  BY <1>2
    DEF ClearMaps, Goto, HeardInv, FetchInv, Heard, Early, Started, Snapshot, PlaceInv, ResumeInv,
        Selected, Announced, Selecting, Removing, bluezVars, infoVars, serviceVars
<1>3. CASE CreateFetched

  <2> DEFINE s == CHOOSE x \in todo : \A y \in todo : x.path <= y.path
  <2>1. s \in Snapshots
    BY <1>3, FetchedIsSnapshot DEF CreateFetched, IInv, Types, TodoTypes, Early
  <2>2. CreateInfo(Main, s, "create")
    BY <1>3 DEF CreateFetched
  <2>3. /\ s \in todo /\ todo' = todo \ {s} /\ pc[Main] = "create"
        /\ UNCHANGED <<bluezVars, deviceVars, active, subscribed, candidate, overlapped>>
    BY <1>3, FetchedIsSnapshot DEF CreateFetched, IInv, Types, TodoTypes, Early
  <2> HIDE DEF s

  <2>4. /\ NewInfo \in Infos /\ pathOf[NewInfo] = NoDevice /\ NewInfo # NoInfo
        /\ NewInfo \notin listening /\ NewInfo \notin paired
        /\ \A d \in Devices : devicesMap[d] # NewInfo /\ known[d] # NewInfo
        /\ \A t \in Threads : arg[t] # NewInfo
    BY <2>2, NewInfoUnused DEF CreateInfo

  <2>5. /\ known' = [known EXCEPT ![s.path] = NewInfo]
        /\ pathOf' = [pathOf EXCEPT ![NewInfo] = s.path]
        /\ pc'[Main] \in {"create", "deviceAdded"}
        /\ UNCHANGED <<present, bConnected, bPaired, unheard>>
    BY <2>2, <2>3 DEF CreateInfo, bluezVars
  <2>6. s.path \in Devices /\ known \in [Devices -> Infos \cup {NoInfo}]
    BY <2>1 DEF Snapshots, IInv, Types, ProgramTypes
  <2>7. \A c \in Heard : /\ \A x \in todo : x.path = c => x = Snapshot(c)
                         /\ c \in present <=> known[c] # NoInfo \/ \E x \in todo : x.path = c
                         /\ known[c] # NoInfo => \A x \in todo : x.path # c
    BY <2>3 DEF HeardInv, FetchInv, Early
  <2>8. \A c \in Heard : /\ \A x \in todo' : x.path = c => x = Snapshot(c)
                         /\ c \in present <=> known'[c] # NoInfo \/ \E x \in todo' : x.path = c
                         /\ known'[c] # NoInfo => \A x \in todo' : x.path # c
    <3> SUFFICES ASSUME NEW c \in Heard
                 PROVE  /\ \A x \in todo' : x.path = c => x = Snapshot(c)
                        /\ c \in present <=> known'[c] # NoInfo \/ \E x \in todo' : x.path = c
                        /\ known'[c] # NoInfo => \A x \in todo' : x.path # c
      OBVIOUS
    <3>1. CASE s.path = c
      BY <2>3, <2>4, <2>5, <2>6, <2>7, <3>1
    <3>2. CASE s.path # c
      BY <2>3, <2>5, <2>6, <2>7, <3>2
    <3> QED BY <3>1, <3>2
  <2> QED BY <2>5, <2>8 DEF FetchInv, Heard, Early, Snapshot
<1>4. CASE AllFetched
  BY <1>4
    DEF AllFetched, Goto, HeardInv, FetchInv, Heard, Early, Started, Announced, Selecting,
        Removing, bluezVars, infoVars, serviceVars
<1>5. CASE BeginFill
  BY <1>5, ThreadsDiffer DEF BeginFill, Goto, IInv, Types, ThreadTypes, FetchInv, Heard, Early
<1>6. CASE Fill
  BY <1>6 DEF Fill, FetchInv, Heard, Early, Started, Snapshot, PlaceInv
<1>7. CASE Filled
  BY <1>7 DEF Filled, Select, FetchInv
<1>8. CASE Subscribe
  BY <1>8 DEF Subscribe, Goto, FetchInv, Heard, Early, Started, Snapshot
<1>9. CASE HandleInterfacesAdded

  <2> DEFINE s == Head(announced)
  <2>1. s \in Snapshots
    BY <1>9, HeadTailProperties DEF HandleInterfacesAdded, IInv, Types, BluezTypes
  <2>2. CreateInfo(Bus, s, "idle")
    BY <1>9 DEF HandleInterfacesAdded
  <2>3. UNCHANGED <<deviceVars, active, subscribed, todo, candidate, overlapped>>
    BY <1>9 DEF HandleInterfacesAdded
  <2> HIDE DEF s

  <2>4. /\ NewInfo \in Infos /\ pathOf[NewInfo] = NoDevice /\ NewInfo # NoInfo
        /\ NewInfo \notin listening /\ NewInfo \notin paired
        /\ \A d \in Devices : devicesMap[d] # NewInfo /\ known[d] # NewInfo
        /\ \A t \in Threads : arg[t] # NewInfo
    BY <2>2, NewInfoUnused DEF CreateInfo

  <2>5. /\ announced # <<>> /\ announced' = Tail(announced) /\ UNCHANGED <<unheard, present, bConnected, bPaired>>
        /\ \A d \in Heard : Settled(d) => s.path # d
    BY <1>9, TailMoves DEF HandleInterfacesAdded, Settled, s

  <2> QED BY <2>1, <2>2, <2>3, <2>4, <2>5, <1>a, ThreadsDiffer
      DEF CreateInfo, Snapshots, InfoTypes, IInv, Types, ThreadTypes, ProgramTypes, HeardInv,
          QuietInv, FetchInv, Heard, Early, Started, Snapshot
<1>10. CASE HandleInterfacesRemoved
  BY <1>10
    DEF HandleInterfacesRemoved, Goto, HeardInv, FetchInv, Heard, Early, Started, Snapshot,
        PlaceInv, ResumeInv, Selected, infoVars, serviceVars
<1>11. CASE StopListening
  BY <1>11
    DEF StopListening, Goto, HeardInv, FetchInv, Heard, Early, Started, Snapshot, PlaceInv,
        ResumeInv, Selected, Announced, Selecting, Removing, bluezVars, infoVars, serviceVars
<1>12. CASE OnDeviceRemoved
  BY <1>12, <1>a, ThreadsDiffer
    DEF OnDeviceRemoved, Select, Goto, IInv, Types, ThreadTypes, ProgramTypes, HeardInv, QuietInv,
        FetchInv, Heard, Early, Started, Snapshot, PlaceInv, ResumeInv, Selected, Announced,
        Selecting, Removing, bluezVars, infoVars, serviceVars
<1>13. CASE Forget
  BY <1>13, <1>a, ThreadsDiffer
    DEF Forget, Goto, IInv, Types, ThreadTypes, ProgramTypes, HeardInv, QuietInv, FetchInv, Heard,
        Early, Started, Snapshot, PlaceInv, ResumeInv, Selected, Announced, Selecting, Removing,
        bluezVars, infoVars
<1>14. ASSUME NEW t \in Threads, OnDeviceAdded(t) PROVE FetchInv'
  BY <1>14
    DEF OnDeviceAdded, IInv, HeardInv, FetchInv, Heard, Early, Started, Snapshot, PlaceInv,
        ResumeInv, Selected, Announced, Selecting, Removing, bluezVars, infoVars, serviceVars
<1>15. ASSUME NEW t \in Threads, RememberPrevious(t) PROVE FetchInv'
  BY <1>15
    DEF RememberPrevious, Goto, HeardInv, FetchInv, Heard, Early, Started, Snapshot, PlaceInv,
        ResumeInv, Selected, Announced, Selecting, Removing, bluezVars, infoVars, serviceVars
<1>16. ASSUME NEW t \in Threads, ClearActive(t) PROVE FetchInv'
  BY <1>16
    DEF ClearActive, Goto, HeardInv, FetchInv, Heard, Early, Started, Snapshot, PlaceInv,
        ResumeInv, Selected, Announced, Selecting, Removing, bluezVars, infoVars, serviceVars
<1>17. ASSUME NEW t \in Threads, ReadConnected(t) PROVE FetchInv'
  BY <1>17
    DEF ReadConnected, Goto, HeardInv, FetchInv, Heard, Early, Started, Snapshot, PlaceInv,
        ResumeInv, Selected, Announced, Selecting, Removing, bluezVars, infoVars, serviceVars
<1>18. ASSUME NEW t \in Threads, AssignActive(t) PROVE FetchInv'
  BY <1>18, <1>a, ThreadsDiffer
    DEF AssignActive, IInv, Types, ThreadTypes, ProgramTypes, HeardInv, QuietInv, FetchInv, Heard,
        Early, Started, Snapshot, PlaceInv, ResumeInv, Selected, Announced, Selecting, Removing,
        bluezVars, infoVars, serviceVars
<1>19. ASSUME NEW i \in Infos, ConnectedChanged(i) PROVE FetchInv'
  BY <1>19, ThreadsDiffer
    DEF ConnectedChanged, Take, Select, IInv, Types, ThreadTypes, HeardInv, FetchInv, Heard,
        Early, Started, Snapshot, PlaceInv, ResumeInv, Selected, Announced, Selecting, Removing,
        bluezVars, infoVars, serviceVars
<1>20. ASSUME NEW i \in Infos, PairedChanged(i) PROVE FetchInv'
  BY <1>20, <1>a, ThreadsDiffer
    DEF PairedChanged, Take, IInv, Types, ThreadTypes, ProgramTypes, HeardInv, QuietInv, FetchInv,
        Heard, Early, Started, Snapshot, PlaceInv, ResumeInv, Selected, Announced, Selecting,
        Removing, bluezVars, infoVars
<1>21. ASSUME NEW d \in Devices, Appear(d) PROVE FetchInv'
  <2>1. ~Started => Heard' \subseteq Heard \ {d}
    BY <1>21, <1>b DEF Appear
  <2>2. UNCHANGED <<pc, todo, known, pathOf>>
    BY <1>21 DEF Appear, infoVars, serviceVars
  <2> QED BY <1>21, <2>1, <2>2, <1>c, <1>d DEF Appear, IInv, Types, BluezTypes
<1>22. ASSUME NEW d \in Devices, Vanish(d) PROVE FetchInv'
  <2>1. ~Started => Heard' \subseteq Heard \ {d}
    BY <1>22, <1>b DEF Vanish
  <2>2. UNCHANGED <<pc, todo, known, pathOf>>
    BY <1>22 DEF Vanish, infoVars, serviceVars
  <2> QED BY <1>22, <2>1, <2>2, <1>c, <1>d DEF Vanish, IInv, Types, BluezTypes
<1>23. ASSUME NEW d \in Devices, ConnectedFlips(d) PROVE FetchInv'
  <2>1. ~Started => Heard' \subseteq Heard \ {d}
    BY <1>23, <1>b DEF ConnectedFlips
  <2>2. UNCHANGED <<pc, todo, known, pathOf>>
    BY <1>23 DEF ConnectedFlips, serviceVars
  <2> QED BY <1>23, <2>1, <2>2, <1>c, <1>d DEF ConnectedFlips, IInv, Types, BluezTypes
<1>24. ASSUME NEW d \in Devices, Pairs(d) PROVE FetchInv'
  <2>1. ~Started => Heard' \subseteq Heard \ {d}
    BY <1>24, <1>b DEF Pairs
  <2>2. UNCHANGED <<pc, todo, known, pathOf>>
    BY <1>24 DEF Pairs, serviceVars
  <2> QED BY <1>24, <2>1, <2>2, <1>c, <1>d DEF Pairs, IInv, Types, BluezTypes
<1>25. CASE UNCHANGED vars
  BY <1>25
    DEF vars, bluezVars, infoVars, serviceVars, IInv, Types, ThreadTypes, ProgramTypes, HeardInv,
        QuietInv, FetchInv, Heard, Early, Started, Snapshot
<1>26. CASE RemovalBreaksOff
  BY <1>26, ThreadsDiffer
    DEF RemovalBreaksOff, Goto, IInv, Types, ThreadTypes, ProgramTypes, HeardInv, QuietInv,
        FetchInv, Heard, Early, Started, Snapshot, PlaceInv, ResumeInv, Selected, Announced,
        Selecting, Removing, infoVars, serviceVars
<1> QED
  BY <1>1, <1>2, <1>3, <1>4, <1>5, <1>6, <1>7, <1>8, <1>9, <1>10, <1>11, <1>12, <1>13, <1>14,
     <1>15, <1>16, <1>17, <1>18, <1>19, <1>20, <1>21, <1>22, <1>23, <1>24, <1>25, <1>26
    DEF Next, Startup, BusStep, TrySelectNewActiveDevice

\* A device keeps one object that listens.
LEMMA ObjectStep == IInv /\ HeardInv /\ [Next]_vars => ObjectInv'
<1> SUFFICES ASSUME IInv, HeardInv, [Next]_vars PROVE ObjectInv'
  OBVIOUS

<1>a. \A d \in Devices : d # NoDevice
  BY FetcherAssumption
<1>1. CASE FetchDevices
  BY <1>1, <1>a, ThreadsDiffer
    DEF FetchDevices, Goto, IInv, Types, InfoTypes, ProgramTypes, ThreadTypes, HeardInv,
        ObjectInv, Heard, Removing, Stopped, Selecting, PlaceInv, ResumeInv, Selected, Announced,
        PathInv, ArgInv, bluezVars, infoVars, serviceVars
<1>2. CASE ClearMaps
  BY <1>2
    DEF ClearMaps, Goto, QuietInv, Started, bluezVars, ProgramTypes, ThreadTypes, HeardInv,
        ObjectInv, Heard, Removing, Stopped, Selecting
<1>3. CASE CreateFetched

  <2> DEFINE s == CHOOSE x \in todo : \A y \in todo : x.path <= y.path
  <2>1. s \in Snapshots
    BY <1>3, FetchedIsSnapshot DEF CreateFetched, IInv, Types, TodoTypes, Early
  <2>2. CreateInfo(Main, s, "create")
    BY <1>3 DEF CreateFetched
  <2>3. /\ s \in todo /\ todo' = todo \ {s} /\ pc[Main] = "create"
        /\ UNCHANGED <<bluezVars, deviceVars, active, subscribed, candidate, overlapped>>
    BY <1>3, FetchedIsSnapshot DEF CreateFetched, IInv, Types, TodoTypes, Early
  <2> HIDE DEF s

  <2>4. /\ NewInfo \in Infos /\ pathOf[NewInfo] = NoDevice /\ NewInfo # NoInfo
        /\ NewInfo \notin listening /\ NewInfo \notin paired
        /\ \A d \in Devices : devicesMap[d] # NewInfo /\ known[d] # NewInfo
        /\ \A t \in Threads : arg[t] # NewInfo
    BY <2>2, NewInfoUnused DEF CreateInfo

  <2>5. known' = [known EXCEPT ![s.path] = NewInfo] /\ s.path \in Devices
    BY <2>1, <2>2 DEF CreateInfo, Snapshots
  <2>6. /\ pathOf' = [pathOf EXCEPT ![NewInfo] = s.path]
        /\ listening' = (listening \ ({known[s.path]} \ (paired \cup {devicesMap[s.path]})))
                        \cup {NewInfo}
    BY <2>2 DEF CreateInfo
  <2>7. /\ arg' = [arg EXCEPT ![Main] = NewInfo]
        /\ pc' = [pc EXCEPT ![Main] = IF s.paired THEN "deviceAdded" ELSE "create"]
        /\ UNCHANGED unheard
    BY <2>2, <2>3 DEF CreateInfo, bluezVars
  <2>8. s.path \in Heard => known[s.path] = NoInfo
    BY <2>3 DEF HeardInv, FetchInv
  <2> SUFFICES ASSUME NEW c \in Heard
               PROVE  /\ known'[c] # NoInfo => \/ known'[c] \in listening'
                                               \/ Stopped' /\ arg'[Bus] = known'[c]
                      /\ \A i \in listening' : pathOf'[i] = c => i = known'[c]
                      /\ Removing' /\ pathOf'[arg'[Bus]] = c => arg'[Bus] = known'[c]
                      /\ \A i \in Infos : pathOf'[i] = c /\ pc'[i] = "deviceAdded" => arg'[i] = i
    BY <2>7 DEF ObjectInv, Heard
  <2>9. c \in Devices /\ NoInfo \notin Infos
    BY FetcherAssumption DEF Heard
  <2>10. /\ known[c] # NoInfo => \/ known[c] \in listening
                                 \/ Stopped /\ arg[Bus] = known[c]
         /\ \A i \in listening : pathOf[i] = c => i = known[c]
         /\ Removing /\ pathOf[arg[Bus]] = c => arg[Bus] = known[c]
         /\ \A i \in Infos : pathOf[i] = c /\ pc[i] = "deviceAdded" => arg[i] = i
    BY DEF HeardInv, ObjectInv
  <2>11. pc[NewInfo] = "idle" /\ pc'[NewInfo] = "idle"
    BY <2>4, <2>7, ThreadsDiffer DEF HeardInv, ListenInv
  <2>12. (Removing' <=> Removing) /\ (Stopped' <=> Stopped) /\ (Removing => arg'[Bus] = arg[Bus])
    BY <2>7, ThreadsDiffer DEF Removing, Stopped, Selecting
  <2>13. known'[c] # NoInfo => known'[c] \in listening' \/ (Stopped' /\ arg'[Bus] = known'[c])
    <3>1. CASE s.path = c
      BY <2>5, <2>6, <3>1 DEF IInv, Types, ProgramTypes
    <3>2. CASE s.path # c
      <4>1. known'[c] = known[c] /\ (known[c] # NoInfo => known[c] # known[s.path])
        BY <2>5, <2>9, <3>2 DEF IInv, Types, PathInv
      <4> QED BY <2>6, <2>10, <2>12, <4>1 DEF Stopped
    <3> QED BY <3>1, <3>2
  <2>14. \A i \in listening' : pathOf'[i] = c => i = known'[c]
    <3>1. CASE s.path = c
      BY <2>4, <2>5, <2>6, <2>8, <2>9, <2>10, <3>1 DEF IInv, Types, InfoTypes, ProgramTypes
    <3>2. CASE s.path # c
      BY <2>4, <2>5, <2>6, <2>9, <2>10, <3>2 DEF IInv, Types, InfoTypes
    <3> QED BY <3>1, <3>2
  <2>15. Removing' /\ pathOf'[arg'[Bus]] = c => arg'[Bus] = known'[c]
    <3>1. SUFFICES ASSUME Removing, pathOf'[arg[Bus]] = c PROVE arg[Bus] = known'[c]
      BY <2>12
    <3>2. arg[Bus] # NewInfo /\ arg[Bus] # NoInfo /\ arg[Bus] \in Infos
      BY <2>4, <3>1, ThreadsDiffer DEF Removing, IInv, Types, ThreadTypes, ArgInv
    <3>3. pathOf[arg[Bus]] = c
      BY <2>4, <2>6, <3>1, <3>2
    <3>4. arg[Bus] = known[c]
      BY <2>10, <3>1, <3>3
    <3> QED BY <2>5, <2>8, <2>9, <3>2, <3>4 DEF IInv, Types, ProgramTypes
  <2>16. \A i \in Infos : pathOf'[i] = c /\ pc'[i] = "deviceAdded" => arg'[i] = i
    BY <2>4, <2>6, <2>7, <2>10, <2>11, ThreadsDiffer
  <2> QED BY <2>13, <2>14, <2>15, <2>16
<1>4. CASE AllFetched
  BY <1>4, <1>a, ThreadsDiffer
    DEF AllFetched, Goto, IInv, Types, InfoTypes, ProgramTypes, ThreadTypes, HeardInv, ObjectInv,
        Heard, Removing, Stopped, Selecting, PlaceInv, ResumeInv, Selected, Announced, PathInv,
        ArgInv, bluezVars, infoVars, serviceVars
<1>5. CASE BeginFill
  BY <1>5, <1>a, ThreadsDiffer
    DEF BeginFill, Goto, IInv, Types, InfoTypes, ProgramTypes, ThreadTypes, HeardInv, ObjectInv,
        Heard, Removing, Stopped, Selecting, PlaceInv, ResumeInv, Selected, Announced, PathInv,
        ArgInv, bluezVars, infoVars, serviceVars
<1>6. CASE Fill
  BY <1>6, <1>a, ThreadsDiffer
    DEF Fill, AddDevice, IInv, Types, InfoTypes, ProgramTypes, ThreadTypes, HeardInv, ObjectInv,
        Heard, Removing, Stopped, Selecting, PlaceInv, ResumeInv, Selected, Announced, PathInv,
        ArgInv, bluezVars, infoVars, serviceVars
<1>7. CASE Filled
  BY <1>7, <1>a, ThreadsDiffer
    DEF Filled, Select, IInv, Types, InfoTypes, ProgramTypes, ThreadTypes, HeardInv, ObjectInv,
        Heard, Removing, Stopped, Selecting, PlaceInv, ResumeInv, Selected, Announced, PathInv,
        ArgInv, bluezVars, infoVars, serviceVars
<1>8. CASE Subscribe
  BY <1>8, <1>a, ThreadsDiffer
    DEF Subscribe, Goto, IInv, Types, InfoTypes, ProgramTypes, ThreadTypes, HeardInv, ObjectInv,
        Heard, Removing, Stopped, Selecting, PlaceInv, ResumeInv, Selected, Announced, PathInv,
        ArgInv, bluezVars, infoVars, serviceVars
<1>9. CASE HandleInterfacesAdded

  <2> DEFINE s == Head(announced)
  <2>1. s \in Snapshots
    BY <1>9, HeadTailProperties DEF HandleInterfacesAdded, IInv, Types, BluezTypes
  <2>2. CreateInfo(Bus, s, "idle")
    BY <1>9 DEF HandleInterfacesAdded
  <2>3. UNCHANGED <<deviceVars, active, subscribed, todo, candidate, overlapped>>
    BY <1>9 DEF HandleInterfacesAdded
  <2> HIDE DEF s

  <2>4. /\ NewInfo \in Infos /\ pathOf[NewInfo] = NoDevice /\ NewInfo # NoInfo
        /\ NewInfo \notin listening /\ NewInfo \notin paired
        /\ \A d \in Devices : devicesMap[d] # NewInfo /\ known[d] # NewInfo
        /\ \A t \in Threads : arg[t] # NewInfo
    BY <2>2, NewInfoUnused DEF CreateInfo

  <2>5. known' = [known EXCEPT ![s.path] = NewInfo] /\ s.path \in Devices
    BY <2>1, <2>2 DEF CreateInfo, Snapshots
  <2>6. /\ pathOf' = [pathOf EXCEPT ![NewInfo] = s.path]
        /\ listening' = (listening \ ({known[s.path]} \ (paired \cup {devicesMap[s.path]})))
                        \cup {NewInfo}
    BY <2>2 DEF CreateInfo
  <2>7. /\ arg' = [arg EXCEPT ![Bus] = NewInfo]
        /\ pc' = [pc EXCEPT ![Bus] = IF s.paired THEN "deviceAdded" ELSE "idle"]
        /\ UNCHANGED unheard
    BY <1>9, <2>2, <2>3 DEF CreateInfo, HandleInterfacesAdded
  <2>8. s.path \in Heard => known[s.path] = NoInfo
    <3>1. FirstOf(s.path, 1) /\ 1 \in 1..Len(announced) /\ announced[1].added /\ pc[Bus] = "idle"
      BY <1>9, TailMoves DEF HandleInterfacesAdded, FirstOf, Of, s
    <3> QED BY <3>1 DEF HeardInv, AlternateInv, Here, Removing, Selecting
  <2> SUFFICES ASSUME NEW c \in Heard
               PROVE  /\ known'[c] # NoInfo => \/ known'[c] \in listening'
                                               \/ Stopped' /\ arg'[Bus] = known'[c]
                      /\ \A i \in listening' : pathOf'[i] = c => i = known'[c]
                      /\ Removing' /\ pathOf'[arg'[Bus]] = c => arg'[Bus] = known'[c]
                      /\ \A i \in Infos : pathOf'[i] = c /\ pc'[i] = "deviceAdded" => arg'[i] = i
    BY <2>7 DEF ObjectInv, Heard
  <2>9. c \in Devices /\ NoInfo \notin Infos
    BY FetcherAssumption DEF Heard
  <2>10. /\ known[c] # NoInfo => \/ known[c] \in listening
                                 \/ Stopped /\ arg[Bus] = known[c]
         /\ \A i \in listening : pathOf[i] = c => i = known[c]
         /\ Removing /\ pathOf[arg[Bus]] = c => arg[Bus] = known[c]
         /\ \A i \in Infos : pathOf[i] = c /\ pc[i] = "deviceAdded" => arg[i] = i
    BY DEF HeardInv, ObjectInv
  <2>11. pc[NewInfo] = "idle" /\ pc'[NewInfo] = "idle"
    BY <2>4, <2>7, ThreadsDiffer DEF HeardInv, ListenInv
  <2>12. (Removing' <=> Removing) /\ (Stopped' <=> Stopped) /\ (Removing => arg'[Bus] = arg[Bus])
    BY <1>9, <2>7 DEF HandleInterfacesAdded, Removing, Stopped, Selecting
  <2>13. known'[c] # NoInfo => known'[c] \in listening' \/ (Stopped' /\ arg'[Bus] = known'[c])
    <3>1. CASE s.path = c
      BY <2>5, <2>6, <3>1 DEF IInv, Types, ProgramTypes
    <3>2. CASE s.path # c
      <4>1. known'[c] = known[c] /\ (known[c] # NoInfo => known[c] # known[s.path])
        BY <2>5, <2>9, <3>2 DEF IInv, Types, PathInv
      <4> QED BY <2>6, <2>10, <2>12, <4>1 DEF Stopped
    <3> QED BY <3>1, <3>2
  <2>14. \A i \in listening' : pathOf'[i] = c => i = known'[c]
    <3>1. CASE s.path = c
      BY <2>4, <2>5, <2>6, <2>8, <2>9, <2>10, <3>1 DEF IInv, Types, InfoTypes, ProgramTypes
    <3>2. CASE s.path # c
      BY <2>4, <2>5, <2>6, <2>9, <2>10, <3>2 DEF IInv, Types, InfoTypes
    <3> QED BY <3>1, <3>2
  <2>15. Removing' /\ pathOf'[arg'[Bus]] = c => arg'[Bus] = known'[c]
    <3>1. SUFFICES ASSUME Removing, pathOf'[arg[Bus]] = c PROVE arg[Bus] = known'[c]
      BY <2>12
    <3>2. arg[Bus] # NewInfo /\ arg[Bus] # NoInfo /\ arg[Bus] \in Infos
      BY <2>4, <3>1, ThreadsDiffer DEF Removing, IInv, Types, ThreadTypes, ArgInv
    <3>3. pathOf[arg[Bus]] = c
      BY <2>4, <2>6, <3>1, <3>2
    <3>4. arg[Bus] = known[c]
      BY <2>10, <3>1, <3>3
    <3> QED BY <2>5, <2>8, <2>9, <3>2, <3>4 DEF IInv, Types, ProgramTypes
  <2>16. \A i \in Infos : pathOf'[i] = c /\ pc'[i] = "deviceAdded" => arg'[i] = i
    BY <2>4, <2>6, <2>7, <2>10, <2>11, ThreadsDiffer
  <2> QED BY <2>13, <2>14, <2>15, <2>16
<1>10. CASE HandleInterfacesRemoved

  <2>1. Head(announced).path \in Devices
    <3>1. Head(announced) \in Snapshots
      BY <1>10, HeadTailProperties DEF HandleInterfacesRemoved, IInv, Types, BluezTypes
    <3> QED BY <3>1 DEF Snapshots
  <2>2. pc[Bus] = "idle"
    BY <1>10 DEF HandleInterfacesRemoved, Goto
  <2> QED BY <1>10, <2>1, <2>2, ThreadsDiffer
      DEF HandleInterfacesRemoved, Goto, PathInv, infoVars, serviceVars, IInv, Types, InfoTypes,
          ProgramTypes, ThreadTypes, HeardInv, ObjectInv, Heard, Removing, Stopped, Selecting
<1>11. CASE StopListening
  BY <1>11, <1>a, ThreadsDiffer
    DEF StopListening, Goto, IInv, Types, InfoTypes, ProgramTypes, ThreadTypes, HeardInv,
        ObjectInv, Heard, Removing, Stopped, Selecting, PlaceInv, ResumeInv, Selected, Announced,
        PathInv, ArgInv, bluezVars, infoVars, serviceVars
<1>12. CASE OnDeviceRemoved
  BY <1>12, <1>a, ThreadsDiffer
    DEF OnDeviceRemoved, Select, Goto, IInv, Types, InfoTypes, ProgramTypes, ThreadTypes,
        HeardInv, ObjectInv, Heard, Removing, Stopped, Selecting, PlaceInv, ResumeInv, Selected,
        Announced, PathInv, ArgInv, bluezVars, infoVars, serviceVars
<1>13. CASE Forget
  BY <1>13, <1>a, ThreadsDiffer
    DEF Forget, Goto, StoppedInv, PathInv, ArgInv, bluezVars, infoVars, IInv, Types, InfoTypes,
        ProgramTypes, ThreadTypes, HeardInv, ObjectInv, Heard, Removing, Stopped, Selecting
<1>14. ASSUME NEW t \in Threads, OnDeviceAdded(t) PROVE ObjectInv'
  BY <1>14, <1>a, ThreadsDiffer
    DEF OnDeviceAdded, AddDevice, IInv, Types, InfoTypes, ProgramTypes, ThreadTypes, HeardInv,
        ObjectInv, Heard, Removing, Stopped, Selecting, PlaceInv, ResumeInv, Selected, Announced,
        PathInv, ArgInv, bluezVars, infoVars, serviceVars
<1>15. ASSUME NEW t \in Threads, RememberPrevious(t) PROVE ObjectInv'
  BY <1>15, <1>a, ThreadsDiffer
    DEF RememberPrevious, Goto, IInv, Types, InfoTypes, ProgramTypes, ThreadTypes, HeardInv,
        ObjectInv, Heard, Removing, Stopped, Selecting, PlaceInv, ResumeInv, Selected, Announced,
        PathInv, ArgInv, bluezVars, infoVars, serviceVars
<1>16. ASSUME NEW t \in Threads, ClearActive(t) PROVE ObjectInv'
  BY <1>16, <1>a, ThreadsDiffer
    DEF ClearActive, Goto, IInv, Types, InfoTypes, ProgramTypes, ThreadTypes, HeardInv, ObjectInv,
        Heard, Removing, Stopped, Selecting, PlaceInv, ResumeInv, Selected, Announced, PathInv,
        ArgInv, bluezVars, infoVars, serviceVars
<1>17. ASSUME NEW t \in Threads, ReadConnected(t) PROVE ObjectInv'
  BY <1>17, <1>a, ThreadsDiffer
    DEF ReadConnected, Goto, IInv, Types, InfoTypes, ProgramTypes, ThreadTypes, HeardInv,
        ObjectInv, Heard, Removing, Stopped, Selecting, PlaceInv, ResumeInv, Selected, Announced,
        PathInv, ArgInv, bluezVars, infoVars, serviceVars
<1>18. ASSUME NEW t \in Threads, AssignActive(t) PROVE ObjectInv'
  BY <1>18, <1>a, ThreadsDiffer
    DEF AssignActive, IInv, Types, InfoTypes, ProgramTypes, ThreadTypes, HeardInv, ObjectInv,
        Heard, Removing, Stopped, Selecting, PlaceInv, ResumeInv, Selected, Announced, PathInv,
        ArgInv, bluezVars, infoVars, serviceVars
<1>19. ASSUME NEW i \in Infos, ConnectedChanged(i) PROVE ObjectInv'
  BY <1>19, <1>a, ThreadsDiffer
    DEF ConnectedChanged, Take, Select, IInv, Types, InfoTypes, ProgramTypes, ThreadTypes,
        HeardInv, ObjectInv, Heard, Removing, Stopped, Selecting, PlaceInv, ResumeInv, Selected,
        Announced, PathInv, ArgInv, bluezVars, infoVars, serviceVars
<1>20. ASSUME NEW i \in Infos, PairedChanged(i) PROVE ObjectInv'
  <2>1. i \in listening /\ UNCHANGED <<unheard, known, pathOf, listening>>
    BY <1>20 DEF PairedChanged, Take, bluezVars
  <2>2. /\ pc'[Bus] = pc[Bus] /\ arg'[Bus] = arg[Bus]
        /\ \A k \in Infos : pc'[k] = "deviceAdded" =>
               \/ pc[k] = "deviceAdded" /\ arg'[k] = arg[k]
               \/ k = i /\ arg'[k] = known[pathOf[i]]
    BY <1>20, ThreadsDiffer DEF PairedChanged, IInv, Types, ThreadTypes
  <2> QED BY <2>1, <2>2 DEF HeardInv, ObjectInv, Heard, Removing, Stopped, Selecting
<1>21. ASSUME NEW d \in Devices, Appear(d) PROVE ObjectInv'
  BY <1>21, <1>a, ThreadsDiffer
    DEF Appear, Event, IInv, Types, InfoTypes, ProgramTypes, ThreadTypes, HeardInv, ObjectInv,
        Heard, Removing, Stopped, Selecting, PlaceInv, ResumeInv, Selected, Announced, PathInv,
        ArgInv, bluezVars, infoVars, serviceVars
<1>22. ASSUME NEW d \in Devices, Vanish(d) PROVE ObjectInv'
  BY <1>22, <1>a, ThreadsDiffer
    DEF Vanish, Event, IInv, Types, InfoTypes, ProgramTypes, ThreadTypes, HeardInv, ObjectInv,
        Heard, Removing, Stopped, Selecting, PlaceInv, ResumeInv, Selected, Announced, PathInv,
        ArgInv, bluezVars, infoVars, serviceVars
<1>23. ASSUME NEW d \in Devices, ConnectedFlips(d) PROVE ObjectInv'
  BY <1>23, <1>a, ThreadsDiffer
    DEF ConnectedFlips, Event, Signal, IInv, Types, InfoTypes, ProgramTypes, ThreadTypes,
        HeardInv, ObjectInv, Heard, Removing, Stopped, Selecting, PlaceInv, infoVars, serviceVars
<1>24. ASSUME NEW d \in Devices, Pairs(d) PROVE ObjectInv'
  BY <1>24, <1>a, ThreadsDiffer
    DEF Pairs, Event, Signal, IInv, Types, InfoTypes, ProgramTypes, ThreadTypes, HeardInv,
        ObjectInv, Heard, Removing, Stopped, Selecting, PlaceInv, infoVars, serviceVars
<1>25. CASE UNCHANGED vars
  BY <1>25
    DEF vars, bluezVars, infoVars, serviceVars, HeardInv, ObjectInv, Heard, Removing, Stopped,
        Selecting
<1>26. CASE RemovalBreaksOff
  BY <1>26, ThreadsDiffer
    DEF RemovalBreaksOff, Goto, IInv, Types, InfoTypes, ProgramTypes, ThreadTypes, HeardInv,
        ObjectInv, Heard, Removing, Stopped, Selecting, PlaceInv, ResumeInv, Selected, Announced,
        PathInv, ArgInv, infoVars, serviceVars
<1> QED
  BY <1>1, <1>2, <1>3, <1>4, <1>5, <1>6, <1>7, <1>8, <1>9, <1>10, <1>11, <1>12, <1>13, <1>14,
     <1>15, <1>16, <1>17, <1>18, <1>19, <1>20, <1>21, <1>22, <1>23, <1>24, <1>25, <1>26
    DEF Next, Startup, BusStep, TrySelectNewActiveDevice

\* When the first announcement has been handled, the others move up.
LEMMA OthersMoveUp ==
    ASSUME announced \in Seq(Snapshots), announced # <<>>, announced' = Tail(announced), NEW c
    PROVE  /\ 1 \in 1..Len(announced) /\ Head(announced) = announced[1]
           /\ announced[1].path # c \/ FirstOf(c, 1)
           /\ \A k \in 1..Len(announced') :
                  /\ k + 1 \in 1..Len(announced) /\ announced'[k] = announced[k + 1]
                  /\ LastOf(c, k)' => LastOf(c, k + 1)
                  /\ FirstOf(c, k)' => IF announced[1].path = c THEN Successive(c, 1, k + 1)
                                       ELSE FirstOf(c, k + 1)
           /\ \A j, k \in 1..Len(announced') :
                  Successive(c, j, k)' => Successive(c, j + 1, k + 1)
           /\ Settled(c)' => IF announced[1].path = c THEN LastOf(c, 1) ELSE Settled(c)
<1>1. /\ Head(announced) = announced[1] /\ Len(announced) \in Nat \ {0}
      /\ Len(announced') = Len(announced) - 1
      /\ \A k \in 1..Len(announced') :
             announced'[k] = announced[k + 1] /\ k + 1 \in 1..Len(announced)
  BY TailMoves
<1>2. \A j \in 2..Len(announced) : j - 1 \in 1..Len(announced') /\ announced'[j - 1] = announced[j]
  BY <1>1
<1>3. announced[1].path # c \/ FirstOf(c, 1)
  BY <1>1 DEF FirstOf, Of
<1>4. \A k \in 1..Len(announced') : LastOf(c, k)' => LastOf(c, k + 1)
  <2> SUFFICES ASSUME NEW k \in 1..Len(announced'), LastOf(c, k)',
                      NEW j \in (k + 2)..Len(announced)
               PROVE  Of(c, k + 1) /\ announced[j].path # c
    BY <1>1 DEF LastOf, Of
  <2>1. j - 1 \in (k + 1)..Len(announced') /\ announced'[j - 1] = announced[j]
    BY <1>1, <1>2
  <2> QED BY <1>1, <2>1 DEF LastOf, Of
<1>5. ASSUME NEW k \in 1..Len(announced'), FirstOf(c, k)'
      PROVE  IF announced[1].path = c THEN Successive(c, 1, k + 1) ELSE FirstOf(c, k + 1)
  <2>1. Of(c, k + 1)
    BY <1>1, <1>5 DEF FirstOf, Of
  <2>2. \A j \in 2..k : announced[j].path # c
    <3> SUFFICES ASSUME NEW j \in 2..k PROVE announced[j].path # c
      OBVIOUS
    <3>1. j - 1 \in 1..(k - 1) /\ announced'[j - 1] = announced[j]
      BY <1>1, <1>2
    <3> QED BY <1>5, <3>1 DEF FirstOf
  <2> QED BY <1>1, <2>1, <2>2 DEF FirstOf, Successive, Of
<1>6. ASSUME NEW j \in 1..Len(announced'), NEW k \in 1..Len(announced'), Successive(c, j, k)'
      PROVE  Successive(c, j + 1, k + 1)
  <2>1. Of(c, j + 1) /\ Of(c, k + 1) /\ j + 1 < k + 1
    BY <1>1, <1>6 DEF Successive, Of
  <2>2. \A m \in (j + 2)..k : announced[m].path # c
    <3> SUFFICES ASSUME NEW m \in (j + 2)..k PROVE announced[m].path # c
      OBVIOUS
    <3>1. m - 1 \in (j + 1)..(k - 1) /\ announced'[m - 1] = announced[m]
      BY <1>1, <1>2
    <3> QED BY <1>6, <3>1 DEF Successive
  <2> QED BY <2>1, <2>2 DEF Successive
<1>7. Settled(c)' => IF announced[1].path = c THEN LastOf(c, 1) ELSE Settled(c)
  <2>1. Settled(c)' => \A j \in 2..Len(announced) : announced[j].path # c
    BY <1>2 DEF Settled
  <2> QED BY <1>1, <2>1 DEF Settled, LastOf, Of
<1> QED BY <1>1, <1>3, <1>4, <1>5, <1>6, <1>7

\* A new announcement comes after the others.
LEMMA LastComes ==
    ASSUME announced \in Seq(Snapshots), NEW e \in Snapshots, announced' = Append(announced, e),
           NEW c, NEW n \in Nat, n = Len(announced)
    PROVE  /\ Len(announced') = n + 1 /\ announced'[n + 1] = e
           /\ \A k \in 1..n : announced'[k] = announced[k]
           /\ \A k \in 1..n : FirstOf(c, k)' => FirstOf(c, k)
           /\ FirstOf(c, n + 1)' => e.path = c /\ Settled(c)
           /\ \A k \in 1..n : LastOf(c, k)' => LastOf(c, k) /\ e.path # c
           /\ LastOf(c, n + 1)' => e.path = c
           /\ \A j, k \in 1..n : Successive(c, j, k)' => Successive(c, j, k)
           /\ \A j \in 1..n : Successive(c, j, n + 1)' => LastOf(c, j)
           /\ \A j \in 1..(n + 1) : ~Successive(c, n + 1, j)'
           /\ Settled(c)' => Settled(c) /\ e.path # c
<1>1. /\ Len(announced') = n + 1 /\ announced'[n + 1] = e
      /\ \A k \in 1..n : announced'[k] = announced[k]
  BY AppendMoves
<1>2. \A k \in 1..n : FirstOf(c, k)' => FirstOf(c, k)
  BY <1>1 DEF FirstOf, Of
<1>3. FirstOf(c, n + 1)' => e.path = c /\ Settled(c)
  BY <1>1 DEF FirstOf, Of, Settled
<1>4. \A k \in 1..n : LastOf(c, k)' => LastOf(c, k) /\ e.path # c
  BY <1>1 DEF LastOf, Of
<1>5. LastOf(c, n + 1)' => e.path = c
  BY <1>1 DEF LastOf, Of
<1>6. \A j, k \in 1..n : Successive(c, j, k)' => Successive(c, j, k)
  BY <1>1 DEF Successive, Of
<1>7. \A j \in 1..n : Successive(c, j, n + 1)' => LastOf(c, j)
  BY <1>1 DEF Successive, LastOf, Of
<1>8. \A j \in 1..(n + 1) : ~Successive(c, n + 1, j)'
  BY <1>1 DEF Successive, Of
<1>9. Settled(c)' => Settled(c) /\ e.path # c
  BY <1>1 DEF Settled
<1> QED BY <1>1, <1>2, <1>3, <1>4, <1>5, <1>6, <1>7, <1>8, <1>9

\* Announcements of a device alternate.
LEMMA AlternateStep == IInv /\ HeardInv /\ [Next]_vars => AlternateInv'
<1> SUFFICES ASSUME IInv, HeardInv, [Next]_vars PROVE AlternateInv'
  OBVIOUS

<1>a. announced \in Seq(Snapshots)
  BY DEF IInv, Types, BluezTypes
<1>b. ASSUME UNCHANGED <<announced, present, unheard>>, \A c \in Heard : Here(c)' = Here(c),
             Made' => Made
      PROVE  AlternateInv'
  BY <1>b DEF HeardInv, AlternateInv, Heard, Of, FirstOf, LastOf, Successive, Settled
<1>c. ASSUME UNCHANGED <<announced, present, unheard>>, ~Started,
             Made' => \A c \in Heard : Here(c)' <=> c \in present
      PROVE  AlternateInv'
  <2>1. \A c \in Heard : Settled(c)
    BY <1>c DEF HeardInv, QuietInv
  <2> QED BY <1>c, <2>1 DEF AlternateInv, Heard, Of, FirstOf, LastOf, Successive, Settled
<1>1. CASE FetchDevices
  BY <1>1, <1>a, <1>b, ThreadsDiffer
    DEF FetchDevices, Goto, IInv, Types, HeardInv, Here, Removing, Selecting, Made, Heard,
        ThreadTypes, PlaceInv, ResumeInv, Selected, Announced, bluezVars, infoVars, serviceVars
<1>2. CASE ClearMaps
  BY <1>2, <1>c DEF ClearMaps, Goto, Made, Started, bluezVars
<1>3. CASE CreateFetched

  <2>1. pc[Main] = "create" /\ pc'[Main] \in {"create", "deviceAdded"}
    BY <1>3 DEF CreateFetched, CreateInfo
  <2> QED BY <1>3, <2>1, <1>c DEF CreateFetched, Made, Started, bluezVars
<1>4. CASE AllFetched

  <2>1. pc[Main] = "create" /\ todo = {} /\ UNCHANGED <<announced, present, unheard>>
    BY <1>4 DEF AllFetched, Goto, bluezVars
  <2>2. UNCHANGED <<known, arg, pathOf>> /\ pc'[Bus] = pc[Bus]
    BY <1>4, ThreadsDiffer DEF AllFetched, Goto, serviceVars, infoVars
  <2>3. \A c \in Heard : c \in present <=> known[c] # NoInfo
    BY <2>1 DEF HeardInv, FetchInv
  <2>4. \A c \in Heard : known[c] # NoInfo => pathOf[known[c]] = c
    BY DEF Heard, IInv, Types, PathInv
  <2>5. \A c \in Heard : Removing => pathOf[arg[Bus]] # c
    BY <2>1 DEF HeardInv, QuietInv, Started
  <2>6. \A c \in Heard : Here(c)' <=> c \in present
    BY <2>2, <2>3, <2>4, <2>5 DEF Here, Removing, Selecting
  <2> QED BY <2>1, <2>6, <1>c DEF Started
<1>5. CASE BeginFill
  BY <1>5, <1>a, <1>b, ThreadsDiffer
    DEF BeginFill, Goto, IInv, Types, HeardInv, Here, Removing, Selecting, Made, Heard,
        ThreadTypes, PlaceInv, ResumeInv, Selected, Announced, bluezVars, infoVars, serviceVars
<1>6. CASE Fill
  BY <1>6, <1>a, <1>b, ThreadsDiffer
    DEF Fill, AddDevice, IInv, Types, HeardInv, Here, Removing, Selecting, Made, Heard,
        ThreadTypes, PlaceInv, ResumeInv, Selected, Announced, bluezVars, infoVars, serviceVars
<1>7. CASE Filled
  BY <1>7, <1>a, <1>b, ThreadsDiffer
    DEF Filled, Select, IInv, Types, HeardInv, Here, Removing, Selecting, Made, Heard,
        ThreadTypes, PlaceInv, ResumeInv, Selected, Announced, bluezVars, infoVars, serviceVars
<1>8. CASE Subscribe
  BY <1>8, <1>a, <1>b, ThreadsDiffer
    DEF Subscribe, Goto, IInv, Types, HeardInv, Here, Removing, Selecting, Made, Heard,
        ThreadTypes, PlaceInv, ResumeInv, Selected, Announced, bluezVars, infoVars, serviceVars
<1>9. CASE HandleInterfacesAdded

  <2> DEFINE s == Head(announced)
  <2>1. s \in Snapshots
    BY <1>9, HeadTailProperties DEF HandleInterfacesAdded, IInv, Types, BluezTypes
  <2>2. CreateInfo(Bus, s, "idle")
    BY <1>9 DEF HandleInterfacesAdded
  <2>3. UNCHANGED <<deviceVars, active, subscribed, todo, candidate, overlapped>>
    BY <1>9 DEF HandleInterfacesAdded
  <2> HIDE DEF s

  <2>4. /\ NewInfo \in Infos /\ pathOf[NewInfo] = NoDevice /\ NewInfo # NoInfo
        /\ NewInfo \notin listening /\ NewInfo \notin paired
        /\ \A d \in Devices : devicesMap[d] # NewInfo /\ known[d] # NewInfo
        /\ \A t \in Threads : arg[t] # NewInfo
    BY <2>2, NewInfoUnused DEF CreateInfo

  <2>5. /\ announced # <<>> /\ announced' = Tail(announced)
        /\ UNCHANGED <<present, unheard>>
    BY <1>9 DEF HandleInterfacesAdded
  <2> SUFFICES ASSUME NEW c \in Heard
               PROVE  /\ \A k \in 1..Len(announced') : FirstOf(c, k)' => (announced'[k].added <=> ~Here(c)')
                      /\ \A k \in 1..Len(announced') : LastOf(c, k)' => (announced'[k].added <=> c \in present')
                      /\ \A j, k \in 1..Len(announced') :
                            Successive(c, j, k)' => (announced'[j].added <=> ~announced'[k].added)
                      /\ Settled(c)' /\ Made' => (Here(c)' <=> c \in present')
    BY <2>5 DEF AlternateInv, Heard
  <2>6. /\ \A k \in 1..Len(announced) : FirstOf(c, k) => (announced[k].added <=> ~Here(c))
        /\ \A k \in 1..Len(announced) : LastOf(c, k) => (announced[k].added <=> c \in present)
        /\ \A j, k \in 1..Len(announced) :
              Successive(c, j, k) => (announced[j].added <=> ~announced[k].added)
        /\ Settled(c) /\ Made => (Here(c) <=> c \in present)
    BY DEF HeardInv, AlternateInv
  <2>7. /\ 1 \in 1..Len(announced) /\ Head(announced) = announced[1]
        /\ announced[1].path # c \/ FirstOf(c, 1)
        /\ \A k \in 1..Len(announced') :
               /\ k + 1 \in 1..Len(announced) /\ announced'[k] = announced[k + 1]
               /\ LastOf(c, k)' => LastOf(c, k + 1)
               /\ FirstOf(c, k)' => IF announced[1].path = c THEN Successive(c, 1, k + 1)
                                    ELSE FirstOf(c, k + 1)
        /\ \A j, k \in 1..Len(announced') :
               Successive(c, j, k)' => Successive(c, j + 1, k + 1)
        /\ Settled(c)' => IF announced[1].path = c THEN LastOf(c, 1) ELSE Settled(c)
    BY <2>5, <1>a, OthersMoveUp
  <2>8. /\ Made' => Made
        /\ IF announced[1].path = c
           THEN (announced[1].added <=> ~Here(c)) /\ (announced[1].added <=> Here(c)')
           ELSE Here(c)' <=> Here(c)
    <3>1. announced[1] = s /\ s.added /\ pc[Bus] = "idle" /\ (Made' => Made)
      BY <1>9, <2>2, <2>7 DEF HandleInterfacesAdded, CreateInfo, s, Made
    <3>2. pc'[Bus] \in {"deviceAdded", "idle"} /\ known' = [known EXCEPT ![s.path] = NewInfo]
      BY <2>2, ThreadsDiffer DEF CreateInfo, IInv, Types, ThreadTypes
    <3>3. s.path = c => known'[c] = NewInfo
      BY <2>1, <3>2 DEF Snapshots, IInv, Types, ProgramTypes
    <3>4. s.path # c => known'[c] = known[c]
      BY <3>2
    <3>5. s.path = c => ~Here(c)
      BY <2>6, <2>7, <3>1
    <3> QED BY <2>4, <3>1, <3>2, <3>3, <3>4, <3>5 DEF Here, Removing, Selecting
  <2>9. \A k \in 1..Len(announced') : FirstOf(c, k)' => (announced'[k].added <=> ~Here(c)')
    BY <2>6, <2>7, <2>8
  <2>10. \A k \in 1..Len(announced') : LastOf(c, k)' => (announced'[k].added <=> c \in present')
    BY <2>5, <2>6, <2>7
  <2>11. \A j, k \in 1..Len(announced') :
            Successive(c, j, k)' => (announced'[j].added <=> ~announced'[k].added)
    BY <2>6, <2>7
  <2>12. Settled(c)' /\ Made' => (Here(c)' <=> c \in present')
    BY <2>5, <2>6, <2>7, <2>8
  <2> QED BY <2>9, <2>10, <2>11, <2>12
<1>10. CASE HandleInterfacesRemoved

  <2>1. /\ announced # <<>> /\ announced' = Tail(announced)
        /\ UNCHANGED <<present, unheard>>
    BY <1>10 DEF HandleInterfacesRemoved
  <2> SUFFICES ASSUME NEW c \in Heard
               PROVE  /\ \A k \in 1..Len(announced') : FirstOf(c, k)' => (announced'[k].added <=> ~Here(c)')
                      /\ \A k \in 1..Len(announced') : LastOf(c, k)' => (announced'[k].added <=> c \in present')
                      /\ \A j, k \in 1..Len(announced') :
                            Successive(c, j, k)' => (announced'[j].added <=> ~announced'[k].added)
                      /\ Settled(c)' /\ Made' => (Here(c)' <=> c \in present')
    BY <2>1 DEF AlternateInv, Heard
  <2>2. /\ \A k \in 1..Len(announced) : FirstOf(c, k) => (announced[k].added <=> ~Here(c))
        /\ \A k \in 1..Len(announced) : LastOf(c, k) => (announced[k].added <=> c \in present)
        /\ \A j, k \in 1..Len(announced) :
              Successive(c, j, k) => (announced[j].added <=> ~announced[k].added)
        /\ Settled(c) /\ Made => (Here(c) <=> c \in present)
    BY DEF HeardInv, AlternateInv
  <2>3. /\ 1 \in 1..Len(announced) /\ Head(announced) = announced[1]
        /\ announced[1].path # c \/ FirstOf(c, 1)
        /\ \A k \in 1..Len(announced') :
               /\ k + 1 \in 1..Len(announced) /\ announced'[k] = announced[k + 1]
               /\ LastOf(c, k)' => LastOf(c, k + 1)
               /\ FirstOf(c, k)' => IF announced[1].path = c THEN Successive(c, 1, k + 1)
                                    ELSE FirstOf(c, k + 1)
        /\ \A j, k \in 1..Len(announced') :
               Successive(c, j, k)' => Successive(c, j + 1, k + 1)
        /\ Settled(c)' => IF announced[1].path = c THEN LastOf(c, 1) ELSE Settled(c)
    BY <2>1, <1>a, OthersMoveUp
  <2>4. /\ Made' => Made
        /\ IF announced[1].path = c
           THEN (announced[1].added <=> ~Here(c)) /\ (announced[1].added <=> Here(c)')
           ELSE Here(c)' <=> Here(c)
    <3> DEFINE a == announced[1]
    <3>1. /\ ~a.added /\ pc[Bus] = "idle" /\ UNCHANGED known
          /\ arg' = [arg EXCEPT ![Bus] = known[a.path]]
          /\ pc' = [pc EXCEPT ![Bus] = IF known[a.path] = NoInfo THEN "idle" ELSE "stopListening"]
      BY <1>10, <2>3 DEF HandleInterfacesRemoved, Goto, serviceVars
    <3>2. a.path \in Devices
      <4>1. announced[1] \in Snapshots
        BY <1>a, <2>3
      <4> QED BY <4>1 DEF Snapshots
    <3>3. Made' => Made
      BY <3>1, ThreadsDiffer DEF Made
    <3>4. arg'[Bus] = known[a.path] /\ (Removing' <=> known[a.path] # NoInfo)
      BY <3>1, ThreadsDiffer DEF Removing, Selecting, IInv, Types, ThreadTypes
    <3>5. a.path # c /\ known[c] # NoInfo => known[c] # known[a.path]
      BY <3>2 DEF Heard, IInv, Types, PathInv
    <3>6. Here(c) <=> known[c] # NoInfo
      BY <3>1 DEF Here, Removing, Selecting
    <3>7. a.path = c => Here(c)
      BY <2>2, <2>3, <3>1
    <3> HIDE DEF a
    <3>8. Here(c)' <=> known[c] # NoInfo /\ ~(Removing' /\ arg'[Bus] = known[c])
      BY <3>1 DEF Here
    <3>9. a.path = c => ~Here(c)'
      BY <3>4, <3>8
    <3>10. a.path # c => (Here(c)' <=> Here(c))
      BY <3>4, <3>5, <3>6, <3>8
    <3> QED BY <3>1, <3>3, <3>7, <3>9, <3>10 DEF a
  <2>5. \A k \in 1..Len(announced') : FirstOf(c, k)' => (announced'[k].added <=> ~Here(c)')
    BY <2>2, <2>3, <2>4
  <2>6. \A k \in 1..Len(announced') : LastOf(c, k)' => (announced'[k].added <=> c \in present')
    BY <2>1, <2>2, <2>3
  <2>7. \A j, k \in 1..Len(announced') :
            Successive(c, j, k)' => (announced'[j].added <=> ~announced'[k].added)
    BY <2>2, <2>3
  <2>8. Settled(c)' /\ Made' => (Here(c)' <=> c \in present')
    BY <2>1, <2>2, <2>3, <2>4
  <2> QED BY <2>5, <2>6, <2>7, <2>8
<1>11. CASE StopListening
  BY <1>11, <1>a, <1>b, ThreadsDiffer
    DEF StopListening, Goto, IInv, Types, HeardInv, Here, Removing, Selecting, Made, Heard,
        ThreadTypes, PlaceInv, ResumeInv, Selected, Announced, bluezVars, infoVars, serviceVars
<1>12. CASE OnDeviceRemoved
  BY <1>12, <1>a, <1>b, ThreadsDiffer
    DEF OnDeviceRemoved, Select, Goto, IInv, Types, HeardInv, Here, Removing, Selecting, Made,
        Heard, ThreadTypes, PlaceInv, ResumeInv, Selected, Announced, bluezVars, infoVars,
        serviceVars
<1>13. CASE Forget

  <2>1. /\ pc[Bus] = "forget" /\ pc' = [pc EXCEPT ![Bus] = "idle"]
        /\ known' = [known EXCEPT ![pathOf[arg[Bus]]] = NoInfo]
        /\ UNCHANGED <<announced, present, unheard, arg>>
    BY <1>13 DEF Forget, Goto, bluezVars
  <2>2. Removing /\ ~Removing' /\ (Made' <=> Made)
    BY <2>1, ThreadsDiffer DEF Removing, Selecting, Made, IInv, Types, ThreadTypes
  <2>3. ASSUME NEW c \in Heard
        PROVE  Here(c)' = Here(c)
    <3>1. CASE pathOf[arg[Bus]] = c
      <4>1. arg[Bus] = known[c]
        BY <2>2, <3>1 DEF HeardInv, ObjectInv
      <4>2. known'[c] = NoInfo
        BY <2>1, <3>1 DEF Heard, IInv, Types, ProgramTypes
      <4> QED BY <2>2, <4>1, <4>2 DEF Here
    <3>2. CASE pathOf[arg[Bus]] # c
      <4>1. known'[c] = known[c]
        BY <2>1, <3>2
      <4>2. known[c] # NoInfo => arg[Bus] # known[c]
        BY <3>2 DEF Heard, IInv, Types, PathInv
      <4> QED BY <2>2, <4>1, <4>2 DEF Here
    <3> QED BY <3>1, <3>2
  <2> QED BY <1>b, <2>1, <2>2, <2>3
<1>14. ASSUME NEW t \in Threads, OnDeviceAdded(t) PROVE AlternateInv'
  BY <1>14, <1>a, <1>b, ThreadsDiffer
    DEF OnDeviceAdded, AddDevice, IInv, Types, HeardInv, Here, Removing, Selecting, Made, Heard,
        ThreadTypes, PlaceInv, ResumeInv, Selected, Announced, bluezVars, infoVars, serviceVars
<1>15. ASSUME NEW t \in Threads, RememberPrevious(t) PROVE AlternateInv'
  BY <1>15, <1>a, <1>b, ThreadsDiffer
    DEF RememberPrevious, Goto, IInv, Types, HeardInv, Here, Removing, Selecting, Made, Heard,
        ThreadTypes, PlaceInv, ResumeInv, Selected, Announced, bluezVars, infoVars, serviceVars
<1>16. ASSUME NEW t \in Threads, ClearActive(t) PROVE AlternateInv'
  BY <1>16, <1>a, <1>b, ThreadsDiffer
    DEF ClearActive, Goto, IInv, Types, HeardInv, Here, Removing, Selecting, Made, Heard,
        ThreadTypes, PlaceInv, ResumeInv, Selected, Announced, bluezVars, infoVars, serviceVars
<1>17. ASSUME NEW t \in Threads, ReadConnected(t) PROVE AlternateInv'
  BY <1>17, <1>a, <1>b, ThreadsDiffer
    DEF ReadConnected, Goto, IInv, Types, HeardInv, Here, Removing, Selecting, Made, Heard,
        ThreadTypes, PlaceInv, ResumeInv, Selected, Announced, bluezVars, infoVars, serviceVars
<1>18. ASSUME NEW t \in Threads, AssignActive(t) PROVE AlternateInv'
  BY <1>18, <1>a, <1>b, ThreadsDiffer
    DEF AssignActive, IInv, Types, HeardInv, Here, Removing, Selecting, Made, Heard, ThreadTypes,
        PlaceInv, ResumeInv, Selected, Announced, bluezVars, infoVars, serviceVars
<1>19. ASSUME NEW i \in Infos, ConnectedChanged(i) PROVE AlternateInv'
  BY <1>19, <1>a, <1>b, ThreadsDiffer
    DEF ConnectedChanged, Take, Select, IInv, Types, HeardInv, Here, Removing, Selecting, Made,
        Heard, ThreadTypes, PlaceInv, ResumeInv, Selected, Announced, bluezVars, infoVars,
        serviceVars
<1>20. ASSUME NEW i \in Infos, PairedChanged(i) PROVE AlternateInv'
  BY <1>20, <1>a, <1>b, ThreadsDiffer
    DEF PairedChanged, Take, IInv, Types, HeardInv, Here, Removing, Selecting, Made, Heard,
        ThreadTypes, PlaceInv, ResumeInv, Selected, Announced, bluezVars, infoVars, serviceVars
<1>21. ASSUME NEW d \in Devices, Appear(d) PROVE AlternateInv'
  <2> DEFINE e == [added |-> TRUE, path |-> d, connected |-> FALSE, paired |-> FALSE]
  <2>0. PICK n \in Nat : n = Len(announced)
    BY <1>a
  <2>1. e \in Snapshots /\ e.path = d /\ e.added = TRUE
    BY DEF Snapshots
  <2>2. announced' = Append(announced, e) /\ UNCHANGED <<known, pc, arg>>
    BY <1>21 DEF Appear, serviceVars
  <2>3. d \notin present /\ present' = present \cup {d} /\ Heard' \subseteq Heard
    BY <1>21 DEF Appear, Event, Heard
  <2>4. ~Started => d \notin Heard'
    BY <1>21 DEF Appear, Event, Heard
  <2> SUFFICES ASSUME NEW c \in Heard'
               PROVE  /\ \A k \in 1..(n + 1) : FirstOf(c, k)' => (announced'[k].added <=> ~Here(c)')
                      /\ \A k \in 1..(n + 1) : LastOf(c, k)' => (announced'[k].added <=> c \in present')
                      /\ \A j, k \in 1..(n + 1) :
                            Successive(c, j, k)' => (announced'[j].added <=> ~announced'[k].added)
                      /\ Settled(c)' /\ Made' => (Here(c)' <=> c \in present')
    <3>1. Len(announced') = n + 1
      BY <2>0, <2>1, <2>2, AppendMoves
    <3> QED BY <3>1 DEF AlternateInv
  <2>5. c \in Heard /\ Here(c)' = Here(c) /\ Made' = Made /\ (c = d => Made)
    BY <2>2, <2>3, <2>4 DEF Here, Removing, Selecting, Made, Started
  <2>6. /\ \A k \in 1..n : FirstOf(c, k) => (announced[k].added <=> ~Here(c))
        /\ \A k \in 1..n : LastOf(c, k) => (announced[k].added <=> c \in present)
        /\ \A j, k \in 1..n :
              Successive(c, j, k) => (announced[j].added <=> ~announced[k].added)
        /\ Settled(c) /\ Made => (Here(c) <=> c \in present)
    BY <2>0, <2>5 DEF HeardInv, AlternateInv
  <2>7. /\ Len(announced') = n + 1 /\ announced'[n + 1] = e
        /\ \A k \in 1..n : announced'[k] = announced[k]
        /\ \A k \in 1..n : FirstOf(c, k)' => FirstOf(c, k)
        /\ FirstOf(c, n + 1)' => d = c /\ Settled(c)
        /\ \A k \in 1..n : LastOf(c, k)' => LastOf(c, k) /\ d # c
        /\ LastOf(c, n + 1)' => d = c
        /\ \A j, k \in 1..n : Successive(c, j, k)' => Successive(c, j, k)
        /\ \A j \in 1..n : Successive(c, j, n + 1)' => LastOf(c, j) /\ d = c
        /\ \A j \in 1..(n + 1) : ~Successive(c, n + 1, j)'
        /\ Settled(c)' => Settled(c) /\ d # c
    <3> HIDE DEF e
    <3>1. /\ Len(announced') = n + 1 /\ announced'[n + 1] = e
          /\ \A k \in 1..n : announced'[k] = announced[k]
          /\ \A k \in 1..n : FirstOf(c, k)' => FirstOf(c, k)
          /\ FirstOf(c, n + 1)' => e.path = c /\ Settled(c)
          /\ \A k \in 1..n : LastOf(c, k)' => LastOf(c, k) /\ e.path # c
          /\ LastOf(c, n + 1)' => e.path = c
          /\ \A j, k \in 1..n : Successive(c, j, k)' => Successive(c, j, k)
          /\ \A j \in 1..n : Successive(c, j, n + 1)' => LastOf(c, j)
          /\ \A j \in 1..(n + 1) : ~Successive(c, n + 1, j)'
          /\ Settled(c)' => Settled(c) /\ e.path # c
      BY <2>0, <2>1, <2>2, <1>a, LastComes
    <3>2. \A j \in 1..n : Successive(c, j, n + 1)' => e.path = c
      BY <3>1 DEF Successive, Of
    <3> QED BY <2>1, <3>1, <3>2
  <2> HIDE DEF e
  <2>8. \A k \in 1..(n + 1) : k \in 1..n \/ k = n + 1
    OBVIOUS
  <2>9. \A k \in 1..(n + 1) : FirstOf(c, k)' => (announced'[k].added <=> ~Here(c)')
    BY <2>1, <2>3, <2>5, <2>6, <2>7, <2>8
  <2>10. \A k \in 1..(n + 1) : LastOf(c, k)' => (announced'[k].added <=> c \in present')
    BY <2>1, <2>3, <2>5, <2>6, <2>7, <2>8
  <2>11. \A j, k \in 1..(n + 1) :
            Successive(c, j, k)' => (announced'[j].added <=> ~announced'[k].added)
    BY <2>1, <2>3, <2>5, <2>6, <2>7, <2>8
  <2>12. Settled(c)' /\ Made' => (Here(c)' <=> c \in present')
    BY <2>3, <2>5, <2>6, <2>7
  <2> QED BY <2>9, <2>10, <2>11, <2>12
<1>22. ASSUME NEW d \in Devices, Vanish(d) PROVE AlternateInv'
  <2> DEFINE e == [added |-> FALSE, path |-> d, connected |-> FALSE, paired |-> FALSE]
  <2>0. PICK n \in Nat : n = Len(announced)
    BY <1>a
  <2>1. e \in Snapshots /\ e.path = d /\ e.added = FALSE
    BY DEF Snapshots
  <2>2. announced' = Append(announced, e) /\ UNCHANGED <<known, pc, arg>>
    BY <1>22 DEF Vanish, serviceVars
  <2>3. d \in present /\ present' = present \ {d} /\ Heard' \subseteq Heard
    BY <1>22 DEF Vanish, Event, Heard
  <2>4. ~Started => d \notin Heard'
    BY <1>22 DEF Vanish, Event, Heard
  <2> SUFFICES ASSUME NEW c \in Heard'
               PROVE  /\ \A k \in 1..(n + 1) : FirstOf(c, k)' => (announced'[k].added <=> ~Here(c)')
                      /\ \A k \in 1..(n + 1) : LastOf(c, k)' => (announced'[k].added <=> c \in present')
                      /\ \A j, k \in 1..(n + 1) :
                            Successive(c, j, k)' => (announced'[j].added <=> ~announced'[k].added)
                      /\ Settled(c)' /\ Made' => (Here(c)' <=> c \in present')
    <3>1. Len(announced') = n + 1
      BY <2>0, <2>1, <2>2, AppendMoves
    <3> QED BY <3>1 DEF AlternateInv
  <2>5. c \in Heard /\ Here(c)' = Here(c) /\ Made' = Made /\ (c = d => Made)
    BY <2>2, <2>3, <2>4 DEF Here, Removing, Selecting, Made, Started
  <2>6. /\ \A k \in 1..n : FirstOf(c, k) => (announced[k].added <=> ~Here(c))
        /\ \A k \in 1..n : LastOf(c, k) => (announced[k].added <=> c \in present)
        /\ \A j, k \in 1..n :
              Successive(c, j, k) => (announced[j].added <=> ~announced[k].added)
        /\ Settled(c) /\ Made => (Here(c) <=> c \in present)
    BY <2>0, <2>5 DEF HeardInv, AlternateInv
  <2>7. /\ Len(announced') = n + 1 /\ announced'[n + 1] = e
        /\ \A k \in 1..n : announced'[k] = announced[k]
        /\ \A k \in 1..n : FirstOf(c, k)' => FirstOf(c, k)
        /\ FirstOf(c, n + 1)' => d = c /\ Settled(c)
        /\ \A k \in 1..n : LastOf(c, k)' => LastOf(c, k) /\ d # c
        /\ LastOf(c, n + 1)' => d = c
        /\ \A j, k \in 1..n : Successive(c, j, k)' => Successive(c, j, k)
        /\ \A j \in 1..n : Successive(c, j, n + 1)' => LastOf(c, j) /\ d = c
        /\ \A j \in 1..(n + 1) : ~Successive(c, n + 1, j)'
        /\ Settled(c)' => Settled(c) /\ d # c
    <3> HIDE DEF e
    <3>1. /\ Len(announced') = n + 1 /\ announced'[n + 1] = e
          /\ \A k \in 1..n : announced'[k] = announced[k]
          /\ \A k \in 1..n : FirstOf(c, k)' => FirstOf(c, k)
          /\ FirstOf(c, n + 1)' => e.path = c /\ Settled(c)
          /\ \A k \in 1..n : LastOf(c, k)' => LastOf(c, k) /\ e.path # c
          /\ LastOf(c, n + 1)' => e.path = c
          /\ \A j, k \in 1..n : Successive(c, j, k)' => Successive(c, j, k)
          /\ \A j \in 1..n : Successive(c, j, n + 1)' => LastOf(c, j)
          /\ \A j \in 1..(n + 1) : ~Successive(c, n + 1, j)'
          /\ Settled(c)' => Settled(c) /\ e.path # c
      BY <2>0, <2>1, <2>2, <1>a, LastComes
    <3>2. \A j \in 1..n : Successive(c, j, n + 1)' => e.path = c
      BY <3>1 DEF Successive, Of
    <3> QED BY <2>1, <3>1, <3>2
  <2> HIDE DEF e
  <2>8. \A k \in 1..(n + 1) : k \in 1..n \/ k = n + 1
    OBVIOUS
  <2>9. \A k \in 1..(n + 1) : FirstOf(c, k)' => (announced'[k].added <=> ~Here(c)')
    BY <2>1, <2>3, <2>5, <2>6, <2>7, <2>8
  <2>10. \A k \in 1..(n + 1) : LastOf(c, k)' => (announced'[k].added <=> c \in present')
    BY <2>1, <2>3, <2>5, <2>6, <2>7, <2>8
  <2>11. \A j, k \in 1..(n + 1) :
            Successive(c, j, k)' => (announced'[j].added <=> ~announced'[k].added)
    BY <2>1, <2>3, <2>5, <2>6, <2>7, <2>8
  <2>12. Settled(c)' /\ Made' => (Here(c)' <=> c \in present')
    BY <2>3, <2>5, <2>6, <2>7
  <2> QED BY <2>9, <2>10, <2>11, <2>12
<1>23. ASSUME NEW d \in Devices, ConnectedFlips(d) PROVE AlternateInv'
  <2>1. Heard' \subseteq Heard /\ UNCHANGED <<announced, present, known, pc, arg>>
    BY <1>23 DEF ConnectedFlips, Event, Heard, serviceVars
  <2> QED BY <2>1 DEF HeardInv, AlternateInv, Here, Removing, Selecting, Made, Of, FirstOf, LastOf,
                      Successive, Settled
<1>24. ASSUME NEW d \in Devices, Pairs(d) PROVE AlternateInv'
  <2>1. Heard' \subseteq Heard /\ UNCHANGED <<announced, present, known, pc, arg>>
    BY <1>24 DEF Pairs, Event, Heard, serviceVars
  <2> QED BY <2>1 DEF HeardInv, AlternateInv, Here, Removing, Selecting, Made, Of, FirstOf, LastOf,
                      Successive, Settled
<1>25. CASE UNCHANGED vars
  BY <1>25, <1>b DEF vars, bluezVars, serviceVars, Here, Removing, Selecting, Made
<1>26. CASE RemovalBreaksOff
  <2>1. pathOf[arg[Bus]] \in Devices /\ arg[Bus] \in Infos
    BY <1>26, ThreadsDiffer
      DEF RemovalBreaksOff, Goto, IInv, Types, InfoTypes, ThreadTypes, ArgInv
  <2>2. Heard' \subseteq Heard /\ pathOf[arg[Bus]] \notin Heard'
    BY <1>26, <2>1 DEF RemovalBreaksOff, Heard
  <2>3. \A c \in Heard' : ~(Removing /\ arg[Bus] = known[c])
    <3>1. \A c \in Devices : known[c] # NoInfo => pathOf[known[c]] = c
      BY DEF IInv, Types, PathInv
    <3>2. arg[Bus] # NoInfo /\ Heard \subseteq Devices
      BY <2>1, FetcherAssumption DEF Heard
    <3> QED BY <2>2, <3>1, <3>2
  <2>4. ~Removing' /\ known' = known
    <3>1. pc'[Bus] = "idle" /\ known' = known
      BY <1>26, ThreadsDiffer DEF RemovalBreaksOff, Goto, IInv, Types, ThreadTypes, serviceVars
    <3> QED BY <3>1 DEF Removing, Selecting
  <2>5. \A c \in Heard' : Here(c)' = Here(c)
    BY <2>3, <2>4 DEF Here
  <2>6. Made' => Made
    BY <1>26, ThreadsDiffer DEF RemovalBreaksOff, Goto, Made, IInv, Types, ThreadTypes
  <2>7. UNCHANGED <<announced, present>>
    BY <1>26 DEF RemovalBreaksOff
  <2> QED BY <2>2, <2>5, <2>6, <2>7
      DEF HeardInv, AlternateInv, Of, FirstOf, LastOf, Successive, Settled
<1> QED
  BY <1>1, <1>2, <1>3, <1>4, <1>5, <1>6, <1>7, <1>8, <1>9, <1>10, <1>11, <1>12, <1>13, <1>14,
     <1>15, <1>16, <1>17, <1>18, <1>19, <1>20, <1>21, <1>22, <1>23, <1>24, <1>25, <1>26
    DEF Next, Startup, BusStep, TrySelectNewActiveDevice

\* Devices are made of paired objects that are known.
LEMMA AddingStep == IInv /\ HeardInv /\ [Next]_vars => AddingInv'
<1> SUFFICES ASSUME IInv, HeardInv, [Next]_vars PROVE AddingInv'
  OBVIOUS

<1>a. /\ \A d \in Devices : d # NoDevice
      /\ NoInfo \notin Infos
  BY FetcherAssumption
<1>b. Heard \subseteq Devices /\ pathOf \in [Infos -> Devices \cup {NoDevice}] /\ paired \subseteq Infos
  BY DEF Heard, IInv, Types, InfoTypes, ProgramTypes
<1>1. CASE FetchDevices
  BY <1>1, <1>a, <1>b, ThreadsDiffer
    DEF FetchDevices, Goto, IInv, Types, ProgramTypes, ThreadTypes, HeardInv, AddingInv, Heard,
        PathInv, ArgInv, Removing, Selecting, PlaceInv, ResumeInv, Selected, Announced, bluezVars,
        infoVars, serviceVars
<1>2. CASE ClearMaps
  BY <1>2
    DEF ClearMaps, Goto, QuietInv, Started, bluezVars, ProgramTypes, ThreadTypes, HeardInv,
        AddingInv, Heard
<1>3. CASE CreateFetched

  <2> DEFINE s == CHOOSE x \in todo : \A y \in todo : x.path <= y.path
  <2>1. s \in Snapshots
    BY <1>3, FetchedIsSnapshot DEF CreateFetched, IInv, Types, TodoTypes, Early
  <2>2. CreateInfo(Main, s, "create")
    BY <1>3 DEF CreateFetched
  <2>3. /\ s \in todo /\ todo' = todo \ {s} /\ pc[Main] = "create"
        /\ UNCHANGED <<bluezVars, deviceVars, active, subscribed, candidate, overlapped>>
    BY <1>3, FetchedIsSnapshot DEF CreateFetched, IInv, Types, TodoTypes, Early
  <2> HIDE DEF s

  <2>4. /\ NewInfo \in Infos /\ pathOf[NewInfo] = NoDevice /\ NewInfo # NoInfo
        /\ NewInfo \notin listening /\ NewInfo \notin paired
        /\ \A d \in Devices : devicesMap[d] # NewInfo /\ known[d] # NewInfo
        /\ \A t \in Threads : arg[t] # NewInfo
    BY <2>2, NewInfoUnused DEF CreateInfo
  <2>6. \A c \in Heard : s.path = c => known[c] = NoInfo
    BY <2>3 DEF HeardInv, FetchInv
  <2>7. /\ s.path \in Devices
        /\ known' = [known EXCEPT ![s.path] = NewInfo]
        /\ pathOf' = [pathOf EXCEPT ![NewInfo] = s.path]
        /\ arg' = [arg EXCEPT ![Main] = NewInfo]
        /\ paired' = IF s.paired THEN paired \cup {NewInfo} ELSE paired
        /\ pc' = [pc EXCEPT ![Main] = IF s.paired THEN "deviceAdded" ELSE "create"]
        /\ UNCHANGED <<devicesMap, unheard>>
    BY <1>3, <2>1, <2>2, <2>3 DEF CreateInfo, Snapshots, bluezVars, deviceVars
  <2>8. pc[NewInfo] = "idle" /\ pc'[NewInfo] = "idle" /\ NewInfo # Bus /\ NewInfo # Main
    BY <2>4, <2>7, ThreadsDiffer DEF HeardInv, ListenInv
  <2> QED BY <1>a, <1>b, <2>3, <2>4, <2>6, <2>7, <2>8, ThreadsDiffer DEF IInv, Types, ProgramTypes, ThreadTypes, HeardInv, AddingInv, Heard
<1>4. CASE AllFetched
  BY <1>4, <1>a, <1>b, ThreadsDiffer
    DEF AllFetched, Goto, IInv, Types, ProgramTypes, ThreadTypes, HeardInv, AddingInv, Heard,
        PathInv, ArgInv, Removing, Selecting, PlaceInv, ResumeInv, Selected, Announced, bluezVars,
        infoVars, serviceVars
<1>5. CASE BeginFill
  BY <1>5, <1>a, <1>b, ThreadsDiffer
    DEF BeginFill, Goto, IInv, Types, ProgramTypes, ThreadTypes, HeardInv, AddingInv, Heard,
        PathInv, ArgInv, Removing, Selecting, PlaceInv, ResumeInv, Selected, Announced, bluezVars,
        infoVars, serviceVars
<1>6. CASE Fill
  BY <1>6, <1>a, <1>b, ThreadsDiffer
    DEF Fill, AddDevice, IInv, Types, ProgramTypes, ThreadTypes, HeardInv, AddingInv, Heard,
        PathInv, ArgInv, Removing, Selecting, PlaceInv, ResumeInv, Selected, Announced, bluezVars,
        infoVars, serviceVars
<1>7. CASE Filled
  BY <1>7, <1>a, <1>b, ThreadsDiffer
    DEF Filled, Select, IInv, Types, ProgramTypes, ThreadTypes, HeardInv, AddingInv, Heard,
        PathInv, ArgInv, Removing, Selecting, PlaceInv, ResumeInv, Selected, Announced, bluezVars,
        infoVars, serviceVars
<1>8. CASE Subscribe
  BY <1>8, <1>a, <1>b, ThreadsDiffer
    DEF Subscribe, Goto, IInv, Types, ProgramTypes, ThreadTypes, HeardInv, AddingInv, Heard,
        PathInv, ArgInv, Removing, Selecting, PlaceInv, ResumeInv, Selected, Announced, bluezVars,
        infoVars, serviceVars
<1>9. CASE HandleInterfacesAdded

  <2> DEFINE s == Head(announced)
  <2>1. s \in Snapshots
    BY <1>9, HeadTailProperties DEF HandleInterfacesAdded, IInv, Types, BluezTypes
  <2>2. CreateInfo(Bus, s, "idle")
    BY <1>9 DEF HandleInterfacesAdded
  <2>3. UNCHANGED <<deviceVars, active, subscribed, todo, candidate, overlapped>>
    BY <1>9 DEF HandleInterfacesAdded
  <2> HIDE DEF s

  <2>4. /\ NewInfo \in Infos /\ pathOf[NewInfo] = NoDevice /\ NewInfo # NoInfo
        /\ NewInfo \notin listening /\ NewInfo \notin paired
        /\ \A d \in Devices : devicesMap[d] # NewInfo /\ known[d] # NewInfo
        /\ \A t \in Threads : arg[t] # NewInfo
    BY <2>2, NewInfoUnused DEF CreateInfo
  <2>6. \A c \in Heard : s.path = c => known[c] = NoInfo
    <3>1. FirstOf(s.path, 1) /\ 1 \in 1..Len(announced) /\ announced[1].added /\ pc[Bus] = "idle"
      BY <1>9, TailMoves DEF HandleInterfacesAdded, FirstOf, Of, s
    <3> QED BY <3>1 DEF HeardInv, AlternateInv, Here, Removing, Selecting
  <2>7. /\ s.path \in Devices
        /\ known' = [known EXCEPT ![s.path] = NewInfo]
        /\ pathOf' = [pathOf EXCEPT ![NewInfo] = s.path]
        /\ arg' = [arg EXCEPT ![Bus] = NewInfo]
        /\ paired' = IF s.paired THEN paired \cup {NewInfo} ELSE paired
        /\ pc' = [pc EXCEPT ![Bus] = IF s.paired THEN "deviceAdded" ELSE "idle"]
        /\ UNCHANGED <<devicesMap, unheard>>
    BY <1>9, <2>1, <2>2, <2>3 DEF CreateInfo, Snapshots, HandleInterfacesAdded, deviceVars
  <2>8. pc[NewInfo] = "idle" /\ pc'[NewInfo] = "idle" /\ NewInfo # Bus /\ NewInfo # Main
    BY <2>4, <2>7, ThreadsDiffer DEF HeardInv, ListenInv
  <2>9. ~s.paired /\ pc[Bus] = "idle"
    BY <1>9, TailMoves DEF HandleInterfacesAdded, s, HeardInv, AnnouncedInv
  <2>10. \A d \in Heard : known'[d] = known[d] \/ (s.path = d /\ known[d] = NoInfo)
    BY <2>6, <2>7
  <2>11. /\ UNCHANGED <<todo, unheard, paired>>
         /\ pc'[Main] = pc[Main] /\ pc'[Bus] = "idle"
         /\ \A i \in Infos : pc'[i] = pc[i] /\ arg'[i] = arg[i]
    BY <2>3, <2>7, <2>9, ThreadsDiffer
  <2>12. \A i \in Infos : i # NewInfo => pathOf'[i] = pathOf[i]
    BY <2>7
  <2>13. \A i \in Infos : pc[i] = "deviceAdded" => i # NewInfo /\ arg[i] # NewInfo /\ arg[i] \in Infos
    BY <2>4, <2>8 DEF IInv, Types, ThreadTypes, ArgInv, Threads
  <2>14. \A i \in Infos : pc'[i] = "deviceAdded" => pathOf'[arg'[i]] = pathOf'[i]
    BY <2>11, <2>12, <2>13 DEF HeardInv, AddingInv
  <2>15. ASSUME NEW d \in Heard, NEW i \in Infos, pathOf'[i] = d, pc'[i] = "deviceAdded"
         PROVE  i \in paired'
    BY <2>11, <2>12, <2>13, <2>15 DEF HeardInv, AddingInv
  <2>16. ASSUME NEW d \in Heard, NEW i \in paired, pathOf'[i] = d
         PROVE  i = known'[d]
    <3>1. i \in Infos /\ i # NewInfo /\ pathOf[i] = d
      BY <1>b, <2>4, <2>12, <2>16
    <3>2. i = known[d]
      BY <3>1 DEF HeardInv, AddingInv
    <3> QED BY <1>a, <2>10, <3>1, <3>2
  <2>17. ASSUME pc[Main] = "filling", NEW d \in Heard, NEW i \in todo, pathOf'[i] = d
         PROVE  i = known'[d] /\ i \in paired
    <3>1. i \in Infos
      BY <2>17 DEF IInv, Types, TodoTypes
    <3>2. s.path # d
      <4>1. 1 \in 1..Len(announced) /\ announced[1] = s
        BY <1>9, TailMoves DEF HandleInterfacesAdded, s
      <4> QED BY <2>17, <4>1 DEF HeardInv, QuietInv, Started, Settled
    <3>3. i # NewInfo /\ pathOf[i] = d
      BY <1>b, <2>7, <2>12, <2>17, <3>1, <3>2
    <3>4. i = known[d] /\ i \in paired
      BY <2>17, <3>3 DEF HeardInv, AddingInv
    <3> QED BY <2>10, <3>2, <3>4
  <2> QED BY <2>11, <2>14, <2>15, <2>16, <2>17 DEF AddingInv, Heard
<1>10. CASE HandleInterfacesRemoved
  BY <1>10, <1>a, <1>b, ThreadsDiffer
    DEF HandleInterfacesRemoved, Goto, IInv, Types, ProgramTypes, ThreadTypes, HeardInv,
        AddingInv, Heard, PathInv, ArgInv, Removing, Selecting, PlaceInv, ResumeInv, Selected,
        Announced, bluezVars, infoVars, serviceVars
<1>11. CASE StopListening
  BY <1>11, <1>a, <1>b, ThreadsDiffer
    DEF StopListening, Goto, IInv, Types, ProgramTypes, ThreadTypes, HeardInv, AddingInv, Heard,
        PathInv, ArgInv, Removing, Selecting, PlaceInv, ResumeInv, Selected, Announced, bluezVars,
        infoVars, serviceVars
<1>12. CASE OnDeviceRemoved
  BY <1>12, <1>a, <1>b, ThreadsDiffer
    DEF OnDeviceRemoved, Select, Goto, IInv, Types, ProgramTypes, ThreadTypes, HeardInv,
        AddingInv, Heard, PathInv, ArgInv, Removing, Selecting, PlaceInv, ResumeInv, Selected,
        Announced, bluezVars, infoVars, serviceVars
<1>13. CASE Forget

  <2>1. /\ pc[Bus] = "forget" /\ pc' = [pc EXCEPT ![Bus] = "idle"]
        /\ known' = [known EXCEPT ![pathOf[arg[Bus]]] = NoInfo]
        /\ paired' = paired \ {arg[Bus]}
        /\ UNCHANGED <<unheard, arg, pathOf, todo>>
    BY <1>13 DEF Forget, Goto, bluezVars, infoVars
  <2>2. Removing /\ arg[Bus] \notin listening
    BY <2>1 DEF Removing, Stopped, HeardInv, StoppedInv
  <2>3. \A i \in Infos : pc'[i] = pc[i] /\ (pc[i] = "deviceAdded" => i # arg[Bus])
    BY <2>1, <2>2, ThreadsDiffer DEF HeardInv, ListenInv
  <2>4. pc'[Bus] = "idle" /\ pc'[Main] = pc[Main]
    BY <2>1, ThreadsDiffer DEF IInv, Types, ThreadTypes
  <2>5. \A d \in Heard : pathOf[arg[Bus]] = d => arg[Bus] = known[d]
    BY <2>2 DEF HeardInv, ObjectInv
  <2>6. pc[Main] = "filling" => \A d \in Heard : pathOf[arg[Bus]] # d
    BY <2>2 DEF HeardInv, QuietInv, Started
  <2>7. \A d \in Heard : pathOf[arg[Bus]] # d => known'[d] = known[d]
    BY <2>1
  <2> QED BY <1>b, <2>1, <2>3, <2>4, <2>5, <2>6, <2>7 DEF HeardInv, AddingInv, Heard
<1>14. ASSUME NEW t \in Threads, OnDeviceAdded(t) PROVE AddingInv'
  BY <1>14, <1>a, <1>b, ThreadsDiffer
    DEF OnDeviceAdded, AddDevice, IInv, Types, ProgramTypes, ThreadTypes, HeardInv, AddingInv,
        Heard, PathInv, ArgInv, Removing, Selecting, PlaceInv, ResumeInv, Selected, Announced,
        bluezVars, infoVars, serviceVars
<1>15. ASSUME NEW t \in Threads, RememberPrevious(t) PROVE AddingInv'
  BY <1>15, <1>a, <1>b, ThreadsDiffer
    DEF RememberPrevious, Goto, IInv, Types, ProgramTypes, ThreadTypes, HeardInv, AddingInv,
        Heard, PathInv, ArgInv, Removing, Selecting, PlaceInv, ResumeInv, Selected, Announced,
        bluezVars, infoVars, serviceVars
<1>16. ASSUME NEW t \in Threads, ClearActive(t) PROVE AddingInv'
  BY <1>16, <1>a, <1>b, ThreadsDiffer
    DEF ClearActive, Goto, IInv, Types, ProgramTypes, ThreadTypes, HeardInv, AddingInv, Heard,
        PathInv, ArgInv, Removing, Selecting, PlaceInv, ResumeInv, Selected, Announced, bluezVars,
        infoVars, serviceVars
<1>17. ASSUME NEW t \in Threads, ReadConnected(t) PROVE AddingInv'
  BY <1>17, <1>a, <1>b, ThreadsDiffer
    DEF ReadConnected, Goto, IInv, Types, ProgramTypes, ThreadTypes, HeardInv, AddingInv, Heard,
        PathInv, ArgInv, Removing, Selecting, PlaceInv, ResumeInv, Selected, Announced, bluezVars,
        infoVars, serviceVars
<1>18. ASSUME NEW t \in Threads, AssignActive(t) PROVE AddingInv'
  BY <1>18, <1>a, <1>b, ThreadsDiffer
    DEF AssignActive, IInv, Types, ProgramTypes, ThreadTypes, HeardInv, AddingInv, Heard, PathInv,
        ArgInv, Removing, Selecting, PlaceInv, ResumeInv, Selected, Announced, bluezVars,
        infoVars, serviceVars
<1>19. ASSUME NEW i \in Infos, ConnectedChanged(i) PROVE AddingInv'
  BY <1>19, <1>a, <1>b, ThreadsDiffer
    DEF ConnectedChanged, Take, Select, IInv, Types, ProgramTypes, ThreadTypes, HeardInv,
        AddingInv, Heard, PathInv, ArgInv, Removing, Selecting, PlaceInv, ResumeInv, Selected,
        Announced, bluezVars, infoVars, serviceVars
<1>20. ASSUME NEW i \in Infos, PairedChanged(i) PROVE AddingInv'
  <2> DEFINE made == known[pathOf[i]]
  <2>0. \/ /\ made # NoInfo /\ paired' = paired \cup {made}
           /\ arg' = [arg EXCEPT ![i] = made]
           /\ pc' = [pc EXCEPT ![i] = "deviceAdded"]
        \/ paired' = paired /\ arg' = arg /\ pc' = pc
    BY <1>20 DEF PairedChanged
  <2>1. /\ UNCHANGED <<unheard, known, pathOf, todo>> /\ i \in listening
        /\ \/ /\ made # NoInfo /\ paired' = paired \cup {made}
              /\ arg' = [arg EXCEPT ![i] = made]
              /\ pc' = [pc EXCEPT ![i] = "deviceAdded"]
           \/ paired' = paired /\ arg' = arg /\ pc' = pc
    BY <1>20, <2>0 DEF PairedChanged, Take, bluezVars
  <2>2. pathOf[i] \in Devices /\ (made # NoInfo => pathOf[made] = pathOf[i])
    BY <2>1 DEF IInv, Types, InfoTypes, PathInv
  <2>3. \A d \in Heard : pathOf[i] = d => i = known[d]
    BY <2>1 DEF HeardInv, ObjectInv
  <2>4. /\ pc'[Bus] = pc[Bus] /\ pc'[Main] = pc[Main]
        /\ \A j \in Infos : pc'[j] = "deviceAdded" =>
               \/ pc[j] = "deviceAdded" /\ arg'[j] = arg[j]
               \/ j = i /\ arg'[j] = made /\ made # NoInfo /\ made \in paired'
    BY <2>1, ThreadsDiffer DEF IInv, Types, ThreadTypes
  <2>5. paired' = paired \/ (paired' = paired \cup {made} /\ made # NoInfo)
    BY <2>1
  <2>6. \A d \in Heard : known[d] = made \/ pathOf[i] # d
    OBVIOUS
  <2> HIDE DEF made
  <2> QED BY <1>b, <2>1, <2>2, <2>3, <2>4, <2>5, <2>6 DEF HeardInv, AddingInv, Heard
<1>21. ASSUME NEW d \in Devices, Appear(d) PROVE AddingInv'
  BY <1>21, <1>a, <1>b, ThreadsDiffer
    DEF Appear, Event, IInv, Types, ProgramTypes, ThreadTypes, HeardInv, AddingInv, Heard,
        PathInv, ArgInv, Removing, Selecting, PlaceInv, ResumeInv, Selected, Announced, bluezVars,
        infoVars, serviceVars
<1>22. ASSUME NEW d \in Devices, Vanish(d) PROVE AddingInv'
  BY <1>22, <1>a, <1>b, ThreadsDiffer
    DEF Vanish, Event, IInv, Types, ProgramTypes, ThreadTypes, HeardInv, AddingInv, Heard,
        PathInv, ArgInv, Removing, Selecting, PlaceInv, ResumeInv, Selected, Announced, bluezVars,
        infoVars, serviceVars
<1>23. ASSUME NEW d \in Devices, ConnectedFlips(d) PROVE AddingInv'
  BY <1>23, <1>a, <1>b, ThreadsDiffer
    DEF ConnectedFlips, Event, Signal, IInv, Types, ProgramTypes, ThreadTypes, HeardInv,
        AddingInv, Heard, PathInv, ArgInv, Removing, Selecting, PlaceInv, ResumeInv, Selected,
        Announced, bluezVars, infoVars, serviceVars
<1>24. ASSUME NEW d \in Devices, Pairs(d) PROVE AddingInv'
  BY <1>24, <1>a, <1>b, ThreadsDiffer
    DEF Pairs, Event, Signal, IInv, Types, ProgramTypes, ThreadTypes, HeardInv, AddingInv, Heard,
        PathInv, ArgInv, Removing, Selecting, PlaceInv, ResumeInv, Selected, Announced, bluezVars,
        infoVars, serviceVars
<1>25. CASE UNCHANGED vars
  BY <1>25 DEF vars, bluezVars, infoVars, serviceVars, IInv, HeardInv, AddingInv, Heard
<1>26. CASE RemovalBreaksOff
  BY <1>26, ThreadsDiffer
    DEF RemovalBreaksOff, Goto, IInv, Types, ProgramTypes, ThreadTypes, HeardInv, AddingInv,
        Heard, PathInv, ArgInv, Removing, Selecting, PlaceInv, ResumeInv, Selected, Announced,
        infoVars, serviceVars
<1> QED
  BY <1>1, <1>2, <1>3, <1>4, <1>5, <1>6, <1>7, <1>8, <1>9, <1>10, <1>11, <1>12, <1>13, <1>14,
     <1>15, <1>16, <1>17, <1>18, <1>19, <1>20, <1>21, <1>22, <1>23, <1>24, <1>25, <1>26
    DEF Next, Startup, BusStep, TrySelectNewActiveDevice

\* A device is made from the known object, until it is erased.
LEMMA MapStep == IInv /\ HeardInv /\ [Next]_vars => MapInv'
<1> SUFFICES ASSUME IInv, HeardInv, [Next]_vars PROVE MapInv'
  OBVIOUS

<1>a. /\ \A d \in Devices : d # NoDevice
      /\ NoInfo \notin Infos
  BY FetcherAssumption
<1>b. Heard \subseteq Devices /\ pathOf \in [Infos -> Devices \cup {NoDevice}] /\ paired \subseteq Infos
  BY DEF Heard, IInv, Types, InfoTypes, ProgramTypes
<1>1. CASE FetchDevices
  BY <1>1, <1>a, <1>b, ThreadsDiffer
    DEF FetchDevices, Goto, IInv, Types, ProgramTypes, ThreadTypes, HeardInv, MapInv, Heard,
        Erased, Stopped, Removing, Selecting, PathInv, ArgInv, PlaceInv, ResumeInv, Selected,
        Announced, bluezVars, infoVars, serviceVars, deviceVars
<1>2. CASE ClearMaps
  BY <1>2, <1>b DEF ClearMaps, Goto, EarlyInv, Early, bluezVars, deviceVars, IInv, MapInv, Heard
<1>3. CASE CreateFetched
  BY <1>3 DEF CreateFetched, EarlyInv, Early, deviceVars, IInv, MapInv, Heard
<1>4. CASE AllFetched
  BY <1>4, <1>a, <1>b, ThreadsDiffer
    DEF AllFetched, Goto, IInv, Types, ProgramTypes, ThreadTypes, HeardInv, MapInv, Heard, Erased,
        Stopped, Removing, Selecting, PathInv, ArgInv, PlaceInv, ResumeInv, Selected, Announced,
        bluezVars, infoVars, serviceVars, deviceVars
<1>5. CASE BeginFill
  BY <1>5 DEF BeginFill, MapInv, Heard
<1>6. CASE Fill

  <2>1. PICK i \in todo : AddDevice(i)
    BY <1>6 DEF Fill
  <2>2. i \in Infos
    BY <1>6 DEF Fill, IInv, Types, TodoTypes
  <2>3. UNCHANGED <<unheard, known, paired, pc, arg>> /\ pc[Main] = "filling"
    BY <1>6 DEF Fill, bluezVars, serviceVars
  <2>4. \A d \in Heard : /\ pathOf[i] = d => i = known[d] /\ i \in paired
                         /\ Removing => pathOf[arg[Bus]] # d
    BY <2>3 DEF HeardInv, AddingInv, QuietInv, Started
  <2>5. \A d \in Heard : devicesMap'[d] = devicesMap[d] \/ (pathOf[i] = d /\ devicesMap'[d] = i)
    BY <1>b, <2>1 DEF AddDevice, IInv, Types, ProgramTypes, deviceVars
  <2>6. (Erased' <=> Erased) /\ (Erased => Removing)
    BY <2>3 DEF Erased, Stopped, Removing, Selecting
  <2> QED BY <2>2, <2>3, <2>4, <2>5, <2>6 DEF HeardInv, MapInv, Heard
<1>7. CASE Filled
  BY <1>7, <1>a, <1>b, ThreadsDiffer
    DEF Filled, Select, IInv, Types, ProgramTypes, ThreadTypes, HeardInv, MapInv, Heard, Erased,
        Stopped, Removing, Selecting, PathInv, ArgInv, PlaceInv, ResumeInv, Selected, Announced,
        bluezVars, infoVars, serviceVars, deviceVars
<1>8. CASE Subscribe
  BY <1>8, <1>a, <1>b, ThreadsDiffer
    DEF Subscribe, Goto, IInv, Types, ProgramTypes, ThreadTypes, HeardInv, MapInv, Heard, Erased,
        Stopped, Removing, Selecting, PathInv, ArgInv, PlaceInv, ResumeInv, Selected, Announced,
        bluezVars, infoVars, serviceVars, deviceVars
<1>9. CASE HandleInterfacesAdded

  <2> DEFINE s == Head(announced)
  <2>1. s \in Snapshots
    BY <1>9, HeadTailProperties DEF HandleInterfacesAdded, IInv, Types, BluezTypes
  <2>2. CreateInfo(Bus, s, "idle")
    BY <1>9 DEF HandleInterfacesAdded
  <2>3. UNCHANGED <<deviceVars, active, subscribed, todo, candidate, overlapped>>
    BY <1>9 DEF HandleInterfacesAdded
  <2> HIDE DEF s

  <2>4. /\ NewInfo \in Infos /\ pathOf[NewInfo] = NoDevice /\ NewInfo # NoInfo
        /\ NewInfo \notin listening /\ NewInfo \notin paired
        /\ \A d \in Devices : devicesMap[d] # NewInfo /\ known[d] # NewInfo
        /\ \A t \in Threads : arg[t] # NewInfo
    BY <2>2, NewInfoUnused DEF CreateInfo
  <2>6. \A c \in Heard : s.path = c => known[c] = NoInfo
    <3>1. FirstOf(s.path, 1) /\ 1 \in 1..Len(announced) /\ announced[1].added /\ pc[Bus] = "idle"
      BY <1>9, TailMoves DEF HandleInterfacesAdded, FirstOf, Of, s
    <3> QED BY <3>1 DEF HeardInv, AlternateInv, Here, Removing, Selecting
  <2>7. /\ s.path \in Devices
        /\ known' = [known EXCEPT ![s.path] = NewInfo]
        /\ pathOf' = [pathOf EXCEPT ![NewInfo] = s.path]
        /\ arg' = [arg EXCEPT ![Bus] = NewInfo]
        /\ paired' = IF s.paired THEN paired \cup {NewInfo} ELSE paired
        /\ pc' = [pc EXCEPT ![Bus] = IF s.paired THEN "deviceAdded" ELSE "idle"]
        /\ UNCHANGED <<devicesMap, unheard>>
    BY <1>9, <2>1, <2>2, <2>3 DEF CreateInfo, Snapshots, HandleInterfacesAdded, deviceVars
  <2>8. pc[NewInfo] = "idle" /\ pc'[NewInfo] = "idle" /\ NewInfo # Bus /\ NewInfo # Main
    BY <2>4, <2>7, ThreadsDiffer DEF HeardInv, ListenInv
  <2>9. ~s.paired /\ pc[Bus] = "idle"
    BY <1>9, TailMoves DEF HandleInterfacesAdded, s, HeardInv, AnnouncedInv
  <2>10. ~Erased'
    BY <2>7, <2>9 DEF Erased, Stopped, Removing, Selecting
  <2>11. \A d \in Heard : known'[d] = known[d] \/ s.path = d
    BY <2>7
  <2> QED BY <1>a, <1>b, <2>4, <2>6, <2>7, <2>10, <2>11 DEF HeardInv, MapInv, Heard, IInv, Types, ProgramTypes
<1>10. CASE HandleInterfacesRemoved
  BY <1>10, <1>a, <1>b, ThreadsDiffer
    DEF HandleInterfacesRemoved, Goto, IInv, Types, ProgramTypes, ThreadTypes, HeardInv, MapInv,
        Heard, Erased, Stopped, Removing, Selecting, PathInv, ArgInv, PlaceInv, ResumeInv,
        Selected, Announced, bluezVars, infoVars, serviceVars, deviceVars
<1>11. CASE StopListening
  BY <1>11, <1>a, <1>b, ThreadsDiffer
    DEF StopListening, Goto, IInv, Types, ProgramTypes, ThreadTypes, HeardInv, MapInv, Heard,
        Erased, Stopped, Removing, Selecting, PathInv, ArgInv, PlaceInv, ResumeInv, Selected,
        Announced, bluezVars, infoVars, serviceVars, deviceVars
<1>12. CASE OnDeviceRemoved

  <2>1. /\ pc[Bus] = "eraseDevice" /\ UNCHANGED <<unheard, known, paired, arg>>
        /\ \/ subscribed /\ devicesMap' = [devicesMap EXCEPT ![pathOf[arg[Bus]]] = NoInfo]
           \/ ~subscribed /\ UNCHANGED devicesMap
    BY <1>12 DEF OnDeviceRemoved, bluezVars, serviceVars
  <2>2. Removing /\ ~Erased /\ Erased'
    BY <1>12, ThreadsDiffer
      DEF OnDeviceRemoved, Select, Goto, Erased, Removing, Stopped, Selecting, IInv, Types,
          ThreadTypes
  <2>3. ~subscribed => \A d \in Heard : pathOf[arg[Bus]] # d
    BY <2>2 DEF HeardInv, QuietInv, Started, ReadyInv
  <2>4. \A d \in Heard : known[d] # NoInfo => pathOf[known[d]] = d
    BY <1>b DEF IInv, Types, PathInv
  <2> QED BY <1>b, <2>1, <2>2, <2>3, <2>4 DEF HeardInv, MapInv, Heard, IInv, Types, ProgramTypes
<1>13. CASE Forget

  <2>1. /\ pc[Bus] = "forget" /\ pc' = [pc EXCEPT ![Bus] = "idle"]
        /\ known' = [known EXCEPT ![pathOf[arg[Bus]]] = NoInfo]
        /\ paired' = paired \ {arg[Bus]}
        /\ UNCHANGED <<unheard, arg, devicesMap>>
    BY <1>13 DEF Forget, Goto, bluezVars, deviceVars
  <2>2. Erased /\ Removing /\ ~Erased'
    BY <2>1, ThreadsDiffer DEF Erased, Removing, Stopped, Selecting, IInv, Types, ThreadTypes
  <2>5. \A d \in Heard : pathOf[arg[Bus]] = d => arg[Bus] = known[d]
    BY <2>2 DEF HeardInv, ObjectInv
  <2>7. \A d \in Heard : pathOf[arg[Bus]] # d => known'[d] = known[d]
    BY <2>1
  <2>8. \A d \in Heard : known[d] # NoInfo => pathOf[known[d]] = d
    BY <1>b DEF IInv, Types, PathInv
  <2> QED BY <2>1, <2>2, <2>5, <2>7, <2>8 DEF HeardInv, MapInv, Heard
<1>14. ASSUME NEW t \in Threads, OnDeviceAdded(t) PROVE MapInv'
  <2>1. /\ pc[t] = "deviceAdded" /\ pc' = [pc EXCEPT ![t] = resume[t]]
        /\ UNCHANGED <<unheard, known, paired, arg, pathOf, todo, subscribed>>
        /\ IF subscribed THEN AddDevice(arg[t]) ELSE UNCHANGED devicesMap
    BY <1>14 DEF OnDeviceAdded, bluezVars, infoVars, serviceVars, deviceVars
  <2>2. t # Bus /\ (subscribed => t \in Infos)
    BY <2>1 DEF HeardInv, AddingInv, ReadyInv, Threads
  <2>3. /\ t \in Infos => pathOf[arg[t]] = pathOf[t] /\ t \in listening
        /\ \A d \in Heard : pathOf[t] = d /\ t \in Infos => /\ t \in paired /\ t = known[d]
                                                           /\ arg[t] = t /\ subscribed
    BY <2>1 DEF HeardInv, AddingInv, ListenInv, ObjectInv, QuietInv, ReadyInv, Started
  <2>4. Stopped => arg[Bus] \notin listening
    BY DEF HeardInv, StoppedInv
  <2>5. \A d \in Heard : devicesMap'[d] = devicesMap[d] \/
            (subscribed /\ t \in Infos /\ pathOf[t] = d /\ devicesMap'[d] = t)
    BY <1>b, <2>1, <2>2, <2>3 DEF AddDevice, IInv, Types, ProgramTypes, deviceVars
  <2>6. Erased' => Erased
    BY <2>1, <2>2 DEF Erased, Stopped, Removing, Selecting
  <2>7. Erased => Stopped
    BY DEF Erased
  <2> QED BY <1>a, <2>1, <2>3, <2>4, <2>5, <2>6, <2>7 DEF HeardInv, MapInv, Heard
<1>15. ASSUME NEW t \in Threads, RememberPrevious(t) PROVE MapInv'
  BY <1>15, <1>a, <1>b, ThreadsDiffer
    DEF RememberPrevious, Goto, IInv, Types, ProgramTypes, ThreadTypes, HeardInv, MapInv, Heard,
        Erased, Stopped, Removing, Selecting, PathInv, ArgInv, PlaceInv, ResumeInv, Selected,
        Announced, bluezVars, infoVars, serviceVars, deviceVars
<1>16. ASSUME NEW t \in Threads, ClearActive(t) PROVE MapInv'
  BY <1>16, <1>a, <1>b, ThreadsDiffer
    DEF ClearActive, Goto, IInv, Types, ProgramTypes, ThreadTypes, HeardInv, MapInv, Heard,
        Erased, Stopped, Removing, Selecting, PathInv, ArgInv, PlaceInv, ResumeInv, Selected,
        Announced, bluezVars, infoVars, serviceVars, deviceVars
<1>17. ASSUME NEW t \in Threads, ReadConnected(t) PROVE MapInv'
  BY <1>17, <1>a, <1>b, ThreadsDiffer
    DEF ReadConnected, Goto, IInv, Types, ProgramTypes, ThreadTypes, HeardInv, MapInv, Heard,
        Erased, Stopped, Removing, Selecting, PathInv, ArgInv, PlaceInv, ResumeInv, Selected,
        Announced, bluezVars, infoVars, serviceVars, deviceVars
<1>18. ASSUME NEW t \in Threads, AssignActive(t) PROVE MapInv'
  BY <1>18, <1>a, <1>b, ThreadsDiffer
    DEF AssignActive, IInv, Types, ProgramTypes, ThreadTypes, HeardInv, MapInv, Heard, Erased,
        Stopped, Removing, Selecting, PathInv, ArgInv, PlaceInv, ResumeInv, Selected, Announced,
        bluezVars, infoVars, serviceVars, deviceVars
<1>19. ASSUME NEW i \in Infos, ConnectedChanged(i) PROVE MapInv'
  BY <1>19, <1>a, <1>b, ThreadsDiffer
    DEF ConnectedChanged, Take, Select, IInv, Types, ProgramTypes, ThreadTypes, HeardInv, MapInv,
        Heard, Erased, Stopped, Removing, Selecting, PathInv, ArgInv, PlaceInv, ResumeInv,
        Selected, Announced, bluezVars, infoVars, serviceVars, deviceVars
<1>20. ASSUME NEW i \in Infos, PairedChanged(i) PROVE MapInv'
  BY <1>20, <1>a, <1>b, ThreadsDiffer
    DEF PairedChanged, Take, IInv, Types, ProgramTypes, ThreadTypes, HeardInv, MapInv, Heard,
        Erased, Stopped, Removing, Selecting, PathInv, ArgInv, PlaceInv, ResumeInv, Selected,
        Announced, bluezVars, infoVars, serviceVars, deviceVars
<1>21. ASSUME NEW d \in Devices, Appear(d) PROVE MapInv'
  BY <1>21, <1>a, <1>b, ThreadsDiffer
    DEF Appear, Event, IInv, Types, ProgramTypes, ThreadTypes, HeardInv, MapInv, Heard, Erased,
        Stopped, Removing, Selecting, PathInv, ArgInv, PlaceInv, ResumeInv, Selected, Announced,
        bluezVars, infoVars, serviceVars, deviceVars
<1>22. ASSUME NEW d \in Devices, Vanish(d) PROVE MapInv'
  BY <1>22, <1>a, <1>b, ThreadsDiffer
    DEF Vanish, Event, IInv, Types, ProgramTypes, ThreadTypes, HeardInv, MapInv, Heard, Erased,
        Stopped, Removing, Selecting, PathInv, ArgInv, PlaceInv, ResumeInv, Selected, Announced,
        bluezVars, infoVars, serviceVars, deviceVars
<1>23. ASSUME NEW d \in Devices, ConnectedFlips(d) PROVE MapInv'
  BY <1>23, <1>a, <1>b, ThreadsDiffer
    DEF ConnectedFlips, Event, Signal, IInv, Types, ProgramTypes, ThreadTypes, HeardInv, MapInv,
        Heard, Erased, Stopped, Removing, Selecting, PathInv, ArgInv, PlaceInv, ResumeInv,
        Selected, Announced, bluezVars, infoVars, serviceVars, deviceVars
<1>24. ASSUME NEW d \in Devices, Pairs(d) PROVE MapInv'
  BY <1>24, <1>a, <1>b, ThreadsDiffer
    DEF Pairs, Event, Signal, IInv, Types, ProgramTypes, ThreadTypes, HeardInv, MapInv, Heard,
        Erased, Stopped, Removing, Selecting, PathInv, ArgInv, PlaceInv, ResumeInv, Selected,
        Announced, bluezVars, infoVars, serviceVars, deviceVars
<1>25. CASE UNCHANGED vars
  BY <1>25
    DEF vars, bluezVars, serviceVars, deviceVars, HeardInv, MapInv, Heard, Erased, Stopped,
        Removing, Selecting
<1>26. CASE RemovalBreaksOff
  BY <1>26, ThreadsDiffer
    DEF RemovalBreaksOff, Goto, serviceVars, Erased, Removing, Stopped, Selecting, IInv, Types,
        ThreadTypes, HeardInv, QuietInv, Started, ReadyInv, PathInv, MapInv, Heard, ProgramTypes
<1> QED
  BY <1>1, <1>2, <1>3, <1>4, <1>5, <1>6, <1>7, <1>8, <1>9, <1>10, <1>11, <1>12, <1>13, <1>14,
     <1>15, <1>16, <1>17, <1>18, <1>19, <1>20, <1>21, <1>22, <1>23, <1>24, <1>25, <1>26
    DEF Next, Startup, BusStep, TrySelectNewActiveDevice

\* A paired object gets its device.
LEMMA PairedMappedStep == IInv /\ HeardInv /\ [Next]_vars => PairedMappedInv'
<1> SUFFICES ASSUME IInv, HeardInv, [Next]_vars PROVE PairedMappedInv'
  OBVIOUS

<1>a. /\ \A d \in Devices : d # NoDevice
      /\ NoInfo \notin Infos
  BY FetcherAssumption
<1>b. Heard \subseteq Devices /\ pathOf \in [Infos -> Devices \cup {NoDevice}] /\ paired \subseteq Infos
  BY DEF Heard, IInv, Types, InfoTypes, ProgramTypes
<1>1. CASE FetchDevices
  BY <1>1
    DEF FetchDevices, Goto, PairedMappedInv, Heard, Erased, Stopped, Removing, Selecting, Early
<1>2. CASE ClearMaps
  BY <1>2 DEF ClearMaps, PairedMappedInv, Heard
<1>3. CASE CreateFetched

  <2> DEFINE s == CHOOSE x \in todo : \A y \in todo : x.path <= y.path
  <2>1. s \in Snapshots
    BY <1>3, FetchedIsSnapshot DEF CreateFetched, IInv, Types, TodoTypes, Early
  <2>2. CreateInfo(Main, s, "create")
    BY <1>3 DEF CreateFetched
  <2>3. /\ s \in todo /\ todo' = todo \ {s} /\ pc[Main] = "create"
        /\ UNCHANGED <<bluezVars, deviceVars, active, subscribed, candidate, overlapped>>
    BY <1>3, FetchedIsSnapshot DEF CreateFetched, IInv, Types, TodoTypes, Early
  <2> HIDE DEF s

  <2>4. /\ NewInfo \in Infos /\ pathOf[NewInfo] = NoDevice /\ NewInfo # NoInfo
        /\ NewInfo \notin listening /\ NewInfo \notin paired
        /\ \A d \in Devices : devicesMap[d] # NewInfo /\ known[d] # NewInfo
        /\ \A t \in Threads : arg[t] # NewInfo
    BY <2>2, NewInfoUnused DEF CreateInfo
  <2>7. /\ s.path \in Devices
        /\ known' = [known EXCEPT ![s.path] = NewInfo]
        /\ pathOf' = [pathOf EXCEPT ![NewInfo] = s.path]
        /\ arg' = [arg EXCEPT ![Main] = NewInfo]
        /\ paired' = IF s.paired THEN paired \cup {NewInfo} ELSE paired
        /\ pc' = [pc EXCEPT ![Main] = IF s.paired THEN "deviceAdded" ELSE "create"]
        /\ UNCHANGED <<devicesMap, unheard>>
    BY <1>3, <2>1, <2>2, <2>3 DEF CreateInfo, Snapshots, bluezVars, deviceVars
  <2>8. pc[NewInfo] = "idle" /\ pc'[NewInfo] = "idle" /\ NewInfo # Bus /\ NewInfo # Main
    BY <2>4, <2>7, ThreadsDiffer DEF HeardInv, ListenInv
  <2> QED BY <2>7, ThreadsDiffer DEF PairedMappedInv, Early, IInv, Types, ThreadTypes
<1>4. CASE AllFetched
  BY <1>4
    DEF AllFetched, Goto, PairedMappedInv, Heard, Erased, Stopped, Removing, Selecting, Early
<1>5. CASE BeginFill
  BY <1>5
    DEF BeginFill, Goto, PairedMappedInv, Heard, Erased, Stopped, Removing, Selecting, Early,
        Announced, bluezVars, infoVars, serviceVars, deviceVars
<1>6. CASE Fill

  <2>1. PICK i \in todo : AddDevice(i) /\ todo' = todo \ {i}
    BY <1>6 DEF Fill
  <2>2. i \in Infos
    BY <1>6 DEF Fill, IInv, Types, TodoTypes
  <2>3. UNCHANGED <<unheard, known, paired, pc, arg>> /\ pc[Main] = "filling"
    BY <1>6 DEF Fill, bluezVars, serviceVars
  <2>4. \A d \in Heard : known[d] # NoInfo => pathOf[known[d]] = d
    BY <1>b DEF IInv, Types, PathInv
  <2>5. \A d \in Heard : devicesMap'[d] = devicesMap[d] \/ (pathOf[i] = d /\ devicesMap'[d] = i)
    BY <1>b, <2>1 DEF AddDevice, IInv, Types, ProgramTypes, deviceVars
  <2>6. \A d \in Heard : pathOf[i] = d => devicesMap'[d] # NoInfo
    BY <1>a, <1>b, <2>1, <2>2 DEF AddDevice, IInv, Types, ProgramTypes, deviceVars
  <2>7. \A d \in Heard : /\ pathOf[i] = d => i = known[d]
                         /\ devicesMap[d] # NoInfo => devicesMap[d] = known[d]
    BY <2>3 DEF HeardInv, AddingInv, MapInv
  <2>8. Erased' <=> Erased
    BY <2>3 DEF Erased, Stopped, Removing, Selecting
  <2> QED BY <2>1, <2>3, <2>4, <2>5, <2>6, <2>7, <2>8 DEF HeardInv, PairedMappedInv, Heard, Early
<1>7. CASE Filled
  BY <1>7, <1>a, <1>b, ThreadsDiffer
    DEF Filled, Select, IInv, Types, ProgramTypes, ThreadTypes, HeardInv, PairedMappedInv, Heard,
        Erased, Stopped, Removing, Selecting, Early, PathInv, ArgInv, PlaceInv, ResumeInv,
        Selected, Announced, bluezVars, infoVars, serviceVars, deviceVars
<1>8. CASE Subscribe
  BY <1>8, <1>a, <1>b, ThreadsDiffer
    DEF Subscribe, Goto, IInv, Types, ProgramTypes, ThreadTypes, HeardInv, PairedMappedInv, Heard,
        Erased, Stopped, Removing, Selecting, Early, PathInv, ArgInv, PlaceInv, ResumeInv,
        Selected, Announced, bluezVars, infoVars, serviceVars, deviceVars
<1>9. CASE HandleInterfacesAdded

  <2> DEFINE s == Head(announced)
  <2>1. s \in Snapshots
    BY <1>9, HeadTailProperties DEF HandleInterfacesAdded, IInv, Types, BluezTypes
  <2>2. CreateInfo(Bus, s, "idle")
    BY <1>9 DEF HandleInterfacesAdded
  <2>3. UNCHANGED <<deviceVars, active, subscribed, todo, candidate, overlapped>>
    BY <1>9 DEF HandleInterfacesAdded
  <2> HIDE DEF s

  <2>4. /\ NewInfo \in Infos /\ pathOf[NewInfo] = NoDevice /\ NewInfo # NoInfo
        /\ NewInfo \notin listening /\ NewInfo \notin paired
        /\ \A d \in Devices : devicesMap[d] # NewInfo /\ known[d] # NewInfo
        /\ \A t \in Threads : arg[t] # NewInfo
    BY <2>2, NewInfoUnused DEF CreateInfo
  <2>7. /\ s.path \in Devices
        /\ known' = [known EXCEPT ![s.path] = NewInfo]
        /\ pathOf' = [pathOf EXCEPT ![NewInfo] = s.path]
        /\ arg' = [arg EXCEPT ![Bus] = NewInfo]
        /\ paired' = IF s.paired THEN paired \cup {NewInfo} ELSE paired
        /\ pc' = [pc EXCEPT ![Bus] = IF s.paired THEN "deviceAdded" ELSE "idle"]
        /\ UNCHANGED <<devicesMap, unheard>>
    BY <1>9, <2>1, <2>2, <2>3 DEF CreateInfo, Snapshots, HandleInterfacesAdded, deviceVars
  <2>8. pc[NewInfo] = "idle" /\ pc'[NewInfo] = "idle" /\ NewInfo # Bus /\ NewInfo # Main
    BY <2>4, <2>7, ThreadsDiffer DEF HeardInv, ListenInv
  <2>9. ~s.paired /\ pc[Bus] = "idle"
    BY <1>9, TailMoves DEF HandleInterfacesAdded, s, HeardInv, AnnouncedInv
  <2>10. ~Erased
    BY <2>9 DEF Erased, Stopped, Removing, Selecting
  <2>11. \A d \in Heard : known'[d] = known[d] \/ known'[d] = NewInfo
    BY <2>7
  <2>12. \A i \in Infos : pc'[i] = pc[i]
    BY <2>7, ThreadsDiffer
  <2>13. pc'[Main] = pc[Main] /\ paired' = paired /\ UNCHANGED <<todo, devicesMap, unheard>>
    BY <2>3, <2>7, <2>9
  <2> QED BY <1>b, <2>4, <2>10, <2>11, <2>12, <2>13 DEF HeardInv, PairedMappedInv, Heard, Early
<1>10. CASE HandleInterfacesRemoved
  BY <1>10, <1>a, <1>b, ThreadsDiffer
    DEF HandleInterfacesRemoved, Goto, IInv, Types, ProgramTypes, ThreadTypes, HeardInv,
        PairedMappedInv, Heard, Erased, Stopped, Removing, Selecting, Early, PathInv, ArgInv,
        PlaceInv, ResumeInv, Selected, Announced, bluezVars, infoVars, serviceVars, deviceVars
<1>11. CASE StopListening
  BY <1>11, <1>a, <1>b, ThreadsDiffer
    DEF StopListening, Goto, IInv, Types, ProgramTypes, ThreadTypes, HeardInv, PairedMappedInv,
        Heard, Erased, Stopped, Removing, Selecting, Early, PathInv, ArgInv, PlaceInv, ResumeInv,
        Selected, Announced, bluezVars, infoVars, serviceVars, deviceVars
<1>12. CASE OnDeviceRemoved

  <2>1. /\ pc[Bus] = "eraseDevice" /\ UNCHANGED <<unheard, known, paired, arg>>
        /\ \/ subscribed /\ devicesMap' = [devicesMap EXCEPT ![pathOf[arg[Bus]]] = NoInfo]
           \/ ~subscribed /\ UNCHANGED devicesMap
    BY <1>12 DEF OnDeviceRemoved, bluezVars, serviceVars
  <2>2. Removing /\ ~Erased /\ Erased'
    BY <1>12, ThreadsDiffer
      DEF OnDeviceRemoved, Select, Goto, Erased, Removing, Stopped, Selecting, IInv, Types,
          ThreadTypes
  <2>3. ~subscribed => \A d \in Heard : pathOf[arg[Bus]] # d
    BY <2>2 DEF HeardInv, QuietInv, Started, ReadyInv
  <2>4. \A d \in Heard : known[d] # NoInfo => pathOf[known[d]] = d
    BY <1>b DEF IInv, Types, PathInv
  <2>5. \A u \in Threads : u # Bus => pc'[u] = pc[u]
    BY <1>12 DEF OnDeviceRemoved, Select, Goto, IInv, Types, ThreadTypes
  <2>6. UNCHANGED todo
    BY <1>12 DEF OnDeviceRemoved
  <2>7. \A d \in Heard : pathOf[arg[Bus]] = d => arg[Bus] = known[d]
    BY <2>2 DEF HeardInv, ObjectInv
  <2>8. \A d \in Heard : pathOf[arg[Bus]] # d => devicesMap'[d] = devicesMap[d]
    BY <1>b, <2>1 DEF IInv, Types, ProgramTypes
  <2> QED BY <1>b, <2>1, <2>2, <2>5, <2>6, <2>7, <2>8, ThreadsDiffer
      DEF HeardInv, PairedMappedInv, Heard, Early
<1>13. CASE Forget
  BY <1>13, <1>a, <1>b, ThreadsDiffer
    DEF Forget, Goto, IInv, Types, ProgramTypes, ThreadTypes, HeardInv, PairedMappedInv, Heard,
        Erased, Stopped, Removing, Selecting, Early, PathInv, ArgInv, PlaceInv, ResumeInv,
        Selected, Announced, bluezVars, infoVars, serviceVars, deviceVars
<1>14. ASSUME NEW t \in Threads, OnDeviceAdded(t) PROVE PairedMappedInv'
  <2>1. /\ pc[t] = "deviceAdded" /\ pc' = [pc EXCEPT ![t] = resume[t]]
        /\ UNCHANGED <<unheard, known, paired, arg, pathOf, todo, subscribed>>
        /\ IF subscribed THEN AddDevice(arg[t]) ELSE UNCHANGED devicesMap
    BY <1>14 DEF OnDeviceAdded, bluezVars, infoVars, serviceVars, deviceVars
  <2>2. t # Bus /\ (subscribed => t \in Infos)
    BY <2>1 DEF HeardInv, AddingInv, ReadyInv, Threads
  <2>3. /\ t \in Infos => pathOf[arg[t]] = pathOf[t] /\ t \in listening
        /\ \A d \in Heard : pathOf[t] = d /\ t \in Infos => /\ t \in paired /\ t = known[d]
                                                           /\ arg[t] = t /\ subscribed
    BY <2>1 DEF HeardInv, AddingInv, ListenInv, ObjectInv, QuietInv, ReadyInv, Started
  <2>4. Stopped => arg[Bus] \notin listening
    BY DEF HeardInv, StoppedInv
  <2>5. \A d \in Heard : devicesMap'[d] = devicesMap[d] \/
            (subscribed /\ t \in Infos /\ pathOf[t] = d /\ devicesMap'[d] = t)
    BY <1>b, <2>1, <2>2, <2>3 DEF AddDevice, IInv, Types, ProgramTypes, deviceVars
  <2>6. Erased => Erased'
    BY <2>1, <2>2 DEF Erased, Stopped, Removing, Selecting
  <2>7. (Early => Early') /\ (pc[Main] = "filling" => pc'[Main] = "filling")
    BY <2>1 DEF Early, IInv, ResumeInv, Announced
  <2>8. \A u \in Threads : u # t => pc'[u] = pc[u]
    BY <2>1
  <2>9. \A d \in Heard : known[d] # NoInfo => pathOf[known[d]] = d /\ known[d] \in Infos
    BY <1>b DEF IInv, Types, ProgramTypes, PathInv
  <2>10. \A d \in Heard : known[d] = t => devicesMap'[d] = known[d] \/ t \notin Infos
    <3> SUFFICES ASSUME NEW d \in Heard, known[d] = t, t \in Infos
                 PROVE  devicesMap'[d] = known[d]
      OBVIOUS
    <3>1. pathOf[t] = d /\ arg[t] = t /\ AddDevice(t) /\ t # NoInfo
      BY <1>a, <2>1, <2>3, <2>9
    <3>2. devicesMap[d] # NoInfo => devicesMap[d] = t
      BY DEF HeardInv, MapInv
    <3> QED BY <1>b, <3>1, <3>2 DEF AddDevice, IInv, Types, ProgramTypes, deviceVars
  <2>11. \A d \in Heard : devicesMap[d] # NoInfo => devicesMap'[d] = devicesMap[d]
    BY <1>b, <2>1 DEF AddDevice, IInv, Types, ProgramTypes, deviceVars
  <2> QED BY <1>a, <2>1, <2>6, <2>7, <2>8, <2>9, <2>10, <2>11, ThreadsDiffer
      DEF HeardInv, PairedMappedInv, Heard
<1>15. ASSUME NEW t \in Threads, RememberPrevious(t) PROVE PairedMappedInv'
  BY <1>15, <1>a, <1>b, ThreadsDiffer
    DEF RememberPrevious, Goto, IInv, Types, ProgramTypes, ThreadTypes, HeardInv, PairedMappedInv,
        Heard, Erased, Stopped, Removing, Selecting, Early, PathInv, ArgInv, PlaceInv, ResumeInv,
        Selected, Announced, bluezVars, infoVars, serviceVars, deviceVars
<1>16. ASSUME NEW t \in Threads, ClearActive(t) PROVE PairedMappedInv'
  BY <1>16, <1>a, <1>b, ThreadsDiffer
    DEF ClearActive, Goto, IInv, Types, ProgramTypes, ThreadTypes, HeardInv, PairedMappedInv,
        Heard, Erased, Stopped, Removing, Selecting, Early, PathInv, ArgInv, PlaceInv, ResumeInv,
        Selected, Announced, bluezVars, infoVars, serviceVars, deviceVars
<1>17. ASSUME NEW t \in Threads, ReadConnected(t) PROVE PairedMappedInv'
  BY <1>17, <1>a, <1>b, ThreadsDiffer
    DEF ReadConnected, Goto, IInv, Types, ProgramTypes, ThreadTypes, HeardInv, PairedMappedInv,
        Heard, Erased, Stopped, Removing, Selecting, Early, PathInv, ArgInv, PlaceInv, ResumeInv,
        Selected, Announced, bluezVars, infoVars, serviceVars, deviceVars
<1>18. ASSUME NEW t \in Threads, AssignActive(t) PROVE PairedMappedInv'
  BY <1>18, <1>a, <1>b, ThreadsDiffer
    DEF AssignActive, IInv, Types, ProgramTypes, ThreadTypes, HeardInv, PairedMappedInv, Heard,
        Erased, Stopped, Removing, Selecting, Early, PathInv, ArgInv, PlaceInv, ResumeInv,
        Selected, Announced, bluezVars, infoVars, serviceVars, deviceVars
<1>19. ASSUME NEW i \in Infos, ConnectedChanged(i) PROVE PairedMappedInv'
  BY <1>19, <1>a, <1>b, ThreadsDiffer
    DEF ConnectedChanged, Take, Select, IInv, Types, ProgramTypes, ThreadTypes, HeardInv,
        PairedMappedInv, Heard, Erased, Stopped, Removing, Selecting, Early, PathInv, ArgInv,
        PlaceInv, ResumeInv, Selected, Announced, bluezVars, infoVars, serviceVars
<1>20. ASSUME NEW i \in Infos, PairedChanged(i) PROVE PairedMappedInv'
  <2> DEFINE made == known[pathOf[i]]
  <2>0. \/ /\ made # NoInfo /\ paired' = paired \cup {made}
           /\ arg' = [arg EXCEPT ![i] = made]
           /\ pc' = [pc EXCEPT ![i] = "deviceAdded"]
        \/ paired' = paired /\ arg' = arg /\ pc' = pc
    BY <1>20 DEF PairedChanged
  <2>1. UNCHANGED <<unheard, known, pathOf, todo, devicesMap>> /\ i \in listening
    BY <1>20 DEF PairedChanged, Take, bluezVars, deviceVars
  <2>2. pathOf[i] \in Devices /\ (made # NoInfo => pathOf[made] = pathOf[i])
    BY <2>1 DEF IInv, Types, InfoTypes, PathInv
  <2>3. \A d \in Heard : pathOf[i] = d => i = known[d]
    BY <2>1 DEF HeardInv, ObjectInv
  <2>4. /\ pc'[Bus] = pc[Bus] /\ pc'[Main] = pc[Main] /\ arg'[Bus] = arg[Bus]
        /\ \A j \in Infos : pc[j] = "deviceAdded" => pc'[j] = "deviceAdded"
    BY <2>0, ThreadsDiffer DEF IInv, Types, ThreadTypes
  <2>5. \A d \in Heard : known[d] # NoInfo => pathOf[known[d]] = d /\ known[d] \in Infos
    BY <1>b DEF IInv, Types, ProgramTypes, PathInv
  <2>6. \A d \in Heard : known[d] # NoInfo /\ known[d] \in paired' =>
            known[d] \in paired \/ pc'[known[d]] = "deviceAdded"
    <3> SUFFICES ASSUME NEW d \in Heard, known[d] # NoInfo, known[d] \in paired',
                        known[d] \notin paired
                 PROVE  pc'[known[d]] = "deviceAdded"
      OBVIOUS
    <3>1. /\ made # NoInfo /\ known[d] = made /\ pc' = [pc EXCEPT ![i] = "deviceAdded"]
      BY <2>0
    <3>2. i = known[d]
      BY <2>2, <2>3, <2>5, <3>1
    <3> QED BY <3>1, <3>2, ThreadsDiffer DEF IInv, Types, ThreadTypes
  <2>7. Erased' <=> Erased
    BY <2>4 DEF Erased, Stopped, Removing, Selecting
  <2>8. paired \subseteq paired'
    BY <2>0
  <2> HIDE DEF made
  <2> QED BY <2>1, <2>8, <2>4, <2>5, <2>6, <2>7 DEF HeardInv, PairedMappedInv, Heard, Early
<1>21. ASSUME NEW d \in Devices, Appear(d) PROVE PairedMappedInv'
  BY <1>21, <1>a, <1>b, ThreadsDiffer
    DEF Appear, Event, IInv, Types, ProgramTypes, ThreadTypes, HeardInv, PairedMappedInv, Heard,
        Erased, Stopped, Removing, Selecting, Early, PathInv, ArgInv, PlaceInv, ResumeInv,
        Selected, Announced, bluezVars, infoVars, serviceVars, deviceVars
<1>22. ASSUME NEW d \in Devices, Vanish(d) PROVE PairedMappedInv'
  BY <1>22, <1>a, <1>b, ThreadsDiffer
    DEF Vanish, Event, IInv, Types, ProgramTypes, ThreadTypes, HeardInv, PairedMappedInv, Heard,
        Erased, Stopped, Removing, Selecting, Early, PathInv, ArgInv, PlaceInv, ResumeInv,
        Selected, Announced, bluezVars, infoVars, serviceVars, deviceVars
<1>23. ASSUME NEW d \in Devices, ConnectedFlips(d) PROVE PairedMappedInv'
  BY <1>23, <1>a, <1>b, ThreadsDiffer
    DEF ConnectedFlips, Event, Signal, IInv, Types, ProgramTypes, ThreadTypes, HeardInv,
        PairedMappedInv, Heard, Erased, Stopped, Removing, Selecting, Early, PathInv, ArgInv,
        PlaceInv, ResumeInv, Selected, Announced, bluezVars, infoVars, serviceVars, deviceVars
<1>24. ASSUME NEW d \in Devices, Pairs(d) PROVE PairedMappedInv'
  BY <1>24, <1>a, <1>b, ThreadsDiffer
    DEF Pairs, Event, Signal, IInv, Types, ProgramTypes, ThreadTypes, HeardInv, PairedMappedInv,
        Heard, Erased, Stopped, Removing, Selecting, Early, PathInv, ArgInv, PlaceInv, ResumeInv,
        Selected, Announced, bluezVars, infoVars, serviceVars, deviceVars
<1>25. CASE UNCHANGED vars
  BY <1>25
    DEF vars, bluezVars, serviceVars, deviceVars, HeardInv, PairedMappedInv, Heard, Erased,
        Stopped, Removing, Selecting, Early
<1>26. CASE RemovalBreaksOff
  BY <1>26, ThreadsDiffer
    DEF RemovalBreaksOff, Goto, serviceVars, Erased, Removing, Stopped, Selecting, IInv, Types,
        ThreadTypes, HeardInv, QuietInv, Started, ReadyInv, PathInv, ObjectInv, ProgramTypes,
        PairedMappedInv, Heard, Early
<1> QED
  BY <1>1, <1>2, <1>3, <1>4, <1>5, <1>6, <1>7, <1>8, <1>9, <1>10, <1>11, <1>12, <1>13, <1>14,
     <1>15, <1>16, <1>17, <1>18, <1>19, <1>20, <1>21, <1>22, <1>23, <1>24, <1>25, <1>26
    DEF Next, Startup, BusStep, TrySelectNewActiveDevice

\* A step that leaves the known object of a device, its signals and BlueZ's device alone.
Keeps(c) == Here(c)' /\ Settled(c)' =>
    /\ Here(c) /\ Settled(c)
    /\ known'[c] = known[c] /\ bPaired'[c] = bPaired[c] /\ bConnected'[c] = bConnected[c]
    /\ inbox'[known[c]] = inbox[known[c]] /\ infoConnected'[known[c]] = infoConnected[known[c]]
    /\ known[c] \in paired' <=> known[c] \in paired

\* Such a step keeps what is known of the device.
LEMMA Kept ==
    ASSUME NEW c, PairedFor(c), ConnectedFor(c), Keeps(c)
    PROVE  PairedFor(c)' /\ ConnectedFor(c)'
<1>1. ASSUME Here(c)', Settled(c)'
      PROVE  /\ Here(c) /\ Settled(c) /\ known'[c] = known[c]
             /\ bPaired'[c] = bPaired[c] /\ bConnected'[c] = bConnected[c]
             /\ inbox'[known[c]] = inbox[known[c]]
             /\ infoConnected'[known[c]] = infoConnected[known[c]]
             /\ known[c] \in paired' <=> known[c] \in paired
  BY <1>1 DEF Keeps
<1>2. PairedFor(c)'
  BY <1>1 DEF PairedFor, Sent
<1>3. ConnectedFor(c)'
  BY <1>1 DEF ConnectedFor, Sent, LastSent
<1> QED BY <1>2, <1>3

\* When an object handles its first signal, the others move up.
LEMMA SignalsMoveUp ==
    ASSUME NEW i, inbox[i] \in Seq(Signals), inbox[i] # <<>>, inbox'[i] = Tail(inbox[i])
    PROVE  /\ Head(inbox[i]) = inbox[i][1] /\ 1 \in 1..Len(inbox[i])
           /\ \A k \in 1..Len(inbox'[i]) :
                  /\ k + 1 \in 1..Len(inbox[i]) /\ inbox'[i][k] = inbox[i][k + 1]
                  /\ LastSent(i, k)' => LastSent(i, k + 1)
           /\ \A k \in 1..Len(inbox[i]) :
                  k = 1 \/ (k - 1 \in 1..Len(inbox'[i]) /\ inbox'[i][k - 1] = inbox[i][k])
<1>1. /\ Head(inbox[i]) = inbox[i][1] /\ Len(inbox[i]) \in Nat \ {0}
      /\ Len(inbox'[i]) = Len(inbox[i]) - 1
      /\ \A k \in 1..Len(inbox'[i]) :
             inbox'[i][k] = inbox[i][k + 1] /\ k + 1 \in 1..Len(inbox[i])
  BY TailMoves
<1>2. \A k \in 1..Len(inbox[i]) :
          k = 1 \/ (k - 1 \in 1..Len(inbox'[i]) /\ inbox'[i][k - 1] = inbox[i][k])
  <2> SUFFICES ASSUME NEW k \in 1..Len(inbox[i]), k # 1
               PROVE  k - 1 \in 1..Len(inbox'[i]) /\ inbox'[i][k - 1] = inbox[i][k]
    OBVIOUS
  <2>1. k - 1 \in 1..Len(inbox'[i])
    BY <1>1
  <2>2. (k - 1) + 1 = k
    BY <1>1
  <2> QED BY <1>1, <2>1, <2>2
<1>3. ASSUME NEW k \in 1..Len(inbox'[i]), LastSent(i, k)'
      PROVE  LastSent(i, k + 1)
  <2>1. Sent(i, k + 1, "Connected")
    BY <1>1, <1>3 DEF LastSent, Sent
  <2>2. ASSUME NEW j \in (k + 2)..Len(inbox[i])
        PROVE  inbox[i][j].property # "Connected"
    <3>1. j - 1 \in (k + 1)..Len(inbox'[i]) /\ inbox'[i][j - 1] = inbox[i][j]
      BY <1>1, <1>2
    <3> QED BY <1>3, <3>1 DEF LastSent
  <2> QED BY <1>1, <2>1, <2>2 DEF LastSent
<1> QED BY <1>1, <1>2, <1>3

\* A signal that is sent comes after the others.
LEMMA SignalComes ==
    ASSUME NEW i, inbox[i] \in Seq(Signals), NEW e \in Signals, inbox'[i] = Append(inbox[i], e),
           NEW n \in Nat, n = Len(inbox[i])
    PROVE  /\ Len(inbox'[i]) = n + 1 /\ inbox'[i][n + 1] = e
           /\ \A k \in 1..n : inbox'[i][k] = inbox[i][k]
           /\ \A k \in 1..n : LastSent(i, k)' => LastSent(i, k) /\ e.property # "Connected"
<1>1. /\ Len(inbox'[i]) = n + 1 /\ inbox'[i][n + 1] = e
      /\ \A k \in 1..n : inbox'[i][k] = inbox[i][k]
  BY AppendMoves
<1>2. ASSUME NEW k \in 1..n, LastSent(i, k)'
      PROVE  LastSent(i, k) /\ e.property # "Connected"
  <2>1. Sent(i, k, "Connected")
    BY <1>1, <1>2 DEF LastSent, Sent
  <2>2. \A j \in (k + 1)..n : inbox[i][j].property # "Connected"
    <3> SUFFICES ASSUME NEW j \in (k + 1)..n PROVE inbox[i][j].property # "Connected"
      OBVIOUS
    <3>1. j \in (k + 1)..(n + 1) /\ j \in 1..n
      OBVIOUS
    <3> QED BY <1>1, <1>2, <3>1 DEF LastSent
  <2>3. e.property # "Connected"
    BY <1>1, <1>2 DEF LastSent
  <2> QED BY <2>1, <2>2, <2>3 DEF LastSent
<1> QED BY <1>1, <1>2

\* What BlueZ says of a known object is held, or on its way to it.
LEMMA SignalStep == IInv /\ HeardInv /\ [Next]_vars => PairedInv' /\ ConnectedInv'
<1> SUFFICES ASSUME IInv, HeardInv, [Next]_vars PROVE PairedInv' /\ ConnectedInv'
  OBVIOUS

<1>a. ASSUME Heard' \subseteq Heard, \A c \in Heard' : Keeps(c)
      PROVE  PairedInv' /\ ConnectedInv'
  <2>1. \A c \in Heard' : PairedFor(c)' /\ ConnectedFor(c)'
    BY <1>a, Kept DEF HeardInv, PairedInv, ConnectedInv
  <2> QED BY <2>1 DEF PairedInv, ConnectedInv
<1>b. ASSUME UNCHANGED <<announced, bConnected, bPaired, unheard, known, paired, inbox,
                         infoConnected>>,
             \A c \in Heard : Here(c)' => Here(c)
      PROVE  PairedInv' /\ ConnectedInv'
  <2>1. Heard' = Heard /\ \A c : Settled(c)' = Settled(c)
    BY <1>b DEF Heard, Settled
  <2>2. \A c \in Heard' : Keeps(c)
    BY <1>b, <2>1 DEF Keeps
  <2> QED BY <1>a, <2>1, <2>2
<1>c. /\ announced \in Seq(Snapshots) /\ NoInfo \notin Infos /\ \A d \in Devices : d # NoDevice
      /\ \A c \in Heard : /\ c \in Devices /\ known[c] \in Infos \cup {NoInfo}
                          /\ known[c] # NoInfo => pathOf[known[c]] = c
                          /\ PairedFor(c) /\ ConnectedFor(c)
  BY FetcherAssumption
    DEF IInv, Types, BluezTypes, ProgramTypes, PathInv, HeardInv, PairedInv, ConnectedInv, Heard
<1>d. ASSUME UNCHANGED unheard, \A c \in Heard : Keeps(c) \/ (PairedFor(c)' /\ ConnectedFor(c)')
      PROVE  PairedInv' /\ ConnectedInv'
  BY <1>c, <1>d, Kept DEF PairedInv, ConnectedInv, Heard
<1>1. CASE FetchDevices
  BY <1>1, <1>b
    DEF FetchDevices, Goto, Here, Removing, Selecting, PlaceInv, ResumeInv, Selected, Announced,
        bluezVars, infoVars, serviceVars
<1>2. CASE ClearMaps

  <2>1. UNCHANGED unheard /\ \A c \in Heard : known'[c] = NoInfo
    BY <1>2 DEF ClearMaps, bluezVars, Heard
  <2> QED BY <2>1 DEF Heard, PairedInv, ConnectedInv, PairedFor, ConnectedFor, Here
<1>3. CASE CreateFetched

  <2> DEFINE s == CHOOSE x \in todo : \A y \in todo : x.path <= y.path
  <2>1. s \in Snapshots
    BY <1>3, FetchedIsSnapshot DEF CreateFetched, IInv, Types, TodoTypes, Early
  <2>2. CreateInfo(Main, s, "create")
    BY <1>3 DEF CreateFetched
  <2>3. /\ s \in todo /\ todo' = todo \ {s} /\ pc[Main] = "create"
        /\ UNCHANGED <<bluezVars, deviceVars, active, subscribed, candidate, overlapped>>
    BY <1>3, FetchedIsSnapshot DEF CreateFetched, IInv, Types, TodoTypes, Early
  <2> HIDE DEF s

  <2>4. /\ NewInfo \in Infos /\ pathOf[NewInfo] = NoDevice /\ NewInfo # NoInfo
        /\ NewInfo \notin listening /\ NewInfo \notin paired
        /\ \A d \in Devices : devicesMap[d] # NewInfo /\ known[d] # NewInfo
        /\ \A t \in Threads : arg[t] # NewInfo
    BY <2>2, NewInfoUnused DEF CreateInfo
  <2>5. /\ s.path \in Devices
        /\ known' = [known EXCEPT ![s.path] = NewInfo]
        /\ inbox' = [k \in Infos |-> IF k \in {known[s.path]} \ (paired \cup {devicesMap[s.path]})
                                     THEN <<>> ELSE inbox[k]]
        /\ infoConnected' = [infoConnected EXCEPT ![NewInfo] = s.connected]
        /\ paired' = IF s.paired THEN paired \cup {NewInfo} ELSE paired
        /\ pc' = [pc EXCEPT ![Main] = IF s.paired THEN "deviceAdded" ELSE "create"]
        /\ arg' = [arg EXCEPT ![Main] = NewInfo]
        /\ UNCHANGED <<bConnected, bPaired, unheard>>
    BY <1>3, <2>1, <2>2, <2>3 DEF CreateInfo, Snapshots, bluezVars
  <2>6. ASSUME NEW c \in Heard, s.path # c, known'[c] # NoInfo
        PROVE  /\ known'[c] = known[c] /\ known[c] # NewInfo
               /\ inbox'[known[c]] = inbox[known[c]]
               /\ infoConnected'[known[c]] = infoConnected[known[c]]
               /\ known[c] \in paired' <=> known[c] \in paired
    <3>1. known'[c] = known[c] /\ known[c] \in Infos
      BY <1>c, <2>5, <2>6
    <3>2. known[c] # known[s.path]
      BY <1>c, <2>5, <2>6, <3>1 DEF IInv, Types, PathInv
    <3>3. known[c] # NewInfo
      BY <1>c, <2>4
    <3> QED BY <2>5, <3>1, <3>2, <3>3 DEF IInv, Types, InfoTypes
  <2>7. ASSUME NEW c \in Heard, s.path = c, s.paired = bPaired[c], s.connected = bConnected[c]
        PROVE  PairedFor(c)' /\ ConnectedFor(c)'
    <3>1. known'[c] = NewInfo /\ infoConnected'[NewInfo] = bConnected[c]
      BY <2>4, <2>5, <2>7 DEF IInv, Types, ProgramTypes, InfoTypes
    <3>2. inbox'[NewInfo] = <<>>
      BY <2>4, <2>5 DEF HeardInv, FreshInv
    <3>3. Len(inbox'[NewInfo]) = 0
      BY <3>2, EmptySeq
    <3>4. NewInfo \in paired' <=> bPaired[c]
      BY <2>4, <2>5, <2>7
    <3>5. \A k \in 1..Len(inbox'[NewInfo]) : FALSE
      BY <3>3
    <3>6. PairedFor(c)'
      BY <2>5, <3>1, <3>4, <3>5 DEF PairedFor, Sent
    <3>7. ConnectedFor(c)'
      BY <2>5, <3>1, <3>5 DEF ConnectedFor, LastSent, Sent
    <3> QED BY <3>6, <3>7
  <2>8. UNCHANGED announced /\ \A c \in Heard : s.path = c => s = Snapshot(c)
    BY <2>3 DEF HeardInv, FetchInv, Early, bluezVars
  <2>9. pc'[Bus] = pc[Bus] /\ arg'[Bus] = arg[Bus]
    BY <2>5, ThreadsDiffer
  <2>10. ASSUME NEW c \in Heard, s.path # c
         PROVE  Keeps(c)
    <3>1. Here(c)' => known'[c] # NoInfo
      BY DEF Here
    <3> QED BY <2>5, <2>6, <2>8, <2>9, <2>10, <3>1 DEF Keeps, Here, Removing, Selecting, Settled
  <2> QED BY <1>d, <2>5, <2>7, <2>8, <2>10 DEF Snapshot
<1>4. CASE AllFetched
  BY <1>4, <1>b
    DEF AllFetched, Goto, Here, Removing, Selecting, PlaceInv, ResumeInv, Selected, Announced,
        bluezVars, infoVars, serviceVars
<1>5. CASE BeginFill
  BY <1>5, <1>b
    DEF BeginFill, Goto, Here, Removing, Selecting, PlaceInv, ResumeInv, Selected, Announced,
        bluezVars, infoVars, serviceVars
<1>6. CASE Fill
  BY <1>6, <1>b DEF Fill, Here, Removing, Selecting, Announced, bluezVars, infoVars, serviceVars
<1>7. CASE Filled
  BY <1>7, <1>b
    DEF Filled, Select, Here, Removing, Selecting, PlaceInv, ResumeInv, Selected, Announced,
        bluezVars, infoVars, serviceVars
<1>8. CASE Subscribe
  BY <1>8, <1>b
    DEF Subscribe, Goto, Here, Removing, Selecting, PlaceInv, ResumeInv, Selected, Announced,
        bluezVars, infoVars, serviceVars
<1>9. CASE HandleInterfacesAdded

  <2> DEFINE s == Head(announced)
  <2>1. s \in Snapshots
    BY <1>9, HeadTailProperties DEF HandleInterfacesAdded, IInv, Types, BluezTypes
  <2>2. CreateInfo(Bus, s, "idle")
    BY <1>9 DEF HandleInterfacesAdded
  <2>3. UNCHANGED <<deviceVars, active, subscribed, todo, candidate, overlapped>>
    BY <1>9 DEF HandleInterfacesAdded
  <2> HIDE DEF s

  <2>4. /\ NewInfo \in Infos /\ pathOf[NewInfo] = NoDevice /\ NewInfo # NoInfo
        /\ NewInfo \notin listening /\ NewInfo \notin paired
        /\ \A d \in Devices : devicesMap[d] # NewInfo /\ known[d] # NewInfo
        /\ \A t \in Threads : arg[t] # NewInfo
    BY <2>2, NewInfoUnused DEF CreateInfo
  <2>5. /\ s.path \in Devices
        /\ known' = [known EXCEPT ![s.path] = NewInfo]
        /\ inbox' = [k \in Infos |-> IF k \in {known[s.path]} \ (paired \cup {devicesMap[s.path]})
                                     THEN <<>> ELSE inbox[k]]
        /\ infoConnected' = [infoConnected EXCEPT ![NewInfo] = s.connected]
        /\ paired' = IF s.paired THEN paired \cup {NewInfo} ELSE paired
        /\ pc' = [pc EXCEPT ![Bus] = IF s.paired THEN "deviceAdded" ELSE "idle"]
        /\ arg' = [arg EXCEPT ![Bus] = NewInfo]
        /\ UNCHANGED <<bConnected, bPaired, unheard>>
    BY <1>9, <2>1, <2>2, <2>3 DEF CreateInfo, Snapshots, HandleInterfacesAdded
  <2>6. ASSUME NEW c \in Heard, s.path # c, known'[c] # NoInfo
        PROVE  /\ known'[c] = known[c] /\ known[c] # NewInfo
               /\ inbox'[known[c]] = inbox[known[c]]
               /\ infoConnected'[known[c]] = infoConnected[known[c]]
               /\ known[c] \in paired' <=> known[c] \in paired
    <3>1. known'[c] = known[c] /\ known[c] \in Infos
      BY <1>c, <2>5, <2>6
    <3>2. known[c] # known[s.path]
      BY <1>c, <2>5, <2>6, <3>1 DEF IInv, Types, PathInv
    <3>3. known[c] # NewInfo
      BY <1>c, <2>4
    <3> QED BY <2>5, <3>1, <3>2, <3>3 DEF IInv, Types, InfoTypes
  <2>7. ASSUME NEW c \in Heard, s.path = c, s.paired = bPaired[c], s.connected = bConnected[c]
        PROVE  PairedFor(c)' /\ ConnectedFor(c)'
    <3>1. known'[c] = NewInfo /\ infoConnected'[NewInfo] = bConnected[c]
      BY <2>4, <2>5, <2>7 DEF IInv, Types, ProgramTypes, InfoTypes
    <3>2. inbox'[NewInfo] = <<>>
      BY <2>4, <2>5 DEF HeardInv, FreshInv
    <3>3. Len(inbox'[NewInfo]) = 0
      BY <3>2, EmptySeq
    <3>4. NewInfo \in paired' <=> bPaired[c]
      BY <2>4, <2>5, <2>7
    <3>5. \A k \in 1..Len(inbox'[NewInfo]) : FALSE
      BY <3>3
    <3>6. PairedFor(c)'
      BY <2>5, <3>1, <3>4, <3>5 DEF PairedFor, Sent
    <3>7. ConnectedFor(c)'
      BY <2>5, <3>1, <3>5 DEF ConnectedFor, LastSent, Sent
    <3> QED BY <3>6, <3>7
  <2>8. announced # <<>> /\ announced' = Tail(announced) /\ pc[Bus] = "idle"
    BY <1>9 DEF HandleInterfacesAdded
  <2>9. /\ announced[1] = s /\ 1 \in 1..Len(announced) /\ ~s.connected /\ ~s.paired
    BY <2>8, TailMoves DEF s, HeardInv, AnnouncedInv
  <2>10. \A c \in Heard : Settled(c)' /\ s.path # c => Settled(c)
    BY <1>c, <2>8, <2>9, OthersMoveUp
  <2>11. \A c \in Heard : s.path = c => bConnected[c] = FALSE /\ bPaired[c] = FALSE
    <3> SUFFICES ASSUME NEW c \in Heard, s.path = c
                 PROVE  bConnected[c] = FALSE /\ bPaired[c] = FALSE
      OBVIOUS
    <3>1. ~Settled(c)
      BY <2>9 DEF Settled
    <3>2. ~bConnected[c] /\ ~bPaired[c]
      BY <3>1 DEF HeardInv, AnnouncedInv
    <3> QED BY <1>c, <3>2 DEF IInv, Types, BluezTypes
  <2>12. s.connected = FALSE /\ s.paired = FALSE
    BY <2>1, <2>9
  <2>13. \A c \in Heard : known[c] # NoInfo => Here(c)
    BY <2>8 DEF Here, Removing, Selecting
  <2>14. ASSUME NEW c \in Heard, s.path # c
         PROVE  Keeps(c)
    <3>1. Here(c)' => known'[c] # NoInfo
      BY DEF Here
    <3> QED BY <2>5, <2>6, <2>10, <2>13, <2>14, <3>1 DEF Keeps
  <2> QED BY <1>d, <2>5, <2>7, <2>11, <2>12, <2>14
<1>10. CASE HandleInterfacesRemoved

  <2> DEFINE a == announced[1]
  <2>1. /\ announced # <<>> /\ announced' = Tail(announced)
        /\ UNCHANGED <<unheard, bConnected, bPaired, known, paired, inbox, infoConnected>>
    BY <1>10 DEF HandleInterfacesRemoved, infoVars, serviceVars
  <2>2. 1 \in 1..Len(announced) /\ Head(announced) = a /\ a \in Snapshots
    BY <1>c, <2>1, TailMoves
  <2>3. /\ pc[Bus] = "idle" /\ arg' = [arg EXCEPT ![Bus] = known[a.path]]
        /\ pc' = [pc EXCEPT ![Bus] = IF known[a.path] = NoInfo THEN "idle" ELSE "stopListening"]
    BY <1>10, <2>2 DEF HandleInterfacesRemoved, Goto
  <2>4. arg'[Bus] = known[a.path] /\ (Removing' <=> known[a.path] # NoInfo)
    BY <2>3, ThreadsDiffer DEF Removing, Selecting, IInv, Types, ThreadTypes
  <2>5. \A c \in Heard : Settled(c)' /\ a.path # c => Settled(c)
    BY <1>c, <2>1, OthersMoveUp
  <2> HIDE DEF a
  <2>6. \A c \in Heard : known[c] # NoInfo => Here(c)
    BY <2>3 DEF Here, Removing, Selecting
  <2>7. \A c \in Heard : a.path = c => ~Here(c)'
    BY <2>1, <2>4 DEF Here
  <2>8. \A c \in Heard : Here(c)' => known[c] # NoInfo
    BY <2>1 DEF Here
  <2>9. \A c \in Heard : Keeps(c)
    BY <2>1, <2>5, <2>6, <2>7, <2>8 DEF Keeps
  <2> QED BY <1>d, <2>1, <2>9
<1>11. CASE StopListening

  <2>1. /\ pc[Bus] = "stopListening" /\ pc' = [pc EXCEPT ![Bus] = "eraseDevice"]
        /\ inbox' = [inbox EXCEPT ![arg[Bus]] = <<>>]
        /\ UNCHANGED <<announced, unheard, bConnected, bPaired, known, paired, infoConnected, arg>>
    BY <1>11 DEF StopListening, Goto, bluezVars, serviceVars
  <2>2. Removing /\ Removing'
    BY <2>1 DEF Removing
  <2>3. \A c \in Heard : Here(c)' => Here(c) /\ known[c] # NoInfo /\ known[c] # arg[Bus]
    BY <2>1, <2>2 DEF Here
  <2>4. \A c \in Heard : Settled(c)' <=> Settled(c)
    BY <2>1 DEF Settled
  <2>5. \A c \in Heard : Here(c)' => inbox'[known[c]] = inbox[known[c]]
    BY <2>1, <2>3
  <2>6. \A c \in Heard : Keeps(c)
    BY <2>1, <2>3, <2>4, <2>5 DEF Keeps
  <2> QED BY <1>d, <2>1, <2>6
<1>12. CASE OnDeviceRemoved
  BY <1>12, <1>b, ThreadsDiffer
    DEF OnDeviceRemoved, Select, Goto, Here, Removing, Selecting, IInv, Types, ThreadTypes,
        PlaceInv, ResumeInv, Selected, Announced, bluezVars, infoVars, serviceVars
<1>13. CASE Forget

  <2>1. /\ pc[Bus] = "forget" /\ pc' = [pc EXCEPT ![Bus] = "idle"]
        /\ known' = [known EXCEPT ![pathOf[arg[Bus]]] = NoInfo]
        /\ paired' = paired \ {arg[Bus]}
        /\ UNCHANGED <<announced, unheard, bConnected, bPaired, inbox, infoConnected, arg>>
    BY <1>13 DEF Forget, Goto, bluezVars, infoVars
  <2>2. \A c \in Heard : pathOf[arg[Bus]] = c => known'[c] = NoInfo
    BY <1>c, <2>1 DEF IInv, Types, ProgramTypes
  <2>3. \A c \in Heard : pathOf[arg[Bus]] # c => known'[c] = known[c]
    BY <2>1
  <2>4. \A c \in Heard : Here(c)' => known'[c] = known[c] /\ known[c] # NoInfo /\ known[c] # arg[Bus]
    BY <1>c, <2>2, <2>3 DEF Here
  <2>5. \A c \in Heard : Here(c)' => Here(c)
    BY <2>4 DEF Here
  <2>6. \A c \in Heard : Settled(c)' <=> Settled(c)
    BY <2>1 DEF Settled
  <2>7. \A c \in Heard : Keeps(c)
    BY <2>1, <2>4, <2>5, <2>6 DEF Keeps
  <2> QED BY <1>d, <2>1, <2>7
<1>14. ASSUME NEW t \in Threads, OnDeviceAdded(t) PROVE PairedInv' /\ ConnectedInv'
  <2>1. pc[Bus] # "deviceAdded"
    BY DEF HeardInv, AddingInv
  <2> QED BY <1>14, <1>b, <2>1, ThreadsDiffer DEF OnDeviceAdded, bluezVars, infoVars, serviceVars, Here, Removing, Selecting, IInv, Types, ThreadTypes
<1>15. ASSUME NEW t \in Threads, RememberPrevious(t) PROVE PairedInv' /\ ConnectedInv'
  BY <1>15, <1>b
    DEF RememberPrevious, Goto, Here, Removing, Selecting, PlaceInv, ResumeInv, Selected,
        Announced, bluezVars, infoVars, serviceVars
<1>16. ASSUME NEW t \in Threads, ClearActive(t) PROVE PairedInv' /\ ConnectedInv'
  BY <1>16, <1>b
    DEF ClearActive, Goto, Here, Removing, Selecting, PlaceInv, ResumeInv, Selected, Announced,
        bluezVars, infoVars, serviceVars
<1>17. ASSUME NEW t \in Threads, ReadConnected(t) PROVE PairedInv' /\ ConnectedInv'
  BY <1>17, <1>b
    DEF ReadConnected, Goto, Here, Removing, Selecting, PlaceInv, ResumeInv, Selected, Announced,
        bluezVars, infoVars, serviceVars
<1>18. ASSUME NEW t \in Threads, AssignActive(t) PROVE PairedInv' /\ ConnectedInv'
  BY <1>18, <1>b, ThreadsDiffer
    DEF AssignActive, Here, Removing, Selecting, IInv, ResumeInv, Selected, Announced, bluezVars,
        infoVars, serviceVars
<1>19. ASSUME NEW i \in Infos, ConnectedChanged(i) PROVE PairedInv' /\ ConnectedInv'
  <2>1. /\ i \in listening /\ i \in Infos /\ inbox[i] # <<>> /\ inbox[i] \in Seq(Signals)
        /\ Head(inbox[i]).property = "Connected"
        /\ inbox' = [inbox EXCEPT ![i] = Tail(@)]
        /\ UNCHANGED <<announced, unheard, bConnected, bPaired, known>>
    BY <1>19 DEF ConnectedChanged, Take, bluezVars, serviceVars, IInv, Types, InfoTypes
  <2>2. inbox'[i] = Tail(inbox[i]) /\ \A j \in Infos : j # i => inbox'[j] = inbox[j]
    BY <2>1 DEF IInv, Types, InfoTypes
  <2>3. pc'[Bus] = pc[Bus] /\ arg'[Bus] = arg[Bus]
    BY <1>19, ThreadsDiffer DEF ConnectedChanged, Select, IInv, Types, ThreadTypes
  <2>4. \A c \in Heard : (Here(c)' <=> Here(c)) /\ (Settled(c)' <=> Settled(c))
    BY <2>1, <2>3 DEF Here, Removing, Selecting, Settled
  <2>5. /\ 1 \in 1..Len(inbox[i]) /\ inbox[i][1].property = "Connected"
        /\ inbox[i][1] = Head(inbox[i])
        /\ \A k \in 1..Len(inbox'[i]) :
               /\ k + 1 \in 1..Len(inbox[i]) /\ inbox'[i][k] = inbox[i][k + 1]
               /\ LastSent(i, k)' => LastSent(i, k + 1)
        /\ \A k \in 1..Len(inbox[i]) :
               k = 1 \/ (k - 1 \in 1..Len(inbox'[i]) /\ inbox'[i][k - 1] = inbox[i][k])
    BY <2>1, <2>2, SignalsMoveUp
  <2>6. /\ infoConnected' = [infoConnected EXCEPT ![i] = inbox[i][1].value] /\ UNCHANGED paired
    BY <1>19, <2>5 DEF ConnectedChanged, serviceVars
  <2>7. ASSUME NEW c \in Heard, known[c] # i
        PROVE  Keeps(c)
    <3>1. Here(c) => known[c] \in Infos
      BY <1>c DEF Here
    <3>2. Here(c) => inbox'[known[c]] = inbox[known[c]] /\
                     infoConnected'[known[c]] = infoConnected[known[c]]
      BY <2>1, <2>2, <2>6, <2>7, <3>1
    <3> QED BY <2>1, <2>4, <2>6, <3>2 DEF Keeps
  <2>8. ASSUME NEW c \in Heard, known[c] = i, Here(c), Settled(c)
        PROVE  PairedFor(c)' /\ ConnectedFor(c)'
    <3>1. known'[c] = i /\ bPaired'[c] = bPaired[c] /\ bConnected'[c] = bConnected[c]
      BY <2>1, <2>8
    <3>2. (\E k \in 1..Len(inbox'[i]) : Sent(i, k, "Paired")') <=>
              \E k \in 1..Len(inbox[i]) : Sent(i, k, "Paired")
      <4>1. ASSUME NEW k \in 1..Len(inbox'[i]), Sent(i, k, "Paired")'
            PROVE  \E m \in 1..Len(inbox[i]) : Sent(i, m, "Paired")
        <5>1. k + 1 \in 1..Len(inbox[i]) /\ inbox'[i][k] = inbox[i][k + 1]
          BY <2>5, <4>1
        <5> QED
          BY <4>1, <5>1, Zenon DEF Sent
      <4>2. ASSUME NEW k \in 1..Len(inbox[i]), Sent(i, k, "Paired")
            PROVE  \E m \in 1..Len(inbox'[i]) : Sent(i, m, "Paired")'
        <5>1. k # 1
          BY <2>5, <4>2 DEF Sent
        <5>2. k - 1 \in 1..Len(inbox'[i]) /\ inbox'[i][k - 1] = inbox[i][k]
          BY <2>5, <4>2, <5>1
        <5> QED
          BY <4>2, <5>2, Zenon DEF Sent
      <4> QED
        BY <4>1, <4>2, Zenon
    <3>3. PairedFor(c)'
      BY <1>c, <2>6, <2>8, <3>1, <3>2 DEF PairedFor, Sent
    <3>4. \A k \in 1..Len(inbox'[i]) : LastSent(i, k)' => inbox'[i][k].value = bConnected[c]
      <4> SUFFICES ASSUME NEW k \in 1..Len(inbox'[i]), LastSent(i, k)'
                   PROVE  inbox'[i][k].value = bConnected[c]
        OBVIOUS
      <4>1. k + 1 \in 1..Len(inbox[i]) /\ LastSent(i, k + 1) /\ inbox'[i][k] = inbox[i][k + 1]
        BY <2>5
      <4>2. inbox[i][k + 1].value = bConnected[c]
        BY <1>c, <2>8, <4>1 DEF ConnectedFor
      <4> QED BY <4>1, <4>2
    <3>5. ASSUME \A k \in 1..Len(inbox'[i]) : ~Sent(i, k, "Connected")'
          PROVE  infoConnected'[i] = bConnected[c]
      <4>1. \A k \in 1..Len(inbox[i]) : k = 1 \/ inbox[i][k].property # "Connected"
        BY <2>5, <3>5 DEF Sent
      <4>2. LastSent(i, 1)
        BY <2>1, <2>5, <4>1, TailMoves DEF LastSent, Sent
      <4>3. inbox[i][1].value = bConnected[c]
        BY <1>c, <2>5, <2>8, <4>2 DEF ConnectedFor
      <4> QED BY <2>1, <2>6, <4>3 DEF IInv, Types, InfoTypes
    <3>6. ConnectedFor(c)'
      BY <3>1, <3>4, <3>5 DEF ConnectedFor
    <3> QED BY <3>3, <3>6
  <2>9. ASSUME NEW c \in Heard, ~(Here(c) /\ Settled(c))
        PROVE  Keeps(c)
    BY <2>4, <2>9 DEF Keeps
  <2> QED BY <1>d, <2>1, <2>7, <2>8, <2>9
<1>20. ASSUME NEW i \in Infos, PairedChanged(i) PROVE PairedInv' /\ ConnectedInv'
  <2>1. /\ i \in listening /\ i \in Infos /\ inbox[i] # <<>> /\ inbox[i] \in Seq(Signals)
        /\ Head(inbox[i]).property = "Paired"
        /\ inbox' = [inbox EXCEPT ![i] = Tail(@)]
        /\ UNCHANGED <<announced, unheard, bConnected, bPaired, known>>
    BY <1>20 DEF PairedChanged, Take, bluezVars, IInv, Types, InfoTypes
  <2>2. inbox'[i] = Tail(inbox[i]) /\ \A j \in Infos : j # i => inbox'[j] = inbox[j]
    BY <2>1 DEF IInv, Types, InfoTypes
  <2>3. pc'[Bus] = pc[Bus] /\ arg'[Bus] = arg[Bus]
    BY <1>20, ThreadsDiffer DEF PairedChanged, IInv, Types, ThreadTypes
  <2>4. \A c \in Heard : (Here(c)' <=> Here(c)) /\ (Settled(c)' <=> Settled(c))
    BY <2>1, <2>3 DEF Here, Removing, Selecting, Settled
  <2>5. /\ 1 \in 1..Len(inbox[i]) /\ inbox[i][1].property = "Paired"
        /\ inbox[i][1] = Head(inbox[i])
        /\ \A k \in 1..Len(inbox'[i]) :
               /\ k + 1 \in 1..Len(inbox[i]) /\ inbox'[i][k] = inbox[i][k + 1]
               /\ LastSent(i, k)' => LastSent(i, k + 1)
        /\ \A k \in 1..Len(inbox[i]) :
               k = 1 \/ (k - 1 \in 1..Len(inbox'[i]) /\ inbox'[i][k - 1] = inbox[i][k])
    BY <2>1, <2>2, SignalsMoveUp
  <2>6. /\ UNCHANGED infoConnected
        /\ LET made == known[pathOf[i]] IN
               \/ made # NoInfo /\ paired' = paired \cup {made}
               \/ (made = NoInfo \/ made \in paired) /\ paired' = paired
    BY <1>20 DEF PairedChanged
  <2>7. ASSUME NEW c \in Heard, known[c] # i
        PROVE  Keeps(c)
    <3>1. Here(c) => known[c] \in Infos /\ pathOf[known[c]] = c
      BY <1>c DEF Here
    <3>2. pathOf[i] # c
      BY <2>1, <2>7 DEF HeardInv, ObjectInv
    <3>3. pathOf[i] \in Devices
      BY <2>1 DEF IInv, Types, InfoTypes, PathInv
    <3>4. Here(c) /\ known[pathOf[i]] # NoInfo => known[c] # known[pathOf[i]]
      BY <3>1, <3>2, <3>3 DEF IInv, Types, PathInv
    <3>5. Here(c) => inbox'[known[c]] = inbox[known[c]] /\ (known[c] \in paired' <=> known[c] \in paired)
      BY <2>2, <2>6, <2>7, <3>1, <3>4
    <3> QED BY <2>1, <2>4, <2>6, <3>5 DEF Keeps
  <2>8. ASSUME NEW c \in Heard, known[c] = i, Here(c), Settled(c)
        PROVE  PairedFor(c)' /\ ConnectedFor(c)'
    <3>1. known'[c] = i /\ bPaired'[c] = bPaired[c] /\ bConnected'[c] = bConnected[c]
      BY <2>1, <2>8
    <3>2. pathOf[i] = c /\ i # NoInfo
      BY <1>c, <2>1, <2>8
    <3>3. i \in paired'
      BY <2>6, <2>8, <3>2
    <3>4. Sent(i, 1, "Paired")
      BY <2>5 DEF Sent
    <3>5. bPaired[c]
      BY <1>c, <2>5, <2>8, <3>4 DEF PairedFor
    <3>6. PairedFor(c)'
      BY <3>1, <3>3, <3>5 DEF PairedFor
    <3>7. \A k \in 1..Len(inbox'[i]) : LastSent(i, k)' => inbox'[i][k].value = bConnected[c]
      <4>1. \A k \in 1..Len(inbox[i]) : LastSent(i, k) => inbox[i][k].value = bConnected[c]
        BY <1>c, <2>8 DEF ConnectedFor
      <4>2. ASSUME NEW k \in 1..Len(inbox'[i]), LastSent(i, k)'
            PROVE  inbox'[i][k].value = bConnected[c]
        <5>1. /\ k + 1 \in 1..Len(inbox[i]) /\ inbox'[i][k] = inbox[i][k + 1]
              /\ LastSent(i, k + 1)
          BY <2>5, <4>2
        <5> QED
          BY <4>1, <5>1, Zenon
      <4> QED
        BY <4>2
    <3>8. ASSUME \A k \in 1..Len(inbox'[i]) : ~Sent(i, k, "Connected")'
          PROVE  infoConnected[i] = bConnected[c]
      <4>1. \A k \in 1..Len(inbox[i]) : ~Sent(i, k, "Connected")
        BY <2>5, <3>8 DEF Sent
      <4> QED BY <1>c, <2>8, <4>1 DEF ConnectedFor
    <3>9. ConnectedFor(c)'
      BY <2>6, <3>1, <3>7, <3>8 DEF ConnectedFor
    <3> QED BY <3>6, <3>9
  <2>9. ASSUME NEW c \in Heard, ~(Here(c) /\ Settled(c))
        PROVE  Keeps(c)
    BY <2>4, <2>9 DEF Keeps
  <2> QED BY <1>d, <2>1, <2>7, <2>8, <2>9
<1>21. ASSUME NEW d \in Devices, Appear(d) PROVE PairedInv' /\ ConnectedInv'
  <2> DEFINE e == [added |-> TRUE, path |-> d, connected |-> FALSE, paired |-> FALSE]
  <2>0. PICK n \in Nat : n = Len(announced)
    BY AppendMoves
  <2>1. e \in Snapshots /\ e.path = d
    BY DEF Snapshots
  <2>2. /\ announced' = Append(announced, e) /\ Heard' \subseteq Heard
        /\ UNCHANGED <<known, pc, arg, inbox, infoConnected, paired>>
        /\ \A c \in Devices \ {d} : bPaired'[c] = bPaired[c] /\ bConnected'[c] = bConnected[c]
    BY <1>21 DEF Appear, Event, Heard, infoVars, serviceVars
  <2> HIDE DEF e
  <2>3. \A c \in Heard : Settled(c)' => Settled(c) /\ c # d
    BY <1>c, <2>0, <2>1, <2>2, LastComes
  <2>4. \A c \in Heard : Here(c)' <=> Here(c)
    BY <2>2 DEF Here, Removing, Selecting
  <2>5. \A c \in Heard' : Keeps(c)
    BY <1>c, <2>2, <2>3, <2>4 DEF Keeps
  <2> QED BY <1>a, <2>2, <2>5
<1>22. ASSUME NEW d \in Devices, Vanish(d) PROVE PairedInv' /\ ConnectedInv'
  <2> DEFINE e == [added |-> FALSE, path |-> d, connected |-> FALSE, paired |-> FALSE]
  <2>0. PICK n \in Nat : n = Len(announced)
    BY AppendMoves
  <2>1. e \in Snapshots /\ e.path = d
    BY DEF Snapshots
  <2>2. /\ announced' = Append(announced, e) /\ Heard' \subseteq Heard
        /\ UNCHANGED <<known, pc, arg, inbox, infoConnected, paired>>
        /\ \A c \in Devices \ {d} : bPaired'[c] = bPaired[c] /\ bConnected'[c] = bConnected[c]
    BY <1>22 DEF Vanish, Event, Heard, infoVars, serviceVars
  <2> HIDE DEF e
  <2>3. \A c \in Heard : Settled(c)' => Settled(c) /\ c # d
    BY <1>c, <2>0, <2>1, <2>2, LastComes
  <2>4. \A c \in Heard : Here(c)' <=> Here(c)
    BY <2>2 DEF Here, Removing, Selecting
  <2>5. \A c \in Heard' : Keeps(c)
    BY <1>c, <2>2, <2>3, <2>4 DEF Keeps
  <2> QED BY <1>a, <2>2, <2>5
<1>23. ASSUME NEW d \in Devices, ConnectedFlips(d) PROVE PairedInv' /\ ConnectedInv'
  <2>1. /\ d \in present /\ UNCHANGED <<announced, known, pc, arg, pathOf, listening, paired,
                                        infoConnected>>
        /\ Heard' \subseteq Heard /\ (d \in Heard' => Started /\ Settled(d))
    BY <1>23 DEF ConnectedFlips, Event, Heard, serviceVars
  <2>2. \A c \in Heard : (Here(c)' <=> Here(c)) /\ (Settled(c)' <=> Settled(c))
    BY <2>1 DEF Here, Removing, Selecting, Settled
  <2>3. /\ UNCHANGED bPaired /\ \A c \in Devices \ {d} : bConnected'[c] = bConnected[c]
        /\ bConnected'[d] = ~bConnected[d]
    BY <1>23 DEF ConnectedFlips, IInv, Types, BluezTypes
  <2> DEFINE e == [property |-> "Connected", value |-> ~bConnected[d]]
  <2>4. e \in Signals /\ e.property = "Connected" /\ e.value = ~bConnected[d]
    BY DEF Signals
  <2>5. \A i \in Infos : inbox'[i] = IF i \in listening /\ pathOf[i] = d THEN Append(inbox[i], e)
                                     ELSE inbox[i]
    BY <1>23 DEF ConnectedFlips, Signal
  <2> HIDE DEF e
  <2>6. ASSUME NEW c \in Heard', c # d
        PROVE  PairedFor(c)' /\ ConnectedFor(c)'
    <3>1. c \in Heard /\ c \in Devices
      BY <1>c, <2>1
    <3>2. known[c] # NoInfo => inbox'[known[c]] = inbox[known[c]]
      BY <1>c, <2>5, <2>6, <3>1
    <3>3. Here(c) => known[c] # NoInfo
      BY DEF Here
    <3>4. Keeps(c)
      BY <2>1, <2>2, <2>3, <2>6, <3>1, <3>2, <3>3 DEF Keeps
    <3> QED BY <1>c, <3>1, <3>4, Kept
  <2>7. ASSUME d \in Heard', Here(d)
        PROVE  PairedFor(d)' /\ ConnectedFor(d)'
    <3>1. d \in Heard /\ Settled(d)
      BY <2>1, <2>7
    <3>2. PICK i \in Infos : i = known[d] /\ i \in listening /\ pathOf[i] = d
      BY <1>c, <2>7, <3>1 DEF Here, Stopped, HeardInv, ObjectInv
    <3>3. inbox'[i] = Append(inbox[i], e) /\ inbox[i] \in Seq(Signals)
      BY <2>5, <3>2 DEF IInv, Types, InfoTypes
    <3>4. PICK n \in Nat : n = Len(inbox[i])
      BY <3>3, AppendMoves, <2>4
    <3>5. /\ Len(inbox'[i]) = n + 1 /\ inbox'[i][n + 1] = e
          /\ \A k \in 1..n : inbox'[i][k] = inbox[i][k]
          /\ \A k \in 1..n : LastSent(i, k)' =>
                                 LastSent(i, k) /\ e.property # "Connected"
      BY <2>4, <3>3, <3>4, SignalComes
    <3>6. \A k \in 1..(n + 1) : k \in 1..n \/ k = n + 1
      OBVIOUS
    <3>7. n + 1 \in 1..(n + 1) /\ \A k \in 1..n : k \in 1..(n + 1)
      OBVIOUS
    <3>8. known[d] = i /\ known'[d] = i
      BY <2>1, <3>2
    <3>9. /\ (i \in paired \/ \E k \in 1..n : Sent(i, k, "Paired")) => bPaired[d]
          /\ bPaired[d] => i \in paired \/ \E k \in 1..n : Sent(i, k, "Paired")
      BY <1>c, <2>7, <3>1, <3>4, <3>8 DEF PairedFor
    <3>10. (\E k \in 1..n : Sent(i, k, "Paired")) <=>
               \E k \in 1..(n + 1) : Sent(i, k, "Paired")'
      BY <2>4, <3>4, <3>5, <3>6, <3>7, <3>8 DEF Sent
    <3>11. PairedFor(d)'
      BY <2>1, <2>3, <3>5, <3>8, <3>9, <3>10 DEF PairedFor, Sent
    <3>12. ConnectedFor(d)'
      BY <2>3, <2>4, <3>5, <3>6, <3>7, <3>8 DEF ConnectedFor, LastSent, Sent
    <3> QED BY <3>11, <3>12
  <2>8. ASSUME ~Here(d)
        PROVE  PairedFor(d)' /\ ConnectedFor(d)'
    <3>1. ~Here(d)'
      BY <2>1, <2>8 DEF Here, Removing, Selecting
    <3> QED BY <3>1 DEF PairedFor, ConnectedFor
  <2>9. \A c \in Heard' : PairedFor(c)' /\ ConnectedFor(c)'
    BY <2>6, <2>7, <2>8
  <2> QED BY <2>9 DEF PairedInv, ConnectedInv
<1>24. ASSUME NEW d \in Devices, Pairs(d) PROVE PairedInv' /\ ConnectedInv'
  <2>1. /\ d \in present /\ UNCHANGED <<announced, known, pc, arg, pathOf, listening, paired,
                                        infoConnected>>
        /\ Heard' \subseteq Heard /\ (d \in Heard' => Started /\ Settled(d))
    BY <1>24 DEF Pairs, Event, Heard, serviceVars
  <2>2. \A c \in Heard : (Here(c)' <=> Here(c)) /\ (Settled(c)' <=> Settled(c))
    BY <2>1 DEF Here, Removing, Selecting, Settled
  <2>3. /\ UNCHANGED bConnected /\ \A c \in Devices \ {d} : bPaired'[c] = bPaired[c]
        /\ bPaired'[d] = TRUE
    BY <1>24 DEF Pairs, IInv, Types, BluezTypes
  <2> DEFINE e == [property |-> "Paired", value |-> TRUE]
  <2>4. e \in Signals /\ e.property = "Paired" /\ e.value = TRUE
    BY DEF Signals
  <2>5. \A i \in Infos : inbox'[i] = IF i \in listening /\ pathOf[i] = d THEN Append(inbox[i], e)
                                     ELSE inbox[i]
    BY <1>24 DEF Pairs, Signal
  <2> HIDE DEF e
  <2>6. ASSUME NEW c \in Heard', c # d
        PROVE  PairedFor(c)' /\ ConnectedFor(c)'
    <3>1. c \in Heard /\ c \in Devices
      BY <1>c, <2>1
    <3>2. known[c] # NoInfo => inbox'[known[c]] = inbox[known[c]]
      BY <1>c, <2>5, <2>6, <3>1
    <3>3. Here(c) => known[c] # NoInfo
      BY DEF Here
    <3>4. Keeps(c)
      BY <2>1, <2>2, <2>3, <2>6, <3>1, <3>2, <3>3 DEF Keeps
    <3> QED BY <1>c, <3>1, <3>4, Kept
  <2>7. ASSUME d \in Heard', Here(d)
        PROVE  PairedFor(d)' /\ ConnectedFor(d)'
    <3>1. d \in Heard /\ Settled(d)
      BY <2>1, <2>7
    <3>2. PICK i \in Infos : i = known[d] /\ i \in listening /\ pathOf[i] = d
      BY <1>c, <2>7, <3>1 DEF Here, Stopped, HeardInv, ObjectInv
    <3>3. inbox'[i] = Append(inbox[i], e) /\ inbox[i] \in Seq(Signals)
      BY <2>5, <3>2 DEF IInv, Types, InfoTypes
    <3>4. PICK n \in Nat : n = Len(inbox[i])
      BY <3>3, AppendMoves, <2>4
    <3>5. /\ Len(inbox'[i]) = n + 1 /\ inbox'[i][n + 1] = e
          /\ \A k \in 1..n : inbox'[i][k] = inbox[i][k]
          /\ \A k \in 1..n : LastSent(i, k)' =>
                                 LastSent(i, k) /\ e.property # "Connected"
      BY <2>4, <3>3, <3>4, SignalComes
    <3>6. \A k \in 1..(n + 1) : k \in 1..n \/ k = n + 1
      OBVIOUS
    <3>7. n + 1 \in 1..(n + 1) /\ \A k \in 1..n : k \in 1..(n + 1)
      OBVIOUS
    <3>8. known[d] = i /\ known'[d] = i
      BY <2>1, <3>2
    <3>9. /\ \A k \in 1..n : LastSent(i, k) => inbox[i][k].value = bConnected[d]
          /\ (\A k \in 1..n : ~Sent(i, k, "Connected"))
                 => infoConnected[i] = bConnected[d]
      BY <1>c, <2>7, <3>1, <3>4, <3>8 DEF ConnectedFor
    <3>10. /\ \A k \in 1..(n + 1) : LastSent(i, k)' => k \in 1..n /\ LastSent(i, k)
           /\ (\A k \in 1..(n + 1) : ~Sent(i, k, "Connected")') =>
                  \A k \in 1..n : ~Sent(i, k, "Connected")
      BY <2>4, <3>4, <3>5, <3>6, <3>7, <3>8 DEF LastSent, Sent
    <3>11. PairedFor(d)'
      BY <2>1, <2>3, <2>4, <3>5, <3>7, <3>8 DEF PairedFor, Sent
    <3>12. ConnectedFor(d)'
      <4>1. bConnected'[d] = bConnected[d] /\ infoConnected'[i] = infoConnected[i]
        BY <2>1, <2>3
      <4>2. \A k \in 1..Len(inbox'[i]) : LastSent(i, k)' => inbox'[i][k].value = bConnected'[d]
        BY <3>5, <3>9, <3>10, <4>1
      <4>3. (\A k \in 1..Len(inbox'[i]) : ~Sent(i, k, "Connected")') =>
                infoConnected'[i] = bConnected'[d]
        BY <3>5, <3>9, <3>10, <4>1
      <4> QED BY <3>8, <4>2, <4>3 DEF ConnectedFor
    <3> QED BY <3>11, <3>12
  <2>8. ASSUME ~Here(d)
        PROVE  PairedFor(d)' /\ ConnectedFor(d)'
    <3>1. ~Here(d)'
      BY <2>1, <2>8 DEF Here, Removing, Selecting
    <3> QED BY <3>1 DEF PairedFor, ConnectedFor
  <2>9. \A c \in Heard' : PairedFor(c)' /\ ConnectedFor(c)'
    BY <2>6, <2>7, <2>8
  <2> QED BY <2>9 DEF PairedInv, ConnectedInv
<1>25. CASE UNCHANGED vars
  BY <1>25, <1>b DEF vars, bluezVars, infoVars, serviceVars, Here, Removing, Selecting
<1>26. CASE RemovalBreaksOff
  <2>1. pathOf[arg[Bus]] \in Devices /\ arg[Bus] \in Infos
    BY <1>26, ThreadsDiffer
      DEF RemovalBreaksOff, Goto, IInv, Types, InfoTypes, ThreadTypes, ArgInv
  <2>2. Heard' \subseteq Heard /\ pathOf[arg[Bus]] \notin Heard'
    BY <1>26, <2>1 DEF RemovalBreaksOff, Heard
  <2>3. \A c \in Heard' : ~(Removing /\ arg[Bus] = known[c])
    <3>1. \A c \in Devices : known[c] # NoInfo => pathOf[known[c]] = c
      BY DEF IInv, Types, PathInv
    <3>2. arg[Bus] # NoInfo /\ Heard \subseteq Devices
      BY <2>1, FetcherAssumption DEF Heard
    <3> QED BY <2>2, <3>1, <3>2
  <2>4. ~Removing' /\ known' = known
    <3>1. pc'[Bus] = "idle" /\ known' = known
      BY <1>26, ThreadsDiffer DEF RemovalBreaksOff, Goto, IInv, Types, ThreadTypes, serviceVars
    <3> QED BY <3>1 DEF Removing, Selecting
  <2>5. \A c \in Heard' : Here(c)' = Here(c)
    BY <2>3, <2>4 DEF Here
  <2>6. \A c \in Heard' : Keeps(c)
    BY <1>26, <2>5 DEF RemovalBreaksOff, Keeps, Settled, infoVars, serviceVars
  <2> QED BY <1>a, <2>2, <2>6
<1> QED
  BY <1>1, <1>2, <1>3, <1>4, <1>5, <1>6, <1>7, <1>8, <1>9, <1>10, <1>11, <1>12, <1>13, <1>14,
     <1>15, <1>16, <1>17, <1>18, <1>19, <1>20, <1>21, <1>22, <1>23, <1>24, <1>25, <1>26
    DEF Next, Startup, BusStep, TrySelectNewActiveDevice

\* Nothing has been announced, fetched or made yet.
LEMMA InitHeardInv == Init => HeardInv
<1> SUFFICES ASSUME Init PROVE HeardInv
  OBVIOUS
<1>1. /\ Len(announced) = 0 /\ \A i \in Infos : inbox[i] = <<>>
      /\ \A d \in Devices : d # NoDevice
  BY EmptySeq, FetcherAssumption DEF Init
<1>2. \A k \in 1..Len(announced) : FALSE
  BY <1>1
<1>3. \A t \in Threads : pc[t] = "idle"
  BY DEF Init
<1>4. pc[Main] = "idle" /\ pc[Bus] = "idle" /\ \A i \in Infos : pc[i] = "idle"
  BY <1>3, ThreadsDiffer
<1>5. ~Removing /\ ~Stopped /\ ~Erased /\ ~Made /\ ~Started /\ Heard \subseteq Devices
  BY <1>4 DEF Removing, Stopped, Erased, Selecting, Made, Started, Heard
<1>6. PresentInv /\ AnnouncedInv
  BY <1>2, <1>5 DEF Init, PresentInv, AnnouncedInv, Settled
<1>7. ReadyInv /\ ListenInv /\ StoppedInv /\ FreshInv /\ MapConnectedInv
  BY <1>1, <1>4, <1>5 DEF Init, ReadyInv, ListenInv, StoppedInv, FreshInv, MapConnectedInv
<1>8. QuietInv
  BY <1>1, <1>2, <1>4, <1>5 DEF QuietInv, Settled
<1>9. FetchInv
  BY <1>1, <1>4, <1>5 DEF Init, FetchInv
<1>10. ObjectInv /\ AlternateInv
  BY <1>2, <1>4, <1>5 DEF Init, ObjectInv, AlternateInv
<1>11. MapInv /\ AddingInv /\ PairedMappedInv
  BY <1>4, <1>5 DEF Init, MapInv, AddingInv, PairedMappedInv
<1>12. PairedInv /\ ConnectedInv
  BY <1>5 DEF Init, PairedInv, PairedFor, ConnectedInv, ConnectedFor, Here
<1> QED BY <1>6, <1>7, <1>8, <1>9, <1>10, <1>11, <1>12 DEF HeardInv

\* Both invariants hold of every behaviour.
THEOREM HeardInvariance == Spec => [](IInv /\ HeardInv)
<1>1. IInv /\ HeardInv /\ [Next]_vars => HeardInv'
  BY PresentStep, AnnouncedStep, ReadyStep, ListenStep, StoppedStep, FreshStep, MapConnectedStep,
     QuietStep, FetchStep, ObjectStep, AlternateStep, MapStep, AddingStep, PairedMappedStep,
     SignalStep
    DEF HeardInv
<1> QED BY Invariance, InitHeardInv, <1>1, PTL DEF Spec

\* At rest the devices of the program are the paired ones of BlueZ, and each is shown as connected
\* as BlueZ says (DevicesInfoFetcher.cpp:80, 94, 194, Device.cpp:84, DBusService.cpp:163), except
\* for what changed while nobody could hear of it, or whose removal was broken off.
THEOREM ListedIsTrue == Spec => []PairedListed
<1>1. IInv /\ HeardInv => PairedListed
  <2> SUFFICES ASSUME IInv, HeardInv PROVE PairedListed
    OBVIOUS
  <2>1. \A d \in Devices \ unheard : known[d] # NoInfo /\ known[d] \notin listening =>
            /\ pc[Bus] \in {"eraseDevice", "forget", "previous", "clear", "read", "assign"}
            /\ arg[Bus] = known[d]
    BY DEF HeardInv, ObjectInv, Heard, Stopped, Removing, Selecting
  <2>2. TypeOK
    BY <2>1 DEF TypeOK, IInv, Types, BluezTypes, InfoTypes, ProgramTypes, ThreadTypes, PathInv
  <2> SUFFICES ASSUME Rest, NEW d \in Devices \ unheard
               PROVE  /\ bPaired[d] <=> devicesMap[d] # NoInfo
                      /\ devicesMap[d] # NoInfo => connected[d] = bConnected[d]
    BY <2>2 DEF PairedListed
  <2>3. d \in Heard /\ d \in Devices
    BY DEF Heard
  <2>4. pc[Bus] = "idle" /\ pc[Main] = "ready" /\ \A i \in Infos : pc[i] = "idle"
    BY ThreadsDiffer DEF Rest, Started
  <2>5. ~Removing /\ ~Erased /\ ~Early /\ Made
    BY <2>4 DEF Removing, Erased, Stopped, Selecting, Early, Made
  <2>6. Settled(d)
    <3>1. Len(announced) = 0
      BY EmptySeq DEF Rest
    <3> QED BY <3>1 DEF Settled
  <2>7. /\ Here(d) <=> known[d] # NoInfo
        /\ known[d] # NoInfo <=> d \in present
    BY <2>3, <2>5, <2>6 DEF Here, HeardInv, AlternateInv
  <2>8. known[d] # NoInfo => Len(inbox[known[d]]) = 0
    <3>1. known[d] # NoInfo => known[d] \in listening
      BY <2>3, <2>5 DEF HeardInv, ObjectInv, Stopped
    <3> QED BY <3>1, EmptySeq DEF Rest
  <2>9. known[d] # NoInfo => \A k \in 1..Len(inbox[known[d]]) : FALSE
    BY <2>8
  <2>10. known[d] # NoInfo =>
             /\ bPaired[d] <=> known[d] \in paired
             /\ infoConnected[known[d]] = bConnected[d]
    BY <2>3, <2>6, <2>7, <2>9 DEF HeardInv, PairedInv, PairedFor, ConnectedInv, ConnectedFor
  <2>11. devicesMap[d] # NoInfo => devicesMap[d] = known[d] /\ known[d] \in paired
    BY <2>3 DEF HeardInv, MapInv
  <2>12. known[d] # NoInfo /\ known[d] \in paired => devicesMap[d] = known[d]
    <3> SUFFICES ASSUME known[d] # NoInfo, known[d] \in paired PROVE devicesMap[d] = known[d]
      OBVIOUS
    <3>1. known[d] \in Infos
      BY DEF IInv, Types, ProgramTypes
    <3> QED BY <2>3, <2>4, <2>5, <3>1 DEF HeardInv, PairedMappedInv
  <2>13. bPaired[d] => known[d] # NoInfo
    BY <2>3, <2>7 DEF HeardInv, PresentInv
  <2>14. devicesMap[d] # NoInfo => connected[d] = infoConnected[devicesMap[d]]
    BY <2>3 DEF HeardInv, MapConnectedInv
  <2> QED BY <2>10, <2>11, <2>12, <2>13, <2>14
<1> QED BY <1>1, HeardInvariance, PTL

\* No callback of a device runs or will run once the device is being taken down
\* (DBusService.cpp:184).
THEOREM TeardownIsQuiet == Spec => []TeardownQuiet
<1>1. IInv /\ HeardInv => TeardownQuiet
  <2> SUFFICES ASSUME IInv, HeardInv, pc[Bus] = "eraseDevice", pathOf[arg[Bus]] \notin unheard,
                      NEW i, i = devicesMap[pathOf[arg[Bus]]], i # NoInfo
               PROVE  i \notin listening /\ pc[i] = "idle"
    BY DEF TeardownQuiet
  <2>1. Removing /\ Stopped
    BY DEF Removing, Stopped
  <2>2. arg[Bus] \in Infos /\ pathOf[arg[Bus]] \in Heard
    BY ThreadsDiffer DEF IInv, Types, ThreadTypes, InfoTypes, ArgInv, Heard
  <2>3. i = known[pathOf[arg[Bus]]]
    BY <2>2 DEF HeardInv, MapInv
  <2>4. i = arg[Bus]
    BY <2>1, <2>2, <2>3 DEF HeardInv, ObjectInv
  <2> QED BY <2>1, <2>2, <2>4 DEF HeardInv, StoppedInv, ListenInv
<1> QED BY <1>1, HeardInvariance, PTL

=============================================================================
