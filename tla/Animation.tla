----------------------------- MODULE Animation -----------------------------
(***************************************************************************)
(* The animation of Apple headphones that are opened near the program:     *)
(* AppAnimationCapability, from the advertisements it is handed and the    *)
(* private keys the reader's thread receives.                              *)
(*                                                                         *)
(* Headphones advertise under addresses only their identity key resolves;  *)
(* each of a pair may have its own, and every address is an object of      *)
(* BlueZ whose signals have a thread of their own. A thread decides under  *)
(* locker what to show and tells the clients after it has left it. What an *)
(* advertisement says is [animation, level, exact]: the case is open or    *)
(* not, and the batteries, of which the encrypted ones are exact.          *)
(***************************************************************************)
EXTENDS Naturals, SequencesExt

CONSTANTS
    Addresses,     \* addresses the headphones advertise under
    Levels,        \* of the batteries
    MaxAds,        \* bound: advertisements and changes of the connection
    MaxKeys        \* bound: times the headphones make new keys

None == "none"
Nothing == [animation |-> FALSE, level |-> 0, exact |-> FALSE]
Connection == "connection"                 \* the thread of the connection's signals
Threads == Addresses \cup {Connection}
Idle == [pc |-> "idle", data |-> Nothing, connected |-> FALSE]
Told(data, isConnected) == [data |-> data, connected |-> isConnected]

VARIABLES
    keys,       \* the generation of the keys the headphones use
    irk, enc,   \* the capability's, as generations; 0 for none
    file,       \* the two it has saved
    reader,     \* where the reader's thread is in saving them
    connected,  \* the device's connection
    mac,        \* the address whose animation is shown, or None
    cached,     \* cachedData, or Nothing
    hasColor, color,  \* hasColor, and the color saved, or None
    fire,       \* toFire of each thread and where it is in telling the clients
    shown,      \* what clients have been told last
    ads,        \* history: advertisements and changes so far (bound)
    last,       \* history: the last one accepted, or Nothing
    heard,      \* history: the last one accepted of every address, or Nothing
    order,      \* history: the threads that have decided and not told yet, in that order
    overtaken   \* history: those of them whom a later decision has overtaken, and "shown" if
                \* that is true of what is shown

keyVars == <<keys, irk, enc, file, reader>>
showVars == <<mac, cached, hasColor, color>>
historyVars == <<ads, last, heard>>
tellVars == <<fire, shown, order, overtaken>>
vars == <<keyVars, connected, showVars, tellVars, historyVars>>

Init ==
    /\ keys = 1
    /\ file \in {[irk |-> 0, enc |-> 0], [irk |-> 1, enc |-> 1]}
    /\ irk = file.irk /\ enc = file.enc /\ reader = "idle"
    /\ connected = FALSE
    /\ mac = None /\ cached = Nothing
    /\ color \in {None, "white"} /\ hasColor = (color # None)
    /\ fire = [t \in Threads |-> Idle] /\ shown = Told(Nothing, FALSE)
    /\ ads = 0 /\ last = Nothing /\ heard = [a \in Addresses |-> Nothing]
    /\ order = <<>> /\ overtaken = {}

(***************************************************************************)
(* Advertisements.                                                         *)
(***************************************************************************)
\* Aes::VerifyRPA(): a key resolves the addresses made with it.
VerifyRPA(generation) == irk = generation

\* ParseBle(): without the right key the batteries are the public ones.
ParseBle(animation, level, generation) ==
    [animation |-> animation, level |-> level, exact |-> enc = generation]

Decides(t, data) ==
    /\ fire' = [fire EXCEPT ![t] = [Idle EXCEPT !.pc = "decided", !.data = data]]
    /\ order' = Append(order, t)
    /\ UNCHANGED <<shown, overtaken>>

Shows(data) == data.animation /\ mac = None
Hides(data) == ~data.animation /\ mac # None
Refreshes(address, data) == data.animation /\ mac = address

\* Fault: what hides the animation is not cached.
ReceivesUncached(address, data) ==
    IF cached = data \/ ~(Shows(data) \/ Hides(data) \/ Refreshes(address, data))
    THEN UNCHANGED <<showVars, tellVars>>
    ELSE /\ mac' = IF data.animation THEN address ELSE None
         /\ cached' = IF Hides(data) THEN cached ELSE data
         /\ hasColor' = (hasColor \/ Shows(data))
         /\ color' = IF hasColor' /\ ~hasColor THEN "black" ELSE color
         /\ Decides(address, data)

\* The critical section of locker.
Receives(address, data) ==
    IF cached = data \/ ~(Shows(data) \/ Hides(data) \/ Refreshes(address, data))
    THEN UNCHANGED <<showVars, tellVars>>
    ELSE /\ mac' = IF data.animation THEN address ELSE None
         /\ cached' = data
         /\ hasColor' = (hasColor \/ Shows(data))
         /\ color' = IF hasColor' /\ ~hasColor THEN "black" ELSE color   \* what they advertise
         /\ Decides(address, data)

OnLeData(a) ==
    /\ ads < MaxAds /\ ads' = ads + 1
    /\ fire[a].pc = "idle"
    /\ \E animation \in BOOLEAN, l \in Levels :
           LET data == ParseBle(animation, l, keys) IN
           IF irk # 0 /\ enc # 0 /\ VerifyRPA(keys)
           THEN /\ Receives(a, data)
                /\ last' = data /\ heard' = [heard EXCEPT ![a] = data]
           ELSE UNCHANGED <<showVars, tellVars, last, heard>>
    /\ UNCHANGED <<keyVars, connected>>

\* What is shown is sent again with the new state of the connection.
OnConnected ==
    /\ ads < MaxAds /\ ads' = ads + 1
    /\ fire[Connection].pc = "idle"
    /\ connected' = ~connected
    /\ IF cached.animation /\ mac # None THEN Decides(Connection, cached) ELSE UNCHANGED tellVars
    /\ UNCHANGED <<keyVars, showVars, last, heard>>

\* FireAnimation(): the message is put together with the connection as it is now ...
Builds(t) ==
    /\ fire[t].pc = "decided"
    /\ fire' = [fire EXCEPT ![t].pc = "built", ![t].connected = connected]
    /\ UNCHANGED <<keyVars, connected, showVars, shown, order, overtaken, historyVars>>

\* ... and told to the clients.
FireAnimation(t) ==
    /\ fire[t].pc = "built"
    /\ shown' = Told(fire[t].data, fire[t].connected)
    /\ fire' = [fire EXCEPT ![t] = Idle]
    /\ \E i \in 1..Len(order) :
           /\ order[i] = t /\ order' = RemoveAt(order, i)
           /\ overtaken' =
                 (overtaken \ {t, "shown"}) \cup (IF t \in overtaken THEN {"shown"} ELSE {})
                     \cup {order[j] : j \in 1..(i - 1)}
    /\ UNCHANGED <<keyVars, connected, showVars, historyVars>>

(***************************************************************************)
(* The keys.                                                               *)
(***************************************************************************)
NewKeys ==                             \* the headphones are reset and paired again
    /\ keys <= MaxKeys /\ reader = "idle"
    /\ keys' = keys + 1
    /\ UNCHANGED <<irk, enc, file, reader, connected, showVars, tellVars, historyVars>>

\* AapPrivateKeysWatcher fires both or neither; they are taken and saved one by one.
ReceivesKeys ==
    /\ \/ reader = "idle" /\ (irk # keys \/ enc # keys)
          /\ irk' = keys /\ reader' = "irk" /\ UNCHANGED <<enc, file>>
       \/ reader = "irk" /\ file' = [file EXCEPT !.irk = irk]
          /\ reader' = "enc" /\ UNCHANGED <<irk, enc>>
       \/ reader = "enc" /\ enc' = keys /\ file' = [file EXCEPT !.enc = keys]
          /\ reader' = "idle" /\ UNCHANGED irk
    /\ UNCHANGED <<keys, connected, showVars, tellVars, historyVars>>

\* The program ends, or the device is created anew: what was saved is loaded.
Restart ==
    /\ irk' = file.irk /\ enc' = file.enc /\ reader' = "idle"
    /\ mac' = None /\ cached' = Nothing /\ hasColor' = (color # None)
    /\ fire' = [t \in Threads |-> Idle] /\ shown' = Told(Nothing, FALSE)
    /\ last' = Nothing /\ heard' = [a \in Addresses |-> Nothing]
    /\ order' = <<>> /\ overtaken' = {}
    /\ UNCHANGED <<keys, file, connected, color, ads>>

Next ==
    \/ \E a \in Addresses : OnLeData(a)
    \/ \E t \in Threads : Builds(t) \/ FireAnimation(t)
    \/ OnConnected \/ NewKeys \/ ReceivesKeys \/ Restart

Spec == Init /\ [][Next]_vars

(***************************************************************************)
(* Properties                                                              *)
(***************************************************************************)
Data == [animation : BOOLEAN, level : Levels, exact : BOOLEAN] \cup {Nothing}

TypeOK ==
    /\ keys \in 1..(MaxKeys + 1) /\ {irk, enc} \subseteq 0..keys
    /\ file \in [irk : 0..keys, enc : 0..keys] /\ reader \in {"idle", "irk", "enc"}
    /\ connected \in BOOLEAN
    /\ mac \in Addresses \cup {None} /\ {cached, last} \subseteq Data
    /\ color \in {None, "white", "black"} /\ hasColor \in BOOLEAN
    /\ fire \in [Threads -> [pc : {"idle", "decided", "built"}, data : Data,
                               connected : BOOLEAN]]
    /\ shown \in [data : Data, connected : BOOLEAN]

Rest == \A t \in Threads : fire[t].pc = "idle"

\* What clients show is what the headphones have said last: the animation is shown if and
\* only if the last advertisement that was accepted, of whatever address, has it, the
\* batteries shown with it are the last ones of the address it was shown for, and it is shown
\* as connected when it is - however the addresses of the two headphones alternate, the case
\* is opened and closed, the keys change and the connection comes and goes. The one exception:
\* two threads may tell what they decided in the other order, and what the second of them tells
\* then is shown until there is something else to tell. The color is saved once and for all.
AnimationTrue ==
    /\ mac # None <=> last.animation
    /\ mac # None => cached = heard[mac]
    /\ Rest /\ "shown" \notin overtaken =>
           /\ shown.data = cached
           /\ shown.data.animation => shown.connected = connected
    /\ hasColor <=> color # None
=============================================================================
