--------------------------- MODULE CapabilityKinds ---------------------------
(***************************************************************************)
(* The kinds of capabilities that src/src/device/capabilities has. A        *)
(* capability is: the rule SetFromJson() follows and the values it starts   *)
(* from; the request it sends for each value it accepts, and some values it *)
(* refuses; the packets the headphones report, some that no watcher takes,  *)
(* and what the watcher and its handler make of each.                       *)
(*                                                                         *)
(* Of the headphones it says what they report of a request that is done,    *)
(* and which requests they lack what it takes for.                          *)
(***************************************************************************)
EXTENDS Packets

\* A setting that is on or off.
Switch(rule, first, mode, Set(_), Watch(_)) ==
    LET reports == {Set(mode[name]) : name \in DOMAIN mode}
        noise == {Set(7)}
    IN  [rule |-> rule, first |-> first, asked |-> BOOLEAN, refused |-> {}, reports |-> reports,
         noise |-> noise, lacks |-> {},
         send |-> [on \in BOOLEAN |-> Set(IF on THEN mode.On ELSE mode.Off)],
         read |-> [p \in reports \cup noise |->
                       IF Watch(p) = None THEN None ELSE Watch(p) = mode.On],
         done |-> [p \in {Set(mode.On), Set(mode.Off)} |-> {p}]]

\* A setting with a few values.
Choice(first, values, refused, noise, Set(_), Watch(_)) ==
    LET reports == {Set(v) : v \in values}
    IN  [rule |-> "optimistic", first |-> first, asked |-> values, refused |-> refused,
         reports |-> reports, noise |-> noise, lacks |-> {}, send |-> [v \in values |-> Set(v)],
         read |-> [p \in reports \cup noise |-> Watch(p)], done |-> [p \in reports |-> {p}]]

\* A setting that the headphones do not tell: it is read from the settings file instead. It
\* turns the values a request or the file may have into what is kept, and applies some of them
\* when the headphones connect.
Preference(default, kept, asked, refused, send, applied) ==
    [rule |-> "stored", first |-> {default}, default |-> default, kept |-> kept, asked |-> asked,
     refused |-> refused, send |-> send, applied |-> applied, reports |-> {}, noise |-> {},
     lacks |-> {}, read |-> <<>>,
     done |-> [p \in {send[v] : v \in DOMAIN send} |-> {p}]]

\* Something the headphones tell and nobody can set.
ReadOnly(rule, first, reports, noise, Watch(_)) ==
    [rule |-> rule, first |-> {first}, asked |-> {}, refused |-> {}, reports |-> reports,
     noise |-> noise, lacks |-> {}, send |-> <<>>, read |-> [p \in reports \cup noise |-> Watch(p)],
     done |-> <<>>]

DeviceAncModes ==
    [Off |-> 1, Transparency |-> 2, Adaptive |-> 4, WindCancellation |-> 8,
     NoiseCancellation |-> 16]

\* The mode of noise control. A client may ask for every mode, the headphones have some. Set
\* and Watch are in the headphones' modes; To and From are tables from and to a client's.
\* `option` is not initialised, and not read before a report sets it.
Anc(To, From, has, reports, noise, Set(_), Watch(_)) ==
    LET modes == {DeviceAncModes[name] : name \in DOMAIN DeviceAncModes}
        native == {To[mode] : mode \in modes}
    IN  [rule |-> "confirmed", first |-> {None}, asked |-> modes, refused |-> {3},
         reports |-> reports, noise |-> noise, lacks |-> {Set(m) : m \in native \ has},
         send |-> [mode \in modes |-> Set(To[mode])],
         read |-> [p \in reports \cup noise |-> IF Watch(p) = None THEN None ELSE From[Watch(p)]],
         done |-> [s \in {Set(m) : m \in native} |->
                       {p \in reports : Watch(p) # None /\ Set(Watch(p)) = s}]]

\* Asked for a number that does not fit a byte, Galaxy Buds and Pixel Buds take its low byte.
Narrowing(c) == [c EXCEPT !.asked = @ \cup {256 + mode : mode \in @}]

-----------------------------------------------------------------------------
(* Batteries. *)

DeviceBatteryType == [Single |-> 1, Right |-> 2, Left |-> 4, Case |-> 8]
DeviceBatteryStatus == [NotAvailable |-> 0, Disconnected |-> 1, Connected |-> 2, Cached |-> 3]

DeviceBatteryData(type, status, level, charging) ==
    [type |-> type, status |-> status, charging |-> charging,
     level |-> IF level > 100 THEN 100 ELSE IF level < 0 THEN 0 ELSE level]

NoBatteries ==
    [type \in {DeviceBatteryType[name] : name \in DOMAIN DeviceBatteryType} |->
         DeviceBatteryData(type, DeviceBatteryStatus.NotAvailable, 0, FALSE)]

\* A battery that is gone keeps the level it had, if it had one.
UpdateKey(batteries, battery) ==
    LET old == batteries[battery.type]
    IN  [batteries EXCEPT ![battery.type] =
            IF old.level > 0 /\ battery.status = DeviceBatteryStatus.Disconnected
            THEN [old EXCEPT !.status = DeviceBatteryStatus.Cached] ELSE battery]

UpdateBattery(batteries, reported) == FoldLeft(UpdateKey, batteries, reported)

\* The batteries of headphones that report them.
Batteries(reports, noise, Watch(_)) == ReadOnly("battery", NoBatteries, reports, noise, Watch)

=============================================================================
