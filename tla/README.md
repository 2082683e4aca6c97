# MagicPodsCore in TLA+

MagicPodsCore is a daemon for Bluetooth headphones on Linux. It talks to BlueZ over
D-Bus, to the headphones over L2CAP or RFCOMM sockets, to PulseAudio and media players,
and to its user interfaces over a WebSocket. Almost everything hard about it is
concurrency: some ten kinds of thread share objects, few of them under a mutex, and every
partner (BlueZ, the headphones, players, user interfaces) may come, go, answer late or
not at all. The modules here model the threads and what they share, TLC checks them on
small instances, and TLAPS proves the core of them for all instances.

All paths below are relative to the repository (`src/...` inside it is the implementation).


## The system

### Threads

| thread | created by | what it runs |
|---|---|---|
| loop | `main.cpp` | WebSocket handlers, deferred functions, the constructors of everything |
| D-Bus root | `DBusService` | InterfacesAdded and InterfacesRemoved |
| D-Bus per object | every `DBusDeviceInfo`, every adapter proxy | PropertiesChanged, replies |
| reading, writing | `Client::Start`, one each per connection | recv(), data handlers; the outgoing queue |
| restart | `Device::RestartClientAfterConnectionLost`, detached | waits a second, starts the client |
| PulseAudio, microphone | `PulseAudioClient`, the microphone capability | card events; audio |

### Components

| component | state | operations | interacts with |
|---|---|---|---|
| Client (`client/Client.cpp`, `BlockingQueue.h`) | socket, two threads, started flag, generation, queue | Start, Stop, SendData, StopIfCurrent | Device, the kernel |
| Device (`device/Device.cpp`) | connected, client state, restart attempts and pending flag, capabilities | Init, Connected listener, StartClient, restarts, teardown | Client, DBusDeviceInfo, capabilities |
| Bluetooth adapter (`dbus/DBusBtAdapter.cpp`) | available paths, selected path and proxy, powered | Add, Remove, Select, PropertiesChanged, requests | BlueZ, main |
| BlueZ objects (`dbus/DBusService.cpp`, `DBusDeviceInfo.cpp`) | known and paired objects, proxies, properties | enumerate, added, removed, Connected, Paired | DevicesInfoFetcher, Device |
| DevicesInfoFetcher | device map, active device, BLE scan flag | add, remove, select the active device, start and stop the scan | main, Device |
| WebSocket server (`main.cpp`) | sockets, subscriptions, deferred functions | requests, deferred answers, broadcasts | everything, through events |
| Settings (`settings/`) | table in memory, TOML file | load, merge, save, notify | main, capabilities |
| Media controller (`media/`) | players it paused, mutex | Pause, Play | players, ear detection |
| PulseAudio (`pulseaudio/`) | own connection per call | sinks, volumes, profiles, modules | capabilities |
| Apple, Galaxy, Pixel, hands-free devices | capabilities: available, option | packets in, SetFromJson, notifications | Device, sdk watchers and setters |
| Hands-free devices (`device/BhfDevice.cpp`) | battery | Percentage and Connected of BlueZ | DBusDeviceInfo |
| Microphone | monitor and decoder threads, audio queue, FIFO, virtual source | start, stop, capture, decode | PulseAudio, Client |
| Animation | keys of the headphones, cached advertisement, color | advertisement, keys, connected | BLE advertisements, Settings, clients |
| BLE advertisements (`ble_ads/`) | scan, subscriptions | start, stop, restart, advertisement | fetcher, Apple devices |
| Packet codecs (`sdk/`) | marks (Galaxy Buds), a frame begun (Pixel Buds) | encode, decode | capabilities |
| JSON (`../dependencies/json/`) | none | parse, access, write | main, Settings |

They interact by direct calls downwards and by `Event<T>` upwards: listeners run on the
thread that fires, and `Event` has no lock. `main.cpp` moves everything to the loop with
`defer()`.

### What is hard, and what makes each part correct

- Client: Start and Stop from several threads while a connection dies by itself. Correct:
  no thread object is overwritten, no thread works on a descriptor that is not its own, no
  message is lost or goes to another connection, the loss is told exactly when a
  connection died by itself, nobody waits for ever.
- Device: the Connected property, lost connections and delayed restarts race. Correct: a
  connected device gets its client back, a disconnected one keeps none, and the state that
  is shown is true.
- Adapter: start-up enumeration and hotplug select at the same time; callbacks of a removed
  adapter may still run. Correct: an adapter is used if there is one, the first stays
  selected, the power state is BlueZ's.
- Devices: announcements and start-up race without locks. Correct: the program's devices
  are the paired ones, the active one is connected, none is destroyed under a callback.
- Server: state changes on other threads, answers arrive late. Correct: every client
  ends up showing the present state, and a request is answered.
- Settings: two threads save while the file is written in place. Correct: what was saved is in
  memory and in the file after every restart, and the program can be started.
- Scan, animation, battery: three conditions decide whether the scan runs, and change on three
  threads; advertisements of two headphones alternate. Correct: once every change has been
  handled, the scan runs when it should, and what is shown is what was said last.
- Microphone: start, stop, a lost link and a recording application race with a monitor that
  decides to end. Correct: no wake is lost, nothing is left on, every thread can be joined.
- Codecs: bytes arrive damaged, cut and interleaved, requests malformed. Correct: what was sent is
  what is read, and nothing else is.
- Ear detection and volume: two reasons to reduce the volume overlap, the user changes it
  meanwhile, calls fail. Correct: reduced once, restored to what the user had, never over
  the user's change; what was paused and nothing else is resumed.

The complete list, each at its line, is under `hazards` in `PROJECT.json`.


## The modules

A step of every model is a run of code no other thread can observe in the middle: a
critical section, an atomic access, a blocking call, a call to another process. Real data
races (two unsynchronised accesses to one container at the same instant) are undefined
behaviour and left out; what is modelled is every order of the accesses.

`PROJECT.json` maps the definitions to the lines they stand for; helpers whose lines lie within those
of other definitions of their module are not listed. Definitions preceded by a
comment "Fault:" are not part of the models: each is a defect that could be in the code,
and a property is worth its name only if it fails when the fault replaces the definition.

**ClientContract** - what `Client.h` promises its owner: one connection at a time, numbered;
it starts or fails, its reader delivers data and leaves, and a loss is reported once and
only for a connection nobody stopped. Used as abstract specification of Client and as the
client inside Device.

**Client** - `Client.cpp` and the queue. `cpc` is where each caller is in Start() or Stop(),
`wpc` and `rpc` where the threads of each connection are, `stopStep` where StopLocked() is.
Both mutexes, the joins, the socket's descriptor number (which the kernel may give to
somebody else once closed) and the queue's closed flag are explicit. connect() succeeds or
fails as one step. `Contract` at the end instantiates ClientContract under a refinement
mapping.

**ClientProofs, DeviceProofs, BtAdapterProofs, FetcherProofs, ServerProofs, WearingProofs,
AudioProofs, PeripheryProofs** - inductive invariants and theorems, see "The proofs".

**Device** - EXTENDS ClientContract: the client of Device is the contract, so what is checked
here holds of the threaded client. The thread is a parameter: StartClient() and restarts run
on D-Bus, reader, initialising and restart threads. Every access to `_connected`,
`_clientState`, `_clientReconnectAttempts` and `_clientRestartPending` is a step.

**BtAdapter** - adapters by number, proxies as objects with references and their own
callback thread; `power` is BlueZ's truth and `inbox` the signals on their way.

**Fetcher** - BlueZ's objects, the DBusDeviceInfo made for each, known and paired maps, the
devices of the program and the active one. "main" enumerates while "bus" handles
announcements and each object's thread handles its properties.

**Wearing** - ear detection, conversation awareness, volume reduction, media controller.
"reader" runs the packets of the headphones, "server" SetFromJson, "other" the reader of
other headphones that share the media controller. A fade is a step per volume call, with
the arithmetic of FadeSinkVolume. The user, PulseAudio and the players act between any two.

**Capabilities** - what users see and set of Apple headphones, Galaxy Buds and Pixel Buds. Packets
reads bytes; AapPackets, GalaxyBudsPackets and PixelBudsPackets have the setters and watchers of
each make as functions on packets; AapPressAndHold has the modes of a held stem, which both earbuds
share in one byte; CapabilityKinds says what a capability is (what clients may ask for, what
is sent for it, what the reports say, what headphones do with a request) and how batteries are
merged; AapCapabilityTable, and the ends of GalaxyBudsPackets and PixelBudsPackets, give one such
record per class. The *rule* of a record is how SetFromJson() and the handler of packets treat
the value, and the rules are what the twenty-seven classes come to:

| rule | a request | a report |
|---|---|---|
| confirmed | is sent; the option waits for the report | is taken and told |
| optimistic | is sent, and the option changes at once | is taken and told |
| assumed | the same, and the capability becomes available | is taken and told |
| merged | is put into the mode of both earbuds, if that is known | is taken and told |
| stored | is sent and saved in the settings file; sent again at every connection | never comes |
| reported, event, battery | is ignored | is taken; every press is told; entries are merged |

Capabilities is the state machine, of one capability of one model at a time: capabilities share
nothing but the order of packets. Two runs take it: MCCapabilities asks what clients are shown of each,
MCPeriphery whether what is kept in the file is what the headphones are given. `option` is the program's value, `register` the headphones'
(external, as the packet that says so), with packets on their way both ways. Reader, server loop,
Connected and Disconnected handlers interleave at every access. How the link and the client's
state follow each other is taken from Device and Client, and requests wait in the queue across
links as they do there. The makes differ in what comes before the first request:

- Apple headphones are told to notify (`starting`; of the start data only the packets that make
  them report are modelled, as one).
- Galaxy Buds report without being asked. Their packets lie between two marks that the program
  learns from what it receives (`learned`, one mark at a time, as Extract() assigns them), so a
  request that goes out before the first report has marks of zero and the headphones ignore it.
  When several packets arrive in one read Extract() sees only the first; `swallowed` remembers
  that a report was lost that way. Header, checksum and size are a flag `intact`.
- Pixel Buds are probed for their channel up to three times; the answer gives the channel, if it
  is one with an address, and then two subscriptions and a read are sent. The channel is
  forgotten whenever the client is not connected, and what is asked of headphones with no channel
  is dropped. A packet is its type, channel, method and message, and a message the function from
  paths of fields to numbers: HDLC frames, varints, hashes and checksums are abstracted.

Galaxy Buds and Pixel Buds make a byte of the number a client asks for before they look at it
(`src/device/capabilities/sgb/GalaxyBudsAncCapability.cpp:107`), so 257 asks for mode 1; both are
among the requests (Narrowing). The other capabilities test the number first.

The initial `option` of noise control is not initialised in the code; it is None in the model, and
None is never sent or shown: every read is behind `available`, which a report sets with it.

**Server** - `deferred` is the loop's queue; every other thread only appends to it. The
devices are reduced to what the messages show: connected, one capability, active. The text
of an answer or broadcast is made when the loop runs the function, and `view` is what each
client was sent last of each topic. A device that is added is put into the map by one step
(DeviceAdded) and heard of by the next (HearsAdded): what its capability does in between nobody
is told until it is announced.

**BleScan** - the scan for advertisements. `desired` and `started` are the flags of
DevicesInfoFetcher and of the service, `discovering` is BlueZ's truth. UpdateBleState() runs on
the threads of settings, devices and the adapter, restarts on detached ones; every access to a
flag is a step, and so are unsubscribing and subscribing. BlueZ may refuse StartDiscovery, or answer
after the call's timeout (StartDiscoveryFails): the exception leaves the rest of the call undone. A
setting that is not a boolean leaves the scan as it is.

**Animation** - what an advertisement of headphones that are not connected shows. The address,
the cached advertisement and the color are behind a mutex; FireAnimation() is outside of it, so
deciding and telling are two steps of each thread. The decryption is external: an advertisement
carries the keys it was made with. `shown` is what a client was told last.

**Settings** - the table in memory, the file, and two threads that save. The file goes through
*emptied*, *partly written* and *closed*, the program may be killed at any step and started
again, opening may fail and closing lose what was buffered. GetSettings() of a container that is
not a table creates one.

**HandsFree** - headphones without a client. BlueZ reports the connection and the percentage by
two interfaces, so two ordered streams of signals reach one object (`toDevice`, `toService`).

**Microphone** - monitor, decoder, reader, the threads that change the device's state, the
server's and the settings'. The mutex of the monitor's life, the condition of its queue, the
joins and the blocking write into the FIFO are explicit; whatever asks PulseAudio may fail. The
commands that turn the headphones' audio on and off go through the client's queue (`outgoing`, of
which the last command counts), connected or not: the writer sends what is there on this connection
or the next (WriterSends), and a connection that ends loses what was on its way or keeps it (LinkEnds).

**PulseAudio** - what the program does to the sound server, with a user who does the same: a
profile is reset (read, off, back), streams are moved one by one while others start, the modules
of virtual microphones are listed, unloaded and loaded, the codec is read by the constructor
and by a subscription at once.

**Advertisements, PixelFrames, GalaxyFrames, AapEvents, Models, Requests, Json** are functions on
bounded inputs, each with one formula that says what is true of an input:

- *Advertisements*: the bits of an Apple advertisement (batteries, sides, case, models), the packet of
  private keys, and the reports of the HCI with their lengths.
- *PixelFrames*: HDLC, varints, the wire format and the envelope of RPC, decoded byte by byte from
  streams that are cut, damaged or joined. CRC-32 and Hash65599 are abstract values that differ
  where the bytes do.
- *GalaxyFrames*: the marks, header and checksum of Galaxy Buds, with the real CRC-16.
- *AapEvents*: packets of ear detection, conversation awareness and the microphone shown to all
  watchers of AapDevice, down to the order of a frame's samples; the decoder's construction with a
  failure of every step.
- *Models*: by which names and services a device becomes which model, and the bits of what ears
  wear. 
- *JsonLexer, JsonParser, JsonSerializer, Json*: the scanner with its escapes and UTF-8, the parser
  without a stack frame per bracket, the writer with its own check of UTF-8; and the conversion to
  TOML and back. The reference is a grammar read from the other end: it says for every tree
  of tokens what its text must mean.
- *Requests*: every request of main.cpp with missing, superfluous and wrong arguments, against
  programs of no and two devices.

**MCPeriphery, MCAudio, MCBtAdapter** compose parts that share no variable: `part` is chosen at the
start, the chosen part's actions are those of its own module, and the variables of the others stay
at one of their initial states. That is no abstraction of the composed behaviour, since no property
relates two parts; the graph is the sum of the parts' graphs rather than their product. In
MCBtAdapter a function's input is taken by one step, and then its property holds of it. A property
of a part includes the part's type invariant.


## The runs

A run takes a component's own module, or the MC module that adds what its .cfg needs: symmetry, sets
of settings, the composition of parts.

| run | question | bounds |
|---|---|---|
| MCClient | threads, descriptors, messages, losses, liveness, refinement | 2 callers, 2 connections, 2 descriptors of which 1 is shared with the process, 1 message and 1 start message |
| MCClientReuse | finding: the reader and its descriptor | 1 caller, 1 connection, 1 descriptor |
| MCDevice | restarts, disconnects, the state shown | 2 restart threads (symmetric), 2 connections, 1 restart attempt, 1 change of Connected besides those connect() causes |
| MCDeviceLive | progress | the same with 1 restart thread and 1 connection |
| MCBtAdapter | selection and power; what bytes, names and texts mean | 2 adapters, 3 proxies (symmetric), 3 events, 1 request; 82,526 inputs of the functions, a decoder with units of 4 bytes and frames of 3 samples |
| MCPeriphery | devices, teardown, active device | 2 addresses, 3 objects, 3 events |
| | the scan | 1 restart thread, 4 changes |
| | the animation | 2 addresses, 2 levels, 3 advertisements, 1 change of the keys |
| | the settings | 2 settings of 2 values, 2 saves, crashes at every step |
| | the hands-free battery | 2 percentages, 6 signals |
| | the preferences headphones are given | what is kept in the file on AirPods Pro 2 (3 capabilities) and AirPods Max (2), and volume swipe, which the headphones tell: 1 request, 1 change at the headphones and 1 link each, stem control 2 links |
| MCWearing | volume, players, output | 1 player, volumes 4 and 1, percents 50, 25 and 0, fades of 2 steps, 3 packets, 1 act of the user, 1 request |
| MCWearingManual | finding: resuming a player of the user's | 1 player, 2 packets, 2 acts |
| MCAudio | the microphone's threads | 1 thread that connects besides the others, a queue and a FIFO of 1, 3 events |
| | the sound server | 1 stream, 2 modules, 2 changes by the user, 2 calls |
| MCServer | views of clients, answers | 2 devices, 1 client, 2 events besides the initial choice of devices, 2 messages |
| MCCapabilities | what clients are shown and what the headphones have | 34 capabilities of models, each with requests, changes at the headphones and links. AirPods Pro 2: volume swipe 2, 1, 2; charging, stem and battery (one of each rule) 1, 1, 2; held stem 2, 0, 1; 17 more 1, 1, 1. AirPods Max: 1, 1, 1 or less. Galaxy Buds: noise control of three generations 2, 1, 1 or 1, 1, 2, batteries 0, 2, 2 to 1, 1, 2. Pixel Buds: noise control 1, 1, 1 and 0, 1, 2, battery 0, 1, 2 |
| MCAapUnsupported | finding: modes the headphones do not have | noise control of AirPods Max, 1 request, 1 link |

Why the bounds are enough. Two callers and two connections are what it takes for one
connection's threads to meet the next one's; two restart threads for one to wait while
another ends; two adapters or devices for one to be chosen over the other; a third proxy
or object for one being replaced twice. Three packets put AirPods on, take one out and
start a conversation, which overlaps both reasons of the volume reduction; the request ends
the conversation from the server's thread. Two addresses are what it takes for advertisements of
headphones to alternate, two savers for one's file to be the other's, one virtual microphone more
than the program has for a stale one, a FIFO of one frame for it to be full. One client is enough in Server, because what a
client is told does not depend on the others. Counters that bound a behaviour (MaxGen,
MaxPuts, MaxAttempts, MaxChanges, MaxEvents, MaxRequests, MaxPackets, MaxUser, MaxSets,
MaxMessages, and `sets`, `changes`, `links` of each
capability) only cut behaviours short; runs whose behaviours end there do not check
for deadlock. MCClient has no such end and checks it. Steps = 2 stands for the code's 10: a
fade needs a value in between, no more.

What they show. Properties about threads hold as they stand. Properties that compare
the program with the world hold up to races the code does have, and then a history
variable says exactly which: `overtaken` and `misstated` in Device (Init() stores an older
Connected value; a thread reports a client state it decided on before the client changed),
`survived` and its companions in BtAdapter, `unheard` and `overlapped` in Fetcher (changes
while nobody listens and a removal that is broken off; two threads selecting at once, or one kept from
it), `excused` in Wearing (two threads
reducing at once, a fade that failed, the user in the middle of it or setting the very volume
it was reduced to), `unannounced` in
Server (devices added or removed are not broadcast, a setting that could not be written),
`scanExcused` in BleScan (updates on two threads, a restart or a power signal that overlaps
another thread's work; `failed`, a call to start the discovery that has failed, excuses only that the
scan may not run), `late` in Animation (two threads tell in the other order than they
decided), `saveExcused` in Settings (a kill between emptying and closing the file, two writers, a
file that cannot be opened, a full disk), `tellExcused` in HandsFree (the two streams of signals
overtake each other), `raced` in Microphone (an event of the client that is told in the other order
than the state changed, or a start and a stop of the monitor that overlap) and `late` there (an "on"
queued for a connection that is gone is sent on the next), `excused` in PulseAudio (a request that a reset has overtaken, a call that
failed, an event before the answer to the constructor's question), and
in Capabilities `crossed` (a request and a report have met on the way, and the older of the
two is the last to be shown), `overlapped` (SetFromJson() while the Connected handler loads
the same setting), `offline` (a capability made available after the link was lost) and
`swallowed` (a report of Galaxy Buds received together with an earlier one is not read). Without the history the property fails, with it TLC finds nothing else: the list of ways in
which the program can be wrong is complete for the instance.

### Findings

- *MCClientReuse.* The comment at `src/client/Client.cpp:138` says that neither thread can end
  up on a reused descriptor. The writer cannot; the reader, joined only after the close, can.
- *MCWearingManual.* A player the controller paused, its user played and then paused again is
  started when the headphones are put in, against the comments at
  `src/media/MediaController.cpp:89` and `:123`.
- *MCAapUnsupported.* `src/api-reference.md:369` says that invalid or unsupported capability values
  are ignored. SetFromJson() of noise control (`src/device/capabilities/aap/AapAncCapability.cpp:109`)
  checks that the value is a mode, not that it is one of those GetAncModesFor() gives for the model.

### What else the code does

Not findings, since nothing in the repository says otherwise, but worth knowing; the models do all
of it.

- A device that is connected when it is paired never becomes active: the selection after adding is
  commented out (`src/DevicesInfoFetcher.cpp:89`), and its Connected property does not change any
  more. ActiveTrue leaves this case out.
- An adapter whose proxy cannot be created is not tried again, and nothing else is selected in its
  place until another adapter is announced: with three adapters, one of which is removed and one of
  which fails, the third is left unused (`src/dbus/DBusBtAdapter.cpp:55`). AdapterUsed excepts
  failures since the last selection for this reason.
- GetSettings of a container that is a plain value replaces it by an empty table in memory
  (`src/settings/SettingsService.cpp:71`); the next save of anything writes that.
- Whole numbers of 2^63 and more come back negative from the settings, and nulls not at all.
- A virtual microphone that could not be loaded is not tried again before the next wake, and a
  decoder blocked in a FIFO nobody reads keeps StopMonitor() waiting.
- The microphone's monitor reads that the device is connected and only then queues the command that
  turns the audio on (`src/device/capabilities/aap/AapHighResolutionMicrophoneCapability.cpp:354`). If
  the connection goes in between, the reset sends no "off", since the client is not connected any
  more, and the queue keeps the "on" for the next connection (`src/client/Client.cpp:51`). With the
  microphone turned off meanwhile, the headphones send audio that nobody asked for until a stream has
  been started and has ended again. MicrophoneOff leaves this to `late`.
- StartScan() passes on every error of StartDiscovery but two
  (`src/ble_ads/DBusBasedBleAdvertisingService.cpp:120`). The service then listens to advertisements
  although no scan is taken for started, a later "off" stops nothing, and where the error is a
  timeout BlueZ may discover all the same. The next start that succeeds makes it good (ScanFollows).
  The exception leaves UpdateBleState() and the handler that called it. When a device is removed, no
  other is made the active one (`src/DevicesInfoFetcher.cpp:100`) and the service keeps its object
  (RemovalBreaksOff in Fetcher; ActiveTrue and PairedListed except it). A request to turn the animation
  on is answered as one that failed, though the setting is kept (SetSetting in Server). At
  start-up the exception ends the program, after which there is nothing to model.
- A read of Galaxy Buds that is refused for its checksum still teaches the marks
  (`src/sdk/sgb/GalaxyBudsPacket.cpp:23`), and the next one puts them right. The bit of the header
  that says request or response is read the other way round than a comment in Encode() has it
  (line 45 against 126); nothing depends on the type. `payloadSize < 0` cannot be (line 57: the
  variable is unsigned). Headers that promise more bytes than have arrived are not among the inputs.
- Names of other makers' headphones that contain "buds pro" or the like are taken for Galaxy Buds
  unless their services say otherwise.
- A volume the user sets to exactly what it was reduced to counts as untouched, and the volume from
  before the reduction comes back when its reasons end (`src/device/AapDevice.cpp:142`).
- Before hands-free headphones have reported a level, those that are connected when the program
  starts are shown as full (`src/dbus/DBusDeviceInfo.h:29`).

### Fairness

Client: weak fairness for each thread's own steps, strong fairness for taking a mutex (a
std::mutex that is free again and again is obtained). Device: the same for StartClient()
and Stop(), weak fairness for timers and callbacks. Server: threads that can go on do, and
BlueZ answers: the calls carry timeouts (`src/dbus/DBusDeviceInfo.cpp:139`), so an error
comes if nothing else. Nothing is assumed of the remote side, the user, or when anybody
calls. Where a property needs such luck it says so: `CallsReturn` excepts a reader that
waits on somebody else's descriptor, `ClientComesUp` a device that disconnects or has used
up its attempts, `Answered` a device or adapter that goes.


## The proofs

TLC explores one small instance of each module; the theorems below hold for every value of the
constants. Each comes from an inductive invariant named in its module, one lemma per part of
it and one step per action in each lemma; the temporal theorems then follow by the invariant rule.
Where an invariant was found to be needed, TLC checked it on the run's instance first.

| module | theorem | property |
|---|---|---|
| ClientProofs | TypeCorrect | TypeOK |
| | ThreadsJoined | ThreadObjectsFree |
| | WriterSafe | WriterOwnsDescriptor |
| | LossTrue | LostOnlyOnDeath |
| | TakenSafe | TakenForCurrent |
| | NothingDropped | MessagesKept |
| | Refinement | ImplementsContract |
| DeviceProofs | Covered | RestartCovers |
| | DisconnectWins | StopWins |
| | StateShown | StateTrue |
| | Explained | DropExplained |
| BtAdapterProofs | AdapterIsUsed | AdapterUsed |
| | FirstStays | FirstStaysSelected |
| | PoweredIsTrue | PoweredTrue |
| FetcherProofs | ListedIsTrue | PairedListed |
| | TeardownIsQuiet | TeardownQuiet |
| | ActiveIsTrue | ActiveTrue |
| ServerProofs | ViewsCurrent | ViewCurrent |
| WearingProofs | VolumeIsRestored | VolumeRestored |
| | RaisedOnlyAtTheEnd | RaisedAtTheEnd |
| | PausedAreRemembered | PausedRemembered |
| | EarsAreFollowed | EarsFollowed |
| AudioProofs | WakeIsNotLost | WakeNotLost |
| | MicrophoneIsOff | MicrophoneOff |
| | NoThreadIsLost, TypeCorrect | the first parts of ThreadsJoined |
| | ProfileIsTrue | ProfileTrue |
| | NothingIsLeft | NothingLeft |
| | PartsAreThemselves | see below |
| PeripheryProofs | ScanIsFollowed | ScanFollows |
| | AnimationIsTrue | AnimationTrue |
| | SettingsAreKept | SettingsKept |
| | BatteryIsTrue | BatteryTrue |
| | PreferenceIsApplied | PreferenceApplied |
| | StatesKept, NothingForgotten | see below |

### What is assumed

Only what `ASSUME` in the modules says of the constants, and TLC evaluates it on every run.
The sets are any sets and the bounds any numbers, with these conditions: what stands for
nobody or nothing is not a member, and kinds that share a variable differ; descriptors, adapters,
addresses and objects are numbers (the program takes the first or the last of a std::map); the
addresses and the restart threads are finitely many (there is a last connected device, and attempts
are counted); levels of batteries are bytes, as the program reads them, and so never one of the numbers that
stand for no level; no value of a setting is the absence of one, and the capabilities looked at are
some that the model has (Testable). The histories described under "The runs" are part of the properties and so of
the theorems.

### Client

For any number of callers, descriptors, connections and messages. None of the properties
is inductive by itself. That a writer sends on its own descriptor, for
example, needs that the descriptor of the open socket is the latest connection's, that the
writer is joined before the close, that only one thread runs StopLocked(), and so that a
mutex is held by whom the program counters say. IInv is the conjunction of those layers, and
each has a lemma of its own:

    TypeOK -> LifecycleHeld, MutexHeld     who is inside which mutex
           -> StartedInv                   what _isStarted is at each point
           -> SocketInv, ReaderInv         whose the socket and the threads are
           -> FateInv                      how each connection ended, and who knows

MessagesKept needs one more, QueueInv: the queue holds the messages put last, without a gap, and
the one before them is the last a writer took. Taking, putting and the refusals of a closed queue
all keep it, and nothing else touches the queue.

Refinement is about the whole behaviour: `phaseBar`, `readerBar` and `generationBar` give
the state of ClientContract that a state of the threads stands for, and every step of a thread is a
step of the contract or leaves it alone. The invariant is needed throughout: that connect() is the
contract's start, for example, takes that no reader of an earlier connection is left.

### Device

For any number of restart threads, attempts, connections and changes of Connected. The client inside
is ClientContract, which the theorem above says the threads implement. Two parts of the invariant say
where a thread must be while something is not yet so:

- CoverInv: while the device is connected and its client down, the attempts are used up or some thread
  is at one of the places (`Coming`) from which it goes on to start the client, to ask for a restart
  or to give up; a pending restart stands for exactly one thread (PendingInv).
- StateInv: while the state shown is not the client's, some thread is at one of the places
  (`Telling`) from which it goes on to store one.

SignalInv and ValueInv follow the value of Connected from BlueZ through the signals on their way to
what the device holds: the last signal tells what BlueZ has. StopInv says that the client of a
device that is not connected is about to be stopped or that news is on its way. The attempts may be
counted by several threads that have all seen one left, so their bound is CountInv: with those
entitled to count, there are never more than the maximum and one for each thread.

### Bluetooth adapter

For any number of adapters, proxies, signals and requests. AdapterUsed speaks of the moment when
everything has been handled, so it says nothing of the steps before. SelectsInv does: while there are
adapters and none is selected, the D-Bus thread is about to select one, or the enumerating thread is
and it is the only one, or a proxy has failed. The D-Bus thread is the only one that removes
adapters, so its own target stays available until it has published; the target of the other may be
removed, but then nothing is left to select. HeldInv says that who publishes holds a live proxy
of its target, through every release of a reference. FirstStays needs no invariant: it is a
property of each step.

PoweredTrue adds ValuesInv. CurrentInv, its core: the power that is shown is the selected adapter's, or
a signal with the newer value waits at its proxy or is about to be stored, or a thread is about to
read it, or the adapter is on its way out (`Gone`: its removal is announced, or its proxy
is being released). LatestInv says that the last signal at a proxy tells the adapter's power;
OwnInv, ReadingInv and StoringInv that no other thread's proxy or late callback gets in between.

### Devices of the program

For any number of devices, objects and events. ActiveTrue needs a first invariant: while no two threads
select at a time, what is active is connected or some thread is about to look at it again (ActiveInv),
and what a thread is about to make active still is a connected device (CandidateInv).

PairedListed and TeardownQuiet need a second, HeardInv, about the devices nobody has missed
a change of. Its heart is the alternation of announcements (AlternateInv): of one device those on
their way are in turn that it came and that it went; the first is the opposite of what the program
knows (`Here`), the last says what is so. When none is on its way the program knows the
device exactly if BlueZ has it, and then:

    ObjectInv        the object known under the path is the only one of it that listens
    PairedInv        it is in the paired set if the device is paired, or a signal says so
    ConnectedInv     the last signal on its way tells whether it is connected, or the object knows
    PairedMappedInv  if it is in the paired set it has a device, or a thread is about to make it
    MapInv           a device is made from the known object, until that is erased
    MapConnectedInv  and shows what its object holds

FetchInv and QuietInv cover the start, when the constructing thread enumerates what
BlueZ has and clears what the D-Bus thread has made meanwhile. That an object taken down
neither listens nor runs a callback (StoppedInv, ListenInv) gives TeardownQuiet. A removal that an
exception breaks off (RemovalBreaksOff) leaves an object that is known and does not listen, so its device
leaves the set HeardInv speaks of, and the rest of the invariant is untouched.

### Server

For any number of clients, devices, events and requests. FreshInv: what an open client shows of a
topic is current, or a broadcast of the topic has been deferred to the loop (`Announced`), or a
thread that has changed the topic is about to announce it or to hold it back (`Announcing`). The text of
a message is made when the loop runs the function, so a broadcast that was deferred before a change
is as good as one deferred after it: this is why no order of changes and broadcasts matters. A device
between its two steps of being added is in the map (ActiveInv), so what is deferred when it is heard
of has it.

### Ear detection and the media controller

For any players, volumes, settings and steps of a fade, any packets, requests and acts of the user.

- OutputInv and PauseInv follow a packet through the steps it takes: while the players are paused, one
  that still plays is yet to be asked. Everybody else who could start one is excused.
- RememberInv: a player the controller has paused is in its list, and while some thread resumes the
  list it is still to be asked (MutexInv keeps it to one thread).
- ReducedInv says what the volume is at each point of a reduction and of its end. Its core is
  `Lowered`: a reduced volume is the low one and the saved one the user's, or the user has
  set another. The lemmas before it are about the division in the fade: it starts at
  one volume, ends at exactly the other, and on its way down never rises.

ReducedInv did not hold at first: a user who sets another volume and then, by chance, exactly the
reduced one is taken not to have touched it, and the old volume comes back
(`src/device/AapDevice.cpp:142` compares volumes). It takes two acts of the user, more than the bounds
of MCWearing, and is now part of the exception of VolumeRestored.

### Microphone

For any threads that start the client, any capacities and any number of connections and
requests, until the first state is stored or fired too late (`raced`). WakeInv, the core: the
setting is on and the connection up, so the monitor works and is not to stop, or a caller is
on its way to wake it (`Waking`). It needs that `_monitorRunning` is set exactly while the monitor
does not end (RunInv), that who asks it to stop waits for it and then forgets it (StopInv), and that
nobody resets while the device is connected (LinkInv). OwnInv says what the monitor holds at each of
its places, so that nothing is left when it has gone (OffInv). AudioInv says that headphones send on a connection
only, and that there they do, or will once they have had the command on its way (`Told`), what the
monitor wants; before a new connection is stored as such that is nothing. A command kept from the last
connection (`late`) is the one exception, and the next start or stop of a stream ends it. NoThreadIsLost comes from an invariant of its own
(`Held`): a capture owns its decoder until StopCapture() has joined it.

### PulseAudio

For any streams and modules, calls and acts of the user. `SoundInv` has a part for each
thing the program does to the sound server, and each is about the place of the thread that does it:

- ProfileInv: but while the monitor has the card turned off, its profile is the one that is wanted, or
  the reset has set one back that was no longer wanted, and says so.
- CardInv, CodecInv: an answer on its way, or the profile a thread has read, is the card's, or another
  event is waiting; when none is, clients are shown the codec it has.
- SwitchInv: a stream on the sink that is left is one of those listed to be moved; streams that start
  meanwhile go to the new default.
- ModuleInv: when the constructor has unloaded what it has listed no virtual microphone is there, and
  the one it loads is the only one.

ProfileTrue and NothingLeft are properties of MCAudio, which composes two modules: PartsAreThemselves
shows by refinement that a behaviour of the composition is a behaviour of either, and the
theorems of both parts follow.

### Scan, animation, settings, battery

`PartsOfPeriphery` does the same for MCPeriphery: `PartSpec` implies the specification of each part, so
an invariant proved of a part's own module is one of the composition.

- *Scan.* For any number of changes, signals and restart threads. At rest `started` is what setting and
  headphones call for, and before it a thread is on its way to make it so (UpdateInv); AloneInv says that
  without an excuse one thread is at work at a time, so that what it read a step ago is still so.
  ListenersInv: the subscription the service holds is the one that is there, or the thread at work
  is between unsubscribing and subscribing. DiscoveryInv: BlueZ discovers what is desired, or a
  signal of the power, a restart or the thread at work will put that right, or a call has failed.
  That a failed call leaves nothing started that is not wanted, and no listener twice, holds without
  the last exception.
- *Animation.* For any addresses, bytes, advertisements and keys. The threads that have decided are
  kept in the order they did, each once and as long as it has something to tell (OrderInv). The last of them
  tells what is cached (ToldInv), and that is what was said last (SaidInv).
- *Settings.* For any settings, values, saves and crashes. SavingInv and WrittenInv say at each step of a save
  that the file is the memory but for what has yet to be written, and the defaults come after what was read.
  KeptInv follows a setting that was kept through all of it, LoggedInv the level of the logger.
- *Battery.* For any levels and signals. The last signal of each stream tells what BlueZ has
  (ConnectionInv, LevelInv); what the object and the capability hold is that, or a signal
  or a thread carrying one is on its way to it (TellerInv, ShownInv, KnownInv). Levels and connection come by
  two streams, and where they overtake each other the excuse is set by the very step that does it.

### Preferences

For any set of capabilities of any models of the three makes, any bounds, and any legal value in the
file. Four of the twenty-seven classes keep a value in the settings file and apply it at every
connection; `AnswersGiven` says that no other has the rule *stored*, by going through the table, and `Records`
what the four send for each value and what the headphones hold then. The headphones never tell these values,
so nothing but the order of what the program does can make them right:

    PrefInv == TravelInv        the headphones tell nothing; what is on its way to them
            /\ HandlersInv      Connected and Disconnected do not run at the same time
            /\ UntoldInv        what clients have not been told, a thread is about to tell
            /\ ServingInv       the server's thread saves valid values only
            /\ ConnectingInv    a connection reads the file before it sends
            /\ AppliedInv       once it has, the headphones get whatever the file gets

AppliedInv is the heart: the last packet of the queue that sets something, or the headphones' register
if there is none, is the one of the value wanted (ToldBy). Between the save and the send of a request it is
the file that is ahead, and it speaks of the request's value instead. The excuse `overlapped`
cannot be left out: a request served while the Connected handler holds what it loaded is lost.

### The held stem

Two theorems of PeripheryProofs are about what a held stem does, the one setting whose request is put
together from what the program knows of both earbuds:

| theorem | what it says |
|---|---|
| StatesKept | every request made from a valid state is a valid state: both pairs standard or volume, opposite directions |
| NothingForgotten | a request keeps whether volume is supported, keeps the standard modes of both earbuds while volume is in use and the volume modes while it is not |

The pairs are few, but the state is made of two of them and a mode is any value: the proof goes
by what a pair can be (PairCases) and what the pick of a kind from two pairs is (KeptPairs).

### What TLC alone checks

- Liveness (`CallsReturn`, `ClientComesUp`, `Answered` and the like) and fairness, and the last part of
  Microphone's ThreadsJoined, which speaks of ENABLED: beyond the prover.
- The functions on bounded inputs (ReceivedTrue, ModelsTrue, JsonTrue): they are recursive over the
  data, and the induction that would prove them is beyond the prover too.
- ResumesOwnPause and ReaderOwnsDescriptor, which the findings show to be violated.
- ShownTrue of Capabilities: what clients are shown depends on how each of the twenty-seven records
  reads the bytes of each packet, and on batteries folded over their entries.


## Not modelled, and the plan

- *Audio arithmetic.* The gain control (`src/audio/AutomaticGainControl.cpp`) is floating-point
  arithmetic on samples, and the AAC-ELD decoder a library; both are beyond TLC. Their calls, and
  what fails, are modelled.
- *The passive advertising service over HCI* is constructed nowhere; only its parser of
  advertisements is modelled, because the one over D-Bus is given the same data.
- *json.hpp* is 24,765 lines of which the program uses the parser, the writer and plain access. The
  other formats, JSON pointers, patches, iterators and conversions of containers are templates that
  are never instantiated here. Digits of doubles (Grisu2, strtod) are external.
- *Connecting*: SDP and socket options inside connect() are one step that succeeds or fails.
- *PulseAudio's main loop*: collecting an answer from callbacks is one step that may fail.
- *~Device* against reader and callbacks; the copy of listeners in FireEvent() and the data race on
  its list; a WebSocket closed under a deferred answer. These are undefined behaviour in the code
  rather than an order of steps, and are listed under `hazards`.
- *Logging, layout of code, tests* carry no state.
- *Ear detection of Galaxy Buds* is in the code but no capability uses it; the bits are in Models.

What would come next: a proof of ShownTrue, rule by rule; a model of the teardown of a device.

Each run asks one question of the parts that take it, or, where parts share nothing, one of each.
Device's two runs stay apart: with liveness and two connections the graph of one run takes longer
than all the others together. A property has one listed mutant; the formulas of ReceivedTrue and
JsonTrue have further faults beside the code they would be in (PixelFrames, GalaxyFrames, AapEvents,
Requests), each of which violates the property as well.
