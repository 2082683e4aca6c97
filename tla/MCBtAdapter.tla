---------------------------- MODULE MCBtAdapter ----------------------------
(* BtAdapter on a small instance, and the functions that read what arrives  *)
(* over Bluetooth and from clients, on bounded inputs: a behaviour is one   *)
(* of the adapter, or one step that reads one input.                        *)
EXTENDS BtAdapter, PixelFrames, TLC

CONSTANTS MaxInputLength, FrameSamples

VARIABLES part, input

Advertisements == INSTANCE Advertisements
Models == INSTANCE Models
Json == INSTANCE Json
Requests == INSTANCE Requests
AapEvents == INSTANCE AapEvents
GalaxyFrames == INSTANCE GalaxyFrames

ProxySymmetry == Permutations(Proxies)

\* What each part reads. The state of a part is first without an input.
Readings ==
    <<<<"advertisements", Advertisements!Headphones>>, <<"advertisements", Advertisements!KeyLists>>,
      <<"advertisements", Advertisements!Reports>>, <<"galaxy", GalaxyFrames!Inputs>>,
      <<"frames", Streams>>, <<"frames", Losses>>, <<"frames", Messages>>,
      <<"models", Models!GalaxyBuds>>, <<"models", Models!Others>>, <<"models", Models!Wearings>>,
      <<"json", Json!Inputs>>, <<"requests", Requests!Inputs>>, <<"events", AapEvents!Inputs>>>>

PartInit ==
    /\ Init
    /\ \/ part = "adapter" /\ input = None
       \/ part = "waiting" /\ input \in DOMAIN Readings /\ present = {}

TakeInput ==
    /\ part = "waiting" /\ part' = Readings[input][1]
    /\ input' \in Readings[input][2]
    /\ UNCHANGED vars

InAdapter(A) == part = "adapter" /\ A /\ UNCHANGED <<part, input>>

AdapterNext ==
    \/ InAdapter(FetchNext) \/ InAdapter(HandleAnnounced)
    \/ \E t \in Threads :
           \/ InAdapter(CreateProxy(t)) \/ InAdapter(Publish(t)) \/ InAdapter(ReadPowered(t))
           \/ InAdapter(Recheck(t)) \/ InAdapter(StorePowered(t)) \/ InAdapter(Drop(t))
           \/ InAdapter(Release(t)) \/ InAdapter(PowerOff(t))
    \/ \E p \in Proxies : InAdapter(CheckCurrent(p)) \/ InAdapter(SetPoweredValue(p))
    \/ \E a \in Adapters :
           InAdapter(Plug(a)) \/ InAdapter(Unplug(a)) \/ InAdapter(PowerFlips(a))
    \/ InAdapter(BeginRequest) \/ InAdapter(EndRequest)

PartNext == AdapterNext \/ TakeInput

PartSpec == PartInit /\ [][PartNext]_<<part, input, vars>>

(***************************************************************************)
(* Properties of the functions; those of the adapter are BtAdapter's.      *)
(***************************************************************************)
\* See Advertisements, PixelFrames, GalaxyFrames and AapEvents: what headphones advertise, send and
\* hear is taken for what it is.
ReceivedTrue ==
    /\ part = "advertisements" => Advertisements!AdvertisementsTrue(input)
    /\ part = "frames" => FramesTrue(input)
    /\ part = "galaxy" => GalaxyFrames!FramesTrue(input)
    /\ part = "events" => AapEvents!EventsTrue(input)
\* See Models: a device is taken for what it is, and its wearers' ears for theirs.
ModelsTrue == part = "models" => Models!ModelsTrue(input)
\* See Json: texts mean what the grammar says, and settings come back as they were sent.
JsonTrue ==
    /\ part = "json" => Json!JsonTrue(input)
    /\ part = "requests" => Requests!RequestsTrue(input)
=============================================================================
