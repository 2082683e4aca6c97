---------------------------- MODULE WearingProofs ----------------------------
(***************************************************************************)
(* Proofs that the sound follows the ears, that what the media controller  *)
(* has paused is remembered and that a reduced volume is restored, for any *)
(* players, volumes, settings and steps of a fade, and any number of       *)
(* packets, requests and acts of the user.                                 *)
(***************************************************************************)
EXTENDS Wearing, TLAPS

-----------------------------------------------------------------------------
\* The invariant.

MediaPcs == {"lock", "each", "call"}
ReaderPcs == {"idle", "switch", "media", "volume"} \cup MediaPcs \cup ReducingPcs

Setting == [pauseMedia : BOOLEAN, switchToSpeakers : BOOLEAN,
            lowerVolume : 0..100, talkVolume : 0..100]

\* The sound, what is known of the ears, and the reduction.
SoundTypes ==
    /\ a2dp \in BOOLEAN
    /\ output \in {"headphones", "speakers"}
    /\ volume \in Nat /\ wanted \in Nat
    /\ player \in [Players -> {"Playing", "Paused", "Stopped"}]
    /\ pausedBy \in [Players -> {"user", "controller"}]
EarTypes ==
    /\ isAvailable \in BOOLEAN
    /\ option \in Statuses /\ previousStatus \in Statuses
    /\ settings \in Setting
    /\ counts \in [{"packets", "user", "sets"} -> Nat]
    /\ excused \subseteq {"media", "output", "volume", "answers"}
ReductionTypes ==
    /\ volumeReduced \in BOOLEAN
    /\ savedVolume \in Nat /\ reducedVolume \in Nat
    /\ reasonActive \subseteq Reasons
Fades == [reason : Reasons \cup {"none"}, percent : 0..100, from : Nat, to : Nat, step : Nat]
FadeTypes ==
    /\ fade \in [Faders -> Fades]
    /\ \A t \in Faders : /\ pc[t] \in {"fadeDown", "fadeUp"} => fade[t].step \in 1..Steps
                         /\ pc[t] \in {"mark", "unmark"} => fade[t].reason \in Reasons

\* Threads, each at its own places, and the mutex of the one that is at the players.
ThreadTypes ==
    /\ pc \in [Threads -> ReaderPcs]
    /\ pc["server"] \in {"idle"} \cup ReducingPcs
    /\ pc["other"] \in {"idle"} \cup MediaPcs
MediaTypes ==
    /\ media \in [Threads -> [call : {"none", "Play", "Pause"}, todo : SUBSET Players,
                              now : SUBSET Players]]
    /\ pausedPlayers \subseteq Players
    /\ \A t \in Threads : /\ pc[t] \in MediaPcs => media[t].call # "none"
                          /\ pc[t] # "call" => media[t].now = {}
                          /\ \A p, q \in media[t].now : p = q
MutexInv == \A t \in Threads : (mutex = t) <=> pc[t] \in {"each", "call"}

\* The output is switched in the first step of a packet.
OutputInv ==
    settings.switchToSpeakers /\ a2dp /\ "output" \notin excused /\ pc["reader"] # "switch" =>
        /\ option = "NotWorn" => output = "speakers"
        /\ option \in {"Worn", "PartiallyWorn"} => output = "headphones"

\* While the players are paused, one that still plays is still to be asked.
PauseInv ==
    option = "NotWorn" /\ settings.pauseMedia /\ "media" \notin excused =>
        /\ pc["reader"] \in MediaPcs => media["reader"].call = "Pause"
        /\ pc["reader"] \in {"each", "call"} =>
               \A p \in Players : player[p] = "Playing" =>
                   p \in media["reader"].todo \cup media["reader"].now
        /\ pc["reader"] \notin {"switch", "media"} \cup MediaPcs =>
               \A p \in Players : player[p] # "Playing"

\* While they are resumed, one the controller has paused is still to be asked.
OwnPause(p) == player[p] = "Paused" /\ pausedBy[p] = "controller"
RememberInv ==
    "answers" \notin excused =>
        \A p \in Players : OwnPause(p) =>
            /\ p \in pausedPlayers
            /\ \A t \in Threads : pc[t] \in {"each", "call"} /\ media[t].call = "Play" =>
                   p \in media[t].todo \cup media[t].now

\* One thread reduces or restores at a time.
OneReduces ==
    \A t, u \in Faders : pc[t] \in ReducingPcs /\ pc[u] \in ReducingPcs => t = u

\* A volume that is reduced to "low" from "high" is "low", or the user has set another.
Lowered(low, high) ==
    \/ volume = low /\ high = wanted
    \/ volume = wanted /\ volume # low

\* The volume at each point of a reduction and of its end.
FadesDown(t) ==
    /\ ~volumeReduced
    /\ fade[t].from = wanted /\ fade[t].to <= fade[t].from
    /\ volume = Between(fade[t].from, fade[t].to, fade[t].step - 1)
Keeps(t) == ~volumeReduced /\ Lowered(fade[t].to, fade[t].from)
Ends(t) == volumeReduced /\ reasonActive = {}
AtRestNow ==
    (\A t \in Faders : pc[t] \notin {"fadeDown", "keep", "fadeUp", "clear"}) =>
        IF volumeReduced THEN Lowered(reducedVolume, savedVolume) ELSE volume = wanted
ReducedInv ==
    "volume" \notin excused =>
        /\ OneReduces
        /\ AtRestNow
        /\ reasonActive = {} /\ volumeReduced =>
               \E t \in Faders : pc[t] \in {"settle", "compare", "fadeUp", "clear"}
        /\ \A t \in Faders :
               /\ pc[t] \in {"look", "fadeDown", "keep"} => reasonActive # {}
               /\ pc[t] = "fadeDown" => FadesDown(t)
               /\ pc[t] = "keep" => Keeps(t)
               /\ pc[t] \in {"compare", "fadeUp", "clear"} => Ends(t)
               /\ pc[t] = "fadeUp" => fade[t].to = wanted
               /\ pc[t] = "clear" => volume = wanted

Types == /\ SoundTypes /\ EarTypes /\ ReductionTypes /\ FadeTypes /\ ThreadTypes /\ MediaTypes
IInv ==
    /\ Types
    /\ MutexInv /\ OutputInv /\ PauseInv /\ RememberInv /\ ReducedInv

-----------------------------------------------------------------------------
\* What a division by a positive number is.
LEMMA Division ==
    ASSUME NEW n \in Nat \ {0}, NEW k \in Nat
    PROVE  /\ (k * n) \div n = k
           /\ \A s \in 0..n : (k * s) \div n \in 0..k
OBVIOUS

LEMMA DivisionGrows ==
    ASSUME NEW n \in Nat \ {0}, NEW k \in Nat, NEW s \in Nat
    PROVE  (k * s) \div n <= (k * (s + 1)) \div n
<1>1. k * s \in Nat /\ k * (s + 1) \in Nat /\ k * s <= k * (s + 1)
  OBVIOUS
<1> QED BY <1>1

\* A percentage of a volume is a volume that is no louder.
LEMMA Percentage ==
    ASSUME NEW v \in Nat, NEW percent \in 0..100
    PROVE  (v * (100 - percent)) \div 100 \in 0..v
OBVIOUS

\* A fade starts at the one volume, ends at the other, and stays a volume on its way.
LEMMA FadeEnds ==
    ASSUME NEW from \in Nat, NEW to \in Nat
    PROVE  /\ Between(from, to, 0) = from
           /\ Between(from, to, Steps) = to
           /\ \A step \in 0..Steps : Between(from, to, step) \in Nat
<1>1. CASE to >= from
  <2>1. to - from \in Nat
    BY <1>1
  <2> QED BY <1>1, <2>1, Division, WearingAssumption DEF Between
<1>2. CASE ~(to >= from)
  <2>1. from - to \in Nat
    BY <1>2
  <2> QED BY <1>2, <2>1, Division, WearingAssumption DEF Between
<1> QED BY <1>1, <1>2

\* A fade to a lower volume never raises it.
LEMMA FadeFalls ==
    ASSUME NEW from \in Nat, NEW to \in Nat, to <= from, NEW step \in 1..Steps
    PROVE  Between(from, to, step) <= Between(from, to, step - 1)
<1>1. from - to \in Nat /\ step - 1 \in Nat
  BY WearingAssumption
<1>2. ((from - to) * (step - 1)) \div Steps <= ((from - to) * step) \div Steps
  <2>1. ((from - to) * (step - 1)) \div Steps
            <= ((from - to) * ((step - 1) + 1)) \div Steps
    BY <1>1, DivisionGrows, WearingAssumption
  <2> QED BY <2>1
<1>3. CASE to = from
  BY <1>3, Division, WearingAssumption DEF Between
<1>4. CASE to < from
  <2>1. \A s \in 0..Steps : ((from - to) * s) \div Steps \in 0..(from - to)
    BY <1>1, Division, WearingAssumption
  <2>2. step \in 0..Steps /\ step - 1 \in 0..Steps
    BY WearingAssumption
  <2> QED BY <1>2, <1>4, <2>1, <2>2 DEF Between
<1> QED BY <1>3, <1>4

-----------------------------------------------------------------------------
\* What a step of a reduction leaves alone.
LEMMA ReductionFrame ==
    ASSUME ThreadTypes, NEW t \in Faders, StartVolumeReduction(t) \/ StopVolumeReduction(t)
    PROVE  /\ UNCHANGED <<a2dp, output, player, wanted, pausedBy, counts, earVars, mediaVars>>
           /\ excused' \in {excused, excused \cup {"volume"}}
           /\ pc[t] \in ReducingPcs /\ pc' = [pc EXCEPT ![t] = pc'[t]]
           /\ pc'[t] \in {"idle"} \cup ReducingPcs
<1>1. CASE Mark(t)
  BY <1>1 DEF Mark, Goto, ThreadTypes, Threads, ReducingPcs, soundVars, history
<1>2. CASE LookInVain(t)
  BY <1>2 DEF LookInVain, Goto, ThreadTypes, Threads, ReducingPcs, soundVars, history
<1>3. CASE Look(t)
  BY <1>3 DEF Look, Goto, ThreadTypes, Threads, ReducingPcs, soundVars, history
<1>4. CASE FadeStep(t, "fadeDown", "keep")
  BY <1>4 DEF FadeStep, ThreadTypes, Threads, ReducingPcs, history
<1>5. CASE FadeFails(t, "fadeDown", "idle")
  BY <1>5 DEF FadeFails, Goto, ThreadTypes, Threads, ReducingPcs, soundVars
<1>6. CASE Keep(t)
  BY <1>6 DEF Keep, Goto, ThreadTypes, Threads, ReducingPcs, soundVars, history
<1>7. CASE Unmark(t)
  BY <1>7 DEF Unmark, Goto, ThreadTypes, Threads, ReducingPcs, soundVars, history
<1>8. CASE Settle(t)
  BY <1>8 DEF Settle, Goto, ThreadTypes, Threads, ReducingPcs, soundVars, history
<1>9. CASE Compare(t)
  BY <1>9 DEF Compare, FadeFails, Goto, ThreadTypes, ReducingPcs, soundVars, history
<1>10. CASE FadeStep(t, "fadeUp", "clear")
  BY <1>10 DEF FadeStep, ThreadTypes, Threads, ReducingPcs, history
<1>11. CASE FadeFails(t, "fadeUp", "clear")
  BY <1>11 DEF FadeFails, Goto, ThreadTypes, Threads, ReducingPcs, soundVars
<1>12. CASE Clear(t)
  BY <1>12 DEF Clear, Goto, ThreadTypes, Threads, ReducingPcs, soundVars, history
<1> QED
  BY <1>1, <1>2, <1>3, <1>4, <1>5, <1>6, <1>7, <1>8, <1>9, <1>10, <1>11, <1>12
    DEF StartVolumeReduction, StopVolumeReduction

\* What a step of the media controller leaves alone.
LEMMA MediaFrame ==
    ASSUME ThreadTypes, NEW t \in Threads, Media(t)
    PROVE  /\ UNCHANGED <<a2dp, output, volume, wanted, counts, earVars, volumeVars, fade>>
           /\ excused \subseteq excused' /\ excused' \subseteq excused \cup {"media", "answers"}
           /\ pc[t] \in MediaPcs /\ pc' = [pc EXCEPT ![t] = pc'[t]]
           /\ pc'[t] \in MediaPcs \cup {AfterMedia(t)}
<1>1. CASE Lock(t)
  BY <1>1 DEF Lock, Goto, ThreadTypes, MediaPcs, soundVars, history
<1>2. CASE NoSessionBus(t)
  BY <1>2 DEF NoSessionBus, Goto, ThreadTypes, MediaPcs, soundVars
<1>3. CASE AskPlayer(t)
  BY <1>3 DEF AskPlayer, ThreadTypes, MediaPcs, soundVars
<1>4. CASE CallPlayer(t)
  BY <1>4 DEF CallPlayer, Goto, ThreadTypes, MediaPcs
<1>5. CASE Unlock(t)
  BY <1>5 DEF Unlock, Goto, ThreadTypes, MediaPcs, soundVars, history
<1> QED BY <1>1, <1>2, <1>3, <1>4, <1>5 DEF Media

\* The sound keeps its type.
LEMMA SoundStep == IInv /\ [Next]_vars => SoundTypes'
<1> SUFFICES ASSUME IInv, [Next]_vars PROVE SoundTypes'
  OBVIOUS
<1>1. ASSUME NEW status \in Statuses, EarState(status)
      PROVE  SoundTypes'
  BY <1>1 DEF EarState, IInv, Types, SoundTypes, soundVars
<1>2. ASSUME NEW speaking \in BOOLEAN, ConversationState(speaking)
      PROVE  SoundTypes'
  BY <1>2 DEF ConversationState, IInv, Types, SoundTypes, soundVars
<1>3. CASE SwitchOutput
  BY <1>3 DEF SwitchOutput, IInv, Types, SoundTypes
<1>4. CASE TriggerMediaControl
  BY <1>4 DEF TriggerMediaControl, IInv, Types, SoundTypes, soundVars, history
<1>5. CASE TriggerVolumeControl
  BY <1>5 DEF TriggerVolumeControl, IInv, Types, SoundTypes, soundVars
<1>6. CASE Reset
  BY <1>6 DEF Reset, IInv, Types, SoundTypes, soundVars, history
<1>7. ASSUME NEW t \in Threads, Lock(t)
      PROVE  SoundTypes'
  BY <1>7 DEF Lock, IInv, Types, SoundTypes, soundVars, history
<1>8. ASSUME NEW t \in Threads, NoSessionBus(t)
      PROVE  SoundTypes'
  BY <1>8 DEF NoSessionBus, IInv, Types, SoundTypes, soundVars
<1>9. ASSUME NEW t \in Threads, AskPlayer(t)
      PROVE  SoundTypes'
  BY <1>9 DEF AskPlayer, IInv, Types, SoundTypes, soundVars
<1>10. ASSUME NEW t \in Threads, CallPlayer(t)
       PROVE  SoundTypes'
  BY <1>10 DEF CallPlayer, IInv, Types, SoundTypes
<1>11. ASSUME NEW t \in Threads, Unlock(t)
       PROVE  SoundTypes'
  BY <1>11 DEF Unlock, IInv, Types, SoundTypes, soundVars, history
<1>12. ASSUME NEW t \in Faders, Mark(t)
       PROVE  SoundTypes'
  BY <1>12 DEF Mark, IInv, Types, SoundTypes, soundVars, history
<1>13. ASSUME NEW t \in Faders, LookInVain(t)
       PROVE  SoundTypes'
  BY <1>13 DEF LookInVain, IInv, Types, SoundTypes, soundVars, history
<1>14. ASSUME NEW t \in Faders, Look(t)
       PROVE  SoundTypes'
  BY <1>14 DEF Look, IInv, Types, SoundTypes, soundVars, history
<1>15. ASSUME NEW t \in Faders, FadeStep(t, "fadeDown", "keep")
       PROVE  SoundTypes'
  <2>1. fade[t].from \in Nat /\ fade[t].to \in Nat /\ fade[t].step \in 0..Steps
    BY <1>15 DEF FadeStep, IInv, Types, FadeTypes, Fades
  <2>2. volume' \in Nat
    BY <1>15, <2>1, FadeEnds DEF FadeStep
  <2> QED BY <1>15, <2>2 DEF FadeStep, IInv, Types, SoundTypes, history
<1>16. ASSUME NEW t \in Faders, FadeFails(t, "fadeDown", "idle")
       PROVE  SoundTypes'
  BY <1>16 DEF FadeFails, IInv, Types, SoundTypes, soundVars
<1>17. ASSUME NEW t \in Faders, Keep(t)
       PROVE  SoundTypes'
  BY <1>17 DEF Keep, IInv, Types, SoundTypes, soundVars, history
<1>18. ASSUME NEW t \in Faders, Unmark(t)
       PROVE  SoundTypes'
  BY <1>18 DEF Unmark, IInv, Types, SoundTypes, soundVars, history
<1>19. ASSUME NEW t \in Faders, Settle(t)
       PROVE  SoundTypes'
  BY <1>19 DEF Settle, IInv, Types, SoundTypes, soundVars, history
<1>20. ASSUME NEW t \in Faders, Compare(t)
       PROVE  SoundTypes'
  BY <1>20 DEF Compare, FadeFails, IInv, Types, SoundTypes, soundVars, history
<1>21. ASSUME NEW t \in Faders, FadeStep(t, "fadeUp", "clear")
       PROVE  SoundTypes'
  <2>1. fade[t].from \in Nat /\ fade[t].to \in Nat /\ fade[t].step \in 0..Steps
    BY <1>21 DEF FadeStep, IInv, Types, FadeTypes, Fades
  <2>2. volume' \in Nat
    BY <1>21, <2>1, FadeEnds DEF FadeStep
  <2> QED BY <1>21, <2>2 DEF FadeStep, IInv, Types, SoundTypes, history
<1>22. ASSUME NEW t \in Faders, FadeFails(t, "fadeUp", "clear")
       PROVE  SoundTypes'
  BY <1>22 DEF FadeFails, IInv, Types, SoundTypes, soundVars
<1>23. ASSUME NEW t \in Faders, Clear(t)
       PROVE  SoundTypes'
  BY <1>23 DEF Clear, IInv, Types, SoundTypes, soundVars, history
<1>24. ASSUME NEW json \in Settings, SetEarDetection(json)
       PROVE  SoundTypes'
  BY <1>24 DEF SetEarDetection, IInv, Types, SoundTypes, soundVars
<1>25. ASSUME NEW enabled \in BOOLEAN, NEW json \in Settings,
              SetConversationAwareness(enabled, json.talkVolume)
       PROVE  SoundTypes'
  BY <1>25 DEF SetConversationAwareness, IInv, Types, SoundTypes, soundVars
<1>26. ASSUME NEW v \in Volumes, UserSetsVolume(v)
       PROVE  SoundTypes'
  BY <1>26, WearingAssumption DEF UserSetsVolume, IInv, Types, SoundTypes
<1>27. ASSUME NEW p \in Players, NEW s \in {"Playing", "Paused", "Stopped"}, UserSetsPlayer(p, s)
       PROVE  SoundTypes'
  BY <1>27 DEF UserSetsPlayer, IInv, Types, SoundTypes
<1>28. ASSUME NEW profile \in BOOLEAN, NEW sink \in {"headphones", "speakers"},
              OutputChanges(profile, sink)
       PROVE  SoundTypes'
  BY <1>28 DEF OutputChanges, IInv, Types, SoundTypes
<1>29. ASSUME NEW c \in {"Play", "Pause"}, OtherHeadphones(c)
       PROVE  SoundTypes'
  BY <1>29 DEF OtherHeadphones, IInv, Types, SoundTypes, soundVars, history
<1>30. CASE UNCHANGED vars
  BY <1>30 DEF vars, IInv, Types, SoundTypes, soundVars, history
<1> QED
  BY <1>1, <1>2, <1>3, <1>4, <1>5, <1>6, <1>7, <1>8, <1>9, <1>10, <1>11, <1>12, <1>13, <1>14,
     <1>15, <1>16, <1>17, <1>18, <1>19, <1>20, <1>21, <1>22, <1>23, <1>24, <1>25, <1>26, <1>27,
     <1>28, <1>29, <1>30
    DEF Next, Packet, EarDetection, Media, StartVolumeReduction, StopVolumeReduction, Server, User

\* What is known of the ears keeps its type.
LEMMA EarStep == IInv /\ [Next]_vars => EarTypes'
<1> SUFFICES ASSUME IInv, [Next]_vars PROVE EarTypes'
  OBVIOUS
<1>1. ASSUME NEW status \in Statuses, EarState(status)
      PROVE  EarTypes'
  BY <1>1 DEF EarState, Count, IInv, Types, EarTypes
<1>2. ASSUME NEW speaking \in BOOLEAN, ConversationState(speaking)
      PROVE  EarTypes'
  BY <1>2 DEF ConversationState, Count, BeginReduction, IInv, Types, EarTypes, earVars
<1>3. CASE SwitchOutput
  BY <1>3, WearingAssumption
    DEF SwitchOutput, Goto, IInv, Types, EarTypes, Setting, soundVars, earVars, volumeVars,
        mediaVars, history
<1>4. CASE TriggerMediaControl
  BY <1>4 DEF TriggerMediaControl, IInv, Types, EarTypes, earVars, history
<1>5. CASE TriggerVolumeControl
  BY <1>5 DEF TriggerVolumeControl, BeginReduction, IInv, Types, EarTypes, Statuses
<1>6. CASE Reset
  BY <1>6, WearingAssumption
    DEF Reset, IInv, Types, EarTypes, Setting, soundVars, earVars, volumeVars, mediaVars, history
<1>7. ASSUME NEW t \in Threads, Media(t)
      PROVE  EarTypes'
  BY <1>7, MediaFrame, WearingAssumption
    DEF IInv, Types, EarTypes, Setting, ThreadTypes, AfterMedia, earVars, volumeVars
<1>8. ASSUME NEW t \in Faders, StartVolumeReduction(t) \/ StopVolumeReduction(t)
      PROVE  EarTypes'
  BY <1>8, ReductionFrame, WearingAssumption
    DEF IInv, Types, EarTypes, Setting, ThreadTypes, earVars, mediaVars
<1>9. ASSUME NEW json \in Settings, SetEarDetection(json)
      PROVE  EarTypes'
  BY <1>9, WearingAssumption DEF SetEarDetection, Count, IInv, Types, EarTypes, Setting
<1>10. ASSUME NEW enabled \in BOOLEAN, NEW json \in Settings,
              SetConversationAwareness(enabled, json.talkVolume)
       PROVE  EarTypes'
  BY <1>10, WearingAssumption
    DEF SetConversationAwareness, Count, BeginReduction, IInv, Types, EarTypes, Setting
<1>11. ASSUME NEW v \in Volumes, UserSetsVolume(v)
       PROVE  EarTypes'
  BY <1>11 DEF UserSetsVolume, Count, IInv, Types, EarTypes, earVars
<1>12. ASSUME NEW p \in Players, NEW s \in {"Playing", "Paused", "Stopped"}, UserSetsPlayer(p, s)
       PROVE  EarTypes'
  BY <1>12 DEF UserSetsPlayer, Count, IInv, Types, EarTypes, earVars
<1>13. ASSUME NEW profile \in BOOLEAN, NEW sink \in {"headphones", "speakers"},
              OutputChanges(profile, sink)
       PROVE  EarTypes'
  BY <1>13 DEF OutputChanges, Count, IInv, Types, EarTypes, earVars
<1>14. ASSUME NEW c \in {"Play", "Pause"}, OtherHeadphones(c)
       PROVE  EarTypes'
  BY <1>14 DEF OtherHeadphones, Count, IInv, Types, EarTypes, earVars, history
<1>15. CASE UNCHANGED vars
  BY <1>15 DEF vars, IInv, Types, EarTypes, earVars, history
<1> QED
  BY <1>1, <1>2, <1>3, <1>4, <1>5, <1>6, <1>7, <1>8, <1>9, <1>10, <1>11, <1>12, <1>13, <1>14,
     <1>15
    DEF Next, Packet, EarDetection, Server, User

\* The reduction keeps its type.
LEMMA ReductionStep == IInv /\ [Next]_vars => ReductionTypes'
<1> SUFFICES ASSUME IInv, [Next]_vars PROVE ReductionTypes'
  OBVIOUS
<1>1. ASSUME NEW status \in Statuses, EarState(status)
      PROVE  ReductionTypes'
  BY <1>1 DEF EarState, IInv, Types, ReductionTypes, volumeVars
<1>2. ASSUME NEW speaking \in BOOLEAN, ConversationState(speaking)
      PROVE  ReductionTypes'
  BY <1>2 DEF ConversationState, IInv, Types, ReductionTypes, volumeVars
<1>3. CASE SwitchOutput
  BY <1>3 DEF SwitchOutput, IInv, Types, ReductionTypes, volumeVars
<1>4. CASE TriggerMediaControl
  BY <1>4 DEF TriggerMediaControl, IInv, Types, ReductionTypes, volumeVars
<1>5. CASE TriggerVolumeControl
  BY <1>5 DEF TriggerVolumeControl, IInv, Types, ReductionTypes, volumeVars
<1>6. CASE Reset
  BY <1>6 DEF Reset, IInv, Types, ReductionTypes, volumeVars
<1>7. ASSUME NEW t \in Threads, Media(t)
      PROVE  ReductionTypes'
  BY <1>7, MediaFrame DEF IInv, Types, ReductionTypes, volumeVars
<1>8. ASSUME NEW t \in Faders, Mark(t)
      PROVE  ReductionTypes'
  BY <1>8 DEF Mark, Goto, IInv, Types, ReductionTypes, FadeTypes
<1>9. ASSUME NEW t \in Faders, LookInVain(t)
      PROVE  ReductionTypes'
  BY <1>9 DEF LookInVain, IInv, Types, ReductionTypes, volumeVars
<1>10. ASSUME NEW t \in Faders, Look(t)
       PROVE  ReductionTypes'
  BY <1>10 DEF Look, IInv, Types, ReductionTypes, volumeVars
<1>11. ASSUME NEW t \in Faders, FadeStep(t, "fadeDown", "keep")
       PROVE  ReductionTypes'
  BY <1>11 DEF FadeStep, IInv, Types, ReductionTypes, volumeVars
<1>12. ASSUME NEW t \in Faders, FadeFails(t, "fadeDown", "idle")
       PROVE  ReductionTypes'
  BY <1>12 DEF FadeFails, IInv, Types, ReductionTypes, volumeVars
<1>13. ASSUME NEW t \in Faders, Keep(t)
       PROVE  ReductionTypes'
  BY <1>13 DEF Keep, IInv, Types, ReductionTypes, FadeTypes, Fades
<1>14. ASSUME NEW t \in Faders, Unmark(t)
       PROVE  ReductionTypes'
  BY <1>14 DEF Unmark, IInv, Types, ReductionTypes
<1>15. ASSUME NEW t \in Faders, Settle(t)
       PROVE  ReductionTypes'
  BY <1>15 DEF Settle, IInv, Types, ReductionTypes, volumeVars
<1>16. ASSUME NEW t \in Faders, Compare(t)
       PROVE  ReductionTypes'
  BY <1>16 DEF Compare, FadeFails, IInv, Types, ReductionTypes, volumeVars
<1>17. ASSUME NEW t \in Faders, FadeStep(t, "fadeUp", "clear")
       PROVE  ReductionTypes'
  BY <1>17 DEF FadeStep, IInv, Types, ReductionTypes, volumeVars
<1>18. ASSUME NEW t \in Faders, FadeFails(t, "fadeUp", "clear")
       PROVE  ReductionTypes'
  BY <1>18 DEF FadeFails, IInv, Types, ReductionTypes, volumeVars
<1>19. ASSUME NEW t \in Faders, Clear(t)
       PROVE  ReductionTypes'
  BY <1>19
    DEF Clear, Goto, IInv, Types, ReductionTypes, FadeTypes, Fades, soundVars, earVars,
        volumeVars, mediaVars, history
<1>20. ASSUME NEW json \in Settings, SetEarDetection(json)
       PROVE  ReductionTypes'
  BY <1>20 DEF SetEarDetection, IInv, Types, ReductionTypes, volumeVars
<1>21. ASSUME NEW enabled \in BOOLEAN, NEW json \in Settings,
              SetConversationAwareness(enabled, json.talkVolume)
       PROVE  ReductionTypes'
  BY <1>21 DEF SetConversationAwareness, IInv, Types, ReductionTypes, volumeVars
<1>22. ASSUME NEW v \in Volumes, UserSetsVolume(v)
       PROVE  ReductionTypes'
  BY <1>22 DEF UserSetsVolume, IInv, Types, ReductionTypes, volumeVars
<1>23. ASSUME NEW p \in Players, NEW s \in {"Playing", "Paused", "Stopped"}, UserSetsPlayer(p, s)
       PROVE  ReductionTypes'
  BY <1>23 DEF UserSetsPlayer, IInv, Types, ReductionTypes, volumeVars
<1>24. ASSUME NEW profile \in BOOLEAN, NEW sink \in {"headphones", "speakers"},
              OutputChanges(profile, sink)
       PROVE  ReductionTypes'
  BY <1>24 DEF OutputChanges, IInv, Types, ReductionTypes, volumeVars
<1>25. ASSUME NEW c \in {"Play", "Pause"}, OtherHeadphones(c)
       PROVE  ReductionTypes'
  BY <1>25 DEF OtherHeadphones, IInv, Types, ReductionTypes, volumeVars
<1>26. CASE UNCHANGED vars
  BY <1>26 DEF vars, IInv, Types, ReductionTypes, volumeVars
<1> QED
  BY <1>1, <1>2, <1>3, <1>4, <1>5, <1>6, <1>7, <1>8, <1>9, <1>10, <1>11, <1>12, <1>13, <1>14,
     <1>15, <1>16, <1>17, <1>18, <1>19, <1>20, <1>21, <1>22, <1>23, <1>24, <1>25, <1>26
    DEF Next, Packet, EarDetection, StartVolumeReduction, StopVolumeReduction, Server, User

\* A fade that begins is a fade.
LEMMA NewFade ==
    ASSUME FadeTypes, NEW t \in Faders, NEW reason \in Reasons, NEW percent \in 0..100,
           BeginReduction(t, reason, percent)
    PROVE  fade' \in [Faders -> Fades] /\ fade'[t].reason \in Reasons
           /\ \A u \in Faders \ {t} : fade'[u] = fade[u]
<1> DEFINE new == [NoFade EXCEPT !.reason = reason, !.percent = percent]
<1>1. new \in Fades /\ new.reason = reason
  BY DEF NoFade, Fades, Reasons
<1>2. fade' = [fade EXCEPT ![t] = new]
  BY DEF BeginReduction
<1> HIDE DEF new
<1> QED BY <1>1, <1>2 DEF FadeTypes

\* A fade keeps its type.
LEMMA FadeStepTypes == IInv /\ [Next]_vars => FadeTypes'
<1> SUFFICES ASSUME IInv, [Next]_vars PROVE FadeTypes'
  OBVIOUS
<1>1. ASSUME NEW status \in Statuses, EarState(status)
      PROVE  FadeTypes'
  BY <1>1 DEF EarState, Goto, IInv, Types, FadeTypes
<1>2. ASSUME NEW speaking \in BOOLEAN, ConversationState(speaking)
      PROVE  FadeTypes'
  <2>1. settings.talkVolume \in 0..100
    BY DEF IInv, Types, EarTypes, Setting
  <2>2. /\ fade' \in [Faders -> Fades] /\ fade'["reader"].reason \in Reasons
        /\ fade'["server"] = fade["server"]
    BY <1>2, <2>1, NewFade DEF ConversationState, IInv, Types, Faders, Reasons
  <2>3. pc' = [pc EXCEPT !["reader"] = IF speaking THEN "mark" ELSE "unmark"]
    BY <1>2 DEF ConversationState, Goto
  <2> QED BY <2>2, <2>3 DEF IInv, Types, FadeTypes, ThreadTypes, Faders, Threads
<1>3. CASE SwitchOutput
  BY <1>3 DEF SwitchOutput, Goto, IInv, Types, FadeTypes
<1>4. CASE TriggerMediaControl
  BY <1>4 DEF TriggerMediaControl, Goto, IInv, Types, FadeTypes
<1>5. CASE TriggerVolumeControl
  <2>1. settings.lowerVolume \in 0..100
    BY DEF IInv, Types, EarTypes, Setting
  <2>2. /\ fade' \in [Faders -> Fades] /\ fade'["reader"].reason \in Reasons
        /\ fade'["server"] = fade["server"]
    BY <1>5, <2>1, NewFade DEF TriggerVolumeControl, IInv, Types, Faders, Reasons
  <2>3. /\ pc' = [pc EXCEPT !["reader"] = VolumeCall(previousStatus, option)]
        /\ VolumeCall(previousStatus, option) \in {"mark", "unmark", "idle"}
    BY <1>5 DEF TriggerVolumeControl, Goto, VolumeCall
  <2> QED BY <2>2, <2>3 DEF IInv, Types, FadeTypes, ThreadTypes, Faders, Threads
<1>6. CASE Reset
  BY <1>6 DEF Reset, IInv, Types, FadeTypes
<1>7. ASSUME NEW t \in Threads, Media(t)
      PROVE  FadeTypes'
  BY <1>7, MediaFrame DEF IInv, Types, Threads, MediaPcs, FadeTypes, ThreadTypes, AfterMedia
<1>8. ASSUME NEW t \in Faders, Mark(t)
      PROVE  FadeTypes'
  BY <1>8 DEF Mark, Goto, IInv, Types, FadeTypes
<1>9. ASSUME NEW t \in Faders, LookInVain(t)
      PROVE  FadeTypes'
  BY <1>9 DEF LookInVain, Goto, IInv, Types, FadeTypes
<1>10. ASSUME NEW t \in Faders, Look(t)
       PROVE  FadeTypes'
  <2>1. volume \in Nat /\ fade[t].percent \in 0..100
    BY DEF IInv, Types, SoundTypes, FadeTypes, Fades
  <2> DEFINE to == (volume * (100 - fade[t].percent)) \div 100
  <2>2. to \in Nat
    BY <2>1, Percentage
  <2>3. fade' = [fade EXCEPT ![t].from = volume, ![t].to = to, ![t].step = 1]
    BY <1>10 DEF Look
  <2>4. pc' = [pc EXCEPT ![t] = "fadeDown"]
    BY <1>10 DEF Look, Goto
  <2> HIDE DEF to
  <2> QED BY <2>1, <2>2, <2>3, <2>4, WearingAssumption
          DEF IInv, Types, FadeTypes, Fades, ThreadTypes, Faders, Threads
<1>11. ASSUME NEW t \in Faders, FadeStep(t, "fadeDown", "keep")
       PROVE  FadeTypes'
  BY <1>11, WearingAssumption DEF FadeStep, IInv, Types, Threads, FadeTypes, ThreadTypes, Fades
<1>12. ASSUME NEW t \in Faders, FadeFails(t, "fadeDown", "idle")
       PROVE  FadeTypes'
  BY <1>12 DEF FadeFails, Goto, IInv, Types, FadeTypes
<1>13. ASSUME NEW t \in Faders, Keep(t)
       PROVE  FadeTypes'
  BY <1>13 DEF Keep, Goto, IInv, Types, FadeTypes, NoFade, Fades
<1>14. ASSUME NEW t \in Faders, Unmark(t)
       PROVE  FadeTypes'
  BY <1>14 DEF Unmark, Goto, IInv, Types, FadeTypes
<1>15. ASSUME NEW t \in Faders, Settle(t)
       PROVE  FadeTypes'
  BY <1>15 DEF Settle, Goto, IInv, Types, FadeTypes
<1>16. ASSUME NEW t \in Faders, Compare(t)
       PROVE  FadeTypes'
  <2>1. CASE Goto(t, "compare", "fadeUp")
             /\ fade' = [fade EXCEPT ![t].from = volume, ![t].to = savedVolume, ![t].step = 1]
    BY <2>1, WearingAssumption
      DEF Goto, IInv, Types, FadeTypes, Fades, ThreadTypes, Faders, Threads, SoundTypes,
          ReductionTypes
  <2>2. CASE Goto(t, "compare", "clear") /\ UNCHANGED fade
    BY <2>2 DEF Goto, IInv, Types, FadeTypes
  <2> QED BY <1>16, <2>1, <2>2 DEF Compare, FadeFails
<1>17. ASSUME NEW t \in Faders, FadeStep(t, "fadeUp", "clear")
       PROVE  FadeTypes'
  BY <1>17, WearingAssumption DEF FadeStep, IInv, Types, Threads, FadeTypes, ThreadTypes, Fades
<1>18. ASSUME NEW t \in Faders, FadeFails(t, "fadeUp", "clear")
       PROVE  FadeTypes'
  BY <1>18 DEF FadeFails, Goto, IInv, Types, FadeTypes
<1>19. ASSUME NEW t \in Faders, Clear(t)
       PROVE  FadeTypes'
  BY <1>19 DEF Clear, Goto, IInv, Types, FadeTypes, NoFade, Fades
<1>20. ASSUME NEW json \in Settings, SetEarDetection(json)
       PROVE  FadeTypes'
  BY <1>20 DEF SetEarDetection, IInv, Types, FadeTypes
<1>21. ASSUME NEW enabled \in BOOLEAN, NEW json \in Settings,
              SetConversationAwareness(enabled, json.talkVolume)
       PROVE  FadeTypes'
  <2>1. json.talkVolume \in 0..100
    BY WearingAssumption
  <2>2. CASE enabled
    BY <1>21, <2>2 DEF SetConversationAwareness, Goto, IInv, Types, FadeTypes
  <2>3. CASE ~enabled
    <3>1. /\ fade' \in [Faders -> Fades] /\ fade'["server"].reason \in Reasons
          /\ fade'["reader"] = fade["reader"]
      <4>1. BeginReduction("server", "ConversationAwareness", 0)
        BY <1>21, <2>3, Zenon DEF SetConversationAwareness
      <4>2. FadeTypes /\ "server" \in Faders /\ "ConversationAwareness" \in Reasons /\ 0 \in 0..100
        BY DEF IInv, Types, Faders, Reasons
      <4>3. "reader" \in Faders \ {"server"}
        BY DEF Faders
      <4> QED
        BY <4>1, <4>2, <4>3, NewFade, Zenon
    <3>2. pc' = [pc EXCEPT !["server"] = "unmark"]
      BY <1>21, <2>3 DEF SetConversationAwareness, Goto
    <3> QED BY <3>1, <3>2 DEF IInv, Types, FadeTypes, ThreadTypes, Faders, Threads
  <2> QED BY <2>2, <2>3
<1>22. ASSUME NEW v \in Volumes, UserSetsVolume(v)
       PROVE  FadeTypes'
  BY <1>22 DEF UserSetsVolume, IInv, Types, FadeTypes
<1>23. ASSUME NEW p \in Players, NEW s \in {"Playing", "Paused", "Stopped"}, UserSetsPlayer(p, s)
       PROVE  FadeTypes'
  BY <1>23 DEF UserSetsPlayer, IInv, Types, FadeTypes
<1>24. ASSUME NEW profile \in BOOLEAN, NEW sink \in {"headphones", "speakers"},
              OutputChanges(profile, sink)
       PROVE  FadeTypes'
  BY <1>24 DEF OutputChanges, IInv, Types, FadeTypes
<1>25. ASSUME NEW c \in {"Play", "Pause"}, OtherHeadphones(c)
       PROVE  FadeTypes'
  BY <1>25 DEF OtherHeadphones, Goto, IInv, Types, FadeTypes
<1>26. CASE UNCHANGED vars
  BY <1>26 DEF vars, IInv, Types, FadeTypes
<1> QED
  BY <1>1, <1>2, <1>3, <1>4, <1>5, <1>6, <1>7, <1>8, <1>9, <1>10, <1>11, <1>12, <1>13, <1>14,
     <1>15, <1>16, <1>17, <1>18, <1>19, <1>20, <1>21, <1>22, <1>23, <1>24, <1>25, <1>26
    DEF Next, Packet, EarDetection, StartVolumeReduction, StopVolumeReduction, Server, User

\* Every thread keeps to its places.
LEMMA ThreadStep == IInv /\ [Next]_vars => ThreadTypes'
<1> SUFFICES ASSUME IInv, [Next]_vars PROVE ThreadTypes'
  OBVIOUS
<1>1. ASSUME NEW status \in Statuses, EarState(status)
      PROVE  ThreadTypes'
  BY <1>1 DEF EarState, Goto, IInv, Types, Threads, Faders, ThreadTypes, ReaderPcs
<1>2. ASSUME NEW speaking \in BOOLEAN, ConversationState(speaking)
      PROVE  ThreadTypes'
  BY <1>2
    DEF ConversationState, Goto, IInv, Types, Threads, Faders, ReducingPcs, ThreadTypes, ReaderPcs
<1>3. CASE SwitchOutput
  BY <1>3 DEF SwitchOutput, Goto, IInv, Types, Threads, Faders, ThreadTypes, ReaderPcs
<1>4. CASE TriggerMediaControl
  BY <1>4
    DEF TriggerMediaControl, Goto, IInv, Types, Threads, Faders, MediaPcs, ThreadTypes, ReaderPcs
<1>5. CASE TriggerVolumeControl
  BY <1>5
    DEF TriggerVolumeControl, Goto, VolumeCall, IInv, Types, Threads, Faders, ReducingPcs,
        ThreadTypes, ReaderPcs
<1>6. CASE Reset
  BY <1>6 DEF Reset, IInv, Types, ThreadTypes
<1>7. ASSUME NEW t \in Threads, Media(t)
      PROVE  ThreadTypes'
  BY <1>7, MediaFrame
    DEF IInv, Types, Threads, Faders, ReducingPcs, MediaPcs, ThreadTypes, ReaderPcs, AfterMedia
<1>8. ASSUME NEW t \in Faders, StartVolumeReduction(t) \/ StopVolumeReduction(t)
      PROVE  ThreadTypes'
  BY <1>8, ReductionFrame DEF IInv, Types, Threads, Faders, ThreadTypes, ReaderPcs
<1>9. ASSUME NEW json \in Settings, SetEarDetection(json)
      PROVE  ThreadTypes'
  BY <1>9 DEF SetEarDetection, IInv, Types, ThreadTypes
<1>10. ASSUME NEW enabled \in BOOLEAN, NEW json \in Settings,
              SetConversationAwareness(enabled, json.talkVolume)
       PROVE  ThreadTypes'
  BY <1>10
    DEF SetConversationAwareness, Goto, IInv, Types, Threads, Faders, ReducingPcs, ThreadTypes,
        ReaderPcs
<1>11. ASSUME NEW v \in Volumes, UserSetsVolume(v)
       PROVE  ThreadTypes'
  BY <1>11 DEF UserSetsVolume, IInv, Types, ThreadTypes
<1>12. ASSUME NEW p \in Players, NEW s \in {"Playing", "Paused", "Stopped"}, UserSetsPlayer(p, s)
       PROVE  ThreadTypes'
  BY <1>12 DEF UserSetsPlayer, IInv, Types, ThreadTypes
<1>13. ASSUME NEW profile \in BOOLEAN, NEW sink \in {"headphones", "speakers"},
              OutputChanges(profile, sink)
       PROVE  ThreadTypes'
  BY <1>13 DEF OutputChanges, IInv, Types, ThreadTypes
<1>14. ASSUME NEW c \in {"Play", "Pause"}, OtherHeadphones(c)
       PROVE  ThreadTypes'
  BY <1>14 DEF OtherHeadphones, Goto, IInv, Types, Threads, MediaPcs, ThreadTypes, ReaderPcs
<1>15. CASE UNCHANGED vars
  BY <1>15 DEF vars, IInv, Types, ThreadTypes
<1> QED
  BY <1>1, <1>2, <1>3, <1>4, <1>5, <1>6, <1>7, <1>8, <1>9, <1>10, <1>11, <1>12, <1>13, <1>14,
     <1>15
    DEF Next, Packet, EarDetection, Server, User

\* The calls to the players keep their type.
LEMMA MediaStep == IInv /\ [Next]_vars => MediaTypes'
<1> SUFFICES ASSUME IInv, [Next]_vars PROVE MediaTypes'
  OBVIOUS
<1>1. ASSUME NEW status \in Statuses, EarState(status)
      PROVE  MediaTypes'
  BY <1>1 DEF EarState, Goto, IInv, Types, MediaPcs, MediaTypes, mediaVars
<1>2. ASSUME NEW speaking \in BOOLEAN, ConversationState(speaking)
      PROVE  MediaTypes'
  BY <1>2 DEF ConversationState, Goto, IInv, Types, MediaPcs, MediaTypes, mediaVars
<1>3. CASE SwitchOutput
  BY <1>3 DEF SwitchOutput, Goto, IInv, Types, MediaPcs, MediaTypes, mediaVars
<1>4. CASE TriggerMediaControl
  <2> DEFINE call == IF settings.pauseMedia THEN MediaCall(previousStatus, option) ELSE "none"
  <2>1. call \in {"none", "Play", "Pause"}
    BY DEF MediaCall
  <2>2. media' = [media EXCEPT !["reader"] = [NoMedia EXCEPT !.call = call]]
    BY <1>4 DEF TriggerMediaControl
  <2>5. [NoMedia EXCEPT !.call = call] = [call |-> call, todo |-> {}, now |-> {}]
    BY DEF NoMedia
  <2>3. pc' = [pc EXCEPT !["reader"] = IF call = "none" THEN "volume" ELSE "lock"]
    BY <1>4 DEF TriggerMediaControl, Goto
  <2>4. UNCHANGED pausedPlayers
    BY <1>4 DEF TriggerMediaControl
  <2> HIDE DEF call
  <2> QED BY <2>1, <2>2, <2>3, <2>4, <2>5
          DEF IInv, Types, MediaTypes, ThreadTypes, Threads, Faders, MediaPcs
<1>5. CASE TriggerVolumeControl
  BY <1>5 DEF TriggerVolumeControl, Goto, VolumeCall, IInv, Types, MediaPcs, MediaTypes, mediaVars
<1>6. CASE Reset
  BY <1>6 DEF Reset, IInv, Types, MediaTypes, mediaVars
<1>7. ASSUME NEW t \in Threads, Lock(t)
      PROVE  MediaTypes'
  BY <1>7 DEF Lock, Goto, IInv, Types, MediaPcs, MediaTypes
<1>8. ASSUME NEW t \in Threads, NoSessionBus(t)
      PROVE  MediaTypes'
  BY <1>8
    DEF NoSessionBus, Goto, AfterMedia, IInv, Types, MediaPcs, MediaTypes, ThreadTypes, NoMedia
<1>9. ASSUME NEW t \in Threads, AskPlayer(t)
      PROVE  MediaTypes'
  BY <1>9 DEF AskPlayer, IInv, Types, MediaPcs, MediaTypes, ThreadTypes
<1>10. ASSUME NEW t \in Threads, CallPlayer(t)
       PROVE  MediaTypes'
  BY <1>10 DEF CallPlayer, Goto, IInv, Types, MediaPcs, MediaTypes
<1>11. ASSUME NEW t \in Threads, Unlock(t)
       PROVE  MediaTypes'
  BY <1>11 DEF Unlock, Goto, AfterMedia, IInv, Types, MediaPcs, MediaTypes, ThreadTypes, NoMedia
<1>12. ASSUME NEW t \in Faders, StartVolumeReduction(t) \/ StopVolumeReduction(t)
       PROVE  MediaTypes'
  BY <1>12, ReductionFrame
    DEF IInv, Types, ReducingPcs, MediaPcs, MediaTypes, ThreadTypes, mediaVars
<1>13. ASSUME NEW json \in Settings, SetEarDetection(json)
       PROVE  MediaTypes'
  BY <1>13 DEF SetEarDetection, IInv, Types, MediaTypes, mediaVars
<1>14. ASSUME NEW enabled \in BOOLEAN, NEW json \in Settings,
              SetConversationAwareness(enabled, json.talkVolume)
       PROVE  MediaTypes'
  BY <1>14 DEF SetConversationAwareness, Goto, IInv, Types, MediaPcs, MediaTypes, mediaVars
<1>15. ASSUME NEW v \in Volumes, UserSetsVolume(v)
       PROVE  MediaTypes'
  BY <1>15 DEF UserSetsVolume, IInv, Types, MediaTypes, mediaVars
<1>16. ASSUME NEW p \in Players, NEW s \in {"Playing", "Paused", "Stopped"}, UserSetsPlayer(p, s)
       PROVE  MediaTypes'
  BY <1>16 DEF UserSetsPlayer, IInv, Types, MediaTypes, mediaVars
<1>17. ASSUME NEW profile \in BOOLEAN, NEW sink \in {"headphones", "speakers"},
              OutputChanges(profile, sink)
       PROVE  MediaTypes'
  BY <1>17 DEF OutputChanges, IInv, Types, MediaTypes, mediaVars
<1>18. ASSUME NEW c \in {"Play", "Pause"}, OtherHeadphones(c)
       PROVE  MediaTypes'
  BY <1>18 DEF OtherHeadphones, Goto, IInv, Types, Threads, MediaTypes, NoMedia
<1>19. CASE UNCHANGED vars
  BY <1>19 DEF vars, IInv, Types, MediaTypes, mediaVars
<1> QED
  BY <1>1, <1>2, <1>3, <1>4, <1>5, <1>6, <1>7, <1>8, <1>9, <1>10, <1>11, <1>12, <1>13, <1>14,
     <1>15, <1>16, <1>17, <1>18, <1>19
    DEF Next, Packet, EarDetection, Media, Server, User

\* The mutex belongs to the thread at the players.
LEMMA MutexStep == IInv /\ [Next]_vars => MutexInv'
<1> SUFFICES ASSUME IInv, [Next]_vars PROVE MutexInv'
  OBVIOUS
<1>1. ASSUME NEW status \in Statuses, EarState(status)
      PROVE  MutexInv'
  BY <1>1 DEF EarState, Goto, IInv, MutexInv, mediaVars
<1>2. ASSUME NEW speaking \in BOOLEAN, ConversationState(speaking)
      PROVE  MutexInv'
  BY <1>2 DEF ConversationState, Goto, IInv, MutexInv, mediaVars
<1>3. CASE SwitchOutput
  BY <1>3 DEF SwitchOutput, Goto, IInv, MutexInv, mediaVars
<1>4. CASE TriggerMediaControl
  BY <1>4 DEF TriggerMediaControl, Goto, IInv, MutexInv
<1>5. CASE TriggerVolumeControl
  BY <1>5 DEF TriggerVolumeControl, Goto, VolumeCall, IInv, MutexInv, mediaVars
<1>6. CASE Reset
  BY <1>6 DEF Reset, IInv, MutexInv, mediaVars
<1>7. ASSUME NEW t \in Threads, Lock(t)
      PROVE  MutexInv'
  BY <1>7 DEF Lock, Goto, IInv, Types, Threads, Faders, MutexInv, ThreadTypes
<1>8. ASSUME NEW t \in Threads, NoSessionBus(t)
      PROVE  MutexInv'
  BY <1>8 DEF NoSessionBus, Goto, AfterMedia, IInv, MutexInv
<1>9. ASSUME NEW t \in Threads, AskPlayer(t)
      PROVE  MutexInv'
  BY <1>9 DEF AskPlayer, IInv, Types, MutexInv, ThreadTypes
<1>10. ASSUME NEW t \in Threads, CallPlayer(t)
       PROVE  MutexInv'
  BY <1>10 DEF CallPlayer, Goto, IInv, MutexInv
<1>11. ASSUME NEW t \in Threads, Unlock(t)
       PROVE  MutexInv'
  BY <1>11 DEF Unlock, Goto, AfterMedia, IInv, Types, Threads, Faders, MutexInv, ThreadTypes
<1>12. ASSUME NEW t \in Faders, StartVolumeReduction(t) \/ StopVolumeReduction(t)
       PROVE  MutexInv'
  BY <1>12, ReductionFrame DEF IInv, Types, ReducingPcs, MutexInv, ThreadTypes, mediaVars
<1>13. ASSUME NEW json \in Settings, SetEarDetection(json)
       PROVE  MutexInv'
  BY <1>13 DEF SetEarDetection, IInv, MutexInv, mediaVars
<1>14. ASSUME NEW enabled \in BOOLEAN, NEW json \in Settings,
              SetConversationAwareness(enabled, json.talkVolume)
       PROVE  MutexInv'
  BY <1>14 DEF SetConversationAwareness, Goto, IInv, MutexInv, mediaVars
<1>15. ASSUME NEW v \in Volumes, UserSetsVolume(v)
       PROVE  MutexInv'
  BY <1>15 DEF UserSetsVolume, IInv, MutexInv, mediaVars
<1>16. ASSUME NEW p \in Players, NEW s \in {"Playing", "Paused", "Stopped"}, UserSetsPlayer(p, s)
       PROVE  MutexInv'
  BY <1>16 DEF UserSetsPlayer, IInv, MutexInv, mediaVars
<1>17. ASSUME NEW profile \in BOOLEAN, NEW sink \in {"headphones", "speakers"},
              OutputChanges(profile, sink)
       PROVE  MutexInv'
  BY <1>17 DEF OutputChanges, IInv, MutexInv, mediaVars
<1>18. ASSUME NEW c \in {"Play", "Pause"}, OtherHeadphones(c)
       PROVE  MutexInv'
  BY <1>18 DEF OtherHeadphones, Goto, IInv, MutexInv
<1>19. CASE UNCHANGED vars
  BY <1>19 DEF vars, IInv, MutexInv, mediaVars
<1> QED
  BY <1>1, <1>2, <1>3, <1>4, <1>5, <1>6, <1>7, <1>8, <1>9, <1>10, <1>11, <1>12, <1>13, <1>14,
     <1>15, <1>16, <1>17, <1>18, <1>19
    DEF Next, Packet, EarDetection, Media, Server, User

\* The output follows the ears.
LEMMA OutputStep == IInv /\ [Next]_vars => OutputInv'
<1> SUFFICES ASSUME IInv, [Next]_vars PROVE OutputInv'
  OBVIOUS
<1>1. ASSUME NEW status \in Statuses, EarState(status)
      PROVE  OutputInv'
  BY <1>1 DEF EarState, Goto, IInv, Types, Threads, Faders, OutputInv, ThreadTypes
<1>2. ASSUME NEW speaking \in BOOLEAN, ConversationState(speaking)
      PROVE  OutputInv'
  BY <1>2 DEF ConversationState, Goto, BeginReduction, IInv, OutputInv, soundVars, earVars
<1>3. CASE SwitchOutput
  BY <1>3 DEF SwitchOutput, OutputInv, earVars
<1>4. CASE TriggerMediaControl
  BY <1>4 DEF TriggerMediaControl, Goto, IInv, OutputInv, soundVars, earVars, history
<1>5. CASE TriggerVolumeControl
  BY <1>5 DEF TriggerVolumeControl, Goto, BeginReduction, IInv, OutputInv, soundVars
<1>6. CASE Reset
  BY <1>6 DEF Reset, IInv, OutputInv, soundVars, history
<1>7. ASSUME NEW t \in Threads, Media(t)
      PROVE  OutputInv'
  BY <1>7, MediaFrame
    DEF IInv, Types, Threads, Faders, ReducingPcs, MediaPcs, OutputInv, ThreadTypes, EarTypes,
        Setting, AfterMedia, earVars, volumeVars
<1>8. ASSUME NEW t \in Faders, StartVolumeReduction(t) \/ StopVolumeReduction(t)
      PROVE  OutputInv'
  BY <1>8, ReductionFrame
    DEF IInv, Types, Threads, Faders, ReducingPcs, MediaPcs, OutputInv, ThreadTypes, EarTypes,
        Setting, earVars, mediaVars
<1>9. ASSUME NEW json \in Settings, SetEarDetection(json)
      PROVE  OutputInv'
  BY <1>9 DEF SetEarDetection, OutputInv
<1>10. ASSUME NEW enabled \in BOOLEAN, NEW json \in Settings,
              SetConversationAwareness(enabled, json.talkVolume)
       PROVE  OutputInv'
  BY <1>10 DEF SetConversationAwareness, Goto, BeginReduction, IInv, OutputInv, soundVars
<1>11. ASSUME NEW v \in Volumes, UserSetsVolume(v)
       PROVE  OutputInv'
  BY <1>11 DEF UserSetsVolume, IInv, OutputInv, earVars
<1>12. ASSUME NEW p \in Players, NEW s \in {"Playing", "Paused", "Stopped"}, UserSetsPlayer(p, s)
       PROVE  OutputInv'
  BY <1>12 DEF UserSetsPlayer, IInv, OutputInv, earVars
<1>13. ASSUME NEW profile \in BOOLEAN, NEW sink \in {"headphones", "speakers"},
              OutputChanges(profile, sink)
       PROVE  OutputInv'
  BY <1>13 DEF OutputChanges, OutputInv
<1>14. ASSUME NEW c \in {"Play", "Pause"}, OtherHeadphones(c)
       PROVE  OutputInv'
  BY <1>14 DEF OtherHeadphones, Goto, IInv, OutputInv, soundVars, earVars, history
<1>15. CASE UNCHANGED vars
  BY <1>15 DEF vars, IInv, OutputInv, soundVars, earVars, history
<1> QED
  BY <1>1, <1>2, <1>3, <1>4, <1>5, <1>6, <1>7, <1>8, <1>9, <1>10, <1>11, <1>12, <1>13, <1>14,
     <1>15
    DEF Next, Packet, EarDetection, Server, User

\* A player that plays is still to be paused.
LEMMA PauseStep == IInv /\ [Next]_vars => PauseInv'
<1> SUFFICES ASSUME IInv, [Next]_vars PROVE PauseInv'
  OBVIOUS
<1>1. ASSUME NEW status \in Statuses, EarState(status)
      PROVE  PauseInv'
  BY <1>1 DEF EarState, Goto, IInv, Types, Threads, Faders, MediaPcs, PauseInv, ThreadTypes
<1>2. ASSUME NEW speaking \in BOOLEAN, ConversationState(speaking)
      PROVE  PauseInv'
  BY <1>2
    DEF ConversationState, Goto, BeginReduction, IInv, MediaPcs, PauseInv, soundVars, earVars
<1>3. CASE SwitchOutput
  BY <1>3 DEF SwitchOutput, Goto, MediaPcs, PauseInv
<1>4. CASE TriggerMediaControl
  <2> SUFFICES ASSUME option = "NotWorn", settings.pauseMedia PROVE PauseInv'
    BY <1>4 DEF TriggerMediaControl, earVars, PauseInv
  <2>1. MediaCall(previousStatus, option) = "Pause"
    BY DEF MediaCall
  <2>2. media'["reader"].call = "Pause" /\ pc'["reader"] = "lock"
    BY <1>4, <2>1
      DEF TriggerMediaControl, Goto, IInv, Types, MediaTypes, ThreadTypes, Threads, Faders
  <2> QED BY <2>2 DEF PauseInv, MediaPcs
<1>5. CASE TriggerVolumeControl
  BY <1>5
    DEF TriggerVolumeControl, Goto, BeginReduction, VolumeCall, IInv, MediaPcs, PauseInv,
        soundVars
<1>6. CASE Reset
  BY <1>6 DEF Reset, IInv, PauseInv, soundVars, mediaVars, history
<1>7. ASSUME NEW t \in Threads, Lock(t)
      PROVE  PauseInv'
  BY <1>7 DEF Lock, Goto, IInv, Types, MediaPcs, PauseInv, MediaTypes, soundVars, earVars, history
<1>8. ASSUME NEW t \in Threads, NoSessionBus(t)
      PROVE  PauseInv'
  BY <1>8 DEF NoSessionBus, PauseInv
<1>9. ASSUME NEW t \in Threads, AskPlayer(t)
      PROVE  PauseInv'
  BY <1>9 DEF AskPlayer, IInv, Types, Threads, Faders, PauseInv, MediaTypes, soundVars, earVars
<1>10. ASSUME NEW t \in Threads, CallPlayer(t)
       PROVE  PauseInv'
  BY <1>10
    DEF CallPlayer, Goto, IInv, Types, Threads, Faders, ReducingPcs, MediaPcs, PauseInv,
        MediaTypes, ThreadTypes, SoundTypes, earVars
<1>11. ASSUME NEW t \in Threads, Unlock(t)
       PROVE  PauseInv'
  BY <1>11
    DEF Unlock, Goto, AfterMedia, IInv, Types, MediaPcs, PauseInv, MediaTypes, ThreadTypes,
        soundVars, earVars, history
<1>12. ASSUME NEW t \in Faders, StartVolumeReduction(t) \/ StopVolumeReduction(t)
       PROVE  PauseInv'
  BY <1>12, ReductionFrame
    DEF IInv, Types, Threads, Faders, ReducingPcs, MediaPcs, PauseInv, ThreadTypes, earVars,
        mediaVars
<1>13. ASSUME NEW json \in Settings, SetEarDetection(json)
       PROVE  PauseInv'
  BY <1>13 DEF SetEarDetection, PauseInv
<1>14. ASSUME NEW enabled \in BOOLEAN, NEW json \in Settings,
              SetConversationAwareness(enabled, json.talkVolume)
       PROVE  PauseInv'
  BY <1>14
    DEF SetConversationAwareness, Goto, BeginReduction, IInv, PauseInv, soundVars, mediaVars
<1>15. ASSUME NEW v \in Volumes, UserSetsVolume(v)
       PROVE  PauseInv'
  BY <1>15 DEF UserSetsVolume, IInv, PauseInv, earVars, mediaVars
<1>16. ASSUME NEW p \in Players, NEW s \in {"Playing", "Paused", "Stopped"}, UserSetsPlayer(p, s)
       PROVE  PauseInv'
  BY <1>16 DEF UserSetsPlayer, PauseInv
<1>17. ASSUME NEW profile \in BOOLEAN, NEW sink \in {"headphones", "speakers"},
              OutputChanges(profile, sink)
       PROVE  PauseInv'
  BY <1>17 DEF OutputChanges, IInv, PauseInv, earVars, mediaVars
<1>18. ASSUME NEW c \in {"Play", "Pause"}, OtherHeadphones(c)
       PROVE  PauseInv'
  BY <1>18 DEF OtherHeadphones, Goto, IInv, PauseInv, soundVars, earVars, history
<1>19. CASE UNCHANGED vars
  BY <1>19 DEF vars, IInv, PauseInv, soundVars, earVars, mediaVars, history
<1> QED
  BY <1>1, <1>2, <1>3, <1>4, <1>5, <1>6, <1>7, <1>8, <1>9, <1>10, <1>11, <1>12, <1>13, <1>14,
     <1>15, <1>16, <1>17, <1>18, <1>19
    DEF Next, Packet, EarDetection, Media, Server, User

\* A player that is paused is remembered.
LEMMA RememberStep == IInv /\ [Next]_vars => RememberInv'
<1> SUFFICES ASSUME IInv, [Next]_vars PROVE RememberInv'
  OBVIOUS
<1>1. ASSUME NEW status \in Statuses, EarState(status)
      PROVE  RememberInv'
  BY <1>1 DEF EarState, Goto, IInv, RememberInv, OwnPause, soundVars, mediaVars
<1>2. ASSUME NEW speaking \in BOOLEAN, ConversationState(speaking)
      PROVE  RememberInv'
  BY <1>2
    DEF ConversationState, Goto, BeginReduction, IInv, RememberInv, OwnPause, soundVars, mediaVars
<1>3. CASE SwitchOutput
  BY <1>3 DEF SwitchOutput, Goto, IInv, RememberInv, OwnPause, mediaVars
<1>4. CASE TriggerMediaControl
  BY <1>4 DEF TriggerMediaControl, Goto, IInv, RememberInv, OwnPause, soundVars, history
<1>5. CASE TriggerVolumeControl
  BY <1>5
    DEF TriggerVolumeControl, Goto, BeginReduction, VolumeCall, IInv, RememberInv, OwnPause,
        soundVars, mediaVars
<1>6. CASE Reset
  BY <1>6 DEF Reset, IInv, RememberInv, OwnPause, soundVars, mediaVars, history
<1>7. ASSUME NEW t \in Threads, Lock(t)
      PROVE  RememberInv'
  BY <1>7 DEF Lock, Goto, IInv, Types, RememberInv, OwnPause, MediaTypes, soundVars, history
<1>8. ASSUME NEW t \in Threads, NoSessionBus(t)
      PROVE  RememberInv'
  BY <1>8 DEF NoSessionBus, Goto, AfterMedia, IInv, RememberInv, OwnPause, soundVars
<1>9. ASSUME NEW t \in Threads, AskPlayer(t)
      PROVE  RememberInv'
  BY <1>9
    DEF AskPlayer, IInv, Types, RememberInv, OwnPause, MutexInv, MediaTypes, ThreadTypes,
        soundVars
<1>10. ASSUME NEW t \in Threads, CallPlayer(t)
       PROVE  RememberInv'
  BY <1>10
    DEF CallPlayer, Goto, IInv, Types, RememberInv, OwnPause, MutexInv, MediaTypes, SoundTypes
<1>11. ASSUME NEW t \in Threads, Unlock(t)
       PROVE  RememberInv'
  BY <1>11
    DEF Unlock, Goto, IInv, Types, RememberInv, OwnPause, MediaTypes, NoMedia, soundVars, history
<1>12. ASSUME NEW t \in Faders, StartVolumeReduction(t) \/ StopVolumeReduction(t)
       PROVE  RememberInv'
  BY <1>12, ReductionFrame
    DEF IInv, Types, ReducingPcs, RememberInv, OwnPause, ThreadTypes, mediaVars
<1>13. ASSUME NEW json \in Settings, SetEarDetection(json)
       PROVE  RememberInv'
  BY <1>13 DEF SetEarDetection, IInv, RememberInv, OwnPause, soundVars, mediaVars
<1>14. ASSUME NEW enabled \in BOOLEAN, NEW json \in Settings,
              SetConversationAwareness(enabled, json.talkVolume)
       PROVE  RememberInv'
  BY <1>14
    DEF SetConversationAwareness, Goto, BeginReduction, IInv, RememberInv, OwnPause, soundVars,
        mediaVars
<1>15. ASSUME NEW v \in Volumes, UserSetsVolume(v)
       PROVE  RememberInv'
  BY <1>15 DEF UserSetsVolume, IInv, RememberInv, OwnPause, mediaVars
<1>16. ASSUME NEW p \in Players, NEW s \in {"Playing", "Paused", "Stopped"}, UserSetsPlayer(p, s)
       PROVE  RememberInv'
  BY <1>16 DEF UserSetsPlayer, IInv, Types, RememberInv, OwnPause, SoundTypes, mediaVars
<1>17. ASSUME NEW profile \in BOOLEAN, NEW sink \in {"headphones", "speakers"},
              OutputChanges(profile, sink)
       PROVE  RememberInv'
  BY <1>17 DEF OutputChanges, IInv, RememberInv, OwnPause, mediaVars
<1>18. ASSUME NEW c \in {"Play", "Pause"}, OtherHeadphones(c)
       PROVE  RememberInv'
  BY <1>18 DEF OtherHeadphones, Goto, IInv, RememberInv, OwnPause, soundVars, history
<1>19. CASE UNCHANGED vars
  BY <1>19 DEF vars, IInv, RememberInv, OwnPause, soundVars, mediaVars, history
<1> QED
  BY <1>1, <1>2, <1>3, <1>4, <1>5, <1>6, <1>7, <1>8, <1>9, <1>10, <1>11, <1>12, <1>13, <1>14,
     <1>15, <1>16, <1>17, <1>18, <1>19
    DEF Next, Packet, EarDetection, Media, Server, User

\* A reduced volume is restored.
LEMMA ReducedStep == IInv /\ [Next]_vars => ReducedInv'
<1> SUFFICES ASSUME IInv, [Next]_vars PROVE ReducedInv'
  OBVIOUS
<1>1. ASSUME NEW status \in Statuses, EarState(status)
      PROVE  ReducedInv'
  BY <1>1
    DEF EarState, Goto, IInv, ReducingPcs, ReducedInv, OneReduces, AtRestNow, Lowered, FadesDown,
        Keeps, Ends, soundVars, volumeVars
<1>2. ASSUME NEW speaking \in BOOLEAN, ConversationState(speaking)
      PROVE  ReducedInv'
  BY <1>2
    DEF ConversationState, Goto, BeginReduction, IInv, ReducingPcs, ReducedInv, OneReduces,
        AtRestNow, Lowered, soundVars, volumeVars
<1>3. CASE SwitchOutput
  BY <1>3
    DEF SwitchOutput, Goto, IInv, ReducingPcs, ReducedInv, OneReduces, AtRestNow, Lowered,
        FadesDown, Keeps, Ends, volumeVars
<1>4. CASE TriggerMediaControl
  BY <1>4
    DEF TriggerMediaControl, Goto, IInv, ReducingPcs, ReducedInv, OneReduces, AtRestNow, Lowered,
        FadesDown, Keeps, Ends, soundVars, volumeVars, history
<1>5. CASE TriggerVolumeControl
  BY <1>5
    DEF TriggerVolumeControl, Goto, BeginReduction, VolumeCall, IInv, ReducingPcs, ReducedInv,
        OneReduces, AtRestNow, Lowered, soundVars, volumeVars
<1>6. CASE Reset
  BY <1>6
    DEF Reset, IInv, ReducedInv, OneReduces, AtRestNow, Lowered, FadesDown, Keeps, Ends,
        soundVars, volumeVars, history
<1>7. ASSUME NEW t \in Threads, Media(t)
      PROVE  ReducedInv'
  BY <1>7, MediaFrame
    DEF IInv, Types, Threads, ReducingPcs, MediaPcs, ReducedInv, OneReduces, AtRestNow, Lowered,
        FadesDown, Keeps, Ends, ThreadTypes, AfterMedia, volumeVars
<1>8. ASSUME NEW t \in Faders, Mark(t)
      PROVE  ReducedInv'
  BY <1>8
    DEF Mark, Goto, IInv, ReducingPcs, ReducedInv, OneReduces, AtRestNow, Lowered, soundVars,
        history
<1>9. ASSUME NEW t \in Faders, LookInVain(t)
      PROVE  ReducedInv'
  BY <1>9
    DEF LookInVain, Goto, IInv, ReducingPcs, ReducedInv, OneReduces, AtRestNow, Lowered,
        soundVars, volumeVars, history
<1>10. ASSUME NEW t \in Faders, Look(t)
       PROVE  ReducedInv'
  <2> SUFFICES ASSUME "volume" \notin excused PROVE ReducedInv'
    BY <1>10 DEF Look, history, ReducedInv
  <2>1. pc[t] = "look" /\ pc' = [pc EXCEPT ![t] = "fadeDown"]
    BY <1>10 DEF Look, Goto
  <2>2. pc'[t] = "fadeDown" /\ \A u \in Faders : u # t => pc'[u] = pc[u] /\ pc[u] \notin ReducingPcs
    BY <2>1 DEF IInv, Types, ThreadTypes, ReducedInv, OneReduces, Threads, ReducingPcs
  <2>3. OneReduces'
    BY <2>2 DEF OneReduces
  <2>4. ~volumeReduced /\ volume = wanted
    BY <1>10, <2>1, <2>2 DEF Look, IInv, ReducedInv, AtRestNow, ReducingPcs
  <2> DEFINE to == (volume * (100 - fade[t].percent)) \div 100
  <2>5. to \in 0..volume /\ volume \in Nat
    BY DEF IInv, Types, SoundTypes, FadeTypes, Fades
  <2>6. fade' = [fade EXCEPT ![t].from = volume, ![t].to = to, ![t].step = 1]
    BY <1>10 DEF Look
  <2> HIDE DEF to
  <2>7. fade'[t].from = volume /\ fade'[t].to = to /\ fade'[t].step = 1
    BY <2>6 DEF IInv, Types, FadeTypes
  <2>8. UNCHANGED <<volume, wanted, volumeReduced, reasonActive>> /\ reasonActive # {}
    BY <1>10, <2>1 DEF Look, soundVars, volumeVars, history, IInv, ReducedInv
  <2>9. FadesDown(t)'
    <3>1. Between(volume, to, 0) = volume
      BY <2>5, FadeEnds
    <3> QED BY <2>4, <2>5, <2>7, <2>8, <3>1 DEF FadesDown
  <2>10. AtRestNow' /\ ~volumeReduced'
    BY <2>2, <2>4, <2>8 DEF AtRestNow
  <2> QED BY <2>2, <2>3, <2>8, <2>9, <2>10 DEF ReducedInv, ReducingPcs
<1>11. ASSUME NEW t \in Faders, FadeStep(t, "fadeDown", "keep")
       PROVE  ReducedInv'
  <2> SUFFICES ASSUME "volume" \notin excused PROVE ReducedInv'
    BY <1>11 DEF FadeStep, history, ReducedInv
  <2>1. /\ pc[t] = "fadeDown" /\ UNCHANGED <<wanted, volumeReduced, reasonActive>>
        /\ pc' = [pc EXCEPT ![t] = IF fade[t].step = Steps THEN "keep" ELSE "fadeDown"]
        /\ volume' = Between(fade[t].from, fade[t].to, fade[t].step)
        /\ fade' = [fade EXCEPT ![t].step = @ + 1]
    BY <1>11 DEF FadeStep, volumeVars, history
  <2>2. \A u \in Faders : u # t => pc'[u] = pc[u] /\ pc[u] \notin ReducingPcs
    BY <2>1 DEF IInv, ReducedInv, OneReduces, ReducingPcs
  <2>3. OneReduces'
    BY <2>2 DEF OneReduces
  <2>4. FadesDown(t) /\ reasonActive' # {}
    BY <2>1 DEF IInv, ReducedInv
  <2>5. /\ fade[t].from \in Nat /\ fade[t].to \in Nat /\ fade[t].step \in 1..Steps
        /\ fade'[t].from = fade[t].from /\ fade'[t].to = fade[t].to
        /\ fade'[t].step = fade[t].step + 1
    BY <2>1 DEF IInv, Types, FadeTypes, Fades
  <2>6. pc'[t] = IF fade[t].step = Steps THEN "keep" ELSE "fadeDown"
    BY <2>1 DEF IInv, Types, ThreadTypes, Threads
  <2>7. CASE fade[t].step = Steps
    <3>1. volume' = fade[t].to
      BY <2>1, <2>5, <2>7, FadeEnds
    <3>2. Keeps(t)'
      BY <2>1, <2>4, <3>1 DEF FadesDown, Keeps, Lowered
    <3>3. pc'[t] = "keep" /\ ~volumeReduced'
      BY <2>1, <2>4, <2>6, <2>7 DEF FadesDown
    <3> QED BY <2>2, <2>3, <2>4, <3>2, <3>3 DEF ReducedInv, AtRestNow, ReducingPcs
  <2>8. CASE fade[t].step # Steps
    <3>1. fade'[t].step - 1 = fade[t].step
      BY <2>5, WearingAssumption
    <3>2. FadesDown(t)'
      BY <2>1, <2>4, <3>1 DEF FadesDown
    <3>3. pc'[t] = "fadeDown" /\ ~volumeReduced'
      BY <2>1, <2>4, <2>8 DEF FadesDown
    <3> QED BY <2>2, <2>3, <2>4, <3>2, <3>3 DEF ReducedInv, AtRestNow, ReducingPcs
  <2> QED BY <2>7, <2>8
<1>12. ASSUME NEW t \in Faders, FadeFails(t, "fadeDown", "idle")
       PROVE  ReducedInv'
  BY <1>12 DEF FadeFails, ReducedInv
<1>13. ASSUME NEW t \in Faders, Keep(t)
       PROVE  ReducedInv'
  <2> SUFFICES ASSUME "volume" \notin excused PROVE ReducedInv'
    BY <1>13 DEF Keep, history, ReducedInv
  <2>1. pc[t] = "keep" /\ pc' = [pc EXCEPT ![t] = "idle"]
    BY <1>13 DEF Keep, Goto
  <2>2. pc'[t] = "idle" /\ \A u \in Faders : u # t => pc'[u] = pc[u] /\ pc[u] \notin ReducingPcs
    BY <2>1 DEF IInv, Types, ThreadTypes, ReducedInv, OneReduces, Threads, ReducingPcs
  <2>3. OneReduces'
    BY <2>2 DEF OneReduces
  <2>4. Keeps(t)
    BY <2>1 DEF IInv, ReducedInv
  <2>5. /\ savedVolume' = fade[t].from /\ reducedVolume' = fade[t].to /\ volumeReduced' = TRUE
        /\ UNCHANGED <<volume, wanted, reasonActive>> /\ reasonActive # {}
    BY <1>13, <2>1 DEF Keep, soundVars, history, IInv, ReducedInv
  <2>6. Lowered(reducedVolume, savedVolume)'
    BY <2>4, <2>5 DEF Keeps, Lowered
  <2>7. AtRestNow'
    BY <2>5, <2>6 DEF AtRestNow
  <2> QED BY <2>2, <2>3, <2>5, <2>7 DEF ReducedInv, ReducingPcs
<1>14. ASSUME NEW t \in Faders, Unmark(t)
       PROVE  ReducedInv'
  BY <1>14
    DEF Unmark, Goto, IInv, Types, Threads, ReducingPcs, ReducedInv, OneReduces, AtRestNow,
        Lowered, ThreadTypes, soundVars, history
<1>15. ASSUME NEW t \in Faders, Settle(t)
       PROVE  ReducedInv'
  BY <1>15
    DEF Settle, Goto, IInv, ReducingPcs, ReducedInv, OneReduces, AtRestNow, Lowered, Ends,
        soundVars, volumeVars, history
<1>16. ASSUME NEW t \in Faders, Compare(t)
       PROVE  ReducedInv'
  <2> SUFFICES ASSUME "volume" \notin excused' PROVE ReducedInv'
    BY DEF ReducedInv
  <2>1. /\ pc[t] = "compare" /\ UNCHANGED <<wanted, volume, reasonActive, excused>>
        /\ UNCHANGED <<volumeReduced, savedVolume, reducedVolume>>
        /\ \/ /\ pc' = [pc EXCEPT ![t] = "fadeUp"] /\ volume = reducedVolume
              /\ fade' = [fade EXCEPT ![t].from = volume, ![t].to = savedVolume, ![t].step = 1]
           \/ pc' = [pc EXCEPT ![t] = "clear"] /\ volume # reducedVolume
    BY <1>16 DEF Compare, FadeFails, Goto, soundVars, volumeVars, history
  <2>2. /\ pc'[t] \in {"fadeUp", "clear"}
        /\ \A u \in Faders : u # t => pc'[u] = pc[u] /\ pc[u] \notin ReducingPcs
    BY <2>1 DEF IInv, Types, ThreadTypes, ReducedInv, OneReduces, Threads, ReducingPcs
  <2>3. OneReduces' /\ AtRestNow'
    BY <2>2 DEF OneReduces, AtRestNow
  <2>4. Ends(t) /\ Lowered(reducedVolume, savedVolume)
    BY <2>1, <2>2 DEF IInv, ReducedInv, AtRestNow, Ends, ReducingPcs
  <2>5. pc'[t] = "fadeUp" => fade'[t].to = wanted'
    BY <2>1, <2>4 DEF Lowered, IInv, Types, ThreadTypes, FadeTypes, Fades
  <2>6. pc'[t] = "clear" => volume' = wanted'
    BY <2>1, <2>4 DEF Lowered, IInv, Types, ThreadTypes
  <2> QED BY <2>1, <2>2, <2>3, <2>4, <2>5, <2>6 DEF ReducedInv, Ends, ReducingPcs
<1>17. ASSUME NEW t \in Faders, FadeStep(t, "fadeUp", "clear")
       PROVE  ReducedInv'
  <2> SUFFICES ASSUME "volume" \notin excused PROVE ReducedInv'
    BY <1>17 DEF FadeStep, history, ReducedInv
  <2>1. /\ pc[t] = "fadeUp" /\ UNCHANGED <<wanted, volumeReduced, reasonActive>>
        /\ pc' = [pc EXCEPT ![t] = IF fade[t].step = Steps THEN "clear" ELSE "fadeUp"]
        /\ volume' = Between(fade[t].from, fade[t].to, fade[t].step)
        /\ fade' = [fade EXCEPT ![t].step = @ + 1]
    BY <1>17 DEF FadeStep, volumeVars, history
  <2>2. \A u \in Faders : u # t => pc'[u] = pc[u] /\ pc[u] \notin ReducingPcs
    BY <2>1 DEF IInv, ReducedInv, OneReduces, ReducingPcs
  <2>3. pc'[t] = IF fade[t].step = Steps THEN "clear" ELSE "fadeUp"
    BY <2>1 DEF IInv, Types, ThreadTypes, Threads
  <2>4. OneReduces' /\ AtRestNow'
    BY <2>2, <2>3 DEF OneReduces, AtRestNow
  <2>5. Ends(t) /\ fade[t].to = wanted
    BY <2>1 DEF IInv, ReducedInv
  <2>6. /\ fade[t].from \in Nat /\ fade[t].to \in Nat /\ fade'[t].to = fade[t].to
    BY <2>1 DEF IInv, Types, FadeTypes, Fades
  <2>7. fade[t].step = Steps => volume' = wanted'
    BY <2>1, <2>5, <2>6, FadeEnds
  <2> QED BY <2>1, <2>2, <2>3, <2>4, <2>5, <2>6, <2>7 DEF ReducedInv, Ends, ReducingPcs
<1>18. ASSUME NEW t \in Faders, FadeFails(t, "fadeUp", "clear")
       PROVE  ReducedInv'
  BY <1>18 DEF FadeFails, ReducedInv
<1>19. ASSUME NEW t \in Faders, Clear(t)
       PROVE  ReducedInv'
  BY <1>19
    DEF Clear, Goto, IInv, Types, Threads, ReducingPcs, ReducedInv, OneReduces, AtRestNow,
        ThreadTypes, soundVars, history
<1>20. ASSUME NEW json \in Settings, SetEarDetection(json)
       PROVE  ReducedInv'
  BY <1>20
    DEF SetEarDetection, IInv, ReducedInv, OneReduces, AtRestNow, Lowered, FadesDown, Keeps, Ends,
        soundVars, volumeVars
<1>21. ASSUME NEW enabled \in BOOLEAN, NEW json \in Settings,
              SetConversationAwareness(enabled, json.talkVolume)
       PROVE  ReducedInv'
  BY <1>21
    DEF SetConversationAwareness, Goto, BeginReduction, IInv, ReducingPcs, ReducedInv, OneReduces,
        AtRestNow, Lowered, FadesDown, Keeps, Ends, soundVars, volumeVars
<1>22. ASSUME NEW v \in Volumes, UserSetsVolume(v)
       PROVE  ReducedInv'
  BY <1>22
    DEF UserSetsVolume, IInv, ReducedInv, OneReduces, AtRestNow, Lowered, Keeps, Ends, volumeVars
<1>23. ASSUME NEW p \in Players, NEW s \in {"Playing", "Paused", "Stopped"}, UserSetsPlayer(p, s)
       PROVE  ReducedInv'
  BY <1>23
    DEF UserSetsPlayer, IInv, ReducedInv, OneReduces, AtRestNow, Lowered, FadesDown, Keeps, Ends,
        volumeVars
<1>24. ASSUME NEW profile \in BOOLEAN, NEW sink \in {"headphones", "speakers"},
              OutputChanges(profile, sink)
       PROVE  ReducedInv'
  BY <1>24
    DEF OutputChanges, IInv, ReducedInv, OneReduces, AtRestNow, Lowered, FadesDown, Keeps, Ends,
        volumeVars
<1>25. ASSUME NEW c \in {"Play", "Pause"}, OtherHeadphones(c)
       PROVE  ReducedInv'
  BY <1>25
    DEF OtherHeadphones, Goto, IInv, ReducingPcs, ReducedInv, OneReduces, AtRestNow, Lowered,
        FadesDown, Keeps, Ends, soundVars, volumeVars, history
<1>26. CASE UNCHANGED vars
  BY <1>26
    DEF vars, IInv, ReducedInv, OneReduces, AtRestNow, Lowered, FadesDown, Keeps, Ends, soundVars,
        volumeVars, history
<1> QED
  BY <1>1, <1>2, <1>3, <1>4, <1>5, <1>6, <1>7, <1>8, <1>9, <1>10, <1>11, <1>12, <1>13, <1>14,
     <1>15, <1>16, <1>17, <1>18, <1>19, <1>20, <1>21, <1>22, <1>23, <1>24, <1>25, <1>26
    DEF Next, Packet, EarDetection, StartVolumeReduction, StopVolumeReduction, Server, User

\* The invariant holds of every behaviour.
THEOREM Invariance == Spec => []IInv
<1>1. Init => IInv
  <2> SUFFICES ASSUME Init PROVE IInv
    OBVIOUS
  <2>1. \A t \in Threads : pc[t] = "idle"
    BY DEF Init
  <2>2. SoundTypes /\ ReductionTypes
    BY WearingAssumption DEF Init, SoundTypes, ReductionTypes
  <2>3. EarTypes
    <3>1. /\ counts = [what \in {"packets", "user", "sets"} |-> counts[what]]
          /\ DOMAIN counts = {"packets", "user", "sets"}
      BY DEF Init
    <3>2. counts["packets"] = 0 /\ counts["user"] = 0 /\ counts["sets"] = 0
      BY DEF Init
    <3>3. counts \in [{"packets", "user", "sets"} -> Nat]
      BY <3>1, <3>2
    <3>4. settings \in Setting
      BY WearingAssumption DEF Init, Setting
    <3> QED BY <3>3, <3>4 DEF Init, EarTypes, Statuses
  <2>4. FadeTypes /\ ThreadTypes
    BY DEF Init, FadeTypes, Fades, NoFade, ThreadTypes, ReaderPcs, Threads, Faders
  <2>5. MediaTypes
    BY DEF Init, MediaTypes, NoMedia, MediaPcs
  <2>6. MutexInv /\ OutputInv /\ PauseInv
    BY DEF Init, MutexInv, OutputInv, PauseInv, Threads, Faders
  <2>7. RememberInv
    BY DEF Init, RememberInv, OwnPause
  <2>8. ReducedInv
    BY DEF Init, ReducedInv, OneReduces, AtRestNow, ReducingPcs, Threads
  <2> QED BY <2>2, <2>3, <2>4, <2>5, <2>6, <2>7, <2>8 DEF IInv, Types
<1>2. IInv /\ [Next]_vars => IInv'
  BY SoundStep, EarStep, ReductionStep, FadeStepTypes, ThreadStep, MediaStep, MutexStep,
     OutputStep, PauseStep, RememberStep, ReducedStep
    DEF IInv, Types
<1> QED BY <1>1, <1>2, PTL DEF Spec

\* The volume is reduced once for all reasons, from the one the user has set, and when no reason is
\* left it is that one again, whatever the order in which reasons came and went
\* (AapDevice.cpp:91, 120, 137, 142).
THEOREM VolumeIsRestored == Spec => []VolumeRestored
<1>1. IInv => VolumeRestored
  <2> SUFFICES ASSUME IInv PROVE VolumeRestored
    OBVIOUS
  <2>1. TypeOK
    <3>1. /\ {volume, savedVolume, reducedVolume, wanted} \subseteq Nat
          /\ {isAvailable, volumeReduced} \subseteq BOOLEAN
          /\ {option, previousStatus} \subseteq Statuses
      BY DEF IInv, Types, SoundTypes, EarTypes, ReductionTypes
    <3> QED BY <3>1
            DEF IInv, Types, SoundTypes, EarTypes, ReductionTypes, MediaTypes, MutexInv, TypeOK
  <2>2. ASSUME Rest, "volume" \notin excused
        PROVE  /\ volumeReduced /\ volume # wanted =>
                      volume = reducedVolume /\ savedVolume = wanted
               /\ reasonActive = {} => volume = wanted /\ ~volumeReduced
    <3>1. \A t \in Faders : pc[t] = "idle"
      BY <2>2 DEF Rest, Threads
    <3>2. IF volumeReduced THEN Lowered(reducedVolume, savedVolume) ELSE volume = wanted
      BY <2>2, <3>1 DEF IInv, ReducedInv, AtRestNow
    <3>3. reasonActive = {} => ~volumeReduced
      BY <2>2, <3>1 DEF IInv, ReducedInv
    <3> QED BY <3>2, <3>3 DEF Lowered
  <2> QED BY <2>1, <2>2 DEF VolumeRestored
<1> QED BY <1>1, Invariance, PTL

\* A player the controller has paused and nobody has touched since is remembered, and so resumed when
\* the headphones are put in again (MediaController.cpp:89).
THEOREM PausedAreRemembered == Spec => []PausedRemembered
<1>1. IInv => PausedRemembered
  BY DEF IInv, RememberInv, OwnPause, PausedRemembered
<1> QED BY <1>1, Invariance, PTL

\* The sound is where the ears are, and headphones that are taken off leave nothing playing
\* (AapEarDetectionCapability.cpp:64, 89).
THEOREM EarsAreFollowed == Spec => []EarsFollowed
<1>1. IInv => EarsFollowed
  <2> SUFFICES ASSUME IInv, Rest PROVE EarsFollowed
    BY DEF EarsFollowed
  <2>1. pc["reader"] = "idle"
    BY DEF Rest, Threads, Faders
  <2> QED BY <2>1 DEF IInv, OutputInv, PauseInv, MediaPcs, EarsFollowed
<1> QED BY <1>1, Invariance, PTL

\* A step that makes the volume louder, and is not the user's, is one of a fade.
LEMMA WhoRaises ==
    ASSUME IInv, [Next]_vars, volume' > volume, counts' = counts
    PROVE  \E t \in Faders : FadeStep(t, "fadeDown", "keep") \/ FadeStep(t, "fadeUp", "clear")
<1>1. volume \in Nat /\ counts \in [{"packets", "user", "sets"} -> Nat]
  BY DEF IInv, Types, SoundTypes, EarTypes
<1>2. volume' # volume
  BY <1>1
<1>3. ASSUME NEW v \in Volumes, UserSetsVolume(v) PROVE FALSE
  <2>1. counts'["user"] = counts["user"] + 1
    BY <1>1, <1>3 DEF UserSetsVolume, Count
  <2> QED BY <2>1, <1>1
<1>4. ~(Packet \/ EarDetection \/ Reset)
  BY <1>2
    DEF Packet, EarState, ConversationState, EarDetection, SwitchOutput, TriggerMediaControl,
        TriggerVolumeControl, Reset, soundVars
<1>5. \A t \in Threads : ~Media(t)
  BY <1>2 DEF Media, Lock, NoSessionBus, AskPlayer, CallPlayer, Unlock, soundVars
<1>6. ~Server
  BY <1>2 DEF Server, SetEarDetection, SetConversationAwareness, soundVars
<1>7. ~User
  BY <1>2, <1>3 DEF User, UserSetsPlayer, OutputChanges, OtherHeadphones, soundVars
<1>8. \A t \in Faders :
          StartVolumeReduction(t) \/ StopVolumeReduction(t) =>
              FadeStep(t, "fadeDown", "keep") \/ FadeStep(t, "fadeUp", "clear")
  BY <1>2
    DEF StartVolumeReduction, StopVolumeReduction, Mark, LookInVain, Look, FadeFails, Keep,
        Unmark, Settle, Compare, Clear, soundVars
<1>9. Next
  BY <1>2 DEF vars, soundVars
<1> QED BY <1>4, <1>5, <1>6, <1>7, <1>8, <1>9 DEF Next

\* While a reason is left nothing raises the volume but the user: the reason that ends first leaves
\* it down (AapDevice.cpp:137).
THEOREM RaisedOnlyAtTheEnd == Spec => RaisedAtTheEnd
<1>1. IInv /\ [Next]_vars =>
          [volume' > volume /\ counts' = counts /\ "volume" \notin excused =>
               reasonActive = {}]_vars
  <2> SUFFICES ASSUME IInv, [Next]_vars, volume' > volume, counts' = counts,
                      "volume" \notin excused
               PROVE  reasonActive = {}
    OBVIOUS
  <2>1. PICK t \in Faders : FadeStep(t, "fadeDown", "keep") \/ FadeStep(t, "fadeUp", "clear")
    BY WhoRaises
  <2>2. CASE FadeStep(t, "fadeDown", "keep")
    <3>1. FadesDown(t) /\ volume' = Between(fade[t].from, fade[t].to, fade[t].step)
      BY <2>2 DEF FadeStep, IInv, ReducedInv
    <3>2. /\ fade[t].from \in Nat /\ fade[t].to \in Nat /\ fade[t].step \in 1..Steps
          /\ volume \in Nat
      BY <2>2 DEF FadeStep, IInv, Types, FadeTypes, Fades, SoundTypes
    <3>3. volume' <= volume
      BY <3>1, <3>2, FadeFalls DEF FadesDown
    <3>4. volume' \in Nat
      <4>1. fade[t].step \in 0..Steps
        BY <3>2, WearingAssumption
      <4> QED BY <3>1, <3>2, <4>1, FadeEnds
    <3> QED BY <3>2, <3>3, <3>4
  <2>3. CASE FadeStep(t, "fadeUp", "clear")
    BY <2>3 DEF FadeStep, IInv, ReducedInv, Ends
  <2> QED BY <2>1, <2>2, <2>3
<1> QED BY <1>1, Invariance, PTL DEF Spec, RaisedAtTheEnd

=============================================================================
