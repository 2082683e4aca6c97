----------------------------- MODULE MCWearing -----------------------------
(* Wearing on small instances.                                             *)
EXTENDS Wearing, TLC

\* Everything is on, and everything but the volume of conversations is off.
MCSettings ==
    {[pauseMedia |-> TRUE, switchToSpeakers |-> TRUE, lowerVolume |-> 50,
      talkVolume |-> 25],
     [pauseMedia |-> FALSE, switchToSpeakers |-> FALSE, lowerVolume |-> 0,
      talkVolume |-> 25]}
=============================================================================
