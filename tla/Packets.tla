------------------------------- MODULE Packets -------------------------------
(***************************************************************************)
(* Reading packets, for the watchers of src/src/sdk. A packet is the        *)
(* sequence of its bytes; byte i of the program's vectors is At(data, i).   *)
(***************************************************************************)
EXTENDS Integers, Sequences, SequencesExt

CONSTANT None      \* what a watcher makes of a packet it has no use for

At(data, i) == data[i + 1]
\* A value read from a packet a watcher accepts.
Read(accepted, value) == IF accepted THEN value ELSE None
\* Whether b is one of the values an enumeration names.
Names(enum, b) == \E name \in DOMAIN enum : enum[name] = b

=============================================================================
