--------------------------- MODULE ClientContract ---------------------------
(***************************************************************************)
(* What src/src/client/Client.h promises to the code that owns a Client,   *)
(* with no thread, mutex, queue or descriptor in sight:                    *)
(*                                                                         *)
(*   - Start() makes a new connection only when the previous one is down   *)
(*     and its reading thread has finished;                                *)
(*   - a connection ends once, through Stop() or through its own reading   *)
(*     thread, and only in the second case is the loss reported;           *)
(*   - the loss is reported after the connection is down, by the reading   *)
(*     thread, which is gone before another connection is made.            *)
(*                                                                         *)
(* Module Client is shown to implement this one; module Device is built on *)
(* the same contract.                                                      *)
(***************************************************************************)
EXTENDS Naturals

CONSTANT MaxGen  \* bound on the number of connections made in a behaviour

ASSUME ContractAssumption == MaxGen \in Nat

VARIABLES
    phase,       \* "down", "starting" (Start() is connecting) or "up"
    reader,      \* reading thread of the latest connection: "absent",
                 \*   "listening" or "reporting" (running the lost event)
    generation,  \* number of connections made so far
    lost         \* connections whose loss was reported

contractVars == <<phase, reader, generation, lost>>

ContractInit ==
    /\ phase = "down"
    /\ reader = "absent"
    /\ generation = 0
    /\ lost = {}

BeginStart ==
    /\ phase = "down"
    /\ reader = "absent"
    /\ phase' = "starting"
    /\ UNCHANGED <<reader, generation, lost>>

StartFails ==
    /\ phase = "starting"
    /\ phase' = "down"
    /\ UNCHANGED <<reader, generation, lost>>

StartSucceeds ==
    /\ phase = "starting"
    /\ generation < MaxGen
    /\ phase' = "up"
    /\ reader' = "listening"
    /\ generation' = generation + 1
    /\ UNCHANGED lost

OwnerStops ==
    /\ phase = "up"
    /\ phase' = "down"
    /\ UNCHANGED <<reader, generation, lost>>

\* The reading thread of a stopped connection ends without a report.
ReaderLeaves ==
    /\ phase = "down"
    /\ reader = "listening"
    /\ reader' = "absent"
    /\ UNCHANGED <<phase, generation, lost>>

\* The reading thread finds the connection dead and takes it down.
ReaderStops ==
    /\ phase = "up"
    /\ reader = "listening"
    /\ phase' = "down"
    /\ reader' = "reporting"
    /\ UNCHANGED <<generation, lost>>

ReportLoss ==
    /\ reader = "reporting"
    /\ reader' = "absent"
    /\ lost' = lost \cup {generation}
    /\ UNCHANGED <<phase, generation>>

ContractNext ==
    \/ BeginStart \/ StartFails \/ StartSucceeds
    \/ OwnerStops \/ ReaderLeaves \/ ReaderStops \/ ReportLoss

ContractSpec == ContractInit /\ [][ContractNext]_contractVars
=============================================================================
