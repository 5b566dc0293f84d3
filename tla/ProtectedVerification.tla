------------------------ MODULE ProtectedVerification ------------------------
(***************************************************************************)
(* The firmware from reset to the verification of installed images: main   *)
(* configures the memory protection before it calls startup::run           *)
(* (src/src/bin/main.rs), and a request of the maintenance protocol then   *)
(* verifies the slots.  A memory fault stops a verification for good, a    *)
(* restart forgets it.                                                     *)
(***************************************************************************)
EXTENDS SignedImage, FiniteSets

CONSTANTS Buses, Bound

ASSUME BusAssumption ==
    /\ IsFiniteSet(Buses) /\ Buses # {}
    /\ Bound \in Nat

VARIABLES
    stage,  \* the phase of MemoryProtection
    left, permission, monitor, lock, inherited, stuck

memory == <<stage, left, permission, monitor, lock, inherited, stuck>>

Memory == INSTANCE MemoryProtection WITH phase <- stage

ProtectedInit == Init /\ Memory!Init

\* initialize returns, or its error ends main.
Verify == stage = "running" /\ Next /\ UNCHANGED memory

Protect == Memory!Step /\ UNCHANGED vars

Restart == Memory!Restart /\ Call

ProtectedNext == Verify \/ Protect \/ Restart

ProtectedSpec == ProtectedInit /\ [][ProtectedNext]_<<vars, memory>>

\* The firmware runs only under the whole policy, watched and locked on every
\* bus, whatever an earlier stage left behind and whichever register ignores
\* a write; and configure locks no bus whose policy is not in force, so that
\* a refused start can be repaired by the next one.
ProtectedOrStopped == Memory!ProtectedOrStopped
=============================================================================
