--------------------------- MODULE MemoryProtection ---------------------------
(***************************************************************************)
(* configure (src/src/platform/memory_protection.rs): install the SRAM     *)
(* permission policy, watch it, read it back and lock it, before anything  *)
(* else of the firmware runs.                                              *)
(*                                                                         *)
(* Every bus has a permission register, abstracted to whether its masked   *)
(* bits equal the policy's, a monitor with the bits clear (1), enable (2)  *)
(* and latched fault (4), and a lock.  A register may ignore writes: a     *)
(* locked bus does, and defective hardware may.  The registers keep what   *)
(* an earlier stage left in them.                                          *)
(***************************************************************************)
EXTENDS Integers, FiniteSets

CONSTANTS
    Buses,  \* IRAM, DRAM, DPORT and AHB
    Bound   \* most registers that ignore writes

Kinds == {"permission", "monitor", "lock"}

VARIABLES
    phase,      \* where configure is
    left,       \* buses the current loop has still to visit
    permission, \* [Buses -> BOOLEAN]: the masked bits equal the policy's
    monitor,    \* [Buses -> 0..7]
    lock,       \* [Buses -> BOOLEAN]
    inherited,  \* a lock was set before configure
    stuck       \* <<kind, bus>> of the registers that ignore writes

vars == <<phase, left, permission, monitor, lock, inherited, stuck>>

Clear == 1
Enable == 2
Latched == 4

Phases == {"start", "clear", "permit", "watch", "check", "lock", "recheck",
           "running", "refused", "halted"}

TypeOK ==
    /\ phase \in Phases
    /\ left \subseteq Buses
    /\ permission \in [Buses -> BOOLEAN]
    /\ monitor \in [Buses -> 0..7]
    /\ lock \in [Buses -> BOOLEAN]
    /\ inherited \in BOOLEAN
    /\ stuck \subseteq Kinds \X Buses

(***************************************************************************)
(* Registers.                                                              *)
(***************************************************************************)

Accepts(kind, bus) == ~lock[bus] /\ <<kind, bus>> \notin stuck

\* A write to a monitor: its clear bit drops the latched fault, which no
\* write can set.
Monitored(old, bits) ==
    bits + (IF bits % 2 = Clear THEN 0 ELSE (old \div Latched) * Latched)

\* replace_bits(MONITOR, 3, bits).
ReplaceMonitor(bus, bits) ==
    monitor' = IF Accepts("monitor", bus)
               THEN [monitor EXCEPT ![bus] = Monitored(@, bits)] ELSE monitor

MatchesPolicy ==
    \A b \in Buses : permission[b] /\ monitor[b] = Enable

(***************************************************************************)
(* configure, one register access loop at a time.  No interrupt is taken   *)
(* in it.                                                                  *)
(***************************************************************************)

\* Mutant: one inherited lock is enough.
InheritedIsSafeAny == (\E b \in Buses : lock[b]) /\ MatchesPolicy

\* A locked policy is accepted only as a whole.
InheritedIsSafe == (\A b \in Buses : lock[b]) /\ MatchesPolicy

Start ==
    /\ phase = "start"
    /\ inherited' = \E b \in Buses : lock[b]
    /\ phase' = IF ~inherited' THEN "clear"
                ELSE IF InheritedIsSafe THEN "running" ELSE "refused"
    /\ left' = Buses
    /\ UNCHANGED <<permission, monitor, lock, stuck>>

\* The loops run over every bus and go on when none is left.
Visit(from, to, bus) ==
    /\ phase = from
    /\ bus \in left
    /\ phase' = IF left = {bus} THEN to ELSE from
    /\ left' = IF left = {bus} THEN Buses ELSE left \ {bus}

\* Clear the latched faults and disable the monitors.
ClearMonitor(bus) ==
    /\ Visit("clear", "permit", bus)
    /\ monitor' = IF Accepts("monitor", bus)
                  THEN [monitor EXCEPT ![bus] = Monitored(Monitored(@, Clear), 0)]
                  ELSE monitor
    /\ UNCHANGED <<permission, lock, inherited, stuck>>

InstallPermission(bus) ==
    /\ Visit("permit", "watch", bus)
    /\ permission' = IF Accepts("permission", bus)
                     THEN [permission EXCEPT ![bus] = TRUE] ELSE permission
    /\ UNCHANGED <<monitor, lock, inherited, stuck>>

EnableMonitor(bus) ==
    /\ Visit("watch", "check", bus)
    /\ ReplaceMonitor(bus, Enable)
    /\ UNCHANGED <<permission, lock, inherited, stuck>>

\* Lock only what has been read back.
Check ==
    /\ phase = "check"
    /\ phase' = IF MatchesPolicy THEN "lock" ELSE "refused"
    /\ UNCHANGED <<left, permission, monitor, lock, inherited, stuck>>

SetLock(bus) ==
    /\ Visit("lock", "recheck", bus)
    /\ lock' = IF Accepts("lock", bus) THEN [lock EXCEPT ![bus] = TRUE] ELSE lock
    /\ UNCHANGED <<permission, monitor, inherited, stuck>>

Recheck ==
    /\ phase = "recheck"
    /\ phase' = IF (\A b \in Buses : lock[b]) /\ MatchesPolicy THEN "running" ELSE "refused"
    /\ UNCHANGED <<left, permission, monitor, lock, inherited, stuck>>

(***************************************************************************)
(* The hardware.                                                           *)
(***************************************************************************)

\* A forbidden access latches a fault of an enabled monitor.
Fault(bus) ==
    /\ monitor[bus] \in {Enable, Enable + Clear}
    /\ phase # "halted"
    /\ monitor' = [monitor EXCEPT ![bus] = @ + Latched]
    /\ UNCHANGED <<phase, left, permission, lock, inherited, stuck>>

\* memory_fault: once the critical section is over, a latched fault stops the
\* processor for good.
Handle ==
    /\ phase = "running"
    /\ \E b \in Buses : monitor[b] >= Latched
    /\ phase' = "halted"
    /\ UNCHANGED <<left, permission, monitor, lock, inherited, stuck>>

\* A restart of the processor drops the locks and keeps the other bits.
Restart ==
    /\ phase' = "start"
    /\ left' = Buses
    /\ lock' = [b \in Buses |-> FALSE]
    /\ inherited' = FALSE
    /\ UNCHANGED <<permission, monitor, stuck>>

Init ==
    /\ phase = "start"
    /\ left = Buses
    /\ permission \in [Buses -> BOOLEAN]
    /\ monitor \in [Buses -> 0..7]
    /\ lock \in [Buses -> BOOLEAN]
    /\ inherited = FALSE
    /\ stuck \in {s \in SUBSET (Kinds \X Buses) : Cardinality(s) <= Bound}

\* Everything but a restart.
Step ==
    \/ Start \/ Check \/ Recheck \/ Handle
    \/ \E b \in Buses : \/ ClearMonitor(b) \/ InstallPermission(b)
                        \/ EnableMonitor(b) \/ SetLock(b) \/ Fault(b)

Next == Step \/ Restart

Spec == Init /\ [][Next]_vars

(***************************************************************************)
(* Properties.                                                             *)
(***************************************************************************)

\* The firmware runs only under the whole policy, watched and locked on every
\* bus, whatever an earlier stage left behind and whichever register ignores
\* a write; and configure locks no bus whose policy is not in force, so that
\* a refused start can be repaired by the next one.
ProtectedOrStopped ==
    /\ phase = "running" =>
          \A b \in Buses : permission[b] /\ lock[b] /\ monitor[b] \in {Enable, Enable + Latched}
    /\ ~inherited /\ phase # "start" =>
          \A b \in Buses : lock[b] => permission[b]
=============================================================================
