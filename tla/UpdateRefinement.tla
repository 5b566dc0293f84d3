-------------------------- MODULE UpdateRefinement --------------------------
(***************************************************************************)
(* SignedUpdate, with its records, slots, sessions and bootloader steps,   *)
(* implements the device of ABDevice.                                      *)
(***************************************************************************)
EXTENDS SignedUpdate

\* The home slot is the one whose record is VALID: the selected record's, or
\* the other's while a candidate is selected.
HomeSlot ==
    LET a == ActiveEntry(entries)
        r == IF entries[a].state = "VALID" THEN a ELSE 1 - a
    IN  SlotOf(entries[r].sequence)

Started == mode \in {"run", "halted"}

Executing == IF Started THEN slots[running][1] ELSE Blank

\* A candidate is offered while its record is NEW or the bootloader is about to
\* load it; it has been started while another slot than home executes.  A
\* PENDING_VERIFY record that is found at the next start offers nothing.
Offered ==
    \/ mode = "load" /\ running # HomeSlot
    \/ mode # "load" /\ entries[ActiveEntry(entries)].state = "NEW"

Offer == IF Started /\ running # HomeSlot THEN "started"
         ELSE IF Offered THEN "offered" ELSE "none"

Device == INSTANCE ABDevice
          WITH home <- slots[HomeSlot][1], executing <- Executing,
               offer <- Offer, Off <- Blank

\* The boot records, the session and the bootloader together implement the A/B
\* device: a candidate is started at most once, becomes the home image only by
\* its own confirmation, and the home image is never lost, through power cuts
\* between any two flash operations and failures of any of them.
ImplementsABDevice == Device!Spec
=============================================================================
