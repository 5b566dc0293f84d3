------------------------------ MODULE OtaData ------------------------------
(***************************************************************************)
(* The two boot-selection records ("otadata") of the A/B layout and the    *)
(* decisions src/platform/ota.rs takes from them.  A record is its         *)
(* sequence number, its state and whether its CRC matches the sequence;    *)
(* sequence n designates application slot (n - 1) % 2.                     *)
(***************************************************************************)
EXTENDS Naturals

CONSTANT
    MaxSequence     \* u32::MAX, the sequence value of an erased record

ASSUME SequenceAssumption ==
    MaxSequence \in Nat /\ MaxSequence > 2 /\ MaxSequence % 2 = 1

Slots   == {0, 1}
Records == {0, 1}
NoEntry == 2        \* Option::None of active_entry

States == {"NEW", "PENDING_VERIFY", "VALID", "INVALID", "ABORTED", "UNDEFINED"}

Entry == [sequence : 0..MaxSequence, state : States, crc_ok : BOOLEAN]

\* OtaEntry::encode_with_state: the CRC is computed from the sequence.
NewEntry(sequence, state) ==
    [sequence |-> sequence, state |-> state, crc_ok |-> TRUE]

\* A sector after erase: all ones, also what a torn write of the record leaves
\* as far as selection is concerned (the CRC is the record's last word).
ErasedEntry == [sequence |-> MaxSequence, state |-> "UNDEFINED", crc_ok |-> FALSE]

\* OtaEntry::is_selectable
IsSelectable(entry) ==
    /\ entry.sequence # MaxSequence
    /\ entry.state \notin {"INVALID", "ABORTED"}
    /\ entry.crc_ok

\* Mutant of ActiveEntry: the lower sequence wins.
ActiveEntryLowest(e) ==
    IF IsSelectable(e[0]) /\ (IsSelectable(e[1]) => e[0].sequence <= e[1].sequence)
    THEN 0
    ELSE IF IsSelectable(e[1]) THEN 1 ELSE NoEntry

\* active_entry: the selectable record with the higher sequence, the first one
\* on a tie.
ActiveEntry(e) ==
    IF IsSelectable(e[0]) /\ (IsSelectable(e[1]) => e[0].sequence >= e[1].sequence)
    THEN 0
    ELSE IF IsSelectable(e[1]) THEN 1 ELSE NoEntry

\* slot_offset, for a sequence on which checked_sub(1) succeeds.
SlotOf(sequence) == (sequence + 1) % 2

HasSlot(sequence) == sequence > 0

\* Mutant of HasUpdateLayout: the selected record need not be VALID.
HasUpdateLayoutOnTrial(e, running) ==
    LET a == ActiveEntry(e)
    IN  /\ a # NoEntry
        /\ HasSlot(e[a].sequence)
        /\ SlotOf(e[a].sequence) = running

\* update_layout_from_entries: the selected record must be VALID and must
\* designate the slot that is executing.
HasUpdateLayout(e, running) ==
    LET a == ActiveEntry(e)
    IN  /\ a # NoEntry
        /\ e[a].state = "VALID"
        /\ HasSlot(e[a].sequence)
        /\ SlotOf(e[a].sequence) = running

UpdateLayout(e) ==
    LET a == ActiveEntry(e)
    IN  [active_slot |-> SlotOf(e[a].sequence),
         active_sequence |-> e[a].sequence,
         activation_entry |-> 1 - a]

\* qualified_layout_from_entries: both records VALID, for different slots, the
\* selected one for the executing slot.
HasQualifiedLayout(e, running) ==
    LET a == ActiveEntry(e)
    IN  /\ a # NoEntry
        /\ \A r \in Records : /\ IsSelectable(e[r])
                              /\ e[r].state = "VALID"
                              /\ HasSlot(e[r].sequence)
        /\ SlotOf(e[0].sequence) # SlotOf(e[1].sequence)
        /\ SlotOf(e[a].sequence) = running

\* activation_is_valid
ActivationIsValid(layout, target_slot, sequence, activation_entry) ==
    /\ target_slot \in Slots
    /\ activation_entry \in Records
    /\ target_slot # layout.active_slot
    /\ activation_entry = layout.activation_entry
    /\ HasSlot(sequence) /\ SlotOf(sequence) = target_slot
    /\ sequence > layout.active_sequence

\* next_sequence of src/usb_update.rs; HasNextSequence is its Some case.
NextSequence(current, target_slot) ==
    current + (IF current % 2 = (target_slot + 1) % 2 THEN 2 ELSE 1)

HasNextSequence(current, target_slot) ==
    /\ current # 0
    /\ NextSequence(current, target_slot) <= MaxSequence

\* confirm_running_image up to its write: the selected record is a candidate
\* on trial and designates the executing slot, whose descriptor is the running
\* build's.  descriptor is what the designated slot's first block holds.
ConfirmsRunningImage(e, running, descriptor, build) ==
    LET a == ActiveEntry(e)
    IN  /\ a # NoEntry
        /\ e[a].state = "PENDING_VERIFY"
        /\ HasSlot(e[a].sequence)
        /\ SlotOf(e[a].sequence) = running
        /\ descriptor = build
=============================================================================
