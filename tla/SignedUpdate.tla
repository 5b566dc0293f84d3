---------------------------- MODULE SignedUpdate ----------------------------
(***************************************************************************)
(* Signed A/B update across power cuts: the USB update session             *)
(* (src/usb_update.rs), the boot records (src/platform/ota.rs), the        *)
(* application slots in flash, the bootloader and the anti-rollback floor. *)
(*                                                                         *)
(* A record is replaced in place: its sector is erased and then written.   *)
(* flight holds the replacement between the two; nothing else runs then,   *)
(* but power can fail.  Time is left out here: a deadline may pass at any  *)
(* moment (SessionTimeout), and every operator of UpdateSession is used at *)
(* instant 0, where it never expires a session by itself.                  *)
(***************************************************************************)
EXTENDS OtaData, UpdateSession

CONSTANT
    MaxFloor        \* the largest value of the eFuse secure-version counter

ASSUME FloorAssumption == MaxFloor \in Nat

VARIABLES
    entries,    \* the two otadata records
    slots,      \* the blocks of the two application slots
    floor,      \* secure-version counter in eFuse
    mode,       \* "boot" and "load" (bootloader), "run", "halted" (panic)
    running,    \* the executing slot; the boot index while mode is "load"
    flight,     \* the record replacement under way
    proven      \* per slot: its content answered a CTAP request successfully

vars == <<entries, slots, floor, mode, running, session, flight, proven>>

NoFlight == [entry |-> 0, value |-> ErasedEntry, reason |-> "none"]

\* What the bootloader accepts: a complete image signed by the pinned key and
\* not below the floor (verify_signed_partition, IDF anti-rollback).
Loadable(s) == \E i \in SignedImages :
                  slots[s] = Filled(i) /\ SecureVersion[i] >= floor

\* The running build, read from the slot that is executing.
Build == slots[running][1]

\* The firmware serves requests.
Ready == mode = "run" /\ flight = NoFlight

\* replace_entry up to the erase.
StartReplace(r, value, reason) ==
    /\ entries' = [entries EXCEPT ![r] = ErasedEntry]
    /\ flight' = [entry |-> r, value |-> value, reason |-> reason]

\* Fresh device: record 0 selects slot 0, as tools/prepare-initial-otadata.py
\* seeds it.
Init ==
    /\ entries = [r \in Records |-> IF r = 0 THEN NewEntry(1, "VALID")
                                             ELSE ErasedEntry]
    /\ floor = 0
    /\ \E i \in SignedImages :
          slots = [s \in Slots |-> Filled(IF s = 0 THEN i ELSE Blank)]
    /\ mode = "run" /\ running = 0
    /\ session = NoSession
    /\ flight = NoFlight
    /\ proven = [s \in Slots |-> s = 0]

-----------------------------------------------------------------------------
(* The update session. *)

\* begin with the button pressed.
Begin(image, version) ==
    /\ Ready
    /\ version >= SecureVersion[Build]
    /\ HasUpdateLayout(entries, running)
    /\ LET layout == UpdateLayout(entries)
           target == 1 - layout.active_slot
       IN  /\ HasNextSequence(layout.active_sequence, target)
           /\ session' = StartSession(1, image, version, layout,
                            NextSequence(layout.active_sequence, target), 0)
    /\ UNCHANGED <<entries, slots, floor, mode, running, flight, proven>>

\* advance in Erasing.
EraseBlock ==
    /\ Ready /\ IsLive(session) /\ session.phase = "Erasing"
    /\ slots' = [slots EXCEPT ![session.target_slot][session.completed + 1] = Blank]
    /\ proven' = [proven EXCEPT ![session.target_slot] = FALSE]
    /\ session' = AfterErase(session, 0)
    /\ UNCHANGED <<entries, floor, mode, running, flight>>

\* write of any content the host sends.
WriteBlock(content) ==
    /\ Ready /\ IsLive(session) /\ session.phase = "Receiving"
    /\ session.completed < Blocks
    /\ slots' = [slots EXCEPT ![session.target_slot][session.completed + 1] = content]
    /\ session' = AfterWrite(session, 0)
    /\ UNCHANGED <<entries, floor, mode, running, flight, proven>>

\* finish_verification and activate_update up to the erase of the record.
FinishVerification(s) ==
    LET result == VerificationResult(s, SecureVersion[Build])
        layout == UpdateLayout(entries)
        failure == IF result # "Ok" THEN result
                   ELSE IF ~HasUpdateLayout(entries, running) THEN "Flash"
                   ELSE IF ~SameLayout(s, layout) THEN "ActiveSlotChanged"
                   ELSE IF ~ActivationIsValid(layout, s.target_slot,
                                s.target_sequence, s.activation_entry) THEN "Flash"
                   ELSE "Ok"
    IN  \/ /\ failure # "Ok"
           /\ session' = Fail(s, failure)
           /\ UNCHANGED <<entries, flight>>
        \/ /\ failure = "Ok"
           /\ session' = s
           /\ StartReplace(s.activation_entry,
                           NewEntry(s.target_sequence, "NEW"), "activate")

\* advance in Receiving (everything received) or Verifying.
VerifyBlock ==
    /\ Ready /\ IsLive(session)
    /\ \/ session.phase = "Receiving" /\ session.completed = Blocks
       \/ session.phase = "Verifying"
    /\ LET s == IF session.phase = "Receiving" THEN StartVerifying(session)
                                               ELSE session
           hashed == HashBlock(s, slots[s.target_slot][s.completed + 1])
       IN  \/ /\ hashed.completed # Blocks
              /\ session' = Progress(hashed, 0)
              /\ UNCHANGED <<entries, flight>>
           \/ /\ hashed.completed = Blocks
              /\ FinishVerification(hashed)
    /\ UNCHANGED <<slots, floor, mode, running, proven>>

\* A backend operation fails; a failed erase or write may leave its block torn.
FlashFails ==
    /\ Ready /\ IsLive(session)
    /\ session' = Fail(session, "Flash")
    /\ \/ UNCHANGED <<slots, proven>>
       \/ /\ session.phase \in {"Erasing", "Receiving"}
          /\ session.completed < Blocks
          /\ slots' = [slots EXCEPT
                         ![session.target_slot][session.completed + 1] = Torn]
          /\ proven' = [proven EXCEPT ![session.target_slot] = FALSE]
    /\ UNCHANGED <<entries, floor, mode, running, flight>>

\* poll, or any handler, finds the approval too old.
SessionTimeout ==
    /\ Ready /\ IsLive(session)
    /\ session' = Fail(session, "SessionExpired")
    /\ UNCHANGED <<entries, slots, floor, mode, running, flight, proven>>

\* abort
AbortSession ==
    /\ Ready /\ session # NoSession /\ session.phase # "Activated"
    /\ session' = NoSession
    /\ UNCHANGED <<entries, slots, floor, mode, running, flight, proven>>

-----------------------------------------------------------------------------
(* Boot records. *)

\* A CTAP request succeeded and its reply was queued: confirm_running_image.
\* If the erase fails the record stays and the firmware panics.
ConfirmRunningImage ==
    /\ Ready
    /\ LET a == ActiveEntry(entries)
       IN  /\ a # NoEntry
           /\ ConfirmsRunningImage(entries, running,
                  slots[SlotOf(entries[a].sequence)][1], Build)
           /\ \/ /\ StartReplace(a, [entries[a] EXCEPT !.state = "VALID"], "confirm")
                 /\ mode' = mode
              \/ /\ mode' = "halted"
                 /\ UNCHANGED <<entries, flight>>
    /\ proven' = [proven EXCEPT ![running] = TRUE]
    /\ UNCHANGED <<slots, floor, running, session>>

\* The second half of replace_entry, and what its caller does next.
FinishReplace ==
    /\ flight # NoFlight
    /\ entries' = [entries EXCEPT ![flight.entry] = flight.value]
    /\ flight' = NoFlight
    /\ session' = IF flight.reason = "activate"
                  THEN [session EXCEPT !.phase = "Activated", !.failure = "Ok"]
                  ELSE session
    /\ UNCHANGED <<slots, floor, mode, running, proven>>

\* The write fails, or it succeeds and its readback fails: activation ends the
\* session, confirmation panics (expect in the request loop), the bootloader
\* carries on.
ReplaceFails ==
    /\ flight # NoFlight
    /\ entries' \in {entries, [entries EXCEPT ![flight.entry] = flight.value]}
    /\ flight' = NoFlight
    /\ session' = IF flight.reason = "activate" THEN Fail(session, "Flash") ELSE session
    /\ mode' = IF flight.reason = "confirm" THEN "halted" ELSE mode
    /\ UNCHANGED <<slots, floor, running, proven>>

\* Mutant of RaiseFloor: the images' versions are not compared with the target.
RaiseFloorBlindly(target) ==
    /\ Ready /\ session = NoSession
    /\ HasQualifiedLayout(entries, running)
    /\ target > floor
    /\ floor' \in floor + 1 .. target
    /\ UNCHANGED <<entries, slots, mode, running, session, flight, proven>>

\* Epoch maintenance raises the floor under the plan of the running image: no
\* session, both records VALID for different slots, both images authentic and
\* not below the target.  The plan's digests of this device, its bootloader and
\* its fallback image may be any.  A burn may stop before the target.
RaiseFloor(target) ==
    /\ Ready /\ session = NoSession
    /\ HasQualifiedLayout(entries, running)
    /\ target > floor
    /\ \A s \in Slots : \E i \in SignedImages :
          slots[s] = Filled(i) /\ SecureVersion[i] >= target
    /\ floor' \in floor + 1 .. target
    /\ UNCHANGED <<entries, slots, mode, running, session, flight, proven>>

-----------------------------------------------------------------------------
(* Power and bootloader. *)

PowerOff ==
    /\ mode' = "boot"
    /\ session' = NoSession
    /\ flight' = NoFlight

\* Power fails between two flash operations, or between the erase and the
\* write of a record.
PowerCut ==
    /\ PowerOff
    /\ UNCHANGED <<entries, slots, floor, running, proven>>

\* Power fails inside the erase or the write of a block.
PowerCutInBlock ==
    /\ Ready /\ IsLive(session) /\ session.phase \in {"Erasing", "Receiving"}
    /\ session.completed < Blocks
    /\ slots' = [slots EXCEPT ![session.target_slot][session.completed + 1] = Torn]
    /\ proven' = [proven EXCEPT ![session.target_slot] = FALSE]
    /\ PowerOff
    /\ UNCHANGED <<entries, floor, running>>

\* bootloader_utility_get_selected_boot_partition, first part: a candidate
\* that was started and never confirmed is given up.
BootAbort(r) ==
    /\ mode = "boot" /\ flight = NoFlight
    /\ entries[r].state = "PENDING_VERIFY"
    /\ StartReplace(r, [entries[r] EXCEPT !.state = "ABORTED"], "abort")
    /\ UNCHANGED <<slots, floor, mode, running, session, proven>>

\* Mutant of BootSelect: a started candidate is started again.
BootSelectAgain ==
    /\ mode = "boot" /\ flight = NoFlight
    /\ mode' = "load"
    /\ LET a == ActiveEntry(entries)
       IN  running' = IF a = NoEntry THEN 0 ELSE SlotOf(entries[a].sequence)
    /\ UNCHANGED <<entries, slots, floor, session, flight, proven>>

\* Second part: the boot index, and a NEW candidate becomes PENDING_VERIFY.
BootSelect ==
    /\ mode = "boot" /\ flight = NoFlight
    /\ \A r \in Records : entries[r].state # "PENDING_VERIFY"
    /\ mode' = "load"
    /\ LET a == ActiveEntry(entries)
       IN  /\ running' = IF a = NoEntry THEN 0 ELSE SlotOf(entries[a].sequence)
           /\ \/ /\ a # NoEntry /\ entries[a].state = "NEW"
                 /\ StartReplace(a, [entries[a] EXCEPT !.state = "PENDING_VERIFY"],
                                 "try")
              \/ /\ a = NoEntry \/ entries[a].state # "NEW"
                 /\ UNCHANGED <<entries, flight>>
    /\ UNCHANGED <<slots, floor, session, proven>>

\* Mutant of BootLoad: no fallback to the other slot.
BootLoadSelected ==
    /\ mode = "load" /\ flight = NoFlight
    /\ Loadable(running)
    /\ mode' = "run"
    /\ UNCHANGED <<entries, slots, floor, running, session, flight, proven>>

\* reject_unsigned_partitions and bootloader_utility_load_boot_image: the boot
\* index if it can be loaded, else the other slot.
BootLoad ==
    /\ mode = "load" /\ flight = NoFlight
    /\ \E s \in Slots :
          /\ Loadable(s)
          /\ s # running => ~Loadable(running)
          /\ running' = s
    /\ mode' = "run"
    /\ UNCHANGED <<entries, slots, floor, session, flight, proven>>

\* The image of a candidate that is not executing loses a block, so that the
\* bootloader refuses it.
CandidateDecays ==
    /\ flight = NoFlight
    /\ LET a == ActiveEntry(entries)
           c == SlotOf(entries[a].sequence)
       IN  /\ a # NoEntry
           /\ entries[a].state \in {"NEW", "PENDING_VERIFY"}
           /\ mode \in {"run", "halted"} => running # c
           /\ \E b \in BlockNo : slots' = [slots EXCEPT ![c][b] = Torn]
           /\ proven' = [proven EXCEPT ![c] = FALSE]
    /\ UNCHANGED <<entries, floor, mode, running, session, flight>>

Firmware ==
    \/ \E image \in Images, version \in 0..MaxFloor : Begin(image, version)
    \/ EraseBlock
    \/ \E content \in Images : WriteBlock(content)
    \/ VerifyBlock
    \/ FlashFails
    \/ SessionTimeout
    \/ AbortSession
    \/ ConfirmRunningImage
    \/ \E target \in 1..MaxFloor : RaiseFloor(target)

Replacement == FinishReplace \/ ReplaceFails

Bootloader == (\E r \in Records : BootAbort(r)) \/ BootSelect \/ BootLoad

Next ==
    \/ Firmware
    \/ Replacement
    \/ Bootloader
    \/ PowerCut
    \/ PowerCutInBlock
    \/ CandidateDecays

Spec == Init /\ [][Next]_vars

\* The bootloader runs by itself, and a flash write under way ends.
FairSpec == Spec /\ WF_vars(Bootloader) /\ WF_vars(Replacement)

-----------------------------------------------------------------------------

Sessions ==
    [id : {1}, phase : Phase, target_slot : Slots, active_slot : Slots,
     active_sequence : 0..MaxSequence, activation_entry : Records,
     target_sequence : 0..MaxSequence, expected_image : Images,
     expected_version : Nat, completed : 0..Blocks, hashed : Seq(Content),
     failure : Failures, started_ms : {0}, last_progress_ms : {0},
     last_checked_ms : {0}]

Flights == [entry : Records, value : Entry,
            reason : {"none", "activate", "confirm", "abort", "try"}]

\* Every variable has its type.
TypeOK ==
    /\ entries \in [Records -> Entry]
    /\ slots \in [Slots -> [BlockNo -> Content]]
    /\ floor \in Nat
    /\ mode \in {"boot", "load", "run", "halted"}
    /\ running \in Slots
    /\ session \in Sessions \cup {NoSession}
    /\ flight \in Flights
    /\ proven \in [Slots -> BOOLEAN]

\* At every instant, whatever was interrupted, the bootloader finds a complete
\* signed image that is not below the floor.
AlwaysBootable == \E s \in Slots : Loadable(s)

\* Record r vouches for its slot: it boots and has proven itself there.
Vouches(r) ==
    /\ IsSelectable(entries[r]) /\ entries[r].state = "VALID"
    /\ HasSlot(entries[r].sequence)
    /\ Loadable(SlotOf(entries[r].sequence))
    /\ proven[SlotOf(entries[r].sequence)]

\* The record the bootloader selects is sound: if VALID, its slot boots and its
\* content has proven itself there; if it is a candidate's, the other record is
\* VALID for the other slot, which boots and has proven itself
\* (update_layout_from_entries, activation_is_valid,
\* confirmation_matches_running_image, replace_entry in place).
SelectedRecordSound ==
    LET a == ActiveEntry(entries)
    IN  /\ a # NoEntry
        /\ \/ Vouches(a)
           \/ /\ entries[a].state \in {"NEW", "PENDING_VERIFY"}
              /\ Vouches(1 - a)
              /\ SlotOf(entries[1 - a].sequence) # SlotOf(entries[a].sequence)

\* While a record is being replaced the other one vouches for its slot, and
\* what is about to be written does not undo that: a candidate's record is for
\* the other slot, a confirmed one for a slot that boots and has proven itself.
FlightSound ==
    flight # NoFlight =>
      LET r == flight.entry
          v == flight.value
      IN  /\ entries[r] = ErasedEntry
          /\ Vouches(1 - r)
          /\ \/ /\ v.state \in {"NEW", "PENDING_VERIFY"}
                /\ SlotOf(v.sequence) # SlotOf(entries[1 - r].sequence)
             \/ /\ v.state = "VALID" /\ HasSlot(v.sequence)
                /\ Loadable(SlotOf(v.sequence)) /\ proven[SlotOf(v.sequence)]
             \/ v.state = "ABORTED"
          /\ flight.reason # "none"
          /\ flight.reason = "confirm" => mode = "run"
          /\ flight.reason = "activate" => session \in Sessions

\* A live session belongs to the running firmware, and as long as it may still
\* touch flash the boot records are those it started from.
SessionSound ==
    IsLive(session) =>
      /\ mode = "run"
      /\ flight = NoFlight =>
           LET a == ActiveEntry(entries)
           IN  /\ entries[a].state = "VALID"
               /\ SlotOf(entries[a].sequence) = running
               /\ session.target_slot = 1 - running
               /\ session.phase \in {"Erasing", "Verifying"}
                    => session.completed < Blocks
      /\ flight # NoFlight => flight.reason = "activate"

\* The slot that is executing can be loaded again.
RunningLoadable == mode \in {"run", "halted"} => Loadable(running)

\* The inductive invariant of the proofs.  Without FlightSound a replacement
\* under way could install any record; without SessionSound a session could
\* erase the slot the selected record vouches for.
Inv ==
    /\ TypeOK
    /\ SelectedRecordSound
    /\ FlightSound
    /\ SessionSound
    /\ RunningLoadable

\* The executing slot is never erased or written, by any session, under any
\* boot record.
RunningSlotUntouched ==
    [][mode = "run" => slots'[running] = slots[running]]_vars

\* A completed activation is what the next boot selects, unless the sequence
\* counter has reached the value of an erased record.
ActivationSelected ==
    session # NoSession /\ session.phase = "Activated"
      /\ session.target_sequence < MaxSequence
    => LET a == ActiveEntry(entries)
       IN  /\ a = session.activation_entry
           /\ entries[a].sequence = session.target_sequence
           /\ entries[a].state = "NEW"

\* If power stays on, the bootloader reaches an application.
BootCompletes ==
    <>[][~(PowerCut \/ PowerCutInBlock)]_vars => (mode = "boot" ~> mode = "run")
=============================================================================
