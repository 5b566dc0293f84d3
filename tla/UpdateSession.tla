--------------------------- MODULE UpdateSession ---------------------------
(***************************************************************************)
(* The update session of src/usb_update.rs as operators on its record:     *)
(* what begin, write, advance, poll and abort make of the session once the *)
(* backend has answered.                                                   *)
(*                                                                         *)
(* An image is an abstract value; equal hashes mean equal values.  Sizes   *)
(* are counted in blocks: one erase step, one write chunk and one          *)
(* verification step each cover one block.                                 *)
(***************************************************************************)
EXTENDS Naturals, Sequences

CONSTANTS
    Images,         \* complete images a host may name or send
    SignedImages,   \* the images that carry a valid signature of the pinned key
    SecureVersion,  \* the secure_version of each image's descriptor
    Blocks,         \* blocks of an image, a constant of the model
    IdleTimeout,    \* SESSION_IDLE_TIMEOUT_MS
    MaxLifetime,    \* SESSION_MAX_LIFETIME_MS
    NoSession,      \* Option::None of UsbUpdater.session
    Blank,          \* content of an erased block
    Torn            \* content of a block whose erase or write was cut short

ASSUME ImagesAssumption ==
    /\ SignedImages \subseteq Images
    /\ SecureVersion \in [Images -> Nat]
    /\ Blocks \in Nat \ {0}

ASSUME ContentAssumption == Blank \notin Images /\ Torn \notin Images

ASSUME DeadlineAssumption ==
    /\ IdleTimeout \in Nat \ {0}
    /\ MaxLifetime \in Nat \ {0}

VARIABLE
    session         \* UsbUpdater.session

Content == Images \cup {Blank, Torn}
BlockNo == 1..Blocks

Filled(i) == [b \in BlockNo |-> i]

Phase == {"Erasing", "Receiving", "Verifying", "Activated", "Failed"}

\* The phases in which the physical approval is still usable.
Live == {"Erasing", "Receiving", "Verifying"}

Failures == {"Ok", "SessionExpired", "Flash", "HashMismatch", "Rollback",
             "VersionMismatch", "Signature", "ActiveSlotChanged"}

IsLive(s) == s # NoSession /\ s.phase \in Live

\* fail
Fail(s, status) == [s EXCEPT !.phase = "Failed", !.failure = status]

\* The three clauses of Session::expire.
Overdue(s, now) ==
    \/ now < s.last_checked_ms
    \/ now - s.started_ms >= MaxLifetime
    \/ now - s.last_progress_ms >= IdleTimeout

\* Session::expire: the session afterwards, and the result it reports.
Expire(s, now) ==
    IF s.phase \notin Live
    THEN s
    ELSE LET checked == [s EXCEPT !.last_checked_ms = now]
         IN  IF Overdue(s, now) THEN Fail(checked, "SessionExpired") ELSE checked

Expired(s, now) ==
    IF s.phase \notin Live THEN s.failure = "SessionExpired" ELSE Overdue(s, now)

\* Session::progress
Progress(s, now) ==
    IF Expired(s, now)
    THEN Expire(s, now)
    ELSE [Expire(s, now) EXCEPT !.last_progress_ms = now]

\* Mutant of StartSession: the update is aimed at the active slot.
StartSessionActive(id, image, version, layout, target_sequence, now) ==
    [id |-> id, phase |-> "Erasing",
     target_slot |-> layout.active_slot,
     active_slot |-> layout.active_slot,
     active_sequence |-> layout.active_sequence,
     activation_entry |-> layout.activation_entry,
     target_sequence |-> target_sequence,
     expected_image |-> image, expected_version |-> version,
     completed |-> 0, hashed |-> <<>>, failure |-> "Ok",
     started_ms |-> now, last_progress_ms |-> now, last_checked_ms |-> now]

\* The session begin installs.
StartSession(id, image, version, layout, target_sequence, now) ==
    [id |-> id, phase |-> "Erasing",
     target_slot |-> 1 - layout.active_slot,
     active_slot |-> layout.active_slot,
     active_sequence |-> layout.active_sequence,
     activation_entry |-> layout.activation_entry,
     target_sequence |-> target_sequence,
     expected_image |-> image, expected_version |-> version,
     completed |-> 0, hashed |-> <<>>, failure |-> "Ok",
     started_ms |-> now, last_progress_ms |-> now, last_checked_ms |-> now]

\* Mutant of AfterErase: the last block is not erased.
AfterEraseEarly(s, now) ==
    LET done == s.completed + 1
    IN  Progress(IF done + 1 >= Blocks
                 THEN [s EXCEPT !.completed = 0, !.phase = "Receiving"]
                 ELSE [s EXCEPT !.completed = done], now)

\* advance in Erasing, after the backend erased block completed + 1.
AfterErase(s, now) ==
    LET done == s.completed + 1
    IN  Progress(IF done = Blocks
                 THEN [s EXCEPT !.completed = 0, !.phase = "Receiving"]
                 ELSE [s EXCEPT !.completed = done], now)

\* write, after the backend programmed block completed + 1.
AfterWrite(s, now) == Progress([s EXCEPT !.completed = @ + 1], now)

\* advance in Receiving, with every block received.
StartVerifying(s) ==
    [s EXCEPT !.phase = "Verifying", !.completed = 0, !.hashed = <<>>]

\* One turn of verify_step's loop: the block read back joins the two hashes.
HashBlock(s, content) ==
    [s EXCEPT !.completed = @ + 1, !.hashed = Append(@, content)]

\* The checks of finish_verification before it looks at the layout again, as
\* the failure they end in ("Ok" if none): complete hash, running firmware's
\* floor, descriptor against the claim, signature by the pinned key.
VerificationResult(s, current_secure_version) ==
    LET image == s.expected_image
    IN  IF s.hashed # [b \in 1..Blocks |-> image]
        THEN "HashMismatch"
        ELSE IF SecureVersion[image] < current_secure_version
        THEN "Rollback"
        ELSE IF SecureVersion[image] # s.expected_version
        THEN "VersionMismatch"
        ELSE IF image \notin SignedImages
        THEN "Signature"
        ELSE "Ok"

\* finish_verification's comparison of the session with the layout re-read.
SameLayout(s, layout) ==
    /\ layout.active_slot = s.active_slot
    /\ layout.active_sequence = s.active_sequence
    /\ layout.activation_entry = s.activation_entry
=============================================================================
