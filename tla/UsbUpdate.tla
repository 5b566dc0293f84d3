----------------------------- MODULE UsbUpdate -----------------------------
(***************************************************************************)
(* UsbUpdater of src/usb_update.rs against the clock: every request of the *)
(* update protocol, with the instants at which the handlers read the clock *)
(* and with backend operations that take time or fail.  Boot records are   *)
(* the subject of SignedUpdate; here the layout does not change.           *)
(*                                                                         *)
(* approval, approved and touched are history variables: when and for      *)
(* which image the button was last pressed, and the instant of the last    *)
(* operation that made progress.                                           *)
(***************************************************************************)
EXTENDS UpdateSession

CONSTANTS
    CurrentVersion, \* secure_version of the running firmware
    IdMod,          \* session identifiers wrap at this value (2^32)
    OpTime,         \* bound: the longest a backend operation takes
    MaxClock        \* bound: the last instant of the model

ASSUME ClockAssumption ==
    /\ CurrentVersion \in Nat
    /\ IdMod \in Nat /\ IdMod > 2
    /\ OpTime \in Nat
    /\ MaxClock \in Nat /\ MaxClock >= MaxLifetime

VARIABLES
    now,                \* backend.now_ms()
    next_session_id,    \* UsbUpdater.next_session_id
    flash,              \* the blocks of the inactive slot
    approval, approved, touched

protocol_vars == <<now, session, next_session_id, flash,
          approval, approved, touched>>

history == <<approval, approved, touched>>

\* What layout() answers: slot 0 runs under record 0, sequence 1.
Layout == [active_slot |-> 0, active_sequence |-> 1, activation_entry |-> 1]

\* UsbUpdater::poll, which handle also runs before every request.
Polled == IF session = NoSession THEN NoSession ELSE Expire(session, now)

\* The instants a handler entered now may end at.
Later == {t \in now .. now + OpTime : t <= MaxClock}

ProtocolInit ==
    /\ now = 0
    /\ session = NoSession
    /\ next_session_id = 1
    /\ \E c \in Images \cup {Blank} : flash = Filled(c)
    /\ approval = 0 /\ approved = Blank /\ touched = 0

\* A request that leaves everything but the polled session alone: a refusal,
\* or a query.  The status byte of the response is left out.
Answer ==
    /\ session' = Polled
    /\ UNCHANGED <<now, next_session_id, flash, history>>

\* begin: refused, also when layout() fails, or a new session.  Bound: no
\* session that could outlive the clock of the model.
HandleBegin(image, version, user_present) ==
    \/ Answer
    \/ /\ version >= CurrentVersion /\ user_present
       /\ now + MaxLifetime <= MaxClock
       /\ \E t \in Later :
             /\ session' = Progress(StartSession(next_session_id, image, version,
                                                Layout, 2, now), t)
             /\ now' = t
             /\ touched' = IF session'.phase = "Failed" THEN now ELSE t
       /\ next_session_id' = LET n == (next_session_id + 1) % IdMod
                             IN  IF n = 0 THEN 1 ELSE n
       /\ approval' = now
       /\ approved' = image
       /\ UNCHANGED flash

\* The checks write and advance share.
Accepted(id) ==
    Polled # NoSession /\ Polled.id = id /\ ~Expired(Polled, now)

\* A backend erase or write fails; its block may be torn.
BackendFails(block) ==
    /\ session' = Fail(Polled, "Flash")
    /\ flash' \in {flash, [flash EXCEPT ![block] = Torn]}
    /\ UNCHANGED <<now, next_session_id, history>>

\* A backend operation succeeded and the handler ends at t with session s.
Advanced(s, t) ==
    /\ session' = s
    /\ now' = t
    /\ touched' = IF s.phase = "Failed" THEN touched ELSE t
    /\ UNCHANGED <<next_session_id, approval, approved>>

\* write of one block: in order, and not past the image size.
Write(id, offset, content) ==
    IF /\ Accepted(id)
       /\ Polled.phase = "Receiving"
       /\ offset = Polled.completed
       /\ offset + 1 <= Blocks
    THEN \/ BackendFails(offset + 1)
         \/ /\ flash' = [flash EXCEPT ![offset + 1] = content]
            /\ \E t \in Later : Advanced(AfterWrite(Polled, t), t)
    ELSE Answer

\* advance in Erasing.
AdvanceErase ==
    \/ BackendFails(Polled.completed + 1)
    \/ /\ flash' = [flash EXCEPT ![Polled.completed + 1] = Blank]
       /\ \E t \in Later : Advanced(AfterErase(Polled, t), t)

\* Mutant of FinishVerificationAt: no expiry check after the RSA verification.
FinishVerificationAtLate(s, t) ==
    LET result == VerificationResult(s, CurrentVersion)
    IN  \/ result # "Ok" /\ Advanced(Fail(s, result), t)
        \/ /\ result = "Ok"
           /\ \E u \in t .. t + OpTime :
                 /\ u <= MaxClock
                 /\ Advanced([s EXCEPT !.phase = "Activated"], u)

\* finish_verification at instant t: the last expiry check is the last thing
\* before the activation, and the clock is read again for it.
FinishVerificationAt(s, t) ==
    LET result == VerificationResult(s, CurrentVersion)
    IN  \/ result # "Ok" /\ Advanced(Fail(s, result), t)
        \/ /\ result = "Ok"
           /\ \E u \in t .. t + OpTime :
                 /\ u <= MaxClock
                 /\ \/ Expired(s, u) /\ Advanced(Expire(s, u), u)
                    \/ /\ ~Expired(s, u)
                       /\ \/ Advanced([Expire(s, u) EXCEPT !.phase = "Activated"], u)
                          \/ Advanced(Fail(Expire(s, u), "Flash"), u)

\* verify_step over one block, from s; the read ends at t.
VerifyStep(s) ==
    \E t \in Later :
       LET hashed == HashBlock(s, flash[s.completed + 1])
       IN  /\ UNCHANGED flash
           /\ \/ Advanced(Fail(s, "Flash"), t)
              \/ Expired(hashed, t) /\ Advanced(Expire(hashed, t), t)
              \/ /\ ~Expired(hashed, t)
                 /\ IF hashed.completed = Blocks
                    THEN FinishVerificationAt(Expire(hashed, t), t)
                    ELSE Advanced(Progress(hashed, t), t)

\* advance: a session that is activated, failed or still receives is only
\* reported.
Advance(id) ==
    IF ~Accepted(id)
    THEN Answer
    ELSE CASE Polled.phase = "Erasing" -> AdvanceErase
           [] Polled.phase = "Receiving" /\ Polled.completed = Blocks ->
                 VerifyStep(StartVerifying(Polled))
           [] Polled.phase = "Verifying" -> VerifyStep(Polled)
           [] OTHER -> Answer

\* abort: an activated session stays.
Abort(id) ==
    IF Polled # NoSession /\ Polled.id = id /\ Polled.phase # "Activated"
    THEN /\ session' = NoSession
         /\ UNCHANGED <<now, next_session_id, flash, history>>
    ELSE Answer

\* Mutant of Poll: nothing revokes the approval of a silent host.
PollNothing == UNCHANGED protocol_vars

\* The firmware's loop polls the updater on every turn; a STATUS request does
\* the same and reports.
Poll == Answer

Tick ==
    /\ now < MaxClock
    /\ now' = now + 1
    /\ UNCHANGED <<session, next_session_id, flash, history>>

Ids == 1 .. IdMod - 1

Versions == {SecureVersion[i] : i \in Images}

ProtocolNext ==
    \/ \E image \in Images, version \in Versions, present \in BOOLEAN :
          HandleBegin(image, version, present)
    \/ \E id \in Ids, offset \in 0..Blocks, content \in Images :
          Write(id, offset, content)
    \/ \E id \in Ids : Advance(id) \/ Abort(id)
    \/ Poll
    \/ Tick

ProtocolSpec == ProtocolInit /\ [][ProtocolNext]_protocol_vars

\* Time passes and the main loop keeps polling.
ProtocolFairSpec == ProtocolSpec /\ WF_protocol_vars(Poll) /\ WF_protocol_vars(Tick)

-----------------------------------------------------------------------------

\* The step that writes the new boot record.
Activates ==
    /\ session' # NoSession /\ session'.phase = "Activated"
    /\ session # NoSession => session.phase # "Activated"

\* "A single physical approval never authorizes more than fifteen minutes": no
\* block is erased or written by a request that arrives after the approval is
\* too old or has been idle too long, and none before any approval
\* (Session::expire at the entry of write and advance).  The activation is held
\* to it at the very instant it is written, so that neither the readback nor
\* the RSA check carries a lapsed approval past its deadline, and what is
\* activated then is the image the approved BEGIN named, complete in flash,
\* signed, and not older than the running one (finish_verification).
FreshApproval ==
    [][/\ flash' # flash => /\ approved # Blank
                           /\ now - approval < MaxLifetime
                           /\ now - touched < IdleTimeout
       /\ Activates => /\ now' - approval < MaxLifetime
                       /\ now' - touched < IdleTimeout
                       /\ flash = Filled(approved)
                       /\ approved \in SignedImages
                       /\ SecureVersion[approved] >= CurrentVersion]_protocol_vars

\* NOR flash: a block is only programmed when it is erased, also after a
\* failed, aborted, expired or replaced session (advance, write).
ProgramOnlyErased ==
    [][\A b \in BlockNo :
         flash'[b] # flash[b] /\ flash'[b] \in Images => flash[b] = Blank]_protocol_vars

\* An approved session that the host abandons is revoked by the device alone:
\* a live session ends (expire, poll).
ApprovalLapses ==
    \A id \in Ids :
      IsLive(session) /\ session.id = id
        ~> ~(IsLive(session) /\ session.id = id)
=============================================================================
