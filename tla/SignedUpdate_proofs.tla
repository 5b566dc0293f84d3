------------------------ MODULE SignedUpdate_proofs ------------------------
(***************************************************************************)
(* Proofs about SignedUpdate, for every image set, block count, sequence   *)
(* bound and floor, and that it implements ABDevice; then about UsbUpdate, *)
(* for every deadline, operation time and clock.                           *)
(***************************************************************************)
EXTENDS UpdateRefinement, UsbUpdate, SequenceTheorems, TLAPS

\* What the provers need of the constants.
USE DEF Slots, Records, NoEntry

\* The session ended in an activation.
Activated(s) == s # NoSession /\ s.phase = "Activated"

\* finish_verification accepts the image: what VerifyBlock does then.
ActivationStarts(s) ==
    /\ s \in Sessions /\ s.phase = "Verifying" /\ session' = s
    /\ HasUpdateLayout(entries, running)
    /\ ActivationIsValid(UpdateLayout(entries), s.target_slot,
                         s.target_sequence, s.activation_entry)
    /\ StartReplace(s.activation_entry, NewEntry(s.target_sequence, "NEW"), "activate")

\* active_entry answers a selectable record or none, and a selectable record
\* is never passed over for none.
LEMMA ActiveIsSelectable ==
  ASSUME NEW e \in [Records -> Entry]
  PROVE  /\ ActiveEntry(e) \in Records \cup {NoEntry}
         /\ ActiveEntry(e) # NoEntry => IsSelectable(e[ActiveEntry(e)])
         /\ \A r \in Records : IsSelectable(e[r]) => ActiveEntry(e) # NoEntry
BY DEF ActiveEntry

\* Slots are numbered 0 and 1.
LEMMA SlotOfType == ASSUME NEW n \in Nat PROVE SlotOf(n) \in Slots
BY DEF SlotOf

\* An erased record and an aborted one are never selected.
LEMMA NotSelectable ==
  /\ ~IsSelectable(ErasedEntry)
  /\ \A v : v.state = "ABORTED" => ~IsSelectable(v)
BY DEF IsSelectable, ErasedEntry

\* At instant 0 no deadline has passed: progress only leaves the session alone.
LEMMA NoExpiryAtZero ==
  ASSUME NEW s \in Sessions, s.phase \in Live
  PROVE  /\ Progress(s, 0) = s
         /\ ~Expired(s, 0)
<1>1. ~Overdue(s, 0)
  BY DeadlineAssumption DEF Overdue, Sessions
<1>2. ~Expired(s, 0)
  BY <1>1 DEF Expired
<1>3. Expire(s, 0) = [s EXCEPT !.last_checked_ms = 0]
  BY <1>1 DEF Expire
<1>4. s.last_checked_ms = 0 /\ s.last_progress_ms = 0
  BY DEF Sessions
<1>5. [s EXCEPT !.last_checked_ms = 0] = s /\ [s EXCEPT !.last_progress_ms = 0] = s
  BY <1>4 DEF Sessions
<1> QED BY <1>2, <1>3, <1>5 DEF Progress

-----------------------------------------------------------------------------
(* What a step leaves of the selected record. *)

\* Records, slots, floor and proofs untouched: the selection is as sound as
\* before.
LEMMA FrameRecords ==
  ASSUME UNCHANGED <<entries, slots, floor, proven>>
  PROVE  /\ \A s \in Slots : Loadable(s)' <=> Loadable(s)
         /\ \A r \in Records : Vouches(r)' <=> Vouches(r)
         /\ SelectedRecordSound' <=> SelectedRecordSound
BY DEF Loadable, Vouches, SelectedRecordSound

\* A record that vouches for a slot other than t survives what happens to t.
LEMMA FrameSlot ==
  ASSUME TypeOK, NEW t \in Slots, NEW r \in Records,
         UNCHANGED <<entries, floor>>,
         slots'[1 - t] = slots[1 - t], proven'[1 - t] = proven[1 - t],
         Vouches(r), SlotOf(entries[r].sequence) # t
  PROVE  Vouches(r)'
<1>1. SlotOf(entries[r].sequence) = 1 - t
  BY SlotOfType DEF TypeOK, Entry
<1> QED BY <1>1 DEF Vouches, Loadable

\* Starting to replace record r selects the other one, which must vouch.
LEMMA ReplaceStarts ==
  ASSUME TypeOK, NEW r \in Records, NEW v, NEW reason,
         StartReplace(r, v, reason), Vouches(1 - r),
         UNCHANGED <<slots, floor>>,
         \A s \in Slots : proven[s] => proven'[s]
  PROVE  /\ entries'[r] = ErasedEntry
         /\ entries'[1 - r] = entries[1 - r]
         /\ Vouches(1 - r)'
         /\ SelectedRecordSound'
<1>1. entries'[r] = ErasedEntry /\ entries'[1 - r] = entries[1 - r]
  BY DEF StartReplace, TypeOK
<1>2. Vouches(1 - r)'
  BY <1>1, SlotOfType DEF Vouches, Loadable, TypeOK, Entry
<1>3. ActiveEntry(entries') = 1 - r
  BY <1>1, <1>2, NotSelectable DEF ActiveEntry, Vouches
<1> QED BY <1>1, <1>2, <1>3 DEF SelectedRecordSound

\* Ending a replacement that FlightSound covers leaves a sound selection,
\* whether or not the record was written.
LEMMA ReplaceEnds ==
  ASSUME TypeOK, FlightSound, SelectedRecordSound, flight # NoFlight,
         NEW r \in Records, NEW v \in Entry,
         r = flight.entry, v = flight.value,
         entries' \in {entries, [entries EXCEPT ![r] = v]},
         UNCHANGED <<slots, floor, proven>>
  PROVE  SelectedRecordSound'
<1>1. Vouches(1 - r)
  BY DEF FlightSound
<1>2. CASE entries' = entries
  BY <1>2, FrameRecords
<1>3. CASE entries' = [entries EXCEPT ![r] = v]
  <2>1. entries'[r] = v /\ entries'[1 - r] = entries[1 - r]
    BY <1>1, <1>3 DEF TypeOK
  <2>2. Vouches(1 - r)'
    BY <1>1, <2>1 DEF Vouches, Loadable
  <2>3. ActiveEntry(entries') \in {r, 1 - r}
    BY <1>1, <2>2 DEF Vouches, ActiveEntry
  <2>4. CASE ActiveEntry(entries') = 1 - r
    BY <1>1, <2>2, <2>4 DEF SelectedRecordSound
  <2>5. CASE ActiveEntry(entries') = r
    <3>1. IsSelectable(v)
      BY <1>1, <2>1, <2>5 DEF ActiveEntry
    <3>2. CASE v.state \in {"NEW", "PENDING_VERIFY"}
      BY <1>1, <2>1, <2>2, <2>5, <3>2 DEF SelectedRecordSound, FlightSound
    <3>3. CASE v.state = "VALID"
      <4>1. HasSlot(v.sequence) /\ Loadable(SlotOf(v.sequence)) /\ proven[SlotOf(v.sequence)]
        BY <3>3 DEF FlightSound
      <4>2. Vouches(r)'
        BY <2>1, <3>1, <3>3, <4>1 DEF Vouches, Loadable
      <4> QED BY <1>1, <2>5, <4>2 DEF SelectedRecordSound
    <3>4. CASE v.state = "ABORTED"
      BY <3>1, <3>4, NotSelectable
    <3> QED BY <3>2, <3>3, <3>4 DEF FlightSound
  <2> QED BY <2>3, <2>4, <2>5
<1> QED BY <1>2, <1>3

-----------------------------------------------------------------------------
(* The inductive invariant. *)

LEMMA InvInit == Init => Inv
<1> SUFFICES ASSUME Init PROVE Inv
  OBVIOUS
<1> USE DEF Init
<1>1. PICK i \in SignedImages :
         slots = [s \in Slots |-> Filled(IF s = 0 THEN i ELSE Blank)]
  OBVIOUS
<1>2. i \in Images /\ SecureVersion[i] \in Nat
  BY ImagesAssumption
<1>3. Loadable(0)
  BY <1>1, <1>2 DEF Loadable
<1>4. entries[0] = NewEntry(1, "VALID") /\ entries[1] = ErasedEntry
  OBVIOUS
<1>5. TypeOK
  <2>1. entries \in [Records -> Entry]
    BY SequenceAssumption DEF Entry, NewEntry, ErasedEntry, States
  <2>2. slots \in [Slots -> [BlockNo -> Content]]
    BY <1>1, <1>2 DEF Filled, Content
  <2>3. flight \in Flights
    BY SequenceAssumption DEF NoFlight, Flights, ErasedEntry, Entry, States
  <2> QED BY <2>1, <2>2, <2>3 DEF TypeOK
<1>6. Vouches(0)
  <2>1. /\ entries[0].sequence = 1 /\ entries[0].state = "VALID"
        /\ entries[0].crc_ok
    BY <1>4 DEF NewEntry
  <2>2. SlotOf(1) = 0 /\ HasSlot(1) /\ 1 # MaxSequence
    BY SequenceAssumption DEF SlotOf, HasSlot
  <2>3. proven[0]
    OBVIOUS
  <2> QED BY <1>3, <2>1, <2>2, <2>3 DEF Vouches, IsSelectable
<1>7. ActiveEntry(entries) = 0
  BY <1>4, <1>6, NotSelectable DEF ActiveEntry, Vouches
<1>8. SelectedRecordSound
  BY <1>6, <1>7 DEF SelectedRecordSound
<1> QED BY <1>3, <1>5, <1>8
        DEF Inv, FlightSound, SessionSound, RunningLoadable, IsLive

\* begin: the layout is VALID and designates the running slot.
LEMMA BeginStep ==
  ASSUME Inv, NEW image \in Images, NEW version \in 0..MaxFloor,
         Begin(image, version)
  PROVE  Inv' /\ ~Activated(session')
<1> USE DEF Inv, Begin, Ready
<1> DEFINE layout == UpdateLayout(entries)
           target == 1 - layout.active_slot
<1>1. HasUpdateLayout(entries, running)
  OBVIOUS
<1>2. PICK a \in Records : a = ActiveEntry(entries)
  BY <1>1, ActiveIsSelectable DEF HasUpdateLayout, TypeOK
<1>3. /\ entries[a].state = "VALID"
      /\ SlotOf(entries[a].sequence) = running
      /\ entries[a].sequence \in 0..MaxSequence
  BY <1>1, <1>2 DEF HasUpdateLayout, TypeOK, Entry
<1>4. /\ layout.active_slot = running
      /\ layout.active_sequence = entries[a].sequence
      /\ layout.activation_entry = 1 - a
  BY <1>2, <1>3 DEF UpdateLayout
<1>5. NextSequence(layout.active_sequence, target) \in 0..MaxSequence
  BY <1>3, <1>4, SequenceAssumption DEF HasNextSequence, NextSequence, TypeOK
<1>6. /\ session' \in Sessions
      /\ session'.phase = "Erasing" /\ session'.completed = 0
      /\ session'.target_slot = 1 - running
  BY <1>3, <1>4, <1>5, ImagesAssumption, ContentAssumption
     DEF StartSession, Sessions, Phase, Failures, TypeOK
<1>7. TypeOK'
  BY <1>6 DEF TypeOK
<1>8. SelectedRecordSound' /\ RunningLoadable'
  BY FrameRecords DEF RunningLoadable, TypeOK
<1>9. FlightSound'
  BY DEF FlightSound
<1>10. SessionSound'
  BY <1>2, <1>3, <1>6, ImagesAssumption DEF SessionSound
<1> QED BY <1>6, <1>7, <1>8, <1>9, <1>10 DEF Activated

\* What a live session that may touch flash knows of the records: the selected
\* one vouches for the running slot, the session targets the other.
LEMMA LiveSession ==
  ASSUME Inv, IsLive(session), flight = NoFlight,
         NEW a, a = ActiveEntry(entries)
  PROVE  /\ a \in Records /\ Vouches(a)
         /\ SlotOf(entries[a].sequence) = running
         /\ running \in Slots /\ session \in Sessions
         /\ session.target_slot = 1 - running
<1> USE DEF Inv
<1>1. session \in Sessions /\ running \in Slots
  BY DEF TypeOK, IsLive
<1>2. a \in Records
  BY ActiveIsSelectable DEF SelectedRecordSound, TypeOK
<1>3. entries[a].state = "VALID" /\ SlotOf(entries[a].sequence) = running
      /\ session.target_slot = 1 - running
  BY DEF SessionSound
<1>4. Vouches(a)
  BY <1>3 DEF SelectedRecordSound
<1> QED BY <1>1, <1>2, <1>3, <1>4

\* A step of a live session that changes at most the target slot, and leaves
\* the session live on the same target or ends it, keeps the invariant.
LEMMA SessionStep ==
  ASSUME Inv, Ready, IsLive(session),
         UNCHANGED <<entries, floor, running, flight>>,
         slots' \in [Slots -> [BlockNo -> Content]],
         proven' \in [Slots -> BOOLEAN],
         slots'[running] = slots[running], proven'[running] = proven[running],
         \/ mode' = "run"
         \/ mode' = "boot" /\ session' = NoSession,
         session' \in Sessions \cup {NoSession},
         IsLive(session') =>
           /\ session'.target_slot = session.target_slot
           /\ session'.phase \in {"Erasing", "Verifying"}
                => session'.completed < Blocks
  PROVE  Inv'
<1> USE DEF Inv, Ready
<1>1. PICK a \in Records : a = ActiveEntry(entries)
  BY LiveSession
<1>2. /\ Vouches(a) /\ SlotOf(entries[a].sequence) = running
      /\ running \in Slots /\ session.target_slot = 1 - running
  BY <1>1, LiveSession
<1>3. PICK t \in Slots : t = 1 - running
  BY <1>2
<1>4. Vouches(a)'
  BY <1>2, <1>3, FrameSlot
<1>5. TypeOK'
  BY DEF TypeOK
<1>6. SelectedRecordSound'
  BY <1>1, <1>4 DEF SelectedRecordSound
<1>7. RunningLoadable'
  BY <1>2 DEF RunningLoadable, Loadable
<1>8. FlightSound'
  BY DEF FlightSound
<1>9. SessionSound'
  BY <1>1, <1>2, <1>4 DEF SessionSound, Vouches, IsLive
<1> QED BY <1>5, <1>6, <1>7, <1>8, <1>9

\* Writing one block of the target slot leaves the running slot alone.
LEMMA TargetBlock ==
  ASSUME Inv, IsLive(session), flight = NoFlight, NEW c \in Content,
         NEW b,
         slots' = [slots EXCEPT ![session.target_slot][b] = c]
  PROVE  /\ slots' \in [Slots -> [BlockNo -> Content]]
         /\ slots'[running] = slots[running]
<1>1. running \in Slots /\ session.target_slot = 1 - running
  BY LiveSession
<1>2. slots \in [Slots -> [BlockNo -> Content]]
  BY DEF Inv, TypeOK
<1>3. slots[session.target_slot] \in [BlockNo -> Content]
  BY <1>1, <1>2
<1>4. [slots[session.target_slot] EXCEPT ![b] = c] \in [BlockNo -> Content]
  BY <1>3
<1>5. slots' = [slots EXCEPT ![session.target_slot] =
                   [slots[session.target_slot] EXCEPT ![b] = c]]
  OBVIOUS
<1> QED BY <1>1, <1>2, <1>4, <1>5

LEMMA TargetProof ==
  ASSUME Inv, IsLive(session), flight = NoFlight,
         proven' = [proven EXCEPT ![session.target_slot] = FALSE]
  PROVE  /\ proven' \in [Slots -> BOOLEAN]
         /\ proven'[running] = proven[running]
<1>1. running \in Slots /\ session.target_slot = 1 - running
  BY LiveSession
<1>2. proven \in [Slots -> BOOLEAN]
  BY DEF Inv, TypeOK
<1>3. session.target_slot # running
  BY <1>1
<1>4. proven' \in [Slots -> BOOLEAN]
  BY <1>2, Zenon
<1>5. proven'[running] = proven[running]
  BY <1>1, <1>2, <1>3, Zenon
<1> QED BY <1>4, <1>5

LEMMA EraseStep == ASSUME Inv, EraseBlock PROVE Inv' /\ ~Activated(session')
<1> USE DEF EraseBlock
<1>1. Ready /\ IsLive(session) /\ flight = NoFlight
  BY DEF Ready
<1>2. session \in Sessions
  BY <1>1, LiveSession
<1>3. session.completed < Blocks /\ session.completed \in 0..Blocks /\ Blocks \in Nat
  BY <1>1, <1>2, ImagesAssumption DEF Inv, SessionSound, Sessions
<1> DEFINE done == session.completed + 1
           erased == IF done = Blocks
                     THEN [session EXCEPT !.completed = 0, !.phase = "Receiving"]
                     ELSE [session EXCEPT !.completed = done]
<1>4. /\ erased \in Sessions /\ erased.phase \in Live
      /\ erased.target_slot = session.target_slot
      /\ erased.phase \in {"Erasing", "Verifying"} => erased.completed < Blocks
  <2>1. CASE done = Blocks
    <3>1. 0 \in 0..Blocks
      BY <1>3
    <3>2. erased = [session EXCEPT !.completed = 0, !.phase = "Receiving"]
      BY <2>1
    <3>3. erased \in Sessions
      BY <1>2, <3>1, <3>2 DEF Sessions, Phase
    <3> QED BY <1>2, <3>2, <3>3 DEF Sessions, Live
  <2>2. CASE done # Blocks
    BY <1>1, <1>2, <1>3, <2>2 DEF Sessions, Phase, Live, IsLive
  <2> QED BY <2>1, <2>2
<1>5. session' = erased
  BY <1>4, NoExpiryAtZero DEF AfterErase
<1>6. Blank \in Content
  BY DEF Content
<1>7. /\ slots' \in [Slots -> [BlockNo -> Content]]
      /\ slots'[running] = slots[running]
  BY <1>1, <1>6, TargetBlock
<1>8. /\ proven' \in [Slots -> BOOLEAN] /\ proven'[running] = proven[running]
  BY <1>1, TargetProof
<1>9. ~Activated(session')
  BY <1>4, <1>5 DEF Activated, Live
<1> QED BY <1>1, <1>4, <1>5, <1>7, <1>8, <1>9, SessionStep DEF Ready, Inv, TypeOK

LEMMA WriteStep ==
  ASSUME Inv, NEW content \in Images, WriteBlock(content)
  PROVE  Inv' /\ ~Activated(session')
<1> USE DEF WriteBlock
<1>1. Ready /\ IsLive(session) /\ flight = NoFlight
  BY DEF Ready
<1>2. session \in Sessions /\ running \in Slots
  BY <1>1, LiveSession
<1> DEFINE next == session.completed + 1
           written == [session EXCEPT !.completed = next]
<1>3. next \in 0..Blocks
  BY <1>2, ImagesAssumption DEF Sessions
<1>4. /\ written \in Sessions /\ written.phase = "Receiving"
      /\ written.target_slot = session.target_slot
  <2> HIDE DEF next
  <2> QED BY <1>2, <1>3 DEF Sessions
<1>5. session' = written
  BY <1>4, NoExpiryAtZero DEF AfterWrite, Live
<1>6. /\ slots' \in [Slots -> [BlockNo -> Content]]
      /\ slots'[running] = slots[running]
  BY <1>1, TargetBlock DEF Content
<1>7. ~Activated(session')
  BY <1>4, <1>5 DEF Activated
<1> QED BY <1>1, <1>2, <1>4, <1>5, <1>6, <1>7, SessionStep DEF Ready, Inv, TypeOK

\* Ending a session keeps its type.
LEMMA FailType ==
  ASSUME NEW s \in Sessions, NEW code \in Failures
  PROVE  /\ Fail(s, code) \in Sessions
         /\ ~IsLive(Fail(s, code)) /\ ~Activated(Fail(s, code))
BY DEF Fail, Sessions, Phase, IsLive, Live, Activated

LEMMA FlashFailsStep == ASSUME Inv, FlashFails PROVE Inv' /\ ~Activated(session')
<1> USE DEF FlashFails
<1>1. Ready /\ IsLive(session) /\ flight = NoFlight
  BY DEF Ready
<1>2. session \in Sessions
  BY <1>1, LiveSession
<1>3. session' \in Sessions /\ ~IsLive(session') /\ ~Activated(session')
  BY <1>2, FailType DEF Failures
<1>4. /\ slots' \in [Slots -> [BlockNo -> Content]]
      /\ slots'[running] = slots[running]
  <2>1. CASE UNCHANGED slots
    BY <2>1 DEF Inv, TypeOK
  <2>2. CASE slots' = [slots EXCEPT
                         ![session.target_slot][session.completed + 1] = Torn]
    BY <1>1, <2>2, TargetBlock DEF Content
  <2> QED BY <2>1, <2>2
<1>5. /\ proven' \in [Slots -> BOOLEAN] /\ proven'[running] = proven[running]
  <2>1. CASE UNCHANGED proven
    BY <2>1 DEF Inv, TypeOK
  <2>2. CASE proven' = [proven EXCEPT ![session.target_slot] = FALSE]
    BY <1>1, <2>2, TargetProof
  <2> QED BY <2>1, <2>2
<1> QED BY <1>1, <1>3, <1>4, <1>5, SessionStep DEF Ready, Inv, TypeOK

LEMMA TimeoutStep == ASSUME Inv, SessionTimeout PROVE Inv' /\ ~Activated(session')
<1> USE DEF SessionTimeout
<1>1. Ready /\ IsLive(session) /\ flight = NoFlight
  BY DEF Ready
<1>2. session' \in Sessions /\ ~IsLive(session') /\ ~Activated(session')
  BY <1>1, LiveSession, FailType DEF Failures
<1> QED BY <1>1, <1>2, SessionStep DEF Ready, Inv, TypeOK

LEMMA CutInBlockStep == ASSUME Inv, PowerCutInBlock PROVE Inv'
<1> USE DEF PowerCutInBlock, PowerOff
<1>1. Ready /\ IsLive(session) /\ flight = NoFlight
  BY DEF Ready
<1>2. /\ slots' \in [Slots -> [BlockNo -> Content]]
      /\ slots'[running] = slots[running]
  BY <1>1, TargetBlock DEF Content
<1>3. /\ proven' \in [Slots -> BOOLEAN] /\ proven'[running] = proven[running]
  BY <1>1, TargetProof
<1>4. ~IsLive(session')
  BY DEF IsLive
<1> QED BY <1>1, <1>2, <1>3, <1>4, SessionStep DEF Ready, Inv, TypeOK

\* finish_verification starts the activation: the record it replaces is the
\* one that was not selected, and the selected one vouches for the other slot.
LEMMA ActivationStep ==
  ASSUME Inv, Ready, IsLive(session), NEW s \in Sessions, s.phase = "Verifying",
         UNCHANGED <<slots, floor, mode, running, proven>>,
         session' = s,
         HasUpdateLayout(entries, running),
         ActivationIsValid(UpdateLayout(entries), s.target_slot,
                           s.target_sequence, s.activation_entry),
         StartReplace(s.activation_entry,
                      NewEntry(s.target_sequence, "NEW"), "activate")
  PROVE  Inv'
<1> USE DEF Inv, Ready
<1> DEFINE v == NewEntry(s.target_sequence, "NEW")
<1>1. PICK a \in Records : a = ActiveEntry(entries)
  BY LiveSession
<1>2. Vouches(a) /\ SlotOf(entries[a].sequence) = running
  BY <1>1, LiveSession
<1>3. PICK r \in Records : r = 1 - a
  BY <1>1
<1>4. /\ s.activation_entry = r /\ a = 1 - r
      /\ HasSlot(s.target_sequence)
      /\ SlotOf(s.target_sequence) # SlotOf(entries[a].sequence)
  BY <1>1, <1>3 DEF ActivationIsValid, UpdateLayout
<1>5. StartReplace(r, v, "activate") /\ Vouches(1 - r)
  BY <1>2, <1>4
<1>6. /\ entries'[r] = ErasedEntry /\ entries'[1 - r] = entries[1 - r]
      /\ Vouches(1 - r)' /\ SelectedRecordSound'
  BY <1>5, ReplaceStarts
<1>7. /\ v \in Entry /\ v.state = "NEW" /\ v.sequence = s.target_sequence
      /\ ErasedEntry \in Entry
  BY SequenceAssumption DEF NewEntry, Entry, States, Sessions, ErasedEntry
<1>8. /\ flight' = [entry |-> r, value |-> v, reason |-> "activate"]
      /\ entries' = [entries EXCEPT ![r] = ErasedEntry]
  BY <1>5 DEF StartReplace
<1>9. TypeOK'
  <2>1. flight' \in Flights
    BY <1>7, <1>8 DEF Flights
  <2>2. entries' \in [Records -> Entry]
    BY <1>7, <1>8 DEF TypeOK
  <2> QED BY <2>1, <2>2 DEF TypeOK
<1>10. /\ flight'.entry = r /\ flight'.value = v /\ flight'.reason = "activate"
       /\ flight' # NoFlight
  BY <1>8 DEF NoFlight
<1>11. FlightSound'
  BY <1>4, <1>6, <1>7, <1>10 DEF FlightSound
<1>12. SessionSound'
  BY <1>10 DEF SessionSound
<1>13. RunningLoadable'
  BY FrameRecords DEF RunningLoadable, Loadable
<1> QED BY <1>6, <1>9, <1>11, <1>12, <1>13

LEMMA VerifyBlockStep ==
  ASSUME Inv, VerifyBlock
  PROVE  /\ Inv' /\ ~Activated(session')
         /\ UNCHANGED <<entries, flight>> \/ \E s : ActivationStarts(s)
<1> USE DEF VerifyBlock
<1>1. Ready /\ IsLive(session) /\ flight = NoFlight
  BY DEF Ready
<1>2. session \in Sessions /\ running \in Slots
      /\ session.target_slot = 1 - running
  BY <1>1, LiveSession
<1> DEFINE s0 == IF session.phase = "Receiving" THEN StartVerifying(session)
                                                ELSE session
           b == s0.completed + 1
           c == slots[s0.target_slot][b]
           hashed == HashBlock(s0, c)
<1>3. Blocks \in Nat \ {0} /\ 0 \in 0..Blocks
  BY ImagesAssumption
<1>4. /\ s0 \in Sessions /\ s0.phase = "Verifying" /\ s0.completed < Blocks
      /\ s0.target_slot = session.target_slot
  <2>1. CASE session.phase = "Receiving"
    <3>1. s0 = [session EXCEPT !.phase = "Verifying", !.completed = 0,
                               !.hashed = <<>>]
      BY <2>1 DEF StartVerifying
    <3>2. <<>> \in Seq(Content)
      OBVIOUS
    <3>3. s0 \in Sessions
      BY <1>2, <1>3, <3>1, <3>2 DEF Sessions, Phase
    <3> HIDE DEF s0
    <3>4. /\ s0.phase = "Verifying" /\ s0.completed = 0
          /\ s0.target_slot = session.target_slot
      BY <1>2, <3>1 DEF Sessions
    <3> QED BY <1>3, <3>3, <3>4
  <2>2. CASE session.phase = "Verifying"
    BY <1>1, <1>2, <2>2 DEF Inv, SessionSound
  <2> QED BY <2>1, <2>2
<1>5. b \in BlockNo /\ b \in 0..Blocks
  BY <1>3, <1>4 DEF Sessions, BlockNo
<1>6. c \in Content
  BY <1>2, <1>4, <1>5 DEF Inv, TypeOK
<1>7. /\ hashed \in Sessions /\ hashed.phase = "Verifying"
      /\ hashed.target_slot = session.target_slot
  <2> HIDE DEF s0, b, c
  <2>1. hashed = [s0 EXCEPT !.completed = b, !.hashed = Append(s0.hashed, c)]
    BY DEF HashBlock, b
  <2>2. Append(s0.hashed, c) \in Seq(Content)
    BY <1>4, <1>6 DEF Sessions
  <2>3. hashed \in Sessions
    BY <1>4, <1>5, <2>1, <2>2 DEF Sessions
  <2> QED BY <1>4, <2>1, <2>3 DEF Sessions
<1>8. \/ hashed.completed # Blocks /\ session' = Progress(hashed, 0)
         /\ UNCHANGED <<entries, flight>>
      \/ hashed.completed = Blocks /\ FinishVerification(hashed)
  OBVIOUS
<1>9. /\ slots' \in [Slots -> [BlockNo -> Content]]
      /\ slots'[running] = slots[running]
      /\ proven' \in [Slots -> BOOLEAN] /\ proven'[running] = proven[running]
      /\ UNCHANGED <<slots, floor, mode, running, proven>>
      /\ mode' = "run"
  BY <1>1 DEF Inv, TypeOK, Ready
<1> HIDE DEF hashed
<1>10. CASE hashed.completed # Blocks /\ session' = Progress(hashed, 0)
            /\ UNCHANGED <<entries, flight>>
  <2>1. session' = hashed
    BY <1>7, <1>10, NoExpiryAtZero DEF Live
  <2>2. hashed.completed < Blocks
    BY <1>3, <1>7, <1>10 DEF Sessions
  <2> QED BY <1>1, <1>7, <1>9, <1>10, <2>1, <2>2, SessionStep DEF Activated
<1>11. CASE FinishVerification(hashed)
  <2> DEFINE result == VerificationResult(hashed, SecureVersion[Build])
             layout == UpdateLayout(entries)
             failure == IF result # "Ok" THEN result
                   ELSE IF ~HasUpdateLayout(entries, running) THEN "Flash"
                   ELSE IF ~SameLayout(hashed, layout) THEN "ActiveSlotChanged"
                   ELSE IF ~ActivationIsValid(layout, hashed.target_slot,
                                hashed.target_sequence, hashed.activation_entry)
                        THEN "Flash"
                   ELSE "Ok"
  <2>1. result \in Failures
    BY DEF VerificationResult, Failures
  <2>2. failure \in Failures
    BY <2>1 DEF Failures
  <2>3. \/ /\ failure # "Ok"
           /\ session' = Fail(hashed, failure)
           /\ UNCHANGED <<entries, flight>>
        \/ /\ failure = "Ok"
           /\ session' = hashed
           /\ StartReplace(hashed.activation_entry,
                           NewEntry(hashed.target_sequence, "NEW"), "activate")
    BY <1>11 DEF FinishVerification
  <2>4. failure = "Ok" =>
           /\ HasUpdateLayout(entries, running)
           /\ ActivationIsValid(layout, hashed.target_slot,
                                hashed.target_sequence, hashed.activation_entry)
    OBVIOUS
  <2> HIDE DEF result, layout, failure
  <2>5. CASE session' = Fail(hashed, failure) /\ UNCHANGED <<entries, flight>>
    <3>1. session' \in Sessions /\ ~IsLive(session') /\ ~Activated(session')
      BY <1>7, <2>2, <2>5, FailType
    <3> QED BY <1>1, <1>9, <2>5, <3>1, SessionStep
  <2>6. CASE /\ failure = "Ok" /\ session' = hashed
             /\ StartReplace(hashed.activation_entry,
                             NewEntry(hashed.target_sequence, "NEW"), "activate")
    <3>1. Inv'
      BY <1>1, <1>7, <1>9, <2>4, <2>6, ActivationStep DEF layout
    <3>2. ActivationStarts(hashed)
      BY <1>7, <2>4, <2>6 DEF ActivationStarts, layout
    <3> QED BY <1>7, <2>6, <3>1, <3>2 DEF Activated
  <2> QED BY <2>3, <2>5, <2>6
<1> QED BY <1>8, <1>10, <1>11

LEMMA AbortStep == ASSUME Inv, AbortSession PROVE Inv'
<1> USE DEF Inv, AbortSession, Ready
<1>1. ~IsLive(session')
  BY DEF IsLive
<1>2. SelectedRecordSound' /\ RunningLoadable'
  BY FrameRecords DEF RunningLoadable, TypeOK
<1> QED BY <1>1, <1>2 DEF TypeOK, FlightSound, SessionSound

\* The record of the candidate on trial is confirmed: the other record still
\* vouches for the other slot, and the running slot can be loaded.
LEMMA ConfirmStep == ASSUME Inv, ConfirmRunningImage PROVE Inv'
<1> USE DEF Inv, ConfirmRunningImage, Ready
<1>1. PICK a \in Records : a = ActiveEntry(entries)
  BY ActiveIsSelectable DEF TypeOK
<1>2. /\ entries[a].state = "PENDING_VERIFY" /\ HasSlot(entries[a].sequence)
      /\ SlotOf(entries[a].sequence) = running
  BY <1>1 DEF ConfirmsRunningImage
<1>3. Vouches(1 - a) /\ SlotOf(entries[1 - a].sequence) # running
  BY <1>1, <1>2 DEF SelectedRecordSound, Vouches
<1>4. running \in Slots /\ Loadable(running) /\ mode = "run"
  BY DEF TypeOK, RunningLoadable
<1>5. ~IsLive(session)
  BY <1>1, <1>2 DEF SessionSound
<1>6. /\ proven \in [Slots -> BOOLEAN]
      /\ proven' = [proven EXCEPT ![running] = TRUE]
  BY DEF TypeOK
<1>7. proven' \in [Slots -> BOOLEAN] /\ proven'[running]
      /\ \A s \in Slots : proven[s] => proven'[s]
  BY <1>4, <1>6, Zenon
<1>8. CASE mode' = "halted" /\ UNCHANGED <<entries, flight>>
  <2>1. Vouches(1 - a)'
    BY <1>1, <1>3, <1>7, <1>8, SlotOfType DEF Vouches, Loadable, TypeOK, Entry
  <2>2. SelectedRecordSound'
    BY <1>1, <1>2, <1>3, <1>8, <2>1 DEF SelectedRecordSound
  <2>3. RunningLoadable' /\ FlightSound' /\ SessionSound'
    BY <1>4, <1>5, <1>8 DEF RunningLoadable, Loadable, FlightSound, SessionSound, IsLive
  <2>4. TypeOK'
    BY <1>7, <1>8 DEF TypeOK
  <2> QED BY <2>2, <2>3, <2>4
<1>9. CASE /\ StartReplace(a, [entries[a] EXCEPT !.state = "VALID"], "confirm")
           /\ mode' = mode
  <2> DEFINE v == [entries[a] EXCEPT !.state = "VALID"]
  <2>1. /\ v \in Entry /\ v.state = "VALID"
        /\ v.sequence = entries[a].sequence /\ ErasedEntry \in Entry
    BY <1>1, SequenceAssumption DEF TypeOK, Entry, States, ErasedEntry
  <2> HIDE DEF v
  <2>2. StartReplace(a, v, "confirm")
    BY <1>9 DEF v
  <2>3. /\ entries'[a] = ErasedEntry /\ Vouches(1 - a)' /\ SelectedRecordSound'
    BY <1>3, <1>7, <2>2, ReplaceStarts
  <2>4. /\ flight' = [entry |-> a, value |-> v, reason |-> "confirm"]
        /\ entries' = [entries EXCEPT ![a] = ErasedEntry]
    BY <2>2 DEF StartReplace
  <2>5. flight' \in Flights /\ entries' \in [Records -> Entry]
    BY <2>1, <2>4 DEF TypeOK, Flights
  <2>6. TypeOK'
    BY <1>7, <1>9, <2>5 DEF TypeOK
  <2>7. Loadable(running)' /\ running' = running
    BY <1>4 DEF Loadable
  <2>8. FlightSound'
    <3>1. /\ flight'.entry = a /\ flight'.value = v /\ flight'.reason = "confirm"
      BY <2>4
    <3>2. v.sequence = entries[a].sequence /\ SlotOf(v.sequence) = running
      BY <1>2, <2>1
    <3>3. PICK n \in Slots : n = SlotOf(v.sequence)
      BY <1>4, <3>2
    <3>4. Loadable(n)' /\ proven'[n]
      BY <1>4, <1>7, <3>2, <3>3 DEF Loadable
    <3> QED BY <1>2, <1>4, <1>9, <2>1, <2>3, <3>1, <3>3, <3>4 DEF FlightSound
  <2>9. SessionSound' /\ RunningLoadable'
    BY <1>5, <2>7 DEF SessionSound, IsLive, RunningLoadable
  <2> QED BY <2>3, <2>6, <2>8, <2>9
<1> QED BY <1>1, <1>8, <1>9

\* What holds of the replacement under way, with its parts named.
LEMMA InFlight ==
  ASSUME Inv, flight # NoFlight
  PROVE  \E r \in Records, v \in Entry : r = flight.entry /\ v = flight.value
BY DEF Inv, TypeOK, Flights

\* The replacement ends, in whatever way, and with it an activating session.
LEMMA ReplacementStep == ASSUME Inv, Replacement PROVE Inv'
<1> USE DEF Inv
<1>1. flight # NoFlight /\ flight' = NoFlight /\ UNCHANGED <<slots, floor, running, proven>>
  BY DEF Replacement, FinishReplace, ReplaceFails
<1>2. PICK r \in Records, v \in Entry : r = flight.entry /\ v = flight.value
  BY <1>1, InFlight
<1>3. entries' \in {entries, [entries EXCEPT ![r] = v]}
  BY <1>2 DEF Replacement, FinishReplace, ReplaceFails
<1>4. SelectedRecordSound'
  BY <1>1, <1>2, <1>3, ReplaceEnds
<1>5. session' \in Sessions \cup {NoSession} /\ ~IsLive(session')
  <2>1. CASE flight.reason = "activate"
    <3>1. session \in Sessions
      BY <1>1, <2>1 DEF FlightSound, IsLive, TypeOK
    <3>2. \/ session' = Fail(session, "Flash")
          \/ session' = [session EXCEPT !.phase = "Activated", !.failure = "Ok"]
      BY <2>1 DEF Replacement, FinishReplace, ReplaceFails
    <3>3. CASE session' = Fail(session, "Flash")
      BY <3>1, <3>3, FailType DEF Failures
    <3>4. CASE session' = [session EXCEPT !.phase = "Activated", !.failure = "Ok"]
      BY <3>1, <3>4 DEF Sessions, Phase, Failures, IsLive, Live
    <3> QED BY <3>2, <3>3, <3>4
  <2>2. CASE flight.reason # "activate"
    <3>1. ~IsLive(session) /\ session' = session
      BY <1>1, <2>2 DEF SessionSound, Replacement, FinishReplace, ReplaceFails
    <3> QED BY <3>1 DEF TypeOK, IsLive
  <2> QED BY <2>1, <2>2
<1>6. TypeOK'
  <2>1. entries' \in [Records -> Entry]
    BY <1>2, <1>3 DEF TypeOK
  <2>2. NoFlight \in Flights
    BY SequenceAssumption DEF NoFlight, Flights, ErasedEntry, Entry, States
  <2>3. mode' \in {"boot", "load", "run", "halted"}
    BY DEF Replacement, FinishReplace, ReplaceFails, TypeOK
  <2> QED BY <1>1, <1>5, <2>1, <2>2, <2>3 DEF TypeOK
<1>7. RunningLoadable'
  <2>1. mode' \in {"run", "halted"} => mode \in {"run", "halted"}
    BY <1>1 DEF Replacement, FinishReplace, ReplaceFails, FlightSound
  <2> QED BY <1>1, <2>1 DEF RunningLoadable, Loadable
<1>8. FlightSound' /\ SessionSound'
  BY <1>1, <1>5 DEF FlightSound, SessionSound
<1> QED BY <1>4, <1>6, <1>7, <1>8

\* Raising the floor keeps both slots loadable.
LEMMA RaiseStep ==
  ASSUME Inv, NEW target \in 1..MaxFloor, RaiseFloor(target) PROVE Inv'
<1> USE DEF Inv, RaiseFloor, Ready
<1>1. floor' \in Nat /\ floor' <= target
  BY FloorAssumption DEF TypeOK
<1>2. \A s \in Slots : Loadable(s)'
  <2> TAKE s \in Slots
  <2>1. PICK i \in SignedImages : slots[s] = Filled(i) /\ SecureVersion[i] >= target
    OBVIOUS
  <2>2. SecureVersion[i] \in Nat /\ slots'[s] = Filled(i)
    BY <2>1, ImagesAssumption
  <2>3. SecureVersion[i] >= floor'
    BY <1>1, <2>1, <2>2, FloorAssumption
  <2> QED BY <2>2, <2>3 DEF Loadable, Filled
<1>3. TypeOK'
  BY <1>1 DEF TypeOK
<1>4. SelectedRecordSound'
  <2>1. \A r \in Records : SlotOf(entries[r].sequence) \in Slots
    BY SlotOfType DEF TypeOK, Entry
  <2>2. \A r \in Records : Vouches(r) => Vouches(r)'
    BY <1>2, <2>1 DEF Vouches
  <2>3. ActiveEntry(entries) \in Records /\ entries' = entries
    BY ActiveIsSelectable DEF SelectedRecordSound, TypeOK
  <2> QED BY <2>2, <2>3 DEF SelectedRecordSound
<1>5. FlightSound' /\ SessionSound' /\ RunningLoadable'
  BY <1>2 DEF FlightSound, SessionSound, IsLive, RunningLoadable, TypeOK
<1> QED BY <1>3, <1>4, <1>5

LEMMA PowerCutStep == ASSUME Inv, PowerCut PROVE Inv'
<1> USE DEF Inv, PowerCut, PowerOff
<1>1. TypeOK'
  BY SequenceAssumption DEF TypeOK, NoFlight, Flights, ErasedEntry, Entry, States
<1>2. SelectedRecordSound'
  BY FrameRecords
<1> QED BY <1>1, <1>2 DEF FlightSound, SessionSound, IsLive, RunningLoadable

LEMMA BootAbortStep ==
  ASSUME Inv, NEW r \in Records, BootAbort(r) PROVE Inv'
<1> USE DEF Inv, BootAbort
<1> DEFINE v == [entries[r] EXCEPT !.state = "ABORTED"]
<1>1. Vouches(1 - r)
  <2>1. ~Vouches(r)
    BY DEF Vouches
  <2>2. ActiveEntry(entries) \in {r, 1 - r}
    BY ActiveIsSelectable DEF SelectedRecordSound, TypeOK
  <2> QED BY <2>1, <2>2 DEF SelectedRecordSound
<1>2. v \in Entry /\ v.state = "ABORTED" /\ ErasedEntry \in Entry
  BY SequenceAssumption DEF TypeOK, Entry, States, ErasedEntry
<1> HIDE DEF v
<1>3. StartReplace(r, v, "abort")
  BY DEF v
<1>4. entries'[r] = ErasedEntry /\ Vouches(1 - r)' /\ SelectedRecordSound'
  BY <1>1, <1>3, ReplaceStarts
<1>5. /\ flight' = [entry |-> r, value |-> v, reason |-> "abort"]
      /\ entries' = [entries EXCEPT ![r] = ErasedEntry]
  BY <1>3 DEF StartReplace
<1>6. flight' \in Flights /\ entries' \in [Records -> Entry]
  BY <1>2, <1>5 DEF TypeOK, Flights
<1>7. TypeOK'
  BY <1>6 DEF TypeOK
<1>8. FlightSound'
  BY <1>2, <1>4, <1>5 DEF FlightSound
<1>9. SessionSound' /\ RunningLoadable'
  BY DEF SessionSound, IsLive, RunningLoadable
<1> QED BY <1>4, <1>7, <1>8, <1>9

\* The bootloader marks a NEW candidate as started: its record is for the slot
\* the other record does not vouch for.
LEMMA BootSelectStep == ASSUME Inv, BootSelect PROVE Inv'
<1> USE DEF Inv, BootSelect
<1>1. PICK a \in Records : a = ActiveEntry(entries)
  BY ActiveIsSelectable DEF SelectedRecordSound, TypeOK
<1>2. running' \in Slots
  BY <1>1, SlotOfType DEF TypeOK, Entry
<1>3. SessionSound' /\ RunningLoadable'
  BY DEF SessionSound, IsLive, RunningLoadable
<1>4. CASE UNCHANGED <<entries, flight>>
  BY <1>2, <1>3, <1>4, FrameRecords DEF TypeOK, FlightSound
<1>5. CASE /\ entries[a].state = "NEW"
           /\ StartReplace(a, [entries[a] EXCEPT !.state = "PENDING_VERIFY"], "try")
  <2> DEFINE v == [entries[a] EXCEPT !.state = "PENDING_VERIFY"]
  <2>1. /\ v \in Entry /\ v.state = "PENDING_VERIFY" /\ ErasedEntry \in Entry
        /\ v.sequence = entries[a].sequence
    BY SequenceAssumption DEF TypeOK, Entry, States, ErasedEntry
  <2> HIDE DEF v
  <2>2. /\ Vouches(1 - a)
        /\ SlotOf(entries[1 - a].sequence) # SlotOf(entries[a].sequence)
    BY <1>1, <1>5 DEF SelectedRecordSound, Vouches
  <2>3. StartReplace(a, v, "try")
    BY <1>5 DEF v
  <2>4. /\ entries'[a] = ErasedEntry /\ entries'[1 - a] = entries[1 - a]
        /\ Vouches(1 - a)' /\ SelectedRecordSound'
    BY <2>2, <2>3, ReplaceStarts
  <2>5. /\ flight' = [entry |-> a, value |-> v, reason |-> "try"]
        /\ entries' = [entries EXCEPT ![a] = ErasedEntry]
    BY <2>3 DEF StartReplace
  <2>6. flight' \in Flights /\ entries' \in [Records -> Entry]
    BY <2>1, <2>5 DEF TypeOK, Flights
  <2>7. TypeOK'
    BY <1>2, <2>6 DEF TypeOK
  <2>8. FlightSound'
    BY <2>1, <2>2, <2>4, <2>5 DEF FlightSound
  <2> QED BY <1>3, <2>4, <2>7, <2>8
<1> QED BY <1>1, <1>4, <1>5

LEMMA BootLoadStep == ASSUME Inv, BootLoad PROVE Inv'
<1> USE DEF Inv, BootLoad
<1>1. running' \in Slots /\ Loadable(running')
  OBVIOUS
<1>2. Loadable(running)'
  BY <1>1 DEF Loadable
<1>3. SelectedRecordSound'
  BY FrameRecords
<1>4. TypeOK'
  BY <1>1 DEF TypeOK
<1>5. ~IsLive(session')
  BY DEF SessionSound, IsLive
<1> QED BY <1>2, <1>3, <1>4, <1>5 DEF FlightSound, SessionSound, RunningLoadable

LEMMA DecayStep == ASSUME Inv, CandidateDecays PROVE Inv'
<1> USE DEF Inv, CandidateDecays
<1>1. PICK a \in Records : a = ActiveEntry(entries)
  BY ActiveIsSelectable DEF TypeOK
<1>2. PICK c \in Slots : c = SlotOf(entries[a].sequence)
  BY SlotOfType DEF TypeOK, Entry
<1>3. PICK b \in BlockNo :
         /\ entries[a].state \in {"NEW", "PENDING_VERIFY"}
         /\ mode \in {"run", "halted"} => running # c
         /\ slots' = [slots EXCEPT ![c][b] = Torn]
         /\ proven' = [proven EXCEPT ![c] = FALSE]
  BY <1>1, <1>2
<1>4. /\ slots \in [Slots -> [BlockNo -> Content]]
      /\ proven \in [Slots -> BOOLEAN] /\ Torn \in Content
  BY DEF TypeOK, Content
<1>5. slots' \in [Slots -> [BlockNo -> Content]] /\ slots'[1 - c] = slots[1 - c]
  <2>1. [slots[c] EXCEPT ![b] = Torn] \in [BlockNo -> Content]
    BY <1>4
  <2>2. slots' = [slots EXCEPT ![c] = [slots[c] EXCEPT ![b] = Torn]]
    BY <1>3
  <2>3. 1 - c \in Slots /\ 1 - c # c
    OBVIOUS
  <2>4. slots' \in [Slots -> [BlockNo -> Content]]
    BY <1>4, <2>1, <2>2
  <2>5. slots'[1 - c] = slots[1 - c]
    BY <1>4, <2>2, <2>3, Zenon
  <2> QED BY <2>4, <2>5
<1>6. proven' \in [Slots -> BOOLEAN]
  BY <1>3, <1>4, Zenon
<1>7. proven'[1 - c] = proven[1 - c]
  <2>1. 1 - c \in Slots /\ 1 - c # c
    OBVIOUS
  <2> QED BY <1>3, <1>4, <2>1, Zenon
<1>8. /\ Vouches(1 - a)
      /\ SlotOf(entries[1 - a].sequence) # c
  BY <1>1, <1>2, <1>3 DEF SelectedRecordSound, Vouches
<1>9. Vouches(1 - a)'
  <2>1. PICK r \in Records : r = 1 - a
    BY <1>1
  <2>2. Vouches(r) /\ SlotOf(entries[r].sequence) # c
    BY <1>8, <2>1
  <2>3. Vouches(r)'
    BY <1>2, <1>5, <1>7, <2>1, <2>2, FrameSlot
  <2> QED BY <2>1, <2>3
<1>10. SelectedRecordSound'
  BY <1>1, <1>2, <1>3, <1>8, <1>9 DEF SelectedRecordSound
<1>11. RunningLoadable'
  <2>1. mode \in {"run", "halted"} => running = 1 - c
    BY <1>2, <1>3 DEF TypeOK
  <2> QED BY <1>5, <2>1 DEF RunningLoadable, Loadable
<1>12. ~IsLive(session')
  BY <1>1, <1>3 DEF SessionSound, IsLive
<1>13. TypeOK'
  BY <1>5, <1>6 DEF TypeOK
<1> QED BY <1>10, <1>11, <1>12, <1>13 DEF FlightSound, SessionSound

LEMMA InvNext == ASSUME Inv, [Next]_vars PROVE Inv'
<1>1. CASE Firmware
  <2>1. ASSUME NEW image \in Images, NEW version \in 0..MaxFloor,
               Begin(image, version)
        PROVE  Inv'
    BY <2>1, BeginStep
  <2>2. CASE EraseBlock
    BY <2>2, EraseStep
  <2>3. ASSUME NEW content \in Images, WriteBlock(content) PROVE Inv'
    BY <2>3, WriteStep
  <2>4. CASE VerifyBlock
    BY <2>4, VerifyBlockStep
  <2>5. CASE FlashFails
    BY <2>5, FlashFailsStep
  <2>6. CASE SessionTimeout
    BY <2>6, TimeoutStep
  <2>7. CASE AbortSession
    BY <2>7, AbortStep
  <2>8. CASE ConfirmRunningImage
    BY <2>8, ConfirmStep
  <2>9. ASSUME NEW target \in 1..MaxFloor, RaiseFloor(target) PROVE Inv'
    BY <2>9, RaiseStep
  <2> QED BY <1>1, <2>1, <2>2, <2>3, <2>4, <2>5, <2>6, <2>7, <2>8, <2>9
          DEF Firmware
<1>2. CASE Replacement
  BY <1>2, ReplacementStep
<1>3. CASE Bootloader
  <2>1. ASSUME NEW r \in Records, BootAbort(r) PROVE Inv'
    BY <2>1, BootAbortStep
  <2>2. CASE BootSelect
    BY <2>2, BootSelectStep
  <2>3. CASE BootLoad
    BY <2>3, BootLoadStep
  <2> QED BY <1>3, <2>1, <2>2, <2>3 DEF Bootloader
<1>4. CASE PowerCut
  BY <1>4, PowerCutStep
<1>5. CASE PowerCutInBlock
  BY <1>5, CutInBlockStep
<1>6. CASE CandidateDecays
  BY <1>6, DecayStep
<1>7. CASE UNCHANGED vars
  <2>1. UNCHANGED <<entries, slots, floor, mode, running, session, flight,
                    proven>>
    BY <1>7 DEF vars
  <2>2. SelectedRecordSound' /\ RunningLoadable'
    BY <2>1, FrameRecords DEF Inv, RunningLoadable, TypeOK
  <2>3. TypeOK'
    BY <2>1 DEF Inv, TypeOK
  <2>4. FlightSound' /\ SessionSound'
    BY <2>1 DEF Inv, FlightSound, SessionSound, IsLive, Vouches, Loadable
  <2> QED BY <2>2, <2>3, <2>4 DEF Inv
<1> QED BY <1>1, <1>2, <1>3, <1>4, <1>5, <1>6, <1>7 DEF Next

\* The inductive invariant holds in every reachable state.
THEOREM Invariance == Spec => []Inv
<1>1. Init => Inv
  BY InvInit
<1>2. Inv /\ [Next]_vars => Inv'
  BY InvNext
<1> QED BY <1>1, <1>2, PTL DEF Spec

\* Every variable keeps its type, in every reachable state of the signed update.
THEOREM TypeCorrect == Spec => []TypeOK
<1>1. Inv => TypeOK
  BY DEF Inv
<1> QED BY <1>1, Invariance, PTL

\* Whatever is interrupted, the record the bootloader selects is sound: its own
\* slot boots and has proven itself, or the other record's does.
THEOREM SelectionSafe == Spec => []SelectedRecordSound
<1>1. Inv => SelectedRecordSound
  BY DEF Inv
<1> QED BY <1>1, Invariance, PTL

\* There is always an image the bootloader can start.
THEOREM NeverBricked == Spec => []AlwaysBootable
<1>1. Inv => AlwaysBootable
  <2> SUFFICES ASSUME Inv PROVE AlwaysBootable
    OBVIOUS
  <2>1. PICK r \in Records : Vouches(r)
    BY ActiveIsSelectable DEF Inv, SelectedRecordSound, TypeOK
  <2>2. SlotOf(entries[r].sequence) \in Slots
    BY SlotOfType DEF Inv, TypeOK, Entry
  <2> QED BY <2>1, <2>2 DEF Vouches, AlwaysBootable
<1> QED BY <1>1, Invariance, PTL

\* No step changes the executing slot: a live session targets the other one,
\* and nothing else writes slots but the decay of a candidate at rest.
LEMMA SlotUntouched ==
  ASSUME Inv, Next, mode = "run" PROVE slots'[running] = slots[running]
<1>1. CASE EraseBlock
  BY <1>1, TargetBlock DEF EraseBlock, Ready, Content
<1>2. ASSUME NEW content \in Images, WriteBlock(content)
      PROVE  slots'[running] = slots[running]
  BY <1>2, TargetBlock DEF WriteBlock, Ready, Content
<1>3. CASE FlashFails
  BY <1>3, TargetBlock DEF FlashFails, Ready, Content
<1>4. CASE PowerCutInBlock
  BY <1>4, TargetBlock DEF PowerCutInBlock, Ready, Content
<1>5. CASE CandidateDecays
  <2>1. PICK c : /\ running # c
                 /\ \E b \in BlockNo : slots' = [slots EXCEPT ![c][b] = Torn]
    BY <1>5 DEF CandidateDecays
  <2>2. slots \in [Slots -> [BlockNo -> Content]] /\ running \in Slots
    BY DEF Inv, TypeOK
  <2> QED BY <2>1, <2>2
<1>6. CASE UNCHANGED slots
  BY <1>6
<1> QED BY <1>1, <1>2, <1>3, <1>4, <1>5, <1>6
        DEF Next, Firmware, Replacement, Bootloader, Begin, VerifyBlock,
            SessionTimeout, AbortSession, ConfirmRunningImage, FinishReplace,
            ReplaceFails, RaiseFloor, PowerCut, BootAbort, BootSelect, BootLoad

\* The slot the firmware executes from is never erased or written.
THEOREM RunningSlotSafe == Spec => RunningSlotUntouched
<1>1. Inv /\ [Next]_vars =>
        [mode = "run" => slots'[running] = slots[running]]_vars
  BY SlotUntouched
<1> QED BY <1>1, Invariance, PTL DEF Spec, RunningSlotUntouched
-----------------------------------------------------------------------------
(* The A/B device. *)

\* What the replacement under way is for: each caller of replace_entry installs
\* its own state, an activation and a confirmation the record that is then
\* selected, the confirmation for the slot that executes.
FlightFits ==
    flight # NoFlight =>
      LET r == flight.entry
          v == flight.value
          installed == [entries EXCEPT ![r] = v]
      IN  \/ /\ flight.reason = "activate"
             /\ mode = "run"
             /\ r = session.activation_entry
             /\ v = NewEntry(session.target_sequence, "NEW")
             /\ SlotOf(entries[1 - r].sequence) = running
             /\ session.target_sequence < MaxSequence => ActiveEntry(installed) = r
          \/ /\ flight.reason = "confirm" /\ v.state = "VALID"
             /\ SlotOf(v.sequence) = running
             /\ SlotOf(entries[1 - r].sequence) # running
             /\ ActiveEntry(installed) = r
          \/ flight.reason = "abort" /\ v.state = "ABORTED"
          \/ flight.reason = "try" /\ v.state = "PENDING_VERIFY"

\* A NEW record is selected only before the bootloader has looked at it, or
\* while the home image that wrote it still executes.
OfferFits ==
    entries[ActiveEntry(entries)].state = "NEW" =>
        mode = "boot" \/ (Started /\ running = HomeSlot)

\* The bootloader has no session, and a session that has activated its update
\* changes no record any more.
SessionFits ==
    /\ mode \in {"boot", "load"} => session = NoSession
    /\ Activated(session) /\ session.target_sequence < MaxSequence => flight = NoFlight

\* The inductive invariant of the refinement.
DeviceInv == Inv /\ FlightFits /\ OfferFits /\ SessionFits /\ ActivationSelected

\* A step of the device, or none.
DeviceStep == Device!Next \/ UNCHANGED Device!vars

\* The home slot boots; it is the selected record's, or the other record's while
\* the selected one is a candidate's.
LEMMA HomeFacts ==
  ASSUME Inv, NEW a, a = ActiveEntry(entries)
  PROVE  /\ a \in Records
         /\ HomeSlot \in Slots /\ Loadable(HomeSlot)
         /\ entries[a].state = "VALID" => HomeSlot = SlotOf(entries[a].sequence)
         /\ entries[a].state # "VALID" =>
              /\ entries[a].state \in {"NEW", "PENDING_VERIFY"}
              /\ HomeSlot = SlotOf(entries[1 - a].sequence)
              /\ HomeSlot # SlotOf(entries[a].sequence)
              /\ Vouches(1 - a)
<1>1. a \in Records
  BY ActiveIsSelectable DEF Inv, SelectedRecordSound, TypeOK
<1>2. \A r \in Records : SlotOf(entries[r].sequence) \in Slots
  BY SlotOfType DEF Inv, TypeOK, Entry
<1>3. CASE entries[a].state = "VALID"
  <2>1. Vouches(a) /\ HomeSlot = SlotOf(entries[a].sequence)
    BY <1>3 DEF Inv, SelectedRecordSound, HomeSlot
  <2> QED BY <1>1, <1>2, <1>3, <2>1 DEF Vouches
<1>4. CASE entries[a].state # "VALID"
  <2>1. /\ entries[a].state \in {"NEW", "PENDING_VERIFY"} /\ Vouches(1 - a)
        /\ SlotOf(entries[1 - a].sequence) # SlotOf(entries[a].sequence)
    BY <1>4 DEF Inv, SelectedRecordSound, Vouches
  <2>2. HomeSlot = SlotOf(entries[1 - a].sequence)
    BY <1>4 DEF HomeSlot
  <2>3. 1 - a \in Records
    BY <1>1
  <2> QED BY <1>1, <1>2, <1>4, <2>1, <2>2, <2>3 DEF Vouches
<1> QED BY <1>3, <1>4

\* While a record is replaced, the other one is selected and home is its slot.
LEMMA FlightHome ==
  ASSUME Inv, flight # NoFlight, NEW r \in Records, r = flight.entry
  PROVE  /\ ActiveEntry(entries) = 1 - r /\ entries[1 - r].state = "VALID"
         /\ HomeSlot = SlotOf(entries[1 - r].sequence) /\ Vouches(1 - r)
<1>1. entries[r] = ErasedEntry /\ Vouches(1 - r)
  BY DEF Inv, FlightSound
<1>2. ActiveEntry(entries) = 1 - r /\ entries[1 - r].state = "VALID"
  BY <1>1, NotSelectable DEF ActiveEntry, Vouches
<1> QED BY <1>1, <1>2, HomeFacts

\* The firmware with a live session executes the home image.
LEMMA LiveHome ==
  ASSUME Inv, Ready, IsLive(session)
  PROVE  HomeSlot = running /\ entries[ActiveEntry(entries)].state = "VALID"
<1>1. PICK a \in Records : a = ActiveEntry(entries) /\ Vouches(a)
                           /\ SlotOf(entries[a].sequence) = running
  BY LiveSession DEF Ready
<1> QED BY <1>1, HomeFacts DEF Vouches

\* The home image and an executing one are signed images not below the floor.
LEMMA LoadedImage ==
  ASSUME NEW s \in Slots, Loadable(s)
  PROVE  /\ slots[s][1] \in SignedImages /\ SecureVersion[slots[s][1]] >= floor
         /\ slots[s][1] # Blank
<1>1. PICK i \in SignedImages : slots[s] = Filled(i) /\ SecureVersion[i] >= floor
  BY DEF Loadable
<1>2. 1 \in BlockNo
  BY ImagesAssumption DEF BlockNo
<1>3. slots[s][1] = i
  BY <1>1, <1>2 DEF Filled
<1> QED BY <1>1, <1>3, ImagesAssumption, ContentAssumption

\* Steps that change no record, no mode and neither the home slot nor the
\* executing one are invisible.
LEMMA QuietStep ==
  ASSUME DeviceInv, Inv', UNCHANGED <<entries, floor, mode, running, flight>>,
         slots'[HomeSlot] = slots[HomeSlot],
         Started => slots'[running] = slots[running],
         session' = session \/ (Ready /\ ~Activated(session'))
  PROVE  DeviceInv' /\ DeviceStep
<1>1. HomeSlot' = HomeSlot
  BY DEF HomeSlot
<1>2. DeviceStep
  BY <1>1 DEF DeviceStep, Device!vars, Executing, Offer, Offered, Started
<1>3. FlightFits'
  BY DEF DeviceInv, FlightFits, Ready
<1>4. OfferFits'
  BY <1>1 DEF DeviceInv, OfferFits, Started
<1>5. SessionFits'
  BY DEF DeviceInv, SessionFits, Ready
<1>6. ActivationSelected'
  BY DEF DeviceInv, ActivationSelected, Activated
<1> QED BY <1>2, <1>3, <1>4, <1>5, <1>6 DEF DeviceInv

\* Steps of a session that change at most its target slot are invisible.
LEMMA SessionMaps ==
  ASSUME DeviceInv, Inv', UNCHANGED <<entries, floor, mode, running, flight>>,
         Ready, IsLive(session), slots'[running] = slots[running],
         ~Activated(session')
  PROVE  DeviceInv' /\ DeviceStep
<1>1. HomeSlot = running
  BY LiveHome DEF DeviceInv
<1> QED BY <1>1, QuietStep

\* begin, an abort and a timeout are invisible, and so is the transfer.
LEMMA TransferMaps ==
  ASSUME DeviceInv, Inv',
         \/ \E image \in Images, version \in 0..MaxFloor : Begin(image, version)
         \/ EraseBlock
         \/ \E content \in Images : WriteBlock(content)
         \/ FlashFails \/ SessionTimeout \/ AbortSession
  PROVE  DeviceInv' /\ DeviceStep
<1> USE DEF DeviceInv
<1>1. ASSUME NEW image \in Images, NEW version \in 0..MaxFloor, Begin(image, version)
      PROVE  DeviceInv' /\ DeviceStep
  <2>1. ~Activated(session')
    BY <1>1, BeginStep
  <2> QED BY <1>1, <2>1, QuietStep DEF Begin
<1>2. CASE EraseBlock
  <2>1. ~Activated(session') /\ slots'[running] = slots[running]
    BY <1>2, EraseStep, TargetBlock DEF EraseBlock, Ready, Content
  <2> QED BY <1>2, <2>1, SessionMaps DEF EraseBlock
<1>3. ASSUME NEW content \in Images, WriteBlock(content)
      PROVE  DeviceInv' /\ DeviceStep
  <2>1. ~Activated(session') /\ slots'[running] = slots[running]
    BY <1>3, WriteStep, TargetBlock DEF WriteBlock, Ready, Content
  <2> QED BY <1>3, <2>1, SessionMaps DEF WriteBlock
<1>4. CASE FlashFails
  <2>1. ~Activated(session')
    BY <1>4, FlashFailsStep
  <2>2. slots'[running] = slots[running]
    BY <1>4, TargetBlock DEF FlashFails, Ready, Content
  <2> QED BY <1>4, <2>1, <2>2, SessionMaps DEF FlashFails
<1>5. CASE SessionTimeout
  <2>1. ~Activated(session')
    BY <1>5, TimeoutStep
  <2> QED BY <1>5, <2>1, SessionMaps DEF SessionTimeout
<1>6. CASE AbortSession
  <2>1. ~Activated(session')
    BY <1>6 DEF AbortSession, Activated
  <2> QED BY <1>6, <2>1, QuietStep DEF AbortSession
<1> QED BY <1>1, <1>2, <1>3, <1>4, <1>5, <1>6

\* The first half of a replacement leaves the other record selected, which must
\* vouch; home stays when it was that record's slot.
LEMMA ReplaceKeepsHome ==
  ASSUME Inv, NEW r \in Records, NEW v, NEW reason, StartReplace(r, v, reason),
         Vouches(1 - r), HomeSlot = SlotOf(entries[1 - r].sequence)
  PROVE  /\ ActiveEntry(entries') = 1 - r
         /\ entries'[r] = ErasedEntry /\ entries'[1 - r] = entries[1 - r]
         /\ entries'[1 - r].state = "VALID" /\ HomeSlot' = HomeSlot
<1>1. entries'[r] = ErasedEntry /\ entries'[1 - r] = entries[1 - r]
  BY DEF StartReplace, Inv, TypeOK
<1>2. ActiveEntry(entries') = 1 - r /\ entries'[1 - r].state = "VALID"
  BY <1>1, NotSelectable DEF ActiveEntry, Vouches
<1>3. HomeSlot' = SlotOf(entries[1 - r].sequence)
  BY <1>1, <1>2 DEF HomeSlot
<1> QED BY <1>1, <1>2, <1>3

\* The activation starts: the record replaced is not the selected one, and the
\* new record has the higher sequence.
LEMMA ActivationMaps ==
  ASSUME DeviceInv, Inv', Ready, IsLive(session), NEW s, ActivationStarts(s),
         UNCHANGED <<slots, floor, mode, running, proven>>
  PROVE  DeviceInv' /\ DeviceStep
<1> USE DEF DeviceInv, Ready
<1> DEFINE v == NewEntry(s.target_sequence, "NEW")
<1>1. PICK a \in Records : a = ActiveEntry(entries) /\ Vouches(a)
                           /\ SlotOf(entries[a].sequence) = running
  BY LiveSession
<1>2. HomeSlot = running /\ entries[a].state = "VALID"
  BY <1>1, LiveHome
<1>3. PICK r \in Records : r = 1 - a
  BY <1>1
<1>4. /\ s \in Sessions /\ s.phase = "Verifying" /\ session' = s
      /\ s.activation_entry = r /\ a = 1 - r
      /\ s.target_sequence > entries[a].sequence
  BY <1>1, <1>3 DEF ActivationStarts, ActivationIsValid, UpdateLayout
<1>5. StartReplace(r, v, "activate")
  BY <1>4 DEF ActivationStarts
<1>6. /\ v.state = "NEW" /\ v.sequence = s.target_sequence /\ v.crc_ok
  BY DEF NewEntry
<1> HIDE DEF v
<1>7. /\ ActiveEntry(entries') = a /\ entries'[r] = ErasedEntry
      /\ entries'[a] = entries[a] /\ HomeSlot' = HomeSlot
  BY <1>1, <1>2, <1>4, <1>5, ReplaceKeepsHome
<1>8. /\ flight' = [entry |-> r, value |-> v, reason |-> "activate"]
      /\ entries' \in [Records -> Entry] /\ entries'[1 - r] = entries[a]
  BY <1>4, <1>5, <1>7 DEF StartReplace, TypeOK, Inv
<1>9. s.target_sequence < MaxSequence => ActiveEntry([entries' EXCEPT ![r] = v]) = r
  <2> SUFFICES ASSUME s.target_sequence < MaxSequence
               PROVE  ActiveEntry([entries' EXCEPT ![r] = v]) = r
    OBVIOUS
  <2> DEFINE e == [entries' EXCEPT ![r] = v]
  <2>1. e[r] = v /\ e[1 - r] = entries[a]
    BY <1>8
  <2>2. /\ v.sequence \in Nat /\ entries[a].sequence \in Nat /\ MaxSequence \in Nat
        /\ v.sequence > entries[a].sequence
    BY <1>1, <1>4, <1>6, SequenceAssumption DEF Sessions, Inv, TypeOK, Entry
  <2>3. IsSelectable(v)
    BY <1>6, <2>2 DEF IsSelectable
  <2> HIDE DEF e
  <2>4. ActiveEntry(e) = r
    BY <2>1, <2>2, <2>3 DEF ActiveEntry
  <2> QED BY <2>4 DEF e
<1>10. FlightFits'
  <2>1. mode' = "run"
    OBVIOUS
  <2>2. flight'.entry = r /\ flight'.value = v /\ flight'.reason = "activate"
    BY <1>8
  <2>3. SlotOf(entries'[1 - r].sequence) = running'
    BY <1>1, <1>8
  <2> QED BY <1>4, <1>9, <2>1, <2>2, <2>3 DEF FlightFits, v
<1>11. OfferFits'
  BY <1>2, <1>7 DEF OfferFits
<1>12. SessionFits' /\ ActivationSelected'
  BY <1>4 DEF SessionFits, ActivationSelected, Activated
<1>13. DeviceStep
  BY <1>1, <1>2, <1>7 DEF DeviceStep, Device!vars, Executing, Offer, Offered, Started
<1> QED BY <1>10, <1>11, <1>12, <1>13

LEMMA VerifyMaps ==
  ASSUME DeviceInv, Inv', VerifyBlock
  PROVE  DeviceInv' /\ DeviceStep
<1>1. /\ Ready /\ IsLive(session) /\ UNCHANGED <<slots, floor, mode, running, proven>>
  BY DEF VerifyBlock
<1>2. /\ ~Activated(session')
      /\ UNCHANGED <<entries, flight>> \/ \E s : ActivationStarts(s)
  BY VerifyBlockStep DEF DeviceInv
<1>3. CASE UNCHANGED <<entries, flight>>
  BY <1>1, <1>2, <1>3, SessionMaps
<1>4. CASE \E s : ActivationStarts(s)
  BY <1>1, <1>4, ActivationMaps
<1> QED BY <1>2, <1>3, <1>4

\* A candidate starts to confirm itself: it is on trial, its record is selected
\* and the other record is of the home slot.
LEMMA ConfirmMaps ==
  ASSUME DeviceInv, Inv', ConfirmRunningImage
  PROVE  DeviceInv' /\ DeviceStep
<1> USE DEF DeviceInv
<1>1. PICK a \in Records : a = ActiveEntry(entries)
  BY HomeFacts
<1>2. /\ Ready /\ flight = NoFlight /\ mode = "run" /\ UNCHANGED <<slots, floor, running, session>>
      /\ entries[a].state = "PENDING_VERIFY" /\ SlotOf(entries[a].sequence) = running
  BY <1>1 DEF ConfirmRunningImage, ConfirmsRunningImage, Ready
<1>3. /\ HomeSlot = SlotOf(entries[1 - a].sequence) /\ HomeSlot # running /\ Vouches(1 - a)
  BY <1>1, <1>2, HomeFacts
<1>4. Started /\ Offer = "started"
  BY <1>2, <1>3 DEF Offer, Started
<1>5. ~(Activated(session) /\ session.target_sequence < MaxSequence)
  BY <1>1, <1>2 DEF ActivationSelected, Activated
<1>6. CASE mode' = "halted" /\ UNCHANGED <<entries, flight>>
  <2>1. HomeSlot' = HomeSlot
    BY <1>6 DEF HomeSlot
  <2>2. DeviceStep
    BY <1>2, <1>3, <1>4, <1>6, <2>1 DEF DeviceStep, Device!vars, Executing, Offer, Started
  <2>3. FlightFits' /\ OfferFits'
    BY <1>1, <1>2, <1>6 DEF FlightFits, OfferFits
  <2>4. SessionFits' /\ ActivationSelected'
    BY <1>2, <1>5, <1>6 DEF SessionFits, ActivationSelected, Activated
  <2> QED BY <2>2, <2>3, <2>4
<1>7. CASE /\ StartReplace(a, [entries[a] EXCEPT !.state = "VALID"], "confirm")
           /\ mode' = mode
  <2> DEFINE v == [entries[a] EXCEPT !.state = "VALID"]
  <2>1. entries[a] \in Entry /\ entries \in [Records -> Entry]
    BY DEF Inv, TypeOK
  <2>2. /\ v.state = "VALID" /\ v.sequence = entries[a].sequence
        /\ v.crc_ok = entries[a].crc_ok
    BY <2>1 DEF Entry
  <2>3. StartReplace(a, v, "confirm")
    BY <1>7
  <2> HIDE DEF v
  <2>4. /\ ActiveEntry(entries') = 1 - a /\ entries'[1 - a] = entries[1 - a]
        /\ entries'[1 - a].state = "VALID" /\ HomeSlot' = HomeSlot
    BY <1>3, <2>3, ReplaceKeepsHome
  <2>5. flight' = [entry |-> a, value |-> v, reason |-> "confirm"]
    BY <2>3 DEF StartReplace
  <2>6. ActiveEntry([entries' EXCEPT ![a] = v]) = a
    <3> DEFINE e == [entries' EXCEPT ![a] = v]
    <3>1. e[a] = v /\ e[1 - a] = entries[1 - a]
      BY <2>1, <2>3, <2>4 DEF StartReplace
    <3>2. IsSelectable(v)
      BY <1>1, <2>1, <2>2, ActiveIsSelectable DEF IsSelectable
    <3>3. \A r \in Records : entries[r].sequence \in Nat
      BY <2>1 DEF Entry
    <3> HIDE DEF e
    <3>4. ActiveEntry(e) = a
      BY <1>1, <2>2, <3>1, <3>2, <3>3 DEF ActiveEntry
    <3> QED BY <3>4 DEF e
  <2>7. FlightFits'
    <3>1. flight'.entry = a /\ flight'.value = v /\ flight'.reason = "confirm"
      BY <2>5
    <3>2. SlotOf(v.sequence) = running' /\ SlotOf(entries'[1 - a].sequence) # running'
      BY <1>2, <1>3, <2>2, <2>4
    <3> QED BY <2>2, <2>6, <3>1, <3>2 DEF FlightFits
  <2>8. OfferFits'
    BY <2>4 DEF OfferFits
  <2>9. SessionFits' /\ ActivationSelected'
    BY <1>2, <1>5, <1>7 DEF SessionFits, ActivationSelected, Activated
  <2>10. DeviceStep
    BY <1>2, <1>3, <1>4, <1>7, <2>4 DEF DeviceStep, Device!vars, Executing, Offer, Started
  <2> QED BY <2>7, <2>8, <2>9, <2>10
<1> QED BY <1>1, <1>6, <1>7 DEF ConfirmRunningImage

\* The end of a replacement that installs the record of a candidate, of an
\* abandoned one, or nothing: home stays.
LEMMA ReplaceEndsHome ==
  ASSUME Inv, flight # NoFlight, NEW r \in Records, NEW v \in Entry,
         r = flight.entry, v = flight.value, v.state # "VALID",
         entries' \in {entries, [entries EXCEPT ![r] = v]}
  PROVE  /\ HomeSlot' = HomeSlot
         /\ \/ ActiveEntry(entries') = 1 - r /\ entries'[1 - r].state = "VALID"
            \/ ActiveEntry(entries') = r /\ entries'[r] = v /\ IsSelectable(v)
<1>1. /\ ActiveEntry(entries) = 1 - r /\ entries[1 - r].state = "VALID"
      /\ HomeSlot = SlotOf(entries[1 - r].sequence) /\ Vouches(1 - r)
  BY FlightHome
<1>2. CASE entries' = entries
  BY <1>1, <1>2 DEF HomeSlot
<1>3. CASE entries' = [entries EXCEPT ![r] = v]
  <2>1. entries'[r] = v /\ entries'[1 - r] = entries[1 - r]
    BY <1>3 DEF Inv, TypeOK
  <2>2. \/ ActiveEntry(entries') = 1 - r
        \/ ActiveEntry(entries') = r /\ IsSelectable(v)
    BY <1>1, <2>1 DEF Vouches, ActiveEntry
  <2>3. HomeSlot' = SlotOf(entries'[1 - r].sequence)
    BY <1>1, <2>1, <2>2 DEF HomeSlot
  <2> QED BY <1>1, <2>1, <2>2, <2>3
<1> QED BY <1>2, <1>3

\* The activation ends: the update is offered, or its record was not written or
\* cannot be selected.
LEMMA ActivationEnds ==
  ASSUME DeviceInv, Inv', Replacement, flight.reason = "activate"
  PROVE  DeviceInv' /\ DeviceStep
<1> USE DEF DeviceInv
<1>1. /\ flight # NoFlight /\ flight' = NoFlight /\ UNCHANGED <<slots, floor, running, proven>>
      /\ mode' = mode
  BY DEF Replacement, FinishReplace, ReplaceFails
<1>2. PICK r \in Records, v \in Entry : r = flight.entry /\ v = flight.value
  BY <1>1, InFlight
<1>3. /\ mode = "run" /\ r = session.activation_entry
      /\ v = NewEntry(session.target_sequence, "NEW")
      /\ SlotOf(entries[1 - r].sequence) = running
      /\ session.target_sequence < MaxSequence => ActiveEntry([entries EXCEPT ![r] = v]) = r
  BY <1>1, <1>2 DEF FlightFits
<1>4. v.state = "NEW" /\ v.sequence = session.target_sequence
  BY <1>3 DEF NewEntry
<1>5. /\ ActiveEntry(entries) = 1 - r /\ entries[1 - r].state = "VALID"
      /\ HomeSlot = running
  BY <1>1, <1>2, <1>3, FlightHome
<1>6. entries' \in {entries, [entries EXCEPT ![r] = v]}
  BY <1>2 DEF Replacement, FinishReplace, ReplaceFails
<1>7. /\ HomeSlot' = HomeSlot
      /\ \/ ActiveEntry(entries') = 1 - r /\ entries'[1 - r].state = "VALID"
         \/ ActiveEntry(entries') = r /\ entries'[r] = v
  BY <1>1, <1>2, <1>4, <1>6, ReplaceEndsHome
<1>8. FlightFits'
  BY <1>1 DEF FlightFits
<1>9. OfferFits'
  BY <1>1, <1>3, <1>5, <1>7 DEF OfferFits, Started
<1>10. SessionFits'
  BY <1>1, <1>3 DEF SessionFits
<1>11. session \in Sessions
  BY <1>1 DEF Inv, FlightSound
<1>12. ActivationSelected'
  <2>1. CASE FinishReplace
    <3>1. /\ entries' = [entries EXCEPT ![r] = v]
          /\ session' = [session EXCEPT !.phase = "Activated", !.failure = "Ok"]
      BY <1>2, <2>1 DEF FinishReplace
    <3>2. /\ session'.target_sequence = session.target_sequence
          /\ session'.activation_entry = session.activation_entry
      BY <1>11, <3>1 DEF Sessions
    <3>3. entries'[r] = v
      BY <3>1 DEF Inv, TypeOK
    <3> QED BY <1>3, <1>4, <3>1, <3>2, <3>3 DEF ActivationSelected
  <2>2. CASE ReplaceFails
    <3>1. ~Activated(session')
      BY <1>11, <2>2, FailType DEF ReplaceFails, Failures
    <3> QED BY <3>1 DEF ActivationSelected, Activated
  <2> QED BY <2>1, <2>2 DEF Replacement
<1>13. Executing' = Executing /\ slots'[HomeSlot'] = slots[HomeSlot]
  BY <1>1, <1>7 DEF Executing, Started
<1>14. Started /\ Started' /\ Offer = "none" /\ Executing = slots[HomeSlot][1]
  BY <1>1, <1>3, <1>5 DEF Offer, Offered, Started, Executing
<1>15. CASE ActiveEntry(entries') = 1 - r /\ entries'[1 - r].state = "VALID"
  <2>1. Offer' = "none"
    BY <1>1, <1>3, <1>5, <1>7, <1>15 DEF Offer, Offered, Started
  <2>2. UNCHANGED Device!vars
    BY <1>1, <1>7, <1>13, <1>14, <2>1 DEF Device!vars
  <2> QED BY <1>8, <1>9, <1>10, <1>12, <2>2 DEF DeviceStep
<1>16. CASE ActiveEntry(entries') = r /\ entries'[r] = v
  <2>1. Offer' = "offered"
    BY <1>1, <1>3, <1>4, <1>5, <1>7, <1>16 DEF Offer, Offered, Started
  <2>2. Device!Offer
    BY <1>1, <1>7, <1>13, <1>14, <2>1 DEF Device!Offer
  <2> QED BY <1>8, <1>9, <1>10, <1>12, <2>2 DEF DeviceStep, Device!Next
<1> QED BY <1>7, <1>15, <1>16

\* The confirmation ends: the executing candidate is the new home image, or its
\* record was not written and the firmware has stopped.
LEMMA ConfirmationEnds ==
  ASSUME DeviceInv, Inv', Replacement, flight.reason = "confirm"
  PROVE  DeviceInv' /\ DeviceStep
<1> USE DEF DeviceInv
<1>1. /\ flight # NoFlight /\ flight' = NoFlight /\ UNCHANGED <<slots, floor, running, proven, session>>
  BY DEF Replacement, FinishReplace, ReplaceFails
<1>2. PICK r \in Records, v \in Entry : r = flight.entry /\ v = flight.value
  BY <1>1, InFlight
<1>3. /\ v.state = "VALID" /\ SlotOf(v.sequence) = running
      /\ SlotOf(entries[1 - r].sequence) # running
      /\ ActiveEntry([entries EXCEPT ![r] = v]) = r
  BY <1>1, <1>2 DEF FlightFits
<1>4. mode = "run" /\ mode' \in {"run", "halted"}
  BY <1>1 DEF Inv, FlightSound, Replacement, FinishReplace, ReplaceFails
<1>5. /\ ActiveEntry(entries) = 1 - r /\ entries[1 - r].state = "VALID"
      /\ HomeSlot = SlotOf(entries[1 - r].sequence)
  BY <1>1, <1>2, FlightHome
<1>6. entries' \in {entries, [entries EXCEPT ![r] = v]}
  BY <1>2 DEF Replacement, FinishReplace, ReplaceFails
<1>7. Started /\ Started' /\ Offer = "started" /\ Executing' = Executing /\ Executing = slots[running][1]
  BY <1>1, <1>3, <1>4, <1>5 DEF Started, Offer, Executing
<1>8. Executing # Blank
  BY <1>4, <1>7, LoadedImage DEF Inv, RunningLoadable, TypeOK
<1>9. ~(Activated(session) /\ session.target_sequence < MaxSequence)
  BY <1>1 DEF SessionFits
<1>10. FlightFits' /\ SessionFits' /\ ActivationSelected'
  BY <1>1, <1>4, <1>9 DEF FlightFits, SessionFits, ActivationSelected, Activated
<1>11. CASE entries' = entries
  <2>1. HomeSlot' = HomeSlot /\ OfferFits'
    BY <1>5, <1>11 DEF HomeSlot, OfferFits
  <2>2. Offer' = "started"
    BY <1>1, <1>3, <1>5, <1>7, <2>1 DEF Offer
  <2>3. UNCHANGED Device!vars
    BY <1>1, <1>7, <2>1, <2>2 DEF Device!vars
  <2> QED BY <1>10, <2>1, <2>3 DEF DeviceStep
<1>12. CASE entries' = [entries EXCEPT ![r] = v]
  <2>1. ActiveEntry(entries') = r /\ entries'[r] = v
    BY <1>3, <1>12 DEF Inv, TypeOK
  <2>2. HomeSlot' = running /\ OfferFits'
    BY <1>3, <2>1 DEF HomeSlot, OfferFits
  <2>3. Offer' = "none"
    BY <1>1, <1>3, <1>4, <2>1, <2>2 DEF Offer, Offered
  <2>4. Device!Confirm
    BY <1>1, <1>7, <1>8, <2>2, <2>3 DEF Device!Confirm
  <2> QED BY <1>10, <2>2, <2>4 DEF DeviceStep, Device!Next
<1> QED BY <1>6, <1>11, <1>12

\* The bootloader's own replacements change neither home nor offer.
LEMMA BootReplacementEnds ==
  ASSUME DeviceInv, Inv', Replacement, flight.reason \in {"abort", "try"}
  PROVE  DeviceInv' /\ DeviceStep
<1> USE DEF DeviceInv
<1>1. /\ flight # NoFlight /\ flight' = NoFlight
      /\ UNCHANGED <<slots, floor, running, proven, session, mode>>
  BY DEF Replacement, FinishReplace, ReplaceFails
<1>2. PICK r \in Records, v \in Entry : r = flight.entry /\ v = flight.value
  BY <1>1, InFlight
<1>3. v.state \in {"ABORTED", "PENDING_VERIFY"}
  BY <1>1, <1>2 DEF FlightFits
<1>4. ActiveEntry(entries) = 1 - r /\ entries[1 - r].state = "VALID"
  BY <1>1, <1>2, FlightHome
<1>5. entries' \in {entries, [entries EXCEPT ![r] = v]}
  BY <1>2 DEF Replacement, FinishReplace, ReplaceFails
<1>6. /\ HomeSlot' = HomeSlot
      /\ \/ ActiveEntry(entries') = 1 - r /\ entries'[1 - r].state = "VALID"
         \/ ActiveEntry(entries') = r /\ entries'[r] = v
  BY <1>1, <1>2, <1>3, <1>5, ReplaceEndsHome
<1>7. entries'[ActiveEntry(entries')].state # "NEW"
  BY <1>3, <1>6
<1>8. ~(Activated(session) /\ session.target_sequence < MaxSequence)
  BY <1>1 DEF SessionFits
<1>9. FlightFits' /\ OfferFits' /\ SessionFits' /\ ActivationSelected'
  BY <1>1, <1>7, <1>8 DEF FlightFits, OfferFits, SessionFits, ActivationSelected, Activated
<1>10. Offer' = Offer
  BY <1>1, <1>4, <1>6, <1>7 DEF Offer, Offered, Started
<1>11. UNCHANGED Device!vars
  BY <1>1, <1>6, <1>10 DEF Device!vars, Executing, Started
<1> QED BY <1>9, <1>11 DEF DeviceStep

LEMMA ReplacementMaps ==
  ASSUME DeviceInv, Inv', Replacement
  PROVE  DeviceInv' /\ DeviceStep
<1>1. flight.reason \in {"activate", "confirm", "abort", "try"}
  BY DEF DeviceInv, FlightFits, Replacement, FinishReplace, ReplaceFails
<1> QED BY <1>1, ActivationEnds, ConfirmationEnds, BootReplacementEnds

\* Epoch maintenance runs in the home image, whose version allows the new floor.
LEMMA RaiseMaps ==
  ASSUME DeviceInv, Inv', NEW target \in 1..MaxFloor, RaiseFloor(target)
  PROVE  DeviceInv' /\ DeviceStep
<1> USE DEF DeviceInv
<1>1. PICK a \in Records : a = ActiveEntry(entries)
  BY HomeFacts
<1>2. /\ mode = "run" /\ flight = NoFlight
      /\ UNCHANGED <<entries, slots, mode, running, session, flight, proven>>
  BY DEF RaiseFloor, Ready
<1>3. entries[a].state = "VALID" /\ SlotOf(entries[a].sequence) = running
  BY <1>1 DEF RaiseFloor, HasQualifiedLayout
<1>4. HomeSlot = running /\ HomeSlot' = HomeSlot /\ HomeSlot \in Slots
  <2>1. HomeSlot' = HomeSlot
    BY <1>2 DEF HomeSlot
  <2> QED BY <1>1, <1>3, <2>1, HomeFacts
<1>5. Loadable(HomeSlot)'
  BY <1>2, <1>4 DEF Inv, RunningLoadable, Loadable
<1>6. SecureVersion[slots[HomeSlot][1]] >= floor'
  <2>1. PICK i \in SignedImages : slots'[HomeSlot] = Filled(i) /\ SecureVersion[i] >= floor'
    BY <1>4, <1>5 DEF Loadable
  <2>2. 1 \in BlockNo
    BY ImagesAssumption DEF BlockNo
  <2> QED BY <1>2, <2>1, <2>2 DEF Filled
<1>7. /\ Executing = slots[HomeSlot][1] /\ Executing' = Executing
      /\ Offer = "none" /\ Offer' = "none"
  BY <1>1, <1>2, <1>3, <1>4 DEF Executing, Offer, Offered, Started
<1>8. floor' > floor
  BY FloorAssumption DEF RaiseFloor, Inv, TypeOK
<1>9. Device!Raise
  BY <1>2, <1>4, <1>6, <1>7, <1>8 DEF Device!Raise
<1>10. FlightFits' /\ OfferFits' /\ SessionFits' /\ ActivationSelected'
  BY <1>2, <1>4 DEF FlightFits, OfferFits, SessionFits, ActivationSelected, Started
<1> QED BY <1>9, <1>10 DEF DeviceStep, Device!Next

\* Losing power ends what executes and what was on trial.
LEMMA PowerMaps ==
  ASSUME DeviceInv, Inv', PowerOff, UNCHANGED <<entries, floor, running>>,
         slots'[HomeSlot] = slots[HomeSlot]
  PROVE  DeviceInv' /\ DeviceStep
<1> USE DEF DeviceInv
<1>1. /\ mode' = "boot" /\ session' = NoSession /\ flight' = NoFlight
      /\ HomeSlot' = HomeSlot /\ ~Started' /\ Executing' = Blank
  BY DEF PowerOff, HomeSlot, Started, Executing
<1>2. FlightFits' /\ OfferFits' /\ SessionFits' /\ ActivationSelected'
  BY <1>1 DEF FlightFits, OfferFits, SessionFits, ActivationSelected, Activated
<1> DEFINE new == entries[ActiveEntry(entries)].state = "NEW"
<1>3. Offer' = IF new THEN "offered" ELSE "none"
  BY <1>1 DEF Offer, Offered
<1>4. CASE Started
  <2>1. Executing # Blank
    BY <1>4, LoadedImage DEF Inv, RunningLoadable, TypeOK, Executing, Started
  <2>2. Offer' = IF Offer = "started" THEN "none" ELSE Offer
    <3>1. CASE running # HomeSlot
      <4>1. ~new
        BY <3>1, <1>4 DEF OfferFits, Started
      <4>2. Offer = "started"
        BY <1>4, <3>1 DEF Offer
      <4> QED BY <1>3, <4>1, <4>2
    <3>2. CASE running = HomeSlot
      <4>1. Offer = IF new THEN "offered" ELSE "none"
        BY <1>4, <3>2 DEF Offer, Offered, Started
      <4> QED BY <1>3, <4>1
    <3> QED BY <3>1, <3>2
  <2>3. Device!LosePower
    BY <1>1, <2>1, <2>2 DEF Device!LosePower
  <2> QED BY <1>2, <2>3 DEF DeviceStep, Device!Next
<1>5. CASE mode = "boot"
  <2>1. Offer = IF new THEN "offered" ELSE "none"
    BY <1>5 DEF Offer, Offered, Started
  <2>2. UNCHANGED Device!vars
    BY <1>1, <1>3, <1>5, <2>1 DEF Device!vars, Executing, Started
  <2> QED BY <1>2, <2>2 DEF DeviceStep
<1>6. CASE mode = "load"
  <2>1. Offer' = "none"
    BY <1>3, <1>6 DEF OfferFits, Started
  <2>2. Offer \in {"none", "offered"} /\ Executing = Blank
    BY <1>6 DEF Offer, Started, Executing
  <2>3. CASE Offer = "none"
    <3>1. UNCHANGED Device!vars
      BY <1>1, <2>1, <2>2, <2>3 DEF Device!vars
    <3> QED BY <1>2, <3>1 DEF DeviceStep
  <2>4. CASE Offer = "offered"
    <3>1. Device!Withdraw
      BY <1>1, <2>1, <2>2, <2>4 DEF Device!Withdraw
    <3> QED BY <1>2, <3>1 DEF DeviceStep, Device!Next
  <2> QED BY <2>2, <2>3, <2>4
<1> QED BY <1>4, <1>5, <1>6 DEF Inv, TypeOK, Started

LEMMA PowerCutMaps ==
  ASSUME DeviceInv, Inv', PowerCut \/ PowerCutInBlock
  PROVE  DeviceInv' /\ DeviceStep
<1>1. CASE PowerCut
  BY <1>1, PowerMaps DEF PowerCut
<1>2. CASE PowerCutInBlock
  <2>1. slots'[HomeSlot] = slots[HomeSlot]
    BY <1>2, TargetBlock, LiveHome DEF PowerCutInBlock, Ready, Content, DeviceInv
  <2> QED BY <1>2, <2>1, PowerMaps DEF PowerCutInBlock
<1> QED BY <1>1, <1>2

\* The candidate that was started and never confirmed is given up: it was no
\* longer offered.
LEMMA BootAbortMaps ==
  ASSUME DeviceInv, Inv', NEW r \in Records, BootAbort(r)
  PROVE  DeviceInv' /\ DeviceStep
<1> USE DEF DeviceInv
<1>1. /\ mode = "boot" /\ flight = NoFlight /\ entries[r].state = "PENDING_VERIFY"
      /\ StartReplace(r, [entries[r] EXCEPT !.state = "ABORTED"], "abort")
      /\ UNCHANGED <<slots, floor, mode, running, session, proven>>
  BY DEF BootAbort
<1>2. PICK a \in Records : a = ActiveEntry(entries)
  BY HomeFacts
<1>3. /\ Vouches(1 - r) /\ HomeSlot = SlotOf(entries[1 - r].sequence)
      /\ entries[a].state # "NEW"
  <2>1. CASE a = r
    BY <1>1, <1>2, <2>1, HomeFacts
  <2>2. CASE a = 1 - r
    <3>1. entries[a].state = "VALID"
      BY <1>1, <1>2, <2>2, HomeFacts DEF Vouches
    <3> QED BY <1>2, <2>2, <3>1, HomeFacts DEF Inv, SelectedRecordSound
  <2> QED BY <1>2, <2>1, <2>2
<1>4. /\ ActiveEntry(entries') = 1 - r /\ entries'[1 - r].state = "VALID"
      /\ HomeSlot' = HomeSlot
  BY <1>1, <1>3, ReplaceKeepsHome
<1>5. FlightFits'
  <2>1. [entries[r] EXCEPT !.state = "ABORTED"].state = "ABORTED"
    BY DEF Inv, TypeOK, Entry
  <2> QED BY <1>1, <2>1 DEF FlightFits, StartReplace
<1>6. session = NoSession /\ session' = NoSession
  BY <1>1 DEF SessionFits
<1>7. OfferFits' /\ SessionFits' /\ ActivationSelected'
  BY <1>1, <1>4, <1>6 DEF OfferFits, SessionFits, ActivationSelected, Activated
<1>8. UNCHANGED Device!vars
  BY <1>1, <1>2, <1>3, <1>4 DEF Device!vars, Executing, Offer, Offered, Started
<1> QED BY <1>5, <1>7, <1>8 DEF DeviceStep

\* The bootloader takes up the offer, or home.
LEMMA BootSelectMaps ==
  ASSUME DeviceInv, Inv', BootSelect
  PROVE  DeviceInv' /\ DeviceStep
<1> USE DEF DeviceInv
<1>1. PICK a \in Records : a = ActiveEntry(entries)
  BY HomeFacts
<1>2. /\ mode = "boot" /\ mode' = "load" /\ flight = NoFlight
      /\ entries[a].state # "PENDING_VERIFY" /\ running' = SlotOf(entries[a].sequence)
      /\ UNCHANGED <<slots, floor, session, proven>>
  BY <1>1 DEF BootSelect
<1>3. session = NoSession /\ session' = NoSession
  BY <1>2 DEF SessionFits
<1>4. SessionFits' /\ ActivationSelected'
  BY <1>3 DEF SessionFits, ActivationSelected, Activated
<1>5. Executing = Blank /\ Executing' = Blank
  BY <1>2 DEF Executing, Started
<1>6. CASE entries[a].state = "NEW" /\ StartReplace(a, [entries[a] EXCEPT !.state = "PENDING_VERIFY"], "try")
  <2>1. /\ HomeSlot = SlotOf(entries[1 - a].sequence) /\ Vouches(1 - a) /\ running' # HomeSlot
    BY <1>1, <1>2, <1>6, HomeFacts
  <2>2. /\ ActiveEntry(entries') = 1 - a /\ entries'[1 - a].state = "VALID"
        /\ HomeSlot' = HomeSlot
    BY <1>6, <2>1, ReplaceKeepsHome
  <2>3. FlightFits'
    <3>1. [entries[a] EXCEPT !.state = "PENDING_VERIFY"].state = "PENDING_VERIFY"
      BY DEF Inv, TypeOK, Entry
    <3> QED BY <1>6, <3>1 DEF FlightFits, StartReplace
  <2>4. OfferFits'
    BY <2>2 DEF OfferFits
  <2>5. Offer = "offered" /\ Offer' = "offered"
    BY <1>1, <1>2, <1>6, <2>1, <2>2 DEF Offer, Offered, Started
  <2>6. UNCHANGED Device!vars
    BY <1>2, <1>5, <2>2, <2>5 DEF Device!vars
  <2> QED BY <1>4, <2>3, <2>4, <2>6 DEF DeviceStep
<1>7. CASE entries[a].state # "NEW" /\ UNCHANGED <<entries, flight>>
  <2>1. entries[a].state = "VALID" /\ HomeSlot = running'
    BY <1>1, <1>2, <1>7, HomeFacts
  <2>2. HomeSlot' = HomeSlot
    BY <1>7 DEF HomeSlot
  <2>3. FlightFits' /\ OfferFits'
    BY <1>1, <1>2, <1>7 DEF FlightFits, OfferFits
  <2>4. Offer = "none" /\ Offer' = "none"
    BY <1>1, <1>2, <1>7, <2>1, <2>2 DEF Offer, Offered, Started
  <2>5. UNCHANGED Device!vars
    BY <1>2, <1>5, <2>2, <2>4 DEF Device!vars
  <2> QED BY <1>4, <2>3, <2>5 DEF DeviceStep
<1> QED BY <1>1, <1>6, <1>7 DEF BootSelect

\* The bootloader starts the candidate it took up, or home: home can always be
\* loaded.
LEMMA BootLoadMaps ==
  ASSUME DeviceInv, Inv', BootLoad
  PROVE  DeviceInv' /\ DeviceStep
<1> USE DEF DeviceInv
<1>1. /\ mode = "load" /\ mode' = "run" /\ flight = NoFlight
      /\ UNCHANGED <<entries, slots, floor, session, flight, proven>>
  BY DEF BootLoad
<1>2. /\ running' \in Slots /\ Loadable(running')
      /\ running' # running => ~Loadable(running)
  BY DEF BootLoad
<1>3. HomeSlot \in Slots /\ Loadable(HomeSlot) /\ HomeSlot' = HomeSlot
  BY <1>1, HomeFacts DEF HomeSlot
<1>4. entries[ActiveEntry(entries)].state # "NEW"
  BY <1>1 DEF OfferFits, Started
<1>5. FlightFits' /\ OfferFits' /\ SessionFits' /\ ActivationSelected'
  BY <1>1, <1>4 DEF FlightFits, OfferFits, SessionFits, ActivationSelected, Activated
<1>6. Executing = Blank /\ Started' /\ Executing' = slots[running'][1]
  BY <1>1 DEF Executing, Started
<1>7. CASE running' = HomeSlot
  <2>1. SecureVersion[slots[HomeSlot][1]] >= floor
    BY <1>3, LoadedImage
  <2>2. Offer' = "none"
    BY <1>1, <1>3, <1>4, <1>6, <1>7 DEF Offer, Offered
  <2>3. Device!StartHome
    BY <1>1, <1>3, <1>6, <1>7, <2>1, <2>2 DEF Device!StartHome
  <2> QED BY <1>5, <2>3 DEF DeviceStep, Device!Next
<1>8. CASE running' # HomeSlot
  <2>1. running # HomeSlot
    BY <1>2, <1>3, <1>8
  <2>2. Offer = "offered" /\ Offer' = "started"
    BY <1>1, <1>3, <1>6, <1>8, <2>1 DEF Offer, Offered, Started
  <2>3. slots[running'][1] \in SignedImages /\ SecureVersion[slots[running'][1]] >= floor
    BY <1>2, LoadedImage
  <2>4. Device!StartCandidate
    BY <1>1, <1>3, <1>6, <2>2, <2>3 DEF Device!StartCandidate
  <2> QED BY <1>5, <2>4 DEF DeviceStep, Device!Next
<1> QED BY <1>7, <1>8

\* What happens to a candidate at rest happens to neither home nor what executes.
LEMMA DecayMaps ==
  ASSUME DeviceInv, Inv', CandidateDecays
  PROVE  DeviceInv' /\ DeviceStep
<1> USE DEF DeviceInv
<1>1. PICK a \in Records : a = ActiveEntry(entries)
  BY HomeFacts
<1>2. PICK c, b : /\ c = SlotOf(entries[a].sequence)
                  /\ Started => running # c
                  /\ slots' = [slots EXCEPT ![c][b] = Torn]
                  /\ entries[a].state \in {"NEW", "PENDING_VERIFY"}
  BY <1>1 DEF CandidateDecays, Started
<1>3. HomeSlot # c /\ HomeSlot \in Slots
  BY <1>1, <1>2, HomeFacts
<1>4. slots \in [Slots -> [BlockNo -> Content]] /\ running \in Slots
  BY DEF Inv, TypeOK
<1>5. slots'[HomeSlot] = slots[HomeSlot] /\ (Started => slots'[running] = slots[running])
  BY <1>2, <1>3, <1>4
<1>6. UNCHANGED <<entries, floor, mode, running, flight, session>>
  BY DEF CandidateDecays
<1> QED BY <1>5, <1>6, QuietStep

\* A fresh device is an A/B device with nothing on offer.
LEMMA DeviceInit == Init => DeviceInv /\ Device!Init
<1> SUFFICES ASSUME Init PROVE DeviceInv /\ Device!Init
  OBVIOUS
<1>1. Inv
  BY InvInit
<1>2. PICK i \in SignedImages :
         slots = [s \in Slots |-> Filled(IF s = 0 THEN i ELSE Blank)]
  BY DEF Init
<1>3. slots[0][1] = i
  <2>1. 1 \in BlockNo
    BY ImagesAssumption DEF BlockNo
  <2> QED BY <1>2, <2>1 DEF Filled
<1>4. /\ entries[0] = NewEntry(1, "VALID") /\ entries[1] = ErasedEntry
      /\ mode = "run" /\ running = 0 /\ session = NoSession /\ flight = NoFlight /\ floor = 0
  BY DEF Init
<1>5. ActiveEntry(entries) = 0
  BY <1>1, <1>4, HomeFacts, ActiveIsSelectable, NotSelectable DEF Inv, TypeOK, ActiveEntry
<1>6. entries[0].state = "VALID" /\ HomeSlot = 0
  <2>1. entries[0].state = "VALID" /\ entries[0].sequence = 1
    BY <1>4 DEF NewEntry
  <2> QED BY <1>5, <2>1 DEF HomeSlot, SlotOf
<1>7. Executing = i /\ Offer = "none"
  BY <1>3, <1>4, <1>5, <1>6 DEF Executing, Offer, Offered, Started
<1>8. Device!Init
  BY <1>3, <1>4, <1>6, <1>7 DEF Device!Init
<1> QED BY <1>1, <1>4, <1>5, <1>6, <1>8
        DEF DeviceInv, FlightFits, OfferFits, SessionFits, ActivationSelected, Activated

\* Every step is a step of the device or invisible, and keeps the invariant.
LEMMA DeviceNext == ASSUME DeviceInv, [Next]_vars PROVE DeviceInv' /\ DeviceStep
<1>1. Inv'
  BY InvNext DEF DeviceInv
<1>2. CASE Firmware
  BY <1>1, <1>2, TransferMaps, VerifyMaps, ConfirmMaps, RaiseMaps DEF Firmware
<1>3. CASE Replacement
  BY <1>1, <1>3, ReplacementMaps
<1>4. CASE Bootloader
  BY <1>1, <1>4, BootAbortMaps, BootSelectMaps, BootLoadMaps DEF Bootloader
<1>5. CASE PowerCut \/ PowerCutInBlock
  BY <1>1, <1>5, PowerCutMaps
<1>6. CASE CandidateDecays
  BY <1>1, <1>6, DecayMaps
<1>7. CASE UNCHANGED vars
  BY <1>1, <1>7, QuietStep DEF vars
<1> QED BY <1>2, <1>3, <1>4, <1>5, <1>6, <1>7 DEF Next

\* The inductive invariant of the refinement holds in every reachable state.
THEOREM DeviceInvariance == Spec => []DeviceInv
<1>1. Init => DeviceInv
  BY DeviceInit
<1>2. DeviceInv /\ [Next]_vars => DeviceInv'
  BY DeviceNext
<1> QED BY <1>1, <1>2, PTL DEF Spec

\* A completed activation is what the next boot selects (activate_update,
\* active_entry), unless its sequence is the value of an erased record.
THEOREM ActivationIsSelected == Spec => []ActivationSelected
<1>1. DeviceInv => ActivationSelected
  BY DEF DeviceInv
<1> QED BY <1>1, DeviceInvariance, PTL

\* Records, slots, sessions and bootloader together implement the A/B device: a
\* candidate starts at most once, becomes home only by its own confirmation, and
\* home is never lost.
THEOREM Refinement == Spec => ImplementsABDevice
<1>1. Init => Device!Init
  BY DeviceInit
<1>2. DeviceInv /\ [Next]_vars => [Device!Next]_(Device!vars)
  BY DeviceNext DEF DeviceStep
<1> QED BY <1>1, <1>2, DeviceInvariance, PTL DEF Spec, ImplementsABDevice, Device!Spec

-----------------------------------------------------------------------------
(* The update protocol against the clock. *)

\* The sessions of UsbUpdate.
TimedSessions ==
    [id : Nat, phase : Phase, target_slot : Nat, active_slot : Nat,
     active_sequence : Nat, activation_entry : Nat, target_sequence : Nat,
     expected_image : Images, expected_version : Nat,
     completed : 0..Blocks, hashed : Seq(Content), failure : Failures,
     started_ms : Nat, last_progress_ms : Nat, last_checked_ms : Nat]

\* The blocks f of the slot are where session s says its phase has brought
\* them: erased so far, still erased, or hashed so far.
PhaseFits(s, f) ==
    /\ s.phase # "Receiving" => s.completed < Blocks
    /\ s.phase = "Erasing" =>
          \A b \in BlockNo : b <= s.completed => f[b] = Blank
    /\ s.phase = "Receiving" =>
          \A b \in BlockNo : b > s.completed => f[b] = Blank
    /\ s.phase = "Verifying" => s.hashed = [b \in 1..s.completed |-> f[b]]

\* Session s is the one the button was pressed for, and its deadlines run from
\* that press and from the last progress.
Tracks(s, image, at, last) ==
    s.expected_image = image /\ s.started_ms = at /\ s.last_progress_ms = last

ProtocolTyped ==
    /\ now \in Nat /\ next_session_id \in Nat
    /\ flash \in [BlockNo -> Content]
    /\ session \in TimedSessions \cup {NoSession}

\* The inductive invariant of UsbUpdate.
ProtocolInv ==
    /\ ProtocolTyped
    /\ IsLive(session) => /\ Tracks(session, approved, approval, touched)
                          /\ PhaseFits(session, flash)

\* What FreshApproval says of a step.
FreshStep ==
    /\ flash' # flash => /\ approved # Blank
                        /\ now - approval < MaxLifetime
                        /\ now - touched < IdleTimeout
    /\ Activates => /\ now' - approval < MaxLifetime
                    /\ now' - touched < IdleTimeout
                    /\ flash = Filled(approved)
                    /\ approved \in SignedImages
                    /\ SecureVersion[approved] >= CurrentVersion

\* What ProgramOnlyErased says of a step.
ProgramStep ==
    \A b \in BlockNo :
      flash'[b] # flash[b] /\ flash'[b] \in Images => flash[b] = Blank

\* What every step keeps and does.
ProtocolStep == ProtocolInv' /\ FreshStep /\ ProgramStep

\* Session::expire ends a live session or only notes the instant.
LEMMA ExpireFacts ==
  ASSUME NEW s \in TimedSessions, NEW t \in Nat
  PROVE  /\ Expire(s, t) \in TimedSessions
         /\ Expire(s, t).phase \in {s.phase, "Failed"}
         /\ Expire(s, t).phase \in Live =>
               /\ s.phase \in Live /\ ~Overdue(s, t)
               /\ Expire(s, t) = [s EXCEPT !.last_checked_ms = t]
         /\ s.phase \in Live /\ ~Expired(s, t) =>
               /\ ~Overdue(s, t)
               /\ Expire(s, t) = [s EXCEPT !.last_checked_ms = t]
<1> DEFINE checked == [s EXCEPT !.last_checked_ms = t]
<1>1. checked \in TimedSessions /\ checked.phase = s.phase
  BY DEF TimedSessions
<1>2. /\ Fail(checked, "SessionExpired") \in TimedSessions
      /\ Fail(checked, "SessionExpired").phase = "Failed"
  <2> HIDE DEF checked
  <2> QED BY <1>1 DEF Fail, TimedSessions, Phase, Failures
<1>3. CASE s.phase \notin Live
  BY <1>3 DEF Expire
<1>4. CASE s.phase \in Live /\ Overdue(s, t)
  <2>1. Expire(s, t) = Fail(checked, "SessionExpired")
    BY <1>4 DEF Expire
  <2>2. Expired(s, t)
    BY <1>4 DEF Expired
  <2> QED BY <1>2, <2>1, <2>2 DEF Live
<1>5. CASE s.phase \in Live /\ ~Overdue(s, t)
  <2>1. Expire(s, t) = checked
    BY <1>5 DEF Expire
  <2> QED BY <1>1, <1>5, <2>1
<1> QED BY <1>3, <1>4, <1>5

\* Session::progress ends a live session or restarts its idle time.
LEMMA ProgressFacts ==
  ASSUME NEW s \in TimedSessions, NEW t \in Nat, s.phase \in Live
  PROVE  /\ Progress(s, t) \in TimedSessions
         /\ Progress(s, t).phase \in {s.phase, "Failed"}
         /\ Progress(s, t).phase \in Live =>
               Progress(s, t) = [s EXCEPT !.last_checked_ms = t,
                                          !.last_progress_ms = t]
<1>1. CASE Expired(s, t)
  <2>1. Progress(s, t) = Expire(s, t)
    BY <1>1 DEF Progress
  <2>2. Expire(s, t).phase \notin Live
    BY <1>1, ExpireFacts DEF Expired
  <2> QED BY <2>1, <2>2, ExpireFacts
<1>2. CASE ~Expired(s, t)
  <2>1. Expire(s, t) = [s EXCEPT !.last_checked_ms = t]
    BY <1>2, ExpireFacts
  <2>2. Progress(s, t) = [s EXCEPT !.last_checked_ms = t, !.last_progress_ms = t]
    BY <1>2, <2>1 DEF Progress
  <2>3. [s EXCEPT !.last_checked_ms = t, !.last_progress_ms = t] \in TimedSessions
    BY DEF TimedSessions
  <2>4. [s EXCEPT !.last_checked_ms = t, !.last_progress_ms = t].phase = s.phase
    BY DEF TimedSessions
  <2> QED BY <2>2, <2>3, <2>4
<1> QED BY <1>1, <1>2

\* A failed session has a type and no approval left.
LEMMA FailFacts ==
  ASSUME NEW s \in TimedSessions, NEW f \in Failures
  PROVE  Fail(s, f) \in TimedSessions /\ Fail(s, f).phase = "Failed"
BY DEF Fail, TimedSessions, Phase

\* The session a request finds live was live before the poll and is within its
\* deadlines.
LEMMA PolledLive ==
  ASSUME ProtocolInv, Polled # NoSession
  PROVE  /\ session \in TimedSessions /\ session # NoSession
         /\ Polled = Expire(session, now) /\ Polled \in TimedSessions
         /\ Polled.phase \in {session.phase, "Failed"}
         /\ Polled.phase \in Live =>
              /\ IsLive(session)
              /\ Polled = [session EXCEPT !.last_checked_ms = now]
              /\ Tracks(Polled, approved, approval, touched)
              /\ PhaseFits(Polled, flash)
              /\ approved # Blank
              /\ now - approval < MaxLifetime /\ now - touched < IdleTimeout
<1>1. /\ session \in TimedSessions /\ session # NoSession
      /\ Polled = Expire(session, now) /\ now \in Nat
  BY DEF Polled, ProtocolInv, ProtocolTyped
<1>2. Polled \in TimedSessions /\ Polled.phase \in {session.phase, "Failed"}
  BY <1>1, ExpireFacts
<1>3. ASSUME Polled.phase \in Live
      PROVE  /\ IsLive(session)
             /\ Polled = [session EXCEPT !.last_checked_ms = now]
             /\ Tracks(Polled, approved, approval, touched)
             /\ PhaseFits(Polled, flash)
             /\ approved # Blank
             /\ now - approval < MaxLifetime /\ now - touched < IdleTimeout
  <2>1. /\ session.phase \in Live /\ ~Overdue(session, now)
        /\ Polled = [session EXCEPT !.last_checked_ms = now]
    BY <1>1, <1>3, ExpireFacts
  <2>2. IsLive(session)
    BY <1>1, <2>1 DEF IsLive
  <2>3. /\ Tracks(session, approved, approval, touched)
        /\ PhaseFits(session, flash)
    BY <2>2 DEF ProtocolInv
  <2>4. /\ Polled.expected_image = session.expected_image
        /\ Polled.started_ms = session.started_ms
        /\ Polled.last_progress_ms = session.last_progress_ms
        /\ Polled.phase = session.phase /\ Polled.completed = session.completed
        /\ Polled.hashed = session.hashed
    BY <1>1, <2>1 DEF TimedSessions
  <2>5. Tracks(Polled, approved, approval, touched) /\ PhaseFits(Polled, flash)
    BY <2>3, <2>4 DEF Tracks, PhaseFits
  <2>6. approved # Blank
    BY <1>1, <2>3, ContentAssumption DEF Tracks, TimedSessions
  <2>7. now - approval < MaxLifetime /\ now - touched < IdleTimeout
    BY <1>1, <2>1, <2>3, DeadlineAssumption DEF Tracks, Overdue, TimedSessions
  <2> QED BY <2>1, <2>2, <2>5, <2>6, <2>7
<1> QED BY <1>1, <1>2, <1>3

\* A refusal or a query.
LEMMA AnswerStep == ASSUME ProtocolInv, Answer PROVE ProtocolStep
<1>1. /\ session' = Polled
      /\ UNCHANGED <<now, next_session_id, flash, approval, approved, touched>>
  BY DEF Answer, history
<1>2. session' = NoSession \/ session' \in TimedSessions
  BY <1>1, PolledLive
<1>3. ASSUME IsLive(session)'
      PROVE  /\ Tracks(session', approved', approval', touched')
             /\ PhaseFits(session', flash')
  BY <1>1, <1>3, PolledLive DEF IsLive
<1>4. ~Activates
  BY <1>1, PolledLive DEF Activates
<1>5. ProtocolInv'
  BY <1>1, <1>2, <1>3 DEF ProtocolInv, ProtocolTyped
<1> QED BY <1>1, <1>4, <1>5 DEF ProtocolStep, FreshStep, ProgramStep

\* The instants Later names are instants.
LEMMA LaterNat == ASSUME ProtocolInv, NEW t \in Later PROVE t \in Nat
BY ClockAssumption DEF Later, ProtocolInv, ProtocolTyped

\* A new approval.
LEMMA BeginRequestStep ==
  ASSUME ProtocolInv, NEW image \in Images, NEW version \in Nat,
         NEW present \in BOOLEAN, HandleBegin(image, version, present)
  PROVE  ProtocolStep
<1>1. CASE Answer
  BY <1>1, AnswerStep
<1>2. CASE ~Answer
  <2> DEFINE s == StartSession(next_session_id, image, version, Layout, 2, now)
  <2>1. PICK t \in Later :
           /\ session' = Progress(s, t)
           /\ now' = t
           /\ touched' = IF session'.phase = "Failed" THEN now ELSE t
           /\ next_session_id' = LET n == (next_session_id + 1) % IdMod
                                 IN  IF n = 0 THEN 1 ELSE n
           /\ approval' = now /\ approved' = image /\ UNCHANGED flash
    BY <1>2 DEF HandleBegin
  <2>2. t \in Nat /\ now \in Nat /\ next_session_id \in Nat
    BY LaterNat DEF ProtocolInv, ProtocolTyped
  <2>3. /\ s \in TimedSessions
        /\ s.phase = "Erasing" /\ s.completed = 0
        /\ s.expected_image = image /\ s.started_ms = now
    <3>1. <<>> \in Seq(Content)
      OBVIOUS
    <3> QED BY <2>2, <3>1, ImagesAssumption
            DEF StartSession, Layout, TimedSessions, Phase, Failures
  <2> HIDE DEF s
  <2>4. /\ session' \in TimedSessions
        /\ session'.phase \in {"Erasing", "Failed"}
        /\ session'.phase \in Live =>
              session' = [s EXCEPT !.last_checked_ms = t, !.last_progress_ms = t]
    BY <2>1, <2>2, <2>3, ProgressFacts DEF Live
  <2>5. ASSUME IsLive(session)'
        PROVE  /\ Tracks(session', approved', approval', touched')
               /\ PhaseFits(session', flash')
    <3>1. /\ session' = [s EXCEPT !.last_checked_ms = t, !.last_progress_ms = t]
          /\ session'.phase = "Erasing" /\ touched' = t
      BY <2>1, <2>4, <2>5 DEF IsLive, Live
    <3>2. /\ session'.expected_image = image /\ session'.started_ms = now
          /\ session'.last_progress_ms = t /\ session'.completed = 0
      BY <2>3, <3>1 DEF TimedSessions
    <3> QED BY <2>1, <3>1, <3>2, ImagesAssumption DEF Tracks, PhaseFits, BlockNo
  <2>6. next_session_id' \in Nat
    BY <2>1, <2>2, ClockAssumption
  <2>7. ProtocolInv'
    BY <2>1, <2>2, <2>4, <2>5, <2>6 DEF ProtocolInv, ProtocolTyped
  <2>8. ~Activates
    BY <2>4 DEF Activates
  <2> QED BY <2>1, <2>7, <2>8 DEF ProtocolStep, FreshStep, ProgramStep
<1> QED BY <1>1, <1>2

\* What write and advance find when they go on to the backend: a live session
\* within its deadlines, and the block they are about to touch.
LEMMA AcceptedLive ==
  ASSUME ProtocolInv, NEW id \in Ids, Accepted(id), Polled.phase \in Live
  PROVE  /\ Polled # NoSession /\ Polled \in TimedSessions
         /\ Tracks(Polled, approved, approval, touched)
         /\ PhaseFits(Polled, flash)
         /\ approved # Blank
         /\ now - approval < MaxLifetime /\ now - touched < IdleTimeout
BY PolledLive DEF Accepted

\* A failed erase or write ends the session.
LEMMA BackendFailsStep ==
  ASSUME ProtocolInv, NEW id \in Ids, Accepted(id), Polled.phase \in Live,
         NEW b \in BlockNo, BackendFails(b)
  PROVE  ProtocolStep
<1>1. /\ session' = Fail(Polled, "Flash")
      /\ flash' \in {flash, [flash EXCEPT ![b] = Torn]}
      /\ UNCHANGED <<now, next_session_id, approval, approved, touched>>
  BY DEF BackendFails, history
<1>2. session' \in TimedSessions /\ session'.phase = "Failed"
  BY <1>1, AcceptedLive, FailFacts DEF Failures
<1>3. flash \in [BlockNo -> Content]
  BY DEF ProtocolInv, ProtocolTyped
<1>4. flash' \in [BlockNo -> Content]
  BY <1>1, <1>3 DEF Content
<1>5. ProtocolInv'
  BY <1>1, <1>2, <1>4 DEF ProtocolInv, ProtocolTyped, IsLive, Live
<1>6. FreshStep
  BY <1>2, AcceptedLive DEF FreshStep, Activates
<1>7. ProgramStep
  BY <1>1, <1>3, ContentAssumption DEF ProgramStep
<1> QED BY <1>5, <1>6, <1>7 DEF ProtocolStep

\* A handler that ends with a session still on its way.
LEMMA AdvancedStep ==
  ASSUME ProtocolInv, NEW id \in Ids, Accepted(id), Polled.phase \in Live,
         NEW s \in TimedSessions, NEW t \in Nat, Advanced(s, t),
         flash' \in [BlockNo -> Content], ProgramStep,
         s.phase # "Activated",
         s.phase \in Live => Tracks(s, approved, approval, t) /\ PhaseFits(s, flash')
  PROVE  ProtocolStep
<1>1. /\ session' = s /\ now' = t
      /\ touched' = IF s.phase = "Failed" THEN touched ELSE t
      /\ UNCHANGED <<next_session_id, approval, approved>>
  BY DEF Advanced
<1>2. ProtocolInv'
  BY <1>1 DEF ProtocolInv, ProtocolTyped, IsLive, Live
<1>3. FreshStep
  BY <1>1, AcceptedLive DEF FreshStep, Activates
<1> QED BY <1>2, <1>3 DEF ProtocolStep

\* One block written: it was erased, and the blocks behind it still are.
LEMMA WriteRequestStep ==
  ASSUME ProtocolInv, NEW id \in Ids, NEW offset \in 0..Blocks,
         NEW content \in Images, Write(id, offset, content)
  PROVE  ProtocolStep
<1> DEFINE accepts == /\ Accepted(id)
                      /\ Polled.phase = "Receiving"
                      /\ offset = Polled.completed
                      /\ offset + 1 <= Blocks
<1>1. CASE ~accepts
  BY <1>1, AnswerStep DEF Write
<1>2. CASE accepts
  <2>1. Polled.phase \in Live /\ offset + 1 \in BlockNo /\ Blocks \in Nat
    BY <1>2, ImagesAssumption DEF Live, BlockNo
  <2>2. /\ Polled \in TimedSessions /\ Tracks(Polled, approved, approval, touched)
        /\ PhaseFits(Polled, flash) /\ flash \in [BlockNo -> Content]
    BY <1>2, <2>1, AcceptedLive DEF ProtocolInv, ProtocolTyped
  <2>3. CASE BackendFails(offset + 1)
    BY <1>2, <2>1, <2>3, BackendFailsStep
  <2>4. CASE ~BackendFails(offset + 1)
    <3>1. /\ flash' = [flash EXCEPT ![offset + 1] = content]
          /\ \E t \in Later : Advanced(AfterWrite(Polled, t), t)
      BY <1>2, <2>4 DEF Write
    <3>2. PICK t \in Later : Advanced(AfterWrite(Polled, t), t)
      BY <3>1
    <3> DEFINE w == [Polled EXCEPT !.completed = @ + 1]
               s == Progress(w, t)
    <3>3. t \in Nat
      BY LaterNat
    <3>4. /\ w \in TimedSessions /\ w.phase = "Receiving"
          /\ w.completed = offset + 1
          /\ w.expected_image = Polled.expected_image
          /\ w.started_ms = Polled.started_ms
      <4>1. w = [Polled EXCEPT !.completed = offset + 1]
        BY <1>2
      <4>2. offset + 1 \in 0..Blocks
        BY <2>1 DEF BlockNo
      <4> HIDE DEF w
      <4> QED BY <1>2, <2>2, <4>1, <4>2 DEF TimedSessions
    <3> HIDE DEF w
    <3>5. /\ s \in TimedSessions /\ s.phase \in {"Receiving", "Failed"}
          /\ s.phase \in Live =>
                s = [w EXCEPT !.last_checked_ms = t, !.last_progress_ms = t]
      BY <3>3, <3>4, ProgressFacts DEF Live
    <3>6. Advanced(s, t)
      BY <3>2 DEF AfterWrite, w
    <3> HIDE DEF s
    <3>7. flash' \in [BlockNo -> Content] /\ ProgramStep
      <4>1. flash[offset + 1] = Blank
        BY <1>2, <2>1, <2>2 DEF PhaseFits
      <4> QED BY <2>1, <2>2, <3>1, <4>1 DEF ProgramStep, Content
    <3>8. ASSUME s.phase \in Live
          PROVE  Tracks(s, approved, approval, t) /\ PhaseFits(s, flash')
      <4>1. /\ s.phase = "Receiving" /\ s.completed = offset + 1
            /\ s.expected_image = approved /\ s.started_ms = approval
            /\ s.last_progress_ms = t
        BY <2>2, <3>4, <3>5, <3>8 DEF TimedSessions, Tracks, Live
      <4>2. \A b \in BlockNo : b > offset + 1 => flash'[b] = Blank
        BY <1>2, <2>1, <2>2, <3>1 DEF PhaseFits, BlockNo
      <4> QED BY <4>1, <4>2 DEF Tracks, PhaseFits
    <3> QED BY <1>2, <2>1, <3>3, <3>5, <3>6, <3>7, <3>8, AdvancedStep
  <2> QED BY <2>3, <2>4
<1> QED BY <1>1, <1>2

\* One block erased.
LEMMA EraseBlockStep ==
  ASSUME ProtocolInv, NEW id \in Ids, Accepted(id), Polled.phase = "Erasing",
         AdvanceErase
  PROVE  ProtocolStep
<1>1. /\ Polled.phase \in Live /\ Polled \in TimedSessions
      /\ Tracks(Polled, approved, approval, touched)
      /\ PhaseFits(Polled, flash) /\ flash \in [BlockNo -> Content]
  BY AcceptedLive DEF Live, ProtocolInv, ProtocolTyped
<1> DEFINE done == Polled.completed + 1
<1>2. done \in BlockNo /\ done \in 0..Blocks /\ Blocks \in Nat \ {0}
      /\ Polled.completed \in Nat
  BY <1>1, ImagesAssumption DEF PhaseFits, BlockNo, TimedSessions
<1>3. CASE BackendFails(done)
  BY <1>1, <1>2, <1>3, BackendFailsStep
<1>4. CASE ~BackendFails(done)
  <2>1. PICK t \in Later : /\ flash' = [flash EXCEPT ![done] = Blank]
                           /\ Advanced(AfterErase(Polled, t), t)
    BY <1>4 DEF AdvanceErase
  <2>2. t \in Nat
    BY LaterNat
  <2> DEFINE e == IF done = Blocks
                  THEN [Polled EXCEPT !.completed = 0, !.phase = "Receiving"]
                  ELSE [Polled EXCEPT !.completed = done]
             s == Progress(e, t)
  <2>3. /\ e \in TimedSessions
        /\ e.expected_image = Polled.expected_image
        /\ e.started_ms = Polled.started_ms
        /\ \/ done = Blocks /\ e.phase = "Receiving" /\ e.completed = 0
           \/ done # Blocks /\ e.phase = "Erasing" /\ e.completed = done
    <3>1. CASE done = Blocks
      <4>1. e = [Polled EXCEPT !.completed = 0, !.phase = "Receiving"]
        BY <3>1
      <4>2. 0 \in 0..Blocks /\ "Receiving" \in Phase
        BY <1>2 DEF Phase
      <4> HIDE DEF e
      <4> QED BY <1>1, <3>1, <4>1, <4>2 DEF TimedSessions
    <3>2. CASE done # Blocks
      BY <1>1, <1>2, <3>2 DEF TimedSessions, Phase
    <3> QED BY <3>1, <3>2
  <2>4. Advanced(s, t)
    BY <2>1 DEF AfterErase
  <2> HIDE DEF e
  <2>5. /\ s \in TimedSessions /\ s.phase \in {e.phase, "Failed"}
        /\ s.phase \in Live =>
              s = [e EXCEPT !.last_checked_ms = t, !.last_progress_ms = t]
    BY <2>2, <2>3, ProgressFacts DEF Live
  <2> HIDE DEF s
  <2>6. flash' \in [BlockNo -> Content] /\ ProgramStep
    BY <1>1, <1>2, <2>1, ContentAssumption DEF ProgramStep, Content
  <2>7. ASSUME s.phase \in Live
        PROVE  Tracks(s, approved, approval, t) /\ PhaseFits(s, flash')
    <3>1. /\ s.phase = e.phase /\ s.completed = e.completed
          /\ s.expected_image = approved /\ s.started_ms = approval
          /\ s.last_progress_ms = t
      BY <1>1, <2>3, <2>5, <2>7 DEF TimedSessions, Tracks, Live
    <3>2. \A b \in BlockNo : b <= done => flash'[b] = Blank
      BY <1>1, <1>2, <2>1 DEF PhaseFits, BlockNo
    <3>3. done # Blocks => done < Blocks
      BY <1>2 DEF BlockNo
    <3>4. done = Blocks => \A b \in BlockNo : flash'[b] = Blank
      BY <1>2, <3>2 DEF BlockNo
    <3> HIDE DEF done
    <3> QED BY <2>3, <3>1, <3>2, <3>3, <3>4 DEF Tracks, PhaseFits
  <2> QED BY <1>1, <2>2, <2>3, <2>4, <2>5, <2>6, <2>7, AdvancedStep
<1> QED BY <1>3, <1>4

\* A handler whose session failed, or expired, with the flash left alone.
LEMMA FailedStep ==
  ASSUME ProtocolInv, NEW id \in Ids, Accepted(id), Polled.phase \in Live,
         NEW s \in TimedSessions, NEW t \in Nat, Advanced(s, t),
         UNCHANGED flash, s.phase = "Failed"
  PROVE  ProtocolStep
<1>1. flash' \in [BlockNo -> Content]
  BY DEF ProtocolInv, ProtocolTyped
<1>2. ProgramStep
  BY DEF ProgramStep
<1> QED BY <1>1, <1>2, AdvancedStep DEF Live

\* A session in verification, as verify_step finds it.
Verifies(s) ==
    /\ s \in TimedSessions /\ s.phase = "Verifying"
    /\ Tracks(s, approved, approval, touched)

\* The checks before the activation, and the activation: every block has been
\* read back, and the deadlines hold when the record is written.
LEMMA FinishStep ==
  ASSUME ProtocolInv, NEW id \in Ids, Accepted(id), Polled.phase \in Live,
         UNCHANGED flash, NEW s, Verifies(s),
         s.hashed = [b \in BlockNo |-> flash[b]],
         NEW t \in Nat, FinishVerificationAt(s, t)
  PROVE  ProtocolStep
<1> DEFINE result == VerificationResult(s, CurrentVersion)
<1>1. s \in TimedSessions /\ s.phase \in Live /\ result \in Failures
  BY DEF Verifies, Live, VerificationResult, Failures
<1>2. CASE result # "Ok" /\ Advanced(Fail(s, result), t)
  BY <1>1, <1>2, FailFacts, FailedStep
<1>3. CASE ~(result # "Ok" /\ Advanced(Fail(s, result), t))
  <2>1. PICK u \in t .. t + OpTime :
           \/ Expired(s, u) /\ Advanced(Expire(s, u), u)
           \/ ~Expired(s, u) /\ Advanced([Expire(s, u) EXCEPT !.phase = "Activated"], u)
           \/ ~Expired(s, u) /\ Advanced(Fail(Expire(s, u), "Flash"), u)
    BY <1>3 DEF FinishVerificationAt
  <2>2. result = "Ok"
    BY <1>3 DEF FinishVerificationAt
  <2>3. u \in Nat
    BY ClockAssumption
  <2>4. /\ Expire(s, u) \in TimedSessions
        /\ Expire(s, u).phase \in {"Verifying", "Failed"}
        /\ ~Expired(s, u) => ~Overdue(s, u)
        /\ Expired(s, u) => Expire(s, u).phase = "Failed"
    BY <1>1, <2>3, ExpireFacts DEF Verifies, Live, Expired
  <2>5. CASE Expired(s, u) /\ Advanced(Expire(s, u), u)
    BY <2>3, <2>4, <2>5, FailedStep
  <2>6. CASE Advanced(Fail(Expire(s, u), "Flash"), u)
    <3>1. "Flash" \in Failures
      BY DEF Failures
    <3> QED BY <2>3, <2>4, <2>6, <3>1, FailFacts, FailedStep
  <2>7. CASE ~Expired(s, u) /\ Advanced([Expire(s, u) EXCEPT !.phase = "Activated"], u)
    <3> DEFINE a == [Expire(s, u) EXCEPT !.phase = "Activated"]
    <3>1. a \in TimedSessions /\ a.phase = "Activated"
      BY <2>4 DEF TimedSessions, Phase
    <3>2. /\ session' = a /\ now' = u
          /\ UNCHANGED <<next_session_id, approval, approved>>
      BY <2>7 DEF Advanced
    <3> HIDE DEF a
    <3>3. ProtocolInv'
      BY <2>3, <3>1, <3>2 DEF ProtocolInv, ProtocolTyped, IsLive, Live
    <3>4. /\ s.expected_image = approved /\ approved \in Images
          /\ u - approval < MaxLifetime /\ u - touched < IdleTimeout
      <4>1. s \in TimedSessions /\ Tracks(s, approved, approval, touched)
        BY DEF Verifies
      <4>2. ~Overdue(s, u)
        BY <2>4, <2>7
      <4> QED BY <2>3, <4>1, <4>2, DeadlineAssumption DEF Tracks, Overdue, TimedSessions
    <3>5. /\ s.hashed = [b \in 1..Blocks |-> approved]
          /\ approved \in SignedImages
          /\ ~(SecureVersion[approved] < CurrentVersion)
      BY <2>2, <3>4 DEF VerificationResult
    <3>6. SecureVersion[approved] >= CurrentVersion
      BY <3>4, <3>5, ImagesAssumption, ClockAssumption
    <3>7. flash = Filled(approved)
      BY <3>5 DEF BlockNo, Filled, ProtocolInv, ProtocolTyped
    <3>8. FreshStep
      BY <3>2, <3>4, <3>5, <3>6, <3>7 DEF FreshStep
    <3> QED BY <3>3, <3>8 DEF ProtocolStep, ProgramStep
  <2> QED BY <2>1, <2>5, <2>6, <2>7
<1> QED BY <1>2, <1>3

\* One block read back and hashed.
LEMMA ReadBlockStep ==
  ASSUME ProtocolInv, NEW id \in Ids, Accepted(id), Polled.phase \in Live,
         NEW s, Verifies(s), PhaseFits(s, flash), VerifyStep(s)
  PROVE  ProtocolStep
<1> DEFINE block == s.completed + 1
           hashed == HashBlock(s, flash[block])
<1>1. /\ block \in BlockNo /\ block \in 0..Blocks /\ block \in Nat
      /\ s.completed \in Nat /\ Blocks \in Nat
      /\ flash \in [BlockNo -> Content] /\ s.hashed = [b \in 1..s.completed |-> flash[b]]
      /\ s \in TimedSessions
  BY ImagesAssumption
     DEF Verifies, PhaseFits, TimedSessions, BlockNo, ProtocolInv, ProtocolTyped
<1>2. Append(s.hashed, flash[block]) = [b \in 1..block |-> flash[b]]
  <2>1. s.hashed \in Seq(Content) /\ Len(s.hashed) = s.completed
    <3>1. s.hashed \in Seq(Content) /\ DOMAIN s.hashed = 1..s.completed
      BY <1>1 DEF TimedSessions
    <3> QED BY <1>1, <3>1, LenProperties
  <2>2. flash[block] \in Content
    BY <1>1
  <2> DEFINE g == [b \in 1..block |-> flash[b]]
  <2>3. g \in Seq(Content) /\ Len(g) = block
    BY <1>1 DEF BlockNo
  <2>4. /\ Append(s.hashed, flash[block]) \in Seq(Content)
        /\ Len(Append(s.hashed, flash[block])) = block
    BY <2>1, <2>2
  <2>5. ASSUME NEW i \in 1..block PROVE Append(s.hashed, flash[block])[i] = g[i]
    BY <1>1, <2>1, <2>2
  <2> HIDE DEF g
  <2>6. Append(s.hashed, flash[block]) = g
    BY <2>3, <2>4, <2>5, SeqEqual
  <2> QED BY <2>6 DEF g
<1>3. hashed = [s EXCEPT !.completed = block,
                         !.hashed = [b \in 1..block |-> flash[b]]]
  BY <1>2 DEF HashBlock
<1>4. [b \in 1..block |-> flash[b]] \in Seq(Content)
  BY <1>1 DEF BlockNo
<1>5. PICK t \in Later :
         /\ UNCHANGED flash
         /\ \/ Advanced(Fail(s, "Flash"), t)
            \/ Expired(hashed, t) /\ Advanced(Expire(hashed, t), t)
            \/ /\ ~Expired(hashed, t)
               /\ IF hashed.completed = Blocks
                  THEN FinishVerificationAt(Expire(hashed, t), t)
                  ELSE Advanced(Progress(hashed, t), t)
  BY DEF VerifyStep
<1>6. t \in Nat
  BY LaterNat
<1> HIDE DEF hashed, block
<1>7. /\ hashed \in TimedSessions /\ hashed.phase = "Verifying"
      /\ hashed.completed = block
      /\ hashed.hashed = [b \in 1..block |-> flash[b]]
      /\ Tracks(hashed, approved, approval, touched)
  BY <1>1, <1>3, <1>4 DEF Verifies, Tracks, TimedSessions
<1>8. CASE Advanced(Fail(s, "Flash"), t)
  <2>1. "Flash" \in Failures
    BY DEF Failures
  <2> QED BY <1>1, <1>5, <1>6, <1>8, <2>1, FailFacts, FailedStep
<1>9. CASE Expired(hashed, t) /\ Advanced(Expire(hashed, t), t)
  <2>1. Expire(hashed, t) \in TimedSessions /\ Expire(hashed, t).phase = "Failed"
    BY <1>6, <1>7, <1>9, ExpireFacts DEF Live, Expired
  <2> QED BY <1>5, <1>6, <1>9, <2>1, FailedStep
<1>10. CASE /\ ~Expired(hashed, t) /\ hashed.completed = Blocks
            /\ FinishVerificationAt(Expire(hashed, t), t)
  <2> DEFINE e == Expire(hashed, t)
  <2>1. e = [hashed EXCEPT !.last_checked_ms = t] /\ e \in TimedSessions
    BY <1>6, <1>7, <1>10, ExpireFacts DEF Live
  <2>2. FinishVerificationAt(e, t)
    BY <1>10
  <2> HIDE DEF e
  <2>3. Verifies(e) /\ e.hashed = [b \in BlockNo |-> flash[b]]
    BY <1>7, <1>10, <2>1 DEF Verifies, Tracks, TimedSessions, BlockNo
  <2> QED BY <1>5, <1>6, <2>2, <2>3, FinishStep
<1>11. CASE hashed.completed # Blocks /\ Advanced(Progress(hashed, t), t)
  <2> DEFINE p == Progress(hashed, t)
  <2>1. /\ p \in TimedSessions /\ p.phase \in {"Verifying", "Failed"}
        /\ p.phase \in Live =>
              p = [hashed EXCEPT !.last_checked_ms = t, !.last_progress_ms = t]
    BY <1>6, <1>7, ProgressFacts DEF Live
  <2>2. Advanced(p, t)
    BY <1>11
  <2> HIDE DEF p
  <2>3. ASSUME p.phase \in Live
        PROVE  Tracks(p, approved, approval, t) /\ PhaseFits(p, flash')
    <3>1. /\ p.phase = "Verifying" /\ p.completed = block
          /\ p.hashed = [b \in 1..block |-> flash[b]]
          /\ p.expected_image = approved /\ p.started_ms = approval
          /\ p.last_progress_ms = t
      BY <1>7, <2>1, <2>3 DEF TimedSessions, Tracks, Live
    <3>2. block < Blocks
      BY <1>1, <1>7, <1>11 DEF BlockNo
    <3> QED BY <1>5, <3>1, <3>2 DEF Tracks, PhaseFits
  <2>4. flash' \in [BlockNo -> Content] /\ ProgramStep
    BY <1>1, <1>5 DEF ProgramStep
  <2> QED BY <1>6, <2>1, <2>2, <2>3, <2>4, AdvancedStep
<1> QED BY <1>5, <1>8, <1>9, <1>10, <1>11

\* One advance request, in whatever phase the session is.
LEMMA AdvanceRequestStep ==
  ASSUME ProtocolInv, NEW id \in Ids, Advance(id) PROVE ProtocolStep
<1>1. CASE Answer
  BY <1>1, AnswerStep
<1>2. CASE Accepted(id) /\ Polled.phase = "Erasing" /\ AdvanceErase
  BY <1>2, EraseBlockStep
<1>3. CASE /\ Accepted(id) /\ Polled.phase = "Receiving"
           /\ VerifyStep(StartVerifying(Polled))
  <2> DEFINE s == StartVerifying(Polled)
  <2>1. /\ Polled.phase \in Live /\ Polled \in TimedSessions
        /\ Tracks(Polled, approved, approval, touched)
    BY <1>3, AcceptedLive DEF Live
  <2>2. <<>> \in Seq(Content) /\ 0 \in 0..Blocks /\ "Verifying" \in Phase
    BY ImagesAssumption DEF Phase
  <2>3. s = [Polled EXCEPT !.phase = "Verifying", !.completed = 0, !.hashed = <<>>]
    BY DEF StartVerifying
  <2>4. VerifyStep(s)
    BY <1>3
  <2> HIDE DEF s
  <2>5. Verifies(s) /\ s.completed = 0 /\ s.hashed = <<>>
    BY <2>1, <2>2, <2>3 DEF Verifies, Tracks, TimedSessions
  <2>6. PhaseFits(s, flash)
    <3>1. <<>> = [b \in 1..0 |-> flash[b]]
      OBVIOUS
    <3> QED BY <2>5, <3>1, ImagesAssumption DEF PhaseFits, Verifies
  <2> QED BY <1>3, <2>1, <2>4, <2>5, <2>6, ReadBlockStep
<1>4. CASE Accepted(id) /\ Polled.phase = "Verifying" /\ VerifyStep(Polled)
  <2>1. Polled.phase \in Live /\ Verifies(Polled) /\ PhaseFits(Polled, flash)
    BY <1>4, AcceptedLive DEF Live, Verifies
  <2> QED BY <1>4, <2>1, ReadBlockStep
<1> QED BY <1>1, <1>2, <1>3, <1>4 DEF Advance

\* An aborted session leaves nothing behind but the blocks.
LEMMA AbortRequestStep ==
  ASSUME ProtocolInv, NEW id \in Ids, Abort(id) PROVE ProtocolStep
<1>1. CASE Answer
  BY <1>1, AnswerStep
<1>2. CASE ~Answer
  <2>1. /\ session' = NoSession
        /\ UNCHANGED <<now, next_session_id, flash, approval, approved, touched>>
    BY <1>2 DEF Abort, history
  <2> QED BY <2>1 DEF ProtocolStep, ProtocolInv, ProtocolTyped, IsLive, FreshStep,
                      Activates, ProgramStep
<1> QED BY <1>1, <1>2

\* Nothing but the clock moves, or nothing at all.
LEMMA TickStep ==
  ASSUME ProtocolInv, Tick \/ UNCHANGED protocol_vars PROVE ProtocolStep
<1>1. /\ now' = now + 1 \/ now' = now
      /\ UNCHANGED <<session, next_session_id, flash, approval, approved, touched>>
  BY DEF Tick, history, protocol_vars
<1>2. ProtocolInv'
  BY <1>1 DEF ProtocolInv, ProtocolTyped, IsLive
<1>3. ~Activates
  BY <1>1 DEF Activates
<1> QED BY <1>1, <1>2, <1>3 DEF ProtocolStep, FreshStep, ProgramStep

LEMMA ProtocolNextStep ==
  ASSUME ProtocolInv, [ProtocolNext]_protocol_vars PROVE ProtocolStep
<1>1. ASSUME NEW image \in Images, NEW version \in Versions, NEW present \in BOOLEAN,
             HandleBegin(image, version, present)
      PROVE  ProtocolStep
  <2>1. version \in Nat
    BY ImagesAssumption DEF Versions
  <2> QED BY <1>1, <2>1, BeginRequestStep
<1>2. CASE \E id \in Ids, offset \in 0..Blocks, content \in Images :
              Write(id, offset, content)
  BY <1>2, WriteRequestStep
<1>3. CASE \E id \in Ids : Advance(id) \/ Abort(id)
  BY <1>3, AdvanceRequestStep, AbortRequestStep
<1>4. CASE Poll
  BY <1>4, AnswerStep DEF Poll
<1>5. CASE Tick \/ UNCHANGED protocol_vars
  BY <1>5, TickStep
<1> QED BY <1>1, <1>2, <1>3, <1>4, <1>5 DEF ProtocolNext

\* UsbUpdater::new
LEMMA ProtocolInitInv == ProtocolInit => ProtocolInv
<1> SUFFICES ASSUME ProtocolInit PROVE ProtocolInv
  OBVIOUS
<1>1. flash \in [BlockNo -> Content]
  BY DEF ProtocolInit, Filled, Content
<1> QED BY <1>1 DEF ProtocolInit, ProtocolInv, ProtocolTyped, IsLive

\* A live session's deadlines run from the press that approved it, and its
\* blocks are where its phase says.
THEOREM ProtocolInvariance == ProtocolSpec => []ProtocolInv
<1>1. ProtocolInv /\ [ProtocolNext]_protocol_vars => ProtocolInv'
  BY ProtocolNextStep DEF ProtocolStep
<1> QED BY <1>1, ProtocolInitInv, PTL DEF ProtocolSpec

\* No block is touched, and nothing is activated, under an approval that has
\* lapsed, and what is activated is the approved image, whole, signed and not
\* older than the running one (Session::expire, finish_verification).
THEOREM ApprovalsStayFresh == ProtocolSpec => FreshApproval
<1>1. ProtocolInv /\ [ProtocolNext]_protocol_vars => [FreshStep]_protocol_vars
  BY ProtocolNextStep DEF ProtocolStep
<1> QED BY <1>1, ProtocolInvariance, PTL DEF ProtocolSpec, FreshApproval, FreshStep

\* A block is only programmed when it is erased (advance, write).
THEOREM OnlyErasedProgrammed == ProtocolSpec => ProgramOnlyErased
<1>1. ProtocolInv /\ [ProtocolNext]_protocol_vars => [ProgramStep]_protocol_vars
  BY ProtocolNextStep DEF ProtocolStep
<1> QED BY <1>1, ProtocolInvariance, PTL DEF ProtocolSpec, ProgramOnlyErased, ProgramStep
=============================================================================
