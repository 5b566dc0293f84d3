-------------------------- MODULE EpochTransaction --------------------------
(***************************************************************************)
(* Raising the anti-rollback counter in eFuse: a maintenance request is    *)
(* qualified, approved by a long hold, qualified again and burnt in one    *)
(* attempt per boot (src/platform/security_epoch*.rs,                      *)
(* s2_epoch_programmer.rs).  Burnt bits stay for ever; power may fail at   *)
(* any point, registers may hold residues, and every hardware call may     *)
(* fail.                                                                   *)
(*                                                                         *)
(* BLOCK0 is the set of its bits that are one.  fuses is the array itself, *)
(* regs the copy the software reads, which follows it only when it is      *)
(* refreshed.  Slots are abstracted to the image they hold and layout to   *)
(* what qualified_layout returns.  The INSPECT request qualifies and       *)
(* answers; it changes nothing and is left out.                            *)
(***************************************************************************)
EXTENDS Naturals, FiniteSets

CONSTANTS
    CounterSize,    \* number of bits of SECURE_VERSION (16)
    OtherBits,      \* the other bits of BLOCK0
    Protections,    \* secure boot and flash encryption enabled
    WR_DIS,         \* the shared write-disable bit
    Images, SignedImages, SecureVersion,
    ExpectedBlock0, Target, Fallback,   \* the plan embedded in the image
    Residues,       \* what the program registers may hold unasked
    None

CounterBits == 0..CounterSize - 1
Bits        == CounterBits \cup OtherBits

ASSUME FuseAssumption ==
    /\ CounterSize \in Nat
    /\ Residues \subseteq SUBSET Bits
    /\ CounterBits \cap OtherBits = {}
    /\ Protections \subseteq OtherBits /\ WR_DIS \in OtherBits

ASSUME PlanAssumption ==
    /\ SignedImages \subseteq Images /\ SecureVersion \in [Images -> Nat]
    /\ ExpectedBlock0 \subseteq CounterBits \cup OtherBits
    /\ Target \in Nat /\ Fallback \in Images
    /\ None \notin {"Ok", "Err"}

VARIABLES
    fuses,      \* BLOCK0
    regs,       \* the snapshot registers: block0 and coding errors
    staging,    \* the program registers, as a set of bits
    attempted,  \* ATTEMPTED, the latch of this boot
    slots,      \* the images of the two slots; slot 0 is running
    layout,     \* qualified_layout: 0 when it fails
    pc,         \* how far the request has come
    op,         \* the request and its PreparedChange
    programmed, \* what ets_efuse_program returned
    result,     \* the last answer to a PROGRAM request
    burns       \* history: calls of ets_efuse_program in this boot

vars == <<fuses, regs, staging, attempted, slots, layout, pc, op, programmed,
          result, burns>>

Slots   == {0, 1}
Layouts == 0..2

\* secure_version_raw, and its number of ones.
Raw(block0)   == block0 \cap CounterBits
Epoch(block0) == Cardinality(Raw(block0))

\* security_epoch_plan::decode
PlanDecodes ==
    /\ Target \in 1..CounterSize
    /\ WR_DIS \notin ExpectedBlock0
    /\ Target > Epoch(ExpectedBlock0)

\* The conditions of prepare on the fuses.
FusesReady(block0) ==
    /\ block0 = ExpectedBlock0
    /\ Protections \subseteq block0
    /\ WR_DIS \notin block0
    /\ Target <= CounterSize
    /\ Target > Epoch(block0)

\* The delta of prepare: the lowest free bits, as many as the target lacks.
Delta(block0) ==
    LET free == CounterBits \ block0
    IN  {b \in free :
           Cardinality({c \in free : c < b}) < Target - Epoch(block0)}

\* The conditions of qualify and prepare on an installed image.
SlotReady(s, images) ==
    /\ slots[s] \in SignedImages
    /\ SecureVersion[slots[s]] \in Target..CounterSize
    /\ slots[s] = images[s]

\* qualify, bound to the images the request names.
Qualifies(images) ==
    /\ PlanDecodes
    /\ ~regs.errors
    /\ layout # 0
    /\ slots[1] = Fallback
    /\ FusesReady(regs.block0)
    /\ \A s \in Slots : SlotReady(s, images)

\* What a refresh of the registers may read.
Reads(block0) == [block0 : {block0}, errors : BOOLEAN]

Init ==
    /\ fuses \in SUBSET Bits
    /\ regs \in Reads(fuses)
    /\ staging \in Residues
    /\ attempted = FALSE
    /\ slots \in [Slots -> Images] /\ slots[0] \in SignedImages
    /\ layout \in Layouts
    /\ pc = "idle" /\ op = None
    /\ programmed = FALSE /\ result = None
    /\ burns = 0

-----------------------------------------------------------------------------

\* Back to the request loop with an answer.
Answer(value) == pc' = "idle" /\ op' = None /\ result' = value

\* A PROGRAM or REHEARSE request that qualifies waits for the button.
Request(kind, images) ==
    /\ pc = "idle"
    /\ Qualifies(images)
    /\ pc' = "wait"
    /\ op' = [kind |-> kind, images |-> images, layout |-> layout,
              before |-> {}, delta |-> {}]
    /\ result' = None
    /\ UNCHANGED <<fuses, regs, staging, attempted, slots, layout, programmed, burns>>

\* confirm_maintenance_user_presence
Approve ==
    /\ pc = "wait" /\ pc' = "approved"
    /\ UNCHANGED <<fuses, regs, staging, attempted, slots, layout, op,
                   programmed, result, burns>>

\* The wait ends without approval, or the request is cancelled after it.
Deny ==
    /\ pc \in {"wait", "approved"}
    /\ Answer("Err")
    /\ UNCHANGED <<fuses, regs, staging, attempted, slots, layout, programmed, burns>>

\* Mutant of Requalify: what qualified before the wait is taken to qualify.
RequalifyNot ==
    /\ pc = "approved"
    /\ op' = [op EXCEPT !.before = regs.block0, !.delta = Delta(regs.block0)]
    /\ pc' = IF op.kind = "PROGRAM" THEN "attempt" ELSE "idle"
    /\ UNCHANGED <<fuses, regs, staging, attempted, slots, layout, programmed,
                   result, burns>>

\* The second qualification, after the approval.
Requalify ==
    /\ pc = "approved"
    /\ \/ /\ Qualifies(op.images) /\ layout = op.layout
          /\ \/ /\ op.kind = "PROGRAM" /\ pc' = "attempt"
                /\ op' = [op EXCEPT !.before = regs.block0,
                                    !.delta = Delta(regs.block0)]
                /\ UNCHANGED result
             \/ op.kind = "REHEARSE" /\ Answer(None)
       \/ ~(Qualifies(op.images) /\ layout = op.layout) /\ Answer("Err")
    /\ UNCHANGED <<fuses, regs, staging, attempted, slots, layout, programmed, burns>>

\* check_before
Unchanged(snapshot) == ~snapshot.errors /\ snapshot.block0 = op.before

\* Mutant of Preflight: a failed preflight or burn leaves the latch open.
PreflightUnlatched ==
    /\ pc = "attempt"
    /\ regs' \in Reads(fuses) /\ Unchanged(regs') /\ staging' = {}
    /\ pc' = "cleared"
    /\ UNCHANGED <<fuses, attempted, slots, layout, op, programmed, result, burns>>

\* attempt, up to the cleared program registers.
Preflight ==
    /\ pc = "attempt" /\ attempted' = TRUE
    /\ \/ attempted /\ Answer("Err") /\ UNCHANGED <<regs, staging>>
       \* clock, controller, timing or refresh fails
       \/ ~attempted /\ Answer("Err") /\ UNCHANGED <<regs, staging>>
       \/ /\ ~attempted /\ regs' \in Reads(fuses)
          /\ \/ ~Unchanged(regs') /\ Answer("Err") /\ UNCHANGED staging
             \/ /\ Unchanged(regs') /\ staging' \in Residues \cup {{}}
                /\ \/ staging' = {} /\ pc' = "cleared" /\ UNCHANGED <<op, result>>
                   \/ staging' # {} /\ Answer("Err")
    /\ UNCHANGED <<fuses, slots, layout, programmed, burns>>

\* Mutant of Stage: what was staged is not read back.
StageUnchecked(words) ==
    /\ pc = "cleared" /\ pc' = "staged"
    /\ staging' = words
    /\ UNCHANGED <<fuses, regs, attempted, slots, layout, op, programmed, result, burns>>

\* stage_counter leaves some words in the program registers; anything but the
\* delta, a busy controller or changed registers clear them again.
Stage(words) ==
    /\ pc = "cleared"
    /\ \/ /\ words = op.delta /\ Unchanged(regs)
          /\ staging' = words /\ pc' = "staged" /\ UNCHANGED <<op, result>>
       \/ staging' = {} /\ Answer("Err")
    /\ UNCHANGED <<fuses, regs, attempted, slots, layout, programmed, burns>>

\* program_block0: whatever it returns, any of the staged bits may be burnt.
Burn(burnt, ok) ==
    /\ pc = "staged" /\ pc' = "burned"
    /\ fuses' = fuses \cup burnt
    /\ programmed' = ok
    /\ burns' = burns + 1
    /\ UNCHANGED <<regs, staging, attempted, slots, layout, op, result>>

\* Mutant of Verify: the return value is taken for the state of the fuses.
VerifyTrusting ==
    /\ pc = "burned"
    /\ staging' = {} /\ regs' \in Reads(fuses)
    /\ Answer(IF programmed THEN "Ok" ELSE "Err")
    /\ UNCHANGED <<fuses, attempted, slots, layout, programmed, burns>>

\* The rest of attempt: clear, refresh, and compare all of BLOCK0.
Verify ==
    /\ pc = "burned"
    /\ \/ /\ staging' \in Residues \ {{}}
          /\ regs' \in Reads(fuses) \cup {regs} /\ Answer("Err")
       \/ staging' = {} /\ UNCHANGED regs /\ Answer("Err")
       \/ /\ staging' = {} /\ regs' \in Reads(fuses)
          /\ Answer(IF /\ ~regs'.errors
                       /\ regs'.block0 = op.before \cup op.delta
                       /\ programmed
                    THEN "Ok" ELSE "Err")
    /\ UNCHANGED <<fuses, attempted, slots, layout, programmed, burns>>

-----------------------------------------------------------------------------

\* Updates between requests: the other slot gets an image, and the records and
\* with them the layout change.
Update(image, l) ==
    /\ pc = "idle"
    /\ slots' = [slots EXCEPT ![1] = image] /\ layout' = l
    /\ UNCHANGED <<fuses, regs, staging, attempted, pc, op, programmed, result, burns>>

\* During the wait, flash may lose an image or a record.
Decay ==
    /\ pc = "wait"
    /\ \/ /\ \E s \in Slots, i \in Images \ SignedImages : slots' = [slots EXCEPT ![s] = i]
          /\ UNCHANGED layout
       \/ layout' = 0 /\ UNCHANGED slots
    /\ UNCHANGED <<fuses, regs, staging, attempted, pc, op, programmed, result, burns>>

\* Power fails, also in the middle of a burn (after Burn with some bits), and
\* the maintenance image starts again.
PowerCut ==
    /\ regs' \in Reads(fuses) /\ staging' \in Residues
    /\ attempted' = FALSE /\ burns' = 0
    /\ Answer(None) /\ programmed' = FALSE
    /\ UNCHANGED <<fuses, slots, layout>>

Next ==
    \/ \E kind \in {"PROGRAM", "REHEARSE"}, images \in [Slots -> Images] :
          Request(kind, images)
    \/ Approve
    \/ Deny
    \/ Requalify
    \/ Preflight
    \/ pc = "cleared" /\ \E words \in Residues \cup {op.delta} : Stage(words)
    \/ \E burnt \in SUBSET staging, ok \in BOOLEAN : Burn(burnt, ok)
    \/ Verify
    \/ \E image \in Images, l \in Layouts : Update(image, l)
    \/ Decay
    \/ PowerCut

Spec == Init /\ [][Next]_vars

-----------------------------------------------------------------------------

Ops == [kind : {"PROGRAM", "REHEARSE"}, images : [Slots -> Images],
        layout : Layouts, before : SUBSET Bits, delta : SUBSET CounterBits]

TypeOK ==
    /\ fuses \in SUBSET Bits
    /\ regs \in [block0 : SUBSET Bits, errors : BOOLEAN]
    /\ staging \in SUBSET Bits
    /\ attempted \in BOOLEAN /\ programmed \in BOOLEAN
    /\ slots \in [Slots -> Images] /\ layout \in Layouts
    /\ pc \in {"idle", "wait", "approved", "attempt", "cleared", "staged", "burned"}
    /\ pc # "idle" => op \in Ops /\ result # "Ok"
    /\ burns \in 0..1

\* From the second qualification to the burn the change is the plan's, and both
\* slots are as they were qualified.
ChangeQualified ==
    pc \in {"attempt", "cleared", "staged"} =>
      /\ op.kind = "PROGRAM" /\ slots[1] = Fallback /\ PlanDecodes
      /\ op.before = ExpectedBlock0 /\ op.delta = Delta(ExpectedBlock0)
      /\ \A s \in Slots : SlotReady(s, op.images)

\* The latch is closed before the fuses are read for the last time, and from
\* then on they are those of the plan.
AttemptLatched ==
    /\ burns = 1 => attempted
    /\ pc \in {"cleared", "staged"} =>
         attempted /\ burns = 0 /\ fuses = ExpectedBlock0
    /\ pc = "staged" => staging = op.delta
    /\ pc = "burned" =>
         op.before = ExpectedBlock0 /\ op.delta = Delta(ExpectedBlock0) /\ PlanDecodes

\* Success is reported only when the array holds exactly the target.
OkMeansBurned ==
    result = "Ok" => /\ Epoch(fuses) = Target
                     /\ fuses \cap OtherBits = ExpectedBlock0 \cap OtherBits

\* The inductive invariant of the proofs: an attempt that has got anywhere is
\* latched, and its change is the one that was qualified last (attempt).
Inv == TypeOK /\ ChangeQualified /\ AttemptLatched /\ OkMeansBurned

\* Only bits of the counter are ever burnt, over all attempts, restarts and
\* partial burns: no lock bit is set by a residue in the program registers
\* (attempt, clear_staging).
OnlyCounterBits == [][fuses' \ fuses \subseteq CounterBits]_vars

\* A burn is for a PROGRAM request and never exceeds the target; at that moment
\* both slots hold the images it named, authentic and not below the target,
\* with the plan's fallback in the other slot, whatever happened during the
\* wait (the second qualify).
BurnOnlyQualified ==
    [][fuses' # fuses =>
         /\ op.kind = "PROGRAM" /\ slots = op.images /\ slots[1] = Fallback
         /\ Epoch(fuses') <= Target
         /\ \A s \in Slots : /\ slots[s] \in SignedImages
                             /\ SecureVersion[slots[s]] >= Target]_vars

\* Nothing irreversible is done twice: the eFuse controller is started at most
\* once per boot, also when it reported a failure without burning anything
\* (ATTEMPTED), and once any bit has been burnt nothing is burnt again under
\* the same plan, in this boot or a later one (expected_block0).
BurnOnce ==
    [][/\ burns' > burns => burns = 0 /\ attempted
       /\ fuses' # fuses => fuses = ExpectedBlock0]_vars
=============================================================================
