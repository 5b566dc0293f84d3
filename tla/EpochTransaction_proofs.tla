----------------------- MODULE EpochTransaction_proofs -----------------------
(***************************************************************************)
(* Proofs about EpochTransaction, for every counter size, plan and set of  *)
(* images, and about the gate whose approval it waits for, PresenceGate,   *)
(* for every debounce, hold and timeout.                                   *)
(***************************************************************************)
EXTENDS EpochTransaction, PresenceGate, FiniteSetTheorems, SequenceTheorems,
        WellFoundedInduction, TLAPS

(* The delta of a plan. *)

\* A nonempty set of naturals has a least element.
LEMMA LeastElement ==
    ASSUME NEW T \in SUBSET Nat, T # {}
    PROVE  \E x \in T : \A y \in T : x <= y
<1> DEFINE R == OpToRel(<, Nat)
<1>1. \A x, y \in Nat : x < y => <<x, y>> \in R
  BY DEF OpToRel
<1>2. IsWellFoundedOn(R, Nat)
  BY NatLessThanWellFounded
<1> HIDE DEF R
<1>3. PICK x \in T : \A y \in T : ~(<<y, x>> \in R)
  BY <1>2, WFMin, Zenon
<1>4. \A y \in T : ~(y < x)
  BY <1>1, <1>3
<1> QED
  BY <1>3, <1>4

\* The bits of the counter are finitely many.
LEMMA CounterFinite == IsFiniteSet(CounterBits) /\ Cardinality(CounterBits) = CounterSize
BY FuseAssumption, FS_Interval DEF CounterBits

LEMMA RawFinite ==
    ASSUME NEW B
    PROVE  IsFiniteSet(Raw(B)) /\ Epoch(B) \in Nat
BY CounterFinite, FS_Intersection, FS_CardinalityType, Zenon DEF Raw, Epoch

\* prepare programs free bits only, and exactly as many as the target lacks.
LEMMA DeltaSize ==
    ASSUME NEW B, Target > Epoch(B), Target <= CounterSize
    PROVE  /\ Delta(B) \subseteq CounterBits
           /\ IsFiniteSet(Raw(B \cup Delta(B)))
           /\ Epoch(B \cup Delta(B)) = Target
<1> DEFINE free == CounterBits \ B
           Below(b) == {c \in free : c < b}
           k == Target - Epoch(B)
           D == Delta(B)
<1>1. Target \in Nat /\ CounterSize \in Nat /\ Epoch(B) \in Nat /\ IsFiniteSet(Raw(B))
  BY PlanAssumption, FuseAssumption, RawFinite
<1>2. k \in Nat /\ k <= CounterSize - Epoch(B)
  BY <1>1
<1>3. IsFiniteSet(free) /\ Cardinality(free) = CounterSize - Epoch(B)
  <2>1. CounterBits \cap B = Raw(B)
    BY DEF Raw
  <2>2. IsFiniteSet(free) /\ Cardinality(free) = Cardinality(CounterBits) - Cardinality(CounterBits \cap B)
    BY CounterFinite, FS_Difference, Zenon
  <2> QED
    BY <2>1, <2>2, CounterFinite DEF Epoch
<1>4. free \subseteq Nat
  BY FuseAssumption DEF CounterBits
<1>5. D = {b \in free : Cardinality(Below(b)) < k}
  BY DEF Delta
<1>6. D \subseteq free /\ IsFiniteSet(D) /\ Cardinality(D) \in Nat
  BY <1>3, <1>5, FS_Subset, FS_CardinalityType, Zenon
<1>7. \A b \in free : /\ Below(b) \subseteq free /\ IsFiniteSet(Below(b))
                      /\ Cardinality(Below(b)) \in Nat
  <2> TAKE b \in free
  <2>1. Below(b) \in SUBSET free
    OBVIOUS
  <2> HIDE DEF free, Below
  <2> QED
    BY <2>1, <1>3, FS_Subset, FS_CardinalityType, Zenon
<1> HIDE DEF D, k
<1>8. Cardinality(D) <= k
  <2> DEFINE f == [b \in D |-> Cardinality(Below(b))]
  <2>1. \A b \in D : Cardinality(Below(b)) \in 0..k - 1
    <3> TAKE b \in D
    <3>1. b \in free /\ Cardinality(Below(b)) < k
      BY <1>5
    <3> HIDE DEF Below, free
    <3> QED
      BY <3>1, <1>2, <1>7
  <2>2. ASSUME NEW a \in D, NEW b \in D, a < b
        PROVE  Cardinality(Below(a)) < Cardinality(Below(b))
    <3>1. a \in free /\ b \in free /\ a \in Nat /\ b \in Nat
      BY <1>4, <1>6
    <3>2. Below(a) \subseteq Below(b) /\ a \in Below(b) /\ a \notin Below(a)
      BY <2>2, <1>4, <3>1
    <3> HIDE DEF Below, free
    <3>3. Below(a) # Below(b) /\ Below(a) \in SUBSET Below(b)
      BY <3>2
    <3>4. /\ Cardinality(Below(a)) <= Cardinality(Below(b))
          /\ Cardinality(Below(b)) = Cardinality(Below(a)) => Below(b) = Below(a)
      BY <3>1, <3>3, <1>7, FS_Subset, Zenon
    <3> QED
      BY <3>1, <3>3, <3>4, <1>7
  <2>3. \A a, b \in D : f[a] = f[b] => a = b
    <3> SUFFICES ASSUME NEW a \in D, NEW b \in D, f[a] = f[b], a # b PROVE FALSE
      OBVIOUS
    <3>1. a \in Nat /\ b \in Nat /\ (a < b \/ b < a)
      BY <1>4, <1>6
    <3>2. Cardinality(Below(a)) = Cardinality(Below(b))
      OBVIOUS
    <3>3. Cardinality(Below(a)) \in Nat
      BY <1>6, <1>7
    <3> HIDE DEF Below, f
    <3> QED
      BY <3>1, <3>2, <3>3, <2>2
  <2>4. f \in Injection(D, 0..k - 1)
    <3> HIDE DEF Below
    <3>1. f \in [D -> 0..k - 1]
      BY <2>1
    <3> HIDE DEF f
    <3> QED
      BY <3>1, <2>3 DEF Injection, IsInjective
  <2>5. IsFiniteSet(0..k - 1) /\ Cardinality(0..k - 1) = k
    BY <1>2, FS_Interval
  <2> HIDE DEF f
  <2>6. Cardinality(D) <= Cardinality(0..k - 1)
    BY <2>4, <2>5, FS_Injection, Zenon
  <2> QED
    BY <2>5, <2>6
<1>9. ~(Cardinality(D) < k)
  <2> SUFFICES ASSUME Cardinality(D) < k PROVE FALSE
    OBVIOUS
  <2>1. free \ D # {}
    <3>1. Cardinality(free) # Cardinality(D)
      BY <1>1, <1>2, <1>3, <1>6
    <3> SUFFICES ASSUME free \ D = {} PROVE FALSE
      OBVIOUS
    <3> HIDE DEF free
    <3>2. free = D
      BY <1>6
    <3> QED
      BY <3>1, <3>2
  <2>2. PICK x \in free \ D : \A y \in free \ D : x <= y
    <3>1. free \ D \in SUBSET Nat
      BY <1>4
    <3> HIDE DEF free
    <3> QED
      BY <2>1, <3>1, LeastElement, Zenon
  <2>3. Below(x) \in SUBSET D
    BY <1>4, <2>2
  <2>4. Cardinality(Below(x)) <= Cardinality(D)
    <3> HIDE DEF Below, free
    <3> QED
      BY <2>3, <1>6, FS_Subset, Zenon
  <2>5. Cardinality(Below(x)) < k
    <3> HIDE DEF Below, free
    <3> QED
      BY <1>2, <1>6, <1>7, <2>2, <2>4
  <2> QED
    BY <1>5, <2>2, <2>5
<1>10. Cardinality(D) = k
  BY <1>2, <1>6, <1>8, <1>9
<1>11. Raw(B \cup D) = Raw(B) \cup D /\ Raw(B) \cap D = {}
  BY <1>6 DEF Raw
<1>12. /\ IsFiniteSet(Raw(B) \cup D)
       /\ Cardinality(Raw(B) \cup D)
            = Cardinality(Raw(B)) + Cardinality(D) - Cardinality(Raw(B) \cap D)
  BY <1>1, <1>6, FS_Union, Zenon
<1>13. Cardinality(Raw(B) \cup D) = Epoch(B) + k
  <2>1. Cardinality(Raw(B) \cap D) = 0
    BY <1>11, FS_EmptySet
  <2> QED
    BY <2>1, <1>1, <1>2, <1>10, <1>12 DEF Epoch
<1>14. Epoch(B) + k = Target
  BY <1>1 DEF k
<1>15. Epoch(B \cup D) = Target
  BY <1>11, <1>13, <1>14 DEF Epoch
<1> QED
  BY <1>6, <1>11, <1>12, <1>15 DEF D

-----------------------------------------------------------------------------
(* The inductive invariant. *)

\* The words of prepare are bits of the counter, and those are bits of BLOCK0.
LEMMA DeltaType == \A B : Delta(B) \in SUBSET CounterBits
BY DEF Delta

LEMMA BitsType == CounterBits \subseteq Bits
BY DEF Bits

\* A step back to the request loop that leaves the counters alone and does not
\* report success keeps the invariant.
LEMMA AnswerKeeps ==
    ASSUME Inv, TypeOK', pc' = "idle", result' # "Ok", burns' = 1 => attempted'
    PROVE  Inv'
BY DEF Inv, ChangeQualified, AttemptLatched, OkMeansBurned

LEMMA InvInit == Init => Inv
<1> SUFFICES ASSUME Init PROVE Inv
  OBVIOUS
<1>1. attempted \in BOOLEAN /\ programmed \in BOOLEAN
  BY Zenon DEF Init
<1>2. regs \in [block0 : SUBSET Bits, errors : BOOLEAN] /\ staging \in SUBSET Bits
  BY FuseAssumption DEF Init, Reads
<1>3. fuses \in SUBSET Bits /\ slots \in [Slots -> Images] /\ layout \in Layouts
  BY DEF Init
<1>4. pc = "idle" /\ burns \in 0..1
  BY DEF Init
<1>5. TypeOK
  BY <1>1, <1>2, <1>3, <1>4 DEF TypeOK
<1> QED
  BY <1>5, PlanAssumption DEF Init, Inv, ChangeQualified, AttemptLatched, OkMeansBurned

LEMMA RequestInv ==
    ASSUME Inv, NEW kind \in {"PROGRAM", "REHEARSE"},
           NEW images \in [Slots -> Images], Request(kind, images)
    PROVE  Inv'
<1>1. op' \in Ops
  BY DEF Inv, TypeOK, Request, Ops
<1>2. TypeOK'
  BY <1>1, PlanAssumption DEF Inv, TypeOK, Request
<1> QED
  BY <1>2, PlanAssumption
  DEF Inv, TypeOK, Request, ChangeQualified, AttemptLatched, OkMeansBurned

LEMMA WaitInv ==
    ASSUME Inv, Approve \/ Deny
    PROVE  Inv'
<1>1. CASE Approve
  BY <1>1 DEF Inv, TypeOK, Approve, ChangeQualified, AttemptLatched, OkMeansBurned
<1>2. CASE Deny
  <2>1. TypeOK'
    BY <1>2 DEF Inv, TypeOK, Deny, Answer
  <2> QED
    BY <1>2, <2>1, AnswerKeeps DEF Inv, AttemptLatched, Deny, Answer
<1> QED
  BY <1>1, <1>2

LEMMA RequalifyInv ==
    ASSUME Inv, Requalify
    PROVE  Inv'
<1>1. CASE pc' = "attempt"
  <2>1. /\ Qualifies(op.images) /\ op.kind = "PROGRAM" /\ op \in Ops
        /\ op' = [op EXCEPT !.before = regs.block0, !.delta = Delta(regs.block0)]
        /\ result' = result /\ result # "Ok"
    BY <1>1 DEF Requalify, Answer, Inv, TypeOK
  <2>2. /\ op'.kind = "PROGRAM" /\ op'.images = op.images
        /\ op'.before = regs.block0 /\ op'.delta = Delta(regs.block0)
    BY <2>1 DEF Ops
  <2>3. op' \in Ops
    <3>1. regs.block0 \in SUBSET Bits /\ Delta(regs.block0) \in SUBSET CounterBits
      BY DeltaType DEF Inv, TypeOK
    <3> QED
      BY <2>1, <3>1 DEF Ops
  <2>4. TypeOK'
    BY <1>1, <2>1, <2>3 DEF Inv, TypeOK, Requalify
  <2>5. ChangeQualified'
    BY <1>1, <2>1, <2>2
    DEF ChangeQualified, Requalify, Qualifies, FusesReady, SlotReady, PlanDecodes
  <2> QED
    BY <1>1, <2>1, <2>4, <2>5 DEF Inv, AttemptLatched, OkMeansBurned, Requalify
<1>2. CASE pc' # "attempt"
  <2>1. pc' = "idle" /\ result' # "Ok"
    BY <1>2, PlanAssumption DEF Requalify, Answer
  <2>2. TypeOK'
    BY <2>1 DEF Inv, TypeOK, Requalify
  <2> QED
    BY <2>1, <2>2, AnswerKeeps DEF Inv, AttemptLatched, Requalify
<1> QED
  BY <1>1, <1>2

LEMMA PreflightInv ==
    ASSUME Inv, Preflight
    PROVE  Inv'
<1>1. regs' \in [block0 : SUBSET Bits, errors : BOOLEAN] /\ staging' \in SUBSET Bits
  BY FuseAssumption DEF Preflight, Inv, TypeOK, Reads
<1>2. CASE pc' = "cleared"
  <2>1. /\ ~attempted /\ op' = op /\ result' = result
        /\ regs' \in Reads(fuses) /\ Unchanged(regs')
    BY <1>2 DEF Preflight, Answer
  <2>2. op.before = fuses
    BY <2>1 DEF Reads, Unchanged
  <2>3. TypeOK'
    BY <1>1, <1>2, <2>1 DEF Inv, TypeOK, Preflight
  <2>4. ChangeQualified'
    BY <1>2, <2>1 DEF Inv, ChangeQualified, Preflight, SlotReady
  <2>5. burns = 0
    BY <2>1 DEF Inv, TypeOK, AttemptLatched
  <2>6. AttemptLatched'
    BY <1>2, <2>1, <2>2, <2>5 DEF Inv, ChangeQualified, AttemptLatched, Preflight
  <2>7. OkMeansBurned'
    BY <2>1 DEF Inv, TypeOK, OkMeansBurned, Preflight
  <2> QED
    BY <2>3, <2>4, <2>6, <2>7 DEF Inv
<1>3. CASE pc' # "cleared"
  <2>1. pc' = "idle" /\ result' # "Ok"
    BY <1>3 DEF Preflight, Answer
  <2>2. TypeOK'
    BY <1>1, <2>1 DEF Inv, TypeOK, Preflight
  <2> QED
    BY <2>1, <2>2, AnswerKeeps DEF Preflight
<1> QED
  BY <1>2, <1>3

LEMMA StageInv ==
    ASSUME Inv, NEW words \in Residues \cup {op.delta}, Stage(words)
    PROVE  Inv'
<1>1. CASE pc' = "staged"
  <2>1. /\ staging' = op.delta /\ op' = op /\ result' = result
        /\ op.delta \in SUBSET Bits /\ result # "Ok"
    BY <1>1, BitsType DEF Stage, Answer, Inv, TypeOK, Ops
  <2>2. TypeOK'
    BY <1>1, <2>1 DEF Inv, TypeOK, Stage
  <2>3. ChangeQualified'
    BY <1>1, <2>1 DEF Inv, ChangeQualified, Stage, SlotReady
  <2>4. AttemptLatched'
    BY <1>1, <2>1 DEF Inv, AttemptLatched, Stage
  <2> QED
    BY <2>1, <2>2, <2>3, <2>4 DEF Inv, OkMeansBurned
<1>2. CASE pc' # "staged"
  <2>1. pc' = "idle" /\ result' # "Ok" /\ staging' = {}
    BY <1>2 DEF Stage, Answer
  <2>2. TypeOK'
    BY <2>1 DEF Inv, TypeOK, Stage
  <2> QED
    BY <2>1, <2>2, AnswerKeeps DEF Inv, AttemptLatched, Stage
<1> QED
  BY <1>1, <1>2

LEMMA BurnInv ==
    ASSUME Inv, NEW burnt \in SUBSET staging, NEW ok \in BOOLEAN, Burn(burnt, ok)
    PROVE  Inv'
<1>1. TypeOK'
  BY DEF Inv, TypeOK, AttemptLatched, Burn
<1> QED
  BY <1>1 DEF Inv, TypeOK, ChangeQualified, AttemptLatched, OkMeansBurned, Burn

\* attempt answers Ok only when it reads back the old bits and the delta.
LEMMA VerifyInv ==
    ASSUME Inv, Verify
    PROVE  Inv'
<1>1. regs' \in [block0 : SUBSET Bits, errors : BOOLEAN] /\ staging' \in SUBSET Bits
  BY FuseAssumption DEF Verify, Inv, TypeOK, Reads
<1>2. pc' = "idle" /\ fuses' = fuses /\ burns' = burns /\ attempted' = attempted
  BY DEF Verify, Answer
<1>3. TypeOK'
  BY <1>1, <1>2 DEF Inv, TypeOK, Verify
<1>4. OkMeansBurned'
  <2> SUFFICES ASSUME result' = "Ok"
               PROVE  /\ Epoch(fuses) = Target
                      /\ fuses \cap OtherBits = ExpectedBlock0 \cap OtherBits
    BY <1>2 DEF OkMeansBurned
  <2>1. fuses = op.before \cup op.delta
    BY DEF Verify, Answer, Reads
  <2>2. fuses = ExpectedBlock0 \cup Delta(ExpectedBlock0) /\ PlanDecodes
    BY <2>1 DEF Inv, AttemptLatched, Verify
  <2>3. Epoch(fuses) = Target
    BY <2>2, DeltaSize, FuseAssumption, PlanAssumption DEF PlanDecodes
  <2>4. Delta(ExpectedBlock0) \cap OtherBits = {}
    BY DeltaType, FuseAssumption
  <2> QED
    BY <2>2, <2>3, <2>4
<1> QED
  BY <1>2, <1>3, <1>4 DEF Inv, ChangeQualified, AttemptLatched

\* Nothing outside a request touches the fuses, and a restart forgets it.
LEMMA EnvironmentInv ==
    ASSUME Inv, \/ \E image \in Images, l \in Layouts : Update(image, l)
                \/ Decay
                \/ PowerCut
    PROVE  Inv'
<1>1. CASE \E image \in Images, l \in Layouts : Update(image, l)
  <2>1. slots' \in [Slots -> Images] /\ layout' \in Layouts
    BY <1>1 DEF Inv, TypeOK, Update
  <2>2. pc' = "idle" /\ UNCHANGED <<fuses, regs, staging, attempted, pc, op,
                                    programmed, result, burns>>
    BY <1>1 DEF Update
  <2> QED
    BY <2>1, <2>2 DEF Inv, TypeOK, ChangeQualified, AttemptLatched, OkMeansBurned
<1>2. CASE Decay
  <2>1. slots' \in [Slots -> Images] /\ layout' \in Layouts
    BY <1>2 DEF Inv, TypeOK, Decay, Layouts
  <2>2. TypeOK'
    BY <1>2, <2>1 DEF Inv, TypeOK, Decay
  <2> QED
    BY <1>2, <2>2 DEF Inv, Decay, ChangeQualified, AttemptLatched, OkMeansBurned
<1>3. CASE PowerCut
  <2>1. regs' \in [block0 : SUBSET Bits, errors : BOOLEAN] /\ staging' \in SUBSET Bits
    BY <1>3, FuseAssumption DEF PowerCut, Inv, TypeOK, Reads
  <2>2. attempted' \in BOOLEAN /\ programmed' \in BOOLEAN
    BY <1>3, Zenon DEF PowerCut
  <2>3. /\ pc' = "idle" /\ burns' = 0 /\ result' # "Ok"
        /\ UNCHANGED <<fuses, slots, layout>>
    BY <1>3, PlanAssumption DEF PowerCut, Answer
  <2>4. TypeOK'
    BY <2>1, <2>2, <2>3 DEF Inv, TypeOK
  <2> QED
    BY <2>3, <2>4, AnswerKeeps
<1> QED
  BY <1>1, <1>2, <1>3

LEMMA InvNext == Inv /\ [Next]_vars => Inv'
<1> SUFFICES ASSUME Inv, [Next]_vars PROVE Inv'
  OBVIOUS
<1>1. CASE UNCHANGED vars
  BY <1>1
  DEF vars, Inv, TypeOK, ChangeQualified, AttemptLatched, OkMeansBurned, SlotReady
<1>2. CASE Next
  BY <1>2, RequestInv, WaitInv, RequalifyInv, PreflightInv, StageInv, BurnInv,
     VerifyInv, EnvironmentInv
  DEF Next
<1> QED
  BY <1>1, <1>2

\* Every reachable state satisfies the invariant: an attempt is latched, and
\* what it burns is what was qualified after the approval (attempt).
THEOREM EpochInvariance == Spec => []Inv
BY InvInit, InvNext, PTL DEF Spec

\* Success is reported only for exactly the target (attempt's last comparison).
THEOREM SuccessExact == Spec => []OkMeansBurned
<1>1. Inv => OkMeansBurned
  BY DEF Inv
<1> QED
  BY <1>1, EpochInvariance, PTL

-----------------------------------------------------------------------------
(* What a burn may do. *)

\* Only Burn changes the fuses, and then the staged words are the plan's.
LEMMA BurnIsQualified ==
    ASSUME Inv, [Next]_vars, fuses' # fuses
    PROVE  /\ pc = "staged" /\ fuses = ExpectedBlock0 /\ op \in Ops
           /\ fuses' \subseteq ExpectedBlock0 \cup Delta(ExpectedBlock0)
<1>1. PICK burnt \in SUBSET staging : \E ok \in BOOLEAN : Burn(burnt, ok)
  BY DEF Next, vars, Request, Approve, Deny, Requalify, Preflight, Stage, Verify,
         Update, Decay, PowerCut
<1>2. pc = "staged" /\ fuses' = fuses \cup burnt
  BY <1>1 DEF Burn
<1>3. /\ fuses = ExpectedBlock0 /\ staging = Delta(ExpectedBlock0)
      /\ op \in Ops
  BY <1>2 DEF Inv, TypeOK, ChangeQualified, AttemptLatched
<1> QED
  BY <1>2, <1>3

\* Only bits of the counter are ever burnt (attempt, clear_staging).
THEOREM LocksSafe == Spec => OnlyCounterBits
<1>1. Inv /\ [Next]_vars => [fuses' \ fuses \subseteq CounterBits]_vars
  <2> SUFFICES ASSUME Inv, [Next]_vars, fuses' # fuses
               PROVE  fuses' \ fuses \subseteq CounterBits
    OBVIOUS
  <2> QED
    BY BurnIsQualified, DeltaType
<1> QED
  BY <1>1, EpochInvariance, PTL DEF Spec, OnlyCounterBits

\* The controller is started at most once per boot (ATTEMPTED), and a plan is
\* good for one burn, over restarts too (expected_block0).
THEOREM SingleBurn == Spec => BurnOnce
<1>1. ASSUME Inv, [Next]_vars, burns' > burns
      PROVE  burns = 0 /\ attempted
  <2>1. burns \in {0, 1}
    BY <1>1 DEF Inv, TypeOK
  <2>2. burns' # burns /\ burns' # 0
    BY <1>1, <2>1
  <2>3. \E burnt \in SUBSET staging, ok \in BOOLEAN : Burn(burnt, ok)
    BY <1>1, <2>2 DEF Next, vars, Request, Approve, Deny, Requalify, Preflight, Stage,
                      Verify, Update, Decay, PowerCut
  <2>4. pc = "staged"
    BY <2>3 DEF Burn
  <2> QED
    BY <1>1, <2>4 DEF Inv, AttemptLatched
<1>2. Inv /\ [Next]_vars =>
        [/\ burns' > burns => burns = 0 /\ attempted
         /\ fuses' # fuses => fuses = ExpectedBlock0]_vars
  BY <1>1, BurnIsQualified
<1> QED
  BY <1>2, EpochInvariance, PTL DEF Spec, BurnOnce

\* A burn is for a PROGRAM request whose images are still installed, authentic
\* and not below the target, and it never exceeds the target (the second
\* qualify, prepare).
THEOREM BurnSafe == Spec => BurnOnlyQualified
<1>1. ASSUME Inv, [Next]_vars, fuses' # fuses
      PROVE  /\ op.kind = "PROGRAM" /\ slots = op.images /\ slots[1] = Fallback
             /\ Epoch(fuses') <= Target
             /\ \A s \in Slots : /\ slots[s] \in SignedImages
                                 /\ SecureVersion[slots[s]] >= Target
  <2>1. /\ pc = "staged" /\ op \in Ops
        /\ fuses' \subseteq ExpectedBlock0 \cup Delta(ExpectedBlock0)
    BY <1>1, BurnIsQualified
  <2>2. /\ op.kind = "PROGRAM" /\ slots[1] = Fallback /\ PlanDecodes
        /\ \A s \in Slots : SlotReady(s, op.images)
    BY <1>1, <2>1 DEF Inv, ChangeQualified
  <2>3. slots = op.images
    <3>1. slots \in [Slots -> Images] /\ op.images \in [Slots -> Images]
      BY <1>1, <2>1 DEF Inv, TypeOK, Ops
    <3>2. \A s \in Slots : slots[s] = op.images[s]
      BY <2>2 DEF SlotReady
    <3> QED
      BY <3>1, <3>2
  <2>4. ASSUME NEW s \in Slots
        PROVE  slots[s] \in SignedImages /\ SecureVersion[slots[s]] >= Target
    <3>1. slots[s] \in SignedImages /\ SecureVersion[slots[s]] \in Target..CounterSize
      BY <2>2 DEF SlotReady
    <3>2. Target \in Nat /\ CounterSize \in Nat
      BY FuseAssumption, PlanAssumption
    <3> QED
      BY <3>1, <3>2
  <2>5. Epoch(fuses') <= Target
    <3> DEFINE B == ExpectedBlock0 \cup Delta(ExpectedBlock0)
    <3>1. IsFiniteSet(Raw(B)) /\ Epoch(B) = Target
      BY <2>2, DeltaSize, FuseAssumption, PlanAssumption DEF PlanDecodes
    <3>2. Raw(fuses') \in SUBSET Raw(B)
      BY <2>1 DEF Raw
    <3> HIDE DEF B
    <3>3. Cardinality(Raw(fuses')) <= Cardinality(Raw(B))
      BY <3>1, <3>2, FS_Subset, Zenon
    <3> QED
      BY <3>1, <3>3 DEF Epoch
  <2> QED
    BY <2>2, <2>3, <2>4, <2>5
<1>2. Inv /\ [Next]_vars =>
        [fuses' # fuses =>
           /\ op.kind = "PROGRAM" /\ slots = op.images /\ slots[1] = Fallback
           /\ Epoch(fuses') <= Target
           /\ \A s \in Slots : /\ slots[s] \in SignedImages
                               /\ SecureVersion[slots[s]] >= Target]_vars
  BY <1>1
<1> QED
  BY <1>2, EpochInvariance, PTL DEF Spec, BurnOnlyQualified

-----------------------------------------------------------------------------
(* The gate of the button. *)

\* A debounced release within the samples; a press after one; a release after
\* such a press.
Released(i, j) == Run(i, j, "Released", ReleaseMs)
PressedAfter(i, j, k, l) == Released(i, j) /\ j < k /\ Run(k, l, "Pressed", gate.press_ms)

\* The record keeps its fields.
GateTyped ==
    /\ gate \in [phase : Phase, deadline : Nat, last_poll : Nat, last_level : Level,
                 since : Nat, press_ms : Nat, long_hold : BOOLEAN]
    /\ gate.press_ms = IF gate.long_hold THEN HoldMs ELSE PressMs
    /\ now \in Nat
    /\ samples \in Seq([level : Level, at : Nat])

\* While the gate waits its samples are in order, none of them later than the
\* last poll, and none is a fault.
SamplesInOrder ==
    /\ \A i, j \in DOMAIN samples : i < j => samples[i].at < samples[j].at
    /\ \A i \in DOMAIN samples : samples[i].level # "Fault" /\ samples[i].at <= gate.last_poll
    /\ gate.since <= gate.last_poll

\* since is the instant at which the last level began, unless it is noise.
SinceIsStart ==
    /\ gate.last_level = IF samples = <<>> THEN "Uncertain" ELSE samples[Len(samples)].level
    /\ gate.last_level # "Uncertain" =>
         \E s \in DOMAIN samples :
            /\ gate.since = samples[s].at
            /\ \A k \in s..Len(samples) : samples[k].level = gate.last_level
            /\ s > 1 => samples[s - 1].level # gate.last_level

\* A phase is reached only by the gestures before it.
PhaseEarned ==
    /\ gate.phase \in {"AwaitPress", "FinalRelease"} => \E i, j \in DOMAIN samples : Released(i, j)
    /\ gate.phase = "FinalRelease" =>
         /\ gate.long_hold
         /\ \E i, j, k, l \in DOMAIN samples : PressedAfter(i, j, k, l) /\ NoUncertain(l)

\* A phase is left as soon as its gesture is complete; noise takes a long hold
\* back to its beginning.
PhaseDue ==
    ~gate.long_hold \/ NoUncertain(1) =>
      /\ gate.phase = "InitialRelease" => \A i, j \in DOMAIN samples : ~Released(i, j)
      /\ gate.phase = "AwaitPress" =>
           \A i, j, k, l \in DOMAIN samples : ~PressedAfter(i, j, k, l)
      /\ gate.phase = "FinalRelease" =>
           \A i, j, k, l, m, q \in DOMAIN samples :
              ~(PressedAfter(i, j, k, l) /\ l < m /\ Released(m, q))

\* The inductive invariant of a wait.
GateInv ==
    /\ GateTyped
    /\ answer \in {"None", "True", "False"}
    /\ answer # "None" => gate.phase = "Finished" /\ ApprovalIsFresh
    /\ answer = "None" =>
         /\ gate.phase # "Finished"
         /\ SamplesInOrder
         /\ SinceIsStart
         /\ PhaseEarned
         /\ PhaseDue

\* What poll does with a sample that does not end the wait, but for the phase.
Takes(level) ==
    /\ GateInv /\ answer = "None"
    /\ level \in {"Released", "Pressed", "Uncertain"}
    /\ \A i \in DOMAIN samples : samples[i].at # now
    /\ gate.last_poll <= now /\ now < gate.deadline
    /\ samples' = Append(samples, [level |-> level, at |-> now]) /\ now' = now
    /\ gate'.phase \in Phase
    /\ gate' = [phase |-> gate'.phase, deadline |-> gate.deadline, last_poll |-> now,
                last_level |-> level, since |-> gate'.since,
                press_ms |-> gate.press_ms, long_hold |-> gate.long_hold]
    /\ gate'.since = IF level # gate.last_level THEN now ELSE gate.since

\* The samples of the wait are a sequence; a new one is the last.
LEMMA SampleAdded ==
    ASSUME NEW level, Takes(level)
    PROVE  /\ Len(samples) \in Nat /\ DOMAIN samples = 1..Len(samples)
           /\ Len(samples') = Len(samples) + 1 /\ DOMAIN samples' = 1..(Len(samples) + 1)
           /\ \A k \in 1..Len(samples) : samples'[k] = samples[k]
           /\ samples'[Len(samples) + 1].level = level /\ samples'[Len(samples) + 1].at = now
           /\ samples' \in Seq([level : Level, at : Nat])
           /\ \A k \in 1..Len(samples) : samples[k].at \in Nat
<1>1. samples \in Seq([level : Level, at : Nat]) /\ now \in Nat /\ level \in Level
  BY DEF Takes, GateInv, GateTyped, Level
<1>2. samples' = Append(samples, [level |-> level, at |-> now])
  BY DEF Takes
<1>3. [level |-> level, at |-> now] \in [level : Level, at : Nat]
  BY <1>1
<1>4. /\ Len(samples) \in Nat /\ DOMAIN samples = 1..Len(samples)
      /\ \A k \in 1..Len(samples) : samples[k] \in [level : Level, at : Nat]
  BY <1>1, ElementOfSeq, LenProperties
<1>5. /\ Len(samples') = Len(samples) + 1 /\ DOMAIN samples' = 1..(Len(samples) + 1)
      /\ \A k \in 1..Len(samples) : samples'[k] = samples[k]
      /\ samples'[Len(samples) + 1] = [level |-> level, at |-> now]
      /\ samples' \in Seq([level : Level, at : Nat])
  BY <1>1, <1>2, <1>3, <1>4
<1> QED
  BY <1>4, <1>5

\* The fields a sample leaves alone, and their types.
LEMMA FieldsKept ==
    ASSUME NEW level, Takes(level)
    PROVE  /\ gate'.deadline = gate.deadline /\ gate'.last_poll = now
           /\ gate'.last_level = level /\ gate'.press_ms = gate.press_ms
           /\ gate'.long_hold = gate.long_hold
           /\ gate.press_ms \in Nat /\ gate.since \in Nat /\ now \in Nat
           /\ gate.last_poll \in Nat /\ gate.deadline \in Nat /\ gate.long_hold \in BOOLEAN
           /\ gate.phase \in Phase \ {"Finished"}
           /\ gate'.since \in Nat
           /\ GateTyped'
<1>1. /\ gate'.deadline = gate.deadline /\ gate'.last_poll = now
      /\ gate'.last_level = level /\ gate'.press_ms = gate.press_ms
      /\ gate'.long_hold = gate.long_hold
  BY DEF Takes
<1>2. /\ gate.press_ms \in Nat /\ gate.since \in Nat /\ now \in Nat
      /\ gate.last_poll \in Nat /\ gate.deadline \in Nat /\ gate.long_hold \in BOOLEAN
      /\ gate.phase \in Phase \ {"Finished"}
      /\ gate.press_ms = IF gate.long_hold THEN HoldMs ELSE PressMs
  BY DEF Takes, GateInv, GateTyped
<1>3. gate'.since \in Nat /\ gate'.phase \in Phase /\ level \in Level
  BY <1>2 DEF Takes, Level
<1>4. gate' \in [phase : Phase, deadline : Nat, last_poll : Nat, last_level : Level,
                 since : Nat, press_ms : Nat, long_hold : BOOLEAN]
  BY <1>1, <1>2, <1>3 DEF Takes
<1>5. now' \in Nat /\ samples' \in Seq([level : Level, at : Nat])
  BY <1>2, SampleAdded DEF Takes
<1> QED
  BY <1>1, <1>2, <1>3, <1>4, <1>5 DEF GateTyped

\* The samples stay in order, and since stays the beginning of the last level.
LEMMA StillInOrder ==
    ASSUME NEW level, Takes(level)
    PROVE  SamplesInOrder' /\ SinceIsStart'
<1> DEFINE n == Len(samples)
<1>1. /\ n \in Nat /\ DOMAIN samples = 1..n /\ Len(samples') = n + 1
      /\ DOMAIN samples' = 1..(n + 1)
      /\ \A k \in 1..n : samples'[k] = samples[k] /\ samples[k].at \in Nat
      /\ samples'[n + 1].level = level /\ samples'[n + 1].at = now
      /\ samples' # <<>>
  BY SampleAdded
<1>2. /\ gate'.last_poll = now /\ gate'.last_level = level /\ now \in Nat
      /\ gate.since \in Nat /\ gate.last_poll \in Nat /\ now' = now
  BY FieldsKept DEF Takes
<1>3. /\ \A i, j \in 1..n : i < j => samples[i].at < samples[j].at
      /\ \A i \in 1..n : samples[i].level # "Fault" /\ samples[i].at <= gate.last_poll
      /\ gate.since <= gate.last_poll
  BY <1>1 DEF Takes, GateInv, SamplesInOrder
<1>4. /\ \A i \in 1..n : samples[i].at < now
      /\ level # "Fault" /\ gate.last_poll <= now
  BY <1>1, <1>2, <1>3 DEF Takes
<1>5. gate'.since = IF level # gate.last_level THEN now ELSE gate.since
  BY DEF Takes
<1>6. /\ n = 0 => gate.last_level = "Uncertain"
      /\ n # 0 => gate.last_level = samples[n].level
      /\ gate.last_level # "Uncertain" =>
           \E s \in 1..n :
              /\ gate.since = samples[s].at
              /\ \A k \in s..n : samples[k].level = gate.last_level
              /\ s > 1 => samples[s - 1].level # gate.last_level
  <2>1. samples \in Seq([level : Level, at : Nat])
    BY DEF Takes, GateInv, GateTyped
  <2>2. n = 0 <=> samples = <<>>
    BY <2>1
  <2> QED
    BY <1>1, <2>2 DEF Takes, GateInv, SinceIsStart
<1> HIDE DEF n
<1>7. SamplesInOrder'
  <2>1. ASSUME NEW i \in 1..(n + 1), NEW j \in 1..(n + 1), i < j
        PROVE  samples'[i].at < samples'[j].at
    <3>1. i \in 1..n
      BY <1>1, <2>1
    <3>2. CASE j \in 1..n
      BY <1>1, <1>3, <2>1, <3>1, <3>2
    <3>3. CASE j = n + 1
      BY <1>1, <1>4, <3>1, <3>3
    <3> QED
      BY <1>1, <3>2, <3>3
  <2>2. ASSUME NEW i \in 1..(n + 1)
        PROVE  samples'[i].level # "Fault" /\ samples'[i].at <= now
    <3>1. CASE i \in 1..n
      BY <1>1, <1>2, <1>3, <1>4, <3>1
    <3>2. CASE i = n + 1
      BY <1>1, <1>2, <1>4, <3>2
    <3> QED
      BY <1>1, <3>1, <3>2
  <2>3. gate'.since <= now
    BY <1>2, <1>3, <1>4, <1>5
  <2> QED
    BY <1>1, <1>2, <2>1, <2>2, <2>3 DEF SamplesInOrder
<1>8. SinceIsStart'
  <2>1. gate'.last_level = samples'[Len(samples')].level
    BY <1>1, <1>2
  <2>2. ASSUME level # "Uncertain"
        PROVE  \E s \in 1..(n + 1) :
                  /\ gate'.since = samples'[s].at
                  /\ \A k \in s..(n + 1) : samples'[k].level = level
                  /\ s > 1 => samples'[s - 1].level # level
    <3>1. CASE level # gate.last_level
      <4>1. gate'.since = samples'[n + 1].at
        BY <1>1, <1>5, <3>1
      <4>2. \A k \in (n + 1)..(n + 1) : samples'[k].level = level
        BY <1>1
      <4>3. n + 1 > 1 => samples'[(n + 1) - 1].level # level
        BY <1>1, <1>6, <3>1
      <4> QED
        BY <1>1, <4>1, <4>2, <4>3
    <3>2. CASE level = gate.last_level
      <4>1. PICK s \in 1..n :
               /\ gate.since = samples[s].at
               /\ \A k \in s..n : samples[k].level = level
               /\ s > 1 => samples[s - 1].level # level
        BY <1>6, <2>2, <3>2
      <4>2. gate'.since = samples'[s].at
        BY <1>1, <1>5, <3>2, <4>1
      <4>3. ASSUME NEW k \in s..(n + 1) PROVE samples'[k].level = level
        <5>1. CASE k \in s..n
          BY <1>1, <4>1, <5>1
        <5>2. CASE k = n + 1
          BY <1>1, <5>2
        <5> QED
          BY <1>1, <5>1, <5>2
      <4>4. s > 1 => samples'[s - 1].level # level
        BY <1>1, <4>1
      <4> QED
        BY <1>1, <4>2, <4>3, <4>4
    <3> QED
      BY <3>1, <3>2
  <2> QED
    BY <1>1, <1>2, <2>1, <2>2 DEF SinceIsStart
<1> QED
  BY <1>7, <1>8

\* A run of the earlier samples stays one.
LEMMA OldRun ==
    ASSUME NEW level, Takes(level), NEW i \in 1..Len(samples), NEW j \in 1..Len(samples),
           NEW L, NEW ms
    PROVE  Run(i, j, L, ms)' <=> Run(i, j, L, ms)
<1> DEFINE n == Len(samples)
<1>1. /\ n \in Nat /\ DOMAIN samples = 1..n /\ DOMAIN samples' = 1..(n + 1)
      /\ \A k \in 1..n : samples'[k] = samples[k]
  BY SampleAdded
<1> HIDE DEF n
<1>2. i \in 1..n /\ j \in 1..n
  BY DEF n
<1>3. /\ i \in 1..(n + 1) /\ j \in 1..(n + 1)
      /\ \A k \in i..j : k \in 1..n
  BY <1>1, <1>2
<1> QED
  BY <1>1, <1>2, <1>3 DEF Run

\* A run that the new sample ends began no earlier than since.
LEMMA NewRun ==
    ASSUME NEW level, Takes(level), NEW i, NEW L \in {"Released", "Pressed"}, NEW ms \in Nat,
           NEW n, n = Len(samples), Run(i, n + 1, L, ms)'
    PROVE  level = L /\ now - gate'.since >= ms
<1>1. /\ n \in Nat /\ Len(samples') = n + 1 /\ DOMAIN samples' = 1..(n + 1)
      /\ samples'[n + 1].level = level /\ samples'[n + 1].at = now
  BY SampleAdded
<1>2. \A k \in 1..(n + 1) : samples'[k].at \in Nat
  <2>1. samples' \in Seq([level : Level, at : Nat]) /\ Len(samples') = n + 1
    BY SampleAdded
  <2>2. \A k \in 1..(n + 1) : samples'[k] \in [level : Level, at : Nat]
    BY <2>1, ElementOfSeq
  <2> QED
    BY <2>2
<1>3. /\ i \in 1..(n + 1)
      /\ \A k \in i..(n + 1) : samples'[k].level = L
      /\ samples'[n + 1].at >= samples'[i].at + ms
  BY <1>1 DEF Run
<1>4. level = L
  BY <1>1, <1>3
<1>5. gate'.last_level = level /\ now \in Nat
  BY FieldsKept
<1>6. PICK s \in 1..(n + 1) :
         /\ gate'.since = samples'[s].at
         /\ \A k \in s..(n + 1) : samples'[k].level = level
         /\ s > 1 => samples'[s - 1].level # level
  BY <1>1, <1>4, <1>5, StillInOrder DEF SinceIsStart
<1>7. s <= i
  <2>1. ASSUME i < s PROVE FALSE
    <3>1. s > 1 /\ s - 1 \in i..(n + 1)
      BY <1>1, <1>3, <2>1
    <3> QED
      BY <1>3, <1>4, <1>6, <3>1
  <2> QED
    BY <1>1, <1>3, <2>1
<1>8. \A a, b \in 1..(n + 1) : a < b => samples'[a].at < samples'[b].at
  BY <1>1, StillInOrder DEF SamplesInOrder
<1>9. samples'[s].at <= samples'[i].at
  BY <1>1, <1>3, <1>7, <1>8, <1>2
<1> QED
  BY <1>1, <1>3, <1>4, <1>5, <1>6, <1>9, <1>2

\* A phase ends with the sample that completes its gesture, and not before.
Moves(level) ==
    LET stable == now - gate'.since
    IN  /\ gate.phase = "InitialRelease" =>
             gate'.phase = IF level = "Released" /\ stable >= ReleaseMs
                           THEN "AwaitPress" ELSE "InitialRelease"
        /\ gate.phase = "AwaitPress" =>
             gate'.phase = IF level = "Pressed" /\ stable >= gate.press_ms
                           THEN IF gate.long_hold THEN "FinalRelease" ELSE "Finished"
                           ELSE "AwaitPress"
        /\ gate.phase = "FinalRelease" =>
             gate'.phase = IF level = "Uncertain" THEN "InitialRelease"
                           ELSE IF level = "Released" /\ stable >= ReleaseMs
                           THEN "Finished" ELSE "FinalRelease"

\* The level of the last samples lasted since since: they are a run.
LEMMA LastRun ==
    ASSUME NEW level, Takes(level), level # "Uncertain", NEW ms \in Nat,
           now - gate'.since >= ms, NEW n, n = Len(samples)
    PROVE  \E s \in 1..(n + 1) : Run(s, n + 1, level, ms)'
<1>1. /\ n \in Nat /\ Len(samples') = n + 1 /\ DOMAIN samples' = 1..(n + 1)
      /\ samples'[n + 1].at = now
  BY SampleAdded
<1>2. gate'.last_level = level /\ now \in Nat /\ gate'.since \in Nat
  BY FieldsKept
<1>3. PICK s \in 1..(n + 1) :
         /\ gate'.since = samples'[s].at
         /\ \A k \in s..(n + 1) : samples'[k].level = level
  BY <1>1, <1>2, StillInOrder DEF SinceIsStart
<1>4. Run(s, n + 1, level, ms)'
  BY <1>1, <1>2, <1>3 DEF Run
<1> QED
  BY <1>1, <1>4

\* A run of one level does not reach into a run of another one.
LEMMA RunsApart ==
    ASSUME NEW i, NEW j \in Nat, NEW k \in Nat, NEW l \in Nat, NEW L, NEW M, NEW a, NEW b,
           Run(i, j, L, a)', Run(k, l, M, b)', L # M, j <= l
    PROVE  j < k
<1>1. ASSUME k <= j PROVE FALSE
  <2>1. j \in k..l /\ j \in i..j
    BY <1>1 DEF Run
  <2> QED
    BY <2>1 DEF Run
<1> QED
  BY <1>1

\* The gestures before a phase have happened.
LEMMA StillEarned ==
    ASSUME NEW level, Takes(level), Moves(level)
    PROVE  PhaseEarned'
<1> PICK n : n = Len(samples)
  OBVIOUS
<1>1. /\ n \in Nat /\ DOMAIN samples = 1..n /\ Len(samples') = n + 1
      /\ DOMAIN samples' = 1..(n + 1)
      /\ \A k \in 1..n : samples'[k] = samples[k]
      /\ samples'[n + 1].level = level
  BY SampleAdded
<1>2. /\ gate'.press_ms = gate.press_ms /\ gate'.long_hold = gate.long_hold
      /\ gate.press_ms \in Nat /\ ReleaseMs \in Nat
      /\ gate.phase \in {"InitialRelease", "AwaitPress", "FinalRelease"}
  BY FieldsKept, GateAssumption DEF Phase
<1>3. PhaseEarned
  BY DEF Takes, GateInv
<1>4. \A L, ms : \A i, j \in 1..n : Run(i, j, L, ms)' <=> Run(i, j, L, ms)
  BY OldRun
<1>5. CASE gate.phase = "InitialRelease"
  <2>1. gate'.phase \in {"InitialRelease", "AwaitPress"}
    BY <1>5 DEF Moves
  <2>2. CASE gate'.phase = "AwaitPress"
    <3>1. level = "Released" /\ now - gate'.since >= ReleaseMs
      BY <1>5, <2>2 DEF Moves
    <3>2. \E s \in 1..(n + 1) : Run(s, n + 1, "Released", ReleaseMs)'
      BY <1>2, <3>1, LastRun
    <3>3. \E i, j \in DOMAIN samples' : Released(i, j)'
      BY <1>1, <3>2 DEF Released
    <3> QED
      BY <2>2, <3>3 DEF PhaseEarned
  <2> QED
    BY <2>1, <2>2 DEF PhaseEarned
<1>6. CASE gate.phase \in {"AwaitPress", "FinalRelease"}
  <2>1. PICK i \in 1..n, j \in 1..n : Released(i, j)
    BY <1>1, <1>3, <1>6 DEF PhaseEarned
  <2>2. Released(i, j)'
    BY <1>4, <2>1 DEF Released
  <2>3. \E a, b \in DOMAIN samples' : Released(a, b)'
    BY <1>1, <2>2
  <2>4. CASE gate'.phase # "FinalRelease"
    BY <2>3, <2>4 DEF PhaseEarned
  <2>5. CASE gate'.phase = "FinalRelease" /\ gate.phase = "AwaitPress"
    <3>1. level = "Pressed" /\ now - gate'.since >= gate.press_ms /\ gate.long_hold
      BY <2>5 DEF Moves
    <3> PICK ms : ms = gate.press_ms
      OBVIOUS
    <3>2. PICK s \in 1..(n + 1) : Run(s, n + 1, "Pressed", ms)'
      BY <1>2, <3>1, LastRun
    <3>3. j < s
      <4>1. Run(i, j, "Released", ReleaseMs)'
        BY <2>2 DEF Released
      <4>2. j \in Nat /\ s \in Nat /\ n + 1 \in Nat /\ j <= n + 1
        BY <1>1
      <4> QED
        BY <3>2, <4>1, <4>2, RunsApart
    <3>4. PressedAfter(i, j, s, n + 1)'
      BY <1>2, <2>2, <3>2, <3>3 DEF PressedAfter
    <3>5. NoUncertain(n + 1)'
      BY <1>1, <3>1 DEF NoUncertain
    <3>6. n + 1 \in DOMAIN samples' /\ i \in DOMAIN samples' /\ j \in DOMAIN samples'
          /\ s \in DOMAIN samples'
      BY <1>1
    <3>7. \E a, b, c, d \in DOMAIN samples' : PressedAfter(a, b, c, d)' /\ NoUncertain(d)'
      BY <3>4, <3>5, <3>6
    <3> QED
      BY <1>2, <2>3, <3>1, <3>7 DEF PhaseEarned
  <2>6. CASE gate'.phase = "FinalRelease" /\ gate.phase = "FinalRelease"
    <3>1. level # "Uncertain"
      BY <2>6 DEF Moves
    <3>2. PICK a \in 1..n, b \in 1..n, c \in 1..n, d \in 1..n :
             PressedAfter(a, b, c, d) /\ NoUncertain(d)
      BY <1>1, <1>3, <2>6 DEF PhaseEarned
    <3>3. PressedAfter(a, b, c, d)'
      BY <1>2, <1>4, <3>2 DEF PressedAfter, Released
    <3>4. NoUncertain(d)'
      <4>1. \A k \in d..n : samples[k].level # "Uncertain"
        BY <3>2 DEF NoUncertain
      <4>2. \A k \in d..(n + 1) : samples'[k].level # "Uncertain"
        <5>1. ASSUME NEW k \in d..(n + 1) PROVE samples'[k].level # "Uncertain"
          <6>1. CASE k \in d..n
            BY <1>1, <4>1, <6>1
          <6>2. CASE k = n + 1
            BY <1>1, <3>1, <6>2
          <6> QED
            BY <1>1, <6>1, <6>2
        <5> QED
          BY <5>1
      <4> QED
        BY <1>1, <4>2 DEF NoUncertain
    <3>5. gate.long_hold
      BY <1>3, <2>6 DEF PhaseEarned
    <3>6. a \in DOMAIN samples' /\ b \in DOMAIN samples' /\ c \in DOMAIN samples'
          /\ d \in DOMAIN samples'
      BY <1>1
    <3>7. \E e, f, g, h \in DOMAIN samples' : PressedAfter(e, f, g, h)' /\ NoUncertain(h)'
      BY <3>3, <3>4, <3>6
    <3> QED
      BY <1>2, <2>3, <3>5, <3>7 DEF PhaseEarned
  <2> QED
    BY <1>6, <2>4, <2>5, <2>6
<1> QED
  BY <1>2, <1>5, <1>6

\* No gesture is complete that the phase does not know of.
LEMMA StillDue ==
    ASSUME NEW level, Takes(level), Moves(level)
    PROVE  PhaseDue'
<1> PICK n : n = Len(samples)
  OBVIOUS
<1> PICK ms : ms = gate.press_ms
  OBVIOUS
<1>1. /\ n \in Nat /\ DOMAIN samples = 1..n /\ Len(samples') = n + 1
      /\ DOMAIN samples' = 1..(n + 1)
      /\ \A k \in 1..n : samples'[k] = samples[k]
      /\ samples'[n + 1].level = level
  BY SampleAdded
<1>2. /\ gate'.press_ms = ms /\ gate'.long_hold = gate.long_hold
      /\ ms \in Nat /\ ReleaseMs \in Nat
      /\ gate.phase \in {"InitialRelease", "AwaitPress", "FinalRelease"}
  BY FieldsKept, GateAssumption DEF Phase
<1>3. SUFFICES ASSUME (~gate.long_hold \/ NoUncertain(1))'
               PROVE  /\ gate'.phase = "InitialRelease" =>
                           \A i, j \in 1..(n + 1) : ~Released(i, j)'
                      /\ gate'.phase = "AwaitPress" =>
                           \A i, j, k, l \in 1..(n + 1) : ~PressedAfter(i, j, k, l)'
                      /\ gate'.phase = "FinalRelease" =>
                           \A i, j, k, l, m, q \in 1..(n + 1) :
                              ~(PressedAfter(i, j, k, l)' /\ l < m /\ Released(m, q)')
  BY <1>1 DEF PhaseDue
<1>4. ~gate.long_hold \/ (NoUncertain(1) /\ level # "Uncertain")
  <2>1. NoUncertain(1)' => \A k \in 1..(n + 1) : samples'[k].level # "Uncertain"
    BY <1>1 DEF NoUncertain
  <2>2. NoUncertain(1)' => /\ level # "Uncertain"
                           /\ \A k \in 1..n : samples[k].level # "Uncertain"
    BY <1>1, <2>1
  <2> QED
    BY <1>2, <1>3, <2>2 DEF NoUncertain
<1>5. /\ gate.phase = "InitialRelease" => \A i, j \in 1..n : ~Released(i, j)
      /\ gate.phase = "AwaitPress" => \A i, j, k, l \in 1..n : ~PressedAfter(i, j, k, l)
      /\ gate.phase = "FinalRelease" =>
           \A i, j, k, l, m, q \in 1..n :
              ~(PressedAfter(i, j, k, l) /\ l < m /\ Released(m, q))
  BY <1>1, <1>4 DEF Takes, GateInv, PhaseDue
\* Earlier gestures are known; one that is not ends with the new sample.
<1>6. \A i, j \in 1..(n + 1) : Released(i, j)' => Run(i, j, "Released", ReleaseMs)' /\ i <= j
  BY DEF Released, Run
<1>7. \A i, j, k, l \in 1..(n + 1) : PressedAfter(i, j, k, l)' =>
         Released(i, j)' /\ j < k /\ k <= l /\ Run(k, l, "Pressed", ms)'
  BY <1>2 DEF PressedAfter, Run
<1>8. \A L, x : \A i, j \in 1..n : Run(i, j, L, x)' <=> Run(i, j, L, x)
  BY OldRun
<1>9. \A i, j \in 1..n : Released(i, j)' <=> Released(i, j)
  BY <1>8 DEF Released
<1>10. \A i, j, k, l \in 1..n : PressedAfter(i, j, k, l)' <=> PressedAfter(i, j, k, l)
  BY <1>2, <1>8, <1>9 DEF PressedAfter
<1>11. \A i \in 1..(n + 1) : Released(i, n + 1)' =>
          level = "Released" /\ now - gate'.since >= ReleaseMs
  BY <1>2, NewRun DEF Released
<1>12. \A k \in 1..(n + 1) : Run(k, n + 1, "Pressed", ms)' =>
          level = "Pressed" /\ now - gate'.since >= ms
  BY <1>2, NewRun
<1>13. CASE gate.phase = "InitialRelease"
  <2>1. \A i, j \in 1..(n + 1) : Released(i, j)' => j = n + 1
    <3>1. ASSUME NEW i \in 1..(n + 1), NEW j \in 1..(n + 1), Released(i, j)', j # n + 1
          PROVE  FALSE
      <4>1. i \in 1..n /\ j \in 1..n
        BY <1>1, <1>6, <3>1
      <4> QED
        BY <1>5, <1>9, <1>13, <3>1, <4>1
    <3> QED
      BY <3>1
  <2>2. gate'.phase = IF level = "Released" /\ now - gate'.since >= ReleaseMs
                      THEN "AwaitPress" ELSE "InitialRelease"
    BY <1>13 DEF Moves
  <2>3. ASSUME gate'.phase = "InitialRelease", NEW i \in 1..(n + 1), NEW j \in 1..(n + 1),
               Released(i, j)'
        PROVE  FALSE
    BY <1>11, <2>1, <2>2, <2>3
  <2>4. ASSUME NEW i \in 1..(n + 1), NEW j \in 1..(n + 1), NEW k \in 1..(n + 1),
               NEW l \in 1..(n + 1), PressedAfter(i, j, k, l)'
        PROVE  FALSE
    <3>1. j = n + 1 /\ j < k
      BY <1>7, <2>1, <2>4
    <3> QED
      BY <1>1, <3>1
  <2> QED
    BY <2>2, <2>3, <2>4
<1>14. CASE gate.phase = "AwaitPress"
  <2>1. \A i, j, k, l \in 1..(n + 1) : PressedAfter(i, j, k, l)' => l = n + 1
    <3>1. ASSUME NEW i \in 1..(n + 1), NEW j \in 1..(n + 1), NEW k \in 1..(n + 1),
                 NEW l \in 1..(n + 1), PressedAfter(i, j, k, l)', l # n + 1
          PROVE  FALSE
      <4>1. i <= j /\ j < k /\ k <= l
        BY <1>6, <1>7, <3>1
      <4>2. i \in 1..n /\ j \in 1..n /\ k \in 1..n /\ l \in 1..n
        BY <1>1, <3>1, <4>1
      <4> QED
        BY <1>5, <1>10, <1>14, <3>1, <4>2
    <3> QED
      BY <3>1
  <2>2. gate'.phase = IF level = "Pressed" /\ now - gate'.since >= ms
                      THEN IF gate.long_hold THEN "FinalRelease" ELSE "Finished"
                      ELSE "AwaitPress"
    BY <1>14 DEF Moves
  <2>3. ASSUME gate'.phase = "AwaitPress", NEW i \in 1..(n + 1), NEW j \in 1..(n + 1),
               NEW k \in 1..(n + 1), NEW l \in 1..(n + 1), PressedAfter(i, j, k, l)'
        PROVE  FALSE
    BY <1>7, <1>12, <2>1, <2>2, <2>3
  <2>4. ASSUME NEW i \in 1..(n + 1), NEW j \in 1..(n + 1), NEW k \in 1..(n + 1),
               NEW l \in 1..(n + 1), NEW m \in 1..(n + 1), PressedAfter(i, j, k, l)', l < m
        PROVE  FALSE
    <3>1. l = n + 1
      BY <2>1, <2>4
    <3> QED
      BY <1>1, <2>4, <3>1
  <2> QED
    BY <2>2, <2>3, <2>4
<1>15. CASE gate.phase = "FinalRelease"
  <2>1. gate'.phase = IF level = "Uncertain" THEN "InitialRelease"
                      ELSE IF level = "Released" /\ now - gate'.since >= ReleaseMs
                      THEN "Finished" ELSE "FinalRelease"
    BY <1>15 DEF Moves
  <2>2. level # "Uncertain"
    BY <1>4, <1>15 DEF Takes, GateInv, PhaseEarned
  <2>3. ASSUME gate'.phase = "FinalRelease",
               NEW i \in 1..(n + 1), NEW j \in 1..(n + 1), NEW k \in 1..(n + 1),
               NEW l \in 1..(n + 1), NEW m \in 1..(n + 1), NEW q \in 1..(n + 1),
               PressedAfter(i, j, k, l)', l < m, Released(m, q)'
        PROVE  FALSE
    <3>1. i <= j /\ j < k /\ k <= l /\ m <= q
      BY <1>6, <1>7, <2>3
    <3>2. q # n + 1
      BY <1>11, <2>1, <2>3
    <3>3. /\ i \in 1..n /\ j \in 1..n /\ k \in 1..n /\ l \in 1..n
          /\ m \in 1..n /\ q \in 1..n
      BY <1>1, <2>3, <3>1, <3>2
    <3> QED
      BY <1>5, <1>9, <1>10, <1>15, <2>3, <3>3
  <2> QED
    BY <2>1, <2>2, <2>3
<1> QED
  BY <1>2, <1>13, <1>14, <1>15

\* A gesture is complete when the gate says so.
LEMMA FinishedFresh ==
    ASSUME NEW level, Takes(level), Moves(level), gate'.phase = "Finished"
    PROVE  FreshGesture'
<1> PICK n : n = Len(samples)
  OBVIOUS
<1> PICK ms : ms = gate.press_ms
  OBVIOUS
<1>1. /\ n \in Nat /\ DOMAIN samples = 1..n /\ Len(samples') = n + 1
      /\ DOMAIN samples' = 1..(n + 1)
      /\ \A k \in 1..n : samples'[k] = samples[k]
      /\ samples'[n + 1].level = level
  BY SampleAdded
<1>2. /\ gate'.press_ms = ms /\ gate'.long_hold = gate.long_hold
      /\ ms \in Nat /\ ReleaseMs \in Nat
      /\ gate.phase \in {"InitialRelease", "AwaitPress", "FinalRelease"}
      /\ ms = IF gate.long_hold THEN HoldMs ELSE PressMs
  BY FieldsKept, GateAssumption DEF Phase, Takes, GateInv, GateTyped
<1>3. PhaseEarned
  BY DEF Takes, GateInv
<1>4. \A L, x : \A i, j \in 1..n : Run(i, j, L, x)' <=> Run(i, j, L, x)
  BY OldRun
<1>5. \/ gate.phase = "AwaitPress" /\ level = "Pressed" /\ ~gate.long_hold /\ now - gate'.since >= ms
      \/ gate.phase = "FinalRelease" /\ level = "Released" /\ now - gate'.since >= ReleaseMs
  BY <1>2 DEF Moves
<1>6. CASE gate.phase = "AwaitPress"
  <2>1. PICK i \in 1..n, j \in 1..n : Released(i, j)
    BY <1>1, <1>3, <1>6 DEF PhaseEarned
  <2>2. PICK s \in 1..(n + 1) : Run(s, n + 1, "Pressed", ms)'
    BY <1>2, <1>5, <1>6, LastRun
  <2>3. Run(i, j, "Released", ReleaseMs)'
    BY <1>4, <2>1 DEF Released
  <2>4. j < s
    <3>1. j \in Nat /\ s \in Nat /\ n + 1 \in Nat /\ j <= n + 1
      BY <1>1
    <3> QED
      BY <2>2, <2>3, <3>1, RunsApart
  <2>5. ~gate'.long_hold /\ PressMs = ms
    BY <1>2, <1>5, <1>6
  <2>6. i \in 1..Len(samples') /\ j \in 1..Len(samples') /\ s \in 1..Len(samples')
    BY <1>1
  <2> QED
    BY <1>1, <2>2, <2>3, <2>4, <2>5, <2>6 DEF FreshGesture
<1>7. CASE gate.phase = "FinalRelease"
  <2>1. PICK i \in 1..n, j \in 1..n, k \in 1..n, l \in 1..n :
           PressedAfter(i, j, k, l) /\ NoUncertain(l)
    BY <1>1, <1>3, <1>7 DEF PhaseEarned
  <2>2. PICK s \in 1..(n + 1) : Run(s, n + 1, "Released", ReleaseMs)'
    BY <1>2, <1>5, <1>7, LastRun
  <2>3. Run(i, j, "Released", ReleaseMs)' /\ j < k /\ Run(k, l, "Pressed", ms)'
    BY <1>4, <2>1 DEF PressedAfter, Released
  <2>4. l < s
    <3>1. l \in Nat /\ s \in Nat /\ n + 1 \in Nat /\ l <= n + 1
      BY <1>1
    <3> QED
      BY <2>2, <2>3, <3>1, RunsApart
  <2>5. gate'.long_hold /\ HoldMs = ms
    BY <1>2, <1>3, <1>7 DEF PhaseEarned
  <2>6. NoUncertain(l)'
    <3>1. \A a \in l..n : samples[a].level # "Uncertain"
      BY <2>1 DEF NoUncertain
    <3>2. ASSUME NEW a \in l..(n + 1) PROVE samples'[a].level # "Uncertain"
      <4>1. CASE a \in l..n
        BY <1>1, <3>1, <4>1
      <4>2. CASE a = n + 1
        BY <1>1, <1>5, <1>7, <4>2
      <4> QED
        BY <1>1, <4>1, <4>2
    <3> QED
      BY <1>1, <3>2 DEF NoUncertain
  <2>7. /\ i \in 1..Len(samples') /\ j \in 1..Len(samples') /\ k \in 1..Len(samples')
        /\ l \in 1..Len(samples') /\ s \in 1..Len(samples')
    BY <1>1
  <2> QED
    BY <1>1, <2>2, <2>3, <2>4, <2>5, <2>6, <2>7 DEF FreshGesture
<1> QED
  BY <1>5, <1>6, <1>7

\* While the gate waits, the samples do not end in the gesture it waits for.
LEMMA NotYetFresh ==
    ASSUME GateInv, answer = "None"
    PROVE  ApprovalIsFresh
<1> DEFINE n == Len(samples)
<1>1. n \in Nat /\ DOMAIN samples = 1..n
  BY LenProperties DEF GateInv, GateTyped
<1>2. gate.since <= gate.last_poll
  BY DEF GateInv, SamplesInOrder
<1>3. ASSUME FreshGesture, gate.long_hold => NoUncertain(1)
      PROVE  FALSE
  <2>1. gate.phase \in {"InitialRelease", "AwaitPress", "FinalRelease"}
        /\ gate.long_hold \in BOOLEAN
        /\ gate.press_ms = IF gate.long_hold THEN HoldMs ELSE PressMs
    BY DEF GateInv, GateTyped, Phase
  <2>2. PhaseDue /\ PhaseEarned /\ (~gate.long_hold \/ NoUncertain(1))
    BY <1>3, <2>1 DEF GateInv
  <2>3. PICK i \in 1..n, j \in 1..n, k \in 1..n :
           /\ j < k /\ Released(i, j)
           /\ \/ ~gate.long_hold /\ Run(k, n, "Pressed", PressMs)
              \/ /\ gate.long_hold
                 /\ \E l, m \in 1..n : /\ l < m
                                       /\ Run(k, l, "Pressed", HoldMs)
                                       /\ Run(m, n, "Released", ReleaseMs)
    BY <1>3 DEF FreshGesture, Released
  <2>4. n \in 1..n
    BY <1>1
  <2>5. CASE ~gate.long_hold
    <3>1. PressedAfter(i, j, k, n)
      BY <2>1, <2>3, <2>5 DEF PressedAfter
    <3>2. gate.phase \in {"InitialRelease", "AwaitPress"}
      BY <2>1, <2>2, <2>5 DEF PhaseEarned
    <3> QED
      BY <1>1, <2>2, <2>3, <2>4, <3>1, <3>2 DEF PhaseDue
  <2>6. CASE gate.long_hold
    <3>1. PICK l \in 1..n, m \in 1..n : /\ l < m
                                        /\ Run(k, l, "Pressed", HoldMs)
                                        /\ Run(m, n, "Released", ReleaseMs)
      BY <2>3, <2>6
    <3>2. PressedAfter(i, j, k, l) /\ Released(m, n)
      BY <2>1, <2>3, <2>6, <3>1 DEF PressedAfter, Released
    <3> QED
      BY <1>1, <2>1, <2>2, <2>3, <2>4, <3>1, <3>2 DEF PhaseDue
  <2> QED
    BY <2>1, <2>5, <2>6
<1> QED
  BY <1>2, <1>3 DEF ApprovalIsFresh

\* A wait starts without samples.
LEMMA GateStarts == GateInit => GateInv
<1> SUFFICES ASSUME GateInit PROVE GateInv
  OBVIOUS
<1>1. PICK long_hold \in BOOLEAN : gate = NewGate(0, long_hold)
  BY DEF GateInit
<1>2. now = 0 /\ answer = "None" /\ samples = <<>>
  BY DEF GateInit
<1>3. gate = [phase |-> "InitialRelease", deadline |-> Timeout, last_poll |-> 0,
              last_level |-> "Uncertain", since |-> 0,
              press_ms |-> IF long_hold THEN HoldMs ELSE PressMs, long_hold |-> long_hold]
  BY <1>1, GateAssumption DEF NewGate
<1>4. GateTyped
  BY <1>2, <1>3, GateAssumption DEF GateTyped, Phase, Level
<1>5. DOMAIN samples = {}
  BY <1>2
<1>6. gate.phase = "InitialRelease" /\ gate.last_level = "Uncertain" /\ gate.since <= gate.last_poll
  BY <1>3
<1>7. SamplesInOrder /\ SinceIsStart
  BY <1>2, <1>5, <1>6 DEF SamplesInOrder, SinceIsStart
<1>8. PhaseEarned /\ PhaseDue
  BY <1>5, <1>6 DEF PhaseEarned, PhaseDue
<1> QED
  BY <1>2, <1>4, <1>6, <1>7, <1>8 DEF GateInv

\* A wait that ends without an approval.
LEMMA FinishStep ==
    ASSUME GateInv, Finish, now' \in Nat, samples' \in Seq([level : Level, at : Nat])
    PROVE  GateInv'
<1>1. /\ gate \in [phase : Phase, deadline : Nat, last_poll : Nat, last_level : Level,
                   since : Nat, press_ms : Nat, long_hold : BOOLEAN]
      /\ gate.press_ms = IF gate.long_hold THEN HoldMs ELSE PressMs
  BY DEF GateInv, GateTyped
<1>2. gate' = [gate EXCEPT !.phase = "Finished"] /\ answer' = "False"
  BY DEF Finish
<1>3. GateTyped' /\ gate'.phase = "Finished"
  BY <1>1, <1>2 DEF GateTyped, Phase
<1>4. ApprovalIsFresh'
  BY <1>2, <1>3 DEF ApprovalIsFresh
<1> QED
  BY <1>2, <1>3, <1>4 DEF GateInv

\* Steps that leave phase, level and samples alone.
LEMMA WaitGoesOn ==
    ASSUME GateInv, answer = "None", answer' = answer, samples' = samples, now' \in Nat,
           NEW t \in Nat, gate.last_poll <= t, gate' = [gate EXCEPT !.last_poll = t]
    PROVE  GateInv'
<1>1. /\ gate \in [phase : Phase, deadline : Nat, last_poll : Nat, last_level : Level,
                   since : Nat, press_ms : Nat, long_hold : BOOLEAN]
      /\ gate.press_ms = IF gate.long_hold THEN HoldMs ELSE PressMs
      /\ samples \in Seq([level : Level, at : Nat])
  BY DEF GateInv, GateTyped
<1>2. /\ gate'.phase = gate.phase /\ gate'.last_level = gate.last_level /\ gate'.last_poll = t
      /\ gate'.since = gate.since /\ gate'.press_ms = gate.press_ms
      /\ gate'.long_hold = gate.long_hold
  BY <1>1
<1>3. GateTyped'
  BY <1>1, <1>2 DEF GateTyped
<1>4. \A i \in DOMAIN samples : samples[i].at \in Nat
  <2>1. DOMAIN samples = 1..Len(samples)
    BY <1>1, LenProperties
  <2>2. \A i \in 1..Len(samples) : samples[i] \in [level : Level, at : Nat]
    BY <1>1, ElementOfSeq
  <2> QED
    BY <2>1, <2>2
<1>5. SamplesInOrder'
  BY <1>1, <1>2, <1>4 DEF GateInv, SamplesInOrder
<1>6. SinceIsStart'
  BY <1>2 DEF GateInv, SinceIsStart
<1>7. /\ \A i, j, L, x : Run(i, j, L, x)' <=> Run(i, j, L, x)
      /\ \A i : NoUncertain(i)' <=> NoUncertain(i)
  BY DEF Run, NoUncertain
<1>8. /\ \A i, j : Released(i, j)' <=> Released(i, j)
      /\ \A i, j, k, l : PressedAfter(i, j, k, l)' <=> PressedAfter(i, j, k, l)
  BY <1>2, <1>7 DEF Released, PressedAfter
<1>9. PhaseEarned'
  BY <1>2, <1>7, <1>8 DEF GateInv, PhaseEarned
<1>10. PhaseDue'
  BY <1>2, <1>7, <1>8 DEF GateInv, PhaseDue
<1> QED
  BY <1>2, <1>3, <1>5, <1>6, <1>9, <1>10 DEF GateInv

\* poll without a sample.
LEMMA PollNothingStep ==
    ASSUME GateInv, answer = "None", NEW cancelled \in BOOLEAN, PollNothing(cancelled)
    PROVE  GateInv'
<1>1. now' = now /\ samples' = samples /\ now \in Nat /\ samples \in Seq([level : Level, at : Nat])
  BY DEF PollNothing, GateInv, GateTyped
<1>2. CASE Finish
  BY <1>1, <1>2, FinishStep
<1>3. CASE /\ ~Ends(gate, now, cancelled)
           /\ gate' = [gate EXCEPT !.last_poll = now] /\ answer' = "None"
  <2>1. gate.last_poll <= now
    BY <1>1, <1>3 DEF Ends, GateInv, GateTyped
  <2> QED
    BY <1>1, <1>3, <2>1, WaitGoesOn
<1> QED
  BY <1>2, <1>3 DEF PollNothing

\* The clock of the caller, forward or back.
LEMMA TickStep ==
    ASSUME GateInv, TickForward \/ TickBack
    PROVE  GateInv'
<1>1. /\ answer = "None" /\ gate' = gate /\ answer' = answer /\ samples' = samples
      /\ now \in Nat /\ now' \in Nat
  BY DEF TickForward, TickBack, GateInv, GateTyped
<1> PICK t : t = gate.last_poll
  OBVIOUS
<1>2. t \in Nat /\ gate.last_poll <= t /\ gate' = [gate EXCEPT !.last_poll = t]
  BY <1>1 DEF GateInv, GateTyped
<1> QED
  BY <1>1, <1>2, WaitGoesOn

\* What a sample makes of the gate.
LEMMA PollTakes ==
    ASSUME GateInv, answer = "None", NEW level \in Level, NEW cancelled \in BOOLEAN,
           Poll(level, cancelled), ~Ends(gate, now, cancelled), level # "Fault"
    PROVE  /\ Takes(level) /\ Moves(level)
           /\ answer' = IF gate'.phase = "Finished" THEN "True" ELSE "None"
<1>1. /\ gate \in [phase : Phase, deadline : Nat, last_poll : Nat, last_level : Level,
                   since : Nat, press_ms : Nat, long_hold : BOOLEAN]
      /\ now \in Nat /\ gate.phase \in {"InitialRelease", "AwaitPress", "FinalRelease"}
  BY DEF GateInv, GateTyped, Phase
<1>2. gate.last_poll <= now /\ now < gate.deadline
  BY <1>1 DEF Ends
<1>3. level \in {"Released", "Pressed", "Uncertain"}
  BY DEF Level
<1> DEFINE seen == Observe(gate, level, now)
<1>4. /\ samples' = Append(samples, [level |-> level, at |-> now]) /\ now' = now
      /\ \A i \in DOMAIN samples : samples[i].at # now
      /\ IF level = "Uncertain"
         THEN /\ gate' = [seen EXCEPT !.phase = IF @ = "FinalRelease"
                                                THEN "InitialRelease" ELSE @]
              /\ answer' = "None"
         ELSE /\ gate' = [seen EXCEPT !.phase = Advance(seen, level, now)]
              /\ answer' = IF gate'.phase = "Finished" THEN "True" ELSE "None"
  BY DEF Poll
<1>5. /\ seen = [phase |-> gate.phase, deadline |-> gate.deadline, last_poll |-> now,
                 last_level |-> level, since |-> seen.since,
                 press_ms |-> gate.press_ms, long_hold |-> gate.long_hold]
      /\ seen.since = IF level # gate.last_level THEN now ELSE gate.since
  <2>1. seen = [gate EXCEPT !.last_poll = now, !.last_level = level,
                !.since = IF level # gate.last_level THEN now ELSE gate.since]
    BY <1>1 DEF Observe
  <2> QED
    BY <1>1, <2>1
<1> HIDE DEF seen
<1>6. CASE level = "Uncertain"
  <2>1. gate' = [phase |-> gate'.phase, deadline |-> gate.deadline, last_poll |-> now,
                 last_level |-> level, since |-> gate'.since,
                 press_ms |-> gate.press_ms, long_hold |-> gate.long_hold]
        /\ gate'.since = seen.since
        /\ gate'.phase = IF gate.phase = "FinalRelease" THEN "InitialRelease" ELSE gate.phase
    BY <1>4, <1>5, <1>6
  <2>2. gate'.phase \in Phase \ {"Finished"}
    BY <1>1, <2>1 DEF Phase
  <2>3. Moves(level)
    BY <1>1, <1>6, <2>1 DEF Moves
  <2> QED
    BY <1>2, <1>3, <1>4, <1>5, <1>6, <2>1, <2>2, <2>3 DEF Takes
<1>7. CASE level # "Uncertain"
  <2>1. gate' = [phase |-> gate'.phase, deadline |-> gate.deadline, last_poll |-> now,
                 last_level |-> level, since |-> gate'.since,
                 press_ms |-> gate.press_ms, long_hold |-> gate.long_hold]
        /\ gate'.since = seen.since
        /\ gate'.phase = Advance(seen, level, now)
    BY <1>4, <1>5, <1>7
  <2>2. seen.phase = gate.phase /\ seen.press_ms = gate.press_ms /\ seen.long_hold = gate.long_hold
    BY <1>5
  <2>3. gate'.phase \in Phase
    BY <1>1, <2>1, <2>2 DEF Advance, Phase
  <2>4. Moves(level)
    <3>1. CASE gate.phase = "InitialRelease"
      BY <1>7, <2>1, <2>2, <3>1 DEF Moves, Advance
    <3>2. CASE gate.phase = "AwaitPress"
      BY <1>7, <2>1, <2>2, <3>2 DEF Moves, Advance
    <3>3. CASE gate.phase = "FinalRelease"
      BY <1>7, <2>1, <2>2, <3>3 DEF Moves, Advance
    <3> QED
      BY <1>1, <3>1, <3>2, <3>3
  <2> QED
    BY <1>2, <1>3, <1>4, <1>5, <1>7, <2>1, <2>3, <2>4 DEF Takes
<1> QED
  BY <1>6, <1>7

\* poll with a sample.
LEMMA PollStep ==
    ASSUME GateInv, answer = "None", NEW level \in Level, NEW cancelled \in BOOLEAN,
           Poll(level, cancelled)
    PROVE  GateInv'
<1>1. CASE Ends(gate, now, cancelled) \/ level = "Fault"
  <2>1. Finish /\ now' = now /\ samples' = Append(samples, [level |-> level, at |-> now])
    BY <1>1 DEF Poll
  <2>2. now \in Nat /\ samples \in Seq([level : Level, at : Nat])
    BY DEF GateInv, GateTyped
  <2>3. [level |-> level, at |-> now] \in [level : Level, at : Nat]
    BY <2>2
  <2>4. samples' \in Seq([level : Level, at : Nat])
    BY <2>1, <2>2, <2>3
  <2> QED
    BY <2>1, <2>2, <2>4, FinishStep
<1>2. CASE ~(Ends(gate, now, cancelled) \/ level = "Fault")
  <2>1. /\ Takes(level) /\ Moves(level)
        /\ answer' = IF gate'.phase = "Finished" THEN "True" ELSE "None"
    BY <1>2, PollTakes
  <2>2. GateTyped' /\ SamplesInOrder' /\ SinceIsStart' /\ PhaseEarned' /\ PhaseDue'
    BY <2>1, FieldsKept, StillInOrder, StillEarned, StillDue
  <2>3. CASE gate'.phase # "Finished"
    BY <2>1, <2>2, <2>3 DEF GateInv
  <2>4. CASE gate'.phase = "Finished"
    <3>1. FreshGesture'
      BY <2>1, <2>4, FinishedFresh
    <3>2. now' < gate'.deadline
      BY <2>1, FieldsKept DEF Takes
    <3>3. ApprovalIsFresh'
      BY <2>1, <2>2, <2>4, <3>1, <3>2 DEF ApprovalIsFresh, SamplesInOrder
    <3> QED
      BY <2>1, <2>2, <2>4, <3>3 DEF GateInv
  <2> QED
    BY <2>3, <2>4
<1> QED
  BY <1>1, <1>2

\* The invariant of a wait holds throughout, for every debounce, hold, timeout and
\* sequence of samples and instants.
THEOREM GateInvariant == GateSpec => []GateInv
<1>1. GateInv /\ [GateNext]_gate_vars => GateInv'
  <2> SUFFICES ASSUME GateInv, [GateNext]_gate_vars PROVE GateInv'
    OBVIOUS
  <2>1. CASE UNCHANGED gate_vars
    <3>1. gate' = gate /\ now' = now /\ answer' = answer /\ samples' = samples
      BY <2>1 DEF gate_vars
    <3>2. CASE answer = "None"
      <4> PICK t : t = gate.last_poll
        OBVIOUS
      <4>1. t \in Nat /\ gate.last_poll <= t /\ gate' = [gate EXCEPT !.last_poll = t] /\ now' \in Nat
        BY <3>1 DEF GateInv, GateTyped
      <4> QED
        BY <3>1, <3>2, <4>1, WaitGoesOn
    <3>3. CASE answer # "None"
      <4>1. /\ \A i, j, L, x : Run(i, j, L, x)' <=> Run(i, j, L, x)
            /\ \A i : NoUncertain(i)' <=> NoUncertain(i)
        BY <3>1 DEF Run, NoUncertain
      <4>2. FreshGesture' <=> FreshGesture
        BY <3>1, <4>1 DEF FreshGesture
      <4>3. ApprovalIsFresh'
        BY <3>1, <3>3, <4>2 DEF GateInv, ApprovalIsFresh
      <4> QED
        BY <3>1, <3>3, <4>3 DEF GateInv, GateTyped
    <3> QED
      BY <3>2, <3>3
  <2>2. ASSUME NEW cancelled \in BOOLEAN, answer = "None", PollNothing(cancelled) PROVE GateInv'
    BY <2>2, PollNothingStep
  <2>3. ASSUME NEW cancelled \in BOOLEAN, NEW level \in Level, answer = "None",
               Poll(level, cancelled)
        PROVE  GateInv'
    BY <2>3, PollStep
  <2>4. CASE TickForward \/ TickBack
    BY <2>4, TickStep
  <2> QED
    BY <2>1, <2>2, <2>3, <2>4 DEF GateNext
<1> QED
  BY <1>1, GateStarts, PTL DEF GateSpec

\* An approval is a complete fresh gesture of this wait, within its deadline; and
\* a user who made the gesture is not kept waiting (PresenceGate::poll).
THEOREM ApprovalsAreFresh == GateSpec => []ApprovalIsFresh
<1>1. GateInv => ApprovalIsFresh
  BY NotYetFresh DEF GateInv
<1> QED
  BY <1>1, GateInvariant, PTL

=============================================================================
