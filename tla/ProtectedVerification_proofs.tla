-------------------- MODULE ProtectedVerification_proofs --------------------
(***************************************************************************)
(* Proofs about SignedImage and MemoryProtection as ProtectedVerification  *)
(* composes them, for every word, slot and sector size, every number of    *)
(* segments, every set of buses and every choice of registers that ignore  *)
(* writes.                                                                 *)
(***************************************************************************)
EXTENDS ProtectedVerification, TLAPS

(***************************************************************************)
(* The walk over an image.                                                 *)
(***************************************************************************)

\* The highest end of the segments that leaves room for trailer and signature.
Limit == SlotSize - Sector - (Padding + Digest)

\* The walk has lost no byte to machine arithmetic; from the hash on, signed is
\* the sector boundary after everything walked and its trailer, and what was
\* hashed is a prefix of it, all of it once the loop has ended.
WalkInv ==
    /\ phase \in {"prefix", "segments", "hash", "signature", "rsa", "accepted", "rejected"}
    /\ segments \in 0..Segments /\ first \in BOOLEAN
    /\ position \in 0..Limit /\ walked = position
    /\ signed \in 0..SlotSize /\ hashed \in 0..signed
    /\ phase \in {"prefix", "segments"} => signed = 0
    /\ phase \in {"hash", "signature", "rsa", "accepted"} =>
          /\ signed % Sector = 0
          /\ walked + 1 + Digest <= signed
          /\ signed + Sector <= SlotSize
    /\ phase \in {"signature", "rsa", "accepted"} => hashed = signed

\* The constants are numbers and the slot holds a trailer and a signature.
LEMMA Sizes ==
    /\ Word \in Nat /\ SlotSize \in Nat /\ Sector \in Nat /\ Padding \in Nat /\ Digest \in Nat
    /\ Chunk \in Nat /\ Segments \in Nat /\ ImageHeader \in Nat /\ SegmentHeader \in Nat
    /\ Word > 0 /\ Sector > 0 /\ Padding > 0 /\ Digest > 0 /\ Chunk > 0 /\ Segments > 0
    /\ SlotSize + Sector < Word /\ ImageHeader <= Limit /\ Limit \in Nat /\ Limit <= SlotSize
BY ImageAssumption DEF Limit

\* Rounding down to a multiple loses less than the unit and gives a multiple.
LEMMA RoundDown ==
    ASSUME NEW a \in Nat, NEW n \in Nat, n > 0
    PROVE  /\ a % n \in Nat /\ a % n < n /\ a % n <= a
           /\ (a - (a % n)) % n = 0
<1>1. a % n \in 0..n - 1
  OBVIOUS
<1>2. a = n * (a \div n) + (a % n) /\ a \div n \in Nat
  OBVIOUS
<1>3. a % n <= a
  BY <1>1, <1>2
<1>4. a - (a % n) = n * (a \div n)
  BY <1>1, <1>2
<1>5. \A q \in Nat : (n * q) % n = 0
  OBVIOUS
<1>6. (n * (a \div n)) % n = 0
  BY <1>2, <1>5, Zenon
<1>7. (a - (a % n)) % n = 0
  BY <1>4, <1>6, Zenon
<1> QED
  BY <1>1, <1>3, <1>7

\* A rejected image.
LEMMA RejectStep ==
    ASSUME WalkInv, Reject
    PROVE  WalkInv'
BY DEF WalkInv, Reject

\* An accepted segment ends where the exact sum says.
LEMMA ReadSegmentStep ==
    ASSUME WalkInv, NEW length \in 0..(Word - 1), ReadSegment(length)
    PROVE  WalkInv'
<1>1. CASE Reject
  BY <1>1, RejectStep
<1>2. CASE ~Reject
  <2>1. /\ phase = "segments" /\ segments > 0
        /\ NextPosition(length) # None /\ position' = NextPosition(length)
        /\ walked' = walked + SegmentHeader + length
        /\ segments' = segments - 1 /\ first' = FALSE
        /\ UNCHANGED <<phase, signed, hashed>>
    BY <1>2 DEF ReadSegment
  <2>2. position \in Nat /\ walked = position /\ length \in Nat
    BY Sizes DEF WalkInv
  <2>3. NextPosition(length) = position + SegmentHeader + length
    BY <2>1, <2>2, Sizes DEF NextPosition, AtMost, CheckedAdd, None
  <2>4. NextPosition(length) <= Limit
    BY <2>1, <2>2, Sizes DEF NextPosition, AtMost, Limit, None
  <2>5. position' \in 0..Limit /\ walked' = position'
    BY <2>1, <2>2, <2>3, <2>4, Sizes
  <2>6. segments' \in 0..Segments
    BY <2>1, Sizes DEF WalkInv
  <2> QED
    BY <2>1, <2>5, <2>6 DEF WalkInv
<1> QED
  BY <1>1, <1>2

\* The signature sector comes after the checksum and the hash of the last segment.
LEMMA LocateSignatureStep ==
    ASSUME WalkInv, LocateSignature
    PROVE  WalkInv'
<1>1. CASE Reject
  BY <1>1, RejectStep
<1>2. CASE ~Reject
  <2> DEFINE end == position - (position % Padding) + Padding + Digest
             raised == end + (Sector - 1)
             offset == raised - (raised % Sector)
  <2>1. /\ phase = "segments" /\ TrailerEnd # None /\ SignatureOffset # None
        /\ signed' = SignatureOffset /\ phase' = "hash"
        /\ UNCHANGED <<segments, first, position, walked, hashed>>
    BY <1>2 DEF LocateSignature
  <2>2. position \in Nat /\ walked = position /\ hashed = 0
    BY <2>1, Sizes DEF WalkInv
  <2>3. position % Padding \in Nat /\ position % Padding < Padding /\ position % Padding <= position
    BY <2>2, Sizes, RoundDown
  <2>4. end \in Nat /\ position + 1 + Digest <= end
    BY <2>2, <2>3, Sizes
  <2>5. TrailerEnd = end
    <3>1. position - (position % Padding) + Padding - 1 \in Nat
      BY <2>2, <2>3, Sizes
    <3> QED
      BY <2>1, <2>2, <2>3, <3>1, Sizes DEF TrailerEnd, CheckedAdd, None
  <2> HIDE DEF end
  <2>6. raised \in Nat
    BY <2>4, Sizes
  <2>7. /\ raised % Sector \in Nat /\ raised % Sector < Sector /\ raised % Sector <= raised
        /\ offset % Sector = 0
    BY <2>6, Sizes, RoundDown
  <2>8. CheckedAdd(TrailerEnd, Sector - 1) = raised
    <3>1. SignatureOffset # None => CheckedAdd(TrailerEnd, Sector - 1) # None
      BY DEF SignatureOffset
    <3> QED
      BY <2>1, <2>5, <3>1 DEF CheckedAdd
  <2>9. offset \in Nat /\ offset >= end
    BY <2>4, <2>6, <2>7, Sizes
  <2>10. SignatureOffset = offset /\ offset <= SlotSize - Sector
    BY <2>1, <2>8, <2>9, Sizes DEF SignatureOffset, AtMost
  <2> HIDE DEF offset
  <2>11. signed' \in 0..SlotSize /\ signed' + Sector <= SlotSize /\ signed' >= end
    BY <2>1, <2>9, <2>10, Sizes
  <2>12. walked' + 1 + Digest <= signed'
    BY <2>1, <2>2, <2>4, <2>11, Sizes
  <2>13. signed' % Sector = 0
    BY <2>1, <2>7, <2>10
  <2>14. hashed' \in 0..signed'
    BY <2>1, <2>2, <2>11
  <2> QED
    BY <2>1, <2>11, <2>12, <2>13, <2>14 DEF WalkInv
<1> QED
  BY <1>1, <1>2

\* The hash never runs past the signature.
LEMMA HashChunkStep ==
    ASSUME WalkInv, HashChunk
    PROVE  WalkInv'
<1>1. CASE Reject
  BY <1>1, RejectStep
<1>2. CASE ~Reject
  <2>1. /\ phase = "hash" /\ hashed < signed
        /\ hashed' = hashed + IF signed - hashed < Chunk THEN signed - hashed ELSE Chunk
        /\ UNCHANGED <<phase, segments, first, position, walked, signed>>
    BY <1>2 DEF HashChunk
  <2>2. hashed' \in 0..signed
    BY <2>1, Sizes DEF WalkInv
  <2> QED
    BY <2>1, <2>2 DEF WalkInv
<1> QED
  BY <1>1, <1>2

\* A call starts from nothing.
LEMMA CallStep ==
    ASSUME Call
    PROVE  WalkInv'
BY Sizes DEF Call, WalkInv

\* Every step of a verification keeps the invariant.
LEMMA WalkNext ==
    ASSUME WalkInv, Next
    PROVE  WalkInv'
<1>1. CASE ReadPrefix
  BY <1>1, RejectStep DEF ReadPrefix, WalkInv
<1>2. CASE \E length \in 0..(Word - 1) : ReadSegment(length)
  BY <1>2, ReadSegmentStep
<1>3. CASE LocateSignature
  BY <1>3, LocateSignatureStep
<1>4. CASE HashChunk
  BY <1>4, HashChunkStep
<1>5. CASE FinishHash
  BY <1>5 DEF FinishHash, WalkInv
<1>6. CASE ParseSignature
  BY <1>6, RejectStep DEF ParseSignature, WalkInv
<1>7. CASE VerifyRsa
  BY <1>7, RejectStep DEF VerifyRsa, WalkInv
<1>8. CASE NextCall
  BY <1>8, CallStep DEF NextCall
<1> QED
  BY <1>1, <1>2, <1>3, <1>4, <1>5, <1>6, <1>7, <1>8 DEF Next

(***************************************************************************)
(* The permission policy.                                                  *)
(***************************************************************************)

\* configure runs with every bus unlocked until the whole policy has been read
\* back, and locks only then.
PolicyInv ==
    /\ Memory!TypeOK
    /\ stage \in {"clear", "permit", "watch", "check", "lock", "recheck"} => ~inherited
    /\ stage \in {"clear", "permit", "watch", "check"} => \A b \in Buses : ~lock[b]
    /\ stage \in {"lock", "recheck"} => \A b \in Buses : permission[b]
    /\ ProtectedOrStopped

\* A monitor register stays one.
LEMMA MonitorBits ==
    ASSUME NEW old \in 0..7, NEW bits \in {0, 1, 2}
    PROVE  Memory!Monitored(old, bits) \in 0..7
BY DEF Memory!Monitored, Memory!Clear, Memory!Latched

\* What every loop of configure does to the loop's own state.
LEMMA VisitStep ==
    ASSUME PolicyInv, NEW from, NEW to, NEW b \in Buses, Memory!Visit(from, to, b)
    PROVE  stage = from /\ stage' \in {from, to} /\ left' \subseteq Buses
BY DEF PolicyInv, Memory!TypeOK, Memory!Visit

\* A start, with the locks an earlier stage left.
LEMMA StartStep ==
    ASSUME PolicyInv, Memory!Start
    PROVE  PolicyInv'
<1>1. /\ stage = "start" /\ left' = Buses
      /\ inherited' = (\E b \in Buses : lock[b])
      /\ stage' = IF ~inherited' THEN "clear"
                  ELSE IF Memory!InheritedIsSafe THEN "running" ELSE "refused"
      /\ UNCHANGED <<permission, monitor, lock, stuck>>
  BY DEF Memory!Start
<1>2. inherited' \in BOOLEAN
  BY <1>1, Zenon
<1>3. CASE ~inherited'
  <2>1. stage' = "clear" /\ \A b \in Buses : ~lock[b]
    BY <1>1, <1>3, Zenon
  <2>2. Memory!TypeOK'
    BY <1>1, <1>2, <2>1 DEF PolicyInv, Memory!TypeOK, Memory!Phases
  <2> QED
    BY <1>1, <1>3, <2>1, <2>2 DEF PolicyInv, ProtectedOrStopped, Memory!ProtectedOrStopped
<1>4. CASE inherited' /\ Memory!InheritedIsSafe
  <2>1. stage' = "running"
    BY <1>1, <1>4, Zenon
  <2>2. Memory!TypeOK'
    BY <1>1, <1>2, <2>1 DEF PolicyInv, Memory!TypeOK, Memory!Phases
  <2>3. ProtectedOrStopped'
    BY <1>1, <1>4, <2>1 DEF ProtectedOrStopped, Memory!ProtectedOrStopped,
       Memory!InheritedIsSafe, Memory!MatchesPolicy, Memory!Enable
  <2> QED
    BY <2>1, <2>2, <2>3 DEF PolicyInv
<1>5. CASE inherited' /\ ~Memory!InheritedIsSafe
  <2>1. stage' = "refused"
    BY <1>1, <1>5, Zenon
  <2>2. Memory!TypeOK'
    BY <1>1, <1>2, <2>1 DEF PolicyInv, Memory!TypeOK, Memory!Phases
  <2> QED
    BY <1>5, <2>1, <2>2 DEF PolicyInv, ProtectedOrStopped, Memory!ProtectedOrStopped
<1> QED
  BY <1>3, <1>4, <1>5

\* A monitor is cleared before its permissions change.
LEMMA ClearMonitorStep ==
    ASSUME PolicyInv, NEW b \in Buses, Memory!ClearMonitor(b)
    PROVE  PolicyInv'
<1>1. stage = "clear" /\ stage' \in {"clear", "permit"} /\ left' \subseteq Buses
  BY VisitStep DEF Memory!ClearMonitor
<1>2. UNCHANGED <<permission, lock, inherited, stuck>>
  BY DEF Memory!ClearMonitor
<1>3. monitor' \in [Buses -> 0..7]
  <2>1. monitor[b] \in 0..7 /\ monitor \in [Buses -> 0..7]
    BY DEF PolicyInv, Memory!TypeOK
  <2>2. Memory!Monitored(Memory!Monitored(monitor[b], Memory!Clear), 0) \in 0..7
    BY <2>1, MonitorBits DEF Memory!Clear
  <2> QED
    BY <2>1, <2>2 DEF Memory!ClearMonitor
<1>4. Memory!TypeOK'
  BY <1>1, <1>2, <1>3 DEF PolicyInv, Memory!TypeOK, Memory!Phases
<1> QED
  BY <1>1, <1>2, <1>4 DEF PolicyInv, ProtectedOrStopped, Memory!ProtectedOrStopped

\* A permission register takes the policy, or ignores the write.
LEMMA InstallPermissionStep ==
    ASSUME PolicyInv, NEW b \in Buses, Memory!InstallPermission(b)
    PROVE  PolicyInv'
<1>1. stage = "permit" /\ stage' \in {"permit", "watch"} /\ left' \subseteq Buses
  BY VisitStep DEF Memory!InstallPermission
<1>2. UNCHANGED <<monitor, lock, inherited, stuck>>
  BY DEF Memory!InstallPermission
<1>3. permission' \in [Buses -> BOOLEAN]
  BY DEF PolicyInv, Memory!TypeOK, Memory!InstallPermission
<1>4. Memory!TypeOK'
  BY <1>1, <1>2, <1>3 DEF PolicyInv, Memory!TypeOK, Memory!Phases
<1> QED
  BY <1>1, <1>2, <1>4 DEF PolicyInv, ProtectedOrStopped, Memory!ProtectedOrStopped

\* A monitor is enabled over the installed permissions.
LEMMA EnableMonitorStep ==
    ASSUME PolicyInv, NEW b \in Buses, Memory!EnableMonitor(b)
    PROVE  PolicyInv'
<1>1. stage = "watch" /\ stage' \in {"watch", "check"} /\ left' \subseteq Buses
  BY VisitStep DEF Memory!EnableMonitor
<1>2. UNCHANGED <<permission, lock, inherited, stuck>>
  BY DEF Memory!EnableMonitor
<1>3. monitor' \in [Buses -> 0..7]
  <2>1. monitor[b] \in 0..7 /\ monitor \in [Buses -> 0..7]
    BY DEF PolicyInv, Memory!TypeOK
  <2>2. Memory!Monitored(monitor[b], Memory!Enable) \in 0..7
    BY <2>1, MonitorBits DEF Memory!Enable
  <2> QED
    BY <2>1, <2>2 DEF Memory!EnableMonitor, Memory!ReplaceMonitor
<1>4. Memory!TypeOK'
  BY <1>1, <1>2, <1>3 DEF PolicyInv, Memory!TypeOK, Memory!Phases
<1> QED
  BY <1>1, <1>2, <1>4 DEF PolicyInv, ProtectedOrStopped, Memory!ProtectedOrStopped

\* The readback before the locks.
LEMMA CheckStep ==
    ASSUME PolicyInv, Memory!Check
    PROVE  PolicyInv'
<1>1. /\ stage = "check" /\ UNCHANGED <<left, permission, monitor, lock, inherited, stuck>>
      /\ stage' = IF Memory!MatchesPolicy THEN "lock" ELSE "refused"
  BY DEF Memory!Check
<1>2. Memory!TypeOK'
  BY <1>1 DEF PolicyInv, Memory!TypeOK, Memory!Phases
<1>3. stage' = "lock" => \A b \in Buses : permission[b]
  BY <1>1 DEF Memory!MatchesPolicy
<1>4. stage' \in {"lock", "refused"}
  BY <1>1
<1> QED
  BY <1>1, <1>2, <1>3, <1>4 DEF PolicyInv, ProtectedOrStopped, Memory!ProtectedOrStopped

\* A lock is set, or ignores the write.
LEMMA SetLockStep ==
    ASSUME PolicyInv, NEW b \in Buses, Memory!SetLock(b)
    PROVE  PolicyInv'
<1>1. stage = "lock" /\ stage' \in {"lock", "recheck"} /\ left' \subseteq Buses
  BY VisitStep DEF Memory!SetLock
<1>2. UNCHANGED <<permission, monitor, inherited, stuck>>
  BY DEF Memory!SetLock
<1>3. lock' \in [Buses -> BOOLEAN]
  BY DEF PolicyInv, Memory!TypeOK, Memory!SetLock
<1>4. Memory!TypeOK'
  BY <1>1, <1>2, <1>3 DEF PolicyInv, Memory!TypeOK, Memory!Phases
<1> QED
  BY <1>1, <1>2, <1>4 DEF PolicyInv, ProtectedOrStopped, Memory!ProtectedOrStopped

\* The readback after the locks decides whether the firmware runs.
LEMMA RecheckStep ==
    ASSUME PolicyInv, Memory!Recheck
    PROVE  PolicyInv'
<1>1. /\ stage = "recheck" /\ UNCHANGED <<left, permission, monitor, lock, inherited, stuck>>
      /\ stage' = IF (\A b \in Buses : lock[b]) /\ Memory!MatchesPolicy
                  THEN "running" ELSE "refused"
  BY DEF Memory!Recheck
<1>2. Memory!TypeOK'
  BY <1>1 DEF PolicyInv, Memory!TypeOK, Memory!Phases
<1>3. /\ stage' \in {"running", "refused"}
      /\ stage' = "running" => \A b \in Buses : lock[b] /\ permission[b] /\ monitor[b] = 2
  BY <1>1 DEF Memory!MatchesPolicy, Memory!Enable
<1> QED
  BY <1>1, <1>2, <1>3
  DEF PolicyInv, ProtectedOrStopped, Memory!ProtectedOrStopped, Memory!Enable

\* A memory fault is latched.
LEMMA FaultStep ==
    ASSUME PolicyInv, NEW b \in Buses, Memory!Fault(b)
    PROVE  PolicyInv'
<1>1. /\ monitor[b] \in {2, 3} /\ monitor' = [monitor EXCEPT ![b] = monitor[b] + 4]
      /\ UNCHANGED <<stage, left, permission, lock, inherited, stuck>>
  BY DEF Memory!Fault, Memory!Enable, Memory!Clear, Memory!Latched
<1>2. monitor \in [Buses -> 0..7]
  BY DEF PolicyInv, Memory!TypeOK
<1>3. /\ monitor' \in [Buses -> 0..7]
      /\ \A c \in Buses : monitor'[c] = IF c = b THEN monitor[b] + 4 ELSE monitor[c]
  BY <1>1, <1>2
<1>4. Memory!TypeOK'
  BY <1>1, <1>3 DEF PolicyInv, Memory!TypeOK
<1>5. ProtectedOrStopped'
  BY <1>1, <1>3
  DEF PolicyInv, ProtectedOrStopped, Memory!ProtectedOrStopped, Memory!Enable, Memory!Latched
<1> QED
  BY <1>1, <1>4, <1>5 DEF PolicyInv

\* The fault handler stops the firmware.
LEMMA HandleStep ==
    ASSUME PolicyInv, Memory!Handle
    PROVE  PolicyInv'
<1>1. /\ stage = "running" /\ stage' = "halted"
      /\ UNCHANGED <<left, permission, monitor, lock, inherited, stuck>>
  BY DEF Memory!Handle
<1>2. Memory!TypeOK'
  BY <1>1 DEF PolicyInv, Memory!TypeOK, Memory!Phases
<1> QED
  BY <1>1, <1>2 DEF PolicyInv, ProtectedOrStopped, Memory!ProtectedOrStopped

\* A restart.
LEMMA RestartStep ==
    ASSUME PolicyInv, Memory!Restart
    PROVE  PolicyInv'
<1>1. /\ stage' = "start" /\ left' = Buses /\ lock' = [b \in Buses |-> FALSE]
      /\ inherited' = FALSE /\ UNCHANGED <<permission, monitor, stuck>>
  BY DEF Memory!Restart
<1>2. Memory!TypeOK'
  BY <1>1 DEF PolicyInv, Memory!TypeOK, Memory!Phases
<1> QED
  BY <1>1, <1>2 DEF PolicyInv, ProtectedOrStopped, Memory!ProtectedOrStopped

(***************************************************************************)
(* The composition.                                                        *)
(***************************************************************************)

\* Both invariants hold from reset on, whatever the registers hold.
LEMMA ProtectedStart == ProtectedInit => WalkInv /\ PolicyInv
<1> SUFFICES ASSUME ProtectedInit PROVE WalkInv /\ PolicyInv
  OBVIOUS
<1>1. WalkInv
  BY Sizes DEF ProtectedInit, Init, WalkInv
<1>2. Memory!TypeOK
  BY DEF ProtectedInit, Memory!Init, Memory!TypeOK, Memory!Phases
<1>3. PolicyInv
  BY <1>2 DEF ProtectedInit, Memory!Init, PolicyInv, ProtectedOrStopped, Memory!ProtectedOrStopped
<1> QED
  BY <1>1, <1>3

\* Each part leaves the other's state alone; a restart resets both.
LEMMA ProtectedStep ==
    WalkInv /\ PolicyInv /\ [ProtectedNext]_<<vars, memory>> => WalkInv' /\ PolicyInv'
<1> SUFFICES ASSUME WalkInv, PolicyInv, [ProtectedNext]_<<vars, memory>>
             PROVE  WalkInv' /\ PolicyInv'
  OBVIOUS
<1>1. ASSUME UNCHANGED vars PROVE WalkInv'
  BY <1>1 DEF vars, WalkInv
<1>2. ASSUME UNCHANGED memory PROVE PolicyInv'
  BY <1>2 DEF memory, PolicyInv, Memory!TypeOK, ProtectedOrStopped, Memory!ProtectedOrStopped
<1>3. CASE Verify
  BY <1>2, <1>3, WalkNext DEF Verify
<1>4. CASE Protect
  <2>1. Memory!Step
    BY <1>4 DEF Protect
  <2>2. PolicyInv'
    BY <2>1, StartStep, CheckStep, RecheckStep, HandleStep, ClearMonitorStep,
       InstallPermissionStep, EnableMonitorStep, SetLockStep, FaultStep DEF Memory!Step
  <2> QED
    BY <1>1, <1>4, <2>2 DEF Protect
<1>5. CASE Restart
  BY <1>5, CallStep, RestartStep DEF Restart
<1>6. CASE UNCHANGED <<vars, memory>>
  BY <1>1, <1>2, <1>6
<1> QED
  BY <1>3, <1>4, <1>5, <1>6 DEF ProtectedNext

\* Both inductive invariants hold in every reachable state.
THEOREM ProtectedInvariant == ProtectedSpec => [](WalkInv /\ PolicyInv)
BY ProtectedStart, ProtectedStep, PTL DEF ProtectedSpec

\* For every size of words, slots and sectors: what an accepted image's signature
\* covers is the whole of what was walked, whatever lengths the segment headers
\* announce (verify_installed_slot).
THEOREM WholeImageIsSigned == ProtectedSpec => []SignedWholeImage
<1>1. WalkInv /\ PolicyInv => SignedWholeImage
  BY DEF WalkInv, SignedWholeImage
<1> QED
  BY <1>1, ProtectedInvariant, PTL

\* The firmware runs only under the whole policy, watched and locked, and locks
\* no bus whose policy is not in force (configure).
THEOREM ProtectedIsRunning == ProtectedSpec => []ProtectedOrStopped
<1>1. WalkInv /\ PolicyInv => ProtectedOrStopped
  BY DEF PolicyInv
<1> QED
  BY <1>1, ProtectedInvariant, PTL
=============================================================================
