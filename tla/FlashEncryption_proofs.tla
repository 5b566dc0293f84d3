----------------------- MODULE FlashEncryption_proofs -----------------------
(***************************************************************************)
(* Proofs about FlashEncryption, for every set of pages, blocks and data.  *)
(***************************************************************************)
EXTENDS FlashEncryption, TLAPS

\* The windows that may still be read in this boot: a confirmed boot has read the
\* descriptors for the last time, and only then is a window pointed elsewhere; the
\* importer points none elsewhere.
InUse(p) == p \in Records \/ pending \/ importer

\* Every window points somewhere, those in use at their own page.
WindowsFixed ==
    initialized => /\ mmu \in [Pages -> Pages]
                   /\ \A p \in Pages : InUse(p) \/ p # Temporary => mmu[p] = p

\* A line of a window in use holds what the flash holds, or the code knows that
\* the block is out of step.
LinesCurrent ==
    initialized =>
      \A p \in Pages, b \in Blocks : InUse(p) =>
         lines[p][b] \in {Miss, flash[p][b]} \/ <<p, b>> \in unsettled

\* The inductive invariant.
FlashInv == TypeOK /\ WindowsFixed /\ LinesCurrent

\* A read through a window in use fetches what the flash holds.
LEMMA FetchedCurrent ==
    ASSUME FlashInv, initialized, NEW p \in Pages, NEW b \in Blocks
    PROVE  /\ Fetched(p, b) \in Contents
           /\ InUse(p) => Fetched(p, b) = flash[p][b] \/ <<p, b>> \in unsettled
<1>1. /\ flash \in [Pages -> [Blocks -> Contents]] /\ mmu \in [Pages -> Pages]
      /\ lines \in [Pages -> [Blocks -> Contents \cup {Miss}]]
  BY DEF FlashInv, TypeOK, WindowsFixed
<1>2. flash[p][b] \in Contents /\ flash[mmu[p]][b] \in Contents
  BY <1>1
<1>3. lines[p][b] \in Contents \cup {Miss}
  BY <1>1
<1>4. InUse(p) => mmu[p] = p /\ (lines[p][b] \in {Miss, flash[p][b]} \/ <<p, b>> \in unsettled)
  BY DEF FlashInv, WindowsFixed, LinesCurrent
<1> QED
  BY <1>2, <1>3, <1>4 DEF Fetched

\* After initialize and a restart the cache is empty.
LEMMA ColdType == ColdLines \in [Pages -> [Blocks -> Contents \cup {Miss}]]
                  /\ \A p \in Pages, b \in Blocks : ColdLines[p][b] = Miss
BY DEF ColdLines

\* initialize marks the module ready only with every window in place.
LEMMA InitializeStep ==
    ASSUME FlashInv, Initialize
    PROVE  FlashInv'
<1>1. PICK mapped \in SUBSET Pages :
        /\ mmu' = [w \in Pages |-> IF w \in mapped THEN w ELSE mmu[w]]
        /\ initialized' = (mapped = Pages)
  BY DEF Initialize
<1>2. lines' = ColdLines /\ unsettled' = {} /\ UNCHANGED <<flash, importer, running, pending>>
  BY DEF Initialize
<1>3. initialized' \in BOOLEAN
  BY <1>1
<1>4. mmu' \in [Pages -> Pages \cup {Nowhere}]
  BY <1>1 DEF FlashInv, TypeOK
<1>5. TypeOK'
  BY <1>2, <1>3, <1>4, ColdType DEF FlashInv, TypeOK
<1>6. WindowsFixed'
  <2>1. initialized' => mapped = Pages
    BY <1>1
  <2> QED
    BY <1>1, <2>1 DEF WindowsFixed
<1>7. LinesCurrent'
  BY <1>2, ColdType DEF LinesCurrent
<1> QED
  BY <1>5, <1>6, <1>7 DEF FlashInv

\* Lines that change without a write change to what the flash holds.
LEMMA LinesStep ==
    ASSUME FlashInv, UNCHANGED <<flash, mmu, initialized, importer, running, pending, unsettled>>,
           NEW p \in Pages,
           NEW new \in [Blocks -> Contents \cup {Miss}], lines' = [lines EXCEPT ![p] = new],
           \A b \in Blocks : new[b] \in {Miss, lines[p][b]}
                             \/ (initialized /\ new[b] = Fetched(p, b))
    PROVE  FlashInv'
<1>1. lines \in [Pages -> [Blocks -> Contents \cup {Miss}]]
  BY DEF FlashInv, TypeOK
<1>2. TypeOK'
  BY <1>1 DEF FlashInv, TypeOK
<1>3. WindowsFixed'
  BY DEF FlashInv, WindowsFixed, InUse
<1>4. LinesCurrent'
  <2> SUFFICES ASSUME initialized, NEW q \in Pages, NEW b \in Blocks, InUse(q)
               PROVE  lines'[q][b] \in {Miss, flash[q][b]} \/ <<q, b>> \in unsettled
    BY DEF LinesCurrent, InUse
  <2>1. lines[q][b] \in {Miss, flash[q][b]} \/ <<q, b>> \in unsettled
    BY DEF FlashInv, LinesCurrent
  <2>2. CASE q # p
    BY <1>1, <2>1, <2>2
  <2>3. CASE q = p
    <3>1. lines'[q][b] = new[b]
      BY <1>1, <2>3
    <3>2. Fetched(q, b) = flash[q][b] \/ <<q, b>> \in unsettled
      BY FetchedCurrent
    <3> QED
      BY <2>1, <2>3, <3>1, <3>2
  <2> QED
    BY <2>2, <2>3
<1> QED
  BY <1>2, <1>3, <1>4 DEF FlashInv

\* An eviction forgets one line.
LEMMA EvictStep ==
    ASSUME FlashInv, NEW w \in Pages, NEW b \in Blocks, CacheEvict(w, b)
    PROVE  FlashInv'
<1> DEFINE new == [lines[w] EXCEPT ![b] = Miss]
<1>1. lines \in [Pages -> [Blocks -> Contents \cup {Miss}]]
  BY DEF FlashInv, TypeOK
<1>2. new \in [Blocks -> Contents \cup {Miss}] /\ lines' = [lines EXCEPT ![w] = new]
  BY <1>1 DEF CacheEvict
<1>3. \A c \in Blocks : new[c] \in {Miss, lines[w][c]}
  BY <1>1
<1> HIDE DEF new
<1> QED
  BY <1>2, <1>3, LinesStep DEF CacheEvict

\* A fill takes one line from the page behind the window.
LEMMA FillStep ==
    ASSUME FlashInv, NEW w \in Pages, NEW b \in Blocks, CacheFill(w, b)
    PROVE  FlashInv'
<1> DEFINE new == [lines[w] EXCEPT ![b] = Fetched(w, b)]
<1>1. lines \in [Pages -> [Blocks -> Contents \cup {Miss}]] /\ initialized
  BY DEF FlashInv, TypeOK, CacheFill
<1>2. Fetched(w, b) \in Contents
  BY <1>1, FetchedCurrent
<1>3. new \in [Blocks -> Contents \cup {Miss}] /\ lines' = [lines EXCEPT ![w] = new]
  BY <1>1, <1>2 DEF CacheFill
<1>4. \A c \in Blocks : new[c] = lines[w][c] \/ new[c] = Fetched(w, c)
  BY <1>1
<1> HIDE DEF new
<1>5. UNCHANGED <<flash, mmu, initialized, importer, running, pending, unsettled>>
  BY DEF CacheFill
<1>6. \A c \in Blocks : new[c] \in {Miss, lines[w][c]} \/ (initialized /\ new[c] = Fetched(w, c))
  BY <1>1, <1>4
<1> QED
  BY <1>3, <1>5, <1>6, LinesStep

\* So does a read, for its range.
LEMMA ReadStep ==
    ASSUME FlashInv, NEW p \in Pages, NEW range \in Ranges, Read(p, range)
    PROVE  FlashInv'
<1> DEFINE new == [b \in Blocks |-> IF b \in range THEN Fetched(p, b) ELSE lines[p][b]]
<1>1. lines \in [Pages -> [Blocks -> Contents \cup {Miss}]] /\ initialized
  BY DEF FlashInv, TypeOK, Read, Readable
<1>2. \A b \in Blocks : Fetched(p, b) \in Contents
  BY <1>1, FetchedCurrent
<1>3. new \in [Blocks -> Contents \cup {Miss}]
  BY <1>1, <1>2
<1>4. lines' = [lines EXCEPT ![p] = new]
  BY <1>1 DEF Read
<1>5. \A b \in Blocks : new[b] = lines[p][b] \/ new[b] = Fetched(p, b)
  OBVIOUS
<1> HIDE DEF new
<1> QED
  BY <1>1, <1>3, <1>4, <1>5, LinesStep DEF Read

\* Only the temporary window moves, when it is no longer in use.
LEMMA ReadUpdateStep ==
    ASSUME FlashInv, NEW p \in Pages, NEW mapped \in BOOLEAN, NEW restored \in BOOLEAN,
           ReadUpdatePage(p, mapped, restored)
    PROVE  FlashInv'
<1>1. /\ initialized /\ ~importer /\ ~pending /\ p \in Descriptors
      /\ lines' = ColdLines /\ unsettled' = {}
      /\ UNCHANGED <<flash, initialized, importer, running, pending>>
  BY DEF ReadUpdatePage
<1>2. Temporary \in Pages /\ Temporary \notin Records
  BY FlashAssumption DEF Pages
<1>3. mmu \in [Pages -> Pages] /\ \A q \in Pages : q # Temporary => mmu[q] = q
  BY <1>1 DEF FlashInv, WindowsFixed
<1>4. PICK away \in [Pages -> Pages] :
        /\ \A q \in Pages : q # Temporary => away[q] = q
        /\ mmu' = away \/ mmu' = [away EXCEPT ![Temporary] = Temporary]
  BY <1>2, <1>3 DEF ReadUpdatePage, MapDrom
<1>5. mmu' \in [Pages -> Pages] /\ \A q \in Pages : q # Temporary => mmu'[q] = q
  BY <1>2, <1>4
<1>6. TypeOK'
  BY <1>1, <1>5, ColdType DEF FlashInv, TypeOK
<1>7. WindowsFixed'
  BY <1>1, <1>2, <1>5 DEF WindowsFixed, InUse
<1>8. LinesCurrent'
  BY <1>1, ColdType DEF LinesCurrent
<1> QED
  BY <1>6, <1>7, <1>8 DEF FlashInv

\* A write that changes a page and forgets the lines of what it changed, unless
\* nobody reads them any more or the blocks are noted.
LEMMA FlashStep ==
    ASSUME FlashInv, NEW p \in Pages, NEW range \in Ranges,
           NEW content \in Leaving(p, range), flash' = [flash EXCEPT ![p] = content],
           lines' \in [Pages -> [Blocks -> Contents \cup {Miss}]],
           unsettled' \subseteq Pages \X Blocks,
           \A q \in Pages, b \in Blocks : InUse(q) =>
              IF q = p /\ b \in range
              THEN lines'[q][b] = Miss \/ <<q, b>> \in unsettled'
              ELSE /\ lines'[q][b] = lines[q][b]
                   /\ <<q, b>> \in unsettled => <<q, b>> \in unsettled',
           UNCHANGED <<mmu, initialized, importer, running, pending>>
    PROVE  FlashInv'
<1>1. flash \in [Pages -> [Blocks -> Contents]]
  BY DEF FlashInv, TypeOK
<1>2. /\ content \in [Blocks -> Contents]
      /\ \A b \in Blocks \ range : content[b] = flash[p][b]
  BY DEF Leaving
<1>3. TypeOK'
  BY <1>1, <1>2 DEF FlashInv, TypeOK
<1>4. WindowsFixed'
  BY DEF FlashInv, WindowsFixed, InUse
<1>5. LinesCurrent'
  <2> SUFFICES ASSUME initialized, NEW q \in Pages, NEW b \in Blocks, InUse(q)
               PROVE  lines'[q][b] \in {Miss, flash'[q][b]} \/ <<q, b>> \in unsettled'
    BY DEF LinesCurrent, InUse
  <2>1. lines[q][b] \in {Miss, flash[q][b]} \/ <<q, b>> \in unsettled
    BY DEF FlashInv, LinesCurrent
  <2>2. CASE q = p /\ b \in range
    BY <2>2
  <2>3. CASE ~(q = p /\ b \in range)
    <3>1. flash'[q][b] = flash[q][b]
      BY <1>1, <1>2, <2>3
    <3> QED
      BY <2>1, <2>3, <3>1
  <2> QED
    BY <2>2, <2>3
<1> QED
  BY <1>3, <1>4, <1>5 DEF FlashInv

\* A completed write forgets its lines.
LEMMA WriteStep ==
    ASSUME FlashInv, NEW p \in Pages, NEW range \in Ranges, NEW new \in Contents,
           Write(p, range, new)
    PROVE  FlashInv'
<1>1. PICK content \in Leaving(p, range) : flash' = [flash EXCEPT ![p] = content]
  BY DEF Write, Complete
<1>2. /\ lines' = Invalidated(p, range) /\ unsettled' = unsettled \ ({p} \X range)
      /\ UNCHANGED <<mmu, initialized, importer, running, pending>>
  BY DEF Write, Complete
<1>3. lines \in [Pages -> [Blocks -> Contents \cup {Miss}]] /\ unsettled \subseteq Pages \X Blocks
  BY DEF FlashInv, TypeOK
<1>4. /\ lines' \in [Pages -> [Blocks -> Contents \cup {Miss}]]
      /\ \A q \in Pages, b \in Blocks :
            lines'[q][b] = IF q = p /\ b \in range THEN Miss ELSE lines[q][b]
  BY <1>2, <1>3 DEF Invalidated
<1>5. /\ unsettled' \subseteq Pages \X Blocks
      /\ \A q \in Pages, b \in Blocks :
            ~(q = p /\ b \in range) /\ <<q, b>> \in unsettled => <<q, b>> \in unsettled'
  BY <1>2, <1>3
<1>6. \A q \in Pages, b \in Blocks : InUse(q) =>
         IF q = p /\ b \in range
         THEN lines'[q][b] = Miss \/ <<q, b>> \in unsettled'
         ELSE /\ lines'[q][b] = lines[q][b]
              /\ <<q, b>> \in unsettled => <<q, b>> \in unsettled'
  BY <1>4, <1>5
<1>7. /\ lines' \in [Pages -> [Blocks -> Contents \cup {Miss}]]
      /\ unsettled' \subseteq Pages \X Blocks
      /\ UNCHANGED <<mmu, initialized, importer, running, pending>>
  BY <1>2, <1>4, <1>5
<1> QED
  BY <1>1, <1>6, <1>7, FlashStep

\* The updater writes where nobody reads through a fixed window any more.
LEMMA WriteUpdateStep ==
    ASSUME FlashInv, NEW p \in Pages, NEW range \in Ranges, NEW new \in Contents,
           WriteUpdate(p, range, new)
    PROVE  FlashInv'
<1>1. PICK content \in Leaving(p, range) : flash' = [flash EXCEPT ![p] = content]
  BY DEF WriteUpdate, Complete
<1>2. /\ lines' = lines /\ unsettled' = unsettled /\ ~importer /\ ~pending /\ p \in Descriptors
      /\ UNCHANGED <<mmu, initialized, importer, running, pending>>
  BY DEF WriteUpdate, Complete, UpdateTarget
<1>3. lines \in [Pages -> [Blocks -> Contents \cup {Miss}]] /\ unsettled \subseteq Pages \X Blocks
  BY DEF FlashInv, TypeOK
<1>4. ~InUse(p)
  BY <1>2, FlashAssumption DEF InUse
<1> QED
  BY <1>1, <1>2, <1>3, <1>4, FlashStep

\* A failed write or erase is noted.
LEMMA WriteFailsStep ==
    ASSUME FlashInv, NEW p \in Pages, NEW range \in Ranges, WriteFails(p, range)
    PROVE  FlashInv'
<1>1. PICK content \in Leaving(p, range) : flash' = [flash EXCEPT ![p] = content]
  BY DEF WriteFails, Fail
<1>2. /\ lines' = lines /\ unsettled' = unsettled \cup ({p} \X range)
      /\ UNCHANGED <<mmu, initialized, importer, running, pending>>
  BY DEF WriteFails, Fail
<1>3. lines \in [Pages -> [Blocks -> Contents \cup {Miss}]] /\ unsettled \subseteq Pages \X Blocks
  BY DEF FlashInv, TypeOK
<1>4. range \subseteq Blocks
  BY DEF Ranges
<1>5. /\ unsettled' \subseteq Pages \X Blocks
      /\ \A b \in range : <<p, b>> \in unsettled'
      /\ unsettled \subseteq unsettled'
  BY <1>2, <1>3, <1>4
<1> QED
  BY <1>1, <1>2, <1>3, <1>5, FlashStep

\* The confirmation ends the use of the descriptor windows.
LEMMA ConfirmStep ==
    ASSUME FlashInv, Confirm
    PROVE  FlashInv'
<1>1. /\ initialized /\ pending /\ pending' = FALSE
      /\ UNCHANGED <<flash, mmu, lines, initialized, importer, running, unsettled>>
  BY DEF Confirm
<1>2. TypeOK'
  BY <1>1 DEF FlashInv, TypeOK
<1>3. WindowsFixed' /\ LinesCurrent'
  BY <1>1 DEF FlashInv, WindowsFixed, LinesCurrent, InUse
<1> QED
  BY <1>2, <1>3 DEF FlashInv

\* After a restart nothing is read before initialize.
LEMMA RestartStep ==
    ASSUME FlashInv, Restart
    PROVE  FlashInv'
<1>1. /\ mmu' = [w \in Pages |-> Nowhere] /\ lines' = ColdLines /\ initialized' = FALSE
      /\ importer' \in BOOLEAN /\ running' \in Descriptors /\ pending' \in BOOLEAN
      /\ unsettled' = {} /\ flash' = flash
  BY DEF Restart
<1>2. TypeOK'
  BY <1>1, ColdType DEF FlashInv, TypeOK
<1> QED
  BY <1>1, <1>2 DEF FlashInv, WindowsFixed, LinesCurrent

\* The invariant holds on a blank flash.
LEMMA FlashInit == Init => FlashInv
<1> SUFFICES ASSUME Init PROVE FlashInv
  OBVIOUS
<1>1. TypeOK
  BY ColdType DEF Init, TypeOK, Contents
<1> QED
  BY <1>1 DEF Init, FlashInv, WindowsFixed, LinesCurrent

\* Every step keeps the invariant.
LEMMA FlashNext == FlashInv /\ [Next]_vars => FlashInv'
<1> SUFFICES ASSUME FlashInv, [Next]_vars PROVE FlashInv'
  OBVIOUS
<1>1. CASE Initialize \/ Confirm \/ Restart
  BY <1>1, InitializeStep, ConfirmStep, RestartStep
<1>2. CASE \E w \in Pages, b \in Blocks : CacheEvict(w, b) \/ CacheFill(w, b)
  BY <1>2, EvictStep, FillStep
<1>3. CASE \E p \in Pages, range \in Ranges : Read(p, range)
  BY <1>3, ReadStep
<1>4. CASE \E p \in Pages, mapped, restored \in BOOLEAN : ReadUpdatePage(p, mapped, restored)
  BY <1>4, ReadUpdateStep
<1>5. CASE \E p \in Pages, range \in Ranges :
             \/ WriteFails(p, range)
             \/ \E new \in Contents : Write(p, range, new) \/ WriteUpdate(p, range, new)
  BY <1>5, WriteFailsStep, WriteStep, WriteUpdateStep
<1>6. CASE UNCHANGED vars
  BY <1>6 DEF vars, FlashInv, TypeOK, WindowsFixed, LinesCurrent, InUse
<1> QED
  BY <1>1, <1>2, <1>3, <1>4, <1>5, <1>6 DEF Next

\* The inductive invariant holds in every reachable state.
THEOREM FlashInvariant == Spec => []FlashInv
BY FlashInit, FlashNext, PTL DEF Spec

\* A window is never read while it points at no page, and every line is one the
\* flash could have delivered (map_drom).
THEOREM TypeCorrect == Spec => []TypeOK
BY FlashInvariant, PTL DEF FlashInv

\* A read through a fixed window delivers what the flash holds, except in blocks
\* where a write reported an error (read, invalidate_physical_range).
THEOREM ReadsAreCoherent == Spec => []CoherentReads
<1>1. FlashInv => CoherentReads
  BY FetchedCurrent DEF CoherentReads, Readable, ImporterPage, InUse
<1> QED
  BY <1>1, FlashInvariant, PTL
=============================================================================
