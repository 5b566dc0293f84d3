--------------------------- MODULE FlashEncryption ---------------------------
(***************************************************************************)
(* The encrypted-flash transport of release builds                         *)
(* (src/src/platform/flash_encryption.rs) and its callers.                 *)
(*                                                                         *)
(* Plaintext is read through DROM windows: the MMU maps a window to a      *)
(* flash page and the cache in front of it keeps lines of what it read.    *)
(* Writes and erases go to the flash behind the cache's back, so the code  *)
(* must invalidate what it changed.  Bytes of an update slot are read      *)
(* through the first slot's descriptor window, which is pointed at the     *)
(* wanted page and back again for every page.                              *)
(*                                                                         *)
(* A page is a sequence of Blocks, the unit of a write, an erase and a     *)
(* cache line.  A window has the name of the page it is fixed to.  The     *)
(* program is single-threaded and no interrupt handler touches the flash:  *)
(* each call is one step, and what a failing call left behind is chosen    *)
(* freely.                                                                 *)
(***************************************************************************)
EXTENDS Integers, FiniteSets

CONSTANTS
    Records,     \* pages read, written and erased through fixed windows
    Descriptors, \* the first page of each update slot; the rest of a slot has no
                 \* window and fares like a page nobody reads through its own
    Temporary,   \* the descriptor window that read_update points elsewhere
    Staging,     \* STAGING_ADDRESS: the descriptor page the importer reads and erases
    Blocks,      \* blocks of a page
    Data         \* what a write may store

Pages == Records \union Descriptors
Blank == "blank"
Contents == Data \union {Blank}
Miss == "miss"
Nowhere == "nowhere"

ASSUME FlashAssumption ==
    /\ {Temporary, Staging} \subseteq Descriptors
    /\ Records \intersect Descriptors = {}
    /\ Blocks # {} /\ IsFiniteSet(Blocks)
    /\ {Blank, Miss} \intersect Data = {}
    /\ Nowhere \notin Pages

VARIABLES
    flash,       \* [Pages -> [Blocks -> Contents]]: the decrypted content
    mmu,         \* [Pages -> Pages \union {Nowhere}]: where a window points
    lines,       \* [Pages -> [Blocks -> Contents \union {Miss}]]: cached lines
    initialized, \* INITIALIZED
    importer,    \* this boot executes the attestation importer
    running,     \* the descriptor page of the slot this boot executes
    pending,     \* the firmware executing has still to confirm the selected record;
                 \* the importer never does
    unsettled    \* blocks a failed write or erase may have left out of step

vars == <<flash, mmu, lines, initialized, importer, running, pending, unsettled>>

TypeOK ==
    /\ flash \in [Pages -> [Blocks -> Contents]]
    /\ mmu \in [Pages -> Pages \union {Nowhere}]
    /\ lines \in [Pages -> [Blocks -> Contents \union {Miss}]]
    /\ initialized \in BOOLEAN
    /\ importer \in BOOLEAN
    /\ running \in Descriptors
    /\ pending \in BOOLEAN
    /\ unsettled \subseteq Pages \X Blocks

(***************************************************************************)
(* The cache and the MMU.                                                  *)
(***************************************************************************)

ColdLines == [w \in Pages |-> [b \in Blocks |-> Miss]]

\* map_drom: disabling the ICache drops every tag; the MMU entry changes only
\* when the ROM call succeeds.  Failing calls are chosen by the caller.
MapDrom(entries, window, page, ok) ==
    IF ok THEN [entries EXCEPT ![window] = page] ELSE entries

\* What the CPU reads at a block of a window: the cached line, or the flash
\* page behind the window, which fills the line.
Fetched(window, b) ==
    IF lines[window][b] # Miss THEN lines[window][b]
    ELSE flash[mmu[window]][b]

\* A line may be evicted, or filled ahead of its use, at any time.
CacheEvict(window, b) ==
    /\ lines[window][b] # Miss
    /\ lines' = [lines EXCEPT ![window][b] = Miss]
    /\ UNCHANGED <<flash, mmu, initialized, importer, running, pending, unsettled>>

CacheFill(window, b) ==
    /\ initialized
    /\ lines[window][b] = Miss
    /\ lines' = [lines EXCEPT ![window][b] = Fetched(window, b)]
    /\ UNCHANGED <<flash, mmu, initialized, importer, running, pending, unsettled>>

(***************************************************************************)
(* initialize: map every region, mark the module ready only when all calls *)
(* succeeded.  A failure leaves the windows mapped so far.                 *)
(***************************************************************************)

Initialize ==
    /\ ~initialized
    /\ \E mapped \in SUBSET Pages :
          /\ mmu' = [w \in Pages |-> IF w \in mapped THEN w ELSE mmu[w]]
          /\ initialized' = (mapped = Pages)
    /\ lines' = ColdLines
    /\ unsettled' = {}
    /\ UNCHANGED <<flash, importer, running, pending>>

(***************************************************************************)
(* read: copy through the fixed window, without remapping.  The store and  *)
(* the boot records are read at any time, an application descriptor by     *)
(* confirm_running_image alone, when the selected record is pending, and   *)
(* the importer reads the identity it imports from the second slot.        *)
(***************************************************************************)

\* The importer reads the identity from the staging page, and at the end erases it.
ImporterPage(page) == importer /\ page = Staging

Readable(page) ==
    /\ initialized
    /\ \/ page \in Records
       \/ pending /\ page \in Descriptors
       \/ ImporterPage(page)

Read(page, range) ==
    /\ Readable(page)
    /\ lines' = [lines EXCEPT ![page] =
                    [b \in Blocks |-> IF b \in range THEN Fetched(page, b) ELSE @[b]]]
    /\ UNCHANGED <<flash, mmu, initialized, importer, running, pending, unsettled>>

\* read_update, one page of it: remap, copy, restore.  The layout checks of
\* its callers demand a confirmed record.  When the first call fails nothing
\* is copied; when the second fails the window stays on the other page and
\* the read is an error.
ReadUpdatePage(page, mapped, restored) ==
    /\ initialized /\ ~importer /\ ~pending
    /\ page \in Descriptors
    /\ LET away == MapDrom(mmu, Temporary, page, mapped)
       IN  mmu' = IF mapped THEN MapDrom(away, Temporary, Temporary, restored) ELSE away
    /\ lines' = ColdLines
    /\ unsettled' = {}
    /\ UNCHANGED <<flash, initialized, importer, running, pending>>

(***************************************************************************)
(* write and erase, and their update variants that do not invalidate.  A   *)
(* write to a block that is not blank leaves anything there.  A call that  *)
(* fails part of the way has done some blocks, left one in any state, and  *)
(* returns before the invalidation.                                        *)
(***************************************************************************)

\* What a block may hold once new was written to it; an erase writes Blank.
Stored(old, new) ==
    IF new = Blank THEN {Blank} ELSE IF old = Blank THEN {new} ELSE Contents

\* The page's contents in which only the blocks of range may have changed.
Leaving(page, range) ==
    {content \in [Blocks -> Contents] :
        \A b \in Blocks \ range : content[b] = flash[page][b]}

\* Mutant: a completed write forgets the lines of the fixed mapping.
InvalidatedNever(page, range) == lines

\* invalidate_physical_range.
Invalidated(page, range) ==
    [lines EXCEPT ![page] = [b \in Blocks |-> IF b \in range THEN Miss ELSE @[b]]]

\* write_inner and erase_inner when every block succeeds.
Complete(page, range, new, invalidate) ==
    /\ \E content \in Leaving(page, range) :
          /\ \A b \in range : content[b] \in Stored(flash[page][b], new)
          /\ flash' = [flash EXCEPT ![page] = content]
    /\ lines' = IF invalidate THEN Invalidated(page, range) ELSE lines
    /\ unsettled' = IF invalidate THEN unsettled \ ({page} \X range) ELSE unsettled
    /\ UNCHANGED <<mmu, initialized, importer, running, pending>>

\* write_inner and erase_inner when a block fails: early return.
Fail(page, range) ==
    /\ \E content \in Leaving(page, range) : flash' = [flash EXCEPT ![page] = content]
    /\ unsettled' = unsettled \union ({page} \X range)
    /\ UNCHANGED <<mmu, lines, initialized, importer, running, pending>>

\* write and erase change the store, the boot records and, in the attestation
\* importer, the sector the identity was read from.
FixedTarget(page) ==
    /\ initialized
    /\ page \in Records \/ ImporterPage(page)

\* write_update and erase_update: the backend of the USB updater reaches only
\* the slot that is not running, and only when the running one is confirmed.
UpdateTarget(page) ==
    /\ initialized /\ ~importer /\ ~pending
    /\ page \in Descriptors \ {running}

Write(page, range, new) == FixedTarget(page) /\ Complete(page, range, new, TRUE)

WriteUpdate(page, range, new) == UpdateTarget(page) /\ Complete(page, range, new, FALSE)

WriteFails(page, range) ==
    /\ FixedTarget(page) \/ UpdateTarget(page)
    /\ Fail(page, range)

\* confirm_running_image has replaced the record: nothing reads a descriptor
\* through its fixed window any more in this boot.
Confirm ==
    /\ initialized /\ pending
    /\ pending' = FALSE
    /\ UNCHANGED <<flash, mmu, lines, initialized, importer, running, unsettled>>

\* Reset or power loss: the flash stays, windows, lines and flags do not.  The
\* bootloader may start the other slot, with another image, and may find an
\* unconfirmed record.
Restart ==
    /\ mmu' = [w \in Pages |-> Nowhere]
    /\ lines' = ColdLines
    /\ initialized' = FALSE
    /\ importer' \in BOOLEAN
    /\ running' \in Descriptors
    /\ pending' \in BOOLEAN /\ (importer' => ~pending')
    /\ unsettled' = {}
    /\ UNCHANGED flash

Init ==
    /\ flash = [p \in Pages |-> [b \in Blocks |-> Blank]]
    /\ mmu = [w \in Pages |-> Nowhere]
    /\ lines = ColdLines
    /\ initialized = FALSE
    /\ importer \in BOOLEAN
    /\ running \in Descriptors
    /\ pending \in BOOLEAN /\ (importer => ~pending)
    /\ unsettled = {}

Ranges == SUBSET Blocks \ {{}}

Next ==
    \/ Initialize \/ Confirm \/ Restart
    \/ \E w \in Pages, b \in Blocks : CacheEvict(w, b) \/ CacheFill(w, b)
    \/ \E p \in Pages, range \in Ranges : Read(p, range)
    \/ \E p \in Pages, mapped, restored \in BOOLEAN : ReadUpdatePage(p, mapped, restored)
    \/ \E p \in Pages, range \in Ranges :
          \/ WriteFails(p, range)
          \/ \E new \in Contents : Write(p, range, new) \/ WriteUpdate(p, range, new)

Spec == Init /\ [][Next]_vars

(***************************************************************************)
(* Properties.                                                             *)
(***************************************************************************)

\* What a read through a fixed window would deliver is what the flash holds,
\* whatever was written, erased or remapped before it in this boot, except in
\* blocks where a write or erase reported an error and nothing has dropped the
\* lines since.  The read-backs of ota.rs, the check of a descriptor before a
\* confirmation, the importer and every littlefs read rest on it.
CoherentReads ==
    \A p \in Pages, b \in Blocks :
        Readable(p) => Fetched(p, b) = flash[p][b] \/ <<p, b>> \in unsettled
=============================================================================
