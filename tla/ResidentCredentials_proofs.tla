-------------------- MODULE ResidentCredentials_proofs --------------------
(***************************************************************************)
(* Proofs about ResidentCredentials, for every set of users and            *)
(* credentials and every capacity.                                         *)
(***************************************************************************)
EXTENDS ResidentCredentials, TLAPS

\* The steps of recovery, of a creation before it commits, and of reset.
Recovering == {"publish", "removeOld", "deleteOldKey", "removeJournal"}
Making == {"lookup", "write", "stage", "stageJournal", "commit"}
Replacing == {"stage", "stageJournal", "commit"}
Resetting == {"resetRecords", "resetStage", "resetJournalStage", "resetJournal", "resetDone"}

Pcs == {"idle", "run", "discard", "deleteKey"} \cup Recovering \cup Making \cup Resetting

Ops == [pc : Pcs, make : BOOLEAN, user : Users \cup {NoFile},
        new : Creds \cup {NoFile}, old : Creds \cup {NoFile}]

Typed ==
    /\ disk \in Disk /\ op \in Ops /\ latched \in BOOLEAN
    /\ current \in [Users -> Creds \cup {NoFile}]
    /\ retired \in SUBSET Creds

\* Recovery runs on a journal, everything else that is served without one.
JournalFirst ==
    /\ op.pc \in Recovering => disk.journal # NoFile
    /\ op.pc \notin Recovering \cup {"idle"} => disk.journal = NoFile

\* A user has one readable record; while a journal is there, also the new one in
\* place of the old one, once it is published.
OneRecord ==
    /\ \A c, d \in Creds : Readable(c) /\ disk.rk[c] = disk.rk[d] /\ c # d =>
          /\ disk.journal # NoFile
          /\ c \in {disk.journal.old, disk.journal.new}
          /\ d \in {disk.journal.old, disk.journal.new}
    /\ disk.journal # NoFile /\ disk.stage # NoFile =>
          /\ disk.rk[disk.journal.new] = NoFile
          /\ \A c \in Creds : disk.rk[c] = disk.stage.user => c = disk.journal.old

\* The authoritative credential has its key; its record is published, or staged
\* for its user under the journal; the journal retires another one.
Backed ==
    \A u \in Users : current[u] # NoFile =>
        /\ current[u] \in disk.keys
        /\ \/ disk.rk[current[u]] = u
           \/ /\ disk.journal # NoFile /\ disk.journal.new = current[u]
              /\ disk.stage = [cred |-> current[u], user |-> u]
        /\ disk.journal # NoFile => current[u] # disk.journal.old

\* How far recovery has come.
Recovered ==
    /\ op.pc \in Recovering \ {"publish"} => disk.stage = NoFile
    /\ op.pc \in {"deleteOldKey", "removeJournal"} => disk.rk[disk.journal.old] = NoFile
    /\ op.pc = "removeJournal" => disk.journal.old \notin disk.keys

\* A credential in the making has its key and is not anybody's yet.
InTheMaking ==
    /\ op.pc \in Making => /\ op.user \in Users /\ op.new \in disk.keys
                           /\ disk.rk[op.new] = NoFile
    /\ op.pc \in Making \cup {"discard"} =>
          op.new \in Creds /\ \A u \in Users : current[u] # op.new
    /\ op.pc \in Replacing => op.old \in Creds /\ disk.rk[op.old] = op.user
    /\ op.pc = "write" => \A c \in Creds : disk.rk[c] # op.user

\* The files of a replacement, before the rename.
Staged ==
    /\ op.pc \in {"stageJournal", "commit"} => disk.stage = [cred |-> op.new, user |-> op.user]
    /\ op.pc = "commit" => disk.journalStage = [old |-> op.old, new |-> op.new]

\* What a deletion and a reset take is nobody's any more.
Taken ==
    /\ op.pc = "deleteKey" => op.old \in Creds /\ \A u \in Users : current[u] # op.old
    /\ op.pc \in Resetting => disk.keys = {} /\ \A u \in Users : current[u] = NoFile

\* The key of what was reported as gone is gone.
KeysGone == retired \cap disk.keys = {}

\* The inductive invariant of records and keys.
CredInv ==
    /\ Typed /\ JournalFirst /\ OneRecord /\ Backed /\ Recovered /\ InTheMaking
    /\ Staged /\ Taken /\ JournalReplayable /\ KeysGone

-----------------------------------------------------------------------------
(* Records of the model. *)

\* The command after a failure, an answer or a restart.
LEMMA IdleFields == Idle \in Ops /\ Idle.pc = "idle"
BY DEF Idle, Ops, Pcs

\* The next step of a command.
LEMMA GotoFields ==
    ASSUME op \in Ops, NEW p \in Pcs
    PROVE  /\ Goto(p) \in Ops /\ Goto(p).pc = p /\ Goto(p).make = op.make
           /\ Goto(p).user = op.user /\ Goto(p).new = op.new /\ Goto(p).old = op.old
BY DEF Goto, Ops

\* The parts of storage.
LEMMA DiskFields ==
    ASSUME NEW d \in Disk
    PROVE  /\ d.rk \in [Creds -> Users \cup {NoFile, Empty}]
           /\ d.stage \in Record \cup {NoFile, Empty}
           /\ d.journalStage \in ResidentReplacement \cup {NoFile, Empty}
           /\ d.journal \in ResidentReplacement \cup {NoFile, Empty}
           /\ d.keys \in SUBSET Creds
BY DEF Disk

\* Writing or removing one record.
LEMMA WithRk ==
    ASSUME NEW d \in Disk, NEW c \in Creds, NEW v \in Users \cup {NoFile, Empty}
    PROVE  LET e == [d EXCEPT !.rk[c] = v]
           IN  /\ e \in Disk /\ e.rk = [d.rk EXCEPT ![c] = v]
               /\ e.stage = d.stage /\ e.journalStage = d.journalStage
               /\ e.journal = d.journal /\ e.keys = d.keys
BY DEF Disk

\* Creating or deleting keys.
LEMMA WithKeys ==
    ASSUME NEW d \in Disk, NEW k \in SUBSET Creds
    PROVE  LET e == [d EXCEPT !.keys = k]
           IN  /\ e \in Disk /\ e.keys = k
               /\ e.rk = d.rk /\ e.stage = d.stage /\ e.journalStage = d.journalStage
               /\ e.journal = d.journal
BY DEF Disk

\* A command that has ended constrains nothing.
LEMMA Ended ==
    ASSUME op' = Idle
    PROVE  op' \in Ops /\ JournalFirst' /\ Recovered' /\ InTheMaking' /\ Staged' /\ Taken'
<1>1. op'.pc = "idle" /\ op' \in Ops
  BY IdleFields
<1> QED
  BY <1>1 DEF JournalFirst, Recovered, InTheMaking, Staged, Taken,
              Recovering, Making, Replacing, Resetting

\* Where storage and the history stay, so does what relates them.
LEMMA SameDisk ==
    ASSUME CredInv, UNCHANGED <<disk, current, retired>>
    PROVE  OneRecord' /\ Backed' /\ JournalReplayable' /\ KeysGone'
<1> USE DEF CredInv
<1>1. OneRecord'
  BY DEF OneRecord, Readable
<1>2. Backed'
  BY DEF Backed
<1>3. JournalReplayable' /\ KeysGone'
  BY DEF JournalReplayable, Pending, Readable, KeysGone
<1> QED
  BY <1>1, <1>2, <1>3

\* A journal on storage names two credentials, and a staged record is for the new
\* one.
LEMMA JournalContent ==
    ASSUME CredInv, disk.journal # NoFile
    PROVE  /\ disk.journal.old \in Creds /\ disk.journal.new \in Creds
           /\ disk.journal # Empty /\ disk.journal.old # disk.journal.new
           /\ \/ disk.stage = NoFile /\ Readable(disk.journal.new)
              \/ /\ disk.stage \notin {NoFile, Empty} /\ disk.stage.user \in Users
                 /\ disk.stage.cred = disk.journal.new
<1>1. disk.journal \in ResidentReplacement /\ disk.journal.old # disk.journal.new
  BY DEF CredInv, JournalReplayable
<1>2. CASE disk.stage = NoFile
  BY <1>1, <1>2, FileAssumption DEF CredInv, JournalReplayable, ResidentReplacement
<1>3. CASE disk.stage # NoFile
  <2>1. disk.stage \in Record /\ disk.stage.cred = disk.journal.new
    BY <1>3 DEF CredInv, JournalReplayable, Pending
  <2> QED
    BY <1>1, <2>1, FileAssumption DEF Record, ResidentReplacement
<1> QED
  BY <1>2, <1>3

-----------------------------------------------------------------------------
(* Recovery. *)

\* Recovery or the command itself begins.
LEMMA DispatchStep ==
    ASSUME CredInv, Dispatch
    PROVE  CredInv'
<1>1. /\ op' = Goto(IF disk.journal = NoFile THEN "run" ELSE "publish")
      /\ UNCHANGED <<disk, latched, current, retired>>
  BY DEF Dispatch
<1>2. op' \in Ops /\ op'.pc = IF disk.journal = NoFile THEN "run" ELSE "publish"
  BY <1>1, GotoFields DEF CredInv, Typed, Pcs, Recovering
<1>3. Typed'
  BY <1>1, <1>2 DEF CredInv, Typed
<1>4. JournalFirst' /\ Recovered' /\ InTheMaking' /\ Staged' /\ Taken'
  BY <1>1, <1>2 DEF JournalFirst, Recovered, InTheMaking, Staged, Taken,
                    Recovering, Making, Replacing, Resetting
<1> QED
  BY <1>1, <1>3, <1>4, SameDisk DEF CredInv

\* The staged record replaces nothing but the new one.
LEMMA PublishStep ==
    ASSUME CredInv, Publish
    PROVE  CredInv'
<1> DEFINE j == disk.journal
<1>1. op.pc = "publish" /\ j # NoFile
  BY DEF Publish, At, CredInv, JournalFirst, Recovering
<1>2. /\ j.old \in Creds /\ j.new \in Creds /\ j # Empty /\ j.old # j.new
      /\ \/ disk.stage = NoFile /\ Readable(j.new)
         \/ /\ disk.stage \notin {NoFile, Empty} /\ disk.stage.user \in Users
            /\ disk.stage.cred = j.new
  BY <1>1, JournalContent
<1>3. disk \in Disk /\ op \in Ops
  BY DEF CredInv, Typed
<1>4. PICK after :
        /\ after = IF disk.stage = NoFile THEN disk
                   ELSE [disk EXCEPT !.stage = NoFile, !.rk[j.new] = disk.stage.user]
        /\ \/ disk' = after /\ op' = Goto("removeOld")
           \/ disk' \in {disk, after} /\ op' = Idle
  BY <1>2 DEF Publish, Mutate
<1>5. /\ after \in Disk /\ after.stage = NoFile /\ after.journal = j /\ after.keys = disk.keys
      /\ after.journalStage = disk.journalStage
      /\ \/ after.rk = disk.rk /\ disk.stage = NoFile
         \/ after.rk = [disk.rk EXCEPT ![j.new] = disk.stage.user] /\ disk.stage # NoFile
  BY <1>2, <1>3, <1>4 DEF Disk
<1>6. UNCHANGED <<latched, current, retired>>
  BY DEF Publish
<1>7. disk.rk \in [Creds -> Users \cup {NoFile, Empty}]
  BY <1>3, DiskFields
<1> HIDE DEF j
<1>8. CASE disk' = after
  <2>1. disk'.journal = j /\ disk'.stage = NoFile /\ disk'.keys = disk.keys
    BY <1>5, <1>8
  <2>2. \/ disk'.rk = disk.rk /\ disk.stage = NoFile
        \/ disk'.rk = [disk.rk EXCEPT ![j.new] = disk.stage.user] /\ disk.stage # NoFile
    BY <1>5, <1>8
  <2>3. OneRecord'
    <3>1. CASE disk'.rk = disk.rk
      BY <3>1, <2>1 DEF CredInv, OneRecord, Readable, j
    <3>2. CASE disk'.rk = [disk.rk EXCEPT ![j.new] = disk.stage.user] /\ disk.stage # NoFile
      <4>1. \A c \in Creds : disk.rk[c] = disk.stage.user => c \in {j.old, j.new}
        BY <1>1, <3>2 DEF CredInv, OneRecord, j
      <4>2. \A c \in Creds : disk'.rk[c] = IF c = j.new THEN disk.stage.user ELSE disk.rk[c]
        BY <1>7, <3>2
      <4>3. ASSUME NEW c \in Creds, NEW d \in Creds, disk'.rk[c] \in Users,
                   disk'.rk[c] = disk'.rk[d], c # d
            PROVE  c \in {j.old, j.new} /\ d \in {j.old, j.new}
        <5>1. CASE c = j.new \/ d = j.new
          BY <4>1, <4>2, <4>3, <5>1
        <5>2. CASE c # j.new /\ d # j.new
          BY <4>2, <4>3, <5>2 DEF CredInv, OneRecord, Readable, j
        <5> QED
          BY <5>1, <5>2
      <4> QED
        BY <4>3, <2>1, <1>1 DEF OneRecord, Readable
    <3> QED
      BY <2>2, <3>1, <3>2
  <2>4. Backed'
    <3> SUFFICES ASSUME NEW u \in Users, current[u] # NoFile
                 PROVE  /\ current[u] \in disk.keys /\ current[u] # j.old
                        /\ disk'.rk[current[u]] = u
      BY <1>6, <2>1 DEF Backed
    <3>1. /\ current[u] \in disk.keys /\ current[u] # j.old /\ current[u] \in Creds
          /\ \/ disk.rk[current[u]] = u
             \/ j.new = current[u] /\ disk.stage = [cred |-> current[u], user |-> u]
      BY <1>1 DEF CredInv, Typed, Backed, j
    <3>2. CASE current[u] = j.new /\ disk.stage # NoFile
      <4>1. disk.stage.user = u
        <5>1. disk.rk[j.new] = NoFile
          BY <1>1, <3>2 DEF CredInv, OneRecord, j
        <5>2. disk.rk[current[u]] # u
          BY <3>2, <5>1, CredentialAssumption
        <5> QED
          BY <3>1, <5>2
      <4> QED
        BY <4>1, <3>1, <3>2, <2>2, <1>7
    <3>3. CASE ~(current[u] = j.new /\ disk.stage # NoFile)
      <4>1. [cred |-> current[u], user |-> u] # NoFile
        BY <3>1, FileAssumption DEF Record
      <4>2. disk.rk[current[u]] = u
        BY <3>1, <3>3, <4>1
      <4> QED
        BY <3>1, <3>3, <4>2, <2>2, <1>7
    <3> QED
      BY <3>1, <3>2, <3>3
  <2>5. JournalReplayable'
    <3>1. j \in ResidentReplacement
      BY <1>1 DEF CredInv, JournalReplayable, j
    <3>2. disk'.rk[j.new] \in Users
      BY <1>2, <1>7, <2>2 DEF Readable
    <3> QED
      BY <1>1, <1>2, <2>1, <3>1, <3>2 DEF JournalReplayable, Readable
  <2>6. KeysGone'
    BY <1>6, <2>1 DEF CredInv, KeysGone
  <2>7. CASE op' = Goto("removeOld")
    <3>1. op' \in Ops /\ op'.pc = "removeOld"
      BY <1>3, <2>7, GotoFields DEF Pcs, Recovering
    <3>2. Typed'
      BY <1>5, <1>6, <1>8, <3>1 DEF CredInv, Typed
    <3>3. JournalFirst' /\ Recovered' /\ InTheMaking' /\ Staged' /\ Taken'
      BY <1>1, <2>1, <3>1 DEF JournalFirst, Recovered, InTheMaking, Staged, Taken,
                              Recovering, Making, Replacing, Resetting
    <3> QED
      BY <2>3, <2>4, <2>5, <2>6, <3>2, <3>3 DEF CredInv
  <2>8. CASE op' = Idle
    <3>1. Typed'
      BY <1>5, <1>6, <1>8, <2>8, Ended DEF CredInv, Typed
    <3> QED
      BY <2>3, <2>4, <2>5, <2>6, <2>8, <3>1, Ended DEF CredInv
  <2> QED
    BY <1>4, <2>7, <2>8
<1>9. CASE disk' = disk /\ op' = Idle
  BY <1>6, <1>9, Ended, SameDisk DEF CredInv, Typed
<1> QED
  BY <1>4, <1>8, <1>9

\* The old record goes while the new one can be read.
LEMMA RemoveOldStep ==
    ASSUME CredInv, RemoveOld
    PROVE  CredInv'
<1> DEFINE j == disk.journal
<1>1. op.pc = "removeOld" /\ j # NoFile /\ disk.stage = NoFile
  BY DEF RemoveOld, At, CredInv, JournalFirst, Recovered, Recovering
<1>2. j.old \in Creds /\ j.new \in Creds /\ j.old # j.new /\ Readable(j.new)
  BY <1>1, JournalContent
<1>3. disk \in Disk /\ op \in Ops /\ UNCHANGED <<latched, current, retired>>
  BY DEF CredInv, Typed, RemoveOld
<1>4. PICK after :
        /\ after = [disk EXCEPT !.rk[j.old] = NoFile]
        /\ \/ disk' = after /\ op' = Goto("deleteOldKey")
           \/ disk' \in {disk, after} /\ op' = Idle
  BY <1>2 DEF RemoveOld, Mutate
<1>5. /\ after \in Disk /\ after.rk = [disk.rk EXCEPT ![j.old] = NoFile]
      /\ after.stage = disk.stage /\ after.journal = j /\ after.keys = disk.keys
  BY <1>2, <1>3, <1>4, WithRk
<1>6. disk.rk \in [Creds -> Users \cup {NoFile, Empty}]
  BY <1>3, DiskFields
<1>7. CASE disk' = after
  <2>1. /\ disk'.journal = disk.journal /\ disk'.stage = NoFile /\ disk'.keys = disk.keys
        /\ \A c \in Creds : disk'.rk[c] = IF c = j.old THEN NoFile ELSE disk.rk[c]
    BY <1>1, <1>2, <1>5, <1>6, <1>7
  <2> HIDE DEF j
  <2>2. OneRecord'
    BY <1>2, <2>1, CredentialAssumption DEF CredInv, OneRecord, Readable, j
  <2>3. Backed'
    BY <1>1, <1>3, <2>1 DEF CredInv, Typed, Backed, j
  <2>4. JournalReplayable'
    BY <1>1, <1>2, <2>1 DEF CredInv, JournalReplayable, Readable, j
  <2>5. KeysGone'
    BY <1>3, <2>1 DEF CredInv, KeysGone
  <2>6. CASE op' = Goto("deleteOldKey")
    <3>1. op' \in Ops /\ op'.pc = "deleteOldKey"
      BY <1>3, <2>6, GotoFields DEF Pcs, Recovering
    <3>2. Typed'
      BY <1>3, <1>5, <1>7, <3>1 DEF CredInv, Typed
    <3>3. JournalFirst' /\ Recovered' /\ InTheMaking' /\ Staged' /\ Taken'
      BY <1>1, <1>2, <2>1, <3>1 DEF JournalFirst, Recovered, InTheMaking, Staged, Taken,
                                    Recovering, Making, Replacing, Resetting, j
    <3> QED
      BY <2>2, <2>3, <2>4, <2>5, <3>2, <3>3 DEF CredInv
  <2>7. CASE op' = Idle
    <3>1. Typed'
      BY <1>3, <1>5, <1>7, <2>7, Ended DEF CredInv, Typed
    <3> QED
      BY <2>2, <2>3, <2>4, <2>5, <2>7, <3>1, Ended DEF CredInv
  <2> QED
    BY <1>4, <2>6, <2>7
<1>8. CASE disk' = disk /\ op' = Idle
  BY <1>3, <1>8, Ended, SameDisk DEF CredInv, Typed
<1> QED
  BY <1>4, <1>7, <1>8

\* The old key is nobody's when it goes.
LEMMA DeleteOldKeyStep ==
    ASSUME CredInv, DeleteOldKey
    PROVE  CredInv'
<1> DEFINE j == disk.journal
<1>1. /\ op.pc = "deleteOldKey" /\ j # NoFile /\ disk.stage = NoFile
      /\ disk.rk[j.old] = NoFile
  BY DEF DeleteOldKey, At, CredInv, JournalFirst, Recovered, Recovering
<1>2. disk \in Disk /\ op \in Ops /\ UNCHANGED <<latched, current, retired>>
  BY DEF CredInv, Typed, DeleteOldKey
<1>3. PICK after :
        /\ after = [disk EXCEPT !.keys = disk.keys \ {j.old}]
        /\ \/ disk' = after /\ op' = Goto("removeJournal")
           \/ disk' \in {disk, after} /\ op' = Idle
  BY DEF DeleteOldKey, Mutate
<1>4. /\ after \in Disk /\ after.keys = disk.keys \ {j.old}
      /\ after.rk = disk.rk /\ after.stage = disk.stage /\ after.journal = j
  <2>1. disk.keys \ {j.old} \in SUBSET Creds
    BY <1>2, DiskFields
  <2> QED
    BY <1>2, <1>3, <2>1, WithKeys
<1>5. CASE disk' = after
  <2>1. /\ disk'.journal = disk.journal /\ disk'.stage = NoFile /\ disk'.rk = disk.rk
        /\ disk'.keys = disk.keys \ {j.old}
    BY <1>1, <1>4, <1>5
  <2> HIDE DEF j
  <2>2. OneRecord'
    BY <1>1, <2>1 DEF CredInv, OneRecord, Readable
  <2>3. Backed'
    BY <1>1, <1>2, <2>1 DEF CredInv, Backed, j
  <2>4. JournalReplayable' /\ KeysGone'
    BY <1>1, <1>2, <2>1 DEF CredInv, JournalReplayable, Readable, KeysGone
  <2>5. CASE op' = Goto("removeJournal")
    <3>1. op' \in Ops /\ op'.pc = "removeJournal"
      BY <1>2, <2>5, GotoFields DEF Pcs, Recovering
    <3>2. Typed'
      BY <1>2, <1>4, <1>5, <3>1 DEF CredInv, Typed
    <3>3. JournalFirst' /\ Recovered' /\ InTheMaking' /\ Staged' /\ Taken'
      BY <1>1, <2>1, <3>1 DEF JournalFirst, Recovered, InTheMaking, Staged, Taken,
                              Recovering, Making, Replacing, Resetting, j
    <3> QED
      BY <2>2, <2>3, <2>4, <3>2, <3>3 DEF CredInv
  <2>6. CASE op' = Idle
    <3>1. Typed'
      BY <1>2, <1>4, <1>5, <2>6, Ended DEF CredInv, Typed
    <3> QED
      BY <2>2, <2>3, <2>4, <2>6, <3>1, Ended DEF CredInv
  <2> QED
    BY <1>3, <2>5, <2>6
<1>6. CASE disk' = disk /\ op' = Idle
  BY <1>2, <1>6, Ended, SameDisk DEF CredInv, Typed
<1> QED
  BY <1>3, <1>5, <1>6

\* The journal goes when its old credential is gone and its new one published.
LEMMA RemoveJournalStep ==
    ASSUME CredInv, RemoveJournal
    PROVE  CredInv'
<1> DEFINE j == disk.journal
<1>1. /\ op.pc = "removeJournal" /\ j # NoFile /\ disk.stage = NoFile
      /\ disk.rk[j.old] = NoFile /\ j.old \notin disk.keys
  BY DEF RemoveJournal, At, CredInv, JournalFirst, Recovered, Recovering
<1>2. j.old \in Creds /\ j.new \in Creds /\ j.old # j.new /\ Readable(j.new)
  BY <1>1, JournalContent
<1>3. disk \in Disk /\ op \in Ops /\ UNCHANGED <<latched, current>>
  BY DEF CredInv, Typed, RemoveJournal
<1>4. retired' \subseteq Creds /\ retired' \cap disk.keys = {}
  BY <1>1, <1>2 DEF CredInv, Typed, RemoveJournal, KeysGone
<1>5. PICK after :
        /\ after = [disk EXCEPT !.journal = NoFile]
        /\ \/ disk' = after /\ op' \in {Idle, Goto("run")}
           \/ disk' = disk /\ op' = Idle
  BY DEF RemoveJournal, Mutate
<1>6. /\ after \in Disk /\ after.journal = NoFile
      /\ after.rk = disk.rk /\ after.stage = disk.stage /\ after.keys = disk.keys
  BY <1>3, <1>5 DEF Disk
<1>7. CASE disk' = after
  <2>1. /\ disk'.journal = NoFile /\ disk'.stage = NoFile /\ disk'.rk = disk.rk
        /\ disk'.keys = disk.keys
    BY <1>1, <1>6, <1>7
  <2> HIDE DEF j
  <2>2. OneRecord'
    <3>1. \A c, d \in Creds : ~(Readable(c) /\ disk.rk[c] = disk.rk[d] /\ c # d)
      BY <1>1, <1>2, CredentialAssumption DEF CredInv, OneRecord, Readable, j
    <3> QED
      BY <2>1, <3>1 DEF OneRecord, Readable
  <2>3. Backed'
    <3>1. \A u \in Users : current[u] # NoFile => current[u] \in Creds
      BY DEF CredInv, Typed
    <3>2. \A u \in Users, c \in Creds : [cred |-> c, user |-> u] # NoFile
      BY FileAssumption DEF Record
    <3>3. \A u \in Users : current[u] # NoFile => disk.rk[current[u]] = u
      BY <1>1, <3>1, <3>2 DEF CredInv, Backed, j
    <3> QED
      BY <1>3, <2>1, <3>3 DEF CredInv, Backed
  <2>4. JournalReplayable' /\ KeysGone'
    BY <1>4, <2>1 DEF JournalReplayable, KeysGone
  <2>5. CASE op' = Goto("run")
    <3>1. op' \in Ops /\ op'.pc = "run"
      BY <1>3, <2>5, GotoFields DEF Pcs
    <3>2. Typed'
      BY <1>3, <1>4, <1>6, <1>7, <3>1 DEF CredInv, Typed
    <3>3. JournalFirst' /\ Recovered' /\ InTheMaking' /\ Staged' /\ Taken'
      BY <2>1, <3>1 DEF JournalFirst, Recovered, InTheMaking, Staged, Taken,
                        Recovering, Making, Replacing, Resetting
    <3> QED
      BY <2>2, <2>3, <2>4, <3>2, <3>3 DEF CredInv
  <2>6. CASE op' = Idle
    <3>1. Typed'
      BY <1>3, <1>4, <1>6, <1>7, <2>6, Ended DEF CredInv, Typed
    <3> QED
      BY <2>2, <2>3, <2>4, <2>6, <3>1, Ended DEF CredInv
  <2> QED
    BY <1>5, <1>7, <2>5, <2>6
<1>8. CASE disk' = disk /\ op' = Idle
  <2>1. OneRecord' /\ Backed' /\ JournalReplayable'
    BY <1>3, <1>8 DEF CredInv, OneRecord, Readable, Backed, JournalReplayable, Pending
  <2>2. Typed' /\ KeysGone'
    BY <1>3, <1>4, <1>8, Ended DEF CredInv, Typed, KeysGone
  <2> QED
    BY <1>8, <2>1, <2>2, Ended DEF CredInv
<1> QED
  BY <1>5, <1>7, <1>8

-----------------------------------------------------------------------------
(* Commands. *)

\* Without a journal the authoritative credential is published, and it is the only
\* readable one of its user.
LEMMA Published ==
    ASSUME CredInv, disk.journal = NoFile
    PROVE  /\ \A u \in Users : current[u] # NoFile =>
                 current[u] \in Creds /\ current[u] \in disk.keys /\ disk.rk[current[u]] = u
           /\ \A c, d \in Creds : Readable(c) /\ disk.rk[c] = disk.rk[d] => c = d
<1>1. \A u \in Users : current[u] # NoFile => current[u] \in Creds
  BY DEF CredInv, Typed
<1> QED
  BY <1>1 DEF CredInv, Backed, OneRecord

\* Without a journal, records and keys may go that are nobody's, and keys may
\* come that were not retired.
LEMMA WithoutJournal ==
    ASSUME CredInv, disk.journal = NoFile, disk'.journal = NoFile,
           \A c \in Creds : disk'.rk[c] \in {disk.rk[c], NoFile, Empty},
           \A u \in Users : current'[u] # NoFile =>
              /\ current'[u] = current[u] /\ current[u] \in disk'.keys
              /\ disk'.rk[current[u]] = disk.rk[current[u]],
           retired' \cap disk'.keys = {}
    PROVE  OneRecord' /\ Backed' /\ JournalReplayable' /\ KeysGone'
<1>1. \A c, d \in Creds : disk.rk[c] \in Users /\ disk.rk[c] = disk.rk[d] => c = d
  BY Published DEF Readable
<1>2. NoFile \notin Users /\ Empty \notin Users
  BY CredentialAssumption
<1>3. \A c, d \in Creds : disk'.rk[c] \in Users /\ disk'.rk[c] = disk'.rk[d] => c = d
  <2> SUFFICES ASSUME NEW c \in Creds, NEW d \in Creds,
                      disk'.rk[c] \in Users, disk'.rk[c] = disk'.rk[d]
               PROVE  c = d
    OBVIOUS
  <2>1. disk'.rk[c] = disk.rk[c] /\ disk'.rk[d] = disk.rk[d]
    BY <1>2
  <2> QED
    BY <1>1, <2>1
<1>4. OneRecord'
  BY <1>3 DEF OneRecord, Readable
<1>5. Backed'
  BY Published DEF Backed
<1> QED
  BY <1>4, <1>5 DEF JournalReplayable, KeysGone

\* A new credential gets its key under an identifier that nothing mentions.
LEMMA MakeCredentialStep ==
    ASSUME CredInv, NEW u \in Users, NEW c \in Creds, MakeCredential(u, c)
    PROVE  CredInv'
<1> DEFINE next == [op EXCEPT !.pc = "lookup", !.make = TRUE, !.user = u, !.new = c]
<1>1. op.pc = "run" /\ disk.journal = NoFile
  BY DEF MakeCredential, At, CredInv, JournalFirst, Recovering
<1>2. /\ disk \in Disk /\ op \in Ops /\ UNCHANGED <<latched, current>>
      /\ retired' = retired \ {c} /\ disk.rk[c] = NoFile /\ c \notin disk.keys
  BY DEF CredInv, Typed, MakeCredential, Fresh
<1>3. PICK after :
        /\ after = [disk EXCEPT !.keys = disk.keys \cup {c}]
        /\ \/ disk' = after /\ op' = next
           \/ disk' \in {disk, after} /\ op' = Idle
  BY DEF MakeCredential, Mutate
<1>4. /\ after \in Disk /\ after.keys = disk.keys \cup {c}
      /\ after.rk = disk.rk /\ after.stage = disk.stage /\ after.journal = disk.journal
  <2>1. disk.keys \cup {c} \in SUBSET Creds
    BY <1>2, DiskFields
  <2> QED
    BY <1>2, <1>3, <2>1, WithKeys
<1>5. /\ disk' \in Disk /\ disk'.rk = disk.rk /\ disk'.journal = NoFile
      /\ disk'.keys \in {disk.keys, disk.keys \cup {c}}
  BY <1>1, <1>2, <1>3, <1>4
<1>6. OneRecord' /\ Backed' /\ JournalReplayable' /\ KeysGone'
  <2>1. retired' \cap disk'.keys = {}
    BY <1>2, <1>5 DEF CredInv, KeysGone
  <2> QED
    BY <1>1, <1>2, <1>5, <2>1, Published, WithoutJournal
<1>7. CASE disk' = after /\ op' = next
  <2>1. next \in Ops /\ next.pc = "lookup" /\ next.user = u /\ next.new = c
    BY <1>2 DEF Ops, Pcs, Making
  <2> HIDE DEF next
  <2>2. Typed'
    BY <1>2, <1>5, <1>7, <2>1 DEF CredInv, Typed
  <2>3. InTheMaking'
    <3>1. \A v \in Users : current[v] # c
      BY <1>1, <1>2, CredentialAssumption, Published
    <3>2. op' \in Ops /\ op'.pc = "lookup" /\ op'.user = u /\ op'.new = c
      BY <1>7, <2>1
    <3>3. disk'.rk = disk.rk /\ c \in disk'.keys
      BY <1>4, <1>7
    <3> QED
      BY <1>2, <3>1, <3>2, <3>3 DEF InTheMaking, Making, Replacing
  <2>4. JournalFirst' /\ Recovered' /\ Staged' /\ Taken'
    BY <1>5, <1>7, <2>1 DEF JournalFirst, Recovered, Staged, Taken,
                            Recovering, Making, Replacing, Resetting
  <2> QED
    BY <1>6, <2>2, <2>3, <2>4 DEF CredInv
<1>8. CASE op' = Idle
  <2>1. Typed'
    BY <1>2, <1>5, <1>8, Ended DEF CredInv, Typed
  <2> QED
    BY <1>6, <1>8, <2>1, Ended DEF CredInv
<1> QED
  BY <1>3, <1>7, <1>8

\* A record of the same user is replaced; without one the new one is the first.
LEMMA LookupStep ==
    ASSUME CredInv, Lookup
    PROVE  CredInv'
<1>1. op.pc = "lookup" /\ disk.journal = NoFile
  BY DEF Lookup, At, CredInv, JournalFirst, Recovering
<1>2. op \in Ops /\ UNCHANGED <<disk, latched, current, retired>>
  BY DEF CredInv, Typed, Lookup
<1>3. /\ op.user \in Users /\ op.new \in disk.keys /\ op.new \in Creds
      /\ disk.rk[op.new] = NoFile /\ \A u \in Users : current[u] # op.new
  BY <1>1 DEF CredInv, InTheMaking, Making
<1>4. /\ op' \in Ops /\ op'.user = op.user /\ op'.new = op.new
      /\ \/ op'.pc = "discard"
         \/ op'.pc = "stage" /\ op'.old \in Creds /\ disk.rk[op'.old] = op.user
         \/ op'.pc = "write" /\ \A c \in Creds : disk.rk[c] # op.user
  <2>1. CASE op' = Goto("discard")
    BY <1>2, <2>1, GotoFields DEF Pcs
  <2>2. CASE \E c \in Creds : disk.rk[c] = op.user /\ op' = [op EXCEPT !.pc = "stage", !.old = c]
    BY <1>2, <2>2 DEF Ops, Pcs, Making
  <2>3. CASE op' = Goto("write") /\ {c \in Creds : disk.rk[c] = op.user} = {}
    <3>1. \A c \in Creds : disk.rk[c] # op.user
      BY <2>3
    <3> QED
      BY <1>2, <2>3, <3>1, GotoFields DEF Pcs, Making
  <2> QED
    BY <2>1, <2>2, <2>3 DEF Lookup
<1>5. Typed'
  BY <1>2, <1>4 DEF CredInv, Typed
<1>6. InTheMaking'
  BY <1>2, <1>3, <1>4 DEF InTheMaking, Making, Replacing
<1>7. JournalFirst' /\ Recovered' /\ Staged' /\ Taken'
  BY <1>1, <1>2, <1>4 DEF JournalFirst, Recovered, Staged, Taken,
                          Recovering, Making, Replacing, Resetting
<1> QED
  BY <1>2, <1>5, <1>6, <1>7, SameDisk DEF CredInv

\* What holds of the credential in the making.
LEMMA Made ==
    ASSUME CredInv, op.pc \in Making
    PROVE  /\ disk.journal = NoFile /\ op.user \in Users /\ op.new \in Creds
           /\ op.new \in disk.keys /\ disk.rk[op.new] = NoFile
           /\ \A u \in Users : current[u] # op.new
BY DEF CredInv, JournalFirst, InTheMaking, Recovering, Making

\* A write of nobody's record, before anything refers to it.
LEMMA WriteRecordStep ==
    ASSUME CredInv, WriteRecord
    PROVE  CredInv'
<1>1. op.pc = "write" /\ \A c \in Creds : disk.rk[c] # op.user
  BY DEF WriteRecord, At, CredInv, InTheMaking
<1>2. /\ disk.journal = NoFile /\ op.user \in Users /\ op.new \in Creds
      /\ op.new \in disk.keys /\ disk.rk[op.new] = NoFile
      /\ \A u \in Users : current[u] # op.new
  BY <1>1, Made DEF Making
<1>3. /\ disk \in Disk /\ op \in Ops /\ UNCHANGED <<latched, retired>>
      /\ current \in [Users -> Creds \cup {NoFile}]
      /\ disk.rk \in [Creds -> Users \cup {NoFile, Empty}]
  BY DiskFields DEF CredInv, Typed, WriteRecord
<1>4. /\ Goto("discard") \in Ops /\ Goto("discard").pc = "discard"
      /\ Goto("discard").new = op.new /\ Goto("discard") # Idle
  BY <1>3, GotoFields, IdleFields DEF Pcs
<1>5. /\ \/ /\ op' = Idle /\ disk' = [disk EXCEPT !.rk[op.new] = op.user]
            /\ current' = [current EXCEPT ![op.user] = op.new]
         \/ /\ op' = Goto("discard") /\ current' = current
            /\ \E v \in {op.user, NoFile, Empty} : disk' = [disk EXCEPT !.rk[op.new] = v]
  <2>1. CASE disk' = [disk EXCEPT !.rk[op.new] = op.user] /\ op' = Idle
    BY <2>1 DEF WriteRecord
  <2>2. CASE op' = Goto("discard")
    <3>1. current' = current
      BY <1>4, <2>2 DEF WriteRecord
    <3>2. disk = [disk EXCEPT !.rk[op.new] = NoFile]
      BY <1>2, <1>3 DEF Disk
    <3>3. \E v \in {op.user, NoFile, Empty} : disk' = [disk EXCEPT !.rk[op.new] = v]
      BY <1>4, <2>2, <3>2 DEF WriteRecord, Mutate
    <3> QED
      BY <2>2, <3>1, <3>3
  <2> QED
    BY <2>1, <2>2 DEF WriteRecord, Mutate
<1>6. PICK v \in {op.user, NoFile, Empty} :
        /\ disk' = [disk EXCEPT !.rk[op.new] = v]
        /\ op' = Idle => v = op.user
  BY <1>4, <1>5
<1>7. /\ disk' \in Disk /\ disk'.journal = NoFile /\ disk'.keys = disk.keys
      /\ \A c \in Creds : disk'.rk[c] = IF c = op.new THEN v ELSE disk.rk[c]
  <2>1. /\ disk' \in Disk /\ disk'.journal = disk.journal /\ disk'.keys = disk.keys
        /\ disk'.rk = [disk.rk EXCEPT ![op.new] = v]
    BY <1>2, <1>3, <1>6, WithRk
  <2> QED
    BY <1>2, <1>3, <2>1
<1>8. OneRecord'
  <2>1. \A c, d \in Creds : disk'.rk[c] \in Users /\ disk'.rk[c] = disk'.rk[d] => c = d
    <3>1. \A c, d \in Creds : disk.rk[c] \in Users /\ disk.rk[c] = disk.rk[d] => c = d
      BY <1>2, Published DEF Readable
    <3>2. NoFile \notin Users /\ Empty \notin Users
      BY CredentialAssumption
    <3> QED
      BY <1>1, <1>2, <1>7, <3>1, <3>2
  <2> QED
    BY <1>7, <2>1 DEF OneRecord, Readable
<1>9. Backed'
  <2>1. \A u \in Users : current[u] # NoFile =>
          current[u] \in Creds /\ current[u] \in disk.keys /\ disk.rk[current[u]] = u
    BY <1>2, Published
  <2>2. CASE current' = current
    BY <1>2, <1>7, <2>1, <2>2 DEF Backed
  <2>3. CASE current' = [current EXCEPT ![op.user] = op.new] /\ v = op.user
    BY <1>2, <1>3, <1>7, <2>1, <2>3 DEF Backed
  <2> QED
    BY <1>5, <1>6, <2>2, <2>3
<1>10. JournalReplayable' /\ KeysGone'
  BY <1>3, <1>7 DEF CredInv, JournalReplayable, KeysGone
<1>11. current' \in [Users -> Creds \cup {NoFile}]
  BY <1>2, <1>3, <1>5
<1>12. CASE op' = Idle
  <2>1. Typed'
    BY <1>3, <1>7, <1>11, <1>12, Ended DEF CredInv, Typed
  <2> QED
    BY <1>8, <1>9, <1>10, <1>12, <2>1, Ended DEF CredInv
<1>13. CASE op' = Goto("discard") /\ current' = current
  <2>1. op' \in Ops /\ op'.pc = "discard" /\ op'.new = op.new
    BY <1>4, <1>13
  <2>2. Typed'
    BY <1>3, <1>7, <1>11, <2>1 DEF CredInv, Typed
  <2>3. JournalFirst' /\ Recovered' /\ InTheMaking' /\ Staged' /\ Taken'
    BY <1>2, <1>7, <1>13, <2>1 DEF JournalFirst, Recovered, InTheMaking, Staged, Taken,
                                   Recovering, Making, Replacing, Resetting
  <2> QED
    BY <1>8, <1>9, <1>10, <2>2, <2>3 DEF CredInv
<1> QED
  BY <1>5, <1>12, <1>13

\* Staging files change nothing that is published.
LEMMA StageRecordStep ==
    ASSUME CredInv, StageRecord
    PROVE  CredInv'
<1>1. op.pc = "stage" /\ op.old \in Creds /\ disk.rk[op.old] = op.user
  BY DEF StageRecord, At, CredInv, InTheMaking, Replacing
<1>2. /\ disk.journal = NoFile /\ op.user \in Users /\ op.new \in Creds
      /\ op.new \in disk.keys /\ disk.rk[op.new] = NoFile
      /\ \A u \in Users : current[u] # op.new
  BY <1>1, Made DEF Making
<1>3. disk \in Disk /\ op \in Ops /\ UNCHANGED <<latched, current, retired>>
  BY DEF CredInv, Typed, StageRecord
<1>4. PICK r : r = [cred |-> op.new, user |-> op.user]
  OBVIOUS
<1>5. r \in Record
  BY <1>2, <1>4 DEF Record
<1>6. /\ disk' \in Disk /\ disk'.journal = disk.journal /\ disk'.rk = disk.rk
      /\ disk'.keys = disk.keys
      /\ \/ disk'.stage = r /\ op' = Goto("stageJournal")
         \/ op' = Goto("discard")
  BY <1>3, <1>4, <1>5 DEF StageRecord, Mutate, Created, Disk
<1>7. OneRecord' /\ Backed' /\ JournalReplayable' /\ KeysGone'
  <2>1. retired' \cap disk'.keys = {}
    BY <1>3, <1>6 DEF CredInv, KeysGone
  <2> QED
    BY <1>2, <1>3, <1>6, <2>1, Published, WithoutJournal
<1>8. /\ op' \in Ops /\ op'.user = op.user /\ op'.new = op.new /\ op'.old = op.old
      /\ op'.pc = "discard" \/ (op'.pc = "stageJournal" /\ disk'.stage = r)
  BY <1>3, <1>6, GotoFields DEF Pcs, Making
<1>9. Typed'
  BY <1>3, <1>6, <1>8 DEF CredInv, Typed
<1>10. InTheMaking'
  BY <1>1, <1>2, <1>3, <1>6, <1>8 DEF InTheMaking, Making, Replacing
<1>11. JournalFirst' /\ Recovered' /\ Staged' /\ Taken'
  BY <1>2, <1>4, <1>6, <1>8 DEF JournalFirst, Recovered, Staged, Taken,
                                Recovering, Making, Replacing, Resetting
<1> QED
  BY <1>7, <1>9, <1>10, <1>11 DEF CredInv

\* The staged journal names the record of the same user as the old one.
LEMMA StageJournalStep ==
    ASSUME CredInv, StageJournal
    PROVE  CredInv'
<1>1. /\ op.pc = "stageJournal" /\ op.old \in Creds /\ disk.rk[op.old] = op.user
      /\ disk.stage = [cred |-> op.new, user |-> op.user]
  BY DEF StageJournal, At, CredInv, InTheMaking, Staged, Replacing
<1>2. /\ disk.journal = NoFile /\ op.user \in Users /\ op.new \in Creds
      /\ op.new \in disk.keys /\ disk.rk[op.new] = NoFile
      /\ \A u \in Users : current[u] # op.new
  BY <1>1, Made DEF Making
<1>3. disk \in Disk /\ op \in Ops /\ UNCHANGED <<latched, current, retired>>
  BY DEF CredInv, Typed, StageJournal
<1>4. PICK r : r = [old |-> op.old, new |-> op.new]
  OBVIOUS
<1>5. r \in ResidentReplacement
  BY <1>1, <1>2, <1>4 DEF ResidentReplacement
<1>6. /\ disk' \in Disk /\ disk'.journal = disk.journal /\ disk'.rk = disk.rk
      /\ disk'.keys = disk.keys /\ disk'.stage = disk.stage
      /\ \/ disk'.journalStage = r /\ op' = Goto("commit")
         \/ op' = Goto("discard")
  BY <1>3, <1>4, <1>5 DEF StageJournal, Mutate, Created, Disk
<1>7. OneRecord' /\ Backed' /\ JournalReplayable' /\ KeysGone'
  <2>1. retired' \cap disk'.keys = {}
    BY <1>3, <1>6 DEF CredInv, KeysGone
  <2> QED
    BY <1>2, <1>3, <1>6, <2>1, Published, WithoutJournal
<1>8. /\ op' \in Ops /\ op'.user = op.user /\ op'.new = op.new /\ op'.old = op.old
      /\ op'.pc = "discard" \/ (op'.pc = "commit" /\ disk'.journalStage = r)
  BY <1>3, <1>6, GotoFields DEF Pcs, Making
<1>9. Typed'
  BY <1>3, <1>6, <1>8 DEF CredInv, Typed
<1>10. InTheMaking'
  BY <1>1, <1>2, <1>3, <1>6, <1>8 DEF InTheMaking, Making, Replacing
<1>11. JournalFirst' /\ Recovered' /\ Staged' /\ Taken'
  BY <1>1, <1>2, <1>4, <1>6, <1>8 DEF JournalFirst, Recovered, Staged, Taken,
                                      Recovering, Making, Replacing, Resetting
<1> QED
  BY <1>7, <1>9, <1>10, <1>11 DEF CredInv

\* The rename hands the user over from the old credential to the staged one.
LEMMA CommitJournalStep ==
    ASSUME CredInv, CommitJournal
    PROVE  CredInv'
<1>1. /\ op.pc = "commit" /\ op.old \in Creds /\ disk.rk[op.old] = op.user
      /\ disk.stage = [cred |-> op.new, user |-> op.user]
      /\ disk.journalStage = [old |-> op.old, new |-> op.new]
  BY DEF CommitJournal, At, CredInv, InTheMaking, Staged, Replacing
<1>2. /\ disk.journal = NoFile /\ op.user \in Users /\ op.new \in Creds
      /\ op.new \in disk.keys /\ disk.rk[op.new] = NoFile
      /\ \A u \in Users : current[u] # op.new
  BY <1>1, Made DEF Making
<1>3. /\ disk \in Disk /\ op \in Ops /\ UNCHANGED <<latched, retired>>
      /\ current \in [Users -> Creds \cup {NoFile}]
  BY DEF CredInv, Typed, CommitJournal
<1>4. PICK j, r : /\ j = [old |-> op.old, new |-> op.new]
                  /\ r = [cred |-> op.new, user |-> op.user]
  OBVIOUS
<1>5. /\ j \in ResidentReplacement /\ j # NoFile /\ j.old = op.old /\ j.new = op.new
      /\ r \in Record /\ r # NoFile /\ r.user = op.user /\ r.cred = op.new
  BY <1>1, <1>2, <1>4, FileAssumption DEF Record, ResidentReplacement
<1>6. PICK after : /\ after = [disk EXCEPT !.journalStage = NoFile, !.journal = j]
                   /\ \/ disk' = after /\ op' = Goto("publish")
                      \/ disk' \in {disk, after} /\ op' = Idle
  BY <1>1, <1>4 DEF CommitJournal, Mutate
<1>7. /\ after \in Disk /\ after.journal = j /\ after.rk = disk.rk
      /\ after.keys = disk.keys /\ after.stage = r
  BY <1>1, <1>3, <1>4, <1>5, <1>6 DEF Disk
<1>8. \/ disk' = after /\ current' = [current EXCEPT ![op.user] = op.new]
      \/ disk' = disk /\ op' = Idle /\ current' = current
  BY <1>2, <1>5, <1>6, <1>7 DEF CommitJournal
<1>9. CASE disk' = disk /\ op' = Idle /\ current' = current
  BY <1>3, <1>9, Ended, SameDisk DEF CredInv, Typed
<1>10. CASE disk' = after /\ current' = [current EXCEPT ![op.user] = op.new]
  <2>1. /\ disk'.journal = j /\ disk'.rk = disk.rk /\ disk'.keys = disk.keys
        /\ disk'.stage = r
    BY <1>7, <1>10
  <2>2. \A c, d \in Creds : disk.rk[c] \in Users /\ disk.rk[c] = disk.rk[d] => c = d
    BY <1>2, Published DEF Readable
  <2>3. op.old # op.new
    BY <1>1, <1>2, CredentialAssumption
  <2>4. OneRecord'
    BY <1>1, <1>2, <1>5, <2>1, <2>2 DEF OneRecord, Readable
  <2>5. Backed'
    <3> SUFFICES ASSUME NEW u \in Users, current'[u] # NoFile
                 PROVE  /\ current'[u] \in disk.keys /\ current'[u] # op.old
                        /\ \/ disk.rk[current'[u]] = u
                           \/ op.new = current'[u] /\ r = [cred |-> current'[u], user |-> u]
      BY <1>5, <2>1 DEF Backed
    <3>1. CASE u = op.user
      BY <1>2, <1>3, <1>4, <1>10, <2>3, <3>1
    <3>2. CASE u # op.user
      <4>1. current'[u] = current[u]
        BY <1>3, <1>10, <3>2
      <4>2. current[u] \in disk.keys /\ disk.rk[current[u]] = u
        BY <1>2, <4>1, Published
      <4> QED
        BY <1>1, <3>2, <4>1, <4>2
    <3> QED
      BY <3>1, <3>2
  <2>6. JournalReplayable' /\ KeysGone'
    BY <1>3, <1>5, <2>1, <2>3 DEF CredInv, JournalReplayable, Pending, KeysGone
  <2>7. current' \in [Users -> Creds \cup {NoFile}]
    BY <1>2, <1>3, <1>10
  <2>8. CASE op' = Goto("publish")
    <3>1. op' \in Ops /\ op'.pc = "publish"
      BY <1>3, <2>8, GotoFields DEF Pcs, Recovering
    <3>2. Typed'
      BY <1>3, <1>7, <1>10, <2>7, <3>1 DEF CredInv, Typed
    <3>3. JournalFirst' /\ Recovered' /\ InTheMaking' /\ Staged' /\ Taken'
      BY <1>5, <2>1, <3>1 DEF JournalFirst, Recovered, InTheMaking, Staged, Taken,
                              Recovering, Making, Replacing, Resetting
    <3> QED
      BY <2>4, <2>5, <2>6, <3>2, <3>3 DEF CredInv
  <2>9. CASE op' = Idle
    <3>1. Typed'
      BY <1>3, <1>7, <1>10, <2>7, <2>9, Ended DEF CredInv, Typed
    <3> QED
      BY <2>4, <2>5, <2>6, <2>9, <3>1, Ended DEF CredInv
  <2> QED
    BY <1>6, <2>8, <2>9
<1> QED
  BY <1>8, <1>9, <1>10

\* The discarded key is nobody's.
LEMMA DiscardKeyStep ==
    ASSUME CredInv, DiscardKey
    PROVE  CredInv'
<1>1. /\ op.pc = "discard" /\ disk.journal = NoFile
      /\ \A u \in Users : current[u] # op.new
  BY DEF DiscardKey, At, CredInv, JournalFirst, InTheMaking, Recovering
<1>2. disk \in Disk /\ UNCHANGED <<latched, current, retired>>
  BY DEF CredInv, Typed, DiscardKey
<1>3. op' = Idle /\ disk' \in {disk, [disk EXCEPT !.keys = disk.keys \ {op.new}]}
  BY DEF DiscardKey, Mutate
<1>4. /\ disk' \in Disk /\ disk'.rk = disk.rk /\ disk'.journal = disk.journal
      /\ disk'.keys \in {disk.keys, disk.keys \ {op.new}}
  BY <1>2, <1>3 DEF Disk
<1>5. OneRecord' /\ Backed' /\ JournalReplayable' /\ KeysGone'
  <2>1. retired' \cap disk'.keys = {}
    BY <1>2, <1>4 DEF CredInv, KeysGone
  <2> QED
    BY <1>1, <1>2, <1>4, <2>1, Published, WithoutJournal
<1>6. Typed'
  BY <1>2, <1>3, <1>4, Ended DEF CredInv, Typed
<1> QED
  BY <1>3, <1>5, <1>6, Ended DEF CredInv

\* A deleted record is forgotten as soon as it is gone.
LEMMA DeleteRecordStep ==
    ASSUME CredInv, NEW c \in Creds, DeleteRecord(c)
    PROVE  CredInv'
<1> DEFINE next == [op EXCEPT !.pc = "deleteKey", !.old = c]
<1>1. op.pc = "run" /\ disk.journal = NoFile
  BY DEF DeleteRecord, At, CredInv, JournalFirst, Recovering
<1>2. /\ disk \in Disk /\ op \in Ops /\ retired' = retired
      /\ current \in [Users -> Creds \cup {NoFile}]
      /\ current' = IF disk'.rk[c] = NoFile
                    THEN [u \in Users |-> IF current[u] = c THEN NoFile ELSE current[u]]
                    ELSE current
  BY DEF CredInv, Typed, DeleteRecord, Forget
<1>3. latched' \in BOOLEAN
  <2>1. latched' = (latched \/ FALSE) \/ latched' = (latched \/ TRUE)
    BY DEF DeleteRecord, LatchIf
  <2> QED
    BY <2>1, Zenon DEF CredInv, Typed
<1>4. /\ disk' \in {disk, [disk EXCEPT !.rk[c] = NoFile]}
      /\ op' = Idle \/ (op' = next /\ disk' = [disk EXCEPT !.rk[c] = NoFile])
  BY DEF DeleteRecord
<1>5. /\ disk' \in Disk /\ disk'.journal = NoFile /\ disk'.keys = disk.keys
      /\ disk'.rk = disk.rk \/ disk'.rk = [disk.rk EXCEPT ![c] = NoFile]
  <2>1. CASE disk' = disk
    BY <1>1, <1>2, <2>1
  <2>2. CASE disk' = [disk EXCEPT !.rk[c] = NoFile]
    <3>1. disk \in Disk
      BY <1>2
    <3> QED
      BY <1>1, <2>2, <3>1, WithRk
  <2> QED
    BY <1>4, <2>1, <2>2
<1>6. /\ current' \in [Users -> Creds \cup {NoFile}]
      /\ \A u \in Users : current'[u] \in {current[u], NoFile}
      /\ disk'.rk[c] = NoFile => \A u \in Users : current'[u] # c
  BY <1>2, CredentialAssumption
<1>7. OneRecord' /\ Backed' /\ JournalReplayable' /\ KeysGone'
  <2>1. retired' \cap disk'.keys = {}
    BY <1>2, <1>5 DEF CredInv, KeysGone
  <2>2. /\ \A d \in Creds : disk'.rk[d] \in {disk.rk[d], NoFile, Empty}
        /\ \A d \in Creds : d # c => disk'.rk[d] = disk.rk[d]
        /\ disk'.rk[c] \in {disk.rk[c], NoFile}
    BY <1>2, <1>5, DiskFields
  <2>3. \A u \in Users : current'[u] # NoFile =>
           /\ current'[u] = current[u] /\ current[u] \in disk'.keys
           /\ disk'.rk[current[u]] = disk.rk[current[u]]
    BY <1>1, <1>5, <1>6, <2>2, Published
  <2> QED
    BY <1>1, <1>5, <2>1, <2>2, <2>3, WithoutJournal
<1>8. CASE op' = Idle
  <2>1. Typed'
    BY <1>2, <1>3, <1>5, <1>6, <1>8, Ended DEF CredInv, Typed
  <2> QED
    BY <1>7, <1>8, <2>1, Ended DEF CredInv
<1>9. CASE op' = next /\ disk' = [disk EXCEPT !.rk[c] = NoFile]
  <2>1. op' \in Ops /\ op'.pc = "deleteKey" /\ op'.old = c
    BY <1>2, <1>9 DEF Ops, Pcs
  <2>2. disk'.rk[c] = NoFile
    <3>1. disk \in Disk /\ disk.rk \in [Creds -> Users \cup {NoFile, Empty}]
      BY <1>2, DiskFields
    <3>2. disk'.rk = [disk.rk EXCEPT ![c] = NoFile]
      BY <1>9, <3>1, WithRk
    <3> QED
      BY <3>1, <3>2
  <2>3. Typed'
    BY <1>2, <1>3, <1>5, <1>6, <2>1 DEF CredInv, Typed
  <2>4. JournalFirst' /\ Recovered' /\ InTheMaking' /\ Staged' /\ Taken'
    BY <1>5, <1>6, <2>1, <2>2 DEF JournalFirst, Recovered, InTheMaking, Staged, Taken,
                                  Recovering, Making, Replacing, Resetting
  <2> QED
    BY <1>7, <2>3, <2>4 DEF CredInv
<1> QED
  BY <1>4, <1>8, <1>9

\* The key of a deleted record is nobody's; the host is told once it is gone.
LEMMA DeleteKeyStep ==
    ASSUME CredInv, DeleteKey
    PROVE  CredInv'
<1>1. /\ op.pc = "deleteKey" /\ disk.journal = NoFile /\ op.old \in Creds
      /\ \A u \in Users : current[u] # op.old
  BY DEF DeleteKey, At, CredInv, JournalFirst, Taken, Recovering
<1>2. disk \in Disk /\ op' = Idle /\ current' = current
  BY DEF CredInv, Typed, DeleteKey
<1>3. latched' \in BOOLEAN
  <2>1. latched' = (latched \/ FALSE) \/ latched' = (latched \/ TRUE)
    BY DEF DeleteKey, LatchIf
  <2> QED
    BY <2>1, Zenon DEF CredInv, Typed
<1>4. /\ disk' \in Disk /\ disk'.rk = disk.rk /\ disk'.journal = disk.journal
      /\ disk'.keys \in {disk.keys, disk.keys \ {op.old}}
  <2>1. disk' \in {disk, [disk EXCEPT !.keys = disk.keys \ {op.old}]}
    BY DEF DeleteKey
  <2> QED
    BY <1>2, <2>1 DEF Disk
<1>5. \/ retired' = retired
      \/ retired' = retired \cup {op.old} /\ op.old \notin disk'.keys
  BY DEF DeleteKey
<1>6. retired' \in SUBSET Creds /\ retired' \cap disk'.keys = {}
  BY <1>1, <1>4, <1>5 DEF CredInv, Typed, KeysGone
<1>7. OneRecord' /\ Backed' /\ JournalReplayable' /\ KeysGone'
  BY <1>1, <1>2, <1>4, <1>6, Published, WithoutJournal
<1>8. Typed'
  BY <1>2, <1>3, <1>4, <1>6, Ended DEF CredInv, Typed
<1> QED
  BY <1>2, <1>7, <1>8, Ended DEF CredInv

\* Commands that change no record, and a restart.
LEMMA QuietStep ==
    ASSUME CredInv, op' = Idle, latched' \in BOOLEAN, UNCHANGED <<disk, current, retired>>
    PROVE  CredInv'
<1>1. Typed'
  BY Ended DEF CredInv, Typed
<1> QED
  BY <1>1, Ended, SameDisk DEF CredInv

-----------------------------------------------------------------------------
(* Reset. *)

\* After the keys nothing is anybody's.
LEMMA ResetKeysStep ==
    ASSUME CredInv, ResetKeys
    PROVE  CredInv'
<1>1. op.pc = "run" /\ disk.journal = NoFile
  BY DEF ResetKeys, At, CredInv, JournalFirst, Recovering
<1>2. /\ disk \in Disk /\ op \in Ops /\ retired' = retired
      /\ current' = [u \in Users |-> NoFile]
  BY DEF CredInv, Typed, ResetKeys
<1>3. latched' \in BOOLEAN
  <2>1. latched' = (latched \/ op' = Idle)
    BY DEF ResetKeys, LatchIf
  <2> QED
    BY <2>1, Zenon
<1>4. PICK k \in SUBSET disk.keys :
        /\ disk' = [disk EXCEPT !.keys = k]
        /\ op' = Idle \/ (op' = Goto("resetRecords") /\ k = {})
  <2>1. disk = [disk EXCEPT !.keys = disk.keys]
    BY <1>2 DEF Disk
  <2> QED
    BY <2>1 DEF ResetKeys, Mutate
<1>5. /\ disk' \in Disk /\ disk'.keys = k /\ disk'.rk = disk.rk /\ disk'.journal = NoFile
  <2>1. k \in SUBSET Creds
    BY <1>2, <1>4, DiskFields
  <2> QED
    BY <1>1, <1>2, <1>4, <2>1, WithKeys
<1>6. current' \in [Users -> Creds \cup {NoFile}] /\ \A u \in Users : current'[u] = NoFile
  BY <1>2
<1>7. OneRecord' /\ Backed' /\ JournalReplayable' /\ KeysGone'
  <2>1. retired' \cap disk'.keys = {}
    BY <1>2, <1>4, <1>5 DEF CredInv, KeysGone
  <2> QED
    BY <1>1, <1>5, <1>6, <2>1, WithoutJournal
<1>8. CASE op' = Idle
  <2>1. Typed'
    BY <1>2, <1>3, <1>5, <1>6, <1>8, Ended DEF CredInv, Typed
  <2> QED
    BY <1>7, <1>8, <2>1, Ended DEF CredInv
<1>9. CASE op' = Goto("resetRecords") /\ k = {}
  <2>1. op' \in Ops /\ op'.pc = "resetRecords"
    BY <1>2, <1>9, GotoFields DEF Pcs, Resetting
  <2>2. Typed'
    BY <1>2, <1>3, <1>5, <1>6, <2>1 DEF CredInv, Typed
  <2>3. JournalFirst' /\ Recovered' /\ InTheMaking' /\ Staged' /\ Taken'
    BY <1>5, <1>6, <1>9, <2>1 DEF JournalFirst, Recovered, InTheMaking, Staged, Taken,
                                  Recovering, Making, Replacing, Resetting
  <2> QED
    BY <1>7, <2>2, <2>3 DEF CredInv
<1> QED
  BY <1>4, <1>8, <1>9

\* A later step of reset removes files of nobody.
LEMMA ResetFilesStep ==
    ASSUME CredInv, op.pc \in Resetting, NEW p \in Resetting,
           disk' \in Disk, disk'.journal = NoFile, disk'.keys = disk.keys,
           \A c \in Creds : disk'.rk[c] \in {disk.rk[c], NoFile},
           op' = Idle \/ op' = Goto(p), latched' = (latched \/ op' = Idle),
           UNCHANGED <<current, retired>>
    PROVE  CredInv'
<1>1. /\ disk.journal = NoFile /\ disk.keys = {} /\ \A u \in Users : current[u] = NoFile
      /\ op \in Ops
  BY DEF CredInv, Typed, JournalFirst, Taken, Recovering, Resetting
<1>2. OneRecord' /\ Backed' /\ JournalReplayable' /\ KeysGone'
  BY <1>1, WithoutJournal
<1>3. latched' \in BOOLEAN
  BY Zenon
<1>4. CASE op' = Idle
  <2>1. Typed'
    BY <1>3, <1>4, Ended DEF CredInv, Typed
  <2> QED
    BY <1>2, <1>4, <2>1, Ended DEF CredInv
<1>5. CASE op' = Goto(p)
  <2>1. op' \in Ops /\ op'.pc = p
    BY <1>1, <1>5, GotoFields DEF Pcs
  <2>2. Typed'
    BY <1>3, <2>1 DEF CredInv, Typed
  <2>3. JournalFirst' /\ Recovered' /\ InTheMaking' /\ Staged' /\ Taken'
    BY <1>1, <2>1 DEF JournalFirst, Recovered, InTheMaking, Staged, Taken,
                      Recovering, Making, Replacing, Resetting
  <2> QED
    BY <1>2, <2>2, <2>3 DEF CredInv
<1> QED
  BY <1>4, <1>5

\* The records go, all or some.
LEMMA ResetRecordsStep ==
    ASSUME CredInv, ResetRecords
    PROVE  CredInv'
<1>1. op.pc = "resetRecords" /\ disk.journal = NoFile /\ disk \in Disk
  BY DEF ResetRecords, At, CredInv, Typed, JournalFirst, Recovering
<1>2. disk.rk \in [Creds -> Users \cup {NoFile, Empty}]
  BY <1>1, DiskFields
<1>3. PICK gone \in SUBSET Creds :
        disk' = [disk EXCEPT !.rk = [c \in Creds |-> IF c \in gone THEN NoFile ELSE disk.rk[c]]]
  <2>1. disk = [disk EXCEPT !.rk = [c \in Creds |-> IF c \in {} THEN NoFile ELSE disk.rk[c]]]
    <3>1. disk.rk = [c \in Creds |-> IF c \in {} THEN NoFile ELSE disk.rk[c]]
      BY <1>2
    <3> QED
      BY <1>1, <3>1 DEF Disk
  <2>2. [disk EXCEPT !.rk = [c \in Creds |-> NoFile]]
          = [disk EXCEPT !.rk = [c \in Creds |-> IF c \in Creds THEN NoFile ELSE disk.rk[c]]]
    OBVIOUS
  <2>3. \/ disk' = disk
        \/ disk' = [disk EXCEPT !.rk = [c \in Creds |-> NoFile]]
        \/ \E gone \in SUBSET Creds :
             disk' = [disk EXCEPT !.rk = [c \in Creds |-> IF c \in gone THEN NoFile ELSE disk.rk[c]]]
    BY DEF ResetRecords, Mutate
  <2>4. {} \in SUBSET Creds /\ Creds \in SUBSET Creds
    OBVIOUS
  <2>5. CASE disk' = disk
    BY <2>1, <2>4, <2>5
  <2>6. CASE disk' = [disk EXCEPT !.rk = [c \in Creds |-> NoFile]]
    BY <2>2, <2>4, <2>6
  <2> QED
    BY <2>3, <2>5, <2>6
<1>4. PICK rk : rk = [c \in Creds |-> IF c \in gone THEN NoFile ELSE disk.rk[c]]
  OBVIOUS
<1>5. /\ rk \in [Creds -> Users \cup {NoFile, Empty}]
      /\ \A c \in Creds : rk[c] \in {disk.rk[c], NoFile}
  BY <1>2, <1>4
<1>6. disk' \in Disk /\ disk'.journal = NoFile /\ disk'.keys = disk.keys /\ disk'.rk = rk
  <2>1. disk' = [disk EXCEPT !.rk = rk]
    BY <1>3, <1>4
  <2> QED
    BY <1>1, <1>5, <2>1 DEF Disk
<1>7. /\ op' = Idle \/ op' = Goto("resetStage")
      /\ latched' = (latched \/ op' = Idle)
      /\ UNCHANGED <<current, retired>>
  BY DEF ResetRecords, Mutate, LatchIf
<1> QED
  BY <1>1, <1>5, <1>6, <1>7, ResetFilesStep DEF Resetting

\* The files of a replacement go one by one.
LEMMA ResetFileStep ==
    ASSUME CredInv, NEW pc \in Resetting, NEW file \in {"stage", "journalStage", "journal"},
           NEW next \in Resetting, ResetFile(pc, file, next)
    PROVE  CredInv'
<1>1. op.pc \in Resetting /\ disk.journal = NoFile /\ disk \in Disk
  BY DEF ResetFile, At, CredInv, Typed, JournalFirst, Recovering, Resetting
<1>2. /\ disk' = disk \/ disk' = [disk EXCEPT ![file] = NoFile]
      /\ op' = Idle \/ op' = Goto(next)
      /\ latched' = (latched \/ op' = Idle)
      /\ UNCHANGED <<current, retired>>
  BY DEF ResetFile, Mutate, LatchIf
<1>3. disk' \in Disk /\ disk'.journal = NoFile /\ disk'.keys = disk.keys /\ disk'.rk = disk.rk
  <2>1. CASE disk' = [disk EXCEPT !.stage = NoFile]
    BY <1>1, <2>1 DEF Disk
  <2>2. CASE disk' = [disk EXCEPT !.journalStage = NoFile]
    BY <1>1, <2>2 DEF Disk
  <2>3. CASE disk' = [disk EXCEPT !.journal = NoFile]
    BY <1>1, <2>3 DEF Disk
  <2> QED
    BY <1>1, <1>2, <2>1, <2>2, <2>3
<1> QED
  BY <1>1, <1>2, <1>3, ResetFilesStep

\* The host is told of the reset when no key is left.
LEMMA ResetDoneStep ==
    ASSUME CredInv, ResetDone
    PROVE  CredInv'
<1>1. disk.keys = {}
  BY DEF ResetDone, At, CredInv, Taken, Resetting
<1>2. op' = Idle /\ retired' = Creds /\ UNCHANGED <<disk, latched, current>>
  BY DEF ResetDone
<1>3. OneRecord' /\ Backed' /\ JournalReplayable'
  BY <1>2 DEF CredInv, OneRecord, Readable, Backed, JournalReplayable, Pending
<1>4. KeysGone'
  BY <1>1, <1>2 DEF KeysGone
<1>5. Typed'
  BY <1>2, Ended DEF CredInv, Typed
<1> QED
  BY <1>2, <1>3, <1>4, <1>5, Ended DEF CredInv

-----------------------------------------------------------------------------
(* The invariant. *)

\* Empty storage satisfies the invariant.
LEMMA CredInit == Init => CredInv
<1> SUFFICES ASSUME Init PROVE CredInv
  OBVIOUS
<1>1. /\ disk \in Disk /\ disk.journal = NoFile /\ disk.stage = NoFile /\ disk.keys = {}
      /\ disk.rk = [c \in Creds |-> NoFile]
  BY DEF Init, Disk
<1>2. op \in Ops /\ op.pc = "idle"
  BY IdleFields DEF Init
<1>3. Typed
  BY <1>1, <1>2 DEF Init, Typed
<1>4. OneRecord /\ Backed /\ JournalReplayable /\ KeysGone
  BY <1>1, CredentialAssumption
  DEF Init, OneRecord, Backed, JournalReplayable, KeysGone, Readable
<1>5. JournalFirst /\ Recovered /\ InTheMaking /\ Staged /\ Taken
  BY <1>2 DEF JournalFirst, Recovered, InTheMaking, Staged, Taken,
              Recovering, Making, Replacing, Resetting
<1> QED
  BY <1>3, <1>4, <1>5 DEF CredInv

\* Every step keeps the invariant.
LEMMA CredNext == CredInv /\ [Next]_vars => CredInv'
<1> SUFFICES ASSUME CredInv, [Next]_vars PROVE CredInv'
  OBVIOUS
<1>1. CASE Dispatch
  BY <1>1, DispatchStep
<1>2. CASE Recover
  BY <1>2, PublishStep, RemoveOldStep, DeleteOldKeyStep, RemoveJournalStep DEF Recover
<1>3. CASE \E u \in Users, c \in Creds : MakeCredential(u, c)
  BY <1>3, MakeCredentialStep
<1>4. CASE Lookup \/ WriteRecord \/ StageRecord \/ StageJournal
  BY <1>4, LookupStep, WriteRecordStep, StageRecordStep, StageJournalStep
<1>5. CASE CommitJournal \/ DiscardKey
  BY <1>5, CommitJournalStep, DiscardKeyStep
<1>6. CASE \E c \in Creds : DeleteRecord(c) \/ UpdateUserInformation(c)
  <2>1. PICK c \in Creds : DeleteRecord(c) \/ UpdateUserInformation(c)
    BY <1>6
  <2>2. CASE DeleteRecord(c)
    BY <2>2, DeleteRecordStep
  <2>3. CASE UpdateUserInformation(c)
    <3>1. PICK failed \in BOOLEAN : latched' = (latched \/ failed)
      BY <2>3 DEF UpdateUserInformation, LatchIf
    <3>2. latched' \in BOOLEAN
      BY <3>1, Zenon
    <3> QED
      BY <2>3, <3>2, QuietStep DEF UpdateUserInformation
  <2> QED
    BY <2>1, <2>2, <2>3
<1>7. CASE DeleteKey
  BY <1>7, DeleteKeyStep
<1>8. CASE Reset
  <2>1. CASE \/ ResetFile("resetStage", "stage", "resetJournalStage")
             \/ ResetFile("resetJournalStage", "journalStage", "resetJournal")
             \/ ResetFile("resetJournal", "journal", "resetDone")
    BY <2>1, ResetFileStep DEF Resetting
  <2> QED
    BY <1>8, <2>1, ResetKeysStep, ResetRecordsStep, ResetDoneStep DEF Reset
<1>9. CASE OtherCommand
  BY <1>9, QuietStep DEF OtherCommand, CredInv, Typed
<1>10. CASE PowerCut
  BY <1>10, QuietStep DEF PowerCut
<1>11. CASE UNCHANGED vars
  <2> USE <1>11 DEF vars
  <2>1. Typed' /\ JournalFirst' /\ Recovered' /\ InTheMaking' /\ Staged' /\ Taken'
    BY DEF CredInv, Typed, JournalFirst, Recovered, InTheMaking, Staged, Taken
  <2> QED
    BY <2>1, SameDisk DEF CredInv
<1> QED
  BY <1>1, <1>2, <1>3, <1>4, <1>5, <1>6, <1>7, <1>8, <1>9, <1>10, <1>11 DEF Next

\* The inductive invariant holds in every reachable state.
THEOREM CredInvariant == Spec => []CredInv
BY CredInit, CredNext, PTL DEF Spec

\* Every value stays in its range (ctap2.rs, credential_management.rs).
THEOREM TypeCorrect == Spec => []TypeOK
<1>1. CredInv => TypeOK
  BY DEF CredInv, Typed, TypeOK, Ops, Pcs, Recovering, Making, Resetting
<1> QED
  BY <1>1, CredInvariant, PTL

\* Whatever is interrupted or fails, a user who was given a credential still has
\* it, and a command finds that one alone (make_credential,
\* recover_resident_replacement).
THEOREM AuthoritativeIsUsable == Spec => []AuthoritativeUsable
<1>1. ASSUME CredInv PROVE AuthoritativeUsable
  <2> SUFFICES ASSUME NEW u \in Users, current[u] # NoFile
               PROVE  /\ current[u] \in disk.keys
                      /\ disk.rk[current[u]] = u \/ Pending(current[u])
                      /\ At("run") => {c \in Creds : disk.rk[c] = u} = {current[u]}
    BY DEF AuthoritativeUsable
  <2>1. current[u] \in Creds
    BY <1>1 DEF CredInv, Typed
  <2>2. current[u] \in disk.keys
    BY <1>1 DEF CredInv, Backed
  <2>3. disk.rk[current[u]] = u \/ Pending(current[u])
    <3>1. [cred |-> current[u], user |-> u] \in {r \in Record : r.cred = current[u]}
      BY <2>1 DEF Record
    <3> QED
      BY <1>1, <3>1 DEF CredInv, Backed, Pending, JournalReplayable
  <2>4. At("run") => {c \in Creds : disk.rk[c] = u} = {current[u]}
    <3> SUFFICES ASSUME At("run") PROVE {c \in Creds : disk.rk[c] = u} = {current[u]}
      OBVIOUS
    <3>1. disk.journal = NoFile
      BY <1>1 DEF At, CredInv, JournalFirst, Recovering
    <3>2. disk.rk[current[u]] = u
      BY <1>1, <3>1, Published
    <3>3. \A c \in Creds : disk.rk[c] = u => c = current[u]
      BY <1>1, <2>1, <3>1, <3>2, Published DEF Readable
    <3> QED
      BY <2>1, <3>2, <3>3
  <2> QED
    BY <2>2, <2>3, <2>4
<1> QED
  BY <1>1, CredInvariant, PTL

\* A journal on storage can be replayed from every state in which recovery may
\* have stopped (recover_resident_replacement).
THEOREM JournalIsReplayable == Spec => []JournalReplayable
BY CredInvariant, PTL DEF CredInv

-----------------------------------------------------------------------------
(* What was reported as gone. *)

\* What is staged is not published, and a committed journal left its staging file.
Unpublished ==
    /\ disk.stage \in Record => disk.rk[disk.stage.cred] = NoFile
    /\ disk.journalStage \in ResidentReplacement => disk.rk[disk.journalStage.new] = NoFile
    /\ disk.journal # NoFile => disk.journalStage = NoFile

\* No staging file left over is for c.
Unstaged(c) ==
    /\ disk.stage \notin {r \in Record : r.cred = c}
    /\ disk.journalStage \notin {r \in ResidentReplacement : r.new = c}

\* How far a creation, a deletion and a reset have come with the files.
FilesDone ==
    /\ op.pc \in {"lookup", "write"} => Unstaged(op.new)
    /\ op.pc = "deleteKey" => disk.rk[op.old] = NoFile /\ Unstaged(op.old)
    /\ op.pc \in Resetting \ {"resetRecords"} => \A c \in Creds : disk.rk[c] = NoFile
    /\ op.pc \in {"resetJournalStage", "resetJournal", "resetDone"} => disk.stage = NoFile
    /\ op.pc \in {"resetJournal", "resetDone"} => disk.journalStage = NoFile

\* The inductive invariant of the files, on top of the one of records and keys.
GoneInv == Unpublished /\ FilesDone /\ RetiredStaysGone

\* A command that has ended promises nothing about files.
LEMMA EndedFiles == op' = Idle => FilesDone'
BY IdleFields DEF FilesDone, Resetting

\* Where files only go, or lose their content, nothing that was gone comes back.
LEMMA FilesGo ==
    ASSUME CredInv, CredInv', GoneInv, retired' \subseteq retired,
           \A c \in Creds : disk'.rk[c] \in {disk.rk[c], NoFile},
           disk'.stage \in {disk.stage, NoFile, Empty},
           \/ disk'.journalStage \in {disk.journalStage, NoFile}
           \/ disk'.journalStage = Empty /\ disk'.journal = NoFile,
           disk'.journal \in {disk.journal, NoFile}
    PROVE  Unpublished' /\ RetiredStaysGone'
<1>1. /\ {NoFile, Empty} \cap Record = {} /\ {NoFile, Empty} \cap ResidentReplacement = {}
      /\ \A r \in Record : r.cred \in Creds
      /\ \A r \in ResidentReplacement : r.new \in Creds
  BY FileAssumption DEF Record, ResidentReplacement
<1>2. Unpublished'
  <2>1. disk'.stage \in Record => disk'.rk[disk'.stage.cred] = NoFile
    BY <1>1 DEF GoneInv, Unpublished
  <2>2. disk'.journalStage \in ResidentReplacement
           => disk'.rk[disk'.journalStage.new] = NoFile
    BY <1>1 DEF GoneInv, Unpublished
  <2>3. disk'.journal # NoFile => disk'.journalStage = NoFile
    BY DEF GoneInv, Unpublished
  <2> QED
    BY <2>1, <2>2, <2>3 DEF Unpublished
<1>3. RetiredStaysGone'
  <2> SUFFICES ASSUME NEW c \in retired'
               PROVE  /\ c \notin disk'.keys /\ disk'.rk[c] = NoFile
                      /\ disk'.stage \notin {r \in Record : r.cred = c}
                      /\ disk'.journalStage \notin {r \in ResidentReplacement : r.new = c}
                      /\ disk'.journal \notin {r \in ResidentReplacement : r.new = c}
    BY DEF RetiredStaysGone
  <2>1. c \in Creds /\ c \notin disk'.keys
    BY DEF CredInv, Typed, KeysGone
  <2>2. /\ disk.rk[c] = NoFile /\ disk.stage \notin {r \in Record : r.cred = c}
        /\ disk.journalStage \notin {r \in ResidentReplacement : r.new = c}
        /\ disk.journal \notin {r \in ResidentReplacement : r.new = c}
    BY DEF GoneInv, RetiredStaysGone
  <2> QED
    BY <1>1, <2>1, <2>2
<1> QED
  BY <1>2, <1>3

\* Where storage stays and nothing more is reported, the files stay in order.
LEMMA SameFiles ==
    ASSUME CredInv, CredInv', GoneInv, disk' = disk, retired' \subseteq retired
    PROVE  Unpublished' /\ RetiredStaysGone'
BY FilesGo

\* Recovery publishes what is not retired, and retires what has no file left.
LEMMA RecoverFiles ==
    ASSUME CredInv, CredInv', GoneInv, Recover
    PROVE  GoneInv'
<1> DEFINE j == disk.journal
<1>1. op.pc \in Recovering /\ j # NoFile /\ disk \in Disk /\ op \in Ops
  BY DEF Recover, Publish, RemoveOld, DeleteOldKey, RemoveJournal, At, CredInv, Typed,
         JournalFirst, Recovering
<1>2. /\ j.old \in Creds /\ j.new \in Creds /\ j # Empty /\ j.old # j.new
      /\ \/ disk.stage = NoFile /\ Readable(j.new)
         \/ /\ disk.stage \notin {NoFile, Empty} /\ disk.stage.user \in Users
            /\ disk.stage.cred = j.new
  BY <1>1, JournalContent
<1>3. j \in ResidentReplacement /\ disk.journalStage = NoFile
  BY <1>1 DEF CredInv, JournalReplayable, GoneInv, Unpublished
<1>4. disk.rk \in [Creds -> Users \cup {NoFile, Empty}]
  BY <1>1, DiskFields
<1>5. NoFile \notin Record /\ NoFile \notin ResidentReplacement
  BY FileAssumption
<1>6. FilesDone'
  <2>1. \/ op' \in {Idle, Goto("run")}
        \/ op' \in {Goto("removeOld"), Goto("deleteOldKey"), Goto("removeJournal")}
    BY DEF Recover, Publish, RemoveOld, DeleteOldKey, RemoveJournal, Mutate
  <2>2. op'.pc \in {"idle", "run", "removeOld", "deleteOldKey", "removeJournal"}
    BY <1>1, <2>1, IdleFields, GotoFields DEF Pcs, Recovering
  <2> QED
    BY <2>2 DEF FilesDone, Resetting
<1>7. CASE Publish
  <2>1. \/ disk' = disk
        \/ disk' = [disk EXCEPT !.stage = NoFile, !.rk[j.new] = disk.stage.user]
    BY <1>2, <1>7 DEF Publish, Mutate
  <2>2. retired' = retired
    BY <1>7 DEF Publish
  <2>3. CASE disk' = disk
    BY <1>6, <2>2, <2>3, SameFiles DEF GoneInv
  <2>4. CASE disk' = [disk EXCEPT !.stage = NoFile, !.rk[j.new] = disk.stage.user]
    <3>1. /\ disk'.stage = NoFile /\ disk'.journalStage = NoFile /\ disk'.journal = disk.journal
          /\ \A c \in Creds : c # j.new => disk'.rk[c] = disk.rk[c]
      BY <1>1, <1>3, <1>4, <2>4 DEF Disk
    <3>2. j.new \notin retired
      BY <1>3 DEF GoneInv, RetiredStaysGone
    <3>3. RetiredStaysGone'
      <4> HIDE DEF j
      <4> SUFFICES ASSUME NEW c \in retired
                   PROVE  /\ c \notin disk'.keys /\ disk'.rk[c] = NoFile
                          /\ disk.journal \notin {r \in ResidentReplacement : r.new = c}
        BY <1>5, <2>2, <3>1 DEF RetiredStaysGone
      <4>1. c \in Creds /\ c \notin disk'.keys
        BY <2>2 DEF CredInv, Typed, KeysGone
      <4> QED
        BY <3>1, <3>2, <4>1 DEF GoneInv, RetiredStaysGone
    <3> QED
      BY <1>5, <1>6, <3>1, <3>3 DEF GoneInv, Unpublished
  <2> QED
    BY <2>1, <2>3, <2>4
<1>8. CASE RemoveOld
  <2>1. /\ disk' \in {disk, [disk EXCEPT !.rk[j.old] = NoFile]}
        /\ retired' = retired
    BY <1>8 DEF RemoveOld, Mutate
  <2>2. /\ \A c \in Creds : disk'.rk[c] \in {disk.rk[c], NoFile}
        /\ disk'.stage = disk.stage /\ disk'.journalStage = disk.journalStage
        /\ disk'.journal = disk.journal
    <3>1. CASE disk' = [disk EXCEPT !.rk[j.old] = NoFile]
      <4>1. /\ disk'.rk = [disk.rk EXCEPT ![j.old] = NoFile]
            /\ disk'.stage = disk.stage /\ disk'.journalStage = disk.journalStage
            /\ disk'.journal = disk.journal
        BY <1>1, <1>2, <3>1, WithRk
      <4> QED
        BY <1>4, <4>1
    <3> QED
      BY <2>1, <3>1
  <2> QED
    BY <1>6, <2>1, <2>2, FilesGo DEF GoneInv
<1>9. CASE DeleteOldKey
  <2>1. /\ disk' \in {disk, [disk EXCEPT !.keys = disk.keys \ {j.old}]}
        /\ retired' = retired
    BY <1>9 DEF DeleteOldKey, Mutate
  <2>2. /\ disk'.rk = disk.rk /\ disk'.stage = disk.stage
        /\ disk'.journalStage = disk.journalStage /\ disk'.journal = disk.journal
    BY <1>1, <2>1 DEF Disk
  <2> QED
    BY <1>6, <2>1, <2>2, FilesGo DEF GoneInv
<1>10. CASE RemoveJournal
  <2>1. /\ disk' \in {disk, [disk EXCEPT !.journal = NoFile]}
        /\ retired' \subseteq retired \cup {j.old}
    BY <1>10 DEF RemoveJournal, Mutate
  <2>2. /\ disk'.rk = disk.rk /\ disk'.stage = disk.stage
        /\ disk'.journalStage = NoFile /\ disk'.journal \in {disk.journal, NoFile}
    BY <1>1, <1>3, <2>1 DEF Disk
  <2>3. op.pc = "removeJournal" /\ disk.stage = NoFile /\ disk.rk[j.old] = NoFile
    BY <1>10 DEF RemoveJournal, At, CredInv, Recovered, Recovering
  <2>4. RetiredStaysGone'
    <3> SUFFICES ASSUME NEW c \in retired'
                 PROVE  /\ c \notin disk'.keys /\ disk.rk[c] = NoFile
                        /\ disk.journal \notin {r \in ResidentReplacement : r.new = c}
      BY <1>5, <2>2, <2>3 DEF RetiredStaysGone
    <3>1. c \notin disk'.keys
      BY DEF CredInv, KeysGone
    <3>2. CASE c = j.old
      BY <1>2, <2>3, <3>1, <3>2
    <3>3. CASE c \in retired
      BY <3>1, <3>3 DEF GoneInv, RetiredStaysGone
    <3> QED
      BY <2>1, <3>2, <3>3
  <2> QED
    BY <1>3, <1>5, <1>6, <2>2, <2>3, <2>4 DEF GoneInv, Unpublished
<1> QED
  BY <1>7, <1>8, <1>9, <1>10 DEF Recover

\* A new credential is mentioned nowhere.
LEMMA MakeFiles ==
    ASSUME CredInv, CredInv', GoneInv, NEW u \in Users, NEW c \in Creds, MakeCredential(u, c)
    PROVE  GoneInv'
<1> DEFINE next == [op EXCEPT !.pc = "lookup", !.make = TRUE, !.user = u, !.new = c]
<1>1. disk \in Disk /\ op \in Ops
  BY DEF CredInv, Typed
<1>2. /\ disk' \in {disk, [disk EXCEPT !.keys = disk.keys \cup {c}]}
      /\ op' \in {Idle, next} /\ retired' \subseteq retired
  BY DEF MakeCredential, Mutate
<1>3. /\ disk'.rk = disk.rk /\ disk'.stage = disk.stage
      /\ disk'.journalStage = disk.journalStage /\ disk'.journal = disk.journal
  BY <1>1, <1>2 DEF Disk
<1>4. Unpublished' /\ RetiredStaysGone'
  BY <1>2, <1>3, FilesGo
<1>5. FilesDone'
  <2>1. CASE op' = next
    <3>1. op'.pc = "lookup" /\ op'.new = c
      BY <1>1, <2>1 DEF Ops
    <3>2. disk'.stage \notin {r \in Record : r.cred = c}
      BY <1>3 DEF MakeCredential, Fresh
    <3>3. disk'.journalStage \notin {r \in ResidentReplacement : r.new = c}
      BY <1>3 DEF MakeCredential, Fresh
    <3> QED
      BY <3>1, <3>2, <3>3 DEF FilesDone, Unstaged, Resetting
  <2> QED
    BY <1>2, <2>1, EndedFiles
<1> QED
  BY <1>4, <1>5 DEF GoneInv

\* The record written in place is not staged as well.
LEMMA WriteFiles ==
    ASSUME CredInv, CredInv', GoneInv, WriteRecord
    PROVE  GoneInv'
<1>1. /\ op.pc = "write" /\ disk \in Disk /\ op \in Ops /\ disk.journal = NoFile
      /\ op.new \in disk.keys /\ op.new \in Creds /\ op.user \in Users /\ retired' = retired
  BY DEF WriteRecord, At, CredInv, Typed, InTheMaking, Making, JournalFirst, Recovering
<1>2. /\ op' \in {Idle, Goto("discard")}
      /\ \/ disk' = disk
         \/ disk' = [disk EXCEPT !.rk[op.new] = op.user]
         \/ disk' = [disk EXCEPT !.rk[op.new] = Empty]
  BY DEF WriteRecord, Mutate
<1>3. FilesDone'
  <2>1. op'.pc \in {"idle", "discard"}
    BY <1>1, <1>2, IdleFields, GotoFields DEF Pcs
  <2> QED
    BY <2>1 DEF FilesDone, Resetting
<1>4. /\ disk'.stage = disk.stage /\ disk'.journalStage = disk.journalStage
      /\ disk'.journal = disk.journal
      /\ \A c \in Creds : c # op.new => disk'.rk[c] = disk.rk[c]
  <2>1. ASSUME NEW v \in Users \cup {NoFile, Empty}, disk' = [disk EXCEPT !.rk[op.new] = v]
        PROVE  /\ disk'.stage = disk.stage /\ disk'.journalStage = disk.journalStage
               /\ disk'.journal = disk.journal /\ disk'.rk = [disk.rk EXCEPT ![op.new] = v]
    BY <1>1, <2>1, WithRk
  <2>2. disk.rk \in [Creds -> Users \cup {NoFile, Empty}]
    BY <1>1, DiskFields
  <2>3. CASE disk' = [disk EXCEPT !.rk[op.new] = op.user]
    BY <1>1, <2>1, <2>2, <2>3
  <2>4. CASE disk' = [disk EXCEPT !.rk[op.new] = Empty]
    BY <2>1, <2>2, <2>4
  <2> QED
    BY <1>2, <2>3, <2>4
<1>5. op.new \notin retired /\ Unstaged(op.new)
  BY <1>1 DEF CredInv, KeysGone, GoneInv, FilesDone
<1>6. Unpublished'
  <2>1. /\ disk.stage \in Record => disk.stage.cred \in Creds /\ disk.stage.cred # op.new
        /\ disk.journalStage \in ResidentReplacement =>
              disk.journalStage.new \in Creds /\ disk.journalStage.new # op.new
    BY <1>5 DEF Unstaged, Record, ResidentReplacement
  <2> QED
    BY <1>4, <2>1 DEF GoneInv, Unpublished
<1>7. RetiredStaysGone'
  <2>1. \A c \in retired : c \in Creds /\ c \notin disk'.keys
    BY <1>1 DEF CredInv, Typed, KeysGone
  <2> QED
    BY <1>1, <1>4, <1>5, <2>1 DEF GoneInv, RetiredStaysGone
<1> QED
  BY <1>3, <1>6, <1>7 DEF GoneInv

\* What is staged has a key, so that it is not retired, and no record yet.
LEMMA StageFiles ==
    ASSUME CredInv, CredInv', GoneInv, StageRecord \/ StageJournal
    PROVE  GoneInv'
<1>1. /\ op.pc \in {"stage", "stageJournal"} /\ disk \in Disk /\ op \in Ops
      /\ disk.journal = NoFile /\ op.new \in Creds /\ op.new \in disk.keys
      /\ op.old \in Creds /\ op.user \in Users /\ disk.rk[op.new] = NoFile
      /\ retired' = retired
  BY DEF StageRecord, StageJournal, At, CredInv, Typed, InTheMaking, Making, Replacing,
         JournalFirst, Recovering
<1> DEFINE r == [cred |-> op.new, user |-> op.user]
           q == [old |-> op.old, new |-> op.new]
<1>2. r \in Record /\ r.cred = op.new /\ q \in ResidentReplacement /\ q.new = op.new
  BY <1>1 DEF Record, ResidentReplacement
<1>3. op' \in {Goto("stageJournal"), Goto("commit"), Goto("discard")}
  BY DEF StageRecord, StageJournal, Mutate
<1>4. FilesDone'
  <2>1. op'.pc \in {"stageJournal", "commit", "discard"}
    BY <1>1, <1>3, GotoFields DEF Pcs, Making
  <2> QED
    BY <2>1 DEF FilesDone, Resetting
<1>5. \/ disk' = disk
      \/ disk' = [disk EXCEPT !.stage = Empty] \/ disk' = [disk EXCEPT !.journalStage = Empty]
      \/ disk' = [disk EXCEPT !.stage = r] \/ disk' = [disk EXCEPT !.journalStage = q]
  BY DEF StageRecord, StageJournal, Mutate, Created
<1> HIDE DEF r, q
<1>6. /\ disk'.rk = disk.rk /\ disk'.journal = NoFile
      /\ disk'.stage \in {disk.stage, Empty, r}
      /\ disk'.journalStage \in {disk.journalStage, Empty, q}
  BY <1>1, <1>5 DEF Disk
<1>7. /\ {NoFile, Empty} \cap Record = {} /\ {NoFile, Empty} \cap ResidentReplacement = {}
  BY FileAssumption
<1>8. Unpublished'
  BY <1>1, <1>2, <1>6, <1>7 DEF GoneInv, Unpublished
<1>9. RetiredStaysGone'
  <2> SUFFICES ASSUME NEW c \in retired
               PROVE  /\ c \notin disk'.keys /\ disk'.rk[c] = NoFile
                      /\ disk'.stage \notin {s \in Record : s.cred = c}
                      /\ disk'.journalStage \notin {s \in ResidentReplacement : s.new = c}
                      /\ disk'.journal \notin {s \in ResidentReplacement : s.new = c}
    BY <1>1 DEF RetiredStaysGone
  <2>1. c \notin disk'.keys /\ c # op.new
    BY <1>1 DEF CredInv, KeysGone
  <2>2. /\ disk.rk[c] = NoFile /\ disk.stage \notin {s \in Record : s.cred = c}
        /\ disk.journalStage \notin {s \in ResidentReplacement : s.new = c}
    BY DEF GoneInv, RetiredStaysGone
  <2> QED
    BY <1>2, <1>6, <1>7, <2>1, <2>2
<1> QED
  BY <1>4, <1>8, <1>9 DEF GoneInv

\* The rename takes the staging file of the journal away.
LEMMA CommitFiles ==
    ASSUME CredInv, CredInv', GoneInv, CommitJournal
    PROVE  GoneInv'
<1>1. disk \in Disk /\ op \in Ops /\ retired' = retired
  BY DEF CommitJournal, CredInv, Typed
<1>2. /\ op' \in {Idle, Goto("publish")}
      /\ \/ disk' = disk
         \/ disk' = [disk EXCEPT !.journalStage = NoFile, !.journal = disk.journalStage]
  BY DEF CommitJournal, Mutate
<1>3. FilesDone'
  <2>1. op'.pc \in {"idle", "publish"}
    BY <1>1, <1>2, IdleFields, GotoFields DEF Pcs, Recovering
  <2> QED
    BY <2>1 DEF FilesDone, Resetting
<1>4. CASE disk' = disk
  BY <1>1, <1>3, <1>4, SameFiles DEF GoneInv
<1>5. CASE disk' = [disk EXCEPT !.journalStage = NoFile, !.journal = disk.journalStage]
  <2>1. /\ disk'.rk = disk.rk /\ disk'.stage = disk.stage
        /\ disk'.journalStage = NoFile /\ disk'.journal = disk.journalStage
    BY <1>1, <1>5 DEF Disk
  <2>2. NoFile \notin ResidentReplacement
    BY FileAssumption
  <2>3. \A c \in retired' : c \notin disk'.keys
    BY DEF CredInv, KeysGone
  <2> QED
    BY <1>1, <1>3, <2>1, <2>2, <2>3 DEF GoneInv, Unpublished, RetiredStaysGone
<1> QED
  BY <1>2, <1>4, <1>5

\* A record that is deleted was published, so that it is not staged.
LEMMA DeleteFiles ==
    ASSUME CredInv, CredInv', GoneInv, NEW c \in Creds, DeleteRecord(c)
    PROVE  GoneInv'
<1> DEFINE next == [op EXCEPT !.pc = "deleteKey", !.old = c]
<1>1. disk \in Disk /\ op \in Ops /\ retired' = retired /\ disk.rk[c] # NoFile
  BY DEF DeleteRecord, CredInv, Typed
<1>2. \/ disk' \in {disk, [disk EXCEPT !.rk[c] = NoFile]} /\ op' = Idle
      \/ disk' = [disk EXCEPT !.rk[c] = NoFile] /\ op' = next
  BY DEF DeleteRecord
<1>3. /\ \A d \in Creds : disk'.rk[d] \in {disk.rk[d], NoFile}
      /\ op' # Idle => disk'.rk[c] = NoFile
      /\ disk'.stage = disk.stage /\ disk'.journalStage = disk.journalStage
      /\ disk'.journal = disk.journal
  <2>1. disk.rk \in [Creds -> Users \cup {NoFile, Empty}]
    BY <1>1, DiskFields
  <2>2. CASE disk' = [disk EXCEPT !.rk[c] = NoFile]
    <3>1. /\ disk'.rk = [disk.rk EXCEPT ![c] = NoFile]
          /\ disk'.stage = disk.stage /\ disk'.journalStage = disk.journalStage
          /\ disk'.journal = disk.journal
      BY <1>1, <2>2, WithRk
    <3> QED
      BY <2>1, <3>1
  <2>3. CASE disk' = disk /\ op' = Idle
    BY <2>3
  <2> QED
    BY <1>2, <2>2, <2>3
<1>4. Unpublished' /\ RetiredStaysGone'
  BY <1>1, <1>3, FilesGo
<1>5. FilesDone'
  <2>1. CASE op' = Idle
    BY <2>1, EndedFiles
  <2>2. CASE op' # Idle
    <3>1. op'.pc = "deleteKey" /\ op'.old = c
      BY <1>1, <1>2, <2>2 DEF Ops
    <3>2. Unstaged(c)'
      BY <1>1, <1>3 DEF GoneInv, Unpublished, Unstaged
    <3>3. disk'.stage \notin {r \in Record : r.cred = c}
      BY <3>2 DEF Unstaged
    <3>4. disk'.journalStage \notin {r \in ResidentReplacement : r.new = c}
      BY <3>2 DEF Unstaged
    <3> QED
      BY <1>3, <2>2, <3>1, <3>3, <3>4 DEF FilesDone, Unstaged, Resetting
  <2> QED
    BY <2>1, <2>2
<1> QED
  BY <1>4, <1>5 DEF GoneInv

\* The host is told of a deletion when neither record nor staging file is left.
LEMMA DeleteKeyFiles ==
    ASSUME CredInv, CredInv', GoneInv, DeleteKey
    PROVE  GoneInv'
<1>1. /\ op.pc = "deleteKey" /\ disk \in Disk /\ op' = Idle /\ disk.journal = NoFile
      /\ disk.rk[op.old] = NoFile /\ Unstaged(op.old) /\ retired' \subseteq retired \cup {op.old}
  BY DEF DeleteKey, At, CredInv, Typed, JournalFirst, Recovering, GoneInv, FilesDone
<1>2. disk' \in {disk, [disk EXCEPT !.keys = disk.keys \ {op.old}]}
  BY DEF DeleteKey
<1>3. /\ disk'.rk = disk.rk /\ disk'.stage = disk.stage
      /\ disk'.journalStage = disk.journalStage /\ disk'.journal = disk.journal
  BY <1>1, <1>2 DEF Disk
<1>4. RetiredStaysGone'
  <2>1. \A c \in retired' : c \notin disk'.keys
    BY DEF CredInv, KeysGone
  <2>2. NoFile \notin ResidentReplacement
    BY FileAssumption
  <2> QED
    BY <1>1, <1>3, <2>1, <2>2 DEF GoneInv, RetiredStaysGone, Unstaged
<1> QED
  BY <1>1, <1>3, <1>4, EndedFiles DEF GoneInv, Unpublished

\* Reset goes on only when the files of a step are gone.
LEMMA ResetFiles ==
    ASSUME CredInv, CredInv', GoneInv, Reset
    PROVE  GoneInv'
<1>1. disk \in Disk /\ op \in Ops
  BY DEF CredInv, Typed
<1>2. disk.rk \in [Creds -> Users \cup {NoFile, Empty}]
  BY <1>1, DiskFields
<1>3. CASE ResetKeys
  <2>1. PICK k \in SUBSET disk.keys : disk' = [disk EXCEPT !.keys = k]
    <3>1. disk = [disk EXCEPT !.keys = disk.keys]
      BY <1>1 DEF Disk
    <3> QED
      BY <1>3, <3>1 DEF ResetKeys, Mutate
  <2>2. /\ disk'.rk = disk.rk /\ disk'.stage = disk.stage
        /\ disk'.journalStage = disk.journalStage /\ disk'.journal = disk.journal
    BY <1>1, <2>1 DEF Disk
  <2>3. retired' = retired /\ op' \in {Idle, Goto("resetRecords")}
    BY <1>3 DEF ResetKeys, Mutate
  <2>4. op'.pc \in {"idle", "resetRecords"}
    BY <1>1, <2>3, IdleFields, GotoFields DEF Pcs, Resetting
  <2>5. FilesDone'
    BY <2>4 DEF FilesDone, Resetting
  <2> QED
    BY <2>2, <2>3, <2>5, FilesGo DEF GoneInv
<1>4. CASE ResetRecords
  <2>1. PICK gone \in SUBSET Creds, rk \in [Creds -> Users \cup {NoFile, Empty}] :
          /\ disk' = [disk EXCEPT !.rk = rk]
          /\ rk = [c \in Creds |-> IF c \in gone THEN NoFile ELSE disk.rk[c]]
          /\ op' = Idle \/ (op' = Goto("resetStage") /\ gone = Creds)
    <3> DEFINE left(g) == [c \in Creds |-> IF c \in g THEN NoFile ELSE disk.rk[c]]
    <3>1. \A g \in SUBSET Creds : left(g) \in [Creds -> Users \cup {NoFile, Empty}]
      BY <1>2
    <3>2. left({}) = disk.rk /\ left(Creds) = [c \in Creds |-> NoFile]
      BY <1>2
    <3>3. disk = [disk EXCEPT !.rk = disk.rk]
      BY <1>1 DEF Disk
    <3>4. \/ disk' = [disk EXCEPT !.rk = [c \in Creds |-> NoFile]] /\ op' = Goto("resetStage")
          \/ disk' \in {disk, [disk EXCEPT !.rk = [c \in Creds |-> NoFile]]} /\ op' = Idle
          \/ op' = Idle /\ \E g \in SUBSET Creds : disk' = [disk EXCEPT !.rk = left(g)]
      BY <1>4 DEF ResetRecords, Mutate
    <3>5. \E g \in SUBSET Creds :
             /\ disk' = [disk EXCEPT !.rk = left(g)]
             /\ op' = Idle \/ (op' = Goto("resetStage") /\ g = Creds)
      <4> HIDE DEF left
      <4> QED
        BY <3>2, <3>3, <3>4
    <3> QED
      BY <3>1, <3>5
  <2>2. /\ \A c \in Creds : disk'.rk[c] \in {disk.rk[c], NoFile}
        /\ disk'.stage = disk.stage
        /\ disk'.journalStage = disk.journalStage /\ disk'.journal = disk.journal
        /\ op' # Idle => \A c \in Creds : disk'.rk[c] = NoFile
    <3>1. disk'.rk = rk /\ disk'.stage = disk.stage
          /\ disk'.journalStage = disk.journalStage /\ disk'.journal = disk.journal
      BY <1>1, <2>1 DEF Disk
    <3> QED
      BY <2>1, <3>1
  <2>3. retired' = retired
    BY <1>4 DEF ResetRecords
  <2>4. op' # Idle => op'.pc = "resetStage"
    BY <1>1, <2>1, GotoFields DEF Pcs, Resetting
  <2>5. FilesDone'
    BY <2>2, <2>4, EndedFiles DEF FilesDone
  <2> QED
    BY <2>2, <2>3, <2>5, FilesGo DEF GoneInv
<1>5. CASE ResetFile("resetStage", "stage", "resetJournalStage")
  <2>1. /\ op.pc = "resetStage" /\ retired' = retired
        /\ \/ disk' = [disk EXCEPT !.stage = NoFile] /\ op' = Goto("resetJournalStage")
           \/ disk' \in {disk, [disk EXCEPT !.stage = NoFile]} /\ op' = Idle
    BY <1>5 DEF ResetFile, Mutate, At
  <2>2. /\ disk'.rk = disk.rk /\ disk'.stage \in {disk.stage, NoFile}
        /\ disk'.journalStage = disk.journalStage /\ disk'.journal = disk.journal
        /\ op' # Idle => disk'.stage = NoFile
    BY <1>1, <2>1 DEF Disk
  <2>3. op' # Idle => op'.pc = "resetJournalStage"
    BY <1>1, <2>1, GotoFields DEF Pcs, Resetting
  <2>4. FilesDone'
    BY <2>1, <2>2, <2>3, EndedFiles DEF GoneInv, FilesDone, Resetting
  <2> QED
    BY <2>1, <2>2, <2>4, FilesGo DEF GoneInv
<1>6. CASE ResetFile("resetJournalStage", "journalStage", "resetJournal")
  <2>1. /\ op.pc = "resetJournalStage" /\ retired' = retired
        /\ \/ disk' = [disk EXCEPT !.journalStage = NoFile] /\ op' = Goto("resetJournal")
           \/ disk' \in {disk, [disk EXCEPT !.journalStage = NoFile]} /\ op' = Idle
    BY <1>6 DEF ResetFile, Mutate, At
  <2>2. /\ disk'.rk = disk.rk /\ disk'.stage = disk.stage
        /\ disk'.journalStage \in {disk.journalStage, NoFile} /\ disk'.journal = disk.journal
        /\ op' # Idle => disk'.journalStage = NoFile
    BY <1>1, <2>1 DEF Disk
  <2>3. op' # Idle => op'.pc = "resetJournal"
    BY <1>1, <2>1, GotoFields DEF Pcs, Resetting
  <2>4. FilesDone'
    BY <2>1, <2>2, <2>3, EndedFiles DEF GoneInv, FilesDone, Resetting
  <2> QED
    BY <2>1, <2>2, <2>4, FilesGo DEF GoneInv
<1>7. CASE ResetFile("resetJournal", "journal", "resetDone")
  <2>1. /\ op.pc = "resetJournal" /\ retired' = retired
        /\ \/ disk' = [disk EXCEPT !.journal = NoFile] /\ op' = Goto("resetDone")
           \/ disk' \in {disk, [disk EXCEPT !.journal = NoFile]} /\ op' = Idle
    BY <1>7 DEF ResetFile, Mutate, At
  <2>2. /\ disk'.rk = disk.rk /\ disk'.stage = disk.stage
        /\ disk'.journalStage = disk.journalStage /\ disk'.journal \in {disk.journal, NoFile}
    BY <1>1, <2>1 DEF Disk
  <2>3. op' # Idle => op'.pc = "resetDone"
    BY <1>1, <2>1, GotoFields DEF Pcs, Resetting
  <2>4. FilesDone'
    BY <2>1, <2>2, <2>3, EndedFiles DEF GoneInv, FilesDone, Resetting
  <2> QED
    BY <2>1, <2>2, <2>4, FilesGo DEF GoneInv
<1>8. CASE ResetDone
  <2>1. /\ op.pc = "resetDone" /\ op' = Idle /\ retired' = Creds /\ disk' = disk
    BY <1>8 DEF ResetDone, At
  <2>2. /\ disk.keys = {} /\ disk.journal = NoFile /\ disk.stage = NoFile
        /\ disk.journalStage = NoFile /\ \A c \in Creds : disk.rk[c] = NoFile
    BY <2>1 DEF CredInv, Taken, JournalFirst, Recovering, GoneInv, FilesDone, Resetting
  <2>3. NoFile \notin Record /\ NoFile \notin ResidentReplacement
    BY FileAssumption
  <2> QED
    BY <2>1, <2>2, <2>3, EndedFiles DEF GoneInv, Unpublished, RetiredStaysGone
<1> QED
  BY <1>3, <1>4, <1>5, <1>6, <1>7, <1>8 DEF Reset

\* Steps that leave the files alone.
LEMMA QuietFiles ==
    ASSUME CredInv, CredInv', GoneInv,
           Dispatch \/ Lookup \/ DiscardKey \/ OtherCommand \/ PowerCut
              \/ \E c \in Creds : UpdateUserInformation(c)
    PROVE  GoneInv'
<1>1. disk \in Disk /\ op \in Ops
  BY DEF CredInv, Typed
<1>2. /\ disk' \in {disk, [disk EXCEPT !.keys = disk.keys \ {op.new}]}
      /\ retired' = retired
  BY DEF Dispatch, Lookup, DiscardKey, Mutate, OtherCommand, PowerCut, UpdateUserInformation
<1>3. /\ disk'.rk = disk.rk /\ disk'.stage = disk.stage
      /\ disk'.journalStage = disk.journalStage /\ disk'.journal = disk.journal
  BY <1>1, <1>2 DEF Disk
<1>4. FilesDone'
  <2>1. CASE Lookup
    <3>1. /\ op.pc = "lookup" /\ disk' = disk
          /\ \/ op' \in {Goto("discard"), Goto("write")}
             \/ \E c \in Creds : op' = [op EXCEPT !.pc = "stage", !.old = c]
      BY <2>1 DEF Lookup, At
    <3>2. op'.pc \in {"discard", "write", "stage"} /\ op'.new = op.new
      <4>1. CASE op' \in {Goto("discard"), Goto("write")}
        BY <1>1, <4>1, GotoFields DEF Pcs, Making
      <4>2. CASE \E c \in Creds : op' = [op EXCEPT !.pc = "stage", !.old = c]
        BY <1>1, <4>2 DEF Ops
      <4> QED
        BY <3>1, <4>1, <4>2
    <3>3. Unstaged(op.new)
      BY <3>1 DEF GoneInv, FilesDone
    <3> QED
      BY <3>1, <3>2, <3>3 DEF FilesDone, Unstaged, Resetting
  <2>2. CASE Dispatch
    <3>1. op'.pc \in {"run", "publish"}
      BY <1>1, <2>2, GotoFields DEF Dispatch, Pcs, Recovering
    <3> QED
      BY <3>1 DEF FilesDone, Resetting
  <2>3. CASE DiscardKey \/ OtherCommand \/ PowerCut \/ \E c \in Creds : UpdateUserInformation(c)
    <3>1. op' = Idle
      BY <2>3 DEF DiscardKey, Mutate, OtherCommand, PowerCut, UpdateUserInformation
    <3> QED
      BY <3>1, EndedFiles
  <2> QED
    BY <2>1, <2>2, <2>3
<1> QED
  BY <1>2, <1>3, <1>4, FilesGo DEF GoneInv

\* On empty storage nothing is left over.
LEMMA GoneInit == Init => GoneInv
<1> SUFFICES ASSUME Init PROVE GoneInv
  OBVIOUS
<1>1. disk.stage = NoFile /\ disk.journalStage = NoFile /\ disk.journal = NoFile /\ retired = {}
  BY DEF Init
<1>2. NoFile \notin Record /\ NoFile \notin ResidentReplacement
  BY FileAssumption
<1>3. op.pc = "idle"
  BY IdleFields DEF Init
<1> QED
  BY <1>1, <1>2, <1>3 DEF GoneInv, Unpublished, FilesDone, RetiredStaysGone, Resetting

\* Every step keeps the invariant of the files.
LEMMA GoneNext == CredInv /\ CredInv' /\ GoneInv /\ [Next]_vars => GoneInv'
<1> SUFFICES ASSUME CredInv, CredInv', GoneInv, [Next]_vars PROVE GoneInv'
  OBVIOUS
<1>1. CASE Recover
  BY <1>1, RecoverFiles
<1>2. CASE \E u \in Users, c \in Creds : MakeCredential(u, c)
  BY <1>2, MakeFiles
<1>3. CASE WriteRecord \/ StageRecord \/ StageJournal \/ CommitJournal
  BY <1>3, WriteFiles, StageFiles, CommitFiles
<1>4. CASE \E c \in Creds : DeleteRecord(c)
  BY <1>4, DeleteFiles
<1>5. CASE DeleteKey \/ Reset
  BY <1>5, DeleteKeyFiles, ResetFiles
<1>6. CASE Dispatch \/ Lookup \/ DiscardKey \/ OtherCommand \/ PowerCut
  BY <1>6, QuietFiles
<1>7. CASE \E c \in Creds : UpdateUserInformation(c)
  BY <1>7, QuietFiles
<1>8. CASE UNCHANGED vars
  <2>1. FilesDone'
    BY <1>8 DEF GoneInv, FilesDone, Unstaged, vars
  <2> QED
    BY <1>8, <2>1, SameFiles DEF GoneInv, vars
<1> QED
  BY <1>1, <1>2, <1>3, <1>4, <1>5, <1>6, <1>7, <1>8 DEF Next

\* A credential that was reported as replaced, deleted or reset is gone for good:
\* its key, its record, and every staging file and journal with which recovery
\* could publish it again (delete_resident_key_by_path, reset,
\* recover_resident_replacement).
THEOREM RetiredIsGone == Spec => []RetiredStaysGone
<1>1. GoneInv => RetiredStaysGone
  BY DEF GoneInv
<1> QED
  BY <1>1, GoneInit, GoneNext, CredInvariant, PTL DEF Spec
===========================================================================
