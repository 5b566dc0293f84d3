------------------------ MODULE ResidentCredentials ------------------------
(***************************************************************************)
(* Resident credentials on storage: creation, replacement under a journal, *)
(* deletion, update and reset                                              *)
(* (third_party/fido-authenticator/src/ctap2.rs, credential_management.rs).*)
(*                                                                         *)
(* A credential is identified with its private key and with the path of    *)
(* its record, both of which are new for every credential.  Each step of a *)
(* command makes one storage operation.  The operation succeeds, or it     *)
(* reports an error with or without having taken effect, and power can     *)
(* fail between any two steps; a cut within an operation is an error       *)
(* followed by a cut.                                                      *)
(***************************************************************************)
EXTENDS FiniteSets, Naturals

CONSTANTS
    Users,              \* user handles of one relying party
    Creds,              \* credentials: private key, credential id and path
    MaxCredentials,     \* max_resident_credential_count
    NoFile,             \* the file does not exist
    Empty               \* the file was created and has no content yet

ASSUME CredentialAssumption ==
    /\ {NoFile, Empty} \cap (Users \cup Creds) = {}
    /\ NoFile # Empty
    /\ IsFiniteSet(Creds)
    /\ MaxCredentials \in Nat

VARIABLES
    disk,       \* records, staging files, journal and private keys
    op,         \* the command in work and its next step
    latched,    \* persistence failure: no command is served until a restart
    current,    \* per user: the authoritative credential
    retired     \* credentials the host was told are gone, with their keys

vars == <<disk, op, latched, current, retired>>

Record == [cred : Creds, user : Users]
ResidentReplacement == [old : Creds, new : Creds]

\* A file with content is told from one without.
ASSUME FileAssumption == {NoFile, Empty} \cap (Record \cup ResidentReplacement) = {}

Disk == [rk           : [Creds -> Users \cup {NoFile, Empty}],
         stage        : Record \cup {NoFile, Empty},
         journalStage : ResidentReplacement \cup {NoFile, Empty},
         journal      : ResidentReplacement \cup {NoFile, Empty},
         keys         : SUBSET Creds]

Idle == [pc |-> "idle", make |-> FALSE, user |-> NoFile,
         new |-> NoFile, old |-> NoFile]

Init ==
    /\ disk = [rk |-> [c \in Creds |-> NoFile], stage |-> NoFile,
               journalStage |-> NoFile, journal |-> NoFile, keys |-> {}]
    /\ op = Idle
    /\ latched = FALSE
    /\ current = [u \in Users |-> NoFile]
    /\ retired = {}

-----------------------------------------------------------------------------
(* Storage operations. *)

Readable(c) == disk.rk[c] \in Users

\* Key identifiers are random: a new one is mentioned nowhere.
Fresh(c) ==
    /\ disk.rk[c] = NoFile /\ c \notin disk.keys
    /\ disk.stage \notin {r \in Record : r.cred = c}
    /\ \A j \in {disk.journalStage, disk.journal} :
          j \notin {r \in ResidentReplacement : c \in {r.old, r.new}}

\* One storage operation: it succeeds and the command goes on with next, or it
\* reports an error, with the effect or without or in a state between, and the
\* command goes on with failed.
Mutate(after, between, next, failed) ==
    \/ disk' = after /\ op' = next
    \/ disk' \in {disk, after} \cup between /\ op' = failed

\* A file that did not exist may be left without content.
Created(file) == IF disk[file] = NoFile THEN {[disk EXCEPT ![file] = Empty]} ELSE {}

At(pc) == op.pc = pc
Goto(pc) == [op EXCEPT !.pc = pc]

-----------------------------------------------------------------------------
(* Dispatch and recovery. *)

\* try_get_ctap2_response: a latched runtime answers nothing; recovery comes
\* before every command, reset included.
Dispatch ==
    /\ At("idle") /\ ~latched
    /\ op' = Goto(IF disk.journal = NoFile THEN "run" ELSE "publish")
    /\ UNCHANGED <<disk, latched, current, retired>>

\* recover_resident_replacement: publish the staged record.
Publish ==
    /\ At("publish")
    /\ LET j == disk.journal
           after == IF disk.stage = NoFile THEN disk
                    ELSE [disk EXCEPT !.stage = NoFile,
                             !.rk[j.new] = IF disk.stage = Empty THEN Empty
                                                                 ELSE disk.stage.user]
       IN  \/ /\ j # Empty /\ j.old # j.new
              /\ Mutate(after, {}, Goto("removeOld"), Idle)
           \/ /\ j = Empty \/ j.old = j.new
              /\ op' = Idle /\ UNCHANGED disk
    /\ UNCHANGED <<latched, current, retired>>

\* The old record goes only once the new one can be read.
RemoveOld ==
    /\ At("removeOld")
    /\ \/ /\ Readable(disk.journal.new)
          /\ Mutate([disk EXCEPT !.rk[disk.journal.old] = NoFile], {},
                    Goto("deleteOldKey"), Idle)
       \/ /\ ~Readable(disk.journal.new)
          /\ op' = Idle /\ UNCHANGED disk
    /\ UNCHANGED <<latched, current, retired>>

DeleteOldKey ==
    /\ At("deleteOldKey")
    /\ Mutate([disk EXCEPT !.keys = @ \ {disk.journal.old}], {},
              Goto("removeJournal"), Idle)
    /\ UNCHANGED <<latched, current, retired>>

\* The journal goes last; then the command runs, or the make_credential that
\* wrote the journal answers OK.
RemoveJournal ==
    /\ At("removeJournal")
    /\ Mutate([disk EXCEPT !.journal = NoFile], {},
              IF op.make THEN Idle ELSE Goto("run"), Idle)
    /\ retired' = IF op.make THEN retired \cup {disk.journal.old} ELSE retired
    /\ UNCHANGED <<latched, current>>

-----------------------------------------------------------------------------
(* make_credential with rk. *)

MakeCredential(u, c) ==
    /\ At("run") /\ Fresh(c)
    /\ Mutate([disk EXCEPT !.keys = @ \cup {c}], {},
              [op EXCEPT !.pc = "lookup", !.make = TRUE, !.user = u, !.new = c], Idle)
    /\ retired' = retired \ {c}
    /\ UNCHANGED <<latched, current>>

\* resident_key_by_user_id, the capacity checks, and their errors.  A record
\* that cannot be read is passed over, but it is counted.
Lookup ==
    /\ At("lookup")
    /\ LET olds == {c \in Creds : disk.rk[c] = op.user}
           count == Cardinality({c \in Creds : disk.rk[c] # NoFile})
       IN  \/ op' = Goto("discard")
           \/ \E c \in olds : op' = [op EXCEPT !.pc = "stage", !.old = c]
           \/ olds = {} /\ count < MaxCredentials /\ op' = Goto("write")
    /\ UNCHANGED <<disk, latched, current, retired>>

\* The first credential of a user is written in place.
WriteRecord ==
    /\ At("write")
    /\ Mutate([disk EXCEPT !.rk[op.new] = op.user],
              {[disk EXCEPT !.rk[op.new] = Empty]}, Idle, Goto("discard"))
    /\ current' = IF op' = Idle THEN [current EXCEPT ![op.user] = op.new] ELSE current
    /\ UNCHANGED <<latched, retired>>

StageRecordUnchecked ==
    /\ At("stage")
    /\ Mutate([disk EXCEPT !.stage = [cred |-> op.new, user |-> op.user]],
              Created("stage"), Goto("stageJournal"), Goto("stageJournal"))
    /\ UNCHANGED <<latched, current, retired>>

StageRecord ==
    /\ At("stage")
    /\ Mutate([disk EXCEPT !.stage = [cred |-> op.new, user |-> op.user]],
              Created("stage"), Goto("stageJournal"), Goto("discard"))
    /\ UNCHANGED <<latched, current, retired>>

StageJournal ==
    /\ At("stageJournal")
    /\ Mutate([disk EXCEPT !.journalStage = [old |-> op.old, new |-> op.new]],
              Created("journalStage"), Goto("commit"), Goto("discard"))
    /\ UNCHANGED <<latched, current, retired>>

CommitJournalDiscarding ==
    /\ At("commit")
    /\ Mutate([disk EXCEPT !.journalStage = NoFile, !.journal = disk.journalStage],
              {}, Goto("publish"), Goto("discard"))
    /\ current' = IF disk'.journal # NoFile
                  THEN [current EXCEPT ![op.user] = op.new] ELSE current
    /\ UNCHANGED <<latched, retired>>

\* The rename that commits.  Whatever it reports, the new key is no longer
\* discarded (replacement_committed).
CommitJournal ==
    /\ At("commit")
    /\ Mutate([disk EXCEPT !.journalStage = NoFile, !.journal = disk.journalStage],
              {}, Goto("publish"), Idle)
    /\ current' = IF disk'.journal # NoFile
                  THEN [current EXCEPT ![op.user] = op.new] ELSE current
    /\ UNCHANGED <<latched, retired>>

\* An earlier failure deletes the new private key, and ignores how that ends.
DiscardKey ==
    /\ At("discard")
    /\ Mutate([disk EXCEPT !.keys = @ \ {op.new}], {}, Idle, Idle)
    /\ UNCHANGED <<latched, current, retired>>

-----------------------------------------------------------------------------
(* Credential management and reset: a failure latches the runtime. *)

Forget(c) == [u \in Users |-> IF current[u] = c THEN NoFile ELSE current[u]]
LatchIf(failed) == latched' = (latched \/ failed)

\* delete_resident_key_by_path: the record first.  Until it is gone the user can
\* find the credential.  The key of a record that cannot be read stays, orphaned.
DeleteRecord(c) ==
    /\ At("run") /\ disk.rk[c] # NoFile
    /\ \/ /\ disk' = [disk EXCEPT !.rk[c] = NoFile]
          /\ op' = IF Readable(c) THEN [op EXCEPT !.pc = "deleteKey", !.old = c] ELSE Idle
          /\ LatchIf(FALSE)
       \/ /\ disk' \in {disk, [disk EXCEPT !.rk[c] = NoFile]}
          /\ op' = Idle
          /\ LatchIf(TRUE)
    /\ current' = IF disk'.rk[c] = NoFile THEN Forget(c) ELSE current
    /\ UNCHANGED retired

\* A missing key is an error too.
DeleteKey ==
    /\ At("deleteKey")
    /\ disk' \in {disk, [disk EXCEPT !.keys = @ \ {op.old}]}
    /\ op' = Idle
    /\ \/ /\ op.old \in disk.keys /\ op.old \notin disk'.keys
          /\ LatchIf(FALSE)
          /\ retired' = retired \cup {op.old}
       \/ /\ LatchIf(TRUE)
          /\ UNCHANGED retired
    /\ UNCHANGED current

\* update_user_information rewrites the record in place; names are not modelled.
UpdateUserInformation(c) ==
    /\ At("run") /\ Readable(c)
    /\ op' = Idle
    /\ \E failed \in BOOLEAN : LatchIf(failed)
    /\ UNCHANGED <<disk, current, retired>>

\* reset, up to the deletion of the journal files.  The keys and the records are
\* deleted one by one.
ResetKeys ==
    /\ At("run")
    /\ Mutate([disk EXCEPT !.keys = {}],
              {[disk EXCEPT !.keys = k] : k \in SUBSET disk.keys},
              Goto("resetRecords"), Idle)
    /\ LatchIf(op' = Idle)
    /\ current' = [u \in Users |-> NoFile]
    /\ UNCHANGED retired

ResetRecords ==
    /\ At("resetRecords")
    /\ Mutate([disk EXCEPT !.rk = [c \in Creds |-> NoFile]],
              {[disk EXCEPT !.rk = [c \in Creds |-> IF c \in gone THEN NoFile ELSE @[c]]]
                  : gone \in SUBSET Creds},
              Goto("resetStage"), Idle)
    /\ LatchIf(op' = Idle)
    /\ UNCHANGED <<current, retired>>

ResetFileUnchecked(pc, file, next) ==
    /\ At(pc)
    /\ Mutate([disk EXCEPT ![file] = NoFile], {}, Goto(next), Goto(next))
    /\ LatchIf(op' = Idle)
    /\ UNCHANGED <<current, retired>>

ResetFile(pc, file, next) ==
    /\ At(pc)
    /\ Mutate([disk EXCEPT ![file] = NoFile], {}, Goto(next), Idle)
    /\ LatchIf(op' = Idle)
    /\ UNCHANGED <<current, retired>>

ResetDone ==
    /\ At("resetDone")
    /\ op' = Idle
    /\ retired' = Creds
    /\ UNCHANGED <<disk, latched, current>>

Reset ==
    \/ ResetKeys
    \/ ResetRecords
    \/ ResetFile("resetStage", "stage", "resetJournalStage")
    \/ ResetFile("resetJournalStage", "journalStage", "resetJournal")
    \/ ResetFile("resetJournal", "journal", "resetDone")
    \/ ResetDone

\* Every other command, and every one that is refused, leaves storage alone.
OtherCommand ==
    /\ At("run")
    /\ op' = Idle
    /\ UNCHANGED <<disk, latched, current, retired>>

\* Power fails and comes back.
PowerCut ==
    /\ op # Idle \/ latched
    /\ op' = Idle
    /\ latched' = FALSE
    /\ UNCHANGED <<disk, current, retired>>

-----------------------------------------------------------------------------

Recover == Publish \/ RemoveOld \/ DeleteOldKey \/ RemoveJournal

Next ==
    \/ Dispatch
    \/ Recover
    \/ \E u \in Users, c \in Creds : MakeCredential(u, c)
    \/ Lookup \/ WriteRecord \/ StageRecord \/ StageJournal
    \/ CommitJournal \/ DiscardKey
    \/ \E c \in Creds : DeleteRecord(c) \/ UpdateUserInformation(c)
    \/ DeleteKey
    \/ Reset
    \/ OtherCommand
    \/ PowerCut

Spec == Init /\ [][Next]_vars

-----------------------------------------------------------------------------
(* Properties *)

TypeOK ==
    /\ disk \in Disk
    /\ op.pc \in {"idle", "run", "publish", "removeOld", "deleteOldKey",
                  "removeJournal", "lookup", "write", "stage", "stageJournal",
                  "commit", "discard", "deleteKey", "resetRecords", "resetStage",
                  "resetJournalStage", "resetJournal", "resetDone"}
    /\ latched \in BOOLEAN
    /\ current \in [Users -> Creds \cup {NoFile}]
    /\ retired \in SUBSET Creds

\* The journal is being replayed or waits for it: its credential is the one that
\* the next command finds.
Pending(c) ==
    /\ disk.journal \in ResidentReplacement /\ disk.journal.new = c
    /\ disk.stage \in {r \in Record : r.cred = c}

\* Whatever is interrupted or fails, a user who was given a credential still has
\* it: until the rename of the journal the old one, afterwards the new one, with
\* its key, published or about to be; and whenever a command runs it finds that
\* one alone (make_credential, recover_resident_replacement).
AuthoritativeUsable ==
    \A u \in Users : current[u] # NoFile =>
        /\ current[u] \in disk.keys
        /\ disk.rk[current[u]] = u \/ Pending(current[u])
        /\ At("run") => {c \in Creds : disk.rk[c] = u} = {current[u]}

\* A journal on storage can be replayed, from every state in which recovery may
\* have stopped; otherwise every command, reset included, would fail for ever
\* (recover_resident_replacement runs first in try_get_ctap2_response).
JournalReplayable ==
    disk.journal # NoFile =>
        /\ disk.journal \in ResidentReplacement
        /\ disk.journal.old # disk.journal.new
        /\ IF disk.stage = NoFile THEN Readable(disk.journal.new)
                                  ELSE Pending(disk.journal.new)

\* What the host was told is replaced, deleted or reset is gone and never comes
\* back: neither its key nor its record is on storage, and no staging file or
\* journal left over, with which a recovery could publish it again
\* (recover_resident_replacement, delete_resident_key_by_path, reset).
RetiredStaysGone ==
    \A c \in retired :
        /\ c \notin disk.keys
        /\ disk.rk[c] = NoFile
        /\ disk.stage \notin {r \in Record : r.cred = c}
        /\ \A j \in {disk.journalStage, disk.journal} :
              j \notin {r \in ResidentReplacement : r.new = c}

\* "Earlier failures can safely discard the new key": no published record refers
\* to a key that is being discarded (make_credential).
DiscardSafe == At("discard") => ~Readable(op.new)

=============================================================================
