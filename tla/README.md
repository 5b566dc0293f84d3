# Salpa: TLA+ models, checks and proofs

Salpa is firmware that turns an ESP32-S2 board into a FIDO2 authenticator: a
CTAPHID transport over USB, a FIDO authenticator on Trussed, a physical button,
signed A/B firmware updates over the same USB channel, and a maintenance path
that raises the hardware rollback floor. This directory models the parts of it
whose correctness depends on the order of events: packets of several channels,
replies, timeouts, power cuts, flash operations that fail, and a bootloader that
acts on records the firmware writes.

## Inventory

| Part | State | Operations | What makes it hard | What makes it correct |
|---|---|---|---|---|
| CTAPHID engine, `src/ctaphid.rs` | request and response buffer, receive / application / transmit stage, keepalive, error queue, last channel | ingest, reply, keepalive, expire, next packet, packet sent, transport error | several channels share one transaction; packets interleave with replies; wrapping clock | one transaction at a time, only its owner disturbs it, the response arrives intact, nothing is left in the buffers |
| Boot records, `src/platform/ota.rs` | two otadata records | select, activate, confirm, qualify | each record is replaced by erase and write; the bootloader changes them too | whatever is cut short, a proven image boots |
| USB update, `src/usb_update.rs` | session, next id; the inactive slot | begin, write, advance, status, abort, poll | long multi-request protocol under two deadlines; operations take time and fail | only what was approved, recently, is written and activated |
| Bootloader, `security/esp-idf-bootloader` | boot index | reject unsigned slots, select, fall back | runs after every power cut | reaches an application; a candidate is tried once |
| Epoch maintenance, `src/platform/security_epoch*.rs` | eFuse counter, per-boot latch | qualify, approve, qualify again, burn | irreversible; a burn may be partial | never raised above what can boot |
| Request loop, `src/bin/startup/s2_fido.rs`, `usb_runtime.rs`, `request_completion.rs` | pending event, wait and cancel flags | poll, dispatch, wait hook, reply | the transport is polled from inside a request | a reply goes to the request that produced it |
| Presence, `presence_gate.rs`, `s2_user_presence.rs` | gate phase, debounce timer | poll, confirm | bounce, a button held from before | an approval is a fresh press within its own wait |
| Persistent state, `third_party/fido-authenticator/src/state.rs` | the state file and its initialization marker | load, save, reset, PIN, configuration, counter | power cuts between file writes, writes that fail after they took effect | counters never go back, retries never come back |
| Credential storage, `third_party/fido-authenticator/src/ctap2.rs`, `credential_management.rs`, `dispatch.rs` | credential records, staging files, replacement journal, private keys | create, replace, recover, delete, update, reset | several files change for one command; each operation may fail with its effect | a user keeps one usable credential; what is gone stays gone |
| Provisioning and import, `src/bin/provision-*.rs`, `import-attestation.rs`, `platform/provisioning.rs`, `storage_init.rs`, `attestation*.rs` | the filesystem, the staging sector | arm, format, install, verify, erase | destructive; three images and the firmware meet the same store in any order | nothing is lost without a fresh hold; key and certificate belong together |
| Image verification, `src/signed_image.rs` | position in the slot, hashed prefix | walk segments, locate signature, hash, verify | lengths come from the image | what is accepted is signed as a whole |
| Flash encryption, `platform/flash_encryption.rs`, `storage.rs` | MMU windows, cache lines | map, read, remapped read, write, erase, invalidate | writes pass the cache; calls fail halfway | a read delivers what the flash holds |
| Memory protection, `platform/memory_protection.rs` | permission, monitor and lock registers | configure, read back, lock, fault | inherited locks, registers that ignore writes | the firmware runs only under the whole policy |
| Power-cut test image, `src/bin/storage-powercut-test.rs` | a stage file | arm a fault, judge the recovery | a bench tool | not modelled |

The update handler runs inside the request loop; a BEGIN waits for the button
there. A successful CTAP reply triggers the confirmation of the running image,
which the bootloader reads at the next start. Epoch maintenance reads the same
records and slots, and verifies both images. All of them read and write flash
through the encryption windows; the firmware starts under memory protection, on a
store that the provisioning images have left.

Hard behaviours, in the order of what they can damage: a power cut or a failed
flash operation while a boot record or a slot is being replaced; irreversible
eFuse burns; an approval used after it lapsed or was withdrawn; a reply, a
keepalive or a cancellation that reaches the wrong request because USB is polled
from inside a request; packets of several channels on one transaction; wrapping
and saturating counters. `PROJECT.json` lists them under `hazards`, at their
lines.

## Modules

| Module | Models | Used by |
|---|---|---|
| `CtapHidEngine` | one operator per method of `CtapHid<N>`, on a record with its fields | `CtapHid`, `Runtime` |
| `CtapHid` | the engine called in any order with any report, and the host's reassembly of responses | `MCCtapHid`, `Transport_proofs` |
| `Runtime` | the request loop and the three waits that poll USB, composed with the engine | `MCRuntime`, `Transport_proofs` |
| `PresenceGate` | one wait of `presence_gate.rs` against arbitrary samples and clocks | `MCPresenceGate`, `EpochTransaction_proofs` |
| `OtaData` | the pure part of `ota.rs`: record selection, layouts, the rules of activation and confirmation | `SignedUpdate` |
| `UpdateSession` | the `Session` struct of `usb_update.rs` and its transitions | `UsbUpdate`, `SignedUpdate` |
| `UsbUpdate` | the update protocol request by request, against the clock | `MCUsbUpdate`, `SignedUpdate_proofs` |
| `SignedUpdate` | session, boot records, slots, rollback floor and bootloader across power cuts | `UpdateRefinement` |
| `EpochTransaction` | one PROGRAM or REHEARSE request around the eFuse burn, across restarts | `MCEpochTransaction`, `EpochTransaction_proofs` |
| `PersistentState` | the authenticator's state file and the commands that change it, write by write | `MCPersistentState`, `PersistentState_proofs` |
| `ABDevice` | what an A/B device promises: a home image, an offer that is started once, a floor | `UpdateRefinement` |
| `UpdateRefinement` | the refinement mapping from `SignedUpdate` to `ABDevice` | `MCSignedUpdate`, `SignedUpdate_proofs` |
| `ResidentCredentials` | credential records, the replacement journal and private keys, one storage operation per step | `MCResidentCredentials`, `ResidentCredentials_proofs` |
| `Provisioning` | the provisioning images, the import and the start of the firmware over one store | `MCProvisioning`, `Provisioning_proofs` |
| `FlashEncryption` | windows, cache lines and flash content | `MCFlashEncryption`, `FlashEncryption_proofs` |
| `SignedImage` | `verify_installed_slot` on a bounded machine word | `ProtectedVerification` |
| `MemoryProtection` | the permission, monitor and lock registers | `ProtectedVerification` |
| `ProtectedVerification` | the start of the firmware: memory protection, then image verification under it | `MCProtectedVerification`, `ProtectedVerification_proofs` |
| `*_proofs` | the theorems about the modules they extend: `Transport_proofs` about `CtapHidEngine`, `CtapHid` and `Runtime`, `SignedUpdate_proofs` about `UsbUpdate` too, `EpochTransaction_proofs` about `PresenceGate` too | |

### State and actions against the code

- **CtapHidEngine.** The record has the fields of `struct CtapHid`; `request` and
  `response` hold the units written since they were last zeroized. A report
  carries one datum, copied as often as the code copies bytes out of it. Every
  early return of `ingest` is a branch in the same order. `CtapHid` makes each
  public method an action and adds `rx`, the host's partial message.
- **Runtime.** `MainLoop` is one turn of the loop up to the copied request;
  `BeginWait`, `ConsentWait` / `ConsentInterrupted` (Trussed's loop for CBOR
  requests), `Confirm` (updates and maintenance) and `Requalify` (the last poll
  before a burn) are the waits; `CompleteRequest` is `complete_cbor` /
  `complete_update`. `PollAt` is `poll_at` with everything it calls: ingest,
  expiry, one packet out, and the reset on a failed transfer. The instant of a
  poll and whether a keepalive is due are chosen freely, which covers every
  timing. A FIDO request waits at most once: every use of `user_present` in
  `fido-authenticator` returns on its error.
- **PresenceGate.** `Poll` and `PollNothing` are `PresenceGate::poll` with and
  without a sample. `samples`, the levels given so far, exists only for the
  properties.
- **UpdateSession, UsbUpdate.** An image is a value with two attributes (signed,
  secure version) and `Blocks` blocks; `hashed` is the sequence of block contents
  the digest was fed with, so "the digest matches" is "the sequence is the
  announced image". Flash operations take up to `OpTime` and may fail, leaving a
  torn block. Deadlines follow `Session::expire`, including a clock that seems
  to go back.
- **OtaData, SignedUpdate.** A record is its sequence number and state; a failed
  CRC and an erased record are both `ErasedEntry`. `replace_entry` is two steps,
  `StartReplace` (erase) and `FinishReplace` (write), with `flight` between them:
  the firmware does nothing else meanwhile, but power may fail. `ReplaceFails`
  covers an erase, write or readback that reports an error, with the record
  written or not. The bootloader's selection (`BootSelect`, `BootAbort`,
  `BootLoad`) is ESP-IDF code around `bootloader_start.c`; its record updates go
  through the same two steps. `CandidateDecays` lets a slot that is not running
  and has not proven itself lose a block at any time. Time is left out: a session
  may time out at any moment. `RaiseFloor` is the burn of the security epoch
  under its qualification, possibly partial; `EpochTransaction` has its steps.
- **EpochTransaction.** BLOCK0 is the set of its one bits, `fuses` the array and
  `regs` the copy the software reads, current only after a refresh. `Request` is
  the first `qualify` of `handle_program` / `handle_rehearse`, `Approve` / `Deny`
  the wait, `Requalify` the second `qualify`; `Preflight`, `Stage`, `Burn` and
  `Verify` are `attempt` in the order of its effects, each with its error
  returns. A burn sets any subset of the staged bits, whatever it returns, so a
  power cut in the middle of it is `Burn` followed by `PowerCut`. A clear of the
  program registers may fail and leave one of `Residues`. `Update` changes slot
  and records between requests, `Decay` damages them during the wait. `INSPECT`
  changes nothing and is left out.
- **PersistentState.** `file` is `persistent-state.cbor`, `ram` the loaded
  `PersistentState`. A command is split at its saves: `VerifyPin` (up to
  `decrement_retries`), `Compare`, `ResetRetries`, then `Grant` or `ChangePin`;
  `SetPin` and `ResetRetries`; `SetMinPinLength`, `StoreMinLength`, `StoreRpIds`;
  `ResetKeys`, `ResetState`, `ResetRuntime`. `Save` succeeds, or reports an error
  with the file replaced or not and ends the command; `PowerCut` may follow any
  step and may find the file missing, the case the initialization marker is for.
  The two PIN protocols share one token, since issuing one resets both. The ten
  second window of a reset and the user's approval are left to chance. `wrong`,
  `tried`, `used` and `lived` exist only for the properties.
- **ABDevice, UpdateRefinement.** The abstract device knows the home image, the
  executing one, whether a candidate is offered or has been started, and the
  floor. `HomeSlot` is the slot of the `VALID` record, the selected one or, while
  a candidate is selected, the other. A record that is still `PENDING_VERIFY` at
  the next start offers nothing: the bootloader aborts it.
- **ResidentCredentials.** A credential is its private key and the path of its
  record. `Dispatch` is `try_get_ctap2_response`, with recovery before every
  command; `Publish`, `RemoveOld`, `DeleteOldKey`, `RemoveJournal` are
  `recover_resident_replacement`; `MakeCredential` to `CommitJournal` and
  `DiscardKey` are `make_credential` with `rk`; `DeleteRecord`, `DeleteKey`,
  `UpdateUserInformation` are credential management, `Reset*` the reset.
  `Mutate` is one storage operation: it succeeds, or it reports an error with or
  without its effect, or with a new file left empty. `current` and `retired` say
  what the host was told and exist only for the properties; a deleted credential
  stays `current` until its record is gone, so that deleting the key first would be
  noticed. A retired credential has left neither a key nor a record, nor a staging
  file or journal that names it as the new one.
- **Provisioning.** `Boot` starts one of the images; `Sample` is a turn of the
  arming loop with `ProvisioningGesture::sample`; the other actions are the
  mutations and checks of the images in their order, each of which may fail and
  stop the image. `Roundtrip` is the destructive self test of encrypted builds,
  which hits whatever lay in the last sector. `samples` exists only for the
  properties.
- **FlashEncryption.** Each call is one step: the program has one thread, and no
  interrupt handler touches the flash. `ReadUpdatePage` points the first
  descriptor's window elsewhere and back, and either call may fail; `Complete`
  and `Fail` are `write_inner` / `erase_inner`, with the early return that skips
  the invalidation. `unsettled` marks the blocks of such a failure until
  something drops their lines; a caller that was told of an error may read them
  stale, and `CoherentReads` exempts them. `importer` is a boot of the attestation
  importer, which reads and erases the second descriptor's page through its own
  window and never remaps; the firmware reads descriptors only before it confirms
  itself and remaps only afterwards, so a window left on another page is not read.
- **SignedImage.** One round of a loop per step. The verdicts of metadata, CRC,
  digest and RSA may go either way; the arithmetic is the code's, on words of
  `Word` values.
- **MemoryProtection, ProtectedVerification.** A permission register is reduced
  to "equals the policy under its mask". Any register may ignore writes, a locked
  one does. `main` runs `configure` first, so verification steps happen only in
  stage `running`; a memory fault halts them, a restart forgets them.

## Runs

| Run | Asks | Shows |
|---|---|---|
| `ctaphid` | can one channel disturb another's transaction, and do messages survive fragmentation, errors, keepalives and timeouts? | `OneTransaction`, `OwnerOnly`, `BuffersExact`, `ResponseDelivered`, `StalledReceiveEnds` |
| `runtime` | do replies, keepalives, approvals and cancellations stay with their request? | `ReplyToItsRequest`, `ConsentStands`, `NoStaleCancellation`, `WithdrawnEnds` |
| `presence_gate` | is an approval exactly a fresh gesture? | `ApprovalIsFresh`, `WaitEnds` |
| `usb_update` | can an approval be used after it lapsed, or for something else? | `FreshApproval`, `ProgramOnlyErased`, `ApprovalLapses` |
| `signed_update` | can any interruption leave the device without an image, or run an unproven one twice? | `AlwaysBootable`, `SelectedRecordSound`, `ActivationSelected`, `RunningSlotUntouched`, `ImplementsABDevice`, `BootCompletes` |
| `epoch_transaction` | can an attempt burn what was not planned, or twice? | `OnlyCounterBits`, `BurnOnce`, `BurnOnlyQualified`, `OkMeansBurned` |
| `persistent_state` | can a restart or a failed write bring back retries, keep a token alive, weaken the PIN policy or repeat a counter? | `RamIsFile`, `GuessesBounded`, `TokenCurrent`, `PolicyEnforced`, `CounterAhead`, `NoSilentReinit`, `ForcedChangeStays` |
| `resident_credentials` | can a failure or a power cut cost a user a credential, block recovery or bring back what was deleted? | `AuthoritativeUsable`, `JournalReplayable`, `RetiredStaysGone` |
| `provisioning` | can the firmware serve a mismatched identity, or the store be lost without consent? | `IdentityMatches`, `StoreKept` |
| `flash_encryption` | can a read deliver something else than the flash holds? | `CoherentReads` |
| `protected_verification` | can the firmware run with part of the memory policy, or accept an image that is not signed as a whole? | `ProtectedOrStopped`, `SignedWholeImage` |
| `resident_discard` | may the key of a failed creation always be discarded? | violates `DiscardSafe` |

All but the last pass. Each of their properties has a mutant, a plausible slip in
one mapped definition (a dropped guard, a missing reset), under which it fails;
the mutants stand next to the definitions they replace.

`resident_discard` is a disagreement between the code and its comments. The first
credential of a user is written straight to its record. If that write reports an
error although it reached storage, `make_credential` deletes the new private key
(`ctap2.rs:738`, "Earlier failures can safely discard the new key."), and a record
without a key stays listed; the same function allows for such a write a few lines
above ("A failed syscall may still have committed its storage operation.",
`ctap2.rs:711`), and `third_party/README.md:45` promises a latch after a failed
credential write. The host was never told that the credential exists, so
`AuthoritativeUsable` is not affected.

What the runs taught about the code besides, none of it a contradiction of its
documentation:

- `reply` leaves a queued keepalive in place. It is harmless because a keepalive
  can only be queued while a request is pending and is sent before the first
  packet of the response (part of `ReplyToItsRequest`).
- `poll_wait` drops the event of the poll it makes. No request is lost by that,
  only because an abort of the request in work raises the interruption in the
  same poll, and both wait loops look at it before they poll again
  (`ReplyToItsRequest`; the mutant that interrupts on CANCEL only breaks it).
- An activation with sequence `u32::MAX` succeeds but is never selected, since
  that value marks an erased record; `ActivationSelected` excludes it, and
  `AlwaysBootable` and `SelectedRecordSound` show that the device goes on with the
  image it has. Reaching it takes some four billion updates.
- A `VALID` record of the slot that is not executing may outlive its content, as
  an aborted update leaves new blocks under the old record. The epoch
  qualification then accepts a fallback that never ran, if it is authentic, not
  below the target, and the one the maintenance plan names by digest. The device
  stays bootable.
- `verify_development_attestation` looks at the key and the certificate each by
  itself. That they belong together rests on the installers: the import proves
  the key before it injects it and refuses a store that is not fresh
  (`IdentityMatches`; dropping the proof breaks it).
- After a failed write or erase the cache may hold the old content until the next
  remapping; `read_update` remaps for every page and so repairs it.

### Bounds

- CTAPHID: two channels that can be handed out plus broadcast, so that channels
  compete and the counter wraps; messages up to three packets, the largest
  `CtapHid::new` admits for two sequence numbers, so that the sequence space is
  exhausted; an error queue smaller than the number of channels; a clock just
  longer than the receive timeout, so that it wraps within a request. One datum
  is enough, as the buffers are compared with their lengths.
- Runtime: requests of three different lengths, enough to tell a request from
  another one on the same channel.
- PresenceGate: the clock allows a release, a hold of two units and a release,
  with one unit to spare before the deadline; one sample per instant.
- UsbUpdate: two blocks, three session identifiers so that `next_id` wraps, a
  clock that reaches past both deadlines of a session.
- SignedUpdate: two blocks, so that a partly erased and a partly written slot
  exist; sequences up to 7, so that several updates in both directions happen and
  the end of the sequence space is reached; a floor that can pass the version of
  the old image; an unsigned image with an acceptable version.
- EpochTransaction: a counter of four bits with bit 1 set and target 3, so that
  the free bits are not contiguous and a burn can stop in between; residues that
  set a counter bit and the write-disable bit; a second signed image below the
  target and an unsigned one.
- PersistentState: five retries, two per power cycle, so that the limit is
  reached over three restarts; a PIN at and one above the default minimum; a
  counter that overflows after two or three signatures; two keys, so that one can
  be created after a reset.
- ResidentCredentials: two users, room for two records, four credentials, so that
  a replacement meets leftovers of an earlier one; users and credentials are
  symmetric. `resident_discard` needs one user.
- Provisioning: two identities, one of them the development one; a hold of two
  samples in a window of five, so that a broken hold and a late one happen.
- FlashEncryption: one page with its own window, both descriptors, two blocks, so
  that a call touches part of a page, booting the firmware and the importer.
- ProtectedVerification: two buses, at most two registers that ignore writes; up
  to three segments of any length on words of 512 values and a slot of 256, so
  that sums overflow, meet the end of the slot and miss it by one.

### Fairness

`CtapHid` and `UsbUpdate`: the loop polls again and again and time passes.
`PresenceGate`: `confirm` polls in a loop and time passes; only a clock that does
not go back for ever is required (`WaitEnds` says so itself). `Runtime`: the
firmware has one thread and does not sleep, so a handler goes on; no timeout is
relied upon. `EpochTransaction`, `PersistentState`,
`ResidentCredentials`, `Provisioning`, `FlashEncryption` and
`ProtectedVerification` have safety properties only. `SignedUpdate`: a powered bootloader runs by itself and a flash
operation under way ends; `BootCompletes` speaks of executions in which power
eventually stays on.

## Proofs

Every safety property that a passing run checks is a theorem. The theorems hold
for every value of the constants that meets the named assumptions of the modules;
TLC evaluates those assumptions in every run. A proof module states one inductive
invariant for each specification it treats (two for the refinement), which TLC
checked on the run's instance before it was proved, then one lemma per operation
or action, then the theorems. Specifications that share a proof module have their
own names for their parts (`Init` and `Spec` of `SignedUpdate`, `ProtocolInit` and
`ProtocolSpec` of `UsbUpdate`, `RuntimeSpec`, `GateSpec`).

| Module | Inductive invariant | Theorems |
|---|---|---|
| `SignedUpdate_proofs` | `Inv`, `DeviceInv`, `ProtocolInv` | `Invariance`, `TypeCorrect`, `SelectionSafe`, `NeverBricked`, `RunningSlotSafe`, `DeviceInvariance`, `ActivationIsSelected`, `Refinement`; `ProtocolInvariance`, `ApprovalsStayFresh`, `OnlyErasedProgrammed` |
| `EpochTransaction_proofs` | `Inv`, `GateInv` | `EpochInvariance`, `SuccessExact`, `LocksSafe`, `SingleBurn`, `BurnSafe`; `GateInvariant`, `ApprovalsAreFresh` |
| `PersistentState_proofs` | `StateInv` | `StateInvariant`, `TypeCorrect`, `RamIsFileHolds`, `GuessesAreBounded`, `TokenIsCurrent`, `PolicyIsEnforced`, `CounterIsAhead`, `NeverReinitialised`, `ForcedChangeIsKept` |
| `ResidentCredentials_proofs` | `CredInv`, `GoneInv` | `CredInvariant`, `TypeCorrect`, `AuthoritativeIsUsable`, `JournalIsReplayable`, `RetiredIsGone` |
| `Provisioning_proofs` | `ProvInv` | `ProvisioningInvariant`, `IdentityAlwaysMatches`, `StoreIsKept` |
| `FlashEncryption_proofs` | `FlashInv` | `FlashInvariant`, `TypeCorrect`, `ReadsAreCoherent` |
| `ProtectedVerification_proofs` | `WalkInv`, `PolicyInv` | `ProtectedInvariant`, `WholeImageIsSigned`, `ProtectedIsRunning` |
| `Transport_proofs` | `TransportInv`, `LoopInv` | `TransportInvariant`, `SingleTransaction`, `BuffersAreExact`, `OwnersOnly`, `ResponsesArrive`, `LoopInvariant`, `RepliesMatch`, `ConsentHolds`, `CancellationsAreFresh` |

The assumptions say what the code's constants and types give: sizes and limits
are naturals in the code's relations (an odd `MaxSequence`, at least one block, a
message that `CtapHid::new` admits, a slot of whole sectors that fits a word);
and the values that stand for `None`, an absent file or an erased block are none
of the values they are told apart from (`MissingAssumption`, `FileAssumption`,
`NoneAssumption`, `ReassemblyAssumption`, `ContentAssumption` and the like), which in Rust the type
`Option` guarantees.

**Signed update.** `SelectedRecordSound` is not inductive. Between erase and write
only one record exists, and what is about to be written decides whether the
selection stays sound: `FlightSound` records it. A session erases and writes
minutes after it read the layout: `SessionSound` says that the records are still
those it started from and that its target is not the running slot.
`RunningLoadable` is what lets a confirmation vouch for the running slot. `Inv` is
the conjunction of these with `TypeOK`; the proof has one lemma per action, resting
on two frame lemmas (`FrameRecords`, `FrameSlot`) and on `ReplaceStarts` /
`ReplaceEnds` for the two halves of a replacement. `AlwaysBootable` follows from
`SelectedRecordSound`.

**Refinement of `ABDevice`.** `DeviceInv` adds what the abstract device needs to
know: which of the callers of `replace_entry` a replacement in flight belongs to
(`FlightFits`), that a `NEW` record is selected only before the bootloader has seen
it or while the home image still runs (`OfferFits`), and that a bootloader has no
session (`SessionFits`). Init maps to Init; each action is one step of the abstract
device or leaves its four variables alone (`DeviceStep`): erasing and filling the
inactive slot, half of a record replacement and a failed operation are stutters,
the completed write of a record is the offer, the trial, the confirmation or the
withdrawal. The point of the invariant is that the home image stays the same
while either record is in flight.

**Update protocol.** `ProtocolInv` ties a live session to the press that approved
it and to the flash. `Tracks`: its image is the approved one, `started_ms` is the
instant of the press and `last_progress_ms` that of the last progress, so that the
clauses of `Session::expire` are the deadlines `FreshApproval` speaks of.
`PhaseFits`: the blocks up to `completed` are erased while erasing, those behind it
are still erased while receiving, and `hashed` is what flash holds up to it while
verifying; a session that fails, lapses or is replaced leaves no such claim, and
the next one starts by erasing. `PolledLive` gives every handler what its entry
check establishes; `ExpireFacts` and `ProgressFacts` what the two clock checks make
of a session; `FinishStep` is the activation, where the deadline is checked again
at the instant that counts.

**Presence gate.** `ApprovalIsFresh` speaks of the samples, the code keeps three
fields. `SinceIsStart` says that `since` is the instant at which the last run of
equal samples began, `PhaseEarned` which runs of samples each phase has behind it,
and `PhaseDue`, for the converse, that no run long enough for the next phase has
been passed over. `SamplesInOrder` is why the age of a level is never negative.

**Epoch transaction.** The invariant follows the request: from the second
qualification on the change is the plan's and the slots are as qualified
(`ChangeQualified`), and from the preflight on the attempt is latched and the array
is the plan's `expected_block0` (`AttemptLatched`). That a burn reaches exactly the
target, and a partial one never passes it, rests on `DeltaSize`: the bits whose
number of free bits below is less than the deficit are exactly as many as the
deficit. It is proved by counting (an injection into an interval one way, the least
free bit left out the other way), since induction over data is out of reach.

**Persistent state.** The bounds on guesses hold since an attempt is counted on
flash before it is compared: `WrongCounted` and `TriedCounted` say how far the
count is ahead at each step of a command, `Sound` what a restart may rely on in
the file whenever it finds one. `ForcedFirst` carries the order of the two saves
in `config_set_min_pin_length`, `TokenKept` the tokens that survive it,
`KeysFresh` that a reset deletes the keys before the counter starts over,
`MarkerFirst` that nothing can be guessed or created before the marker is gone.
One lemma treats the three outcomes of `Save`; each command rests on it.

**Resident credentials.** `AuthoritativeUsable` needs to know for every step of
recovery what the earlier steps have done (`Recovered`), that at most the two
credentials of the journal share a user (`OneRecord`), that the journal never
retires the authoritative one (`Backed`), and that a credential in the making, in
deletion or in reset is nobody's (`InTheMaking`, `Staged`, `Taken`). A failed
operation and a power cut both fall back to states these already admit. On top of
`CredInv`, `GoneInv` is about files: what is staged is not published
(`Unpublished`), and creation, deletion and reset tell the host only when nothing
is left from which the credential could come back (`FilesDone`). That makes
`RetiredStaysGone` inductive: a creation stages and writes only while the
credential has its key, which a retired one has not, and recovery publishes only
what a staging file and a journal name.

**Provisioning.** `Paired` says that key and certificate in their final places
belong together in every state, not only when the firmware serves; that takes what
the staging sector and the temporary files hold at each step of an installation
(`StagingBound`, `Copied`, `Unused`). `GestureSound` ties the debounce state to the
samples, so that an image past its arming loop has seen the hold (`Held`).

**Flash encryption.** `LinesCurrent` speaks only of windows still in use: the
temporary window may be stale or misplaced after the running image has been
confirmed, when nothing reads its descriptor any more, and all windows are in use
in the importer; `WindowsFixed` is why a
remapped read leaves the others alone.

**Image verification and memory protection.** `WalkInv` bounds the position by the
room the trailer and the signature sector need, so that no sum of machine words
wraps; from there on rounding to a sector stays within the slot. `PolicyInv` says
that every bus is unlocked until the whole policy has been read back.

**Transport.** `HidSound` relates the stages of the engine to its two buffers and
to the packets seen and sent; each method of the engine has a lemma that it
preserves `HidSound` and says what it does to the transaction. `OneTransaction`,
`BuffersExact` and `OwnerOnly` follow for `CtapHid`; `ResponseDelivered` needs
`HostFollows`, that within a response the host holds exactly the part sent. `Runtime` extends the same engine and shares its variable `hid`, so the lemmas serve
the loop again. `LoopInv` adds where in the loop a
request can have been taken back and which flags say so (`Places`, `FlagOwned`),
and that a keepalive is queued only for the request in work or the response that
follows it (`KeepaliveFits`).

Only model-checked:

- all liveness (`BootCompletes`, `ApprovalLapses`, `StalledReceiveEnds`,
  `WaitEnds`, `WithdrawnEnds`), which needs fairness and `ENABLED` and is out of the
  prover's reach;
- the violation of `DiscardSafe`, which is a counterexample.

## Not modelled

Byte layouts and CBOR; the verdicts of RSA, SHA-256 and CRC, which may go either
way. Entropy, identity and build configuration format constants and decide nothing
over several steps. `maintenance_presence.rs` is a gesture machine that the
firmware does not use; the epoch preview only reads. `storage-powercut-test.rs` is
a bench tool: what it provokes on purpose, the modules of the store choose freely.
Of the FIDO authenticator what changes its storage is modelled; enumeration, token
timers and permissions and the content of requests are not. Replay of an old flash
image is outside the model, as it is outside the code
(`tests/persistent-state/README.md`).

## Plan

Done, in this order: the CTAPHID engine; boot records, update session and their
composition across power cuts, with proofs; the update protocol against time; the
presence gate; the request loop composed with the engine; the epoch transaction,
with proofs; the persistent FIDO state; resident credentials; provisioning; flash
encryption; image verification under memory protection; the abstract A/B device
and the refinement to it.

Left to model: `PinToken`, the permissions, relying party binding and timers of
`ctap2/pin.rs` with the enumeration cursors they authorise.

Proved: every safety property of the passing runs, and the refinement of
`ABDevice`.

Next, proofs: what a new module needs. Of the present ones only the liveness
properties are without a theorem.
