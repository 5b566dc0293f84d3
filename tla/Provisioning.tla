---------------------------- MODULE Provisioning ----------------------------
(***************************************************************************)
(* The life of the credential store from an unknown flash content to a     *)
(* serving authenticator: the destructive images provision-storage and     *)
(* provision-development, import-attestation, and the checks of the normal *)
(* firmware (src/bin, src/platform/storage_init.rs, attestation*.rs,       *)
(* provisioning.rs).                                                       *)
(*                                                                         *)
(* One image is flashed and started at a time, in any order.  Each step    *)
(* makes one mutation of flash; it succeeds, or it fails in one of the     *)
(* states that mutation can leave and the image stops with its error       *)
(* signal.  Power can fail after any step.                                 *)
(***************************************************************************)
EXTENDS Naturals, Sequences

CONSTANTS
    Identities,     \* attestation identities: a private key and its certificate
    Development,    \* the identity compiled into provision-development
    Hold,           \* REQUIRED_HOLD_MS, in samples of the button
    Window,         \* ARMING_WINDOW, in samples of the button
    NoFile,         \* the file does not exist
    Bad,            \* the file cannot be read, or not as what it should be
    Good,           \* content of an intact marker or state file
    Blank           \* the erased staging sector

ASSUME ProvisioningAssumption ==
    /\ Development \in Identities
    /\ {NoFile, Bad, Good, Blank} \cap Identities = {}
    /\ Hold \in Nat /\ Window \in Nat
    /\ NoFile \notin Nat

VARIABLES
    formatted,      \* littlefs can be mounted
    files,          \* the files of the store that matter here
    staging,        \* the staging sector of the import image
    image,          \* the image that runs, "none" without power
    pc,             \* its next step; "halted" once it signals an error
    expected,       \* the identity an import image is bound to
    gesture,        \* its ProvisioningGesture
    samples         \* levels of the button since start, TRUE for pressed

vars == <<formatted, files, staging, image, pc, expected, gesture, samples>>
store == <<formatted, files>>

\* version: .rissokey-storage-format; init: persistent-state.init; key, cert:
\* fido/sec/00 and fido/x5c/00; tmpKey, tmpCert: the same under a generated
\* name; data: what the firmware stores, persistent-state.cbor first; trussed:
\* the generator state Trussed keeps.
Files == {"version", "init", "key", "cert", "tmpKey", "tmpCert", "data", "trussed"}
NoFiles == [f \in Files |-> NoFile]
Payload == [key : Identities, cert : Identities]

\* ProvisioningGesture::new; pressed_since_ms is None outside a press.
NewGesture == [release_seen |-> FALSE, pressed_since_ms |-> NoFile]

\* A device nobody has provisioned yet.
Init ==
    /\ formatted = FALSE
    /\ files = NoFiles
    /\ staging = Blank
    /\ image = "none" /\ pc = "off" /\ expected = Development
    /\ gesture = NewGesture /\ samples = <<>>

-----------------------------------------------------------------------------
(* Power, images and the physical confirmation. *)

Run(i, first, e) ==
    /\ image = "none"
    /\ image' = i /\ pc' = first /\ expected' = e
    /\ gesture' = NewGesture /\ samples' = <<>>
    /\ UNCHANGED <<formatted, files, staging>>

\* The destructive images and the import arm first; the firmware starts at once.
Boot ==
    \/ Run("storage", "arm", Development)
    \/ Run("development", "arm", Development)
    \/ \E e \in Identities : Run("import", "arm", e)
    \/ Run("firmware", "mount", Development)

PowerCut ==
    /\ image # "none"
    /\ image' = "none" /\ pc' = "off" /\ expected' = Development
    /\ gesture' = NewGesture /\ samples' = <<>>
    /\ UNCHANGED <<formatted, files, staging>>

\* The host writes the staging sector through the ROM while no image runs.
StagePayload(payload) ==
    /\ image = "none"
    /\ staging' = payload
    /\ UNCHANGED <<formatted, files, image, pc, expected, gesture, samples>>

At(i, step) == image \in i /\ pc = step
Destructive == {"storage", "development"}

GestureKeepsHold(g, pressed, now_ms) ==
    IF ~pressed THEN [g EXCEPT !.release_seen = TRUE]
    ELSE IF g.release_seen /\ g.pressed_since_ms = NoFile
         THEN [g EXCEPT !.pressed_since_ms = now_ms]
         ELSE g

\* ProvisioningGesture::sample: what it leaves, and what it answers.
GestureAfter(g, pressed, now_ms) ==
    IF ~pressed THEN [release_seen |-> TRUE, pressed_since_ms |-> NoFile]
    ELSE IF g.release_seen /\ g.pressed_since_ms = NoFile
         THEN [g EXCEPT !.pressed_since_ms = now_ms]
         ELSE g

Confirmed(g, pressed, now_ms) ==
    pressed /\ g.release_seen /\ now_ms - g.pressed_since_ms >= Hold

\* One turn of the arming loop.
Sample(pressed) ==
    /\ At({"storage", "development", "import"}, "arm")
    /\ LET now_ms == Len(samples)
           g == GestureAfter(gesture, pressed, now_ms)
       IN  \/ /\ now_ms >= Window
              /\ pc' = "halted" /\ UNCHANGED <<samples, gesture>>
           \/ /\ now_ms < Window
              /\ samples' = Append(samples, pressed)
              /\ gesture' = g
              /\ pc' = IF ~Confirmed(g, pressed, now_ms) THEN "arm"
                       ELSE CASE image = "storage" -> "roundtrip"
                              [] image = "development" -> "format"
                              [] image = "import" -> "parse"
    /\ UNCHANGED <<formatted, files, staging, image, expected>>

-----------------------------------------------------------------------------
(* Mutations of the store. *)

\* The mutation succeeds and the image goes on, or it fails in one of the given
\* states and the image stops.
Mutate(after, next, failures) ==
    /\ \/ files' = after /\ pc' = next
       \/ files' \in failures \cup {files, after} /\ pc' = "halted"
    /\ UNCHANGED <<formatted, staging, image, expected, gesture, samples>>

\* A new file may be left without its content.
Write(f, content, next) ==
    Mutate([files EXCEPT ![f] = content], next,
           IF files[f] = NoFile THEN {[files EXCEPT ![f] = Bad]} ELSE {})

\* A step that only checks.
Check(ok, next) ==
    /\ pc' = IF ok THEN next ELSE "halted"
    /\ UNCHANGED <<formatted, files, staging, image, expected, gesture, samples>>

\* verify_encrypted_roundtrip erases the last sector of the store, whatever it
\* held, and writes and reads a pattern there; unencrypted builds skip it.
Roundtrip ==
    /\ At({"storage"}, "roundtrip")
    /\ \/ \E lost \in SUBSET Files :
             files' = [f \in Files |-> IF f \in lost /\ files[f] # NoFile
                                       THEN Bad ELSE files[f]]
       \/ UNCHANGED files
    /\ formatted' \in {formatted, FALSE}
    /\ pc' \in {"format", "halted"}
    /\ UNCHANGED <<staging, image, expected, gesture, samples>>

\* Filesystem::format; cut short it leaves the old filesystem or none.
Format ==
    /\ At(Destructive, "format")
    /\ \/ formatted' = TRUE /\ files' = NoFiles /\ pc' = "version"
       \/ formatted' = TRUE /\ files' = NoFiles /\ pc' = "halted"
       \/ formatted' = FALSE /\ files' = NoFiles /\ pc' = "halted"
       \/ UNCHANGED store /\ pc' = "halted"
    /\ UNCHANGED <<staging, image, expected, gesture, samples>>

\* write_storage_version
WriteStorageVersion ==
    /\ At(Destructive, "version")
    /\ Write("version", Good, IF image = "storage" THEN "init" ELSE "injectKey")

\* write_persistent_state_initialization_marker; last in both images.
WriteInitializationMarker ==
    /\ At(Destructive, "init")
    /\ Write("init", Good, "done")

-----------------------------------------------------------------------------
(* Installation of an identity, in provision-development and the import. *)

Installers == {"development", "import"}
InstalledKey == IF image = "import" THEN staging.key ELSE Development
InstalledCert == IF image = "import" THEN staging.cert ELSE Development

\* unsafe_inject_key; Trussed stores its generator state first.
InjectKey ==
    /\ At(Installers, "injectKey")
    /\ LET started == [files EXCEPT !["trussed"] = Good]
       IN  Mutate([started EXCEPT !["tmpKey"] = InstalledKey], "writeCert",
                  {started, [started EXCEPT !["tmpKey"] = Bad]})

WriteCertificate ==
    /\ At(Installers, "writeCert")
    /\ Write("tmpCert", InstalledCert, "renameKey")

\* Neither target may exist; then the key is renamed to its special identifier.
RenameKey ==
    /\ At(Installers, "renameKey")
    /\ IF files["key"] = NoFile /\ files["cert"] = NoFile
       THEN Mutate([files EXCEPT !["key"] = files["tmpKey"], !["tmpKey"] = NoFile],
                   "renameCert", {})
       ELSE Check(FALSE, "renameCert")

RenameCert ==
    /\ At(Installers, "renameCert")
    /\ Mutate([files EXCEPT !["cert"] = files["tmpCert"], !["tmpCert"] = NoFile],
              "verify", {})

\* verify_development_attestation: a valid key and a certificate with the
\* AAGUID; that they belong together is not looked at.
AttestationPresent == files["key"] \in Identities /\ files["cert"] \in Identities

\* Both records are read back.
VerifyInstalled ==
    /\ At(Installers, "verify")
    /\ Check(AttestationPresent /\ files["cert"] = InstalledCert,
             IF image = "import" THEN "eraseStaging" ELSE "init")

-----------------------------------------------------------------------------
(* import-attestation *)

\* attestation_import::parse: the certificate is the one the image is bound to.
ParseStaging ==
    /\ At({"import"}, "parse")
    /\ Check(staging # Blank /\ staging \in {p \in Payload : p.cert = expected}, "mount")

\* mount_existing: never formats.
MountExisting ==
    /\ At({"import", "firmware"}, "mount")
    /\ Check(formatted /\ files["version"] = Good,
             IF image = "import" THEN "target" ELSE "attestation")

\* verify_empty_identity_import_target: exactly what provision-storage left.
FreshTree == files = [NoFiles EXCEPT !["version"] = Good, !["init"] = Good]

VerifyImportTarget ==
    /\ At({"import"}, "target")
    /\ Check(FreshTree, "prove")

ProveNothing ==
    /\ At({"import"}, "prove")
    /\ Check(TRUE, "injectKey")

\* The key is imported into RAM and its public key compared with the expected one.
ProveKey ==
    /\ At({"import"}, "prove")
    /\ Check(staging.key = expected, "injectKey")

EraseStaging ==
    /\ At({"import"}, "eraseStaging")
    /\ \/ staging' = Blank /\ pc' = "done"
       \/ staging' \in {staging, Blank} /\ pc' = "halted"
    /\ UNCHANGED <<formatted, files, image, expected, gesture, samples>>

-----------------------------------------------------------------------------
(* The normal firmware. *)

\* After mount_existing, verify_development_attestation; no fallback identity.
CheckAttestation ==
    /\ At({"firmware"}, "attestation")
    /\ Check(AttestationPresent, "serve")

\* The first request creates the persistent state if the marker allows it; a
\* failed write latches the authenticator ...
CreateState ==
    /\ At({"firmware"}, "serve")
    /\ files["data"] = NoFile /\ files["init"] = Good
    /\ Write("data", Good, "serve")

\* ... and consumes the marker once the state is stored.
ConsumeMarker ==
    /\ At({"firmware"}, "serve")
    /\ files["data"] = Good /\ files["init"] # NoFile
    /\ Mutate([files EXCEPT !["init"] = NoFile], "serve", {})

-----------------------------------------------------------------------------

Next ==
    \/ Boot
    \/ PowerCut
    \/ \E p \in Payload : StagePayload(p)
    \/ \E pressed \in BOOLEAN : Sample(pressed)
    \/ Roundtrip \/ Format \/ WriteStorageVersion \/ WriteInitializationMarker
    \/ InjectKey \/ WriteCertificate \/ RenameKey \/ RenameCert \/ VerifyInstalled
    \/ ParseStaging \/ MountExisting \/ VerifyImportTarget \/ ProveKey \/ EraseStaging
    \/ CheckAttestation \/ CreateState \/ ConsumeMarker

Spec == Init /\ [][Next]_vars

-----------------------------------------------------------------------------
(* Properties *)

TypeOK ==
    /\ formatted \in BOOLEAN
    /\ files \in [Files -> Identities \cup {NoFile, Bad, Good}]
    /\ staging \in Payload \cup {Blank}
    /\ image \in {"none", "storage", "development", "import", "firmware"}
    /\ expected \in Identities
    /\ samples \in Seq(BOOLEAN)

\* The firmware serves with a private key and a certificate that belong together,
\* although it checks each by itself; and an import that signals success has
\* installed the identity it was built for and left no copy of it in the staging
\* sector (verify_development_attestation, import-attestation).
IdentityMatches ==
    /\ At({"firmware"}, "serve") => files["key"] = files["cert"]
    /\ At({"import"}, "done") => /\ files["key"] = expected
                                 /\ files["cert"] = expected
                                 /\ staging = Blank

\* A release after start, then a press without a break for the whole hold.
FreshHold ==
    \E r \in DOMAIN samples :
        /\ ~samples[r]
        /\ Len(samples) > r + Hold
        /\ \A i \in DOMAIN samples : i > r => samples[i]

\* Nothing that exists in the store is lost except by a destructive image after a
\* fresh hold.  The import, which needs the hold too, only adds, and only to a
\* store no firmware has used; the firmware touches only its own data and the
\* marker.
StoreKept ==
    [][store' # store =>
        \/ image \in Destructive /\ FreshHold
        \/ /\ image = "import" /\ FreshHold
           /\ formatted' = formatted /\ files["data"] = NoFile
           /\ \A f \in Files \ {"tmpKey", "tmpCert"} :
                 files[f] # NoFile => files'[f] = files[f]
        \/ /\ image = "firmware"
           /\ formatted' = formatted
           /\ \A f \in Files \ {"data", "init"} : files'[f] = files[f]]_vars

=============================================================================
