------------------------ MODULE Provisioning_proofs ------------------------
(***************************************************************************)
(* Proofs about Provisioning, for every set of identities, hold and arming *)
(* window.                                                                 *)
(***************************************************************************)
EXTENDS Provisioning, TLAPS

\* The images that wait for the hold of the button.
Arming == {"storage", "development", "import"}

\* The steps that install an identity.
Installing == {"injectKey", "writeCert", "renameKey", "renameCert", "verify", "eraseStaging"}

\* A private key and a certificate in their final places belong together.
Paired ==
    files["key"] \in Identities /\ files["cert"] \in Identities => files["key"] = files["cert"]

\* The staging sector holds what the import was bound to, its key as well once
\* ProveKey has passed.
StagingBound ==
    image = "import" =>
      /\ pc \in {"mount", "target", "prove"} \cup Installing =>
            staging \in Payload /\ staging.cert = expected
      /\ pc \in Installing => staging.key = expected

\* What an installation has put in place so far.
Copied ==
    image \in Installers =>
      /\ image = "development" => expected = Development
      /\ pc \in {"writeCert", "renameKey"} => files["tmpKey"] = expected
      /\ pc \in {"renameKey", "renameCert"} => files["tmpCert"] = expected
      /\ pc \in {"renameCert", "verify", "eraseStaging"} => files["key"] = expected
      /\ pc = "renameCert" => files["cert"] = NoFile
      /\ pc \in {"verify", "eraseStaging"} => files["cert"] = expected

\* The import adds to a store no firmware has used.
Unused ==
    image = "import" =>
      /\ pc \in {"prove", "injectKey"} => FreshTree
      /\ pc \in Installing => files["data"] = NoFile

\* The firmware serves only with a key and a certificate.
ServesAttested == At({"firmware"}, "serve") => AttestationPresent

\* An image past its arming loop has seen the hold.
Held == image \in Arming /\ pc \notin {"arm", "halted"} => FreshHold

\* The gesture remembers a release, and the press since the last one: the sample
\* at instant t has index t + 1, so pressed_since_ms is the index of that release.
GestureSound ==
    LET since == gesture.pressed_since_ms
        n == Len(samples)
    IN  /\ gesture = [release_seen |-> gesture.release_seen, pressed_since_ms |-> since]
        /\ gesture.release_seen \in BOOLEAN
        /\ since # NoFile =>
             /\ gesture.release_seen /\ since \in 1..n /\ ~samples[since]
             /\ \A i \in 1..n : i > since => samples[i]
        /\ since = NoFile /\ gesture.release_seen => n > 0 /\ ~samples[n]

\* The inductive invariant.
ProvInv ==
    /\ TypeOK
    /\ Paired
    /\ StagingBound
    /\ Copied
    /\ Unused
    /\ ServesAttested
    /\ Held
    /\ GestureSound
    /\ IdentityMatches

-----------------------------------------------------------------------------
(* Frames. *)

\* Steps past the arming loop leave what the user did.
LEMMA HoldKept ==
    ASSUME ProvInv, pc \notin {"arm", "halted"}, UNCHANGED <<image, gesture, samples>>
    PROVE  /\ Held' /\ GestureSound'
           /\ image \in Arming => FreshHold
<1>1. FreshHold' <=> FreshHold
  BY DEF FreshHold
<1>2. image \in Arming => FreshHold
  BY DEF ProvInv, Held
<1> QED
  BY <1>1, <1>2 DEF ProvInv, Held, GestureSound

\* The parts of the invariant that speak of the content of flash.
LEMMA Assemble ==
    ASSUME ProvInv, pc \notin {"arm", "halted"},
           UNCHANGED <<image, expected, gesture, samples>>,
           formatted' \in BOOLEAN,
           files' \in [Files -> Identities \cup {NoFile, Bad, Good}],
           staging' \in Payload \cup {Blank},
           Paired', StagingBound', Copied', Unused', ServesAttested', IdentityMatches'
    PROVE  ProvInv'
<1>1. Held' /\ GestureSound'
  BY HoldKept
<1>2. TypeOK'
  BY DEF ProvInv, TypeOK
<1> QED
  BY <1>1, <1>2 DEF ProvInv

\* A mutation of the store ends in the next step, or in a halt.
LEMMA Mutated ==
    ASSUME NEW after, NEW next, NEW failures, Mutate(after, next, failures)
    PROVE  /\ \/ files' = after /\ pc' = next
              \/ files' \in failures \cup {files, after} /\ pc' = "halted"
           /\ UNCHANGED <<formatted, staging, image, expected, gesture, samples>>
BY DEF Mutate

\* A write touches one file.
LEMMA Written ==
    ASSUME TypeOK, NEW f \in Files, NEW content \in Identities \cup {Good}, NEW next,
           Write(f, content, next)
    PROVE  /\ files' \in [Files -> Identities \cup {NoFile, Bad, Good}]
           /\ \A g \in Files \ {f} : files'[g] = files[g]
           /\ \/ files'[f] = content /\ pc' = next
              \/ pc' = "halted" /\ (files[f] # NoFile => files'[f] \in {files[f], content})
           /\ UNCHANGED <<formatted, staging, image, expected, gesture, samples>>
<1>1. files \in [Files -> Identities \cup {NoFile, Bad, Good}]
  BY DEF TypeOK
<1> DEFINE after == [files EXCEPT ![f] = content]
           torn == [files EXCEPT ![f] = Bad]
<1>2. /\ \/ files' = after /\ pc' = next
         \/ files' \in {files, after} /\ pc' = "halted"
         \/ files[f] = NoFile /\ files' = torn /\ pc' = "halted"
      /\ UNCHANGED <<formatted, staging, image, expected, gesture, samples>>
  BY Mutated DEF Write
<1>3. /\ after \in [Files -> Identities \cup {NoFile, Bad, Good}] /\ after[f] = content
      /\ \A g \in Files \ {f} : after[g] = files[g]
  BY <1>1
<1>4. /\ torn \in [Files -> Identities \cup {NoFile, Bad, Good}]
      /\ \A g \in Files \ {f} : torn[g] = files[g]
  BY <1>1
<1> HIDE DEF after, torn
<1> QED
  BY <1>1, <1>2, <1>3, <1>4

\* A check that fails halts, with the store as it was.
LEMMA Halted ==
    ASSUME ProvInv, pc \notin {"arm", "halted"}, pc' = "halted",
           UNCHANGED <<formatted, files, staging, image, expected, gesture, samples>>
    PROVE  ProvInv'
<1>1. Paired' /\ StagingBound' /\ Unused' /\ ServesAttested' /\ IdentityMatches'
  BY DEF ProvInv, Paired, StagingBound, Unused, ServesAttested, IdentityMatches, At, Installing
<1>2. Copied'
  BY DEF ProvInv, Copied
<1> QED
  BY <1>1, <1>2, Assemble DEF ProvInv, TypeOK

-----------------------------------------------------------------------------
(* Power, images and the button. *)

\* A device nobody has provisioned.
LEMMA ProvInit == Init => ProvInv
<1> SUFFICES ASSUME Init PROVE ProvInv
  OBVIOUS
<1>1. files = [f \in Files |-> NoFile] /\ image = "none" /\ pc = "off" /\ samples = <<>>
  BY DEF Init, NoFiles
<1>2. files["key"] = NoFile /\ NoFile \notin Identities
  BY <1>1, ProvisioningAssumption DEF Files
<1>3. TypeOK
  <2>1. samples \in Seq(BOOLEAN)
    BY <1>1
  <2>2. files \in [Files -> Identities \cup {NoFile, Bad, Good}]
    BY <1>1
  <2>3. formatted \in BOOLEAN
    BY DEF Init
  <2> QED
    BY <1>1, <2>1, <2>2, <2>3, ProvisioningAssumption DEF Init, TypeOK
<1>4. GestureSound
  BY <1>1 DEF Init, NewGesture, GestureSound
<1>5. Held
  BY <1>1 DEF Held, Arming
<1> QED
  BY <1>1, <1>2, <1>3, <1>4, <1>5
     DEF ProvInv, Paired, StagingBound, Copied, Unused, ServesAttested, IdentityMatches, At,
         Installers

\* A new image, or none, starts with nothing done.
LEMMA Started ==
    ASSUME ProvInv, NEW i \in {"none", "storage", "development", "import", "firmware"},
           NEW e \in Identities, image' = i, expected' = e,
           pc' = "arm" \/ (i = "none" /\ pc' = "off") \/ (i = "firmware" /\ pc' = "mount"),
           i = "development" => e = Development,
           gesture' = NewGesture, samples' = <<>>, UNCHANGED <<formatted, files, staging>>
    PROVE  ProvInv'
<1>1. TypeOK'
  BY DEF ProvInv, TypeOK
<1>2. GestureSound'
  BY DEF NewGesture, GestureSound
<1>3. Held'
  BY DEF Held, Arming
<1>4. Paired' /\ StagingBound' /\ Unused' /\ ServesAttested' /\ IdentityMatches'
  BY DEF ProvInv, Paired, StagingBound, Unused, ServesAttested, IdentityMatches, At, Installing
<1>5. Copied'
  BY DEF Copied, Installers
<1> QED
  BY <1>1, <1>2, <1>3, <1>4, <1>5 DEF ProvInv

LEMMA BootStep ==
    ASSUME ProvInv, Boot \/ PowerCut
    PROVE  ProvInv'
<1>1. Development \in Identities
  BY ProvisioningAssumption
<1>2. CASE Boot
  BY <1>1, <1>2, Started DEF Boot, Run
<1>3. CASE PowerCut
  BY <1>1, <1>3, Started DEF PowerCut
<1> QED
  BY <1>2, <1>3

\* The host reaches the staging sector only while no image runs.
LEMMA StageStep ==
    ASSUME ProvInv, NEW p \in Payload, StagePayload(p)
    PROVE  ProvInv'
<1>1. /\ image = "none" /\ staging' = p
      /\ UNCHANGED <<formatted, files, image, pc, expected, gesture, samples>>
  BY DEF StagePayload
<1>2. TypeOK'
  BY <1>1 DEF ProvInv, TypeOK
<1>3. GestureSound' /\ Paired'
  BY <1>1 DEF ProvInv, GestureSound, Paired
<1> QED
  BY <1>1, <1>2, <1>3
     DEF ProvInv, StagingBound, Copied, Unused, ServesAttested, Held, IdentityMatches, At,
         Installers, Arming

\* One sample keeps what the gesture remembers, and a confirmed one is a hold
\* after a release.
LEMMA GestureStep ==
    ASSUME ProvInv, NEW pressed \in BOOLEAN, samples' = Append(samples, pressed),
           gesture' = GestureAfter(gesture, pressed, Len(samples))
    PROVE  /\ GestureSound'
           /\ Confirmed(gesture', pressed, Len(samples)) => FreshHold'
<1> DEFINE n == Len(samples)
           s == gesture.pressed_since_ms
           t == gesture'.pressed_since_ms
<1>1. samples \in Seq(BOOLEAN) /\ n \in Nat /\ NoFile \notin Nat /\ Hold \in Nat
  BY ProvisioningAssumption DEF ProvInv, TypeOK
<1>2. /\ Len(samples') = n + 1 /\ samples'[n + 1] = pressed
      /\ \A i \in 1..n : samples'[i] = samples[i]
  BY <1>1
<1>3. /\ gesture = [release_seen |-> gesture.release_seen, pressed_since_ms |-> s]
      /\ gesture.release_seen \in BOOLEAN
      /\ s # NoFile => /\ gesture.release_seen /\ s \in 1..n /\ ~samples[s]
                       /\ \A i \in 1..n : i > s => samples[i]
      /\ s = NoFile /\ gesture.release_seen => n > 0 /\ ~samples[n]
  BY DEF ProvInv, GestureSound
<1>4. CASE ~pressed
  <2>1. gesture' = [release_seen |-> TRUE, pressed_since_ms |-> NoFile]
    BY <1>4 DEF GestureAfter
  <2> QED
    BY <1>1, <1>2, <1>4, <2>1 DEF GestureSound, Confirmed
<1>5. CASE pressed
  <2>1. /\ gesture'.release_seen = gesture.release_seen
        /\ gesture' = [release_seen |-> gesture.release_seen, pressed_since_ms |-> t]
        /\ t = IF gesture.release_seen /\ s = NoFile THEN n ELSE s
    BY <1>3, <1>5 DEF GestureAfter
  <2>2. t # NoFile => /\ gesture.release_seen /\ t \in 1..n /\ ~samples[t]
                      /\ \A i \in 1..n : i > t => samples[i]
    BY <1>1, <1>3, <2>1
  <2>3. t = NoFile => ~gesture.release_seen
    BY <1>1, <1>3, <2>1
  <2> HIDE DEF n, s, t
  <2>4. t # NoFile => /\ t \in 1..(n + 1) /\ ~samples'[t]
                      /\ \A i \in 1..(n + 1) : i > t => samples'[i]
    BY <1>1, <1>2, <1>5, <2>2
  <2>5. GestureSound'
    BY <1>2, <1>3, <2>1, <2>2, <2>3, <2>4 DEF GestureSound, t
  <2>6. Confirmed(gesture', pressed, n) => FreshHold'
    <3> SUFFICES ASSUME Confirmed(gesture', pressed, n) PROVE FreshHold'
      OBVIOUS
    <3>1. t # NoFile /\ n - t >= Hold
      BY <2>1, <2>3 DEF Confirmed, t
    <3>2. DOMAIN samples' = 1..(n + 1)
      BY <1>1 DEF n
    <3>3. n + 1 > t + Hold
      BY <1>1, <2>2, <3>1
    <3> QED
      BY <1>2, <2>4, <3>1, <3>2, <3>3 DEF FreshHold
  <2> QED
    BY <2>5, <2>6 DEF n
<1> QED
  BY <1>4, <1>5

\* One turn of the arming loop.
LEMMA SampleStep ==
    ASSUME ProvInv, NEW pressed \in BOOLEAN, Sample(pressed)
    PROVE  ProvInv'
<1>1. /\ image \in Arming /\ pc = "arm" /\ UNCHANGED <<formatted, files, staging, image, expected>>
  BY DEF Sample, At, Arming
<1>2. \/ pc' = "halted" /\ UNCHANGED <<samples, gesture>>
      \/ /\ samples' = Append(samples, pressed)
         /\ gesture' = GestureAfter(gesture, pressed, Len(samples))
         /\ pc' = IF ~Confirmed(gesture', pressed, Len(samples)) THEN "arm"
                  ELSE CASE image = "storage" -> "roundtrip"
                         [] image = "development" -> "format"
                         [] image = "import" -> "parse"
  BY DEF Sample
<1>3. GestureSound' /\ Held'
  <2>1. CASE pc' = "halted" /\ UNCHANGED <<samples, gesture>>
    BY <2>1 DEF ProvInv, GestureSound, Held
  <2>2. CASE /\ samples' = Append(samples, pressed)
             /\ gesture' = GestureAfter(gesture, pressed, Len(samples))
             /\ Confirmed(gesture', pressed, Len(samples)) \/ pc' = "arm"
    BY <2>2, GestureStep DEF Held
  <2> QED
    BY <1>2, <2>1, <2>2
<1>4. pc' \in {"halted", "arm", "roundtrip", "format", "parse"}
  BY <1>1, <1>2 DEF Arming
<1>5. TypeOK'
  BY <1>1, <1>2 DEF ProvInv, TypeOK
<1>6. Paired' /\ StagingBound' /\ Unused' /\ ServesAttested' /\ IdentityMatches'
  BY <1>1, <1>4 DEF ProvInv, Paired, StagingBound, Unused, ServesAttested, IdentityMatches, At,
                    Installing
<1>7. Copied'
  BY <1>1, <1>4 DEF ProvInv, Copied
<1> QED
  BY <1>3, <1>5, <1>6, <1>7 DEF ProvInv

-----------------------------------------------------------------------------
(* The destructive images. *)

\* Before the format nothing is gained, after it nothing is left.
LEMMA WipeStep ==
    ASSUME ProvInv, Roundtrip \/ Format
    PROVE  ProvInv'
<1>1. /\ image \in Destructive /\ pc \in {"roundtrip", "format"}
      /\ UNCHANGED <<staging, image, expected, gesture, samples>>
      /\ pc' \in {"format", "version", "halted"}
  BY DEF Roundtrip, Format, At, Destructive
<1>2. files \in [Files -> Identities \cup {NoFile, Bad, Good}] /\ formatted \in BOOLEAN
  BY DEF ProvInv, TypeOK
<1>3. /\ files' \in [Files -> Identities \cup {NoFile, Bad, Good}]
      /\ \A f \in Files : files'[f] \in {files[f], Bad, NoFile}
  <2>1. CASE \E lost \in SUBSET Files :
               files' = [f \in Files |-> IF f \in lost /\ files[f] # NoFile
                                         THEN Bad ELSE files[f]]
    BY <1>2, <2>1
  <2>2. CASE files' = NoFiles
    BY <2>2 DEF NoFiles
  <2>3. CASE files' = files
    BY <1>2, <2>3
  <2> QED
    BY <2>1, <2>2, <2>3 DEF Roundtrip, Format, store
<1>4. formatted' \in BOOLEAN
  BY <1>2 DEF Roundtrip, Format, store
<1>5. Paired'
  <2>1. files'["key"] \in {files["key"], Bad, NoFile} /\ files'["cert"] \in {files["cert"], Bad, NoFile}
    BY <1>3 DEF Files
  <2> QED
    BY <2>1, ProvisioningAssumption DEF ProvInv, Paired
<1>6. StagingBound' /\ Unused' /\ ServesAttested' /\ IdentityMatches'
  BY <1>1 DEF StagingBound, Unused, ServesAttested, IdentityMatches, At, Destructive
<1>7. Copied'
  BY <1>1 DEF ProvInv, Copied
<1> QED
  BY <1>1, <1>3, <1>4, <1>5, <1>6, <1>7, Assemble DEF ProvInv, TypeOK

\* The version and the marker are no part of an identity.
LEMMA MarkStep ==
    ASSUME ProvInv, WriteStorageVersion \/ WriteInitializationMarker
    PROVE  ProvInv'
<1>1. image \in Destructive /\ pc \in {"version", "init"}
  BY DEF WriteStorageVersion, WriteInitializationMarker, At
<1>2. PICK f \in {"version", "init"}, next \in {"init", "injectKey", "done"} : Write(f, Good, next)
  BY DEF WriteStorageVersion, WriteInitializationMarker
<1>3. TypeOK /\ f \in Files
  BY DEF ProvInv, Files
<1>4. /\ files' \in [Files -> Identities \cup {NoFile, Bad, Good}]
      /\ \A g \in Files \ {f} : files'[g] = files[g]
      /\ pc' \in {next, "halted"}
      /\ UNCHANGED <<formatted, staging, image, expected, gesture, samples>>
  BY <1>2, <1>3, Written
<1>5. files'["key"] = files["key"] /\ files'["cert"] = files["cert"]
  BY <1>2, <1>4 DEF Files
<1>6. Paired'
  BY <1>5 DEF ProvInv, Paired
<1>7. StagingBound' /\ Unused' /\ ServesAttested' /\ IdentityMatches'
  BY <1>1, <1>4 DEF StagingBound, Unused, ServesAttested, IdentityMatches, At, Destructive
<1>8. Copied'
  BY <1>2, <1>4 DEF ProvInv, Copied
<1> QED
  BY <1>1, <1>4, <1>6, <1>7, <1>8, Assemble DEF ProvInv, TypeOK

-----------------------------------------------------------------------------
(* Installation. *)

\* What is installed is the identity the image is bound to.
LEMMA InstalledIdentity ==
    ASSUME ProvInv, image \in Installers, pc \in Installing
    PROVE  InstalledKey = expected /\ InstalledCert = expected /\ expected \in Identities
BY DEF ProvInv, TypeOK, StagingBound, Copied, Installers, InstalledKey, InstalledCert

\* A step of the installation that leaves the staging sector alone and whose
\* identity files are as the next step needs them keeps the invariant.
LEMMA InstallFrame ==
    ASSUME ProvInv, image \in Installers, pc \in Installing,
           pc' \in Installing \cup {"halted"},
           files' \in [Files -> Identities \cup {NoFile, Bad, Good}],
           files'["data"] = files["data"],
           UNCHANGED <<formatted, staging, image, expected, gesture, samples>>,
           pc' # "injectKey", Paired', Copied'
    PROVE  ProvInv'
<1>1. StagingBound'
  BY DEF ProvInv, StagingBound, Installing
<1>2. Unused'
  BY DEF ProvInv, Unused, Installing
<1>3. ServesAttested' /\ IdentityMatches'
  BY DEF ServesAttested, IdentityMatches, At, Installers, Installing
<1>4. pc \notin {"arm", "halted"}
  BY DEF Installing
<1> QED
  BY <1>1, <1>2, <1>3, <1>4, Assemble DEF ProvInv, TypeOK

LEMMA InjectStep ==
    ASSUME ProvInv, InjectKey
    PROVE  ProvInv'
<1>1. image \in Installers /\ pc = "injectKey" /\ pc \in Installing
  BY DEF InjectKey, At, Installing
<1>2. files \in [Files -> Identities \cup {NoFile, Bad, Good}]
  BY DEF ProvInv, TypeOK
<1>3. InstalledKey = expected /\ expected \in Identities
  BY <1>1, InstalledIdentity
<1> DEFINE started == [files EXCEPT !["trussed"] = Good]
           after == [started EXCEPT !["tmpKey"] = expected]
           torn == [started EXCEPT !["tmpKey"] = Bad]
<1>4. /\ \/ files' = after /\ pc' = "writeCert"
         \/ files' \in {started, torn, files, after} /\ pc' = "halted"
      /\ UNCHANGED <<formatted, staging, image, expected, gesture, samples>>
  BY <1>3, Mutated DEF InjectKey
<1>5. /\ {started, after, torn} \subseteq [Files -> Identities \cup {NoFile, Bad, Good}]
      /\ after["tmpKey"] = expected
      /\ \A g \in {"key", "cert", "data"} :
            started[g] = files[g] /\ after[g] = files[g] /\ torn[g] = files[g]
  BY <1>2, <1>3 DEF Files
<1> HIDE DEF started, after, torn
<1>6. /\ files' \in [Files -> Identities \cup {NoFile, Bad, Good}]
      /\ files'["key"] = files["key"] /\ files'["cert"] = files["cert"]
      /\ files'["data"] = files["data"]
      /\ pc' = "halted" \/ (pc' = "writeCert" /\ files'["tmpKey"] = expected)
  BY <1>2, <1>4, <1>5
<1>7. Paired'
  BY <1>6 DEF ProvInv, Paired
<1>8. Copied'
  BY <1>4, <1>6 DEF ProvInv, Copied
<1> QED
  BY <1>1, <1>4, <1>6, <1>7, <1>8, InstallFrame DEF Installing

LEMMA CertificateStep ==
    ASSUME ProvInv, WriteCertificate
    PROVE  ProvInv'
<1>1. /\ image \in Installers /\ pc = "writeCert" /\ pc \in Installing
      /\ Write("tmpCert", InstalledCert, "renameKey")
  BY DEF WriteCertificate, At, Installing
<1>2. InstalledCert = expected /\ expected \in Identities /\ TypeOK /\ "tmpCert" \in Files
  BY <1>1, InstalledIdentity DEF ProvInv, Files
<1>3. /\ files' \in [Files -> Identities \cup {NoFile, Bad, Good}]
      /\ \A g \in Files \ {"tmpCert"} : files'[g] = files[g]
      /\ pc' = "halted" \/ (pc' = "renameKey" /\ files'["tmpCert"] = expected)
      /\ UNCHANGED <<formatted, staging, image, expected, gesture, samples>>
  BY <1>1, <1>2, Written
<1>4. \A g \in {"key", "cert", "data", "tmpKey"} : files'[g] = files[g]
  BY <1>3 DEF Files
<1>5. Paired'
  BY <1>4 DEF ProvInv, Paired
<1>6. Copied'
  BY <1>1, <1>3, <1>4 DEF ProvInv, Copied
<1> QED
  BY <1>1, <1>3, <1>4, <1>5, <1>6, InstallFrame DEF Installing

LEMMA RenameKeyStep ==
    ASSUME ProvInv, RenameKey
    PROVE  ProvInv'
<1>1. image \in Installers /\ pc = "renameKey" /\ pc \in Installing
  BY DEF RenameKey, At, Installing
<1>2. files \in [Files -> Identities \cup {NoFile, Bad, Good}] /\ expected \in Identities
  BY DEF ProvInv, TypeOK
<1>3. files["tmpKey"] = expected /\ files["tmpCert"] = expected
  BY <1>1 DEF ProvInv, Copied
<1>4. CASE ~(files["key"] = NoFile /\ files["cert"] = NoFile)
  BY <1>1, <1>4, Halted DEF RenameKey, Check
<1>5. CASE files["key"] = NoFile /\ files["cert"] = NoFile
  <2> DEFINE after == [files EXCEPT !["key"] = expected, !["tmpKey"] = NoFile]
  <2>1. /\ \/ files' = after /\ pc' = "renameCert"
           \/ files' \in {files, after} /\ pc' = "halted"
        /\ UNCHANGED <<formatted, staging, image, expected, gesture, samples>>
    BY <1>3, <1>5, Mutated DEF RenameKey
  <2>2. /\ after \in [Files -> Identities \cup {NoFile, Bad, Good}]
        /\ after["key"] = expected
        /\ \A g \in {"cert", "data", "tmpCert"} : after[g] = files[g]
    BY <1>2 DEF Files
  <2> HIDE DEF after
  <2>3. /\ files' \in [Files -> Identities \cup {NoFile, Bad, Good}]
        /\ files'["cert"] = NoFile /\ files'["data"] = files["data"]
        /\ pc' = "halted" \/ (/\ pc' = "renameCert" /\ files'["key"] = expected
                              /\ files'["tmpCert"] = expected)
    BY <1>2, <1>3, <1>5, <2>1, <2>2
  <2>4. Paired'
    BY <2>3, ProvisioningAssumption DEF Paired
  <2>5. Copied'
    BY <2>1, <2>3 DEF ProvInv, Copied
  <2> QED
    BY <1>1, <2>1, <2>3, <2>4, <2>5, InstallFrame DEF Installing
<1> QED
  BY <1>4, <1>5

LEMMA RenameCertStep ==
    ASSUME ProvInv, RenameCert
    PROVE  ProvInv'
<1>1. image \in Installers /\ pc = "renameCert" /\ pc \in Installing
  BY DEF RenameCert, At, Installing
<1>2. files \in [Files -> Identities \cup {NoFile, Bad, Good}] /\ expected \in Identities
  BY DEF ProvInv, TypeOK
<1>3. files["tmpCert"] = expected /\ files["key"] = expected
  BY <1>1 DEF ProvInv, Copied
<1> DEFINE after == [files EXCEPT !["cert"] = expected, !["tmpCert"] = NoFile]
<1>4. /\ \/ files' = after /\ pc' = "verify"
         \/ files' \in {files, after} /\ pc' = "halted"
      /\ UNCHANGED <<formatted, staging, image, expected, gesture, samples>>
  BY <1>3, Mutated DEF RenameCert
<1>5. /\ after \in [Files -> Identities \cup {NoFile, Bad, Good}]
      /\ after["cert"] = expected /\ after["key"] = files["key"] /\ after["data"] = files["data"]
  BY <1>2 DEF Files
<1> HIDE DEF after
<1>6. /\ files' \in [Files -> Identities \cup {NoFile, Bad, Good}]
      /\ files'["key"] = expected /\ files'["data"] = files["data"]
      /\ files'["cert"] \in {expected, files["cert"]}
      /\ pc' = "halted" \/ (pc' = "verify" /\ files'["cert"] = expected)
  BY <1>2, <1>3, <1>4, <1>5
<1>7. Paired'
  BY <1>3, <1>6 DEF ProvInv, Paired
<1>8. Copied'
  BY <1>4, <1>6 DEF ProvInv, Copied
<1> QED
  BY <1>1, <1>4, <1>6, <1>7, <1>8, InstallFrame DEF Installing

LEMMA VerifyInstalledStep ==
    ASSUME ProvInv, VerifyInstalled
    PROVE  ProvInv'
<1>1. /\ image \in Installers /\ pc = "verify" /\ pc \in Installing
      /\ pc' \in {"halted", "eraseStaging", "init"}
      /\ UNCHANGED <<formatted, files, staging, image, expected, gesture, samples>>
  BY DEF VerifyInstalled, At, Installing, Check
<1>2. pc' = "init" => image # "import"
  BY DEF VerifyInstalled, Check
<1>3. Paired' /\ ServesAttested' /\ IdentityMatches'
  BY <1>1 DEF ProvInv, Paired, ServesAttested, IdentityMatches, At
<1>4. StagingBound' /\ Unused'
  BY <1>1, <1>2 DEF ProvInv, StagingBound, Unused, Installing
<1>5. Copied'
  BY <1>1 DEF ProvInv, Copied
<1> QED
  BY <1>1, <1>3, <1>4, <1>5, Assemble DEF ProvInv, TypeOK

-----------------------------------------------------------------------------
(* The checks of the import and of the firmware. *)

\* What the import has looked at when it goes on.
LEMMA ImportStep ==
    ASSUME ProvInv, ParseStaging \/ VerifyImportTarget \/ ProveKey
    PROVE  ProvInv'
<1>1. /\ image = "import" /\ pc \in {"parse", "target", "prove"}
      /\ UNCHANGED <<formatted, files, staging, image, expected, gesture, samples>>
  BY DEF ParseStaging, VerifyImportTarget, ProveKey, At, Check
<1>2. CASE pc' = "halted"
  BY <1>1, <1>2, Halted
<1>3. CASE pc' # "halted"
  <2>1. pc' \in {"mount", "prove", "injectKey"}
    BY <1>3 DEF ParseStaging, VerifyImportTarget, ProveKey, Check
  <2>2. StagingBound'
    <3>1. CASE ParseStaging
      BY <1>1, <1>3, <3>1 DEF ParseStaging, Check, StagingBound, Installing
    <3>2. CASE VerifyImportTarget
      BY <1>1, <1>3, <3>2 DEF VerifyImportTarget, At, Check, ProvInv, StagingBound, Installing
    <3>3. CASE ProveKey
      BY <1>1, <1>3, <3>3 DEF ProveKey, At, Check, ProvInv, StagingBound, Installing
    <3> QED
      BY <3>1, <3>2, <3>3
  <2>3. Unused'
    <3>1. CASE ParseStaging
      BY <1>1, <1>3, <3>1 DEF ParseStaging, Check, Unused, Installing
    <3>2. CASE VerifyImportTarget
      BY <1>1, <1>3, <3>2 DEF VerifyImportTarget, Check, Unused, Installing, FreshTree
    <3>3. CASE ProveKey
      <4>1. FreshTree /\ FreshTree' /\ pc' = "injectKey"
        BY <1>1, <1>3, <3>3 DEF ProveKey, At, Check, ProvInv, Unused, FreshTree
      <4>2. files["data"] = NoFile
        BY <4>1 DEF FreshTree, NoFiles, Files
      <4> QED
        BY <1>1, <4>1, <4>2 DEF Unused
    <3> QED
      BY <3>1, <3>2, <3>3
  <2>4. Copied'
    BY <1>1, <2>1 DEF ProvInv, Copied
  <2>5. Paired' /\ ServesAttested' /\ IdentityMatches'
    BY <1>1, <2>1 DEF ProvInv, Paired, ServesAttested, IdentityMatches, At
  <2> QED
    BY <1>1, <2>2, <2>3, <2>4, <2>5, Assemble DEF ProvInv, TypeOK
<1> QED
  BY <1>2, <1>3

LEMMA MountStep ==
    ASSUME ProvInv, MountExisting
    PROVE  ProvInv'
<1>1. /\ image \in {"import", "firmware"} /\ pc = "mount"
      /\ pc' \in {"target", "attestation", "halted"}
      /\ UNCHANGED <<formatted, files, staging, image, expected, gesture, samples>>
  BY DEF MountExisting, At, Check
<1>2. StagingBound' /\ Unused'
  BY <1>1 DEF ProvInv, StagingBound, Unused, Installing
<1>3. Copied'
  BY <1>1 DEF ProvInv, Copied
<1>4. Paired' /\ ServesAttested' /\ IdentityMatches'
  BY <1>1 DEF ProvInv, Paired, ServesAttested, IdentityMatches, At
<1> QED
  BY <1>1, <1>2, <1>3, <1>4, Assemble DEF ProvInv, TypeOK

\* The staging sector is blank before the import signals success.
LEMMA EraseStagingStep ==
    ASSUME ProvInv, EraseStaging
    PROVE  ProvInv'
<1>1. /\ image = "import" /\ pc = "eraseStaging"
      /\ \/ staging' = Blank /\ pc' = "done"
         \/ staging' \in {staging, Blank} /\ pc' = "halted"
      /\ UNCHANGED <<formatted, files, image, expected, gesture, samples>>
  BY DEF EraseStaging, At
<1>2. files["key"] = expected /\ files["cert"] = expected
  BY <1>1 DEF ProvInv, Copied, Installers
<1>3. IdentityMatches' /\ Paired' /\ ServesAttested'
  BY <1>1, <1>2 DEF ProvInv, IdentityMatches, Paired, ServesAttested, At
<1>4. StagingBound' /\ Unused'
  BY <1>1 DEF StagingBound, Unused, Installing
<1>5. Copied'
  BY <1>1 DEF ProvInv, Copied
<1> QED
  BY <1>1, <1>3, <1>4, <1>5, Assemble DEF ProvInv, TypeOK

LEMMA FirmwareStep ==
    ASSUME ProvInv, CheckAttestation \/ CreateState \/ ConsumeMarker
    PROVE  ProvInv'
<1>1. files \in [Files -> Identities \cup {NoFile, Bad, Good}] /\ TypeOK /\ "data" \in Files
  BY DEF ProvInv, TypeOK, Files
<1>2. /\ image = "firmware" /\ pc \in {"attestation", "serve"}
      /\ pc = "serve" \/ (pc' = "serve" => AttestationPresent)
  BY DEF CheckAttestation, CreateState, ConsumeMarker, At, Check
<1>3. /\ files' \in [Files -> Identities \cup {NoFile, Bad, Good}]
      /\ files'["key"] = files["key"] /\ files'["cert"] = files["cert"]
      /\ pc' \in {"serve", "halted"}
      /\ UNCHANGED <<formatted, staging, image, expected, gesture, samples>>
  <2>1. CASE CheckAttestation
    BY <1>1, <2>1 DEF CheckAttestation, Check
  <2>2. CASE CreateState
    BY <1>1, <2>2, Written DEF CreateState, Files
  <2>3. CASE ConsumeMarker
    <3> DEFINE after == [files EXCEPT !["init"] = NoFile]
    <3>1. /\ files' \in {files, after} /\ pc' \in {"serve", "halted"}
          /\ UNCHANGED <<formatted, staging, image, expected, gesture, samples>>
      BY <2>3, Mutated DEF ConsumeMarker
    <3>2. /\ after \in [Files -> Identities \cup {NoFile, Bad, Good}]
          /\ after["key"] = files["key"] /\ after["cert"] = files["cert"]
      BY <1>1 DEF Files
    <3> HIDE DEF after
    <3> QED
      BY <1>1, <3>1, <3>2
  <2> QED
    BY <2>1, <2>2, <2>3
<1>4. ServesAttested'
  <2>1. pc' = "serve" => AttestationPresent
    BY <1>2 DEF ProvInv, ServesAttested, At
  <2> QED
    BY <1>3, <2>1 DEF ServesAttested, AttestationPresent, At
<1>5. Paired'
  BY <1>3 DEF ProvInv, Paired
<1>6. IdentityMatches'
  BY <1>2, <1>3, <1>4, <1>5 DEF IdentityMatches, ServesAttested, AttestationPresent, Paired, At
<1>7. StagingBound' /\ Unused' /\ Copied'
  BY <1>2, <1>3 DEF StagingBound, Unused, Copied, Installers
<1> QED
  BY <1>2, <1>3, <1>4, <1>5, <1>6, <1>7, Assemble DEF ProvInv, TypeOK

-----------------------------------------------------------------------------
(* The invariants. *)

\* Every step keeps the invariant.
LEMMA ProvNext == ProvInv /\ [Next]_vars => ProvInv'
<1> SUFFICES ASSUME ProvInv, [Next]_vars PROVE ProvInv'
  OBVIOUS
<1>1. CASE Boot \/ PowerCut
  BY <1>1, BootStep
<1>2. CASE \E p \in Payload : StagePayload(p)
  BY <1>2, StageStep
<1>3. CASE \E pressed \in BOOLEAN : Sample(pressed)
  BY <1>3, SampleStep
<1>4. CASE Roundtrip \/ Format \/ WriteStorageVersion \/ WriteInitializationMarker
  BY <1>4, WipeStep, MarkStep
<1>5. CASE InjectKey \/ WriteCertificate \/ RenameKey \/ RenameCert \/ VerifyInstalled
  BY <1>5, InjectStep, CertificateStep, RenameKeyStep, RenameCertStep, VerifyInstalledStep
<1>6. CASE ParseStaging \/ MountExisting \/ VerifyImportTarget \/ ProveKey \/ EraseStaging
  BY <1>6, ImportStep, MountStep, EraseStagingStep
<1>7. CASE CheckAttestation \/ CreateState \/ ConsumeMarker
  BY <1>7, FirmwareStep
<1>8. CASE UNCHANGED vars
  <2>1. UNCHANGED <<formatted, files, staging, image, pc, expected, gesture, samples>>
    BY <1>8 DEF vars
  <2>2. TypeOK' /\ Paired' /\ StagingBound' /\ Copied'
    BY <2>1 DEF ProvInv, TypeOK, Paired, StagingBound, Copied
  <2>3. Unused' /\ ServesAttested' /\ IdentityMatches' /\ GestureSound'
    BY <2>1 DEF ProvInv, Unused, FreshTree, ServesAttested, AttestationPresent, IdentityMatches,
                At, GestureSound
  <2>4. Held'
    BY <2>1 DEF ProvInv, Held, FreshHold
  <2> QED
    BY <2>2, <2>3, <2>4 DEF ProvInv
<1> QED
  BY <1>1, <1>2, <1>3, <1>4, <1>5, <1>6, <1>7, <1>8 DEF Next

\* The inductive invariant holds in every reachable state.
THEOREM ProvisioningInvariant == Spec => []ProvInv
BY ProvInit, ProvNext, PTL DEF Spec

\* The firmware serves with a key and a certificate that belong together, and an
\* import that signals success has installed the identity it was built for and
\* kept no copy (verify_development_attestation, import-attestation).
THEOREM IdentityAlwaysMatches == Spec => []IdentityMatches
<1>1. ProvInv => IdentityMatches
  BY DEF ProvInv
<1> QED
  BY <1>1, ProvisioningInvariant, PTL

-----------------------------------------------------------------------------
(* What may happen to the store. *)

\* What StoreKept allows a step to do.
StoreStep ==
    store' # store =>
        \/ image \in Destructive /\ FreshHold
        \/ /\ image = "import" /\ FreshHold
           /\ formatted' = formatted /\ files["data"] = NoFile
           /\ \A f \in Files \ {"tmpKey", "tmpCert"} :
                 files[f] # NoFile => files'[f] = files[f]
        \/ /\ image = "firmware"
           /\ formatted' = formatted
           /\ \A f \in Files \ {"data", "init"} : files'[f] = files[f]

\* A destructive image that touches the store has seen the hold.
LEMMA DestructiveKeeps ==
    ASSUME ProvInv, image \in Destructive, pc \notin {"arm", "halted"}
    PROVE  StoreStep
BY DEF ProvInv, Held, Arming, Destructive, StoreStep

\* So has the import, and it only adds.
LEMMA InstallKeeps ==
    ASSUME ProvInv, InjectKey \/ WriteCertificate \/ RenameKey \/ RenameCert
    PROVE  StoreStep
<1>1. image \in Installers /\ pc \in Installing
  BY DEF InjectKey, WriteCertificate, RenameKey, RenameCert, At, Installing
<1>2. CASE image = "development"
  BY <1>1, <1>2, DestructiveKeeps DEF Destructive, Installing
<1>3. CASE image = "import"
  <2>1. FreshHold /\ files["data"] = NoFile
    BY <1>1, <1>3 DEF ProvInv, Held, Arming, Unused, Installing
  <2>2. files \in [Files -> Identities \cup {NoFile, Bad, Good}] /\ TypeOK
    BY DEF ProvInv, TypeOK
  <2>3. /\ formatted' = formatted
        /\ \A f \in Files \ {"tmpKey", "tmpCert"} : files[f] # NoFile => files'[f] = files[f]
    <3>1. CASE InjectKey
      <4>1. files["trussed"] = NoFile
        <5>1. FreshTree
          BY <1>3, <3>1 DEF InjectKey, At, ProvInv, Unused
        <5> QED
          BY <5>1 DEF FreshTree, NoFiles, Files
      <4> DEFINE begun == [files EXCEPT !["trussed"] = Good]
      <4>2. /\ \/ files' \in {files, begun}
               \/ files' = [begun EXCEPT !["tmpKey"] = InstalledKey]
               \/ files' = [begun EXCEPT !["tmpKey"] = Bad]
            /\ formatted' = formatted
        BY <3>1, Mutated DEF InjectKey
      <4>3. \A f \in Files \ {"tmpKey", "trussed"} : files'[f] = files[f]
        BY <2>2, <4>2
      <4> QED
        BY <4>1, <4>2, <4>3
    <3>2. CASE WriteCertificate
      <4>1. InstalledCert \in Identities /\ "tmpCert" \in Files
        BY <1>1, InstalledIdentity DEF Files
      <4> QED
        BY <2>2, <3>2, <4>1, Written DEF WriteCertificate
    <3>3. CASE RenameKey
      <4>1. CASE files["key"] = NoFile /\ files["cert"] = NoFile
        <5>1. /\ formatted' = formatted
              /\ files' \in {files, [files EXCEPT !["key"] = files["tmpKey"], !["tmpKey"] = NoFile]}
          BY <3>3, <4>1, Mutated DEF RenameKey
        <5> QED
          BY <2>2, <4>1, <5>1
      <4>2. CASE ~(files["key"] = NoFile /\ files["cert"] = NoFile)
        BY <3>3, <4>2 DEF RenameKey, Check
      <4> QED
        BY <4>1, <4>2
    <3>4. CASE RenameCert
      <4>1. files["cert"] = NoFile
        BY <1>1, <3>4 DEF RenameCert, At, ProvInv, Copied
      <4>2. /\ formatted' = formatted
            /\ files' \in {files, [files EXCEPT !["cert"] = files["tmpCert"], !["tmpCert"] = NoFile]}
        BY <3>4, Mutated DEF RenameCert
      <4> QED
        BY <2>2, <4>1, <4>2
    <3> QED
      BY <3>1, <3>2, <3>3, <3>4
  <2> QED
    BY <1>3, <2>1, <2>3 DEF StoreStep
<1> QED
  BY <1>1, <1>2, <1>3 DEF Installers

\* The firmware touches its data and the marker.
LEMMA FirmwareKeeps ==
    ASSUME ProvInv, CreateState \/ ConsumeMarker
    PROVE  StoreStep
<1>1. image = "firmware" /\ TypeOK /\ "data" \in Files
  BY DEF CreateState, ConsumeMarker, At, ProvInv, Files
<1>2. files \in [Files -> Identities \cup {NoFile, Bad, Good}]
  BY <1>1 DEF TypeOK
<1>3. formatted' = formatted /\ \A f \in Files \ {"data", "init"} : files'[f] = files[f]
  <2>1. CASE CreateState
    BY <1>1, <2>1, Written DEF CreateState
  <2>2. CASE ConsumeMarker
    <3>1. formatted' = formatted /\ files' \in {files, [files EXCEPT !["init"] = NoFile]}
      BY <2>2, Mutated DEF ConsumeMarker
    <3> QED
      BY <1>2, <3>1
  <2> QED
    BY <2>1, <2>2
<1> QED
  BY <1>1, <1>3 DEF StoreStep

\* Nothing in the store is lost except by a destructive image after a fresh hold
\* (ProvisioningGesture, verify_empty_identity_import_target, mount_existing).
THEOREM StoreIsKept == Spec => StoreKept
<1>1. ProvInv /\ [Next]_vars => [StoreStep]_vars
  <2> SUFFICES ASSUME ProvInv, Next PROVE StoreStep
    OBVIOUS
  <2>1. CASE Roundtrip \/ Format \/ WriteStorageVersion \/ WriteInitializationMarker
    BY <2>1, DestructiveKeeps
       DEF Roundtrip, Format, WriteStorageVersion, WriteInitializationMarker, At, Destructive
  <2>2. CASE InjectKey \/ WriteCertificate \/ RenameKey \/ RenameCert
    BY <2>2, InstallKeeps
  <2>3. CASE CreateState \/ ConsumeMarker
    BY <2>3, FirmwareKeeps
  <2>4. CASE UNCHANGED <<formatted, files>>
    BY <2>4 DEF StoreStep, store
  <2> QED
    BY <2>1, <2>2, <2>3, <2>4
       DEF Next, Boot, Run, PowerCut, StagePayload, Sample, VerifyInstalled, ParseStaging,
           MountExisting, VerifyImportTarget, ProveKey, EraseStaging, CheckAttestation, Check
<1> QED
  BY <1>1, ProvisioningInvariant, PTL DEF Spec, StoreKept, StoreStep
=============================================================================
