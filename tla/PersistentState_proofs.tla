----------------------- MODULE PersistentState_proofs -----------------------
(***************************************************************************)
(* Proofs about PersistentState, for every number of retries, set of PINs, *)
(* policy, counter and number of keys.                                     *)
(***************************************************************************)
EXTENDS PersistentState, TLAPS

\* A command in progress works on a loaded state whose saves have all succeeded,
\* with the parameters of its kind.
Serving ==
    /\ pc # "idle" => ram # None /\ ~failed
    /\ pc \in {"compare", "matched", "granted"} => req \in Requests
    /\ pc \in {"min", "rps"} => req \in Configurations

\* The marker is gone before the first command; until then nothing has been
\* guessed and no key exists.
MarkerFirst ==
    /\ marker => ~lived
    /\ ram # None => lived
    /\ ~lived => wrong = 0 /\ keystore = {}

\* What a restart may rely on when it finds s: its count covers the wrong PINs
\* compared, a PIN below the minimum is to be changed, a change is forced only of
\* a PIN there is, and its counter is beyond those released.
Sound(s) ==
    /\ wrong <= s.mismatches
    /\ s.pin = None => wrong = 0
    /\ s.pin # None => s.length >= MinLength(s) \/ s.force
    /\ s.force => s.pin # None
    /\ s.timestamp # 0 => \A k \in keystore : used[k] < s.timestamp

FileSound == file # None => Sound(file)

\* An attempt is counted before its comparison; the right PIN clears the count.
WrongCounted ==
    /\ wrong <= RESET_RETRIES
    /\ pc = "compare" => wrong + 1 <= ram.mismatches
    /\ pc \in {"matched", "granted", "stored"} => wrong = 0

\* The same for the count of this power cycle; reset clears it last.
TriedCounted ==
    /\ tried <= runtime
    /\ pc = "compare" => tried + 1 <= runtime
    /\ pc \in {"matched", "granted", "stored"} => tried = 0
    /\ ram = None => tried = 0 /\ runtime = 0
    /\ ram # None /\ ~failed /\ ram.pin = None /\ pc # "volatile" => tried = 0

\* A token survives the way to a longer minimum only when its PIN is long enough.
TokenKept ==
    /\ TokenCurrent
    /\ pc = "min" /\ token # None => ram.length >= req.min
    /\ pc \in {"wiped", "volatile"} => token = None

\* The change is forced before the minimum is raised.
ForcedFirst == pc = "min" /\ ram.pin # None => ram.force \/ ram.length >= req.min

\* Keys not yet created have released no counter; reset deletes the keys first.
KeysFresh ==
    /\ \A k \in Keys : k > made => used[k] = 0
    /\ pc = "wiped" => keystore = {}

\* The inductive invariant.
StateInv ==
    /\ TypeOK /\ RamIsFile /\ Serving /\ MarkerFirst /\ FileSound
    /\ WrongCounted /\ TriedCounted /\ TokenKept /\ ForcedFirst /\ KeysFresh

-----------------------------------------------------------------------------
(* Saves. *)

\* A command works on the stored state.
LEMMA Loaded ==
    ASSUME StateInv, Ready \/ pc # "idle"
    PROVE  /\ ram \in States /\ file = ram /\ ram # None /\ ~failed
           /\ Sound(ram) /\ lived /\ ~marker
<1>1. ram # None /\ ~failed
  BY DEF StateInv, Serving, Ready
<1>2. ram \in States /\ file = ram
  BY <1>1 DEF StateInv, TypeOK, RamIsFile
<1>3. lived /\ ~marker
  BY <1>1, Zenon DEF StateInv, MarkerFirst
<1> QED
  BY <1>1, <1>2, <1>3 DEF StateInv, FileSound

\* The types of the fields.
LEMMA Fields ==
    ASSUME NEW s \in States
    PROVE  /\ s.key \in 0..MaxKeys /\ s.mismatches \in 0..RESET_RETRIES
           /\ s.pin \in Pins \cup {None} /\ s.length \in Nat
           /\ s.timestamp \in 0..MaxTimestamp /\ s.min \in MinLengths \cup {0}
           /\ s.rps \in RpLists \cup {None}
           /\ s.force \in BOOLEAN /\ s.always_uv \in BOOLEAN
BY DEF States

\* The effective minimum is the larger one.
LEMMA MinLengthNat ==
    ASSUME NEW s \in States
    PROVE  /\ MinLength(s) \in Nat /\ MinLength(s) >= s.min
           /\ MinLength(s) >= DEFAULT_MIN_PIN_LENGTH
           /\ MinLength(s) \in {s.min, DEFAULT_MIN_PIN_LENGTH}
<1>1. s.min \in MinLengths \cup {0}
  BY Fields
<1>2. MinLengths \cup {0} \subseteq Nat /\ DEFAULT_MIN_PIN_LENGTH \in Nat
  BY StateAssumption
<1> QED
  BY <1>1, <1>2 DEF MinLength

\* Saving a sound state keeps what a restart relies on, whether or not the save
\* fails and reaches storage.
LEMMA SaveKeeps ==
    ASSUME StateInv, Ready \/ pc # "idle",
           NEW s \in States, Sound(s), NEW next, Save(s, next),
           UNCHANGED <<marker, keystore, made, wrong, used, lived>>
    PROVE  /\ file' \in {file, s} /\ file' \in States /\ ram' = s /\ ram' # None /\ failed' \in BOOLEAN
           /\ failed' => pc' = "idle"
           /\ ~failed' => pc' = next
           /\ RamIsFile' /\ MarkerFirst' /\ FileSound'
<1>1. ram \in States /\ file = ram /\ Sound(ram) /\ ~failed /\ lived /\ ~marker
  BY Loaded
<1>2. file' \in {file, s} /\ ram' = s
  BY DEF Save
<1>3. \/ file' = s /\ pc' = next /\ ~failed' /\ failed' = failed
      \/ pc' = "idle" /\ failed' = TRUE
  BY <1>1, Zenon DEF Save
<1>4. failed \in BOOLEAN
  BY DEF StateInv, TypeOK
<1>5. failed' \in BOOLEAN /\ (failed' => pc' = "idle") /\ (~failed' => pc' = next)
  BY <1>3, <1>4, Zenon
<1>6. RamIsFile'
  BY <1>2, <1>3, Zenon DEF RamIsFile
<1>7. MarkerFirst'
  BY <1>1, Zenon DEF MarkerFirst
<1>8. Sound(file)'
  <2>1. CASE file' = file
    BY <1>1, <2>1 DEF Sound, MinLength
  <2>2. CASE file' = s
    BY <2>2 DEF Sound, MinLength
  <2> QED
    BY <1>2, <2>1, <2>2
<1> QED
  BY <1>1, <1>2, <1>5, <1>6, <1>7, <1>8, MissingAssumption DEF FileSound

\* A failed command leaves the device without a token until a restart.
LEMMA FailedStep ==
    ASSUME StateInv, Ready \/ pc # "idle",
           ram' # None, failed' = TRUE, pc' = "idle", token' = None,
           UNCHANGED <<runtime, wrong, tried, used, made>>
    PROVE  /\ Serving' /\ WrongCounted' /\ TriedCounted' /\ TokenKept'
           /\ ForcedFirst' /\ KeysFresh'
<1> USE DEF StateInv
<1>1. Serving' /\ ForcedFirst'
  BY DEF Serving, ForcedFirst
<1>2. WrongCounted'
  BY DEF WrongCounted
<1>3. TriedCounted'
  BY Zenon DEF TriedCounted
<1>4. TokenKept'
  BY DEF TokenKept, TokenCurrent
<1>5. KeysFresh'
  BY DEF KeysFresh
<1> QED
  BY <1>1, <1>2, <1>3, <1>4, <1>5

\* Whatever a failed save leaves in storage keeps the invariant.
LEMMA SaveFails ==
    ASSUME StateInv, Ready \/ pc # "idle",
           NEW s \in States, Sound(s), NEW next, Save(s, next), failed',
           token' = None, req' \in Requests \cup Configurations \cup {None},
           UNCHANGED <<marker, keystore, made, runtime, history>>
    PROVE  StateInv'
<1>1. UNCHANGED <<wrong, tried, used, lived>>
  BY DEF history
<1>2. /\ file' \in States /\ ram' = s /\ ram' # None /\ failed' \in BOOLEAN /\ pc' = "idle"
      /\ RamIsFile' /\ MarkerFirst' /\ FileSound'
  BY <1>1, SaveKeeps
<1>3. failed' = TRUE
  BY <1>2, Zenon
<1>4. TypeOK'
  BY <1>1, <1>2, <1>3 DEF StateInv, TypeOK
<1> QED
  BY <1>1, <1>2, <1>3, <1>4, FailedStep DEF StateInv

-----------------------------------------------------------------------------
(* Steps. *)

\* Loading a stored state keeps the invariant, also when the marker stays.
LEMMA LoadStoredStep ==
    ASSUME StateInv, LoadStored
    PROVE  StateInv'
<1> USE DEF StateInv
<1>1. file \in States /\ file # None
  BY DEF LoadStored, TypeOK
<1>2. TypeOK'
  BY <1>1, Zenon DEF LoadStored, TypeOK
<1>3. RamIsFile' /\ Serving'
  BY <1>1 DEF LoadStored, RamIsFile, Serving
<1>4. MarkerFirst'
  BY DEF LoadStored, MarkerFirst
<1>5. FileSound'
  BY DEF LoadStored, FileSound, Sound, MinLength
<1>6. WrongCounted' /\ TriedCounted'
  BY DEF LoadStored, WrongCounted, TriedCounted
<1>7. TokenKept' /\ ForcedFirst' /\ KeysFresh'
  BY DEF LoadStored, TokenKept, TokenCurrent, ForcedFirst, KeysFresh
<1> QED
  BY <1>2, <1>3, <1>4, <1>5, <1>6, <1>7

\* The state a reset leaves.
LEMMA FreshState == Fresh \in States /\ Fresh # None
<1>1. /\ 0 \in 0..MaxKeys /\ 0 \in 0..RESET_RETRIES /\ 1 \in 0..MaxTimestamp
      /\ None \in Pins \cup {None} /\ 0 \in MinLengths \cup {0} /\ None \in RpLists \cup {None}
  BY StateAssumption
<1>2. Fresh \in States
  BY <1>1 DEF Fresh, States
<1> QED
  BY <1>2, MissingAssumption

\* It is sound where nothing has been guessed and no key exists.
LEMMA FreshSound ==
    ASSUME StateInv, wrong = 0, keystore = {}
    PROVE  Sound(Fresh)
BY DEF Sound, Fresh

\* The first state is created before anything has been guessed or signed.
LEMMA LoadFirstStep ==
    ASSUME StateInv, LoadFirst
    PROVE  StateInv'
<1> USE DEF StateInv
<1>1. ~lived /\ wrong = 0 /\ keystore = {}
  BY DEF LoadFirst, MarkerFirst
<1>2. Sound(Fresh) /\ Fresh \in States /\ Fresh # None
  BY <1>1, FreshSound, FreshState
<1> HIDE DEF StateInv
<1>3. TypeOK'
  <2>1. file' \in States \cup {None} /\ ram' \in States \cup {None}
    BY <1>2, Zenon DEF LoadFirst, StateInv, TypeOK
  <2>2. marker' \in BOOLEAN /\ failed' \in BOOLEAN /\ lived' \in BOOLEAN
    BY Zenon DEF LoadFirst, StateInv, TypeOK
  <2> QED
    BY <2>1, <2>2 DEF LoadFirst, StateInv, TypeOK
<1>4. RamIsFile' /\ Serving'
  BY <1>2, Zenon DEF LoadFirst, StateInv, RamIsFile, Serving
<1>5. MarkerFirst'
  <2>1. /\ ram = None
        /\ (lived' = lived /\ ram' = ram) \/ (marker' = FALSE /\ lived' = TRUE)
    BY DEF LoadFirst
  <2>2. wrong' = wrong /\ keystore' = keystore
    BY Zenon DEF LoadFirst
  <2> QED
    BY <2>1, <2>2, <1>1 DEF MarkerFirst
<1>6. FileSound'
  <2>1. file' \in {None, Fresh} /\ wrong' = wrong /\ keystore' = keystore /\ used' = used
    BY Zenon DEF LoadFirst
  <2> QED
    BY <1>1, <1>2, <2>1 DEF FileSound, Sound, Fresh
<1>7. WrongCounted' /\ TriedCounted'
  <2>1. /\ pc' = "idle" /\ pc = "idle" /\ ram = None
        /\ UNCHANGED <<wrong, tried, runtime>>
    BY Zenon DEF LoadFirst
  <2> QED
    BY <2>1 DEF StateInv, WrongCounted, TriedCounted
<1>8. TokenKept' /\ ForcedFirst' /\ KeysFresh'
  BY DEF LoadFirst, StateInv, TokenKept, TokenCurrent, ForcedFirst, KeysFresh
<1> QED
  BY <1>3, <1>4, <1>5, <1>6, <1>7, <1>8 DEF StateInv

\* The attempt is counted before the comparison, so the counts stay ahead.
LEMMA VerifyPinStep ==
    ASSUME StateInv, NEW r \in Requests, VerifyPin(r)
    PROVE  StateInv'
<1> DEFINE s == [ram EXCEPT !.mismatches = @ + 1]
<1>1. ram \in States /\ file = ram /\ ~failed /\ Sound(ram)
  BY Loaded DEF VerifyPin
<1>2. /\ ram.mismatches \in Nat /\ ram.mismatches < RESET_RETRIES
      /\ runtime \in Nat /\ runtime < POWERCYCLE_RETRIES
  BY <1>1, Fields, StateAssumption DEF VerifyPin, PinBlocked, StateInv, TypeOK
<1>3. s \in States /\ s.mismatches = ram.mismatches + 1 /\ s.pin = ram.pin
      /\ s.length = ram.length /\ s.min = ram.min /\ s.force = ram.force
      /\ s.timestamp = ram.timestamp
  BY <1>1, <1>2, StateAssumption DEF States
<1> HIDE DEF s
<1>4. wrong \in Nat /\ tried \in Nat /\ wrong <= ram.mismatches
  BY <1>1 DEF StateInv, TypeOK, Sound
<1>5. Sound(s)
  BY <1>1, <1>2, <1>3, <1>4 DEF Sound, MinLength
<1>6. /\ Ready /\ Save(s, "compare") /\ req' = r
      /\ runtime' = IF failed' THEN runtime ELSE runtime + 1
      /\ token' = IF failed' THEN None ELSE token
      /\ UNCHANGED <<marker, keystore, made, wrong, tried, used, lived>>
  BY Zenon DEF VerifyPin, TokenUnlessFailed, history, s
<1>7. /\ file' \in States /\ ram' = s /\ ram' # None /\ failed' \in BOOLEAN
      /\ failed' => pc' = "idle"
      /\ ~failed' => pc' = "compare"
      /\ RamIsFile' /\ MarkerFirst' /\ FileSound'
  BY <1>3, <1>5, <1>6, SaveKeeps
<1>8. CASE failed'
  <2>1. runtime' = runtime /\ token' = None
    BY <1>6, <1>8, Zenon
  <2> QED
    BY <2>1, <1>3, <1>5, <1>6, <1>8, SaveFails DEF history
<1>9. CASE ~failed'
  <2>1. /\ pc' = "compare" /\ runtime' = runtime + 1 /\ token' = token
        /\ failed' = FALSE
    BY <1>6, <1>7, <1>9, Zenon
  <2>2. TypeOK'
    BY <2>1, <1>2, <1>3, <1>6, <1>7, StateAssumption DEF StateInv, TypeOK
  <2>3. Serving'
    BY <2>1, <1>6, <1>7 DEF Serving
  <2>4. WrongCounted' /\ TriedCounted'
    BY <2>1, <1>2, <1>3, <1>4, <1>6, <1>7 DEF StateInv, WrongCounted, TriedCounted, Ready
  <2>5. TokenKept'
    BY <2>1, <1>3, <1>7 DEF StateInv, TokenKept, TokenCurrent, MinLength
  <2>6. ForcedFirst' /\ KeysFresh'
    BY <2>1, <1>6 DEF StateInv, ForcedFirst, KeysFresh
  <2> QED
    BY <2>2, <2>3, <2>4, <2>5, <2>6, <1>7 DEF StateInv
<1> QED
  BY <1>8, <1>9

\* A wrong PIN uses the attempt that was counted.
LEMMA CompareStep ==
    ASSUME StateInv, Compare
    PROVE  StateInv'
<1>1. ram \in States /\ file = ram /\ ~failed /\ Sound(ram) /\ ram # None
  BY Loaded DEF Compare
<1>2. /\ wrong \in Nat /\ tried \in Nat /\ runtime \in Nat /\ runtime <= POWERCYCLE_RETRIES
      /\ wrong + 1 <= ram.mismatches /\ tried + 1 <= runtime
      /\ ram.mismatches \in Nat /\ ram.mismatches <= RESET_RETRIES
  BY <1>1, Fields, StateAssumption
  DEF Compare, StateInv, TypeOK, WrongCounted, TriedCounted
<1>3. /\ pc = "compare" /\ pc' \in {"idle", "matched"}
      /\ \/ pc' = "idle" /\ wrong' = wrong /\ tried' = tried
         \/ pc' = "idle" /\ wrong' = wrong + 1 /\ tried' = tried + 1 /\ ram.pin # None
         \/ wrong' = 0 /\ tried' = 0
  BY DEF Compare
<1>4. UNCHANGED <<file, marker, keystore, made, ram, failed, runtime, token, req, used, lived>>
  BY DEF Compare, stored
<1> USE DEF StateInv
<1>5. TypeOK'
  BY <1>2, <1>3, <1>4 DEF TypeOK
<1>6. RamIsFile' /\ Serving' /\ MarkerFirst'
  BY <1>1, <1>2, <1>3, <1>4, Loaded DEF RamIsFile, Serving, MarkerFirst
<1>7. FileSound'
  BY <1>1, <1>2, <1>3, <1>4 DEF FileSound, Sound, MinLength
<1>8. WrongCounted'
  BY <1>2, <1>3, <1>4, StateAssumption DEF WrongCounted
<1>9. TriedCounted'
  BY <1>1, <1>2, <1>3, <1>4 DEF TriedCounted
<1>10. TokenKept' /\ ForcedFirst' /\ KeysFresh'
  BY <1>3, <1>4 DEF TokenKept, TokenCurrent, ForcedFirst, KeysFresh, MinLength
<1> QED
  BY <1>5, <1>6, <1>7, <1>8, <1>9, <1>10

\* The counts are cleared only once nothing is left to count.
LEMMA ResetRetriesStep ==
    ASSUME StateInv, ResetRetries
    PROVE  StateInv'
<1> DEFINE s == [ram EXCEPT !.mismatches = 0]
           next == IF pc = "matched" THEN "granted" ELSE "idle"
<1>1. ram \in States /\ file = ram /\ ~failed /\ Sound(ram) /\ pc \in {"matched", "stored"}
  BY Loaded DEF ResetRetries
<1>2. s \in States /\ s.mismatches = 0 /\ s.pin = ram.pin
      /\ s.length = ram.length /\ s.min = ram.min /\ s.force = ram.force
      /\ s.timestamp = ram.timestamp
  BY <1>1, StateAssumption DEF States
<1>3. ram.mismatches = 0 => s = ram
  BY <1>1 DEF States
<1>4. wrong = 0 /\ tried = 0 /\ runtime \in Nat
  BY <1>1 DEF StateInv, TypeOK, WrongCounted, TriedCounted
<1> HIDE DEF s
<1>5. Sound(s)
  BY <1>1, <1>2, <1>4 DEF Sound, MinLength
<1>6. Save(s, next)
  <2>1. CASE ram.mismatches > 0
    BY <1>1, <2>1, Fields DEF ResetRetries, s
  <2>2. CASE ~(ram.mismatches > 0)
    BY <1>1, <1>3, <2>2 DEF ResetRetries, Save
  <2> QED
    BY <2>1, <2>2
<1>7. /\ runtime' = IF failed' THEN runtime ELSE 0
      /\ token' = IF failed' THEN None ELSE token
      /\ UNCHANGED <<marker, keystore, made, req, history>>
  BY Zenon DEF ResetRetries, TokenUnlessFailed
<1>8. UNCHANGED <<wrong, tried, used, lived>>
  BY <1>7 DEF history
<1> HIDE DEF next
<1>9. /\ file' \in States /\ ram' = s /\ ram' # None /\ failed' \in BOOLEAN
      /\ ~failed' => pc' = next
      /\ RamIsFile' /\ MarkerFirst' /\ FileSound'
  BY <1>1, <1>2, <1>5, <1>6, <1>7, <1>8, SaveKeeps
<1>10. CASE failed'
  <2>1. runtime' = runtime /\ token' = None
    BY <1>7, <1>10, Zenon
  <2>2. req' \in Requests \cup Configurations \cup {None}
    BY <1>7 DEF StateInv, TypeOK
  <2> QED
    BY <2>1, <2>2, <1>1, <1>2, <1>5, <1>6, <1>7, <1>10, SaveFails
<1>11. CASE ~failed'
  <2>1. /\ runtime' = 0 /\ token' = token /\ failed' = FALSE
        /\ \/ pc' = "granted" /\ pc = "matched"
           \/ pc' = "idle"
    BY <1>7, <1>9, <1>11, Zenon DEF next
  <2>2. TypeOK'
    BY <2>1, <1>2, <1>7, <1>8, <1>9, StateAssumption DEF StateInv, TypeOK
  <2>3. Serving'
    BY <2>1, <1>7, <1>9 DEF StateInv, Serving
  <2>4. WrongCounted' /\ TriedCounted'
    BY <2>1, <1>4, <1>8, <1>9, StateAssumption DEF StateInv, WrongCounted, TriedCounted
  <2>5. TokenKept'
    BY <2>1, <1>2, <1>9 DEF StateInv, TokenKept, TokenCurrent, MinLength
  <2>6. ForcedFirst' /\ KeysFresh'
    BY <2>1, <1>7, <1>8 DEF StateInv, ForcedFirst, KeysFresh
  <2> QED
    BY <2>2, <2>3, <2>4, <2>5, <2>6, <1>9 DEF StateInv
<1> QED
  BY <1>10, <1>11

\* A token is handed out only of a PIN that meets the policy.
LEMMA GrantStep ==
    ASSUME StateInv, Grant
    PROVE  StateInv'
<1>1. ram \in States /\ file = ram /\ ~failed /\ Sound(ram) /\ ram # None
  BY Loaded DEF Grant
<1>2. /\ pc = "granted" /\ pc' = "idle"
      /\ UNCHANGED <<file, marker, keystore, made, ram, failed, runtime, req,
                     wrong, tried, used, lived>>
  BY DEF Grant, stored, history
<1>3. \/ token' = token
      \/ token' = None
      \/ token' = ram.pin /\ ~ram.force
  <2>1. CASE ram.force
    BY <2>1 DEF Grant
  <2>2. CASE ~ram.force
    BY <2>2 DEF Grant
  <2> QED
    BY <2>1, <2>2
<1>4. ram.pin \in Pins \cup {None} /\ token \in Pins \cup {None}
  BY <1>1, Fields DEF StateInv, TypeOK
<1> USE DEF StateInv
<1>5. TypeOK'
  BY <1>2, <1>3, <1>4 DEF TypeOK
<1>6. RamIsFile' /\ Serving' /\ MarkerFirst'
  BY <1>2 DEF RamIsFile, Serving, MarkerFirst
<1>7. FileSound'
  BY <1>2 DEF FileSound, Sound, MinLength
<1>8. WrongCounted' /\ TriedCounted'
  BY <1>2 DEF WrongCounted, TriedCounted
<1>9. TokenKept'
  BY <1>1, <1>2, <1>3 DEF TokenKept, TokenCurrent, Sound, MinLength
<1>10. ForcedFirst' /\ KeysFresh'
  BY <1>2 DEF ForcedFirst, KeysFresh
<1> QED
  BY <1>5, <1>6, <1>7, <1>8, <1>9, <1>10

\* A PIN that meets the policy can be stored.
LEMMA WithPinState ==
    ASSUME StateInv, Ready \/ pc # "idle", NEW pin \in Pins, LongEnough(pin)
    PROVE  /\ WithPin(pin) \in States /\ Sound(WithPin(pin))
           /\ WithPin(pin).pin = pin /\ pin # None /\ ~WithPin(pin).force
           /\ WithPin(pin).mismatches = ram.mismatches
<1> DEFINE s == WithPin(pin)
<1>1. ram \in States /\ Sound(ram)
  BY Loaded
<1>2. CodePoints[pin] \in Nat /\ pin # None
  BY StateAssumption
<1>3. s \in States
  BY <1>1, <1>2 DEF States, WithPin
<1>4. /\ s.pin = pin /\ s.length = CodePoints[pin] /\ s.force = FALSE
      /\ s.mismatches = ram.mismatches /\ s.min = ram.min /\ s.timestamp = ram.timestamp
  BY <1>1 DEF States, WithPin
<1> HIDE DEF s
<1>5. Sound(s)
  BY <1>1, <1>2, <1>4 DEF Sound, LongEnough, MinLength
<1> QED
  BY <1>2, <1>3, <1>4, <1>5 DEF s

\* The token is dropped before the new PIN is stored.
LEMMA ChangePinStep ==
    ASSUME StateInv, ChangePin
    PROVE  StateInv'
<1>1. ram \in States /\ file = ram /\ ~failed /\ Sound(ram) /\ ram # None
  BY Loaded DEF ChangePin
<1>2. pc = "granted" /\ req \in Requests /\ req.cmd = "change" /\ wrong = 0 /\ tried = 0
  BY DEF ChangePin, StateInv, Serving, WrongCounted, TriedCounted
<1>3. req.new \in Pins
  BY <1>2 DEF Requests
<1>4. /\ UNCHANGED <<marker, keystore, made, runtime, req, wrong, tried, used, lived>>
      /\ \/ pc' = "idle" /\ UNCHANGED <<file, ram, failed>> /\ token' \in {token, None}
         \/ LongEnough(req.new) /\ token' = None /\ Save(WithPin(req.new), "idle")
  BY DEF ChangePin, history
<1>5. CASE pc' = "idle" /\ UNCHANGED <<file, ram, failed>> /\ token' \in {token, None}
  <2> USE <1>2, <1>4, <1>5 DEF StateInv
  <2>1. TypeOK'
    BY DEF TypeOK
  <2>2. RamIsFile' /\ Serving' /\ MarkerFirst' /\ ForcedFirst' /\ KeysFresh'
    BY DEF RamIsFile, Serving, MarkerFirst, ForcedFirst, KeysFresh
  <2>3. FileSound'
    BY DEF FileSound, Sound, MinLength
  <2>4. WrongCounted' /\ TriedCounted'
    BY DEF WrongCounted, TriedCounted
  <2>5. TokenKept'
    BY DEF TokenKept, TokenCurrent, MinLength
  <2> QED
    BY <2>1, <2>2, <2>3, <2>4, <2>5
<1>6. CASE LongEnough(req.new) /\ token' = None /\ Save(WithPin(req.new), "idle")
  <2> DEFINE s == WithPin(req.new)
  <2>1. s \in States /\ Sound(s) /\ s.pin # None
    BY <1>2, <1>3, <1>6, WithPinState
  <2> HIDE DEF s
  <2>2. Save(s, "idle") /\ token' = None
    BY <1>6 DEF s
  <2>3. /\ file' \in States /\ ram' = s /\ ram' # None /\ failed' \in BOOLEAN
        /\ failed' => pc' = "idle"
        /\ ~failed' => pc' = "idle"
        /\ RamIsFile' /\ MarkerFirst' /\ FileSound'
    BY <1>2, <1>4, <2>1, <2>2, SaveKeeps
  <2>4. pc' = "idle"
    BY <2>3, Zenon
  <2>5. TypeOK'
    BY <1>4, <2>1, <2>2, <2>3, <2>4 DEF StateInv, TypeOK
  <2>6. Serving' /\ ForcedFirst' /\ KeysFresh'
    BY <1>4, <2>4 DEF StateInv, Serving, ForcedFirst, KeysFresh
  <2>7. WrongCounted' /\ TriedCounted'
    BY <1>2, <1>4, <2>1, <2>3, <2>4, StateAssumption DEF StateInv, WrongCounted, TriedCounted
  <2>8. TokenKept'
    BY <2>2, <2>4 DEF TokenKept, TokenCurrent
  <2> QED
    BY <2>3, <2>5, <2>6, <2>7, <2>8 DEF StateInv
<1> QED
  BY <1>4, <1>5, <1>6

\* There is no token and nothing to count before the first PIN.
LEMMA SetPinStep ==
    ASSUME StateInv, NEW pin \in Pins, SetPin(pin)
    PROVE  StateInv'
<1> DEFINE s == WithPin(pin)
<1>1. ram \in States /\ file = ram /\ ~failed /\ Sound(ram) /\ ram # None
  BY Loaded DEF SetPin
<1>2. s \in States /\ Sound(s) /\ s.pin # None
  BY WithPinState DEF SetPin
<1> HIDE DEF s
<1>3. /\ Ready /\ Save(s, "stored") /\ ram.pin = None
      /\ token' = IF failed' THEN None ELSE token
      /\ UNCHANGED <<marker, keystore, made, runtime, req, history>>
  BY Zenon DEF SetPin, TokenUnlessFailed, s
<1>4. UNCHANGED <<wrong, tried, used, lived>>
  BY <1>3 DEF history
<1>5. wrong = 0 /\ tried = 0 /\ token = None
  BY <1>1, <1>3 DEF Ready, Sound, StateInv, TriedCounted, TokenKept, TokenCurrent
<1>6. /\ file' \in States /\ ram' = s /\ ram' # None /\ failed' \in BOOLEAN
      /\ failed' => pc' = "idle"
      /\ ~failed' => pc' = "stored"
      /\ RamIsFile' /\ MarkerFirst' /\ FileSound'
  BY <1>2, <1>3, <1>4, SaveKeeps
<1>7. pc' \in {"idle", "stored"} /\ token' = None /\ (pc' = "stored" => ~failed')
  <2>1. CASE failed'
    BY <2>1, <1>3, <1>6
  <2>2. CASE ~failed'
    BY <2>2, <1>3, <1>5, <1>6
  <2> QED
    BY <2>1, <2>2
<1>8. TypeOK'
  BY <1>2, <1>3, <1>4, <1>6, <1>7 DEF StateInv, TypeOK
<1>9. Serving' /\ ForcedFirst' /\ KeysFresh'
  BY <1>3, <1>4, <1>6, <1>7 DEF StateInv, Serving, ForcedFirst, KeysFresh
<1>10. WrongCounted' /\ TriedCounted'
  BY <1>2, <1>3, <1>4, <1>5, <1>6, <1>7 DEF StateInv, WrongCounted, TriedCounted
<1>11. TokenKept'
  BY <1>7 DEF TokenKept, TokenCurrent
<1> QED
  BY <1>6, <1>8, <1>9, <1>10, <1>11 DEF StateInv

\* A PIN that will be too short loses its token and has to be changed.
LEMMA SetMinPinLengthStep ==
    ASSUME StateInv, NEW r \in Configurations, SetMinPinLength(r)
    PROVE  StateInv'
<1> DEFINE change == ram.pin # None /\ (r.force \/ ram.length < r.min)
           s == [ram EXCEPT !.force = ram.force \/ change]
<1>1. ram \in States /\ file = ram /\ ~failed /\ Sound(ram) /\ ram # None
  BY Loaded DEF SetMinPinLength
<1>2. /\ ram.force \in BOOLEAN /\ ram.length \in Nat /\ MinLengths \subseteq Nat
      /\ r.min \in MinLengths
  BY <1>1, Fields, StateAssumption DEF Configurations
<1>3. s \in States
  BY <1>1, <1>2 DEF States
<1>4. /\ s.mismatches = ram.mismatches /\ s.pin = ram.pin /\ s.length = ram.length
      /\ s.min = ram.min /\ s.timestamp = ram.timestamp
      /\ s.force = (ram.force \/ change)
  BY <1>1 DEF States
<1>5. /\ Ready /\ req' = r
      /\ token' = IF change \/ failed' THEN None ELSE token
      /\ UNCHANGED <<marker, keystore, made, runtime, history>>
  BY Zenon DEF SetMinPinLength
<1>6. Save(s, "min")
  <2>1. CASE change /\ ~ram.force
    <3>1. s = [ram EXCEPT !.force = TRUE]
      BY <2>1
    <3> QED
      BY <2>1, <3>1 DEF SetMinPinLength
  <2>2. CASE ~(change /\ ~ram.force)
    <3>1. s = ram
      <4>1. (ram.force \/ change) = ram.force
        BY <2>2, <1>2, Zenon
      <4> HIDE DEF change
      <4> QED
        BY <4>1, <1>1 DEF States
    <3>2. pc' = "min" /\ UNCHANGED <<file, ram, failed>>
      BY <2>2, Zenon DEF SetMinPinLength
    <3> QED
      BY <1>1, <3>1, <3>2 DEF Save
  <2> QED
    BY <2>1, <2>2
<1>7. change => ram.pin # None
  OBVIOUS
<1>8. ~change => ram.pin = None \/ ram.length >= r.min
  <2>1. r.min \in Nat
    BY <1>2, Zenon
  <2>2. ~(ram.length < r.min) => ram.length >= r.min
    BY <1>2, <2>1
  <2> QED
    BY <2>2, Zenon
<1> HIDE DEF s, change
<1>9. Sound(s)
  BY <1>1, <1>4, <1>7 DEF Sound, MinLength
<1>10. UNCHANGED <<wrong, tried, used, lived>>
  BY <1>5 DEF history
<1>11. /\ file' \in States /\ ram' = s /\ ram' # None /\ failed' \in BOOLEAN
       /\ failed' => pc' = "idle"
       /\ ~failed' => pc' = "min"
       /\ RamIsFile' /\ MarkerFirst' /\ FileSound'
  BY <1>3, <1>5, <1>6, <1>9, <1>10, SaveKeeps
<1>12. CASE failed'
  <2>1. token' = None /\ req' \in Requests \cup Configurations \cup {None}
    BY <1>5, <1>12, Zenon
  <2> QED
    BY <2>1, <1>3, <1>5, <1>6, <1>9, <1>12, SaveFails
<1>13. CASE ~failed'
  <2>1. /\ pc' = "min" /\ failed' = FALSE
        /\ change => token' = None
        /\ token' \in {token, None}
    BY <1>5, <1>11, <1>13, Zenon
  <2>2. TypeOK'
    BY <2>1, <1>3, <1>5, <1>10, <1>11 DEF StateInv, TypeOK
  <2>3. Serving'
    BY <2>1, <1>5, <1>11 DEF Serving
  <2>4. WrongCounted' /\ TriedCounted'
    BY <2>1, <1>1, <1>4, <1>5, <1>10, <1>11 DEF StateInv, WrongCounted, TriedCounted, Ready
  <2>5. ~change /\ token' # None => s.force = ram.force /\ ram.length >= r.min
    BY <2>1, <1>2, <1>4, <1>8, Zenon DEF StateInv, TokenKept, TokenCurrent
  <2>6. TokenKept'
    BY <2>1, <2>5, <1>4, <1>5, <1>11 DEF StateInv, TokenKept, TokenCurrent, MinLength
  <2>7. ForcedFirst'
    BY <2>1, <1>4, <1>5, <1>8, <1>11 DEF ForcedFirst
  <2>8. KeysFresh'
    BY <2>1, <1>5, <1>10 DEF StateInv, KeysFresh
  <2> QED
    BY <2>2, <2>3, <2>4, <2>6, <2>7, <2>8, <1>11 DEF StateInv
<1> QED
  BY <1>12, <1>13

\* The minimum is raised over PINs that are long enough or must change.
LEMMA StoreMinLengthStep ==
    ASSUME StateInv, StoreMinLength
    PROVE  StateInv'
<1>1. ram \in States /\ file = ram /\ ~failed /\ Sound(ram) /\ ram # None
  BY Loaded DEF StoreMinLength
<1>2. pc = "min" /\ req \in Configurations
  BY DEF StoreMinLength, StateInv, Serving
<1>3. req.min \in MinLengths /\ req.min \in Nat
  <2>1. req.min \in MinLengths
    BY <1>2 DEF Configurations
  <2> QED
    BY <2>1, StateAssumption, Zenon
<1>4. PICK s : /\ s \in {ram, [ram EXCEPT !.min = req.min]}
               /\ s # ram => req.min > MinLength(ram)
               /\ Save(s, "rps")
  <2>1. CASE req.min > MinLength(ram) /\ Save([ram EXCEPT !.min = req.min], "rps")
    BY <2>1
  <2>2. CASE pc' = "rps" /\ UNCHANGED <<file, ram, failed>>
    <3>1. Save(ram, "rps")
      BY <1>1, <2>2 DEF Save
    <3> QED
      BY <3>1
  <2> QED
    BY <2>1, <2>2 DEF StoreMinLength
<1>5. /\ s \in States
      /\ s.mismatches = ram.mismatches /\ s.pin = ram.pin /\ s.length = ram.length
      /\ s.force = ram.force /\ s.timestamp = ram.timestamp
  BY <1>1, <1>3, <1>4 DEF States
<1>6. MinLength(s) = MinLength(ram) \/ MinLength(s) = req.min
  <2>1. CASE s = ram
    BY <2>1
  <2>2. CASE s # ram
    <3>1. s.min = req.min
      BY <1>1, <1>4, <2>2 DEF States
    <3>2. req.min > DEFAULT_MIN_PIN_LENGTH
      BY <1>1, <1>3, <1>4, <2>2, MinLengthNat, StateAssumption
    <3> QED
      BY <3>1, <3>2 DEF MinLength
  <2> QED
    BY <2>1, <2>2
<1>7. ram.pin # None => ram.force \/ ram.length >= req.min
  BY <1>2 DEF StateInv, ForcedFirst
<1>8. Sound(s)
  BY <1>1, <1>5, <1>6, <1>7 DEF Sound
<1>9. /\ token' = IF failed' THEN None ELSE token
      /\ UNCHANGED <<marker, keystore, made, runtime, req, history>>
  BY Zenon DEF StoreMinLength, TokenUnlessFailed
<1>10. UNCHANGED <<wrong, tried, used, lived>>
  BY <1>9 DEF history
<1>11. /\ file' \in States /\ ram' = s /\ ram' # None /\ failed' \in BOOLEAN
       /\ ~failed' => pc' = "rps"
       /\ RamIsFile' /\ MarkerFirst' /\ FileSound'
  BY <1>2, <1>4, <1>5, <1>8, <1>9, <1>10, SaveKeeps
<1>12. CASE failed'
  <2>1. token' = None /\ req' \in Requests \cup Configurations \cup {None}
    BY <1>2, <1>9, <1>12, Zenon
  <2> QED
    BY <2>1, <1>2, <1>4, <1>5, <1>8, <1>9, <1>12, SaveFails
<1>13. CASE ~failed'
  <2>1. pc' = "rps" /\ failed' = FALSE /\ token' = token
    BY <1>9, <1>11, <1>13, Zenon
  <2>2. TypeOK'
    BY <2>1, <1>5, <1>9, <1>10, <1>11 DEF StateInv, TypeOK
  <2>3. Serving' /\ ForcedFirst' /\ KeysFresh'
    BY <2>1, <1>2, <1>9, <1>10, <1>11 DEF StateInv, Serving, ForcedFirst, KeysFresh
  <2>4. WrongCounted' /\ TriedCounted'
    BY <2>1, <1>1, <1>2, <1>5, <1>9, <1>10, <1>11 DEF StateInv, WrongCounted, TriedCounted
  <2>5. token # None => ram.length >= MinLength(s) /\ token = ram.pin /\ ~ram.force
    BY <1>2, <1>6 DEF StateInv, TokenKept, TokenCurrent
  <2>6. TokenKept'
    <3>1. MinLength(ram)' = MinLength(s)
      BY <1>11 DEF MinLength
    <3> QED
      BY <2>1, <2>5, <3>1, <1>5, <1>11 DEF TokenKept, TokenCurrent
  <2> QED
    BY <2>2, <2>3, <2>4, <2>6, <1>11 DEF StateInv
<1> QED
  BY <1>12, <1>13

\* Writes of fields that no other part depends on.
LEMMA IdleSave ==
    ASSUME StateInv, Ready \/ pc = "rps", NEW s \in States, Sound(s), Save(s, "idle"),
           s.pin = ram.pin, s.length = ram.length, s.min = ram.min, s.force = ram.force,
           TokenUnlessFailed(token),
           UNCHANGED <<marker, keystore, made, runtime, req, history>>
    PROVE  StateInv'
<1>1. ram \in States /\ file = ram /\ ~failed /\ Sound(ram) /\ ram # None
  BY Loaded
<1>2. token' = IF failed' THEN None ELSE token
  BY DEF TokenUnlessFailed
<1>3. UNCHANGED <<wrong, tried, used, lived>>
  BY DEF history
<1>4. /\ file' \in States /\ ram' = s /\ ram' # None /\ failed' \in BOOLEAN
      /\ ~failed' => pc' = "idle"
      /\ RamIsFile' /\ MarkerFirst' /\ FileSound'
  BY <1>3, SaveKeeps
<1>5. CASE failed'
  <2>1. token' = None /\ req' \in Requests \cup Configurations \cup {None}
    BY <1>2, <1>5 DEF StateInv, TypeOK
  <2> QED
    BY <2>1, <1>5, SaveFails
<1>6. CASE ~failed'
  <2>1. pc' = "idle" /\ failed' = FALSE /\ token' = token
    BY <1>2, <1>4, <1>6, Zenon
  <2>2. TypeOK'
    BY <2>1, <1>3, <1>4 DEF StateInv, TypeOK
  <2>3. Serving' /\ ForcedFirst' /\ KeysFresh'
    BY <2>1, <1>3, <1>4 DEF StateInv, Serving, ForcedFirst, KeysFresh
  <2>4. WrongCounted' /\ TriedCounted'
    BY <2>1, <1>1, <1>3, <1>4 DEF StateInv, WrongCounted, TriedCounted, Ready
  <2>5. TokenKept'
    BY <2>1, <1>4 DEF StateInv, TokenKept, TokenCurrent, MinLength
  <2> QED
    BY <2>2, <2>3, <2>4, <2>5, <1>4 DEF StateInv
<1> QED
  BY <1>5, <1>6

\* The list of relying parties concerns nothing else.
LEMMA StoreRpIdsStep ==
    ASSUME StateInv, StoreRpIds
    PROVE  StateInv'
<1>1. ram \in States /\ file = ram /\ ~failed /\ Sound(ram) /\ ram # None
  BY Loaded DEF StoreRpIds
<1>2. req.rps \in RpLists \cup {None}
  BY DEF StoreRpIds, StateInv, Serving, Configurations
<1>3. PICK s : s \in {ram, [ram EXCEPT !.rps = req.rps]} /\ Save(s, "idle")
  <2>1. CASE Save([ram EXCEPT !.rps = req.rps], "idle")
    BY <2>1
  <2>2. CASE pc' = "idle" /\ UNCHANGED <<file, ram, failed>>
    <3>1. Save(ram, "idle")
      BY <1>1, <2>2 DEF Save
    <3> QED
      BY <3>1
  <2> QED
    BY <2>1, <2>2 DEF StoreRpIds
<1>4. /\ s \in States
      /\ s.mismatches = ram.mismatches /\ s.pin = ram.pin /\ s.length = ram.length
      /\ s.force = ram.force /\ s.timestamp = ram.timestamp /\ s.min = ram.min
  BY <1>1, <1>2, <1>3 DEF States
<1>5. Sound(s)
  BY <1>1, <1>4 DEF Sound, MinLength
<1> QED
  BY <1>3, <1>4, <1>5, IdleSave DEF StoreRpIds

\* alwaysUv concerns nothing else.
LEMMA ToggleAlwaysUvStep ==
    ASSUME StateInv, ToggleAlwaysUv
    PROVE  StateInv'
<1> DEFINE s == [ram EXCEPT !.always_uv = ~@]
<1>1. ram \in States /\ file = ram /\ ~failed /\ Sound(ram) /\ ram # None
  BY Loaded DEF ToggleAlwaysUv
<1>2. /\ s \in States
      /\ s.mismatches = ram.mismatches /\ s.pin = ram.pin /\ s.length = ram.length
      /\ s.force = ram.force /\ s.timestamp = ram.timestamp /\ s.min = ram.min
  BY <1>1 DEF States
<1>3. Save(s, "idle")
  BY DEF ToggleAlwaysUv
<1> HIDE DEF s
<1>4. Sound(s)
  BY <1>1, <1>2 DEF Sound, MinLength
<1> QED
  BY <1>2, <1>3, <1>4, IdleSave DEF ToggleAlwaysUv

\* A new key has released no counter.
LEMMA CreateKeyStep ==
    ASSUME StateInv, CreateKey
    PROVE  StateInv'
<1> DEFINE s == [ram EXCEPT !.key = made + 1]
<1>1. ram \in States /\ file = ram /\ ~failed /\ Sound(ram) /\ ram # None /\ lived /\ ~marker
  BY Loaded DEF CreateKey
<1>2. /\ made \in Nat /\ made + 1 \in 0..MaxKeys /\ MaxKeys \in Nat
      /\ keystore \subseteq 1..made /\ used \in [Keys -> Nat] /\ used[made + 1] = 0
  BY StateAssumption DEF CreateKey, StateInv, TypeOK, KeysFresh, Keys
<1>3. /\ s \in States
      /\ s.mismatches = ram.mismatches /\ s.pin = ram.pin /\ s.length = ram.length
      /\ s.force = ram.force /\ s.timestamp = ram.timestamp /\ s.min = ram.min
  BY <1>1, <1>2 DEF States
<1>4. /\ Ready /\ Save(s, "idle") /\ made' = made + 1
      /\ keystore' \in {keystore, keystore \cup {made + 1}}
      /\ token' = IF failed' THEN None ELSE token
      /\ UNCHANGED <<marker, runtime, req, wrong, tried, used, lived>>
  BY DEF CreateKey, TokenUnlessFailed, history
<1> HIDE DEF s
<1>5. /\ file' \in {file, s} /\ ram' = s /\ pc' = "idle"
      /\ failed' = failed \/ failed' = TRUE
      /\ failed' = TRUE \/ file' = s
  BY <1>4, Zenon DEF Save
<1>6. ram' # None /\ failed' \in BOOLEAN /\ token' \in {token, None}
  BY <1>3, <1>4, <1>5, MissingAssumption, Zenon DEF StateInv, TypeOK
<1>7. failed' => token' = None
  BY <1>4, Zenon
<1>8. TypeOK'
  <2>1. keystore' \subseteq 1..made'
    BY <1>2, <1>4
  <2> QED
    BY <2>1, <1>1, <1>2, <1>3, <1>4, <1>5, <1>6 DEF StateInv, TypeOK
<1>9. RamIsFile' /\ MarkerFirst'
  BY <1>1, <1>4, <1>5, Zenon DEF RamIsFile, MarkerFirst
<1>10. FileSound'
  <2>1. ram.timestamp # 0 => \A k \in keystore' : used[k] < ram.timestamp
    BY <1>1, <1>2, <1>4, Fields DEF Sound
  <2>2. file' \in {ram, s} /\ wrong' = wrong /\ used' = used
    BY <1>1, <1>4, <1>5
  <2> QED
    BY <1>1, <1>3, <2>1, <2>2 DEF FileSound, Sound, MinLength
<1>11. Serving' /\ ForcedFirst'
  BY <1>5 DEF Serving, ForcedFirst
<1>12. WrongCounted' /\ TriedCounted'
  BY <1>1, <1>3, <1>4, <1>5, <1>6 DEF StateInv, WrongCounted, TriedCounted, Ready
<1>13. TokenKept'
  BY <1>3, <1>5, <1>6, <1>7 DEF StateInv, TokenKept, TokenCurrent, MinLength
<1>14. KeysFresh'
  BY <1>2, <1>4, <1>5 DEF StateInv, KeysFresh, Keys
<1> QED
  BY <1>8, <1>9, <1>10, <1>11, <1>12, <1>13, <1>14 DEF StateInv

\* The stored counter moves beyond the one released.
LEMMA SignStep ==
    ASSUME StateInv, NEW inc \in Increments, Sign(inc)
    PROVE  StateInv'
<1> DEFINE now == ram.timestamp
           later == IF now + inc > MaxTimestamp THEN 0 ELSE now + inc
<1>1. ram \in States /\ file = ram /\ ~failed /\ Sound(ram) /\ ram # None /\ lived /\ ~marker
  BY Loaded DEF Sign
<1>2. inc \in Nat /\ inc > 0
  BY StateAssumption
<1>3. /\ now \in Nat /\ now > 0 /\ later \in 0..MaxTimestamp
      /\ later # 0 => later > now
  BY <1>1, <1>2, Fields, StateAssumption DEF Sign
<1>4. /\ ram.key \in keystore /\ ram.key \in Keys /\ ram.key <= made
      /\ keystore \subseteq Keys /\ used \in [Keys -> Nat] /\ made \in Nat
      /\ \A k \in Keys : k > made => used[k] = 0
  <2>1. /\ ram.key \in keystore /\ keystore \subseteq 1..made /\ made \in 0..MaxKeys
        /\ used \in [Keys -> Nat] /\ \A k \in Keys : k > made => used[k] = 0
    BY DEF Sign, StateInv, TypeOK, KeysFresh
  <2>2. 1..made \subseteq Keys /\ made \in Nat
    BY <2>1, StateAssumption DEF Keys
  <2>3. ram.key \in 1..made
    BY <2>1, Zenon
  <2> QED
    BY <2>1, <2>2, <2>3
<1>0. PICK s : s = [ram EXCEPT !.timestamp = later]
  OBVIOUS
<1> HIDE DEF later
<1>5. /\ s \in States /\ s.timestamp = later
      /\ s.mismatches = ram.mismatches /\ s.pin = ram.pin /\ s.length = ram.length
      /\ s.force = ram.force /\ s.min = ram.min
  BY <1>0, <1>1, <1>3 DEF States
<1>6. /\ Ready /\ Save(s, "idle")
      /\ used' = IF failed' THEN used ELSE [used EXCEPT ![ram.key] = now]
      /\ TokenUnlessFailed(token)
      /\ UNCHANGED <<marker, keystore, made, runtime, req, wrong, tried, lived>>
  BY <1>0 DEF Sign, later
<1>7. Sound(s)
  BY <1>1, <1>3, <1>4, <1>5 DEF Sound, MinLength
<1>8. CASE failed'
  <2>1. used' = used /\ token' = None
    BY <1>6, <1>8, Zenon DEF TokenUnlessFailed
  <2>2. req' \in Requests \cup Configurations \cup {None}
    BY <1>6 DEF StateInv, TypeOK
  <2> QED
    BY <2>1, <2>2, <1>5, <1>6, <1>7, <1>8, SaveFails DEF history
<1>9. CASE ~failed'
  <2>1. used' = [used EXCEPT ![ram.key] = now] /\ token' = token
    BY <1>6, <1>9, Zenon DEF TokenUnlessFailed
  <2>2. file' = s /\ ram' = s /\ pc' = "idle" /\ failed' = failed
    BY <1>6, <1>9, Zenon DEF Save
  <2>3. s # None
    BY <1>5, MissingAssumption
  <2> HIDE DEF now
  <2>4. TypeOK'
    BY <1>3, <1>4, <1>5, <1>6, <2>1, <2>2 DEF StateInv, TypeOK
  <2>5. RamIsFile' /\ MarkerFirst' /\ Serving' /\ ForcedFirst'
    BY <1>1, <1>6, <2>2, Zenon DEF RamIsFile, MarkerFirst, Serving, ForcedFirst
  <2>6. FileSound'
    <3>1. s.timestamp # 0 => \A k \in keystore : used'[k] < s.timestamp
      BY <1>1, <1>3, <1>4, <1>5, <2>1 DEF Sound, now
    <3>2. wrong' = wrong /\ keystore' = keystore
      BY <1>6
    <3> QED
      BY <1>7, <2>2, <3>1, <3>2 DEF FileSound, Sound, MinLength
  <2>7. WrongCounted' /\ TriedCounted'
    BY <1>1, <1>5, <1>6, <2>2, <2>3 DEF StateInv, WrongCounted, TriedCounted, Ready
  <2>8. TokenKept'
    BY <1>5, <2>1, <2>2, <2>3 DEF StateInv, TokenKept, TokenCurrent, MinLength
  <2>9. KeysFresh'
    BY <1>4, <1>6, <2>1, <2>2 DEF KeysFresh, Keys
  <2> QED
    BY <2>2, <2>4, <2>5, <2>6, <2>7, <2>8, <2>9 DEF StateInv
<1> QED
  BY <1>8, <1>9

\* Deleting keys, all or some, keeps the counter ahead.
LEMMA ResetKeysStep ==
    ASSUME StateInv, ResetKeys
    PROVE  StateInv'
<1>1. ram \in States /\ file = ram /\ ~failed /\ Sound(ram) /\ ram # None /\ lived /\ ~marker
  BY Loaded DEF ResetKeys
<1>2. /\ Ready /\ token' = None /\ keystore' \subseteq keystore
      /\ UNCHANGED <<file, marker, made, ram, runtime, req, wrong, tried, used, lived>>
  BY DEF ResetKeys, history
<1>3. \/ keystore' = {} /\ pc' = "wiped" /\ failed' = FALSE
      \/ pc' = "idle" /\ failed' = TRUE
  <2>1. failed = FALSE
    BY <1>1, Zenon DEF StateInv, TypeOK
  <2> QED
    BY <2>1, Zenon DEF ResetKeys
<1> USE DEF StateInv
<1>4. TypeOK'
  BY <1>2, <1>3 DEF TypeOK
<1>5. RamIsFile' /\ MarkerFirst' /\ Serving' /\ ForcedFirst'
  BY <1>1, <1>2, <1>3 DEF RamIsFile, MarkerFirst, Serving, ForcedFirst
<1>6. FileSound'
  BY <1>1, <1>2 DEF FileSound, Sound, MinLength
<1>7. WrongCounted' /\ TriedCounted'
  BY <1>1, <1>2, <1>3 DEF WrongCounted, TriedCounted, Ready
<1>8. TokenKept' /\ KeysFresh'
  BY <1>2, <1>3 DEF TokenKept, TokenCurrent, KeysFresh
<1> QED
  BY <1>4, <1>5, <1>6, <1>7, <1>8

\* The state is reset when no key is left.
LEMMA ResetStateStep ==
    ASSUME StateInv, ResetState
    PROVE  StateInv'
<1>1. ram \in States /\ file = ram /\ ~failed /\ Sound(ram) /\ ram # None /\ lived /\ ~marker
  BY Loaded DEF ResetState
<1>2. pc = "wiped" /\ keystore = {} /\ token = None
  BY DEF ResetState, StateInv, KeysFresh, TokenKept
<1>3. /\ Save(Fresh, "volatile") /\ wrong' = IF file' = Fresh THEN 0 ELSE wrong
      /\ token' = IF failed' THEN None ELSE token
      /\ UNCHANGED <<marker, keystore, made, runtime, req, tried, used, lived>>
  BY DEF ResetState, TokenUnlessFailed
<1>4. Fresh \in States /\ Fresh # None
  BY FreshState
<1>5. /\ file' \in {ram, Fresh} /\ ram' = Fresh /\ failed' \in BOOLEAN
      /\ (failed' = TRUE /\ pc' = "idle") \/ (file' = Fresh /\ pc' = "volatile" /\ ~failed')
  <2>1. /\ file' \in {ram, Fresh} /\ ram' = Fresh
        /\ \/ failed' = TRUE /\ pc' = "idle"
           \/ file' = Fresh /\ pc' = "volatile" /\ failed' = failed
    BY <1>1, <1>3 DEF Save
  <2>2. failed = FALSE
    BY <1>1, Zenon DEF StateInv, TypeOK
  <2>3. failed' \in BOOLEAN
    BY <2>1, <2>2, Zenon
  <2> QED
    BY <2>1, <2>2, <2>3, Zenon
<1>6. token' = None
  BY <1>2, <1>3
<1>7. /\ file' = Fresh => wrong' = 0
      /\ file' # Fresh => wrong' = wrong
      /\ wrong \in Nat /\ wrong <= RESET_RETRIES
  BY <1>3 DEF StateInv, TypeOK, WrongCounted
<1>8. TypeOK'
  BY <1>1, <1>3, <1>4, <1>5, <1>6, <1>7 DEF StateInv, TypeOK
<1>9. RamIsFile' /\ MarkerFirst'
  BY <1>1, <1>3, <1>5, Zenon DEF RamIsFile, MarkerFirst
<1>10. FileSound'
  <2>1. CASE file' = Fresh
    BY <2>1, <1>2, <1>3, <1>7 DEF FileSound, Sound, Fresh
  <2>2. CASE file' # Fresh
    BY <2>2, <1>1, <1>2, <1>3, <1>5, <1>7 DEF FileSound, Sound, MinLength
  <2> QED
    BY <2>1, <2>2
<1>11. Serving' /\ ForcedFirst' /\ KeysFresh'
  BY <1>2, <1>3, <1>4, <1>5 DEF StateInv, Serving, ForcedFirst, KeysFresh
<1>12. WrongCounted'
  BY <1>5, <1>7, StateAssumption DEF WrongCounted
<1>13. TriedCounted'
  BY <1>3, <1>4, <1>5 DEF StateInv, TriedCounted
<1>14. TokenKept'
  BY <1>6 DEF TokenKept, TokenCurrent
<1> QED
  BY <1>8, <1>9, <1>10, <1>11, <1>12, <1>13, <1>14 DEF StateInv

\* The count of this power cycle goes last.
LEMMA ResetRuntimeStep ==
    ASSUME StateInv, ResetRuntime
    PROVE  StateInv'
<1>1. ram \in States /\ file = ram /\ ~failed /\ Sound(ram) /\ ram # None /\ lived /\ ~marker
  BY Loaded DEF ResetRuntime
<1>2. /\ pc' = "idle" /\ token' = None
      /\ UNCHANGED <<file, marker, keystore, made, ram, req, wrong, used, lived>>
      /\ \/ runtime' = 0 /\ tried' = 0 /\ failed' = failed
         \/ failed' = TRUE /\ runtime' = runtime /\ tried' = tried
  BY DEF ResetRuntime, stored
<1> USE DEF StateInv
<1>3. TypeOK'
  <2>1. failed' \in BOOLEAN
    BY <1>2, Zenon DEF TypeOK
  <2>2. runtime' \in 0..POWERCYCLE_RETRIES /\ tried' \in Nat
    BY <1>2, StateAssumption DEF TypeOK
  <2> QED
    BY <1>2, <2>1, <2>2 DEF TypeOK
<1>4. RamIsFile' /\ MarkerFirst' /\ Serving' /\ ForcedFirst'
  BY <1>1, <1>2 DEF RamIsFile, MarkerFirst, Serving, ForcedFirst
<1>5. FileSound'
  BY <1>1, <1>2 DEF FileSound, Sound, MinLength
<1>6. WrongCounted' /\ TriedCounted'
  BY <1>1, <1>2 DEF WrongCounted, TriedCounted
<1>7. TokenKept' /\ KeysFresh'
  BY <1>2 DEF TokenKept, TokenCurrent, KeysFresh
<1> QED
  BY <1>3, <1>4, <1>5, <1>6, <1>7

\* A token may end at any time.
LEMMA ExpireStep ==
    ASSUME StateInv, Expire
    PROVE  StateInv'
<1>1. /\ token' = None
      /\ UNCHANGED <<file, marker, keystore, made, ram, failed, runtime, pc, req,
                     wrong, tried, used, lived>>
  BY DEF Expire, stored, history
<1> USE <1>1 DEF StateInv
<1>2. TypeOK' /\ RamIsFile' /\ MarkerFirst' /\ Serving' /\ ForcedFirst'
  BY DEF TypeOK, RamIsFile, MarkerFirst, Serving, ForcedFirst
<1>3. FileSound'
  BY DEF FileSound, Sound, MinLength
<1>4. WrongCounted' /\ TriedCounted' /\ TokenKept' /\ KeysFresh'
  BY DEF WrongCounted, TriedCounted, TokenKept, TokenCurrent, KeysFresh
<1> QED
  BY <1>2, <1>3, <1>4

\* A restart keeps what is stored, or loses the file.
LEMMA PowerCutStep ==
    ASSUME StateInv, PowerCut
    PROVE  StateInv'
<1>1. /\ file' \in {file, None} /\ ram' = None /\ failed' = FALSE /\ runtime' = 0
      /\ token' = None /\ pc' = "idle" /\ req' = None /\ tried' = 0
      /\ UNCHANGED <<marker, keystore, made, wrong, used, lived>>
  BY DEF PowerCut
<1> USE DEF StateInv
<1>2. TypeOK'
  <2>1. runtime' \in 0..POWERCYCLE_RETRIES /\ tried' \in Nat
    BY <1>1, StateAssumption
  <2> QED
    BY <1>1, <2>1 DEF TypeOK
<1>3. RamIsFile' /\ MarkerFirst' /\ Serving' /\ ForcedFirst'
  BY <1>1 DEF RamIsFile, MarkerFirst, Serving, ForcedFirst
<1>4. FileSound'
  BY <1>1 DEF FileSound, Sound, MinLength
<1>5. WrongCounted' /\ TriedCounted' /\ TokenKept' /\ KeysFresh'
  BY <1>1 DEF WrongCounted, TriedCounted, TokenKept, TokenCurrent, KeysFresh
<1> QED
  BY <1>2, <1>3, <1>4, <1>5

-----------------------------------------------------------------------------
(* The invariant. *)

\* The invariant holds on a device just provisioned.
LEMMA StateInit == Init => StateInv
<1> SUFFICES ASSUME Init PROVE StateInv
  OBVIOUS
<1>1. TypeOK
  <2>1. /\ runtime \in 0..POWERCYCLE_RETRIES /\ made \in 0..MaxKeys /\ keystore \subseteq 1..made
        /\ wrong \in Nat /\ tried \in Nat /\ used \in [Keys -> Nat]
    BY StateAssumption DEF Init
  <2>2. marker \in BOOLEAN /\ failed \in BOOLEAN /\ lived \in BOOLEAN
    BY Zenon DEF Init
  <2> QED
    BY <2>1, <2>2 DEF Init, TypeOK
<1>2. RamIsFile /\ MarkerFirst /\ Serving /\ ForcedFirst /\ FileSound
  BY DEF Init, RamIsFile, MarkerFirst, Serving, ForcedFirst, FileSound
<1>3. WrongCounted /\ TriedCounted /\ TokenKept /\ KeysFresh
  BY StateAssumption DEF Init, WrongCounted, TriedCounted, TokenKept, TokenCurrent, KeysFresh
<1> QED
  BY <1>1, <1>2, <1>3 DEF StateInv

\* Every step keeps the invariant.
LEMMA StateNext == StateInv /\ [Next]_vars => StateInv'
<1> SUFFICES ASSUME StateInv, [Next]_vars PROVE StateInv'
  OBVIOUS
<1>1. CASE LoadStored
  BY <1>1, LoadStoredStep
<1>2. CASE LoadFirst
  BY <1>2, LoadFirstStep
<1>3. CASE \E r \in Requests : VerifyPin(r)
  BY <1>3, VerifyPinStep
<1>4. CASE Compare
  BY <1>4, CompareStep
<1>5. CASE ResetRetries
  BY <1>5, ResetRetriesStep
<1>6. CASE Grant
  BY <1>6, GrantStep
<1>7. CASE ChangePin
  BY <1>7, ChangePinStep
<1>8. CASE \E pin \in Pins : SetPin(pin)
  BY <1>8, SetPinStep
<1>9. CASE \E r \in Configurations : SetMinPinLength(r)
  BY <1>9, SetMinPinLengthStep
<1>10. CASE StoreMinLength
  BY <1>10, StoreMinLengthStep
<1>11. CASE StoreRpIds
  BY <1>11, StoreRpIdsStep
<1>12. CASE ToggleAlwaysUv
  BY <1>12, ToggleAlwaysUvStep
<1>13. CASE CreateKey
  BY <1>13, CreateKeyStep
<1>14. CASE \E inc \in Increments : Sign(inc)
  BY <1>14, SignStep
<1>15. CASE ResetKeys
  BY <1>15, ResetKeysStep
<1>16. CASE ResetState
  BY <1>16, ResetStateStep
<1>17. CASE ResetRuntime
  BY <1>17, ResetRuntimeStep
<1>18. CASE Expire
  BY <1>18, ExpireStep
<1>19. CASE PowerCut
  BY <1>19, PowerCutStep
<1>20. CASE UNCHANGED vars
  <2> USE <1>20 DEF StateInv, vars, stored, session, history
  <2>1. TypeOK' /\ RamIsFile' /\ MarkerFirst' /\ Serving' /\ ForcedFirst'
    BY DEF TypeOK, RamIsFile, MarkerFirst, Serving, ForcedFirst
  <2>2. FileSound'
    BY DEF FileSound, Sound, MinLength
  <2>3. WrongCounted' /\ TriedCounted' /\ TokenKept' /\ KeysFresh'
    BY DEF WrongCounted, TriedCounted, TokenKept, TokenCurrent, KeysFresh, MinLength
  <2> QED
    BY <2>1, <2>2, <2>3
<1> QED
  BY <1>1, <1>2, <1>3, <1>4, <1>5, <1>6, <1>7, <1>8, <1>9, <1>10, <1>11, <1>12, <1>13,
     <1>14, <1>15, <1>16, <1>17, <1>18, <1>19, <1>20 DEF Next

\* The inductive invariant holds in every reachable state.
THEOREM StateInvariant == Spec => []StateInv
BY StateInit, StateNext, PTL DEF Spec

\* Every value stays in its range: the retry counters never pass their limits
\* and the counter of signatures never passes u32::MAX.
THEOREM TypeCorrect == Spec => []TypeOK
BY StateInvariant, PTL DEF StateInv

\* A command starts from the state a restart would find, for every constant
\* (save, latch_persistence_failure).
THEOREM RamIsFileHolds == Spec => []RamIsFile
BY StateInvariant, PTL DEF StateInv

\* No more wrong PINs are compared than the two limits allow, wherever power is
\* cut (decrement_retries).
THEOREM GuessesAreBounded == Spec => []GuessesBounded
<1>1. StateInv => GuessesBounded
  BY StateAssumption DEF StateInv, TypeOK, WrongCounted, TriedCounted, GuessesBounded
<1> QED
  BY <1>1, StateInvariant, PTL

\* A token in use is one of the stored PIN, which meets the stored policy
\* (invalidate_pin_tokens).
THEOREM TokenIsCurrent == Spec => []TokenCurrent
<1>1. StateInv => TokenCurrent
  BY DEF StateInv, TokenKept
<1> QED
  BY <1>1, StateInvariant, PTL

\* A stored PIN below the stored minimum has to be changed, between any two
\* writes (config_set_min_pin_length).
THEOREM PolicyIsEnforced == Spec => []PolicyEnforced
<1>1. StateInv => PolicyEnforced
  BY DEF StateInv, FileSound, Sound, PolicyEnforced
<1> QED
  BY <1>1, StateInvariant, PTL

\* The stored counter is beyond every one released for a key that exists
\* (signature_counter, reset).
THEOREM CounterIsAhead == Spec => []CounterAhead
<1>1. StateInv => CounterAhead
  BY DEF StateInv, FileSound, Sound, CounterAhead
<1> QED
  BY <1>1, StateInvariant, PTL

-----------------------------------------------------------------------------
(* What a step may not do. *)

\* Without a command in progress or one to begin, only LoadFirst writes.
LEMMA NotServing ==
    ASSUME [Next]_vars, pc = "idle", ~Ready, file' # file, file' # None
    PROVE  LoadFirst
<1>1. /\ ~\E r \in Requests : VerifyPin(r)
      /\ ~\E pin \in Pins : SetPin(pin)
      /\ ~\E r \in Configurations : SetMinPinLength(r)
      /\ ~\E inc \in Increments : Sign(inc)
  BY DEF VerifyPin, SetPin, SetMinPinLength, Sign
<1>2. ~Compare /\ ~ResetRetries /\ ~Grant /\ ~ChangePin /\ ~StoreMinLength /\ ~StoreRpIds
  BY DEF Compare, ResetRetries, Grant, ChangePin, StoreMinLength, StoreRpIds
<1>3. ~ToggleAlwaysUv /\ ~CreateKey /\ ~ResetKeys /\ ~ResetState /\ ~ResetRuntime /\ ~Expire
  BY DEF ToggleAlwaysUv, CreateKey, ResetKeys, ResetState, ResetRuntime, Expire
<1>4. ~LoadStored /\ ~PowerCut /\ ~UNCHANGED vars
  BY DEF LoadStored, PowerCut, vars, stored
<1> QED
  BY <1>1, <1>2, <1>3, <1>4 DEF Next

\* A device that has served a command never creates a state in place of a
\* missing one (load_if_not_initialised).
THEOREM NeverReinitialised == Spec => NoSilentReinit
<1>1. StateInv /\ [Next]_vars => [lived /\ file = None => file' = None]_vars
  <2> SUFFICES ASSUME StateInv, [Next]_vars, lived, file = None, file' # None PROVE FALSE
    OBVIOUS
  <2>1. pc = "idle" /\ ~Ready
    BY DEF StateInv, Serving, RamIsFile, Ready
  <2>2. LoadFirst
    BY <2>1, NotServing
  <2> QED
    BY <2>2 DEF StateInv, MarkerFirst, LoadFirst
<1> QED
  BY <1>1, StateInvariant, PTL DEF Spec, NoSilentReinit

\* A step that clears a forced change gives the file another PIN.
LEMMA ForceCleared ==
    ASSUME StateInv, [Next]_vars, file # None, file' # None, file.force, ~file'.force
    PROVE  file'.pin # file.pin
<1>1. file \in States /\ file.pin # None
  BY DEF StateInv, TypeOK, FileSound, Sound
<1>2. file' # file
  BY <1>1
<1>3. CASE Ready \/ pc # "idle"
  <2>1. ram = file /\ ram \in States
    BY <1>3, Loaded
  <2>2. ASSUME NEW s, NEW next, Save(s, next)
        PROVE  file' = s
    BY <1>2, <2>2 DEF Save
  <2>3. CASE \E r \in Requests : VerifyPin(r)
    BY <2>1, <2>2, <2>3 DEF VerifyPin, States
  <2>4. CASE ResetRetries
    BY <1>2, <2>1, <2>2, <2>4 DEF ResetRetries, States
  <2>5. CASE ChangePin
    <3>1. req.new # ram.pin /\ file' = WithPin(req.new)
      BY <1>2, <2>2, <2>5 DEF ChangePin
    <3> QED
      BY <2>1, <3>1 DEF WithPin, States
  <2>6. CASE \E pin \in Pins : SetPin(pin)
    BY <1>1, <2>1, <2>6 DEF SetPin
  <2>7. CASE \E r \in Configurations : SetMinPinLength(r)
    BY <1>2, <2>1, <2>2, <2>7 DEF SetMinPinLength, States
  <2>8. CASE StoreMinLength
    BY <1>2, <2>1, <2>2, <2>8 DEF StoreMinLength, States
  <2>9. CASE StoreRpIds
    BY <1>2, <2>1, <2>2, <2>9 DEF StoreRpIds, States
  <2>10. CASE ToggleAlwaysUv
    BY <2>1, <2>2, <2>10 DEF ToggleAlwaysUv, States
  <2>11. CASE CreateKey
    BY <2>1, <2>2, <2>11 DEF CreateKey, States
  <2>12. CASE \E inc \in Increments : Sign(inc)
    BY <2>1, <2>2, <2>12 DEF Sign, States
  <2>13. CASE ResetState
    BY <1>1, <2>2, <2>13 DEF ResetState, Fresh
  <2>14. ~LoadStored /\ ~LoadFirst /\ ~PowerCut
    BY <1>2, <1>3 DEF LoadStored, LoadFirst, PowerCut, Ready
  <2>15. ~Compare /\ ~Grant /\ ~ResetKeys /\ ~ResetRuntime /\ ~Expire /\ ~UNCHANGED vars
    BY <1>2 DEF Compare, Grant, ResetKeys, ResetRuntime, Expire, vars, stored
  <2> QED
    BY <2>3, <2>4, <2>5, <2>6, <2>7, <2>8, <2>9, <2>10, <2>11, <2>12, <2>13, <2>14, <2>15
    DEF Next
<1>4. CASE ~(Ready \/ pc # "idle")
  <2>1. LoadFirst
    BY <1>2, <1>4, NotServing
  <2> QED
    BY <2>1 DEF LoadFirst
<1> QED
  BY <1>3, <1>4

\* A forced change stays due until the PIN is another one or the device is reset
\* (set_pin_hash, ChangePin step 8b).
THEOREM ForcedChangeIsKept == Spec => ForcedChangeStays
<1>1. StateInv /\ [Next]_vars =>
        [file # None /\ file' # None /\ file.force /\ ~file'.force => file'.pin # file.pin]_vars
  BY ForceCleared
<1> QED
  BY <1>1, StateInvariant, PTL DEF Spec, ForcedChangeStays
=============================================================================
