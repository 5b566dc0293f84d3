--------------------------- MODULE PersistentState ---------------------------
(***************************************************************************)
(* The authenticator's persistent state (fido-authenticator, state.rs) and *)
(* the commands that change it: client PIN, configuration, signatures and  *)
(* reset (ctap2.rs).  The state lives in one file that each save replaces  *)
(* as a whole; a command makes several saves, each may fail with or        *)
(* without having reached storage, and power may fail between any two.     *)
(*                                                                         *)
(* A PIN is a value with a number of code points.  The key encryption key, *)
(* the key wrapping key and the keys of resident credentials are created,  *)
(* kept and deleted in the same way: one key, named by a number, stands    *)
(* for them.  A request that changes nothing is left out.                  *)
(***************************************************************************)
EXTENDS Naturals

CONSTANTS
    RESET_RETRIES, POWERCYCLE_RETRIES,
    Pins, CodePoints,
    DEFAULT_MIN_PIN_LENGTH, MinLengths,     \* MinLengths: what a request may ask for
    RpLists,                                \* values of minPinLengthRPIDs
    MaxTimestamp, Increments,               \* u32::MAX and 1..256
    MaxKeys,                                \* bound on the keys ever created
    None

ASSUME StateAssumption ==
    /\ RESET_RETRIES \in Nat \ {0} /\ POWERCYCLE_RETRIES \in Nat \ {0}
    /\ CodePoints \in [Pins -> Nat] /\ None \notin Pins \cup RpLists
    /\ DEFAULT_MIN_PIN_LENGTH \in Nat /\ MinLengths \subseteq Nat
    /\ MaxTimestamp \in Nat \ {0} /\ Increments \subseteq Nat \ {0}
    /\ MaxKeys \in Nat

VARIABLES
    file,           \* persistent-state.cbor, None when it is missing
    marker,         \* persistent-state.init exists
    ram,            \* PersistentState, None before it is loaded
    failed,         \* persistence_failed
    runtime,        \* RuntimeState::consecutive_pin_mismatches
    token,          \* the PIN whose token is in use
    pc, req,        \* how far a command has come, and its parameters
    keystore,       \* the keys that exist
    made,           \* number of keys created so far
    wrong, tried,   \* history: wrong PINs compared since the last right one;
                    \* tried counts those of this power cycle
    used,           \* history: the last counter released for each key
    lived           \* history: a command has been served

stored == <<file, marker, keystore, made>>
session == <<ram, failed, runtime, token, pc, req>>
history == <<wrong, tried, used, lived>>
vars == <<stored, session, history>>

Keys == 1..MaxKeys

\* reset_value
Fresh == [key |-> 0, mismatches |-> 0, pin |-> None, length |-> 0, timestamp |-> 1,
          min |-> 0, rps |-> None, force |-> FALSE, always_uv |-> FALSE]

\* min_pin_length
MinLength(s) ==
    IF s.min > DEFAULT_MIN_PIN_LENGTH THEN s.min ELSE DEFAULT_MIN_PIN_LENGTH

\* A device just provisioned.
Init ==
    /\ file = None /\ marker = TRUE
    /\ ram = None /\ failed = FALSE
    /\ runtime = 0 /\ token = None
    /\ pc = "idle" /\ req = None
    /\ keystore = {} /\ made = 0
    /\ wrong = 0 /\ tried = 0
    /\ used = [k \in Keys |-> 0]
    /\ lived = FALSE

-----------------------------------------------------------------------------

\* A command may be dispatched.
Ready == pc = "idle" /\ ram # None /\ ~failed

\* Mutant of Save: a failed write is not latched.
SaveUnlatched(s, next) ==
    \/ file' = s /\ ram' = s /\ pc' = next /\ UNCHANGED failed
    \/ file' \in {file, s} /\ ram' = s /\ pc' = "idle" /\ UNCHANGED failed

\* save: the file is replaced and the command goes on; or an error is reported,
\* whether or not storage has the new state, and ends it.
Save(s, next) ==
    \/ file' = s /\ ram' = s /\ pc' = next /\ UNCHANGED failed
    \/ file' \in {file, s} /\ ram' = s /\ pc' = "idle" /\ failed' = TRUE

\* discard_authorizations after a command that failed to save.
TokenUnlessFailed(t) == token' = IF failed' THEN None ELSE t

\* load_if_not_initialised with a stored state.
LoadStored ==
    /\ pc = "idle" /\ ram = None /\ ~failed /\ file # None
    /\ \/ marker' = FALSE /\ ram' = file /\ lived' = TRUE
       \* the marker is unreadable or its removal reports an error
       \/ marker /\ marker' \in BOOLEAN /\ UNCHANGED <<ram, lived>>
    /\ UNCHANGED <<file, keystore, made, failed, runtime, token, pc, req,
                   wrong, tried, used>>

\* Mutant of LoadFirst: a missing state is always created.
LoadFirstAnyhow ==
    /\ pc = "idle" /\ ram = None /\ ~failed /\ file = None
    /\ file' = Fresh /\ marker' = FALSE /\ ram' = Fresh /\ lived' = TRUE
    /\ UNCHANGED <<keystore, made, failed, runtime, token, pc, req, wrong, tried, used>>

\* load_if_not_initialised without one: only the marker allows to create it.
LoadFirst ==
    /\ pc = "idle" /\ ram = None /\ ~failed /\ file = None /\ marker
    /\ \/ /\ file' = Fresh /\ UNCHANGED failed
          /\ \/ marker' = FALSE /\ ram' = Fresh /\ lived' = TRUE
             \/ marker' \in BOOLEAN /\ UNCHANGED <<ram, lived>>
       \/ file' \in {file, Fresh} /\ failed' = TRUE /\ UNCHANGED <<marker, ram, lived>>
    /\ UNCHANGED <<keystore, made, runtime, token, pc, req, wrong, tried, used>>

-----------------------------------------------------------------------------
(* client_pin *)

\* pin_blocked
PinBlocked == ram.mismatches >= RESET_RETRIES \/ runtime >= POWERCYCLE_RETRIES

\* Mutant of VerifyPin: the attempt is not stored before the comparison.
VerifyPinFirst(r) ==
    /\ Ready /\ ~PinBlocked
    /\ ram' = [ram EXCEPT !.mismatches = @ + 1] /\ pc' = "compare"
    /\ runtime' = runtime + 1 /\ req' = r
    /\ UNCHANGED <<stored, failed, token, history>>

\* GetPinToken, GetPinUvAuthTokenUsingPinWithPermissions and ChangePin up to
\* decrement_retries.
VerifyPin(r) ==
    /\ Ready /\ ~PinBlocked
    /\ Save([ram EXCEPT !.mismatches = @ + 1], "compare")
    /\ runtime' = IF failed' THEN runtime ELSE runtime + 1
    /\ TokenUnlessFailed(token)
    /\ req' = r
    /\ UNCHANGED <<marker, keystore, made, history>>

\* decrypt_pin_hash_and_maybe_escalate
Compare ==
    /\ pc = "compare"
    /\ \/ ram.pin = None /\ pc' = "idle" /\ UNCHANGED <<wrong, tried>>
       \/ /\ ram.pin \notin {None, req.guess} /\ pc' = "idle"
          /\ wrong' = wrong + 1 /\ tried' = tried + 1
       \/ /\ ram.pin = req.guess /\ pc' = "matched"
          /\ wrong' = 0 /\ tried' = 0
    /\ UNCHANGED <<stored, ram, failed, runtime, token, req, used, lived>>

\* reset_retries, after the right PIN or a new one.
ResetRetries ==
    LET next == IF pc = "matched" THEN "granted" ELSE "idle"
    IN  /\ pc \in {"matched", "stored"}
        /\ \/ ram.mismatches > 0 /\ Save([ram EXCEPT !.mismatches = 0], next)
           \/ ram.mismatches = 0 /\ pc' = next /\ UNCHANGED <<file, ram, failed>>
        /\ runtime' = IF failed' THEN runtime ELSE 0
        /\ TokenUnlessFailed(token)
        /\ UNCHANGED <<marker, keystore, made, req, history>>

\* Mutant of Grant: forcePINChange does not keep back the token.
GrantAlways ==
    /\ pc = "granted" /\ req.cmd = "token" /\ pc' = "idle"
    /\ token' \in {None, ram.pin}
    /\ UNCHANGED <<stored, ram, failed, runtime, req, history>>

\* The rest of the token subcommands; the clock may fail at the last moment.
Grant ==
    /\ pc = "granted" /\ req.cmd = "token" /\ pc' = "idle"
    /\ token' \in IF ram.force THEN {token} ELSE {None, ram.pin}
    /\ UNCHANGED <<stored, ram, failed, runtime, req, history>>

\* set_pin_hash
WithPin(pin) == [ram EXCEPT !.pin = pin, !.length = CodePoints[pin], !.force = FALSE]

\* decrypt_pin_check_length
LongEnough(pin) == CodePoints[pin] >= MinLength(ram)

\* Mutant of ChangePin: the new PIN is not compared with the old one.
ChangePinSame ==
    /\ pc = "granted" /\ req.cmd = "change" /\ LongEnough(req.new)
    /\ token' = None /\ Save(WithPin(req.new), "idle")
    /\ UNCHANGED <<marker, keystore, made, runtime, req, history>>

\* The rest of ChangePin.
ChangePin ==
    /\ pc = "granted" /\ req.cmd = "change"
    /\ \/ /\ ~LongEnough(req.new) \/ (ram.force /\ req.new = ram.pin)
          /\ pc' = "idle" /\ UNCHANGED <<file, ram, failed, token>>
       \/ /\ LongEnough(req.new) /\ ~(ram.force /\ req.new = ram.pin)
          /\ token' = None
          /\ \/ /\ req.new = ram.pin
                /\ pc' = "idle" /\ UNCHANGED <<file, ram, failed>>
             \/ req.new # ram.pin /\ Save(WithPin(req.new), "idle")
    /\ UNCHANGED <<marker, keystore, made, runtime, req, history>>

\* SetPin up to the stored PIN.
SetPin(pin) ==
    /\ Ready /\ ram.pin = None /\ LongEnough(pin)
    /\ Save(WithPin(pin), "stored")
    /\ TokenUnlessFailed(token)
    /\ UNCHANGED <<marker, keystore, made, runtime, req, history>>

-----------------------------------------------------------------------------
(* config *)

\* Step 4 of config: a token where the device is protected.
Authorised == (ram.pin # None \/ ram.always_uv) => token # None

\* Mutant of SetMinPinLength: forcePINChange only when the request says so.
SetMinPinLengthUnforced(r) ==
    /\ Ready /\ Authorised /\ r.min >= MinLength(ram) /\ ~r.force
    /\ pc' = "min" /\ req' = r
    /\ UNCHANGED <<stored, ram, failed, runtime, token, history>>

\* config_set_min_pin_length, steps 2.1 to 2.5.
SetMinPinLength(r) ==
    LET change == ram.pin # None /\ (r.force \/ ram.length < r.min)
    IN  /\ Ready /\ Authorised
        /\ r.min >= MinLength(ram)
        /\ r.force => ram.pin # None
        /\ \/ change /\ ~ram.force /\ Save([ram EXCEPT !.force = TRUE], "min")
           \/ ~(change /\ ~ram.force) /\ pc' = "min" /\ UNCHANGED <<file, ram, failed>>
        /\ token' = IF change \/ failed' THEN None ELSE token
        /\ req' = r
        /\ UNCHANGED <<marker, keystore, made, runtime, history>>

\* Step 2.6, set_min_pin_length.
StoreMinLength ==
    /\ pc = "min"
    /\ \/ req.min = MinLength(ram) /\ pc' = "rps" /\ UNCHANGED <<file, ram, failed>>
       \/ req.min > MinLength(ram) /\ Save([ram EXCEPT !.min = req.min], "rps")
    /\ TokenUnlessFailed(token)
    /\ UNCHANGED <<marker, keystore, made, runtime, req, history>>

\* Step 2.7, set_min_pin_length_rp_ids.
StoreRpIds ==
    /\ pc = "rps"
    /\ \/ req.rps = None /\ pc' = "idle" /\ UNCHANGED <<file, ram, failed>>
       \/ req.rps # None /\ Save([ram EXCEPT !.rps = req.rps], "idle")
    /\ TokenUnlessFailed(token)
    /\ UNCHANGED <<marker, keystore, made, runtime, req, history>>

\* toggle_always_uv, with the way out for a device without a PIN.
ToggleAlwaysUv ==
    /\ Ready
    /\ Authorised \/ (ram.pin = None /\ ram.always_uv)
    /\ Save([ram EXCEPT !.always_uv = ~@], "idle")
    /\ TokenUnlessFailed(token)
    /\ UNCHANGED <<marker, keystore, made, runtime, req, history>>

-----------------------------------------------------------------------------
(* make_credential and get_assertion *)

\* rotate_key_encryption_key from a state without a key.
CreateKey ==
    LET k == made + 1
    IN  /\ Ready /\ ram.key = 0 /\ made < MaxKeys
        /\ Save([ram EXCEPT !.key = k], "idle")
        /\ made' = k
        /\ \/ keystore' = keystore \cup {k}
           \* the key could not be generated
           \/ failed' /\ file' = file /\ UNCHANGED keystore
        /\ TokenUnlessFailed(token)
        /\ UNCHANGED <<marker, runtime, req, history>>

\* signature_counter, on behalf of a credential of the current key; once the
\* counter has overflowed it answers zero and changes nothing.
Sign(inc) ==
    LET now == ram.timestamp
    IN  /\ Ready /\ ram.key \in keystore /\ now > 0
        /\ Save([ram EXCEPT !.timestamp = IF now + inc > MaxTimestamp THEN 0 ELSE now + inc],
                "idle")
        /\ used' = IF failed' THEN used ELSE [used EXCEPT ![ram.key] = now]
        /\ TokenUnlessFailed(token)
        /\ UNCHANGED <<marker, keystore, made, runtime, req, wrong, tried, lived>>

-----------------------------------------------------------------------------
(* reset *)

\* Mutant of ResetKeys: the state is reset while keys may be left.
ResetKeysKept ==
    /\ Ready /\ token' = None
    /\ keystore' \in SUBSET keystore /\ pc' = "wiped"
    /\ UNCHANGED <<file, marker, made, ram, failed, runtime, req, history>>

\* The approved reset drops the authorizations and deletes the keys.
ResetKeys ==
    /\ Ready /\ token' = None
    /\ \/ keystore' = {} /\ pc' = "wiped" /\ UNCHANGED failed
       \/ keystore' \in SUBSET keystore /\ pc' = "idle" /\ failed' = TRUE
    /\ UNCHANGED <<file, marker, made, ram, runtime, req, history>>

\* The credential files and PersistentState::reset; a failure of either ends it.
ResetState ==
    /\ pc = "wiped"
    /\ Save(Fresh, "volatile")
    /\ wrong' = IF file' = Fresh THEN 0 ELSE wrong
    /\ TokenUnlessFailed(token)
    /\ UNCHANGED <<marker, keystore, made, runtime, req, tried, used, lived>>

\* RuntimeState::reset
ResetRuntime ==
    /\ pc = "volatile" /\ pc' = "idle"
    /\ \/ runtime' = 0 /\ tried' = 0 /\ UNCHANGED failed
       \/ failed' = TRUE /\ UNCHANGED <<runtime, tried>>
    /\ token' = None
    /\ UNCHANGED <<stored, ram, req, wrong, used, lived>>

-----------------------------------------------------------------------------

\* observe_pin_tokens: the token's time is over.
Expire ==
    /\ Ready /\ token # None /\ token' = None
    /\ UNCHANGED <<stored, ram, failed, runtime, pc, req, history>>

\* A restart, at any point of a command; the file may be found missing.
PowerCut ==
    /\ file' \in {file, None}
    /\ ram' = None /\ failed' = FALSE /\ runtime' = 0 /\ token' = None
    /\ pc' = "idle" /\ req' = None
    /\ tried' = 0
    /\ UNCHANGED <<marker, keystore, made, wrong, used, lived>>

Requests == [cmd : {"token"}, guess : Pins, new : {None}]
              \cup [cmd : {"change"}, guess : Pins, new : Pins]

Configurations == [cmd : {"min"}, min : MinLengths, force : BOOLEAN, rps : RpLists \cup {None}]

Next ==
    \/ LoadStored
    \/ LoadFirst
    \/ \E r \in Requests : VerifyPin(r)
    \/ Compare
    \/ ResetRetries
    \/ Grant
    \/ ChangePin
    \/ \E pin \in Pins : SetPin(pin)
    \/ \E r \in Configurations : SetMinPinLength(r)
    \/ StoreMinLength
    \/ StoreRpIds
    \/ ToggleAlwaysUv
    \/ CreateKey
    \/ \E inc \in Increments : Sign(inc)
    \/ ResetKeys
    \/ ResetState
    \/ ResetRuntime
    \/ Expire
    \/ PowerCut

Spec == Init /\ [][Next]_vars

-----------------------------------------------------------------------------

States == [key : 0..MaxKeys, mismatches : 0..RESET_RETRIES, pin : Pins \cup {None},
           length : Nat, timestamp : 0..MaxTimestamp, min : MinLengths \cup {0},
           rps : RpLists \cup {None}, force : BOOLEAN, always_uv : BOOLEAN]

\* A missing file is not a state.
ASSUME MissingAssumption == None \notin States

TypeOK ==
    /\ file \in States \cup {None} /\ ram \in States \cup {None}
    /\ marker \in BOOLEAN /\ failed \in BOOLEAN /\ lived \in BOOLEAN
    /\ runtime \in 0..POWERCYCLE_RETRIES
    /\ token \in Pins \cup {None}
    /\ pc \in {"idle", "compare", "matched", "granted", "stored", "min", "rps",
               "wiped", "volatile"}
    /\ req \in Requests \cup Configurations \cup {None}
    /\ made \in 0..MaxKeys /\ keystore \subseteq 1..made
    /\ wrong \in Nat /\ tried \in Nat /\ used \in [Keys -> Nat]

\* The state a command starts from is the one a restart would find, also after
\* an earlier command failed halfway (save, latch_persistence_failure).
RamIsFile == ram # None /\ ~failed => ram = file

\* Since the right PIN was entered last, at most RESET_RETRIES wrong ones have
\* been compared, at most POWERCYCLE_RETRIES of them without a restart,
\* wherever power was cut (decrement_retries before the comparison).
GuessesBounded == wrong <= RESET_RETRIES /\ tried <= POWERCYCLE_RETRIES

\* A token in use belongs to the stored PIN, which meets the policy and need not
\* be changed (invalidate_pin_tokens before every change).
TokenCurrent ==
    token # None => /\ ram # None /\ ~failed
                    /\ token = ram.pin /\ ~ram.force
                    /\ ram.length >= MinLength(ram)

\* A stored PIN shorter than the stored minimum has to be changed, also when
\* power fails between the two writes (config_set_min_pin_length).
PolicyEnforced ==
    file # None /\ file.pin # None => file.length >= MinLength(file) \/ file.force

\* The stored counter is beyond every one released for a key that still exists,
\* so no credential ever sees a counter repeated or lowered, over restarts,
\* failed writes and partial resets; zero stands for the overflow, after which
\* none is counted (signature_counter, reset).
CounterAhead ==
    file # None /\ file.timestamp # 0 =>
      \A k \in keystore : used[k] < file.timestamp

\* A device that has served a command never creates a new state in place of one
\* that is missing, which would bring back the retries (the marker).
NoSilentReinit == [][lived /\ file = None => file' = None]_vars

\* A forced change of the PIN stays due until the PIN is another one or the
\* device is reset (set_pin_hash, ChangePin step 8b).
ForcedChangeStays ==
    [][file # None /\ file' # None /\ file.force /\ ~file'.force =>
         file'.pin # file.pin]_vars
=============================================================================
