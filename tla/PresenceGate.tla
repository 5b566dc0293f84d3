---------------------------- MODULE PresenceGate ----------------------------
(***************************************************************************)
(* The button gate of src/platform/presence_gate.rs: one wait for consent, *)
(* polled at any instants with any samples, against what a reader of the   *)
(* samples would call a fresh gesture.                                     *)
(*                                                                         *)
(* samples is a history variable: every level the gate was given in this   *)
(* wait, with its instant.                                                 *)
(***************************************************************************)
EXTENDS Naturals, Sequences

CONSTANTS
    ReleaseMs,      \* release_ms, the debounce of a release (30)
    PressMs,        \* press_ms of a short press (30)
    HoldMs,         \* press_ms of a long hold (5000)
    Timeout,        \* timeout_ms of the wait
    MaxClock        \* bound: the last instant of the model

ASSUME GateAssumption ==
    /\ ReleaseMs \in Nat /\ PressMs \in Nat /\ HoldMs \in Nat
    /\ Timeout \in Nat /\ MaxClock \in Nat /\ MaxClock >= Timeout

Level == {"Released", "Pressed", "Uncertain", "Fault"}
Phase == {"InitialRelease", "AwaitPress", "FinalRelease", "Finished"}

VARIABLES
    gate,       \* struct PresenceGate
    now,        \* the clock of the caller
    answer,     \* what the last poll returned: "None", "True" or "False"
    samples

gate_vars == <<gate, now, answer, samples>>

\* PresenceGate::new
NewGate(t, long_hold) ==
    [phase |-> "InitialRelease", deadline |-> t + Timeout, last_poll |-> t,
     last_level |-> "Uncertain", since |-> t,
     press_ms |-> IF long_hold THEN HoldMs ELSE PressMs, long_hold |-> long_hold]

\* Mutant of Advance: a press of any age counts.
AdvancePressed(g, level, t) ==
    LET stable == t - g.since
    IN  CASE g.phase = "InitialRelease" /\ level = "Pressed" /\ stable >= g.press_ms ->
                IF g.long_hold THEN "FinalRelease" ELSE "Finished"
          [] g.phase = "FinalRelease" /\ level = "Released" /\ stable >= ReleaseMs ->
                "Finished"
          [] OTHER -> g.phase

\* The match at the end of poll: where a stable level takes the gesture.
Advance(g, level, t) ==
    LET stable == t - g.since
    IN  CASE g.phase = "InitialRelease" /\ level = "Released" /\ stable >= ReleaseMs ->
                "AwaitPress"
          [] g.phase = "AwaitPress" /\ level = "Pressed" /\ stable >= g.press_ms ->
                IF g.long_hold THEN "FinalRelease" ELSE "Finished"
          [] g.phase = "FinalRelease" /\ level = "Released" /\ stable >= ReleaseMs ->
                "Finished"
          [] OTHER -> g.phase

\* Mutant of Ends: no look at the deadline.
EndsEver(g, t, cancelled) == cancelled \/ t < g.last_poll \/ g.phase = "Finished"

\* The early returns of poll that end the wait whatever the sample.
Ends(g, t, cancelled) ==
    cancelled \/ t < g.last_poll \/ t >= g.deadline \/ g.phase = "Finished"

\* poll up to the match: the level is recorded, with the instant it changed.
Observe(g, level, t) ==
    [g EXCEPT !.last_poll = t, !.last_level = level,
              !.since = IF level # g.last_level THEN t ELSE @]

GateInit ==
    /\ now = 0
    /\ \E long_hold \in BOOLEAN : gate = NewGate(0, long_hold)
    /\ answer = "None"
    /\ samples = <<>>

Finish == gate' = [gate EXCEPT !.phase = "Finished"] /\ answer' = "False"

\* poll without a sample.
PollNothing(cancelled) ==
    /\ \/ Ends(gate, now, cancelled) /\ Finish
       \/ /\ ~Ends(gate, now, cancelled)
          /\ gate' = [gate EXCEPT !.last_poll = now]
          /\ answer' = "None"
    /\ UNCHANGED <<now, samples>>

\* poll with a sample.  Bound: one sample per instant.
Poll(level, cancelled) ==
    /\ \A i \in DOMAIN samples : samples[i].at # now
    /\ samples' = Append(samples, [level |-> level, at |-> now])
    /\ LET seen == Observe(gate, level, now)
       IN  IF Ends(gate, now, cancelled) \/ level = "Fault"
           THEN Finish
           ELSE IF level = "Uncertain"
           THEN /\ gate' = [seen EXCEPT !.phase = IF @ = "FinalRelease"
                                                  THEN "InitialRelease" ELSE @]
                /\ answer' = "None"
           ELSE /\ gate' = [seen EXCEPT !.phase = Advance(seen, level, now)]
                /\ answer' = IF gate'.phase = "Finished" THEN "True" ELSE "None"
    /\ UNCHANGED now

TickForward ==
    /\ answer = "None"
    /\ now < MaxClock /\ now' = now + 1
    /\ UNCHANGED <<gate, answer, samples>>

\* The caller's clock goes back.
TickBack ==
    /\ answer = "None"
    /\ now > 0 /\ now' = now - 1
    /\ UNCHANGED <<gate, answer, samples>>

\* The caller polls until it gets an answer; a wait that ended stays ended.
GateNext ==
    \/ \E cancelled \in BOOLEAN : answer = "None" /\ PollNothing(cancelled)
    \/ \E cancelled \in BOOLEAN, level \in Level :
          answer = "None" /\ Poll(level, cancelled)
    \/ TickForward
    \/ TickBack

GateSpec == GateInit /\ [][GateNext]_gate_vars

\* confirm polls in a loop, and time passes.
GateFairSpec ==
    /\ GateSpec
    /\ WF_gate_vars(answer = "None" /\ PollNothing(FALSE))
    /\ WF_gate_vars(TickForward)

-----------------------------------------------------------------------------

\* Samples i to j all show the level, over at least ms.
Run(i, j, level, ms) ==
    /\ i \in DOMAIN samples /\ j \in DOMAIN samples /\ i <= j
    /\ \A k \in i..j : samples[k].level = level
    /\ samples[j].at >= samples[i].at + ms

NoUncertain(i) == \A k \in i..Len(samples) : samples[k].level # "Uncertain"

\* A fresh gesture ends with the last sample: a debounced release, later a
\* press of the required length, and for a long hold a release after it with
\* no noise since the hold.
FreshGesture ==
    LET n == Len(samples)
    IN  \E i, j, k \in 1..n :
          /\ j < k /\ Run(i, j, "Released", ReleaseMs)
          /\ \/ ~gate.long_hold /\ Run(k, n, "Pressed", PressMs)
             \/ /\ gate.long_hold
                /\ \E l, m \in 1..n :
                      /\ l < m
                      /\ Run(k, l, "Pressed", HoldMs)
                      /\ Run(m, n, "Released", ReleaseMs)
                      /\ NoUncertain(l)

\* An approval is a complete fresh gesture of this wait, before its deadline,
\* with no fault and no step back of the clock: a button held from before, a
\* bounce or noise never approves.  Until then the age of a level, an unsigned
\* difference, is never negative.  Conversely a user who makes the gesture is
\* not asked again: while the gate waits, the samples do not end in one (a
\* long hold, one without any noise) (PresenceGate::poll).
ApprovalIsFresh ==
    /\ answer = "True" =>
         /\ FreshGesture
         /\ now < gate.deadline
         /\ \A i, j \in DOMAIN samples : i < j => samples[i].at < samples[j].at
         /\ \A i \in DOMAIN samples : samples[i].level # "Fault"
    /\ gate.phase # "Finished" => gate.since <= gate.last_poll
    /\ answer = "None" => ~(FreshGesture /\ (gate.long_hold => NoUncertain(1)))

\* On a clock that does not go back for ever, the wait ends without a user.
WaitEnds == <>[][now' >= now]_gate_vars => <>(answer # "None")
=============================================================================
