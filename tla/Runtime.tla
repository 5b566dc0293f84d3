------------------------------ MODULE Runtime ------------------------------
(***************************************************************************)
(* The firmware's request loop (src/bin/startup/s2_fido.rs) around the     *)
(* CTAPHID engine.  A request is worked on to its end before the loop      *)
(* polls USB again, but a handler that waits for the button polls USB      *)
(* itself (src/platform/usb_runtime.rs), so that packets, cancellations    *)
(* and failed transfers reach the engine while the request they concern is *)
(* being worked on.                                                        *)
(*                                                                         *)
(* The button is abstracted to what its gate may answer (PresenceGate):    *)
(* never an approval once the wait is cancelled.  What an approved request *)
(* does is modelled in UsbUpdate and SignedUpdate.  withdrawn is a history *)
(* variable: the host has taken back the request that is worked on.        *)
(***************************************************************************)
EXTENDS CtapHidEngine

VARIABLES
    presence_cancelled, \* UsbRuntime.presence_cancelled
    interrupt,          \* FIDO_INTERRUPT: "Idle", "Working" or "Interrupted"
    pc,                 \* where the loop is
    work,               \* the request copied out of the engine
    consent,            \* the wait of this request was approved
    withdrawn

runtime_vars == <<hid, presence_cancelled, interrupt, pc, work, consent, withdrawn>>

Waiting == {"consent", "updateWait", "maintenanceWait"}

\* What one poll of the endpoint may bring: a report, nothing, or an error.
Reports ==
    [kind : {"init"}, channel : HostChannels, command : HostCommands,
     length : 0..MaxMessage, datum : Data]
    \cup
    [kind : {"cont"}, channel : HostChannels, sequence : 0..SeqSpace - 1,
     datum : Data]

Quiet  == [kind |-> "quiet"]
Broken == [kind |-> "broken"]

Polls ==
    [report : Reports \cup {Quiet, Broken}, now : 0..ClockMod - 1,
     send : {"Ok", "WouldBlock", "Err"}]

Replies == {Units(n, d) : n \in 1..MaxMessage, d \in Data}

-----------------------------------------------------------------------------

\* poll_at: one report in, expiry, one packet out.  A failed transfer resets
\* the engine and counts as an interruption.
PollAt(h, p) ==
    LET reset == [hid |-> TransportErrorReset(h), event |-> NoEvent,
                  interrupted |-> TRUE]
        got   == CASE p.report = Quiet  -> [hid |-> h, event |-> NoEvent,
                                            interrupted |-> FALSE]
                   [] p.report = Broken -> reset
                   [] OTHER -> IngestWithInterruption(h, p.report, p.now)
        out   == Expire(got.hid, p.now)
    IN  IF NextPacket(out) = None \/ p.send = "WouldBlock"
        THEN [got EXCEPT !.hid = out]
        ELSE IF p.send = "Ok"
        THEN [got EXCEPT !.hid = PacketSent(out)]
        ELSE [reset EXCEPT !.hid = TransportErrorReset(out)]

\* InterruptFlag::interrupt: only a working application is interrupted.
Interrupt(flag) == IF flag = "Working" THEN "Interrupted" ELSE flag

\* The host takes its request back with CANCEL, or the engine has dropped it.
Withdraws(report, h) ==
    \/ h.app_request = None
    \/ /\ report.kind = "init" /\ report.command = "Cancel"
       /\ report.length = 0 /\ report.channel = work.channel

\* The assignments of one poll inside a wait.
PollWaiting(p, due) ==
    LET r == PollAt(IF due THEN Keepalive(hid) ELSE hid, p)
    IN  /\ hid' = r.hid
        /\ presence_cancelled' = (presence_cancelled \/ r.interrupted)
        /\ interrupt' = IF r.interrupted THEN Interrupt(interrupt) ELSE interrupt
        /\ withdrawn' = (withdrawn \/ Withdraws(p.report, r.hid))

RuntimeInit ==
    /\ hid = NewHid
    /\ presence_cancelled = FALSE
    /\ interrupt = "Idle"
    /\ pc = "poll"
    /\ work = None
    /\ consent = FALSE
    /\ withdrawn = FALSE

\* Mutant of MainLoop: the application is called without set_working.
MainLoopIdle(p) ==
    LET r == PollAt(hid, p)
        e == r.event.kind
    IN  /\ pc = "poll"
        /\ hid' = r.hid
        /\ presence_cancelled' = (presence_cancelled \/ r.interrupted)
        /\ pc' = CASE e = "Cbor" -> "cbor" [] e = "Update" -> "vendor"
                   [] OTHER -> "poll"
        /\ work' = IF e \in {"Cbor", "Update"}
                   THEN [request |-> r.hid.request, command |-> e,
                         channel |-> r.event.channel]
                   ELSE None
        /\ UNCHANGED <<consent, withdrawn, interrupt>>

\* One turn of the loop: poll, and copy the request an event announces.
MainLoop(p) ==
    LET r == PollAt(hid, p)
        e == r.event.kind
    IN  /\ pc = "poll"
        /\ hid' = r.hid
        /\ presence_cancelled' = (presence_cancelled \/ r.interrupted)
        /\ interrupt' = IF e = "Cbor" THEN "Working"
                        ELSE IF r.interrupted THEN Interrupt(interrupt) ELSE interrupt
        /\ pc' = CASE e = "Cbor" -> "cbor" [] e = "Update" -> "vendor"
                   [] OTHER -> "poll"
        /\ work' = IF e \in {"Cbor", "Update"}
                   THEN [request |-> r.hid.request, command |-> e,
                         channel |-> r.event.channel]
                   ELSE None
        /\ UNCHANGED <<consent, withdrawn>>

\* Mutant of BeginWait: a cancellation from before is kept.
BeginWaitCancelled(from, to) ==
    /\ pc = from /\ pc' = to
    /\ UNCHANGED <<hid, interrupt, work, consent, withdrawn, presence_cancelled>>

\* begin_wait, for a CBOR request that needs consent (set_status), for an
\* update BEGIN and for a maintenance request (confirm).
BeginWait(from, to) ==
    /\ pc = from /\ pc' = to
    /\ presence_cancelled' = FALSE
    /\ UNCHANGED <<hid, interrupt, work, consent, withdrawn>>

\* One turn of Trussed's wait: refresh polls USB, check_user_presence the
\* button; its own deadline may end the wait.
ConsentWait(p, due) ==
    /\ pc = "consent" /\ interrupt # "Interrupted"
    /\ PollWaiting(p, due)
    /\ \/ UNCHANGED <<pc, consent>>
       \/ ~presence_cancelled' /\ consent' = TRUE /\ pc' = "reply"
       \/ UNCHANGED consent /\ pc' = "reply"
    /\ UNCHANGED work

\* Trussed gives up a wait whose interrupt flag is set.
ConsentInterrupted ==
    /\ pc = "consent" /\ interrupt = "Interrupted"
    /\ pc' = "reply"
    /\ UNCHANGED <<hid, presence_cancelled, interrupt, work, consent, withdrawn>>

\* One turn of confirm: poll_wait, then the gate, which ends a cancelled wait.
Confirm(p, due) ==
    /\ pc \in {"updateWait", "maintenanceWait"}
    /\ PollWaiting(p, due)
    /\ \/ ~presence_cancelled' /\ UNCHANGED <<pc, consent>>
       \/ /\ ~presence_cancelled' /\ consent' = TRUE
          /\ pc' = IF pc = "updateWait" THEN "act" ELSE "qualify"
       \/ UNCHANGED consent /\ pc' = "reply"
    /\ UNCHANGED work

\* Mutant of Requalify: the approval is used without another look at USB.
RequalifyUnasked(p, due) ==
    /\ pc = "qualify"
    /\ PollWaiting(p, due)
    /\ pc' = "act"
    /\ UNCHANGED <<work, consent>>

\* After the approval of a maintenance request: the second qualification may
\* fail, else USB is polled once more for a cancellation.
Requalify(p, due) ==
    /\ pc = "qualify"
    /\ \/ /\ pc' = "reply" /\ consent' = FALSE
          /\ UNCHANGED <<hid, presence_cancelled, interrupt, withdrawn>>
       \/ /\ PollWaiting(p, due)
          /\ consent' = ~presence_cancelled'
          /\ pc' = IF consent' THEN "act" ELSE "reply"
    /\ UNCHANGED work

\* The approved BEGIN, or the approved burn.
Act ==
    /\ pc = "act" /\ pc' = "reply"
    /\ UNCHANGED <<hid, presence_cancelled, interrupt, work, consent, withdrawn>>

\* complete_cbor and complete_update: the reply is queued if the engine still
\* has a request, and discarded otherwise.  A queued CTAP success also lets
\* the running image confirm itself (SignedUpdate).
CompleteRequest(payload) ==
    /\ pc \in {"cbor", "vendor", "reply"}
    /\ hid' = IF hid.app_request = None THEN hid ELSE Reply(hid, payload)
    /\ interrupt' = IF work.command = "Cbor" THEN "Idle" ELSE interrupt
    /\ pc' = "poll" /\ work' = None
    /\ consent' = FALSE /\ withdrawn' = FALSE
    /\ UNCHANGED presence_cancelled

Handler ==
    \/ BeginWait("cbor", "consent")
    \/ BeginWait("vendor", "updateWait")
    \/ BeginWait("vendor", "maintenanceWait")
    \/ \E p \in Polls, due \in BOOLEAN :
          ConsentWait(p, due) \/ Confirm(p, due) \/ Requalify(p, due)
    \/ ConsentInterrupted
    \/ Act
    \/ \E payload \in Replies : CompleteRequest(payload)

RuntimeNext == (\E p \in Polls : MainLoop(p)) \/ Handler

RuntimeSpec == RuntimeInit /\ [][RuntimeNext]_runtime_vars

\* The firmware has one thread and never sleeps: a handler goes on.
RuntimeFairSpec == RuntimeSpec /\ WF_runtime_vars(Handler)

-----------------------------------------------------------------------------

\* As long as the engine has a pending request, it is the very request that
\* is worked on: no event of a request is lost in a wait, and no reply goes to
\* another request (the events poll_wait drops, copy_request, reply).  And a
\* keepalive is only ever sent for the request in work, or just before the
\* first packet of its response: never within a response and never to another
\* channel, although reply leaves a queued keepalive in place.
ReplyToItsRequest ==
    /\ hid.app_request # None =>
         /\ pc # "poll"
         /\ hid.app_request.channel = work.channel
         /\ hid.app_request.command = work.command
         /\ hid.request = work.request
    /\ hid.keepalive # None =>
         \/ hid.app_request # None /\ hid.app_request.channel = hid.keepalive
         \/ /\ hid.transmit # None /\ hid.transmit.channel = hid.keepalive
            /\ hid.transmit.offset = 0

\* What was approved is still wanted when it is carried out: neither a CANCEL
\* nor an abort came between (confirm, check_user_presence, and the last
\* poll_wait of maintenance).
ConsentStands == consent => ~withdrawn /\ hid.app_request # None

\* A wait is cancelled only by what happened to its own request, not by a
\* flag an earlier request left behind (begin_wait, set_working).
NoStaleCancellation ==
    /\ pc \in Waiting /\ presence_cancelled => withdrawn
    /\ interrupt = "Interrupted" => withdrawn

\* A request the host has taken back does not keep the button waiting: the
\* loop comes back without a timeout (InterruptFlag, presence_cancelled).
WithdrawnEnds == withdrawn ~> pc = "poll"
=============================================================================
