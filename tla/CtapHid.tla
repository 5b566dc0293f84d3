------------------------------ MODULE CtapHid ------------------------------
(***************************************************************************)
(* The CTAPHID transport as a component: the engine's public methods are   *)
(* called in any order the firmware's loop and presence waits can call     *)
(* them, with any 64-byte report a host can send.  rx is not state of the  *)
(* device: it is what a host that follows the CTAPHID framing rules has    *)
(* reassembled of the response on the wire.                                *)
(***************************************************************************)
EXTENDS CtapHidEngine

VARIABLES
    now,    \* the millisecond clock
    rx      \* the host's partial reassembly of the current response

vars == <<hid, now, rx>>

\* Every report of the right size.  "Unknown" stands for the command bytes
\* that Command::from_number does not know.
Packets ==
    [kind : {"init"}, channel : HostChannels,
     command : HostCommands \cup {"Unknown"},
     length : 0 .. MaxMessage + 1, datum : Data]
    \cup
    [kind : {"cont"}, channel : HostChannels, sequence : 0 .. SeqSpace - 1,
     datum : Data]

\* What the application may answer, up to one unit more than fits.
Payloads == {Units(n, d) : n \in 0 .. MaxMessage + 1, d \in Data}

\* The host's framing rules: an initial packet starts a message, the expected
\* continuation extends it, anything else leaves it as it is.
Reassemble(r, packet) ==
    CASE packet.kind = "init" ->
            [channel |-> packet.channel, length |-> packet.length,
             data |-> packet.data, next_sequence |-> 0]
      [] /\ packet.kind = "cont"
         /\ r # None
         /\ packet.channel = r.channel
         /\ packet.sequence = r.next_sequence ->
            [r EXCEPT !.data = @ \o packet.data, !.next_sequence = @ + 1]
      [] OTHER -> r

Reassembly ==
    [channel : Channels, length : 0..MaxMessage, data : Seq(Data),
     next_sequence : 0..SeqSpace]

ASSUME ReassemblyAssumption == None \notin Reassembly

Complete(r) == r # None /\ Len(r.data) = r.length

-----------------------------------------------------------------------------

Init ==
    /\ hid = NewHid
    /\ now = 0
    /\ rx = None

\* ingest_report with a full-size report.
IngestReport(packet) ==
    /\ hid' = IngestWithInterruption(hid, packet, now).hid
    /\ UNCHANGED <<now, rx>>

\* ingest_report with a report of another size, or a failed transfer.
ResetTransport ==
    /\ hid' = TransportErrorReset(hid)
    /\ UNCHANGED <<now, rx>>

\* reply_cbor / reply_update
SendReply(payload) ==
    /\ hid.app_request # None
    /\ hid' = Reply(hid, payload)
    /\ UNCHANGED <<now, rx>>

QueueKeepalive ==
    /\ hid' = Keepalive(hid)
    /\ UNCHANGED <<now, rx>>

ExpireReceive ==
    /\ hid' = Expire(hid, now)
    /\ UNCHANGED <<now, rx>>

\* next_packet accepted by the endpoint, followed by packet_sent.
SendPacket ==
    /\ NextPacket(hid) # None
    /\ hid' = PacketSent(hid)
    /\ rx' = LET r == Reassemble(rx, NextPacket(hid))
             IN  IF Complete(r) THEN None ELSE r
    /\ UNCHANGED now

\* One millisecond passes.  While a request is being received the firmware is
\* in its poll loop, which expires the request before the clock wraps.
Tick ==
    /\ ~ReceiveExpired(hid, now)
    /\ now' = (now + 1) % ClockMod
    /\ UNCHANGED <<hid, rx>>

Next ==
    \/ \E packet \in Packets : IngestReport(packet)
    \/ ResetTransport
    \/ \E payload \in Payloads : SendReply(payload)
    \/ QueueKeepalive
    \/ ExpireReceive
    \/ SendPacket
    \/ Tick

Fairness ==
    /\ WF_vars(Tick)
    /\ WF_vars(ExpireReceive)

Spec == Init /\ [][Next]_vars

FairSpec == Spec /\ Fairness

-----------------------------------------------------------------------------

\* The fields of struct CtapHid keep their types; the error queue holds at most
\* one error per channel and never exceeds its array (queue_error).
TypeOK ==
    /\ hid.request \in Seq(Data) /\ hid.response \in Seq(Data)
    /\ hid.receive \in ReceiveState \cup {None}
    /\ hid.app_request \in AppRequest \cup {None}
    /\ hid.transmit \in TransmitState \cup {None}
    /\ hid.keepalive \in Channels \cup {None}
    /\ hid.errors \in Seq([channel : Channels, error : TransportError])
    /\ Len(hid.errors) <= ErrorCapacity
    /\ \A i, j \in DOMAIN hid.errors :
          hid.errors[i].channel = hid.errors[j].channel => i = j
    /\ hid.last_channel \in Channels
    /\ now \in 0..ClockMod - 1

\* At most one of the request being received, the request the application
\* works on and the response being sent exists, since the three stages share
\* one request and one response buffer; and it lives on a channel the device
\* has handed out, also after the channel counter wrapped: only INIT may use
\* the broadcast channel (receive, app_request, transmit, is_allocated).
OneTransaction ==
    /\ hid.receive # None => hid.app_request = None /\ hid.transmit = None
    /\ hid.app_request # None =>
         /\ hid.transmit = None
         /\ IsAllocated(hid, hid.app_request.channel)
    /\ hid.transmit # None =>
         \/ IsAllocated(hid, hid.transmit.channel)
         \/ hid.transmit.command = "Init"

\* A buffer holds exactly the bytes of the stage that uses it: nothing of a
\* finished, aborted, refused or timed-out message stays behind, the byte
\* counts agree with the packets seen, the sequence number never leaves the
\* space a packet can carry and the error queue its capacity, for the largest
\* message new() admits (every path out of ingest, reply, expire, packet_sent).
BuffersExact ==
    /\ TypeOK
    /\ hid.receive = None /\ hid.app_request = None => hid.request = <<>>
    /\ hid.receive # None =>
         /\ Len(hid.request) = hid.receive.received
         /\ hid.receive.received < hid.receive.length
         /\ hid.receive.received =
              InitPayload + hid.receive.next_sequence * ContPayload
         /\ hid.receive.next_sequence < SeqSpace
    /\ hid.app_request # None => Len(hid.request) = hid.app_request.length
    /\ hid.transmit = None => hid.response = <<>>
    /\ hid.transmit # None =>
         /\ Len(hid.response) = hid.transmit.length
         /\ hid.transmit.offset < hid.transmit.length \/ hid.transmit.length = 0
         /\ hid.transmit.next_sequence < SeqSpace

\* When packet_sent ends a response, a host that reassembles by sequence
\* number holds exactly the bytes the device meant to send, whatever errors
\* and keepalives were interleaved.
ResponseDelivered ==
    [][hid.transmit # None /\ hid'.transmit = None /\ SendPacket =>
         LET r == Reassemble(rx, NextPacket(hid))
         IN  r # None /\ Complete(r) /\ r.data = hid.response]_vars

Transaction(h) == <<h.request, h.response, h.receive, h.app_request, h.transmit>>

\* A transaction is only ever changed by a packet on its own channel, by its
\* application, by sending its packets, by its timeout or by a broken
\* transfer: a packet on another channel cannot disturb it (ingest).
OwnerOnly ==
    [][ActiveChannel(hid) # None /\ Transaction(hid') # Transaction(hid) =>
         \/ \E packet \in Packets :
               packet.channel = ActiveChannel(hid) /\ IngestReport(packet)
         \/ ResetTransport \/ SendPacket \/ ExpireReceive
         \/ \E payload \in Payloads : SendReply(payload)]_vars

\* A host that stops in the middle of a request does not hold the transport:
\* the partial request ends, by completion, abort or timeout (expire).
StalledReceiveEnds == hid.receive # None ~> hid.receive = None
=============================================================================
