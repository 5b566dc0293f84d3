--------------------------- MODULE CtapHidEngine ---------------------------
(***************************************************************************)
(* The CTAPHID transport engine of src/ctaphid.rs as a library of          *)
(* operators on its state record: one operator per method of CtapHid<N>.   *)
(* A method that returns an Event yields [hid, event]; the others yield    *)
(* the new record.                                                         *)
(*                                                                         *)
(* Bytes are abstracted to data units.  A report carries one datum, and    *)
(* the bytes copied out of it are that many copies of the datum; a buffer  *)
(* is the sequence of units written since it was last zeroized, so the     *)
(* empty sequence is a zeroized (or zero-length) buffer.                   *)
(***************************************************************************)
EXTENDS Naturals, Sequences

CONSTANTS
    ChannelMod,     \* number of channel identifiers (2^32 in the code)
    InitPayload,    \* INIT_PAYLOAD_SIZE: data units of an initial packet
    ContPayload,    \* CONT_PAYLOAD_SIZE: data units of a continuation packet
    SeqSpace,       \* continuation sequence numbers (128 in the code)
    MaxMessage,     \* N: the size of the request and response buffers
    InitLength,     \* the only legal length of an INIT request (8)
    InitReplyLength,\* the length of an INIT response (17)
    ErrorCapacity,  \* ERROR_CAPACITY: queued error packets
    ReceiveTimeout, \* RECEIVE_TIMEOUT_MS
    ClockMod,       \* the u32 millisecond clock wraps at this value
    UpdateEnabled,  \* the usb-signed-update feature
    Data,           \* data units a packet may carry
    None,           \* Option::None
    HostCommands,   \* commands a host sends (all of Command, or fewer)
    HostChannels    \* channel identifiers a host uses

VARIABLE
    hid             \* the device's struct CtapHid

ASSUME EngineAssumption ==
    /\ ChannelMod \in Nat /\ ChannelMod >= 3
    /\ InitPayload \in Nat \ {0}
    /\ ContPayload \in Nat \ {0}
    /\ SeqSpace \in Nat \ {0}
    /\ InitLength \in 1..InitPayload
    /\ InitReplyLength \in Nat \ {0}
    /\ ErrorCapacity \in Nat \ {0}
    /\ ReceiveTimeout \in Nat
    /\ ClockMod \in Nat /\ ClockMod > ReceiveTimeout + 1
    /\ UpdateEnabled \in BOOLEAN
    /\ Data # {}

\* The two assertions of CtapHid::new.
ASSUME BufferAssumption ==
    /\ MaxMessage \in Nat
    /\ MaxMessage >= InitReplyLength
    /\ MaxMessage <= InitPayload + SeqSpace * ContPayload

Channels  == 0 .. ChannelMod - 1
RESERVED_CHANNEL  == 0
BROADCAST_CHANNEL == ChannelMod - 1

ASSUME HostAssumption == HostChannels \subseteq Channels

\* Commands dispatch() answers with InvalidCommand although they parse.
Unsupported == {"Msg", "Lock", "Wink", "Keepalive", "Error"}
Command     == {"Ping", "Init", "Cbor", "Cancel", "Update"} \cup Unsupported

TransportError == {"InvalidCommand", "InvalidLength", "InvalidSequence",
                   "Timeout", "ChannelBusy", "InvalidChannel"}

\* The structs of the three stages that share the buffers.
ReceiveState ==
    [channel : Channels, command : Command, length : 0..MaxMessage,
     received : 0..MaxMessage, next_sequence : 0..SeqSpace,
     last_activity_ms : 0..ClockMod - 1]

AppRequest == [channel : Channels, command : Command, length : 0..MaxMessage]

TransmitState ==
    [channel : Channels, command : Command, length : 0..MaxMessage,
     offset : 0..MaxMessage, next_sequence : 0..SeqSpace]

ASSUME NoneAssumption ==
    None \notin Channels \cup ReceiveState \cup AppRequest \cup TransmitState

NoEvent == [kind |-> "None", channel |-> RESERVED_CHANNEL]

Lesser(a, b) == IF a <= b THEN a ELSE b

\* count units of the datum d, the part of a packet that is copied.
Units(count, d) == [i \in 1..count |-> d]

-----------------------------------------------------------------------------

\* CtapHid::new
NewHid ==
    [request |-> <<>>, response |-> <<>>,
     receive |-> None, app_request |-> None, transmit |-> None,
     keepalive |-> None, errors |-> <<>>, last_channel |-> RESERVED_CHANNEL]

\* queue_error: one pending error per channel, dropped when the queue is full.
QueueError(h, channel, error) ==
    IF \/ \E i \in DOMAIN h.errors : h.errors[i].channel = channel
       \/ Len(h.errors) = ErrorCapacity
    THEN h
    ELSE [h EXCEPT !.errors = Append(@, [channel |-> channel, error |-> error])]

\* abort_transaction: everything but the queued errors is dropped.
AbortTransaction(h) ==
    [h EXCEPT !.request = <<>>, !.response = <<>>, !.receive = None,
              !.app_request = None, !.transmit = None, !.keepalive = None]

\* transport_error
TransportErrorReset(h) == [AbortTransaction(h) EXCEPT !.errors = <<>>]

\* active_channel
ActiveChannel(h) ==
    CASE h.receive # None     -> h.receive.channel
      [] h.receive = None /\ h.app_request # None -> h.app_request.channel
      [] h.receive = None /\ h.app_request = None /\ h.transmit # None
                              -> h.transmit.channel
      [] OTHER                -> None

\* is_allocated
IsAllocated(h, channel) ==
    /\ channel \notin {RESERVED_CHANNEL, BROADCAST_CHANNEL}
    /\ channel <= h.last_channel

\* allocate_channel: wrapping increment that skips the two special values,
\* which are adjacent in the wrapped order.
AllocateChannel(h) ==
    LET next == (h.last_channel + 1) % ChannelMod
    IN  IF next \in {RESERVED_CHANNEL, BROADCAST_CHANNEL}
        THEN RESERVED_CHANNEL + 1
        ELSE next

\* start_transmit
StartTransmit(h, channel, command, length) ==
    [h EXCEPT !.transmit = [channel |-> channel, command |-> command,
                            length |-> length, offset |-> 0,
                            next_sequence |-> 0]]

Zeroize(h) == [h EXCEPT !.request = <<>>]

\* Zeroize the request and answer with an error packet.
Refuse(h, channel, error) ==
    [hid |-> QueueError(Zeroize(h), channel, error), event |-> NoEvent]

-----------------------------------------------------------------------------

\* dispatch_init.  The INIT response echoes the nonce and carries the assigned
\* channel; its 17 units are represented by copies of the nonce's datum.
DispatchInit(h, channel, length) ==
    LET assigned == IF channel = BROADCAST_CHANNEL THEN AllocateChannel(h)
                                                   ELSE channel
        answered == [Zeroize(h) EXCEPT
                        !.response = Units(InitReplyLength, h.request[1]),
                        !.last_channel = IF channel = BROADCAST_CHANNEL
                                         THEN assigned ELSE @]
    IN  IF channel = RESERVED_CHANNEL
        THEN Refuse(h, channel, "InvalidChannel")
        ELSE IF length # InitLength
        THEN Refuse(h, channel, "InvalidLength")
        ELSE IF channel # BROADCAST_CHANNEL /\ ~IsAllocated(h, channel)
        THEN Refuse(h, channel, "InvalidChannel")
        ELSE [hid |-> StartTransmit(answered, channel, "Init", InitReplyLength),
              event |-> NoEvent]

\* A CBOR or UPDATE request is handed to the application.
StartApplication(h, channel, command, length) ==
    [hid |-> [h EXCEPT !.app_request = [channel |-> channel,
                                        command |-> command,
                                        length |-> length]],
     event |-> [kind |-> command, channel |-> channel]]

\* dispatch: a complete request message.
Dispatch(h, channel, command, length) ==
    IF command = "Init"
    THEN DispatchInit(h, channel, length)
    ELSE IF ~IsAllocated(h, channel)
    THEN Refuse(h, channel, "InvalidChannel")
    ELSE CASE command = "Ping" ->
                [hid |-> StartTransmit([Zeroize(h) EXCEPT !.response = h.request],
                                       channel, "Ping", length),
                 event |-> NoEvent]
           [] command = "Cbor" \/ (command = "Update" /\ UpdateEnabled) ->
                StartApplication(h, channel, command, length)
           [] command = "Cancel" -> [hid |-> Zeroize(h), event |-> NoEvent]
           [] OTHER -> Refuse(h, channel, "InvalidCommand")

\* ingest_continuation
IngestContinuation(h, packet, now) ==
    LET r     == h.receive
        count == Lesser(r.length - r.received, ContPayload)
        next  == [h EXCEPT
                    !.request = @ \o Units(count, packet.datum),
                    !.receive = [r EXCEPT !.received = @ + count,
                                          !.next_sequence = @ + 1,
                                          !.last_activity_ms = now]]
    IN  IF r = None \/ (r # None /\ r.channel # packet.channel)
        THEN [hid |-> h, event |-> NoEvent]
        ELSE IF packet.sequence # r.next_sequence
        THEN Refuse([h EXCEPT !.receive = None], packet.channel, "InvalidSequence")
        ELSE IF next.receive.received = r.length
        THEN Dispatch([next EXCEPT !.receive = None], r.channel, r.command, r.length)
        ELSE [hid |-> next, event |-> NoEvent]

\* The part of ingest that starts a request once no transaction is active.
IngestInitial(h, packet, now) ==
    LET copied == Lesser(packet.length, InitPayload)
        filled == [h EXCEPT !.request = Units(copied, packet.datum)]
    IN  IF packet.command \notin Command
        THEN Refuse(h, packet.channel, "InvalidCommand")
        ELSE IF \/ packet.length > MaxMessage
                \/ packet.command = "Init" /\ packet.length # InitLength
                \/ packet.command = "Cancel" /\ packet.length # 0
        THEN Refuse(h, packet.channel, "InvalidLength")
        ELSE IF packet.length > InitPayload
        THEN [hid |-> [filled EXCEPT !.receive =
                        [channel |-> packet.channel, command |-> packet.command,
                         length |-> packet.length, received |-> InitPayload,
                         next_sequence |-> 0, last_activity_ms |-> now]],
              event |-> NoEvent]
        ELSE Dispatch(filled, packet.channel, packet.command, packet.length)

\* cancel_application_request: the request stays until the application replies.
CancelApplicationRequest(h, channel) ==
    IF h.app_request = None
    THEN [hid |-> h, event |-> NoEvent]
    ELSE [hid |-> [h EXCEPT !.keepalive = None],
          event |-> [kind |-> "Cancelled", channel |-> channel]]

\* Mutants of Ingest: no busy check, and no look at whose transaction it is.
IngestNotBusy(h, packet, now) ==
    IF packet.kind = "cont" THEN IngestContinuation(h, packet, now)
                            ELSE IngestInitial(h, packet, now)

IngestAnyOwner(h, packet, now) ==
    IF packet.kind = "cont"
    THEN IngestContinuation(h, packet, now)
    ELSE IngestInitial(AbortTransaction(h), packet, now)

\* ingest
Ingest(h, packet, now) ==
    LET active == ActiveChannel(h)
    IN  IF packet.kind = "cont"
        THEN IngestContinuation(h, packet, now)
        ELSE IF active = None
        THEN IngestInitial(h, packet, now)
        ELSE IF packet.channel # active
        THEN [hid |-> IF packet.command = "Cancel" THEN h
                      ELSE QueueError(h, packet.channel, "ChannelBusy"),
              event |-> NoEvent]
        ELSE CASE packet.command = "Init" ->
                    IngestInitial(AbortTransaction(h), packet, now)
               [] packet.command = "Cancel" /\ packet.length # 0 ->
                    [hid |-> QueueError(h, packet.channel, "InvalidLength"),
                     event |-> NoEvent]
               [] packet.command = "Cancel" /\ packet.length = 0 ->
                    CancelApplicationRequest(h, packet.channel)
               [] OTHER ->
                    [hid |-> QueueError(AbortTransaction(h), packet.channel,
                                        "InvalidSequence"),
                     event |-> NoEvent]

\* Mutant of IngestWithInterruption: only CANCEL interrupts, not an abort.
IngestOnlyCancelInterrupts(h, packet, now) ==
    LET r == Ingest(h, packet, now)
    IN  [hid |-> r.hid, event |-> r.event,
         interrupted |-> r.event.kind = "Cancelled"]

\* ingest_with_interruption: the result and whether a running application
\* must stop waiting.
IngestWithInterruption(h, packet, now) ==
    LET r == Ingest(h, packet, now)
    IN  [hid |-> r.hid, event |-> r.event,
         interrupted |-> \/ h.app_request # None /\ r.hid.app_request = None
                         \/ r.event.kind = "Cancelled"]

-----------------------------------------------------------------------------

\* reply.  The caller has checked that a request is pending.
Reply(h, payload) ==
    LET app == h.app_request
        idle == [Zeroize(h) EXCEPT !.app_request = None]
    IN  IF Len(payload) > MaxMessage
        THEN QueueError(idle, app.channel, "InvalidLength")
        ELSE StartTransmit([idle EXCEPT !.response = payload],
                           app.channel, app.command, Len(payload))

\* keepalive
Keepalive(h) ==
    IF h.app_request = None THEN h
    ELSE [h EXCEPT !.keepalive = h.app_request.channel]

\* Mutant of ReceiveExpired: the clock does not wrap.
ReceiveExpiredNoWrap(h, now) ==
    /\ h.receive # None
    /\ now > h.receive.last_activity_ms + ReceiveTimeout

\* expire: the age of the last activity on the wrapping clock.
ReceiveExpired(h, now) ==
    /\ h.receive # None
    /\ (now + ClockMod - h.receive.last_activity_ms) % ClockMod > ReceiveTimeout

\* Mutant of Expire: the partial request stays in the buffer.
ExpireKeepsRequest(h, now) ==
    IF ReceiveExpired(h, now)
    THEN QueueError([h EXCEPT !.receive = None], h.receive.channel, "Timeout")
    ELSE h

Expire(h, now) ==
    IF ReceiveExpired(h, now)
    THEN QueueError([Zeroize(h) EXCEPT !.receive = None],
                    h.receive.channel, "Timeout")
    ELSE h

\* The data units of the packet that transmit is about to send.
TransmitCount(t) ==
    IF t.offset = 0 THEN Lesser(t.length, InitPayload)
                    ELSE Lesser(t.length - t.offset, ContPayload)

\* next_packet: errors first, then a keepalive, then the response.
NextPacket(h) ==
    LET t == h.transmit
    IN  IF h.errors # <<>>
        THEN [kind |-> "error", channel |-> h.errors[1].channel]
        ELSE IF h.keepalive # None
        THEN [kind |-> "keepalive", channel |-> h.keepalive]
        ELSE IF t = None
        THEN None
        ELSE IF t.offset = 0
        THEN [kind |-> "init", channel |-> t.channel, command |-> t.command,
              length |-> t.length,
              data |-> SubSeq(h.response, 1, TransmitCount(t))]
        ELSE [kind |-> "cont", channel |-> t.channel,
              sequence |-> t.next_sequence,
              data |-> SubSeq(h.response, t.offset + 1,
                              t.offset + TransmitCount(t))]

\* Mutant of PacketSent: the first packet advances the sequence number too.
PacketSentEarly(h) ==
    LET t == h.transmit
        offset == t.offset + TransmitCount(t)
    IN  IF h.errors # <<>>
        THEN [h EXCEPT !.errors = Tail(@)]
        ELSE IF h.keepalive # None
        THEN [h EXCEPT !.keepalive = None]
        ELSE IF t = None
        THEN h
        ELSE IF offset >= t.length
        THEN [h EXCEPT !.transmit = None, !.response = <<>>]
        ELSE [h EXCEPT !.transmit = [t EXCEPT !.offset = offset,
                                              !.next_sequence = @ + 1]]

\* packet_sent
PacketSent(h) ==
    LET t == h.transmit
        offset == t.offset + TransmitCount(t)
    IN  IF h.errors # <<>>
        THEN [h EXCEPT !.errors = Tail(@)]
        ELSE IF h.keepalive # None
        THEN [h EXCEPT !.keepalive = None]
        ELSE IF t = None
        THEN h
        ELSE IF offset >= t.length
        THEN [h EXCEPT !.transmit = None, !.response = <<>>]
        ELSE [h EXCEPT !.transmit =
                [t EXCEPT !.offset = offset,
                          !.next_sequence = IF offset > InitPayload
                                            THEN @ + 1 ELSE @]]
=============================================================================
