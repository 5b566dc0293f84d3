-------------------------- MODULE Transport_proofs --------------------------
(***************************************************************************)
(* Proofs about the CTAPHID transport and the request loop around it, for  *)
(* every number of channels, packet size, message size, queue capacity and *)
(* set of host commands: the methods of the engine one by one, then        *)
(* CtapHid, then Runtime, which rests on the same lemmas.                  *)
(***************************************************************************)
EXTENDS CtapHid, Runtime, SequenceTheorems, TLAPS

\* struct CtapHid
HidRec ==
    [request : Seq(Data), response : Seq(Data),
     receive : ReceiveState \cup {None}, app_request : AppRequest \cup {None},
     transmit : TransmitState \cup {None}, keepalive : Channels \cup {None},
     errors : Seq([channel : Channels, error : TransportError]),
     last_channel : Channels]

\* The error queue: within its array, one error per channel.
ErrorsFit(h) ==
    /\ Len(h.errors) <= ErrorCapacity
    /\ \A i, j \in DOMAIN h.errors : h.errors[i].channel = h.errors[j].channel => i = j

\* A request that is being received: the packets seen account for its bytes.
ReceiveFits(h) ==
    h.receive # None =>
      /\ h.app_request = None /\ h.transmit = None
      /\ Len(h.request) = h.receive.received
      /\ h.receive.received < h.receive.length
      /\ h.receive.received = InitPayload + h.receive.next_sequence * ContPayload

\* A request the application works on.
AppFits(h) ==
    h.app_request # None =>
      /\ h.transmit = None
      /\ IsAllocated(h, h.app_request.channel)
      /\ Len(h.request) = h.app_request.length

\* A response that is being sent: the packets sent account for its offset.
TransmitFits(h) ==
    h.transmit # None =>
      /\ IsAllocated(h, h.transmit.channel) \/ h.transmit.command = "Init"
      /\ Len(h.response) = h.transmit.length
      /\ \/ h.transmit.offset = 0 /\ h.transmit.next_sequence = 0
         \/ /\ h.transmit.offset = InitPayload + h.transmit.next_sequence * ContPayload
            /\ h.transmit.offset < h.transmit.length

\* A buffer no stage uses is empty.
UnusedEmpty(h) ==
    /\ h.receive = None /\ h.app_request = None => h.request = <<>>
    /\ h.transmit = None => h.response = <<>>

HidSound(h) ==
    /\ h \in HidRec
    /\ ErrorsFit(h)
    /\ ReceiveFits(h)
    /\ AppFits(h)
    /\ TransmitFits(h)
    /\ UnusedEmpty(h)

\* Within a response the host holds exactly what was sent of it.
HostFollows ==
    hid.transmit # None /\ hid.transmit.offset > 0 =>
      rx = [channel |-> hid.transmit.channel, length |-> hid.transmit.length,
            data |-> SubSeq(hid.response, 1, hid.transmit.offset),
            next_sequence |-> hid.transmit.next_sequence]

\* The inductive invariant.
TransportInv == HidSound(hid) /\ now \in 0..ClockMod - 1 /\ HostFollows

-----------------------------------------------------------------------------
(* Arithmetic and sequences. *)

\* A message new() admits needs no more sequence numbers than there are.
LEMMA SequenceFits ==
    ASSUME NEW n \in Nat, NEW length \in 0..MaxMessage,
           InitPayload + n * ContPayload < length
    PROVE  n < SeqSpace
<1>1. InitPayload + n * ContPayload < InitPayload + SeqSpace * ContPayload
  <2>1. n * ContPayload \in Nat /\ SeqSpace * ContPayload \in Nat
    BY EngineAssumption
  <2> QED
    BY <2>1, EngineAssumption, BufferAssumption
<1>2. SUFFICES ASSUME n >= SeqSpace PROVE FALSE
  BY EngineAssumption
<1>3. PICK k \in Nat : n = SeqSpace + k
  <2>1. n - SeqSpace \in Nat /\ n = SeqSpace + (n - SeqSpace)
    BY <1>2, EngineAssumption
  <2> QED
    BY <2>1
<1>4. n * ContPayload = SeqSpace * ContPayload + k * ContPayload
  BY <1>3, EngineAssumption
<1>5. k * ContPayload \in Nat
  BY EngineAssumption
<1> QED
  BY <1>1, <1>4, <1>5, EngineAssumption

\* One continuation packet more.
LEMMA OneMore ==
    ASSUME NEW n \in Nat
    PROVE  InitPayload + (n + 1) * ContPayload = InitPayload + n * ContPayload + ContPayload
BY EngineAssumption

\* The part of a packet that is copied has as many units as were copied.
LEMMA UnitsSeq ==
    ASSUME NEW n \in Nat, NEW d \in Data
    PROVE  Units(n, d) \in Seq(Data) /\ Len(Units(n, d)) = n
BY DEF Units

\* usize::min
LEMMA LesserBound ==
    ASSUME NEW a \in Nat, NEW b \in Nat
    PROVE  /\ Lesser(a, b) \in Nat /\ Lesser(a, b) <= a /\ Lesser(a, b) <= b
           /\ a <= b => Lesser(a, b) = a
           /\ a >= b => Lesser(a, b) = b
BY DEF Lesser

\* What was sent and what follows it.
LEMMA Glue ==
    ASSUME NEW s \in Seq(Data), NEW k \in Nat, NEW n \in Nat, k <= n, n <= Len(s)
    PROVE  SubSeq(s, 1, k) \o SubSeq(s, k + 1, n) = SubSeq(s, 1, n)
<1>1. 1 \in 1..Len(s) + 1 /\ k \in 1 - 1..Len(s) /\ n \in k..Len(s)
  OBVIOUS
<1> QED
  BY <1>1, ConcatAdjacentSubSeq

\* None is none of the things an Option may hold.
LEMMA NoneDistinct ==
    /\ \A c \in Channels : c # None
    /\ \A r \in ReceiveState : r # None
    /\ \A a \in AppRequest : a # None
    /\ \A t \in TransmitState : t # None
BY NoneAssumption

-----------------------------------------------------------------------------
(* The helpers of the engine. *)

\* No stage is active.
Idle(h) == h.receive = None /\ h.app_request = None /\ h.transmit = None

\* An error changes the queue only.
LEMMA QueueErrorSound ==
    ASSUME NEW h \in HidRec, ErrorsFit(h), NEW c \in Channels, NEW e \in TransportError
    PROVE  /\ QueueError(h, c, e) \in HidRec
           /\ ErrorsFit(QueueError(h, c, e))
           /\ Transaction(QueueError(h, c, e)) = Transaction(h)
           /\ QueueError(h, c, e).last_channel = h.last_channel
           /\ QueueError(h, c, e).keepalive = h.keepalive
<1>1. CASE \/ \E i \in DOMAIN h.errors : h.errors[i].channel = c
           \/ Len(h.errors) = ErrorCapacity
  BY <1>1 DEF QueueError
<1>2. CASE /\ \A i \in DOMAIN h.errors : h.errors[i].channel # c
           /\ Len(h.errors) # ErrorCapacity
  <2> DEFINE E == [channel : Channels, error : TransportError]
             x == [channel |-> c, error |-> e]
             q == Append(h.errors, x)
             g == [h EXCEPT !.errors = q]
  <2>1. QueueError(h, c, e) = g
    BY <1>2 DEF QueueError
  <2>2. h.errors \in Seq(E) /\ x \in E
    BY DEF HidRec
  <2>3. /\ q \in Seq(E) /\ Len(q) = Len(h.errors) + 1
        /\ \A i \in 1..Len(h.errors) : q[i] = h.errors[i]
        /\ q[Len(h.errors) + 1] = x
    BY <2>2, AppendProperties
  <2>4. /\ g.errors = q /\ g \in HidRec
        /\ Transaction(g) = Transaction(h)
        /\ g.last_channel = h.last_channel /\ g.keepalive = h.keepalive
    BY <2>3 DEF HidRec, Transaction
  <2>5. ErrorsFit(g)
    <3>1. Len(h.errors) \in Nat /\ DOMAIN h.errors = 1..Len(h.errors) /\ DOMAIN q = 1..Len(h.errors) + 1
      BY <2>2, <2>3
    <3>2. Len(q) <= ErrorCapacity
      BY <1>2, <2>3, <3>1, EngineAssumption DEF ErrorsFit
    <3>3. ASSUME NEW i \in DOMAIN q, NEW j \in DOMAIN q, q[i].channel = q[j].channel
          PROVE  i = j
      <4>1. x.channel = c
        OBVIOUS
      <4>2. i \in 1..Len(h.errors) \/ i = Len(h.errors) + 1
        BY <3>1
      <4>3. j \in 1..Len(h.errors) \/ j = Len(h.errors) + 1
        BY <3>1
      <4> HIDE DEF q, x
      <4> QED
        BY <1>2, <2>3, <3>1, <3>3, <4>1, <4>2, <4>3 DEF ErrorsFit
    <3> HIDE DEF q
    <3> QED
      BY <2>4, <3>2, <3>3 DEF ErrorsFit
  <2> QED
    BY <2>1, <2>4, <2>5
<1> QED
  BY <1>1, <1>2

\* What the stages need depends on the transaction and the last channel only.
LEMMA StagesFrame ==
    ASSUME NEW h, NEW g, Transaction(g) = Transaction(h), g.last_channel = h.last_channel
    PROVE  /\ ReceiveFits(g) <=> ReceiveFits(h)
           /\ AppFits(g) <=> AppFits(h)
           /\ TransmitFits(g) <=> TransmitFits(h)
           /\ UnusedEmpty(g) <=> UnusedEmpty(h)
           /\ Idle(g) <=> Idle(h)
<1>1. /\ g.request = h.request /\ g.response = h.response /\ g.receive = h.receive
      /\ g.app_request = h.app_request /\ g.transmit = h.transmit
  BY DEF Transaction
<1> QED
  BY <1>1 DEF ReceiveFits, AppFits, TransmitFits, UnusedEmpty, IsAllocated, Idle

\* An idle engine is sound once its buffers are empty.
LEMMA IdleSound ==
    ASSUME NEW h \in HidRec, ErrorsFit(h), Idle(h), h.request = <<>>, h.response = <<>>
    PROVE  HidSound(h)
BY DEF HidSound, Idle, ReceiveFits, AppFits, TransmitFits, UnusedEmpty

\* abort_transaction leaves an idle engine with empty buffers.
LEMMA AbortSound ==
    ASSUME NEW h, HidSound(h)
    PROVE  /\ HidSound(AbortTransaction(h)) /\ Idle(AbortTransaction(h))
           /\ AbortTransaction(h).request = <<>> /\ AbortTransaction(h).response = <<>>
           /\ AbortTransaction(h).keepalive = None
           /\ AbortTransaction(h).last_channel = h.last_channel
<1> DEFINE g == AbortTransaction(h)
<1>1. h \in HidRec /\ ErrorsFit(h)
  BY DEF HidSound
<1>2. /\ g \in HidRec /\ g.errors = h.errors /\ g.last_channel = h.last_channel
      /\ g.request = <<>> /\ g.response = <<>>
      /\ g.receive = None /\ g.app_request = None /\ g.transmit = None /\ g.keepalive = None
  <2>1. /\ g.errors = h.errors /\ g.last_channel = h.last_channel
        /\ g.request = <<>> /\ g.response = <<>>
        /\ g.receive = None /\ g.app_request = None /\ g.transmit = None /\ g.keepalive = None
    BY <1>1 DEF AbortTransaction, HidRec
  <2>2. <<>> \in Seq(Data)
    OBVIOUS
  <2>3. g \in HidRec
    BY <1>1, <2>2 DEF AbortTransaction, HidRec
  <2> QED
    BY <2>1, <2>3
<1> HIDE DEF g
<1>3. ErrorsFit(g) /\ Idle(g)
  BY <1>1, <1>2 DEF ErrorsFit, Idle
<1>4. HidSound(g)
  BY <1>2, <1>3, IdleSound
<1> QED
  BY <1>2, <1>3, <1>4 DEF g

\* The owner of the only active stage.
LEMMA ActiveOwner ==
    ASSUME NEW h, HidSound(h)
    PROVE  /\ ActiveChannel(h) = None <=> Idle(h)
           /\ h.receive # None => ActiveChannel(h) = h.receive.channel
           /\ h.app_request # None => ActiveChannel(h) = h.app_request.channel
           /\ h.transmit # None => ActiveChannel(h) = h.transmit.channel
<1>1. /\ h.receive # None => h.receive.channel \in Channels /\ h.app_request = None /\ h.transmit = None
      /\ h.app_request # None => h.app_request.channel \in Channels /\ h.transmit = None
      /\ h.transmit # None => h.transmit.channel \in Channels
  BY DEF HidSound, HidRec, ReceiveFits, AppFits, ReceiveState, AppRequest, TransmitState
<1>2. CASE h.receive # None
  BY <1>1, <1>2, NoneDistinct DEF ActiveChannel, Idle
<1>3. CASE h.receive = None /\ h.app_request # None
  BY <1>1, <1>3, NoneDistinct DEF ActiveChannel, Idle
<1>4. CASE h.receive = None /\ h.app_request = None /\ h.transmit # None
  BY <1>1, <1>4, NoneDistinct DEF ActiveChannel, Idle
<1>5. CASE Idle(h)
  BY <1>5 DEF ActiveChannel, Idle
<1> QED
  BY <1>2, <1>3, <1>4, <1>5 DEF Idle

-----------------------------------------------------------------------------
(* ingest. *)

\* The result of a packet met by no active stage: a sound engine, whose event
\* tells of a request exactly if the application has got one.
Outcome(h, r) ==
    /\ HidSound(r.hid)
    /\ r.hid.transmit # None => r.hid.transmit.offset = 0
    /\ r.hid.keepalive = h.keepalive
    /\ r.hid.app_request = None => r.event = NoEvent
    /\ r.hid.app_request # None =>
         /\ r.hid.app_request.command \in {"Cbor", "Update"}
         /\ r.event = [kind |-> r.hid.app_request.command,
                       channel |-> r.hid.app_request.channel]

\* An idle engine with a complete request in its buffer.
Ready(h) == h \in HidRec /\ ErrorsFit(h) /\ Idle(h) /\ h.response = <<>>

\* Zeroizing the request of an idle engine leaves nothing behind.
LEMMA ZeroizeIdle ==
    ASSUME NEW h, Ready(h)
    PROVE  /\ HidSound(Zeroize(h)) /\ Idle(Zeroize(h))
           /\ Zeroize(h).last_channel = h.last_channel
           /\ Zeroize(h).keepalive = h.keepalive
           /\ Zeroize(h).response = <<>> /\ Zeroize(h).request = <<>>
<1> DEFINE g == Zeroize(h)
<1>1. h \in HidRec /\ ErrorsFit(h) /\ Idle(h) /\ h.response = <<>>
  BY DEF Ready
<1>2. /\ g.errors = h.errors /\ g.last_channel = h.last_channel /\ g.request = <<>>
      /\ g.keepalive = h.keepalive
      /\ g.response = <<>> /\ g.receive = None /\ g.app_request = None /\ g.transmit = None
  BY <1>1 DEF Zeroize, HidRec, Idle
<1>3. <<>> \in Seq(Data)
  OBVIOUS
<1>4. g \in HidRec
  BY <1>1, <1>3 DEF Zeroize, HidRec
<1> HIDE DEF g
<1>5. ErrorsFit(g) /\ Idle(g)
  BY <1>1, <1>2 DEF ErrorsFit, Idle
<1>6. HidSound(g)
  BY <1>2, <1>4, <1>5, IdleSound
<1> QED
  BY <1>2, <1>5, <1>6 DEF g

\* A refused request leaves an idle engine and an error.
LEMMA RefuseSound ==
    ASSUME NEW h, Ready(h), NEW c \in Channels, NEW e \in TransportError
    PROVE  Outcome(h, Refuse(h, c, e)) /\ Idle(Refuse(h, c, e).hid)
<1> DEFINE z == Zeroize(h)
           g == QueueError(z, c, e)
           r == Refuse(h, c, e)
<1>1. r.hid = g /\ r.event = NoEvent
  BY DEF Refuse
<1>2. /\ HidSound(z) /\ Idle(z) /\ z.keepalive = h.keepalive
  BY ZeroizeIdle
<1> HIDE DEF z
<1>3. z \in HidRec /\ ErrorsFit(z)
  BY <1>2 DEF HidSound
<1>4. /\ g \in HidRec /\ ErrorsFit(g) /\ Transaction(g) = Transaction(z)
      /\ g.last_channel = z.last_channel /\ g.keepalive = z.keepalive
  BY <1>3, QueueErrorSound
<1> HIDE DEF g
<1>5. HidSound(g) /\ Idle(g)
  BY <1>2, <1>4, StagesFrame DEF HidSound
<1> HIDE DEF r
<1>6. Outcome(h, r) /\ Idle(r.hid)
  BY <1>1, <1>2, <1>4, <1>5 DEF Outcome, Idle
<1> QED
  BY <1>6 DEF r

\* The channel counter wraps within the identifiers.
LEMMA AllocateInChannels ==
    ASSUME NEW h \in HidRec
    PROVE  AllocateChannel(h) \in Channels
<1>1. h.last_channel \in Channels /\ ChannelMod \in Nat /\ ChannelMod >= 3
  BY EngineAssumption DEF HidRec
<1>2. (h.last_channel + 1) % ChannelMod \in 0..ChannelMod - 1
  BY <1>1 DEF Channels
<1> QED
  BY <1>1, <1>2 DEF AllocateChannel, Channels, RESERVED_CHANNEL, BROADCAST_CHANNEL

\* reply and dispatch copy the response before they start to send it.
Responding(h, payload, c, command) ==
    StartTransmit([h EXCEPT !.response = payload], c, command, Len(payload))

\* A response is started from an idle engine.
LEMMA StartTransmitSound ==
    ASSUME NEW h, HidSound(h), Idle(h), NEW payload \in Seq(Data), Len(payload) <= MaxMessage,
           NEW c \in Channels, NEW command \in Command,
           IsAllocated(h, c) \/ command = "Init",
           NEW g, g = Responding(h, payload, c, command)
    PROVE  /\ HidSound(g)
           /\ g.transmit # None /\ g.transmit.channel = c /\ g.transmit.offset = 0
           /\ g.receive = None /\ g.app_request = None /\ g.keepalive = h.keepalive
<1> DEFINE t == [channel |-> c, command |-> command, length |-> Len(payload),
                 offset |-> 0, next_sequence |-> 0]
<1>1. h \in HidRec /\ ErrorsFit(h) /\ h.request = <<>>
  BY DEF HidSound, Idle, UnusedEmpty
<1>2. t \in TransmitState
  <2>1. Len(payload) \in 0..MaxMessage /\ 0 \in 0..MaxMessage /\ 0 \in 0..SeqSpace
    BY BufferAssumption, EngineAssumption
  <2> QED
    BY <2>1 DEF TransmitState
<1>3. t # None
  BY <1>2, NoneDistinct
<1>4. /\ g.transmit = t /\ g.response = payload /\ g.request = <<>> /\ g.receive = None
      /\ g.app_request = None /\ g.errors = h.errors /\ g.last_channel = h.last_channel
      /\ g.keepalive = h.keepalive
  BY <1>1 DEF Responding, StartTransmit, HidRec, Idle
<1>5. g \in HidRec
  BY <1>1, <1>2 DEF Responding, StartTransmit, HidRec
<1>6. t.channel = c /\ t.command = command /\ t.length = Len(payload) /\ t.offset = 0 /\ t.next_sequence = 0
  OBVIOUS
<1> HIDE DEF t
<1>7. ErrorsFit(g) /\ ReceiveFits(g) /\ AppFits(g) /\ UnusedEmpty(g)
  BY <1>1, <1>3, <1>4 DEF ErrorsFit, ReceiveFits, AppFits, UnusedEmpty
<1>8. IsAllocated(g, c) <=> IsAllocated(h, c)
  BY <1>4 DEF IsAllocated
<1>9. TransmitFits(g)
  BY <1>4, <1>6, <1>8 DEF TransmitFits
<1>10. HidSound(g)
  BY <1>5, <1>7, <1>9 DEF HidSound
<1> QED
  BY <1>3, <1>4, <1>6, <1>10

\* A response, or nothing, is an outcome.
LEMMA SilentOutcome ==
    ASSUME NEW h, NEW g, HidSound(g), g.app_request = None, g.keepalive = h.keepalive,
           g.transmit # None => g.transmit.offset = 0
    PROVE  Outcome(h, [hid |-> g, event |-> NoEvent])
BY DEF Outcome

\* INIT is answered or refused, and never reaches the application.
LEMMA DispatchInitSound ==
    ASSUME NEW h, Ready(h), NEW c \in Channels, NEW length \in 0..MaxMessage,
           Len(h.request) = length
    PROVE  /\ Outcome(h, DispatchInit(h, c, length))
           /\ DispatchInit(h, c, length).hid.app_request = None
<1> DEFINE r == DispatchInit(h, c, length)
           assigned == IF c = BROADCAST_CHANNEL THEN AllocateChannel(h) ELSE c
           last == IF c = BROADCAST_CHANNEL THEN assigned ELSE h.last_channel
           u == Units(InitReplyLength, h.request[1])
           k == [Zeroize(h) EXCEPT !.last_channel = last]
           g == StartTransmit([k EXCEPT !.response = u], c, "Init", InitReplyLength)
<1>1. h \in HidRec
  BY DEF Ready
<1>2. CASE \E e \in TransportError : r = Refuse(h, c, e)
  BY <1>2, RefuseSound DEF Idle
<1>3. CASE length = InitLength /\ r = [hid |-> g, event |-> NoEvent]
  <2>1. h.request[1] \in Data
    BY <1>1, <1>3, EngineAssumption DEF HidRec
  <2>2. u \in Seq(Data) /\ Len(u) = InitReplyLength
    BY <2>1, UnitsSeq, EngineAssumption
  <2>3. last \in Channels
    BY <1>1, AllocateInChannels DEF HidRec
  <2> HIDE DEF last, u
  <2>4. HidSound(k) /\ Idle(k) /\ k.keepalive = h.keepalive
    <3> DEFINE z == Zeroize(h)
    <3>1. /\ HidSound(z) /\ Idle(z) /\ z.request = <<>> /\ z.response = <<>>
          /\ z.keepalive = h.keepalive
      BY ZeroizeIdle
    <3>2. z \in HidRec /\ ErrorsFit(z)
      BY <3>1 DEF HidSound
    <3> HIDE DEF z
    <3> DEFINE kk == [z EXCEPT !.last_channel = last]
    <3>3. /\ kk \in HidRec /\ kk.errors = z.errors /\ Transaction(kk) = Transaction(z)
          /\ kk.request = <<>> /\ kk.response = <<>> /\ kk.keepalive = h.keepalive
      BY <2>3, <3>1, <3>2 DEF HidRec, Transaction
    <3>4. Idle(kk)
      BY <3>1, <3>2 DEF HidRec, Idle
    <3> HIDE DEF kk
    <3>5. HidSound(kk)
      BY <3>2, <3>3, <3>4, IdleSound DEF ErrorsFit
    <3> QED
      BY <3>3, <3>4, <3>5 DEF kk, z
  <2> HIDE DEF k
  <2>5. /\ HidSound(g) /\ g.app_request = None /\ g.keepalive = h.keepalive
        /\ g.transmit.offset = 0
    <3>1. Len(u) <= MaxMessage /\ "Init" \in Command
      BY <2>2, BufferAssumption DEF Command
    <3>2. g = Responding(k, u, c, "Init")
      BY <2>2 DEF Responding
    <3> HIDE DEF g
    <3> QED
      BY <2>2, <2>4, <3>1, <3>2, StartTransmitSound
  <2> HIDE DEF g
  <2>6. Outcome(h, [hid |-> g, event |-> NoEvent])
    BY <2>5, SilentOutcome
  <2> HIDE DEF r
  <2>7. Outcome(h, r) /\ r.hid.app_request = None
    BY <1>3, <2>5, <2>6
  <2> QED
    BY <2>7 DEF r
<1>4. \/ \E e \in TransportError : r = Refuse(h, c, e)
      \/ length = InitLength /\ r = [hid |-> g, event |-> NoEvent]
  <2>1. {"InvalidChannel", "InvalidLength"} \subseteq TransportError
    BY DEF TransportError
  <2>2. [Zeroize(h) EXCEPT !.response = u, !.last_channel = last]
           = [k EXCEPT !.response = u]
    BY <1>1 DEF Zeroize, HidRec
  <2>3. Zeroize(h).last_channel = h.last_channel
    BY <1>1 DEF Zeroize, HidRec
  <2> QED
    BY <2>1, <2>2, <2>3 DEF DispatchInit
<1> QED
  BY <1>2, <1>3, <1>4

\* A complete request.
LEMMA DispatchSound ==
    ASSUME NEW h, Ready(h), NEW c \in Channels, NEW command \in Command,
           NEW length \in 0..MaxMessage, Len(h.request) = length
    PROVE  /\ Outcome(h, Dispatch(h, c, command, length))
           /\ command = "Init" => Dispatch(h, c, command, length).hid.app_request = None
<1> DEFINE r == Dispatch(h, c, command, length)
<1>1. h \in HidRec /\ ErrorsFit(h) /\ Idle(h) /\ h.response = <<>>
  BY DEF Ready
<1>2. CASE command = "Init"
  BY <1>2, DispatchInitSound DEF Dispatch
<1>3. CASE \E e \in TransportError : r = Refuse(h, c, e)
  BY <1>3, RefuseSound DEF Idle
<1>4. CASE command = "Ping" /\ IsAllocated(h, c)
  <2> DEFINE z == Zeroize(h)
             g == StartTransmit([z EXCEPT !.response = h.request], c, "Ping", length)
  <2>1. r = [hid |-> g, event |-> NoEvent]
    BY <1>4 DEF Dispatch
  <2>2. HidSound(z) /\ Idle(z) /\ z.keepalive = h.keepalive /\ IsAllocated(z, c)
    BY <1>4, ZeroizeIdle DEF IsAllocated
  <2> HIDE DEF z
  <2>3. /\ HidSound(g) /\ g.app_request = None /\ g.keepalive = h.keepalive
        /\ g.transmit.offset = 0
    <3>1. h.request \in Seq(Data) /\ Len(h.request) <= MaxMessage /\ "Ping" \in Command
      BY <1>1 DEF HidRec, Command
    <3>2. g = Responding(z, h.request, c, "Ping")
      BY DEF Responding
    <3> HIDE DEF g
    <3> QED
      BY <2>2, <3>1, <3>2, StartTransmitSound
  <2> HIDE DEF g
  <2>4. Outcome(h, [hid |-> g, event |-> NoEvent])
    BY <2>3, SilentOutcome
  <2> QED
    BY <1>4, <2>1, <2>4
<1>5. CASE command \in {"Cbor", "Update"} /\ IsAllocated(h, c) /\ r = StartApplication(h, c, command, length)
  <2> DEFINE a == [channel |-> c, command |-> command, length |-> length]
             g == [h EXCEPT !.app_request = a]
  <2>1. r.hid = g /\ r.event = [kind |-> command, channel |-> c]
    BY <1>5 DEF StartApplication
  <2>2. a \in AppRequest /\ a # None /\ a.channel = c /\ a.command = command /\ a.length = length
    BY NoneDistinct DEF AppRequest
  <2> HIDE DEF a
  <2>3. /\ g.app_request = a /\ g.request = h.request /\ g.response = <<>> /\ g.receive = None
        /\ g.transmit = None /\ g.errors = h.errors /\ g.last_channel = h.last_channel
        /\ g.keepalive = h.keepalive
    BY <1>1 DEF HidRec, Idle
  <2>4. g \in HidRec
    BY <1>1, <2>2 DEF HidRec
  <2> HIDE DEF g, r
  <2>5. HidSound(g)
    BY <1>1, <1>5, <2>2, <2>3, <2>4
       DEF HidSound, ErrorsFit, ReceiveFits, AppFits, TransmitFits, UnusedEmpty, IsAllocated
  <2>6. Outcome(h, r) /\ command # "Init"
    BY <1>5, <2>1, <2>2, <2>3, <2>5 DEF Outcome
  <2> QED
    BY <2>6 DEF r
<1>6. CASE command = "Cancel" /\ IsAllocated(h, c)
  <2> DEFINE z == Zeroize(h)
  <2>1. r = [hid |-> z, event |-> NoEvent]
    BY <1>6 DEF Dispatch
  <2>2. HidSound(z) /\ Idle(z) /\ z.keepalive = h.keepalive
    BY ZeroizeIdle
  <2> HIDE DEF z
  <2>3. Outcome(h, [hid |-> z, event |-> NoEvent])
    BY <2>2, SilentOutcome DEF Idle
  <2> QED
    BY <1>6, <2>1, <2>3
<1>7. \/ command = "Init"
      \/ r = Refuse(h, c, "InvalidChannel")
      \/ r = Refuse(h, c, "InvalidCommand")
      \/ command = "Ping" /\ IsAllocated(h, c)
      \/ command \in {"Cbor", "Update"} /\ IsAllocated(h, c) /\ r = StartApplication(h, c, command, length)
      \/ command = "Cancel" /\ IsAllocated(h, c)
  BY EngineAssumption DEF Dispatch, Command
<1>8. "InvalidChannel" \in TransportError /\ "InvalidCommand" \in TransportError
  BY DEF TransportError
<1> QED
  BY <1>2, <1>3, <1>4, <1>5, <1>6, <1>7, <1>8

\* A packet of an admissible channel; what else it claims is up to the host.
LEMMA IngestInitialSound ==
    ASSUME NEW h, HidSound(h), Idle(h), NEW p, p.channel \in Channels, p.length \in Nat,
           p.datum \in Data, NEW t \in 0..ClockMod - 1
    PROVE  /\ Outcome(h, IngestInitial(h, p, t))
           /\ p.command = "Init" => IngestInitial(h, p, t).hid.app_request = None
<1> DEFINE copied == Lesser(p.length, InitPayload)
           f == [h EXCEPT !.request = Units(copied, p.datum)]
           v == [channel |-> p.channel, command |-> p.command, length |-> p.length,
                 received |-> InitPayload, next_sequence |-> 0, last_activity_ms |-> t]
           g == [f EXCEPT !.receive = v]
           r == IngestInitial(h, p, t)
<1>1. h \in HidRec /\ ErrorsFit(h) /\ h.request = <<>> /\ h.response = <<>>
  BY DEF HidSound, Idle, UnusedEmpty
<1>2. InitPayload \in Nat
  BY EngineAssumption
<1>3. /\ copied \in Nat /\ copied <= InitPayload
      /\ p.length <= InitPayload => copied = p.length
      /\ p.length > InitPayload => copied = InitPayload
  BY <1>2 DEF Lesser
<1> HIDE DEF copied
<1>4. Units(copied, p.datum) \in Seq(Data) /\ Len(Units(copied, p.datum)) = copied
  BY <1>3, UnitsSeq
<1>5. /\ f \in HidRec /\ f.errors = h.errors /\ f.response = <<>> /\ Len(f.request) = copied
      /\ f.receive = None /\ f.app_request = None /\ f.transmit = None
      /\ f.last_channel = h.last_channel /\ f.keepalive = h.keepalive
  BY <1>1, <1>4 DEF HidRec, Idle
<1> HIDE DEF f
<1>6. Ready(f) /\ Ready(h)
  BY <1>1, <1>5 DEF Ready, Idle, ErrorsFit
<1>7. CASE \E e \in TransportError : r = Refuse(h, p.channel, e)
  BY <1>6, <1>7, RefuseSound DEF Idle
<1>8. CASE /\ p.command \in Command /\ p.length <= MaxMessage /\ p.length > InitPayload
           /\ p.command # "Init"
           /\ r = [hid |-> g, event |-> NoEvent]
  <2>1. v \in ReceiveState
    <3>1. /\ p.length \in 0..MaxMessage /\ InitPayload \in 0..MaxMessage /\ 0 \in 0..SeqSpace
      BY <1>2, <1>8, EngineAssumption, BufferAssumption
    <3> QED
      BY <1>8, <3>1 DEF ReceiveState
  <2>2. v.received = InitPayload /\ v.length = p.length /\ v.next_sequence = 0 /\ v # None
    BY <2>1, NoneDistinct
  <2> HIDE DEF v
  <2>3. /\ g \in HidRec /\ g.errors = f.errors /\ g.receive = v /\ g.app_request = None
        /\ g.transmit = None /\ g.request = f.request /\ g.response = <<>>
        /\ g.keepalive = h.keepalive
    BY <1>5, <2>1 DEF HidRec
  <2> HIDE DEF g, r
  <2>4. 0 * ContPayload = 0
    BY EngineAssumption
  <2>5. HidSound(g)
    BY <1>1, <1>2, <1>3, <1>5, <1>8, <2>2, <2>3, <2>4
       DEF HidSound, ErrorsFit, ReceiveFits, AppFits, TransmitFits, UnusedEmpty
  <2>6. Outcome(h, [hid |-> g, event |-> NoEvent])
    BY <2>3, <2>5, SilentOutcome
  <2>7. Outcome(h, r) /\ p.command # "Init"
    BY <1>8, <2>6
  <2> QED
    BY <2>7 DEF r
<1>9. CASE /\ p.command \in Command /\ p.length <= MaxMessage /\ p.length <= InitPayload
           /\ r = Dispatch(f, p.channel, p.command, p.length)
  <2>1. p.length \in 0..MaxMessage /\ Len(f.request) = p.length
    BY <1>3, <1>5, <1>9, BufferAssumption
  <2>2. Outcome(f, r) /\ (p.command = "Init" => r.hid.app_request = None)
    BY <1>6, <1>9, <2>1, DispatchSound
  <2> HIDE DEF r
  <2>3. Outcome(h, r)
    BY <1>5, <2>2 DEF Outcome
  <2> QED
    BY <2>2, <2>3 DEF r
<1>10. \/ r = Refuse(h, p.channel, "InvalidCommand")
       \/ r = Refuse(h, p.channel, "InvalidLength")
       \/ /\ p.command \in Command /\ p.length <= MaxMessage /\ p.length > InitPayload
          /\ p.command # "Init" /\ r = [hid |-> g, event |-> NoEvent]
       \/ /\ p.command \in Command /\ p.length <= MaxMessage /\ p.length <= InitPayload
          /\ r = Dispatch(f, p.channel, p.command, p.length)
  <2>1. p.length = InitLength => p.length <= InitPayload
    BY EngineAssumption
  <2>2. MaxMessage \in Nat
    BY BufferAssumption
  <2> QED
    BY <1>2, <2>1, <2>2 DEF IngestInitial, f, copied
<1>11. "InvalidLength" \in TransportError /\ "InvalidCommand" \in TransportError
  BY DEF TransportError
<1> QED
  BY <1>7, <1>8, <1>9, <1>10, <1>11

\* A continuation matters only to the request that is being received.
LEMMA IngestContinuationSound ==
    ASSUME NEW h, HidSound(h), NEW p, p.channel \in Channels, p.datum \in Data,
           NEW t \in 0..ClockMod - 1
    PROVE  \/ IngestContinuation(h, p, t) = [hid |-> h, event |-> NoEvent]
           \/ /\ h.receive # None /\ h.receive.channel = p.channel
              /\ Outcome(h, IngestContinuation(h, p, t))
<1> DEFINE v == h.receive
           count == Lesser(v.length - v.received, ContPayload)
           w == [v EXCEPT !.received = @ + count, !.next_sequence = @ + 1, !.last_activity_ms = t]
           q == h.request \o Units(count, p.datum)
           n == [h EXCEPT !.request = q, !.receive = w]
           r == IngestContinuation(h, p, t)
<1>1. CASE h.receive = None \/ (h.receive # None /\ h.receive.channel # p.channel)
  BY <1>1 DEF IngestContinuation
<1>2. CASE h.receive # None /\ h.receive.channel = p.channel
  <2>1. /\ h \in HidRec /\ ErrorsFit(h) /\ h.app_request = None /\ h.transmit = None
        /\ h.response = <<>> /\ Len(h.request) = v.received /\ v.received < v.length
        /\ v.received = InitPayload + v.next_sequence * ContPayload
    BY <1>2 DEF HidSound, ReceiveFits, UnusedEmpty
  <2>2. v \in ReceiveState /\ h.request \in Seq(Data)
    BY <1>2, <2>1 DEF HidRec
  <2>3. /\ v.length \in 0..MaxMessage /\ v.received \in 0..MaxMessage /\ v.next_sequence \in 0..SeqSpace
        /\ v.command \in Command /\ v.channel \in Channels
        /\ MaxMessage \in Nat /\ ContPayload \in Nat /\ SeqSpace \in Nat
    BY <2>2, EngineAssumption, BufferAssumption DEF ReceiveState
  <2>4. /\ count \in Nat /\ count <= v.length - v.received /\ count <= ContPayload
        /\ v.length - v.received >= ContPayload => count = ContPayload
        /\ v.length - v.received <= ContPayload => count = v.length - v.received
    <3>1. v.length - v.received \in Nat
      BY <2>1, <2>3
    <3> QED
      BY <2>3, <3>1, LesserBound
  <2>5. v.next_sequence < SeqSpace
    <3>1. v.next_sequence \in Nat /\ InitPayload + v.next_sequence * ContPayload < v.length
      BY <2>1, <2>3
    <3> HIDE DEF v
    <3> QED
      BY <2>3, <3>1, SequenceFits
  <2> HIDE DEF count
  <2>6. q \in Seq(Data) /\ Len(q) = v.received + count
    <3> DEFINE u == Units(count, p.datum)
    <3>1. u \in Seq(Data) /\ Len(u) = count
      BY <2>4, UnitsSeq
    <3> HIDE DEF u
    <3>2. h.request \o u \in Seq(Data) /\ Len(h.request \o u) = Len(h.request) + Len(u)
      BY <2>2, <3>1, ConcatProperties
    <3> QED
      BY <2>1, <3>1, <3>2 DEF u
  <2>7. w.received = v.received + count /\ w.length = v.length /\ w.next_sequence = v.next_sequence + 1
    BY <2>2 DEF ReceiveState
  <2>8. w \in ReceiveState
    <3>1. v.received + count \in 0..MaxMessage /\ v.next_sequence + 1 \in 0..SeqSpace
      BY <2>3, <2>4, <2>5
    <3> QED
      BY <2>2, <3>1 DEF ReceiveState
  <2> HIDE DEF q
  <2>9. CASE p.sequence # v.next_sequence
    <3> DEFINE d == [h EXCEPT !.receive = None]
    <3>1. r = Refuse(d, p.channel, "InvalidSequence")
      BY <1>2, <2>9 DEF IngestContinuation
    <3>2. /\ d \in HidRec /\ d.errors = h.errors /\ d.receive = None /\ d.app_request = None
          /\ d.transmit = None /\ d.response = <<>> /\ d.keepalive = h.keepalive
      BY <2>1 DEF HidRec
    <3> HIDE DEF d
    <3>3. Ready(d)
      BY <2>1, <3>2 DEF Ready, Idle, ErrorsFit
    <3>4. Outcome(d, r)
      BY <3>1, <3>3, RefuseSound DEF TransportError
    <3> HIDE DEF r
    <3>5. Outcome(h, r)
      BY <3>2, <3>4 DEF Outcome
    <3> QED
      BY <1>2, <3>5 DEF r
  <2>10. CASE p.sequence = v.next_sequence /\ w.received = v.length
    <3> DEFINE d == [n EXCEPT !.receive = None]
    <3>1. r = Dispatch(d, v.channel, v.command, v.length)
      <4>1. n.receive = w
        BY <2>1 DEF HidRec
      <4> QED
        BY <1>2, <2>10, <4>1 DEF IngestContinuation, count, q
    <3>2. /\ d \in HidRec /\ d.errors = h.errors /\ d.receive = None /\ d.app_request = None
          /\ d.transmit = None /\ d.response = <<>> /\ d.keepalive = h.keepalive /\ d.request = q
      BY <2>1, <2>6 DEF HidRec
    <3> HIDE DEF d
    <3>3. Ready(d) /\ Len(d.request) = v.length
      BY <2>1, <2>6, <2>7, <2>10, <3>2 DEF Ready, Idle, ErrorsFit
    <3>4. Outcome(d, r)
      BY <2>3, <3>1, <3>3, DispatchSound
    <3> HIDE DEF r
    <3>5. Outcome(h, r)
      BY <3>2, <3>4 DEF Outcome
    <3> QED
      BY <1>2, <3>5 DEF r
  <2>11. CASE p.sequence = v.next_sequence /\ w.received # v.length
    <3>1. /\ n.request = q /\ n.receive = w /\ n.app_request = None /\ n.transmit = None
          /\ n.response = <<>> /\ n.errors = h.errors /\ n.keepalive = h.keepalive
      BY <2>1 DEF HidRec
    <3>2. n \in HidRec
      BY <2>1, <2>6, <2>8 DEF HidRec
    <3>3. r = [hid |-> n, event |-> NoEvent]
      BY <1>2, <2>11, <3>1 DEF IngestContinuation, count, q
    <3>4. /\ w.received < w.length
          /\ w.received = InitPayload + w.next_sequence * ContPayload
      <4>1. count = ContPayload
        BY <2>3, <2>4, <2>7, <2>11
      <4>2. v.received + count < v.length
        BY <2>3, <2>4, <2>7, <2>11
      <4>3. InitPayload + (v.next_sequence + 1) * ContPayload
              = InitPayload + v.next_sequence * ContPayload + ContPayload
        <5>1. v.next_sequence \in Nat
          BY <2>3
        <5> HIDE DEF v
        <5> QED
          BY <5>1, OneMore
      <4> HIDE DEF w, v
      <4> QED
        BY <2>1, <2>7, <4>1, <4>2, <4>3
    <3>5. w # None
      BY <2>8, NoneDistinct
    <3> HIDE DEF n, w, r
    <3>6. HidSound(n)
      BY <2>1, <2>6, <2>7, <3>1, <3>2, <3>4, <3>5
         DEF HidSound, ErrorsFit, ReceiveFits, AppFits, TransmitFits, UnusedEmpty
    <3>7. Outcome(h, [hid |-> n, event |-> NoEvent])
      BY <3>1, <3>6, SilentOutcome
    <3>8. Outcome(h, r)
      BY <3>3, <3>7
    <3> QED
      BY <1>2, <3>8 DEF r
  <2> QED
    BY <2>9, <2>10, <2>11
<1> QED
  BY <1>1, <1>2

\* A full-size report.
Report(p) ==
    /\ p.channel \in Channels /\ p.datum \in Data
    /\ p.kind = "cont" \/ (p.kind = "init" /\ p.length \in Nat)

IsCancel(p, c) ==
    p.kind = "init" /\ p.command = "Cancel" /\ p.length = 0 /\ p.channel = c

\* The transaction goes on; a CANCEL for the application's request is reported.
Untouched(h, p, r) ==
    /\ HidSound(r.hid) /\ Transaction(r.hid) = Transaction(h)
    /\ \/ /\ r.event = NoEvent /\ r.hid.keepalive = h.keepalive
          /\ ~(h.app_request # None /\ IsCancel(p, h.app_request.channel))
       \/ /\ h.app_request # None /\ IsCancel(p, h.app_request.channel)
          /\ r.event = [kind |-> "Cancelled", channel |-> p.channel]
          /\ r.hid.keepalive = None

\* A packet when neither the application nor a response is active.
Received(h, p, r) ==
    /\ h.app_request = None /\ h.transmit = None
    /\ Idle(h) \/ ActiveChannel(h) = p.channel
    /\ Outcome(h, r)

\* The owner of the transaction aborts it.
Aborted(h, p, r) ==
    /\ ~Idle(h) /\ ActiveChannel(h) = p.channel /\ ~IsCancel(p, p.channel)
    /\ Outcome(AbortTransaction(h), r) /\ r.hid.app_request = None

\* The same engine but for its errors.
LEMMA ErrorUntouched ==
    ASSUME NEW h, HidSound(h), NEW c \in Channels, NEW e \in TransportError
    PROVE  /\ HidSound(QueueError(h, c, e))
           /\ Transaction(QueueError(h, c, e)) = Transaction(h)
           /\ QueueError(h, c, e).keepalive = h.keepalive
<1> DEFINE g == QueueError(h, c, e)
<1>1. h \in HidRec /\ ErrorsFit(h)
  BY DEF HidSound
<1>2. /\ g \in HidRec /\ ErrorsFit(g) /\ Transaction(g) = Transaction(h)
      /\ g.last_channel = h.last_channel /\ g.keepalive = h.keepalive
  BY <1>1, QueueErrorSound
<1> HIDE DEF g
<1>3. HidSound(g)
  BY <1>2, StagesFrame DEF HidSound
<1> QED
  BY <1>2, <1>3 DEF g

\* ingest leaves the transaction alone, completes what was being received, or
\* aborts on behalf of its owner.
LEMMA IngestSound ==
    ASSUME NEW h, HidSound(h), NEW p, Report(p), NEW t \in 0..ClockMod - 1,
           NEW r, r = Ingest(h, p, t)
    PROVE  Untouched(h, p, r) \/ Received(h, p, r) \/ Aborted(h, p, r)
<1> DEFINE a == AbortTransaction(h)
<1>0. p.channel \in Channels /\ p.datum \in Data
  BY DEF Report
<1>1. CASE p.kind = "cont"
  <2>1. r = IngestContinuation(h, p, t)
    BY <1>1 DEF Ingest
  <2>2. CASE r = [hid |-> h, event |-> NoEvent]
    BY <1>1, <2>2 DEF Untouched, IsCancel
  <2>3. CASE h.receive # None /\ h.receive.channel = p.channel /\ Outcome(h, r)
    BY <2>3, ActiveOwner DEF Received, HidSound, ReceiveFits
  <2> QED
    BY <1>0, <2>1, <2>2, <2>3, IngestContinuationSound
<1>2. CASE p.kind = "init" /\ ActiveChannel(h) = None
  <2>1. r = IngestInitial(h, p, t)
    BY <1>2 DEF Ingest
  <2>2. Idle(h) /\ p.length \in Nat
    BY <1>2, ActiveOwner DEF Report
  <2>3. Outcome(h, r)
    BY <1>0, <2>1, <2>2, IngestInitialSound
  <2> QED
    BY <2>2, <2>3 DEF Received, Idle
<1>3. CASE p.kind = "init" /\ ActiveChannel(h) # None /\ p.channel # ActiveChannel(h)
  <2>1. h.app_request # None => ~IsCancel(p, h.app_request.channel)
    BY <1>3, ActiveOwner DEF IsCancel
  <2>2. \/ r = [hid |-> h, event |-> NoEvent]
        \/ r = [hid |-> QueueError(h, p.channel, "ChannelBusy"), event |-> NoEvent]
    BY <1>3 DEF Ingest
  <2>3. "ChannelBusy" \in TransportError
    BY DEF TransportError
  <2> QED
    BY <1>0, <2>1, <2>2, <2>3, ErrorUntouched DEF Untouched
<1>4. CASE p.kind = "init" /\ ActiveChannel(h) # None /\ p.channel = ActiveChannel(h)
  <2>1. ~Idle(h) /\ p.length \in Nat
    BY <1>4, ActiveOwner DEF Report
  <2>2. HidSound(a) /\ Idle(a)
    BY AbortSound
  <2>3. CASE p.command = "Init"
    <3>1. r = IngestInitial(a, p, t)
      BY <1>4, <2>3 DEF Ingest
    <3> HIDE DEF a
    <3>2. Outcome(a, r) /\ r.hid.app_request = None
      BY <1>0, <2>1, <2>2, <2>3, <3>1, IngestInitialSound
    <3>3. ~IsCancel(p, p.channel)
      BY <2>3 DEF IsCancel
    <3> QED
      BY <1>4, <2>1, <3>2, <3>3 DEF Aborted, a
  <2>4. CASE p.command = "Cancel" /\ p.length # 0
    <3>1. r = [hid |-> QueueError(h, p.channel, "InvalidLength"), event |-> NoEvent]
      BY <1>4, <2>4 DEF Ingest
    <3>2. "InvalidLength" \in TransportError
      BY DEF TransportError
    <3>3. ~(h.app_request # None /\ IsCancel(p, h.app_request.channel))
      BY <2>4 DEF IsCancel
    <3> QED
      BY <1>0, <3>1, <3>2, <3>3, ErrorUntouched DEF Untouched
  <2>5. CASE p.command = "Cancel" /\ p.length = 0
    <3>1. r = CancelApplicationRequest(h, p.channel)
      BY <1>4, <2>5 DEF Ingest
    <3>2. CASE h.app_request = None
      BY <3>1, <3>2 DEF CancelApplicationRequest, Untouched
    <3>3. CASE h.app_request # None
      <4> DEFINE g == [h EXCEPT !.keepalive = None]
      <4>1. r.hid = g /\ r.event = [kind |-> "Cancelled", channel |-> p.channel]
        BY <3>1, <3>3 DEF CancelApplicationRequest
      <4>2. IsCancel(p, h.app_request.channel)
        BY <1>4, <2>5, <3>3, ActiveOwner DEF IsCancel
      <4>3. h \in HidRec /\ ErrorsFit(h)
        BY DEF HidSound
      <4>4. /\ g \in HidRec /\ g.errors = h.errors /\ g.keepalive = None
            /\ Transaction(g) = Transaction(h) /\ g.last_channel = h.last_channel
        BY <4>3 DEF HidRec, Transaction
      <4> HIDE DEF g
      <4>5. HidSound(g)
        BY <4>3, <4>4, StagesFrame DEF HidSound, ErrorsFit
      <4> QED
        BY <3>3, <4>1, <4>2, <4>4, <4>5 DEF Untouched
    <3> QED
      BY <3>2, <3>3
  <2>6. CASE p.command \notin {"Init", "Cancel"}
    <3> DEFINE g == QueueError(a, p.channel, "InvalidSequence")
    <3>1. r = [hid |-> g, event |-> NoEvent]
      BY <1>4, <2>6 DEF Ingest
    <3> HIDE DEF a
    <3>2. HidSound(g) /\ Transaction(g) = Transaction(a) /\ g.keepalive = a.keepalive
      BY <1>0, <2>2, ErrorUntouched DEF TransportError
    <3> HIDE DEF g
    <3>3. g.app_request = None /\ g.transmit = None
      BY <2>2, <3>2 DEF Idle, Transaction
    <3>4. Outcome(a, r) /\ r.hid.app_request = None
      BY <3>1, <3>2, <3>3, SilentOutcome
    <3>5. ~IsCancel(p, p.channel)
      BY <2>6 DEF IsCancel
    <3> QED
      BY <1>4, <2>1, <3>4, <3>5 DEF Aborted, a
  <2> QED
    BY <2>3, <2>4, <2>5, <2>6
<1> QED
  BY <1>1, <1>2, <1>3, <1>4 DEF Report

-----------------------------------------------------------------------------
(* The other methods. *)

\* transport_error leaves nothing.
LEMMA ResetSound ==
    ASSUME NEW h, HidSound(h)
    PROVE  /\ HidSound(TransportErrorReset(h)) /\ Idle(TransportErrorReset(h))
           /\ TransportErrorReset(h).keepalive = None
<1> DEFINE a == AbortTransaction(h)
           g == [a EXCEPT !.errors = <<>>]
<1>1. /\ HidSound(a) /\ Idle(a) /\ a.request = <<>> /\ a.response = <<>> /\ a.keepalive = None
  BY AbortSound
<1> HIDE DEF a
<1>2. a \in HidRec
  BY <1>1 DEF HidSound
<1>3. <<>> \in Seq([channel : Channels, error : TransportError])
  OBVIOUS
<1>4. g \in HidRec
  BY <1>2, <1>3 DEF HidRec
<1>5. /\ g.errors = <<>> /\ g.request = <<>> /\ g.response = <<>> /\ g.keepalive = None
      /\ g.receive = None /\ g.app_request = None /\ g.transmit = None
  BY <1>1, <1>2 DEF HidRec, Idle
<1>6. ErrorsFit(g)
  BY <1>5, EngineAssumption DEF ErrorsFit
<1> HIDE DEF g
<1>7. Idle(g)
  BY <1>5 DEF Idle
<1>8. HidSound(g)
  BY <1>4, <1>5, <1>6, <1>7, IdleSound
<1>9. TransportErrorReset(h) = g
  BY DEF TransportErrorReset, g, a
<1> QED
  BY <1>5, <1>7, <1>8, <1>9

\* The reply leaves the application's stage for the response's.
LEMMA ReplySound ==
    ASSUME NEW h, HidSound(h), h.app_request # None, NEW payload \in Seq(Data)
    PROVE  /\ HidSound(Reply(h, payload)) /\ Reply(h, payload).app_request = None
           /\ Reply(h, payload).keepalive = h.keepalive
           /\ Len(payload) <= MaxMessage =>
                /\ Reply(h, payload).transmit # None
                /\ Reply(h, payload).transmit.channel = h.app_request.channel
           /\ Reply(h, payload).transmit # None => Reply(h, payload).transmit.offset = 0
<1> DEFINE app == h.app_request
           idle == [Zeroize(h) EXCEPT !.app_request = None]
<1>1. /\ h \in HidRec /\ ErrorsFit(h) /\ app \in AppRequest /\ h.receive = None /\ h.transmit = None
      /\ h.response = <<>> /\ IsAllocated(h, app.channel)
  BY DEF HidSound, HidRec, ReceiveFits, AppFits, UnusedEmpty
<1>2. app.channel \in Channels /\ app.command \in Command
  BY <1>1 DEF AppRequest
<1>3. /\ idle.errors = h.errors /\ idle.last_channel = h.last_channel /\ idle.request = <<>>
      /\ idle.response = <<>> /\ idle.keepalive = h.keepalive
      /\ idle.receive = None /\ idle.app_request = None /\ idle.transmit = None
  BY <1>1 DEF Zeroize, HidRec
<1>4. idle \in HidRec
  <2>1. <<>> \in Seq(Data)
    OBVIOUS
  <2> QED
    BY <1>1, <2>1 DEF Zeroize, HidRec
<1> HIDE DEF idle
<1>5. ErrorsFit(idle) /\ Idle(idle) /\ IsAllocated(idle, app.channel)
  BY <1>1, <1>3 DEF ErrorsFit, Idle, IsAllocated
<1>6. HidSound(idle)
  BY <1>3, <1>4, <1>5, IdleSound
<1>7. CASE Len(payload) > MaxMessage
  <2> DEFINE g == QueueError(idle, app.channel, "InvalidLength")
  <2>1. Reply(h, payload) = g
    BY <1>7 DEF Reply, idle
  <2>2. HidSound(g) /\ Transaction(g) = Transaction(idle) /\ g.keepalive = h.keepalive
    BY <1>2, <1>3, <1>6, ErrorUntouched DEF TransportError
  <2> HIDE DEF g
  <2>3. g.app_request = None /\ g.transmit = None
    BY <1>3, <2>2 DEF Transaction
  <2> QED
    BY <1>7, <2>1, <2>2, <2>3, BufferAssumption
<1>8. CASE ~(Len(payload) > MaxMessage)
  <2>0. Len(payload) <= MaxMessage
    BY <1>8, BufferAssumption
  <2> DEFINE g == Responding(idle, payload, app.channel, app.command)
  <2>1. Reply(h, payload) = g
    BY <1>8 DEF Reply, Responding, idle
  <2> HIDE DEF g
  <2>2. g = Responding(idle, payload, app.channel, app.command)
    BY DEF g
  <2> HIDE DEF app
  <2>3. /\ HidSound(g) /\ g.transmit # None /\ g.transmit.channel = app.channel
        /\ g.transmit.offset = 0 /\ g.app_request = None /\ g.keepalive = idle.keepalive
    BY <1>2, <1>5, <1>6, <2>0, <2>2, StartTransmitSound
  <2> QED
    BY <1>3, <2>1, <2>3 DEF app
<1> QED
  BY <1>7, <1>8

\* keepalive is for the channel of the pending request.
LEMMA KeepaliveSound ==
    ASSUME NEW h, HidSound(h)
    PROVE  /\ HidSound(Keepalive(h)) /\ Transaction(Keepalive(h)) = Transaction(h)
           /\ Keepalive(h).keepalive = IF h.app_request = None THEN h.keepalive
                                       ELSE h.app_request.channel
<1>1. CASE h.app_request = None
  BY <1>1 DEF Keepalive
<1>2. CASE h.app_request # None
  <2> DEFINE g == [h EXCEPT !.keepalive = h.app_request.channel]
  <2>1. h \in HidRec /\ ErrorsFit(h) /\ h.app_request.channel \in Channels
    BY <1>2 DEF HidSound, HidRec, AppRequest
  <2>2. /\ g \in HidRec /\ g.errors = h.errors /\ g.keepalive = h.app_request.channel
        /\ Transaction(g) = Transaction(h) /\ g.last_channel = h.last_channel
    BY <2>1 DEF HidRec, Transaction
  <2>3. Keepalive(h) = g
    BY <1>2 DEF Keepalive
  <2> HIDE DEF g
  <2>4. HidSound(g)
    BY <2>1, <2>2, StagesFrame DEF HidSound, ErrorsFit
  <2> QED
    BY <1>2, <2>2, <2>3, <2>4
<1> QED
  BY <1>1, <1>2

\* A timeout ends a partial request and nothing else.
LEMMA ExpireSound ==
    ASSUME NEW h, HidSound(h), NEW t
    PROVE  \/ Expire(h, t) = h
           \/ /\ h.receive # None /\ HidSound(Expire(h, t)) /\ Idle(Expire(h, t))
              /\ Expire(h, t).keepalive = h.keepalive
<1>1. CASE ~ReceiveExpired(h, t)
  BY <1>1 DEF Expire
<1>2. CASE ReceiveExpired(h, t)
  <2> DEFINE idle == [Zeroize(h) EXCEPT !.receive = None]
             g == QueueError(idle, h.receive.channel, "Timeout")
  <2>1. /\ h.receive # None /\ h \in HidRec /\ ErrorsFit(h) /\ h.app_request = None
        /\ h.transmit = None /\ h.response = <<>>
    BY <1>2 DEF ReceiveExpired, HidSound, ReceiveFits, UnusedEmpty
  <2>2. h.receive.channel \in Channels
    BY <2>1 DEF HidRec, ReceiveState
  <2>3. /\ idle.errors = h.errors /\ idle.request = <<>> /\ idle.response = <<>>
        /\ idle.keepalive = h.keepalive
        /\ idle.receive = None /\ idle.app_request = None /\ idle.transmit = None
    BY <2>1 DEF Zeroize, HidRec
  <2>4. idle \in HidRec
    <3>1. <<>> \in Seq(Data)
      OBVIOUS
    <3> QED
      BY <2>1, <3>1 DEF Zeroize, HidRec
  <2>5. Expire(h, t) = g
    BY <1>2 DEF Expire
  <2> HIDE DEF idle
  <2>6. ErrorsFit(idle) /\ Idle(idle)
    BY <2>1, <2>3 DEF ErrorsFit, Idle
  <2>7. HidSound(idle)
    BY <2>3, <2>4, <2>6, IdleSound
  <2>8. HidSound(g) /\ Transaction(g) = Transaction(idle) /\ g.keepalive = h.keepalive
    BY <2>2, <2>3, <2>7, ErrorUntouched DEF TransportError
  <2> HIDE DEF g
  <2>9. Idle(g)
    BY <2>3, <2>8 DEF Idle, Transaction
  <2> QED
    BY <2>1, <2>5, <2>8, <2>9
<1> QED
  BY <1>1, <1>2

\* The transmit stage after its next packet.
Sent(t) ==
    [t EXCEPT !.offset = t.offset + TransmitCount(t),
              !.next_sequence = IF t.offset + TransmitCount(t) > InitPayload
                                THEN @ + 1 ELSE @]

\* The bytes of a packet advance the offset up to the length, and by whole
\* packets before that.
LEMMA TransmitAdvances ==
    ASSUME NEW h, HidSound(h), h.transmit # None, NEW t, t = h.transmit
    PROVE  /\ t \in TransmitState /\ TransmitCount(t) \in Nat
           /\ t.offset + TransmitCount(t) <= t.length
           /\ t.offset + TransmitCount(t) < t.length =>
                /\ Sent(t) \in TransmitState
                /\ Sent(t).channel = t.channel /\ Sent(t).command = t.command
                /\ Sent(t).length = t.length
                /\ Sent(t).offset = t.offset + TransmitCount(t)
                /\ Sent(t).offset > 0
                /\ Sent(t).offset = InitPayload + Sent(t).next_sequence * ContPayload
                /\ t.offset = 0 => Sent(t).next_sequence = 0
                /\ t.offset > 0 => Sent(t).next_sequence = t.next_sequence + 1
<1> DEFINE count == TransmitCount(t)
           offset == t.offset + count
<1>1. t \in TransmitState
  BY DEF HidSound, HidRec
<1>2. /\ t.length \in 0..MaxMessage /\ t.offset \in 0..MaxMessage /\ t.next_sequence \in 0..SeqSpace
      /\ MaxMessage \in Nat /\ SeqSpace \in Nat
      /\ ContPayload \in Nat /\ ContPayload > 0 /\ InitPayload \in Nat /\ InitPayload > 0
  BY <1>1, EngineAssumption, BufferAssumption DEF TransmitState
<1>3. \/ t.offset = 0 /\ t.next_sequence = 0
      \/ t.offset = InitPayload + t.next_sequence * ContPayload /\ t.offset < t.length
  BY DEF HidSound, TransmitFits
<1>4. CASE t.offset = 0 /\ t.next_sequence = 0
  <2>1. /\ count \in Nat /\ count <= t.length
        /\ count < t.length => count = InitPayload
    BY <1>2, <1>4 DEF TransmitCount, Lesser
  <2>2. ASSUME offset < t.length
        PROVE  /\ Sent(t) = [t EXCEPT !.offset = InitPayload, !.next_sequence = 0]
               /\ offset = InitPayload
    <3>1. offset = InitPayload /\ ~(offset > InitPayload)
      BY <1>2, <1>4, <2>1, <2>2
    <3>2. Sent(t) = [t EXCEPT !.offset = offset, !.next_sequence = t.next_sequence]
      BY <1>1, <3>1 DEF Sent, TransmitState
    <3> HIDE DEF offset
    <3> QED
      BY <1>4, <3>1, <3>2
  <2>3. InitPayload + 0 * ContPayload = InitPayload
    BY <1>2
  <2>4. offset <= t.length
    BY <1>4, <2>1, <1>2
  <2>5. ASSUME offset < t.length
        PROVE  /\ Sent(t) \in TransmitState
               /\ Sent(t).channel = t.channel /\ Sent(t).command = t.command
               /\ Sent(t).length = t.length /\ Sent(t).offset = InitPayload
               /\ Sent(t).next_sequence = 0
    <3>1. InitPayload \in 0..MaxMessage /\ 0 \in 0..SeqSpace
      BY <1>2, <2>2, <2>5
    <3> HIDE DEF offset
    <3> QED
      BY <1>1, <2>2, <2>5, <3>1 DEF TransmitState
  <2> QED
    BY <1>1, <1>2, <1>4, <2>1, <2>2, <2>3, <2>4, <2>5
<1>5. CASE t.offset = InitPayload + t.next_sequence * ContPayload /\ t.offset < t.length
  <2>1. t.next_sequence * ContPayload \in Nat
    BY <1>2
  <2>2. t.offset > 0 /\ t.offset >= InitPayload
    BY <1>2, <1>5, <2>1
  <2>3. /\ count \in Nat /\ count <= t.length - t.offset
        /\ count < t.length - t.offset => count = ContPayload
    BY <1>2, <1>5, <2>2 DEF TransmitCount, Lesser
  <2>4. t.next_sequence < SeqSpace
    <3>1. t.next_sequence \in Nat /\ InitPayload + t.next_sequence * ContPayload < t.length
      BY <1>2, <1>5
    <3> QED
      BY <1>2, <3>1, SequenceFits
  <2>5. offset <= t.length
    BY <1>2, <2>3
  <2>6. ASSUME offset < t.length
        PROVE  /\ Sent(t) = [t EXCEPT !.offset = offset, !.next_sequence = t.next_sequence + 1]
               /\ offset = t.offset + ContPayload
    <3>1. offset = t.offset + ContPayload /\ offset > InitPayload
      BY <1>2, <2>2, <2>3, <2>6
    <3>2. Sent(t) = [t EXCEPT !.offset = offset, !.next_sequence = t.next_sequence + 1]
      BY <1>1, <3>1 DEF Sent, TransmitState
    <3> QED
      BY <3>1, <3>2
  <2>7. ASSUME offset < t.length
        PROVE  /\ Sent(t) \in TransmitState
               /\ Sent(t).channel = t.channel /\ Sent(t).command = t.command
               /\ Sent(t).length = t.length /\ Sent(t).offset = offset
               /\ Sent(t).next_sequence = t.next_sequence + 1
    <3>1. offset \in 0..MaxMessage /\ t.next_sequence + 1 \in 0..SeqSpace
      BY <1>2, <2>4, <2>6, <2>7
    <3> HIDE DEF offset
    <3> QED
      BY <1>1, <2>6, <2>7, <3>1 DEF TransmitState
  <2>8. ASSUME offset < t.length
        PROVE  offset = InitPayload + (t.next_sequence + 1) * ContPayload /\ offset > 0
    <3>1. t.next_sequence \in Nat
      BY <1>2
    <3>2. InitPayload + (t.next_sequence + 1) * ContPayload
            = InitPayload + t.next_sequence * ContPayload + ContPayload
      BY <3>1, OneMore
    <3> HIDE DEF offset
    <3> QED
      BY <1>2, <1>5, <2>1, <2>6, <2>8, <3>2
  <2> QED
    BY <1>1, <1>2, <2>2, <2>3, <2>5, <2>7, <2>8
<1> QED
  BY <1>3, <1>4, <1>5

\* packet_sent takes the error, the keepalive or the part of the response that
\* next_packet offered.
LEMMA PacketSentSound ==
    ASSUME NEW h, HidSound(h), NEW g, g = PacketSent(h)
    PROVE  /\ HidSound(g)
           /\ g.request = h.request /\ g.receive = h.receive /\ g.app_request = h.app_request
           /\ g.keepalive # None => g.keepalive = h.keepalive /\ g.transmit = h.transmit
           /\ h.errors # <<>> \/ h.keepalive # None \/ h.transmit = None =>
                Transaction(g) = Transaction(h)
           /\ h.errors = <<>> /\ h.keepalive = None /\ h.transmit # None =>
                LET t == h.transmit
                IN  IF t.offset + TransmitCount(t) >= t.length
                    THEN g.transmit = None
                    ELSE g.transmit = Sent(t) /\ g.response = h.response
<1>1. h \in HidRec /\ ErrorsFit(h)
  BY DEF HidSound
<1>2. CASE h.errors # <<>>
  <2> DEFINE E == [channel : Channels, error : TransportError]
             q == Tail(h.errors)
  <2>1. h.errors \in Seq(E)
    BY <1>1 DEF HidRec
  <2>2. g = [h EXCEPT !.errors = q]
    BY <1>2 DEF PacketSent
  <2>3. /\ q \in Seq(E) /\ Len(q) = Len(h.errors) - 1
        /\ \A i \in 1..Len(q) : q[i] = h.errors[i + 1]
    BY <1>2, <2>1, HeadTailProperties
  <2> HIDE DEF q
  <2>4. /\ g \in HidRec /\ g.errors = q /\ g.keepalive = h.keepalive /\ g.last_channel = h.last_channel
        /\ Transaction(g) = Transaction(h)
        /\ g.request = h.request /\ g.receive = h.receive /\ g.app_request = h.app_request
        /\ g.transmit = h.transmit
    BY <1>1, <2>2, <2>3 DEF HidRec, Transaction
  <2>5. ErrorsFit(g)
    <3>1. /\ DOMAIN q = 1..Len(q) /\ DOMAIN h.errors = 1..Len(h.errors)
          /\ Len(q) \in Nat /\ Len(h.errors) \in Nat
      BY <2>1, <2>3
    <3>2. Len(q) <= ErrorCapacity
      BY <1>1, <2>3, <3>1, EngineAssumption DEF ErrorsFit
    <3>3. ASSUME NEW i \in DOMAIN q, NEW j \in DOMAIN q, q[i].channel = q[j].channel
          PROVE  i = j
      <4>1. i + 1 \in DOMAIN h.errors /\ j + 1 \in DOMAIN h.errors
        BY <2>3, <3>1
      <4>2. h.errors[i + 1].channel = h.errors[j + 1].channel
        BY <2>3, <3>1, <3>3
      <4>3. i + 1 = j + 1
        BY <1>1, <4>1, <4>2 DEF ErrorsFit
      <4> QED
        BY <3>1, <4>3
    <3> QED
      BY <2>4, <3>2, <3>3 DEF ErrorsFit
  <2>6. HidSound(g)
    BY <2>4, <2>5, StagesFrame DEF HidSound
  <2> QED
    BY <1>2, <2>4, <2>6
<1>3. CASE h.errors = <<>> /\ h.keepalive # None
  <2>1. g = [h EXCEPT !.keepalive = None]
    BY <1>3 DEF PacketSent
  <2>2. /\ g \in HidRec /\ g.errors = h.errors /\ g.keepalive = None /\ g.last_channel = h.last_channel
        /\ Transaction(g) = Transaction(h)
        /\ g.request = h.request /\ g.receive = h.receive /\ g.app_request = h.app_request
    BY <1>1, <2>1 DEF HidRec, Transaction
  <2>3. HidSound(g)
    BY <1>1, <2>2, StagesFrame DEF HidSound, ErrorsFit
  <2> QED
    BY <1>3, <2>2, <2>3
<1>4. CASE h.errors = <<>> /\ h.keepalive = None /\ h.transmit = None
  <2>1. g = h
    BY <1>4 DEF PacketSent
  <2> QED
    BY <1>4, <2>1
<1>5. CASE h.errors = <<>> /\ h.keepalive = None /\ h.transmit # None
  <2> DEFINE t == h.transmit
             offset == t.offset + TransmitCount(t)
  <2>1. /\ t \in TransmitState /\ offset <= t.length
        /\ offset < t.length =>
             /\ Sent(t) \in TransmitState /\ Sent(t).channel = t.channel
             /\ Sent(t).command = t.command /\ Sent(t).length = t.length
             /\ Sent(t).offset = offset
             /\ Sent(t).offset = InitPayload + Sent(t).next_sequence * ContPayload
    BY <1>5, TransmitAdvances
  <2>2. offset \in Int /\ t.length \in Int
    <3>1. TransmitCount(t) \in Nat
      BY <1>5, TransmitAdvances
    <3> QED
      BY <2>1, <3>1, BufferAssumption DEF TransmitState
  <2>3. /\ h.receive = None /\ h.app_request = None /\ h.request = <<>>
        /\ Len(h.response) = t.length
        /\ IsAllocated(h, t.channel) \/ t.command = "Init"
    BY <1>5 DEF HidSound, ReceiveFits, AppFits, TransmitFits, UnusedEmpty
  <2>4. CASE offset >= t.length
    <3>1. g = [h EXCEPT !.transmit = None, !.response = <<>>]
      BY <1>5, <2>4 DEF PacketSent
    <3>2. /\ g.errors = h.errors /\ g.keepalive = None /\ g.transmit = None /\ g.response = <<>>
          /\ g.receive = None /\ g.app_request = None /\ g.request = <<>>
      BY <1>1, <1>5, <2>3, <3>1 DEF HidRec
    <3>3. <<>> \in Seq(Data)
      OBVIOUS
    <3>4. g \in HidRec
      BY <1>1, <3>1, <3>3 DEF HidRec
    <3>5. HidSound(g)
      BY <1>1, <3>2, <3>4, IdleSound DEF Idle, ErrorsFit
    <3> QED
      BY <1>5, <2>3, <2>4, <3>2, <3>5
  <2>5. CASE ~(offset >= t.length)
    <3>1. g = [h EXCEPT !.transmit = Sent(t)]
      BY <1>5, <2>5 DEF PacketSent, Sent
    <3>2. offset < t.length
      BY <2>2, <2>5
    <3>3. /\ g \in HidRec /\ g.errors = h.errors /\ g.keepalive = None /\ g.transmit = Sent(t)
          /\ g.response = h.response /\ g.last_channel = h.last_channel
          /\ g.receive = None /\ g.app_request = None /\ g.request = <<>>
      BY <1>1, <1>5, <2>1, <2>3, <3>1, <3>2 DEF HidRec
    <3>4. IsAllocated(g, t.channel) <=> IsAllocated(h, t.channel)
      BY <3>3 DEF IsAllocated
    <3>5. TransmitFits(g)
      BY <2>1, <2>3, <3>2, <3>3, <3>4 DEF TransmitFits
    <3>6. ErrorsFit(g) /\ ReceiveFits(g) /\ AppFits(g)
      BY <1>1, <3>3 DEF ErrorsFit, ReceiveFits, AppFits
    <3>7. UnusedEmpty(g)
      <4>1. Sent(t) # None
        BY <2>1, <3>2, NoneDistinct
      <4> QED
        BY <3>3, <4>1 DEF UnusedEmpty
    <3>8. HidSound(g)
      BY <3>3, <3>5, <3>6, <3>7 DEF HidSound
    <3> QED
      BY <1>5, <2>3, <2>5, <3>3, <3>8
  <2> QED
    BY <2>4, <2>5
<1> QED
  BY <1>2, <1>3, <1>4, <1>5

-----------------------------------------------------------------------------
(* The transport. *)

\* A step leaves the response that is being sent as it is, ends it, or starts one.
ResponseKept(h, g) ==
    g.transmit # None =>
      g.transmit.offset = 0 \/ (g.transmit = h.transmit /\ g.response = h.response)

\* Steps that send nothing.
LEMMA SilentStep ==
    ASSUME TransportInv, HidSound(hid'), ResponseKept(hid, hid'), now' \in 0..ClockMod - 1,
           rx' = rx
    PROVE  TransportInv'
<1>1. HostFollows'
  <2> SUFFICES ASSUME hid'.transmit # None, hid'.transmit.offset > 0
               PROVE  rx' = [channel |-> hid'.transmit.channel, length |-> hid'.transmit.length,
                             data |-> SubSeq(hid'.response, 1, hid'.transmit.offset),
                             next_sequence |-> hid'.transmit.next_sequence]
    BY DEF HostFollows
  <2>1. hid'.transmit = hid.transmit /\ hid'.response = hid.response
    BY DEF ResponseKept
  <2> QED
    BY <2>1 DEF TransportInv, HostFollows
<1> QED
  BY <1>1 DEF TransportInv

\* What the host may send is a report.
LEMMA PacketsAreReports == \A p \in Packets : Report(p)
<1> SUFFICES ASSUME NEW p \in Packets PROVE Report(p)
  OBVIOUS
<1>1. CASE p \in [kind : {"init"}, channel : HostChannels,
                  command : HostCommands \cup {"Unknown"},
                  length : 0 .. MaxMessage + 1, datum : Data]
  <2>1. p.length \in Nat
    BY <1>1, BufferAssumption
  <2> QED
    BY <1>1, <2>1, HostAssumption DEF Report
<1>2. CASE p \in [kind : {"cont"}, channel : HostChannels, sequence : 0 .. SeqSpace - 1,
                  datum : Data]
  BY <1>2, HostAssumption DEF Report
<1> QED
  BY <1>1, <1>2 DEF Packets

\* A report arrives.
LEMMA IngestStep ==
    ASSUME TransportInv, NEW p \in Packets, IngestReport(p)
    PROVE  TransportInv'
<1> DEFINE r == Ingest(hid, p, now)
<1>1. hid' = r.hid /\ now' = now /\ rx' = rx
  BY DEF IngestReport, IngestWithInterruption
<1>2. HidSound(hid) /\ now \in 0..ClockMod - 1 /\ Report(p)
  BY PacketsAreReports DEF TransportInv
<1>3. Untouched(hid, p, r) \/ Received(hid, p, r) \/ Aborted(hid, p, r)
  BY <1>2, IngestSound
<1> HIDE DEF r
<1>4. HidSound(r.hid) /\ ResponseKept(hid, r.hid)
  BY <1>3 DEF Untouched, Received, Aborted, Outcome, ResponseKept, Transaction
<1> QED
  BY <1>1, <1>2, <1>4, SilentStep

\* A transfer fails.
LEMMA ResetStep ==
    ASSUME TransportInv, ResetTransport
    PROVE  TransportInv'
<1>1. HidSound(hid') /\ Idle(hid')
  BY ResetSound DEF TransportInv, ResetTransport
<1>2. ResponseKept(hid, hid')
  BY <1>1 DEF ResponseKept, Idle
<1> QED
  BY <1>1, <1>2, SilentStep DEF ResetTransport, TransportInv

\* The application answers.
LEMMA ReplyStep ==
    ASSUME TransportInv, NEW payload \in Payloads, SendReply(payload)
    PROVE  TransportInv'
<1>1. payload \in Seq(Data)
  <2>1. PICK n \in 0..MaxMessage + 1, d \in Data : payload = Units(n, d)
    BY DEF Payloads
  <2>2. n \in Nat
    BY BufferAssumption
  <2> QED
    BY <2>1, <2>2, UnitsSeq
<1>2. HidSound(hid) /\ hid.app_request # None /\ hid' = Reply(hid, payload) /\ rx' = rx /\ now' = now
  BY DEF SendReply, TransportInv
<1>3. HidSound(hid') /\ (hid'.transmit # None => hid'.transmit.offset = 0)
  BY <1>1, <1>2, ReplySound
<1> QED
  BY <1>2, <1>3, SilentStep DEF TransportInv, ResponseKept

\* A keepalive is queued; the transaction stays.
LEMMA KeepaliveStep ==
    ASSUME TransportInv, QueueKeepalive
    PROVE  TransportInv' /\ Transaction(hid') = Transaction(hid)
<1>1. HidSound(hid') /\ Transaction(hid') = Transaction(hid)
  BY KeepaliveSound DEF QueueKeepalive, TransportInv
<1> QED
  BY <1>1, SilentStep DEF TransportInv, QueueKeepalive, ResponseKept, Transaction

\* A partial request times out.
LEMMA ExpireStep ==
    ASSUME TransportInv, ExpireReceive
    PROVE  TransportInv'
<1>1. hid' = hid \/ (HidSound(hid') /\ Idle(hid'))
  BY ExpireSound DEF ExpireReceive, TransportInv
<1>2. HidSound(hid') /\ ResponseKept(hid, hid')
  BY <1>1 DEF TransportInv, ResponseKept, Idle
<1> QED
  BY <1>2, SilentStep DEF ExpireReceive, TransportInv

\* The clock wraps.
LEMMA TickStep ==
    ASSUME TransportInv, Tick
    PROVE  TransportInv'
<1>1. now' \in 0..ClockMod - 1
  BY EngineAssumption DEF Tick, TransportInv
<1>2. hid' = hid /\ rx' = rx
  BY DEF Tick
<1> QED
  BY <1>1, <1>2, SilentStep DEF TransportInv, ResponseKept

\* A packet of the response extends what the host holds to what is sent now.
LEMMA HostExtends ==
    ASSUME TransportInv, hid.errors = <<>>, hid.keepalive = None, hid.transmit # None,
           NEW t, t = hid.transmit, NEW r, r = Reassemble(rx, NextPacket(hid))
    PROVE  LET offset == t.offset + TransmitCount(t)
               data == SubSeq(hid.response, 1, offset)
           IN  /\ r = [channel |-> t.channel, length |-> t.length, data |-> data,
                       next_sequence |-> IF t.offset = 0 THEN 0 ELSE t.next_sequence + 1]
               /\ r \in Reassembly
               /\ Len(data) = offset
               /\ offset = t.length => data = hid.response
<1> DEFINE count == TransmitCount(t)
           offset == t.offset + count
           data == SubSeq(hid.response, 1, offset)
           ns == IF t.offset = 0 THEN 0 ELSE t.next_sequence + 1
           whole == [channel |-> t.channel, length |-> t.length, data |-> data,
                     next_sequence |-> ns]
<1>1. HidSound(hid) /\ hid \in HidRec
  BY DEF TransportInv, HidSound
<1>2. t \in TransmitState /\ count \in Nat /\ offset <= t.length
  BY <1>1, TransmitAdvances
<1>3. /\ t.length \in Nat /\ t.length <= MaxMessage /\ t.offset \in Nat /\ t.channel \in Channels
      /\ t.length \in 0..MaxMessage /\ t.next_sequence \in 0..SeqSpace /\ SeqSpace \in Nat
  BY <1>2, BufferAssumption, EngineAssumption DEF TransmitState
<1>4. hid.response \in Seq(Data) /\ Len(hid.response) = t.length
  BY <1>1 DEF HidRec, HidSound, TransmitFits
<1> HIDE DEF count
<1>5. offset \in Nat /\ offset <= Len(hid.response)
  BY <1>2, <1>3, <1>4
<1>6. data \in Seq(Data) /\ Len(data) = offset
  BY <1>4, <1>5, SubSeqProperties
<1>7. offset = t.length => data = hid.response
  BY <1>4, SubSeqFull
<1>8. ns \in 0..SeqSpace
  <2>1. CASE t.offset = 0
    BY <1>3, <2>1
  <2>2. CASE t.offset # 0
    <3>1. InitPayload + t.next_sequence * ContPayload < t.length
      BY <1>1, <2>2 DEF HidSound, TransmitFits
    <3>2. t.next_sequence \in Nat
      BY <1>3
    <3>3. t.next_sequence < SeqSpace
      BY <1>3, <3>1, <3>2, SequenceFits
    <3> QED
      BY <1>3, <2>2, <3>3
  <2> QED
    BY <2>1, <2>2
<1>9. whole \in Reassembly
  <2> HIDE DEF data, ns
  <2> QED
    BY <1>3, <1>6, <1>8 DEF Reassembly
<1>10. r = whole
  <2>1. CASE t.offset = 0
    <3> DEFINE piece == SubSeq(hid.response, 1, count)
               packet == [kind |-> "init", channel |-> t.channel, command |-> t.command,
                          length |-> t.length, data |-> piece]
    <3>1. NextPacket(hid) = packet
      BY <2>1 DEF NextPacket, count
    <3>2. piece = data
      BY <1>2, <2>1
    <3> HIDE DEF piece, data
    <3> QED
      BY <2>1, <3>1, <3>2 DEF Reassemble
  <2>2. CASE t.offset # 0
    <3> DEFINE piece == SubSeq(hid.response, t.offset + 1, t.offset + count)
               held == SubSeq(hid.response, 1, t.offset)
               packet == [kind |-> "cont", channel |-> t.channel, sequence |-> t.next_sequence,
                          data |-> piece]
    <3>1. NextPacket(hid) = packet
      BY <2>2 DEF NextPacket, count
    <3>2. rx = [channel |-> t.channel, length |-> t.length, data |-> held,
                next_sequence |-> t.next_sequence]
      BY <1>3, <2>2 DEF TransportInv, HostFollows
    <3>3. held \in Seq(Data)
      BY <1>4, <1>3, <1>2, <1>5, SubSeqProperties
    <3>4. held \o piece = data
      <4>1. t.offset <= offset
        BY <1>2, <1>3
      <4> HIDE DEF offset
      <4>2. SubSeq(hid.response, 1, t.offset) \o SubSeq(hid.response, t.offset + 1, offset)
              = SubSeq(hid.response, 1, offset)
        BY <1>3, <1>4, <1>5, <4>1, Glue
      <4> QED
        BY <4>2 DEF offset
    <3> HIDE DEF held, piece, data
    <3>5. rx \in Reassembly
      BY <1>3, <3>2, <3>3 DEF Reassembly
    <3>6. rx # None
      BY <3>5, ReassemblyAssumption
    <3>7. r = [rx EXCEPT !.data = @ \o piece, !.next_sequence = @ + 1]
      BY <3>1, <3>2, <3>6 DEF Reassemble
    <3> QED
      BY <2>2, <3>2, <3>4, <3>7
  <2> QED
    BY <2>1, <2>2
<1> QED
  BY <1>6, <1>7, <1>9, <1>10 DEF count

\* An error or a keepalive leaves what the host holds.
LEMMA HostWaits ==
    ASSUME TransportInv, SendPacket,
           hid.errors # <<>> \/ hid.keepalive # None \/ hid.transmit = None
    PROVE  Reassemble(rx, NextPacket(hid)) = rx
<1>1. NextPacket(hid) # None
  BY DEF SendPacket
<1>2. \/ NextPacket(hid) = [kind |-> "error", channel |-> hid.errors[1].channel]
      \/ NextPacket(hid) = [kind |-> "keepalive", channel |-> hid.keepalive]
  BY <1>1 DEF NextPacket
<1>3. NextPacket(hid).kind \in {"error", "keepalive"}
  BY <1>2
<1> QED
  BY <1>3 DEF Reassemble

\* A packet goes out, and the host takes it in.
LEMMA SendStep ==
    ASSUME TransportInv, SendPacket
    PROVE  TransportInv'
<1>1. HidSound(hid) /\ now' = now /\ hid' = PacketSent(hid)
  BY DEF TransportInv, SendPacket
<1>2. PICK r : r = Reassemble(rx, NextPacket(hid)) /\ rx' = IF Complete(r) THEN None ELSE r
  BY DEF SendPacket
<1>3. HidSound(hid')
  BY <1>1, PacketSentSound
<1>4. CASE hid.errors # <<>> \/ hid.keepalive # None \/ hid.transmit = None
  <2>1. Transaction(hid') = Transaction(hid)
    BY <1>1, <1>4, PacketSentSound
  <2>2. r = rx
    BY <1>2, <1>4, HostWaits
  <2>3. hid'.transmit = hid.transmit /\ hid'.response = hid.response
    BY <2>1 DEF Transaction
  <2>4. CASE hid.transmit # None /\ hid.transmit.offset > 0
    <3> DEFINE data == SubSeq(hid.response, 1, hid.transmit.offset)
    <3>1. rx = [channel |-> hid.transmit.channel, length |-> hid.transmit.length,
                data |-> data, next_sequence |-> hid.transmit.next_sequence]
      BY <2>4 DEF TransportInv, HostFollows
    <3>2. /\ hid.response \in Seq(Data) /\ Len(hid.response) = hid.transmit.length
          /\ hid.transmit.offset \in Nat /\ hid.transmit.length \in Nat
          /\ hid.transmit.offset < hid.transmit.length
      <4>1. hid.transmit \in TransmitState
        BY <1>1, <2>4 DEF HidSound, HidRec
      <4>2. hid.transmit.offset \in Nat /\ hid.transmit.length \in Nat
        BY <4>1, BufferAssumption DEF TransmitState
      <4> QED
        BY <1>1, <2>4, <4>2 DEF HidSound, HidRec, TransmitFits
    <3>3. Len(data) = hid.transmit.offset
      BY <3>2, SubSeqProperties
    <3> HIDE DEF data
    <3>4. ~Complete(rx)
      BY <3>1, <3>2, <3>3 DEF Complete
    <3>5. rx' = rx
      BY <1>2, <2>2, <3>4
    <3> QED
      BY <1>1, <1>3, <2>3, <3>5, SilentStep DEF TransportInv, ResponseKept
  <2>5. CASE ~(hid.transmit # None /\ hid.transmit.offset > 0)
    BY <1>1, <1>3, <2>3, <2>5 DEF TransportInv, HostFollows
  <2> QED
    BY <2>4, <2>5
<1>5. CASE hid.errors = <<>> /\ hid.keepalive = None /\ hid.transmit # None
  <2>1. PICK t : t = hid.transmit
    OBVIOUS
  <2> DEFINE offset == t.offset + TransmitCount(t)
             data == SubSeq(hid.response, 1, offset)
  <2>2. /\ r = [channel |-> t.channel, length |-> t.length, data |-> data,
                next_sequence |-> IF t.offset = 0 THEN 0 ELSE t.next_sequence + 1]
        /\ Len(data) = offset
    BY <1>2, <1>5, <2>1, HostExtends
  <2>3. /\ t \in TransmitState /\ offset <= t.length /\ TransmitCount(t) \in Nat
        /\ offset < t.length =>
             /\ Sent(t).channel = t.channel /\ Sent(t).length = t.length /\ Sent(t).offset = offset
             /\ t.offset = 0 => Sent(t).next_sequence = 0
             /\ t.offset > 0 => Sent(t).next_sequence = t.next_sequence + 1
    BY <1>1, <1>5, <2>1, TransmitAdvances
  <2>4. t.offset \in Nat /\ t.length \in Nat
    BY <2>3, BufferAssumption DEF TransmitState
  <2>5. CASE offset >= t.length
    <3>1. hid'.transmit = None
      BY <1>1, <1>5, <2>1, <2>5, PacketSentSound
    <3> QED
      BY <1>1, <1>3, <3>1 DEF TransportInv, HostFollows
  <2>6. CASE ~(offset >= t.length)
    <3>1. hid'.transmit = Sent(t) /\ hid'.response = hid.response
      BY <1>1, <1>5, <2>1, <2>6, PacketSentSound
    <3>2. offset < t.length /\ offset \in Nat
      BY <2>3, <2>4, <2>6
    <3> HIDE DEF offset, data
    <3>3. ~Complete(r)
      BY <2>2, <2>4, <3>2 DEF Complete
    <3>4. rx' = r
      BY <1>2, <3>3
    <3>5. r = [channel |-> Sent(t).channel, length |-> Sent(t).length, data |-> data,
               next_sequence |-> Sent(t).next_sequence]
      <4>1. CASE t.offset = 0
        BY <2>2, <2>3, <3>2, <4>1
      <4>2. CASE t.offset > 0
        BY <2>2, <2>3, <2>4, <3>2, <4>2
      <4> QED
        BY <2>4, <4>1, <4>2
    <3>6. data = SubSeq(hid'.response, 1, Sent(t).offset)
      BY <2>3, <3>1, <3>2 DEF data
    <3>7. HostFollows'
      BY <3>1, <3>4, <3>5, <3>6 DEF HostFollows
    <3> QED
      BY <1>1, <1>3, <3>7 DEF TransportInv
  <2> QED
    BY <2>5, <2>6
<1> QED
  BY <1>4, <1>5

\* A new engine.
LEMMA TransportInit == Init => TransportInv
<1> SUFFICES ASSUME Init PROVE TransportInv
  OBVIOUS
<1>1. /\ <<>> \in Seq(Data) /\ <<>> \in Seq([channel : Channels, error : TransportError])
      /\ RESERVED_CHANNEL \in Channels
  BY EngineAssumption DEF RESERVED_CHANNEL, Channels
<1>2. hid = NewHid /\ now = 0 /\ rx = None
  BY DEF Init
<1>3. hid \in HidRec
  BY <1>1, <1>2 DEF NewHid, HidRec
<1>4. ErrorsFit(hid)
  BY <1>2, EngineAssumption DEF NewHid, ErrorsFit
<1>5. Idle(hid) /\ hid.request = <<>> /\ hid.response = <<>>
  BY <1>2 DEF NewHid, Idle
<1>6. HidSound(hid)
  BY <1>3, <1>4, <1>5, IdleSound
<1>7. now \in 0..ClockMod - 1
  BY <1>2, EngineAssumption
<1> QED
  BY <1>5, <1>6, <1>7 DEF TransportInv, HostFollows, Idle

\* Every step of the transport preserves the invariant.
LEMMA TransportNext == TransportInv /\ [Next]_vars => TransportInv'
<1> SUFFICES ASSUME TransportInv, [Next]_vars PROVE TransportInv'
  OBVIOUS
<1>1. ASSUME NEW p \in Packets, IngestReport(p) PROVE TransportInv'
  BY <1>1, IngestStep
<1>2. CASE ResetTransport
  BY <1>2, ResetStep
<1>3. ASSUME NEW payload \in Payloads, SendReply(payload) PROVE TransportInv'
  BY <1>3, ReplyStep
<1>4. CASE QueueKeepalive
  BY <1>4, KeepaliveStep
<1>5. CASE ExpireReceive
  BY <1>5, ExpireStep
<1>6. CASE SendPacket
  BY <1>6, SendStep
<1>7. CASE Tick
  BY <1>7, TickStep
<1>8. CASE UNCHANGED vars
  BY <1>8 DEF vars, TransportInv, HostFollows
<1> QED
  BY <1>1, <1>2, <1>3, <1>4, <1>5, <1>6, <1>7, <1>8 DEF Next

\* The inductive invariant holds throughout: whatever packets of whatever
\* channels arrive, each buffer, offset and sequence number of the engine agrees
\* with the packets seen and sent, and the host holds what was sent so far.
THEOREM TransportInvariant == Spec => []TransportInv
BY TransportInit, TransportNext, PTL DEF Spec

\* One transaction at a time, on a channel that was handed out (ingest, reply).
THEOREM SingleTransaction == Spec => []OneTransaction
<1>1. TransportInv => OneTransaction
  BY DEF TransportInv, HidSound, ReceiveFits, AppFits, TransmitFits, OneTransaction
<1> QED
  BY <1>1, TransportInvariant, PTL

\* The buffers hold exactly the bytes of the stage that uses them; no length,
\* offset or sequence number leaves its range for any message new() admits.
THEOREM BuffersAreExact == Spec => []BuffersExact
<1>1. TransportInv => BuffersExact
  <2> SUFFICES ASSUME TransportInv PROVE BuffersExact
    OBVIOUS
  <2>1. /\ hid \in HidRec /\ ErrorsFit(hid) /\ ReceiveFits(hid) /\ AppFits(hid)
        /\ TransmitFits(hid) /\ UnusedEmpty(hid) /\ now \in 0..ClockMod - 1
    BY DEF TransportInv, HidSound
  <2>2. TypeOK
    BY <2>1 DEF TypeOK, HidRec, ErrorsFit
  <2>3. hid.receive # None => hid.receive.next_sequence < SeqSpace
    <3> SUFFICES ASSUME hid.receive # None PROVE hid.receive.next_sequence < SeqSpace
      OBVIOUS
    <3>1. hid.receive \in ReceiveState
      BY <2>1 DEF HidRec
    <3>2. hid.receive.next_sequence \in Nat /\ hid.receive.length \in 0..MaxMessage
      BY <3>1, EngineAssumption DEF ReceiveState
    <3>3. InitPayload + hid.receive.next_sequence * ContPayload < hid.receive.length
      BY <2>1 DEF ReceiveFits
    <3> QED
      BY <3>2, <3>3, SequenceFits
  <2>4. hid.transmit # None =>
          /\ hid.transmit.offset < hid.transmit.length \/ hid.transmit.length = 0
          /\ hid.transmit.next_sequence < SeqSpace
    <3> SUFFICES ASSUME hid.transmit # None
                 PROVE  /\ hid.transmit.offset < hid.transmit.length \/ hid.transmit.length = 0
                        /\ hid.transmit.next_sequence < SeqSpace
      OBVIOUS
    <3>1. hid.transmit \in TransmitState
      BY <2>1 DEF HidRec
    <3>2. hid.transmit.next_sequence \in Nat /\ hid.transmit.length \in 0..MaxMessage
      BY <3>1, EngineAssumption DEF TransmitState
    <3>3. CASE hid.transmit.offset = 0 /\ hid.transmit.next_sequence = 0
      BY <3>2, <3>3, EngineAssumption, BufferAssumption
    <3>4. CASE InitPayload + hid.transmit.next_sequence * ContPayload < hid.transmit.length
      BY <2>1, <3>2, <3>4, SequenceFits DEF TransmitFits
    <3> QED
      BY <2>1, <3>3, <3>4 DEF TransmitFits
  <2> QED
    BY <2>1, <2>2, <2>3, <2>4 DEF BuffersExact, ReceiveFits, AppFits, TransmitFits, UnusedEmpty
<1> QED
  BY <1>1, TransportInvariant, PTL

\* A packet on another channel cannot disturb a transaction (ingest).
THEOREM OwnersOnly == Spec => OwnerOnly
<1> DEFINE A == ActiveChannel(hid) # None /\ Transaction(hid') # Transaction(hid) =>
                  \/ \E packet \in Packets :
                        packet.channel = ActiveChannel(hid) /\ IngestReport(packet)
                  \/ ResetTransport \/ SendPacket \/ ExpireReceive
                  \/ \E payload \in Payloads : SendReply(payload)
<1>1. TransportInv /\ [Next]_vars => [A]_vars
  <2> SUFFICES ASSUME TransportInv, Next, ActiveChannel(hid) # None,
                      Transaction(hid') # Transaction(hid)
               PROVE  A
    OBVIOUS
  <2>1. ASSUME NEW p \in Packets, IngestReport(p) PROVE p.channel = ActiveChannel(hid)
    <3> DEFINE r == Ingest(hid, p, now)
    <3>1. hid' = r.hid
      BY <2>1 DEF IngestReport, IngestWithInterruption
    <3>2. HidSound(hid) /\ now \in 0..ClockMod - 1 /\ Report(p)
      BY PacketsAreReports DEF TransportInv
    <3>3. Untouched(hid, p, r) \/ Received(hid, p, r) \/ Aborted(hid, p, r)
      BY <3>2, IngestSound
    <3> HIDE DEF r
    <3>4. ~Idle(hid)
      BY <3>2, ActiveOwner
    <3> QED
      BY <3>1, <3>3, <3>4 DEF Untouched, Received, Aborted
  <2>2. CASE QueueKeepalive
    BY <2>2, KeepaliveStep
  <2>3. CASE Tick
    BY <2>3 DEF Tick
  <2> QED
    BY <2>1, <2>2, <2>3 DEF Next
<1> QED
  BY <1>1, TransportInvariant, PTL DEF Spec, OwnerOnly

\* A host that follows the sequence numbers ends up with the response the
\* device meant to send, whatever was sent in between (next_packet, packet_sent).
THEOREM ResponsesArrive == Spec => ResponseDelivered
<1> DEFINE A == hid.transmit # None /\ hid'.transmit = None /\ SendPacket =>
                  LET r == Reassemble(rx, NextPacket(hid))
                  IN  r # None /\ Complete(r) /\ r.data = hid.response
<1>1. TransportInv => A
  <2> SUFFICES ASSUME TransportInv, hid.transmit # None, hid'.transmit = None, SendPacket,
                      NEW r, r = Reassemble(rx, NextPacket(hid))
               PROVE  r # None /\ Complete(r) /\ r.data = hid.response
    OBVIOUS
  <2>1. HidSound(hid) /\ hid' = PacketSent(hid)
    BY DEF TransportInv, SendPacket
  <2>2. hid.errors = <<>> /\ hid.keepalive = None
    <3> SUFFICES ASSUME hid.errors # <<>> \/ hid.keepalive # None PROVE FALSE
      OBVIOUS
    <3>1. Transaction(hid') = Transaction(hid)
      BY <2>1, PacketSentSound
    <3> QED
      BY <3>1 DEF Transaction
  <2>3. PICK t : t = hid.transmit
    OBVIOUS
  <2> DEFINE offset == t.offset + TransmitCount(t)
             data == SubSeq(hid.response, 1, offset)
  <2>4. /\ r = [channel |-> t.channel, length |-> t.length, data |-> data,
                next_sequence |-> IF t.offset = 0 THEN 0 ELSE t.next_sequence + 1]
        /\ r \in Reassembly /\ Len(data) = offset /\ (offset = t.length => data = hid.response)
    BY <2>2, <2>3, HostExtends
  <2>5. /\ t \in TransmitState /\ offset <= t.length /\ TransmitCount(t) \in Nat
        /\ offset < t.length => Sent(t) \in TransmitState
    BY <2>1, <2>3, TransmitAdvances
  <2>6. t.offset \in Nat /\ t.length \in Nat
    BY <2>5, BufferAssumption DEF TransmitState
  <2>7. offset = t.length
    <3>1. CASE offset >= t.length
      BY <2>5, <2>6, <3>1
    <3>2. CASE ~(offset >= t.length)
      <4>1. hid'.transmit = Sent(t)
        BY <2>1, <2>2, <2>3, <3>2, PacketSentSound
      <4>2. Sent(t) # None
        BY <2>5, <2>6, <3>2, NoneDistinct
      <4> QED
        BY <4>1, <4>2
    <3> QED
      BY <3>1, <3>2
  <2> HIDE DEF offset, data
  <2>8. r # None
    BY <2>4, ReassemblyAssumption
  <2> QED
    BY <2>4, <2>7, <2>8 DEF Complete
<1>2. TransportInv /\ [Next]_vars => [A]_vars
  BY <1>1
<1> QED
  BY <1>2, TransportInvariant, PTL DEF Spec, ResponseDelivered

-----------------------------------------------------------------------------
(* The request loop around the engine. *)

\* A keepalive is for the request in work or for the response that follows it.
KeepaliveFits(h) ==
    h.keepalive # None =>
      \/ h.app_request # None /\ h.app_request.channel = h.keepalive
      \/ h.transmit # None /\ h.transmit.channel = h.keepalive /\ h.transmit.offset = 0

\* The engine's request is the one in work, or it was taken back.
InWork ==
    pc # "poll" =>
      /\ hid.app_request = None => withdrawn
      /\ hid.app_request # None =>
           /\ hid.app_request.channel = work.channel
           /\ hid.app_request.command = work.command
           /\ hid.request = work.request

\* What is known at each place of the loop.  A withdrawal and the two flags that
\* end a wait come in the same poll; a wait of confirm is left in that poll, one
\* of Trussed before the next.
Places ==
    /\ pc = "poll" => hid.app_request = None /\ ~withdrawn
    /\ pc \in {"poll", "cbor", "vendor", "consent", "updateWait", "maintenanceWait"} => ~consent
    /\ pc \in {"cbor", "vendor", "act"} => ~withdrawn
    /\ pc \in {"updateWait", "maintenanceWait", "qualify"} => ~withdrawn /\ ~presence_cancelled
    /\ pc = "consent" =>
         /\ withdrawn <=> presence_cancelled
         /\ withdrawn <=> interrupt = "Interrupted"
    /\ consent => ~withdrawn

\* The interrupt flag belongs to a CBOR request in work.
FlagOwned ==
    /\ interrupt \in {"Idle", "Working", "Interrupted"}
    /\ pc \in {"cbor", "consent"} => interrupt # "Idle"
    /\ interrupt # "Idle" => work.command = "Cbor" /\ pc \in {"cbor", "consent", "reply"}
    /\ interrupt = "Interrupted" => withdrawn

\* The inductive invariant of the loop.
LoopInv ==
    /\ HidSound(hid) /\ KeepaliveFits(hid)
    /\ pc \in {"poll", "cbor", "vendor", "consent", "updateWait", "maintenanceWait",
               "qualify", "act", "reply"}
    /\ presence_cancelled \in BOOLEAN /\ consent \in BOOLEAN /\ withdrawn \in BOOLEAN
    /\ InWork
    /\ Places
    /\ FlagOwned

\* What a poll may do to the request the application works on: nothing, or drop
\* it; the poll counts as an interruption exactly if it dropped the request or
\* brought its CANCEL.  Without one, it announces the request it completes.
PollOutcome(h, report, r) ==
    /\ r = [hid |-> r.hid, event |-> r.event, interrupted |-> r.interrupted]
    /\ HidSound(r.hid) /\ KeepaliveFits(r.hid) /\ r.interrupted \in BOOLEAN
    /\ h.app_request # None =>
         \/ /\ r.hid.app_request = h.app_request /\ r.hid.request = h.request
            /\ r.interrupted <=> IsCancel(report, h.app_request.channel)
         \/ r.hid.app_request = None /\ r.interrupted
    /\ h.app_request = None =>
         IF r.hid.app_request = None THEN r.event.kind \notin {"Cbor", "Update"}
         ELSE /\ r.event.kind \in {"Cbor", "Update"}
              /\ r.event.kind = r.hid.app_request.command
              /\ r.event.channel = r.hid.app_request.channel

\* ingest_with_interruption, as a poll sees it.
LEMMA IngestOutcome ==
    ASSUME NEW h, HidSound(h), KeepaliveFits(h), NEW p, Report(p), NEW t \in 0..ClockMod - 1
    PROVE  PollOutcome(h, p, IngestWithInterruption(h, p, t))
<1> DEFINE r == Ingest(h, p, t)
           i == IngestWithInterruption(h, p, t)
<1>1. /\ i = [hid |-> r.hid, event |-> r.event, interrupted |-> i.interrupted]
      /\ i.interrupted \in BOOLEAN
      /\ i.interrupted <=> \/ h.app_request # None /\ r.hid.app_request = None
                           \/ r.event.kind = "Cancelled"
  BY DEF IngestWithInterruption
<1>2. i.hid = r.hid /\ i.event = r.event
  BY DEF IngestWithInterruption
<1>3. Untouched(h, p, r) \/ Received(h, p, r) \/ Aborted(h, p, r)
  BY IngestSound
<1>4. NoEvent.kind = "None"
  BY DEF NoEvent
<1>5. h.app_request # None => h.transmit = None
  BY DEF HidSound, AppFits
<1> HIDE DEF r, i
<1>6. CASE Untouched(h, p, r)
  <2>1. /\ r.hid.app_request = h.app_request /\ r.hid.request = h.request
        /\ r.hid.transmit = h.transmit /\ HidSound(r.hid)
        /\ r.hid.keepalive = h.keepalive \/ r.hid.keepalive = None
    BY <1>6 DEF Untouched, Transaction
  <2>2. KeepaliveFits(r.hid)
    BY <2>1 DEF KeepaliveFits
  <2>3. \/ r.event = NoEvent /\ ~(h.app_request # None /\ IsCancel(p, h.app_request.channel))
        \/ /\ h.app_request # None /\ IsCancel(p, h.app_request.channel)
           /\ r.event = [kind |-> "Cancelled", channel |-> p.channel]
    BY <1>6 DEF Untouched
  <2>4. \/ r.event.kind = "None" /\ ~(h.app_request # None /\ IsCancel(p, h.app_request.channel))
        \/ /\ h.app_request # None /\ IsCancel(p, h.app_request.channel)
           /\ r.event.kind = "Cancelled"
    BY <1>4, <2>3
  <2> QED
    BY <1>1, <1>2, <2>1, <2>2, <2>4 DEF PollOutcome, i
<1>7. CASE Received(h, p, r)
  <2>1. h.app_request = None /\ h.transmit = None /\ Outcome(h, r)
    BY <1>7 DEF Received
  <2>2. h.keepalive = None
    BY <2>1 DEF KeepaliveFits
  <2>3. HidSound(r.hid) /\ KeepaliveFits(r.hid)
    BY <2>1, <2>2 DEF Outcome, KeepaliveFits
  <2>4. IF r.hid.app_request = None THEN r.event.kind = "None"
        ELSE /\ r.event.kind \in {"Cbor", "Update"}
             /\ r.event.kind = r.hid.app_request.command
             /\ r.event.channel = r.hid.app_request.channel
    BY <1>4, <2>1 DEF Outcome
  <2> QED
    BY <1>1, <1>2, <2>1, <2>3, <2>4 DEF PollOutcome, i
<1>8. CASE Aborted(h, p, r)
  <2>1. Outcome(AbortTransaction(h), r) /\ r.hid.app_request = None
    BY <1>8 DEF Aborted
  <2>2. AbortTransaction(h).keepalive = None
    BY AbortSound
  <2>3. HidSound(r.hid) /\ r.hid.keepalive = None /\ r.event.kind = "None"
    BY <1>4, <2>1, <2>2 DEF Outcome
  <2>4. KeepaliveFits(r.hid)
    BY <2>3 DEF KeepaliveFits
  <2> QED
    BY <1>1, <1>2, <2>1, <2>3, <2>4 DEF PollOutcome, i
<1> QED
  BY <1>3, <1>6, <1>7, <1>8

\* The rest of a poll does not touch the application's request.
LEMMA PollGoesOn ==
    ASSUME NEW h, NEW report, NEW x, PollOutcome(h, report, x),
           NEW g, HidSound(g), KeepaliveFits(g), g.app_request = x.hid.app_request,
           g.app_request # None => g.request = x.hid.request
    PROVE  PollOutcome(h, report, [x EXCEPT !.hid = g])
<1> DEFINE y == [hid |-> g, event |-> x.event, interrupted |-> x.interrupted]
<1>1. x = [hid |-> x.hid, event |-> x.event, interrupted |-> x.interrupted]
  BY DEF PollOutcome
<1>2. [x EXCEPT !.hid = g] = y
  BY <1>1
<1>3. y.hid = g /\ y.event = x.event /\ y.interrupted = x.interrupted
  OBVIOUS
<1>4. y = [hid |-> y.hid, event |-> y.event, interrupted |-> y.interrupted]
  OBVIOUS
<1> HIDE DEF y
<1>5. PollOutcome(h, report, y)
  BY <1>3, <1>4 DEF PollOutcome
<1> QED
  BY <1>2, <1>5

\* expire leaves the request in work.
LEMMA ExpireKeeps ==
    ASSUME NEW h, HidSound(h), KeepaliveFits(h), NEW t
    PROVE  /\ HidSound(Expire(h, t)) /\ KeepaliveFits(Expire(h, t))
           /\ Expire(h, t).app_request = h.app_request
           /\ Expire(h, t).app_request # None => Expire(h, t).request = h.request
<1> DEFINE g == Expire(h, t)
<1>1. \/ g = h
      \/ h.receive # None /\ HidSound(g) /\ Idle(g) /\ g.keepalive = h.keepalive
  BY ExpireSound
<1> HIDE DEF g
<1>2. CASE g = h
  BY <1>2 DEF g
<1>3. CASE h.receive # None /\ HidSound(g) /\ Idle(g) /\ g.keepalive = h.keepalive
  <2>1. h.app_request = None /\ h.transmit = None
    BY <1>3 DEF HidSound, ReceiveFits
  <2>2. g.keepalive = None
    BY <1>3, <2>1 DEF KeepaliveFits
  <2> QED
    BY <1>3, <2>1, <2>2 DEF KeepaliveFits, Idle, g
<1> QED
  BY <1>1, <1>2, <1>3

\* packet_sent leaves the request in work, and sends a keepalive before the
\* response it belongs to.
LEMMA SentKeeps ==
    ASSUME NEW h, HidSound(h), KeepaliveFits(h)
    PROVE  /\ HidSound(PacketSent(h)) /\ KeepaliveFits(PacketSent(h))
           /\ PacketSent(h).app_request = h.app_request
           /\ PacketSent(h).request = h.request
<1> DEFINE g == PacketSent(h)
<1>1. /\ HidSound(g) /\ g.request = h.request /\ g.app_request = h.app_request
      /\ g.keepalive # None => g.keepalive = h.keepalive /\ g.transmit = h.transmit
  BY PacketSentSound
<1> HIDE DEF g
<1>2. KeepaliveFits(g)
  BY <1>1 DEF KeepaliveFits
<1> QED
  BY <1>1, <1>2 DEF g

\* A failed transfer drops everything and interrupts.
LEMMA ResetOutcome ==
    ASSUME NEW h, NEW report, NEW x, HidSound(x)
    PROVE  PollOutcome(h, report, [hid |-> TransportErrorReset(x), event |-> NoEvent,
                                   interrupted |-> TRUE])
<1> DEFINE g == TransportErrorReset(x)
           y == [hid |-> g, event |-> NoEvent, interrupted |-> TRUE]
<1>1. HidSound(g) /\ Idle(g) /\ g.keepalive = None
  BY ResetSound
<1> HIDE DEF g
<1>2. /\ y.hid = g /\ y.event.kind = "None" /\ y.interrupted = TRUE
      /\ y = [hid |-> y.hid, event |-> y.event, interrupted |-> y.interrupted]
  BY DEF NoEvent
<1> HIDE DEF y
<1>3. PollOutcome(h, report, y)
  BY <1>1, <1>2 DEF PollOutcome, KeepaliveFits, Idle
<1> QED
  BY <1>3 DEF y, g

\* poll_at: a report in, expiry, a packet out.
LEMMA PollSound ==
    ASSUME NEW h, HidSound(h), KeepaliveFits(h), NEW p \in Polls
    PROVE  PollOutcome(h, p.report, PollAt(h, p))
<1> DEFINE reset == [hid |-> TransportErrorReset(h), event |-> NoEvent, interrupted |-> TRUE]
           got == CASE p.report = Quiet -> [hid |-> h, event |-> NoEvent, interrupted |-> FALSE]
                    [] p.report = Broken -> reset
                    [] OTHER -> IngestWithInterruption(h, p.report, p.now)
           out == Expire(got.hid, p.now)
           r == PollAt(h, p)
<1>1. /\ p.report \in Reports \/ p.report = Quiet \/ p.report = Broken
      /\ p.now \in 0..ClockMod - 1
      /\ p.send \in {"Ok", "WouldBlock", "Err"}
  BY DEF Polls
<1>2. PollOutcome(h, p.report, got)
  <2>1. CASE p.report = Quiet
    <3> DEFINE y == [hid |-> h, event |-> NoEvent, interrupted |-> FALSE]
    <3>1. got = y
      BY <2>1 DEF Quiet, Broken
    <3>2. /\ y.hid = h /\ y.event.kind = "None" /\ y.interrupted = FALSE
          /\ y = [hid |-> y.hid, event |-> y.event, interrupted |-> y.interrupted]
      BY DEF NoEvent
    <3>3. \A c : ~IsCancel(p.report, c)
      BY <2>1 DEF IsCancel, Quiet
    <3> HIDE DEF y
    <3>4. PollOutcome(h, p.report, y)
      BY <3>2, <3>3 DEF PollOutcome
    <3> HIDE DEF got
    <3> QED
      BY <3>1, <3>4
  <2>2. CASE p.report = Broken
    <3>1. got = reset
      BY <2>2 DEF Quiet, Broken
    <3>2. PollOutcome(h, p.report, reset)
      BY ResetOutcome
    <3> HIDE DEF got, reset
    <3> QED
      BY <3>1, <3>2
  <2>3. CASE p.report \in Reports
    <3>1. Report(p.report)
      <4>1. CASE p.report \in [kind : {"init"}, channel : HostChannels, command : HostCommands,
                               length : 0..MaxMessage, datum : Data]
        <5>1. p.report.length \in Nat
          BY <4>1, BufferAssumption
        <5> QED
          BY <4>1, <5>1, HostAssumption DEF Report
      <4>2. CASE p.report \in [kind : {"cont"}, channel : HostChannels,
                               sequence : 0..SeqSpace - 1, datum : Data]
        BY <4>2, HostAssumption DEF Report
      <4> QED
        BY <2>3, <4>1, <4>2 DEF Reports
    <3>2. p.report # Quiet /\ p.report # Broken
      BY <3>1 DEF Report, Quiet, Broken
    <3>3. got = IngestWithInterruption(h, p.report, p.now)
      BY <3>2
    <3> HIDE DEF got
    <3> QED
      BY <1>1, <3>1, <3>3, IngestOutcome
  <2> QED
    BY <1>1, <2>1, <2>2, <2>3
<1>3. r = IF NextPacket(out) = None \/ p.send = "WouldBlock"
          THEN [got EXCEPT !.hid = out]
          ELSE IF p.send = "Ok"
          THEN [got EXCEPT !.hid = PacketSent(out)]
          ELSE [reset EXCEPT !.hid = TransportErrorReset(out)]
  BY DEF PollAt
<1>4. HidSound(got.hid) /\ KeepaliveFits(got.hid)
  BY <1>2 DEF PollOutcome
<1>5. PollOutcome(h, p.report, reset) /\ reset.hid.app_request = None
  <2>1. reset.hid = TransportErrorReset(h)
    OBVIOUS
  <2> QED
    BY <2>1, ResetOutcome, ResetSound DEF Idle
<1> HIDE DEF got, reset
<1>6. /\ HidSound(out) /\ KeepaliveFits(out) /\ out.app_request = got.hid.app_request
      /\ out.app_request # None => out.request = got.hid.request
  BY <1>4, ExpireKeeps
<1> HIDE DEF out
<1>7. /\ HidSound(PacketSent(out)) /\ KeepaliveFits(PacketSent(out))
      /\ PacketSent(out).app_request = out.app_request
      /\ PacketSent(out).request = out.request
  BY <1>6, SentKeeps
<1> HIDE DEF r
<1>8. PollOutcome(h, p.report, [got EXCEPT !.hid = out])
  BY <1>2, <1>6, PollGoesOn
<1>9. PollOutcome(h, p.report, [got EXCEPT !.hid = PacketSent(out)])
  BY <1>2, <1>6, <1>7, PollGoesOn
<1>10. PollOutcome(h, p.report, [reset EXCEPT !.hid = TransportErrorReset(out)])
  <2>1. /\ HidSound(TransportErrorReset(out)) /\ TransportErrorReset(out).keepalive = None
        /\ TransportErrorReset(out).app_request = None
    BY <1>6, ResetSound DEF Idle
  <2>2. KeepaliveFits(TransportErrorReset(out))
    BY <2>1 DEF KeepaliveFits
  <2> QED
    BY <1>5, <2>1, <2>2, PollGoesOn
<1>11. PollOutcome(h, p.report, r)
  BY <1>3, <1>8, <1>9, <1>10
<1> QED
  BY <1>11 DEF r

\* The places whose steps poll while a request is in work.
Polling == {"consent", "updateWait", "maintenanceWait", "qualify"}

\* One poll of a wait that has not been ended.
LEMMA WaitPoll ==
    ASSUME LoopInv, pc \in Polling, ~withdrawn, ~presence_cancelled,
           NEW p \in Polls, NEW due \in BOOLEAN, PollWaiting(p, due)
    PROVE  /\ HidSound(hid') /\ KeepaliveFits(hid')
           /\ presence_cancelled' \in BOOLEAN /\ withdrawn' \in BOOLEAN
           /\ withdrawn' <=> presence_cancelled'
           /\ interrupt' = IF withdrawn' THEN Interrupt(interrupt) ELSE interrupt
           /\ hid.app_request # None
           /\ hid.app_request.channel = work.channel
           /\ hid.app_request.command = work.command
           /\ hid.request = work.request
           /\ \/ hid'.app_request = None /\ withdrawn'
              \/ hid'.app_request = hid.app_request /\ hid'.request = hid.request
<1>1. PICK h : h = IF due THEN Keepalive(hid) ELSE hid
  OBVIOUS
<1>2. /\ hid.app_request # None /\ hid.app_request.channel = work.channel
      /\ hid.app_request.command = work.command /\ hid.request = work.request
  BY DEF LoopInv, InWork, Polling
<1>3. HidSound(hid) /\ KeepaliveFits(hid)
  BY DEF LoopInv
<1>4. HidSound(h) /\ KeepaliveFits(h) /\ h.app_request = hid.app_request /\ h.request = hid.request
  <2>1. CASE due
    <3>1. h = Keepalive(hid)
      BY <1>1, <2>1
    <3>2. /\ HidSound(h) /\ Transaction(h) = Transaction(hid)
          /\ h.keepalive = hid.app_request.channel
      BY <1>2, <1>3, <3>1, KeepaliveSound
    <3>3. h.app_request = hid.app_request /\ h.request = hid.request
      BY <3>2 DEF Transaction
    <3> QED
      BY <1>2, <3>2, <3>3 DEF KeepaliveFits
  <2>2. CASE ~due
    BY <1>1, <1>3, <2>2
  <2> QED
    BY <2>1, <2>2
<1>5. PICK r : r = PollAt(h, p)
  OBVIOUS
<1>6. /\ hid' = r.hid
      /\ presence_cancelled' = (presence_cancelled \/ r.interrupted)
      /\ interrupt' = IF r.interrupted THEN Interrupt(interrupt) ELSE interrupt
      /\ withdrawn' = (withdrawn \/ Withdraws(p.report, r.hid))
  BY <1>1, <1>5 DEF PollWaiting
<1>7. PollOutcome(h, p.report, r)
  BY <1>4, <1>5, PollSound
<1>8. /\ HidSound(r.hid) /\ KeepaliveFits(r.hid) /\ r.interrupted \in BOOLEAN
      /\ \/ /\ r.hid.app_request = hid.app_request /\ r.hid.request = hid.request
            /\ r.interrupted <=> IsCancel(p.report, work.channel)
         \/ r.hid.app_request = None /\ r.interrupted
  BY <1>2, <1>4, <1>7 DEF PollOutcome
<1>9. Withdraws(p.report, r.hid) <=> r.interrupted
  BY <1>2, <1>8 DEF Withdraws, IsCancel
<1>10. presence_cancelled' = r.interrupted /\ withdrawn' = r.interrupted
  <2>1. presence_cancelled \in BOOLEAN /\ withdrawn \in BOOLEAN
    BY DEF LoopInv
  <2>2. Withdraws(p.report, r.hid) \in BOOLEAN
    BY DEF Withdraws
  <2> QED
    BY <1>6, <1>8, <1>9, <2>1, <2>2
<1> QED
  BY <1>2, <1>6, <1>8, <1>10

\* The loop starts with a new engine.
LEMMA LoopInit == RuntimeInit => LoopInv
<1> SUFFICES ASSUME RuntimeInit PROVE LoopInv
  OBVIOUS
<1>1. /\ <<>> \in Seq(Data) /\ <<>> \in Seq([channel : Channels, error : TransportError])
      /\ RESERVED_CHANNEL \in Channels
  BY EngineAssumption DEF RESERVED_CHANNEL, Channels
<1>2. hid = NewHid
  BY DEF RuntimeInit
<1>3. hid \in HidRec
  BY <1>1, <1>2 DEF NewHid, HidRec
<1>4. ErrorsFit(hid)
  BY <1>2, EngineAssumption DEF NewHid, ErrorsFit
<1>5. Idle(hid) /\ hid.request = <<>> /\ hid.response = <<>> /\ hid.keepalive = None
  BY <1>2 DEF NewHid, Idle
<1>6. HidSound(hid) /\ KeepaliveFits(hid)
  BY <1>3, <1>4, <1>5, IdleSound DEF KeepaliveFits
<1> QED
  BY <1>5, <1>6 DEF RuntimeInit, LoopInv, Idle, InWork, Places, FlagOwned

\* A turn of the loop, with or without a new request.
LEMMA MainLoopStep ==
    ASSUME LoopInv, NEW p \in Polls, MainLoop(p)
    PROVE  LoopInv'
<1>1. PICK r : r = PollAt(hid, p)
  OBVIOUS
<1> DEFINE e == r.event.kind
<1>2. /\ pc = "poll" /\ hid' = r.hid
      /\ presence_cancelled' = (presence_cancelled \/ r.interrupted)
      /\ interrupt' = IF e = "Cbor" THEN "Working"
                      ELSE IF r.interrupted THEN Interrupt(interrupt) ELSE interrupt
      /\ pc' = CASE e = "Cbor" -> "cbor" [] e = "Update" -> "vendor" [] OTHER -> "poll"
      /\ work' = IF e \in {"Cbor", "Update"}
                 THEN [request |-> r.hid.request, command |-> e, channel |-> r.event.channel]
                 ELSE None
      /\ consent' = consent /\ withdrawn' = withdrawn
  BY <1>1 DEF MainLoop
<1>3. /\ hid.app_request = None /\ ~withdrawn /\ ~consent /\ interrupt = "Idle"
      /\ HidSound(hid) /\ KeepaliveFits(hid)
  BY <1>2 DEF LoopInv, Places, FlagOwned
<1>4. PollOutcome(hid, p.report, r)
  BY <1>1, <1>3, PollSound
<1>5. /\ HidSound(hid') /\ KeepaliveFits(hid') /\ r.interrupted \in BOOLEAN
      /\ IF r.hid.app_request = None THEN e \notin {"Cbor", "Update"}
         ELSE /\ e \in {"Cbor", "Update"} /\ e = r.hid.app_request.command
              /\ r.event.channel = r.hid.app_request.channel
  BY <1>2, <1>3, <1>4 DEF PollOutcome
<1>6. /\ presence_cancelled' \in BOOLEAN /\ consent' \in BOOLEAN /\ withdrawn' \in BOOLEAN
  BY <1>2, <1>5 DEF LoopInv
<1>7. Interrupt(interrupt) = "Idle"
  BY <1>3 DEF Interrupt
<1> HIDE DEF e
<1>8. CASE e \notin {"Cbor", "Update"}
  <2>1. pc' = "poll" /\ interrupt' = "Idle" /\ hid'.app_request = None
    BY <1>2, <1>3, <1>5, <1>7, <1>8
  <2> QED
    BY <1>2, <1>3, <1>5, <1>6, <2>1 DEF LoopInv, InWork, Places, FlagOwned
<1>9. CASE e \in {"Cbor", "Update"}
  <2>1. /\ hid'.app_request # None /\ work'.channel = hid'.app_request.channel
        /\ work'.command = e /\ work'.command = hid'.app_request.command
        /\ work'.request = hid'.request
    BY <1>2, <1>5, <1>9
  <2>2. \/ e = "Cbor" /\ pc' = "cbor" /\ interrupt' = "Working"
        \/ e = "Update" /\ pc' = "vendor" /\ interrupt' = "Idle"
    BY <1>2, <1>3, <1>7, <1>9
  <2> QED
    BY <1>2, <1>3, <1>5, <1>6, <2>1, <2>2 DEF LoopInv, InWork, Places, FlagOwned
<1> QED
  BY <1>8, <1>9

\* A wait starts with a clean flag: nothing was withdrawn before it.
LEMMA BeginWaitStep ==
    ASSUME LoopInv,
           \/ BeginWait("cbor", "consent")
           \/ BeginWait("vendor", "updateWait")
           \/ BeginWait("vendor", "maintenanceWait")
    PROVE  LoopInv'
<1>1. /\ presence_cancelled' = FALSE
      /\ UNCHANGED <<hid, interrupt, work, consent, withdrawn>>
      /\ \/ pc = "cbor" /\ pc' = "consent"
         \/ pc = "vendor" /\ pc' \in {"updateWait", "maintenanceWait"}
  BY DEF BeginWait
<1>2. ~withdrawn /\ ~consent
  BY <1>1 DEF LoopInv, Places
<1>3. InWork' /\ Places'
  BY <1>1, <1>2 DEF LoopInv, InWork, Places, FlagOwned
<1>4. FlagOwned'
  BY <1>1, <1>2 DEF LoopInv, FlagOwned
<1> QED
  BY <1>1, <1>3, <1>4 DEF LoopInv

\* A turn of the wait of Trussed.
LEMMA ConsentStep ==
    ASSUME LoopInv, NEW p \in Polls, NEW due \in BOOLEAN, ConsentWait(p, due)
    PROVE  LoopInv'
<1>1. /\ pc = "consent" /\ interrupt # "Interrupted" /\ PollWaiting(p, due) /\ work' = work
      /\ \/ pc' = pc /\ consent' = consent
         \/ ~presence_cancelled' /\ consent' = TRUE /\ pc' = "reply"
         \/ consent' = consent /\ pc' = "reply"
  BY DEF ConsentWait
<1>2. ~withdrawn /\ ~presence_cancelled /\ interrupt = "Working" /\ work.command = "Cbor" /\ ~consent
  BY <1>1 DEF LoopInv, Places, FlagOwned
<1>3. /\ HidSound(hid') /\ KeepaliveFits(hid')
      /\ presence_cancelled' \in BOOLEAN /\ withdrawn' \in BOOLEAN
      /\ withdrawn' <=> presence_cancelled'
      /\ interrupt' = IF withdrawn' THEN Interrupt(interrupt) ELSE interrupt
      /\ hid.app_request # None
      /\ hid.app_request.channel = work.channel /\ hid.app_request.command = work.command
      /\ hid.request = work.request
      /\ \/ hid'.app_request = None /\ withdrawn'
         \/ hid'.app_request = hid.app_request /\ hid'.request = hid.request
  BY <1>1, <1>2, WaitPoll DEF Polling
<1>4. interrupt' = IF withdrawn' THEN "Interrupted" ELSE "Working"
  BY <1>2, <1>3 DEF Interrupt
<1>5. InWork'
  BY <1>1, <1>3 DEF InWork
<1>6. consent' \in BOOLEAN /\ (consent' => ~withdrawn') /\ (pc' = "consent" => ~consent')
  <2>1. consent = FALSE
    BY <1>2 DEF LoopInv
  <2>2. \/ pc' = "consent" /\ consent' = FALSE
        \/ ~withdrawn' /\ consent' = TRUE /\ pc' = "reply"
        \/ consent' = FALSE /\ pc' = "reply"
    BY <1>1, <1>3, <2>1
  <2> QED
    BY <2>2
<1>7. Places'
  BY <1>1, <1>3, <1>4, <1>6 DEF Places
<1>8. FlagOwned'
  BY <1>1, <1>2, <1>4 DEF FlagOwned
<1> QED
  BY <1>1, <1>3, <1>5, <1>6, <1>7, <1>8 DEF LoopInv

\* A turn of confirm.
LEMMA ConfirmStep ==
    ASSUME LoopInv, NEW p \in Polls, NEW due \in BOOLEAN, Confirm(p, due)
    PROVE  LoopInv'
<1>1. /\ pc \in {"updateWait", "maintenanceWait"} /\ PollWaiting(p, due) /\ work' = work
      /\ \/ ~presence_cancelled' /\ pc' = pc /\ consent' = consent
         \/ ~presence_cancelled' /\ consent' = TRUE /\ pc' \in {"act", "qualify"}
         \/ consent' = consent /\ pc' = "reply"
  BY DEF Confirm
<1>2. ~withdrawn /\ ~presence_cancelled /\ interrupt = "Idle" /\ ~consent
  BY <1>1 DEF LoopInv, Places, FlagOwned
<1>3. /\ HidSound(hid') /\ KeepaliveFits(hid')
      /\ presence_cancelled' \in BOOLEAN /\ withdrawn' \in BOOLEAN
      /\ withdrawn' <=> presence_cancelled'
      /\ interrupt' = IF withdrawn' THEN Interrupt(interrupt) ELSE interrupt
      /\ hid.app_request # None
      /\ hid.app_request.channel = work.channel /\ hid.app_request.command = work.command
      /\ hid.request = work.request
      /\ \/ hid'.app_request = None /\ withdrawn'
         \/ hid'.app_request = hid.app_request /\ hid'.request = hid.request
  BY <1>1, <1>2, WaitPoll DEF Polling
<1>4. interrupt' = "Idle"
  BY <1>2, <1>3 DEF Interrupt
<1>5. InWork'
  BY <1>1, <1>3 DEF InWork
<1>6. consent' \in BOOLEAN /\ (consent' => ~withdrawn') /\ (pc' = pc => ~consent')
  <2>1. consent = FALSE
    BY <1>2 DEF LoopInv
  <2>2. \/ pc' = pc /\ consent' = FALSE
        \/ ~withdrawn' /\ consent' = TRUE /\ pc' # pc
        \/ consent' = FALSE
    BY <1>1, <1>3, <2>1
  <2> QED
    BY <2>2
<1>7. Places'
  BY <1>1, <1>2, <1>3, <1>6 DEF Places
<1>8. FlagOwned'
  BY <1>1, <1>4 DEF FlagOwned
<1> QED
  BY <1>1, <1>3, <1>5, <1>6, <1>7, <1>8 DEF LoopInv

\* The second qualification and the last poll before a burn.
LEMMA RequalifyStep ==
    ASSUME LoopInv, NEW p \in Polls, NEW due \in BOOLEAN, Requalify(p, due)
    PROVE  LoopInv'
<1>1. pc = "qualify" /\ work' = work
  BY DEF Requalify
<1>2. ~withdrawn /\ ~presence_cancelled /\ interrupt = "Idle"
  BY <1>1 DEF LoopInv, Places, FlagOwned
<1>3. CASE /\ pc' = "reply" /\ consent' = FALSE
           /\ UNCHANGED <<hid, presence_cancelled, interrupt, withdrawn>>
  <2>1. InWork' /\ Places'
    BY <1>1, <1>3 DEF LoopInv, InWork, Places
  <2> QED
    BY <1>1, <1>2, <1>3, <2>1 DEF LoopInv, FlagOwned
<1>4. CASE /\ PollWaiting(p, due) /\ consent' = ~presence_cancelled'
           /\ pc' = IF consent' THEN "act" ELSE "reply"
  <2>1. /\ HidSound(hid') /\ KeepaliveFits(hid')
        /\ presence_cancelled' \in BOOLEAN /\ withdrawn' \in BOOLEAN
        /\ withdrawn' <=> presence_cancelled'
        /\ interrupt' = IF withdrawn' THEN Interrupt(interrupt) ELSE interrupt
        /\ hid.app_request # None
        /\ hid.app_request.channel = work.channel /\ hid.app_request.command = work.command
        /\ hid.request = work.request
        /\ \/ hid'.app_request = None /\ withdrawn'
           \/ hid'.app_request = hid.app_request /\ hid'.request = hid.request
    BY <1>1, <1>2, <1>4, WaitPoll DEF Polling
  <2>2. interrupt' = "Idle"
    BY <1>2, <2>1 DEF Interrupt
  <2>3. InWork'
    BY <1>1, <1>4, <2>1 DEF InWork
  <2>4. consent' \in BOOLEAN /\ (consent' => ~withdrawn') /\ (pc' = "act" => consent')
        /\ pc' \in {"act", "reply"}
    BY <1>4, <2>1
  <2>5. Places'
    BY <2>1, <2>4 DEF Places
  <2>6. FlagOwned'
    BY <2>2, <2>4 DEF FlagOwned
  <2> QED
    BY <2>1, <2>3, <2>4, <2>5, <2>6 DEF LoopInv
<1> QED
  BY <1>3, <1>4 DEF Requalify

\* Steps that do not poll.
LEMMA QuietStep ==
    ASSUME LoopInv, ConsentInterrupted \/ Act
    PROVE  LoopInv'
<1>1. /\ pc \in {"consent", "act"} /\ pc' = "reply"
      /\ UNCHANGED <<hid, presence_cancelled, interrupt, work, consent, withdrawn>>
  BY DEF ConsentInterrupted, Act
<1>2. InWork' /\ Places' /\ FlagOwned'
  BY <1>1 DEF LoopInv, InWork, Places, FlagOwned
<1> QED
  BY <1>1, <1>2 DEF LoopInv

\* The reply, or its loss.
LEMMA CompleteStep ==
    ASSUME LoopInv, NEW payload \in Replies, CompleteRequest(payload)
    PROVE  LoopInv'
<1>1. /\ pc \in {"cbor", "vendor", "reply"} /\ pc' = "poll"
      /\ hid' = IF hid.app_request = None THEN hid ELSE Reply(hid, payload)
      /\ interrupt' = IF work.command = "Cbor" THEN "Idle" ELSE interrupt
      /\ consent' = FALSE /\ withdrawn' = FALSE /\ presence_cancelled' = presence_cancelled
  BY DEF CompleteRequest
<1>2. payload \in Seq(Data) /\ Len(payload) <= MaxMessage
  <2>1. PICK n \in 1..MaxMessage, d \in Data : payload = Units(n, d)
    BY DEF Replies
  <2>2. n \in Nat /\ n <= MaxMessage
    BY BufferAssumption
  <2> QED
    BY <2>1, <2>2, UnitsSeq
<1>3. HidSound(hid) /\ KeepaliveFits(hid)
  BY DEF LoopInv
<1>4. HidSound(hid') /\ KeepaliveFits(hid') /\ hid'.app_request = None
  <2>1. CASE hid.app_request = None
    BY <1>1, <1>3, <2>1
  <2>2. CASE hid.app_request # None
    <3>1. /\ HidSound(hid') /\ hid'.app_request = None /\ hid'.keepalive = hid.keepalive
          /\ hid'.transmit # None /\ hid'.transmit.channel = hid.app_request.channel
          /\ hid'.transmit.offset = 0
      BY <1>1, <1>2, <1>3, <2>2, ReplySound
    <3>2. hid.transmit = None
      BY <1>3, <2>2 DEF HidSound, AppFits
    <3> QED
      BY <1>3, <3>1, <3>2 DEF KeepaliveFits
  <2> QED
    BY <2>1, <2>2
<1>5. interrupt' = "Idle"
  BY <1>1 DEF LoopInv, FlagOwned
<1> QED
  BY <1>1, <1>4, <1>5 DEF LoopInv, InWork, Places, FlagOwned

\* Every step of the loop preserves the invariant.
LEMMA LoopNext == LoopInv /\ [RuntimeNext]_runtime_vars => LoopInv'
<1> SUFFICES ASSUME LoopInv, [RuntimeNext]_runtime_vars PROVE LoopInv'
  OBVIOUS
<1>1. ASSUME NEW p \in Polls, MainLoop(p) PROVE LoopInv'
  BY <1>1, MainLoopStep
<1>2. ASSUME \/ BeginWait("cbor", "consent")
             \/ BeginWait("vendor", "updateWait")
             \/ BeginWait("vendor", "maintenanceWait")
      PROVE  LoopInv'
  BY <1>2, BeginWaitStep
<1>3. ASSUME NEW p \in Polls, NEW due \in BOOLEAN,
             ConsentWait(p, due) \/ Confirm(p, due) \/ Requalify(p, due)
      PROVE  LoopInv'
  BY <1>3, ConsentStep, ConfirmStep, RequalifyStep
<1>4. CASE ConsentInterrupted \/ Act
  BY <1>4, QuietStep
<1>5. ASSUME NEW payload \in Replies, CompleteRequest(payload) PROVE LoopInv'
  BY <1>5, CompleteStep
<1>6. CASE UNCHANGED runtime_vars
  BY <1>6 DEF runtime_vars, LoopInv, InWork, Places, FlagOwned
<1> QED
  BY <1>1, <1>2, <1>3, <1>4, <1>5, <1>6 DEF RuntimeNext, Handler

\* The inductive invariant of the loop holds throughout, whatever the host sends
\* while a request is in work.
THEOREM LoopInvariant == RuntimeSpec => []LoopInv
BY LoopInit, LoopNext, PTL DEF RuntimeSpec

\* A reply goes to the request that produced it, and a keepalive to the request
\* in work or ahead of its response (poll_wait, copy_request, reply).
THEOREM RepliesMatch == RuntimeSpec => []ReplyToItsRequest
<1>1. LoopInv => ReplyToItsRequest
  BY DEF LoopInv, InWork, Places, KeepaliveFits, ReplyToItsRequest
<1> QED
  BY <1>1, LoopInvariant, PTL

\* An approval is not used once its request was cancelled or dropped (confirm,
\* check_user_presence, the last poll_wait of maintenance).
THEOREM ConsentHolds == RuntimeSpec => []ConsentStands
<1>1. LoopInv => ConsentStands
  BY DEF LoopInv, InWork, Places, ConsentStands
<1> QED
  BY <1>1, LoopInvariant, PTL

\* No wait is cancelled by what happened before it (begin_wait, set_working).
THEOREM CancellationsAreFresh == RuntimeSpec => []NoStaleCancellation
<1>1. LoopInv => NoStaleCancellation
  BY DEF LoopInv, Places, FlagOwned, NoStaleCancellation, Waiting
<1> QED
  BY <1>1, LoopInvariant, PTL

=============================================================================
