--------------------------- MODULE ServicesProofs ---------------------------
(***************************************************************************)
(* Theorems about the components that MCServices puts together, for every   *)
(* value of their constants: the notifiers of the event dispatcher, the     *)
(* calls of the IPC pipe, the socket under it, and the V4L2 video device.   *)
(***************************************************************************)
EXTENDS MCServices, QueueLemmas

(***************************************************************************)
(* IpcSocket.                                                              *)
(***************************************************************************)

\* Datagrams of one message of which the header has been taken from the socket.
Taken == IF headerReceived THEN 1 ELSE 0

\* Messages that were sent whole and are not received yet.
Unread == Len(whole) - Len(received)

SocketType ==
    /\ count \in Nat /\ half \in Nat
    /\ whole \in Seq(Nat) /\ received \in Seq(Nat \X [kind : {"header", "payload"}, message : Nat])
    /\ channel \in Seq([kind : {"header", "payload"}, message : Nat])
    /\ headerReceived \in BOOLEAN /\ reading \in BOOLEAN /\ torn \in BOOLEAN /\ header \in Nat

\* The socket holds the datagrams of the unread messages, header and payload in turn,
\* without the header that has been taken and with the one that was sent last.
ChannelHolds ==
    /\ Len(received) <= Len(whole)
    /\ Len(channel) = 2 * Unread + (IF half # 0 THEN 1 ELSE 0) - Taken
    /\ \A k \in 1 .. Unread :
           /\ ~(headerReceived /\ k = 1) =>
                  channel[2 * k - 1 - Taken] = Socket!Datagram("header", whole[Len(received) + k])
           /\ channel[2 * k - Taken] = Socket!Datagram("payload", whole[Len(received) + k])
    /\ half # 0 /\ ~(headerReceived /\ Unread = 0) =>
           channel[2 * Unread + 1 - Taken] = Socket!Datagram("header", half)

\* The header that has been taken is that of the next message.
HeaderIsNext ==
    headerReceived => header = IF Unread > 0 THEN whole[Len(received) + 1] ELSE half

ReceivedWhole ==
    \A i \in 1 .. Len(received) : received[i] = <<whole[i], Socket!Datagram("payload", whole[i])>>

\* The inductive invariant: the datagrams in the socket, the header that has been
\* received and the state of the notifier belong together, until a payload is lost.
SocketInv ==
    /\ SocketType
    /\ ~reading => headerReceived /\ channel # <<>>
    /\ ~torn => ChannelHolds /\ HeaderIsNext /\ ReceivedWhole

(***************************************************************************)
(* IpcPipe.                                                                *)
(***************************************************************************)

\* Cookies are not used twice, and 0 is left to the events.
CookiesSuffice == CookieLimit \in Nat /\ MaxCalls \in Nat /\ MaxCalls + 1 < CookieLimit

\* A message carries the cookie of its call, or 0 for an event, and an answer the number
\* of the call that it is stored for.
Calls == {m \in Pipe!ToWorker : m.cookie = m.call}
Answers == {m \in Pipe!FromWorker : m.cookie = IF m.kind = "reply" THEN m.call ELSE 0}
InProgress ==
    {d \in [cookie : 0 .. CookieLimit - 1, call : 1 .. MaxCalls,
            timer : BOOLEAN, response : Answers \cup {Pipe!None}] :
        d.cookie = d.call /\ (d.response # Pipe!None => d.response.cookie = d.call)}

CookieInv ==
    /\ sent \in 0 .. MaxCalls /\ seq = sent + 1
    /\ callData \in Seq(InProgress)
    /\ toWorker \in Seq(Calls)
    /\ working \in Calls \cup {Pipe!None}
    /\ fromWorker \in Seq(Answers)
    /\ events \in Nat

\* The calls are sent, handled and answered in order: every message on its way to the
\* worker is of a later call than those the worker has seen, and an answer is the last
\* message of its call.
OrderOfCalls ==
    /\ \A i \in 1 .. Len(toWorker) : toWorker[i].call <= sent
    /\ \A i, j \in 1 .. Len(toWorker) : i < j => toWorker[i].call < toWorker[j].call
    /\ working # Pipe!None =>
           /\ working.call <= sent
           /\ \A i \in 1 .. Len(toWorker) : working.call < toWorker[i].call
    /\ \A k \in 1 .. Len(fromWorker) :
           /\ fromWorker[k].call <= sent
           /\ \A i \in 1 .. Len(toWorker) : fromWorker[k].call < toWorker[i].call
           /\ working # Pipe!None =>
                  /\ fromWorker[k].call <= working.call
                  /\ fromWorker[k].kind = "reply" => fromWorker[k].call < working.call
    /\ \A k, l \in 1 .. Len(fromWorker) : k < l =>
           /\ fromWorker[k].call <= fromWorker[l].call
           /\ fromWorker[k].kind = "reply" => fromWorker[k].call < fromWorker[l].call

\* What is still to come belongs to later calls than the answers that have come.
AnswersAreLast ==
    \A i \in 1 .. Len(callData) : callData[i].response # Pipe!None =>
        LET c == callData[i].response.call IN
        /\ c <= sent
        /\ working # Pipe!None => c < working.call
        /\ \A k \in 1 .. Len(toWorker) : c < toWorker[k].call
        /\ \A k \in 1 .. Len(fromWorker) : c < fromWorker[k].call

(***************************************************************************)
(* EventNotifiers.                                                         *)
(***************************************************************************)

NotifierConstants ==
    /\ NumFds \in Nat /\ MaxRounds \in Nat
    /\ FdOf \in [Notifier -> Notifiers!Fd] /\ TypeOf \in [Notifier -> Notifiers!Type]
    /\ NoNotifier \notin Notifier

\* No handler of a notifier runs processEvents().
NotNested == MaxRounds = 1

\* Every round that runs goes through entries of the map, each of them once, and
\* nothing else erases entries meanwhile.
RoundsSound ==
    /\ Len(rounds) <= 1
    /\ rounds # <<>> => processing
    /\ \A k \in 1 .. Len(rounds) :
        /\ \A i \in 1 .. Len(rounds[k].pollfds) : rounds[k].pollfds[i].fd \in keys
        /\ \A i, j \in 1 .. Len(rounds[k].pollfds) :
               rounds[k].pollfds[i].fd = rounds[k].pollfds[j].fd => i = j

\* Only enabled notifiers are registered, each where its descriptor and type say.
RegisteredEnabled ==
    \A f \in Notifiers!Fd, t \in Notifiers!Type : notifiers[f][t] # NoNotifier =>
        notifiers[f][t] \in enabled /\ FdOf[notifiers[f][t]] = f /\ TypeOf[notifiers[f][t]] = t

NotifierInv == Notifiers!TypeOK /\ RegisteredEnabled
-----------------------------------------------------------------------------
(***************************************************************************)
(* The socket.                                                             *)
(***************************************************************************)

Dgram == [kind : {"header", "payload"}, message : Nat]

\* The elements of a sequence after Append,
LEMMA AppendIndexing ==
    ASSUME NEW S, NEW q \in Seq(S), NEW x \in S
    PROVE  /\ Append(q, x) \in Seq(S) /\ Len(Append(q, x)) = Len(q) + 1
           /\ Append(q, x)[Len(q) + 1] = x /\ \A i \in 1 .. Len(q) : Append(q, x)[i] = q[i]
           /\ Len(q) \in Nat
  OBVIOUS

\* and after Tail.
LEMMA TailIndexing ==
    ASSUME NEW S, NEW q \in Seq(S), q # <<>>
    PROVE  /\ Tail(q) \in Seq(S) /\ Len(Tail(q)) = Len(q) - 1 /\ Len(q) \in Nat \ {0}
           /\ Head(q) = q[1] /\ q[1] \in S /\ \A i \in 1 .. Len(q) - 1 : Tail(q)[i] = q[i + 1]
  OBVIOUS

\* What the socket sends is a datagram.
LEMMA DatagramType ==
    \A k \in {"header", "payload"}, n \in Nat : Socket!Datagram(k, n) \in Dgram
  BY DEF Socket!Datagram, Dgram

\* The invariant of the socket holds at first,
LEMMA SocketInit == Socket!Init => SocketInv
<1> SUFFICES ASSUME Socket!Init PROVE SocketInv
  OBVIOUS
<1>1. /\ count = 0 /\ half = 0 /\ whole = <<>> /\ ~torn /\ torn \in BOOLEAN /\ channel = <<>>
      /\ ~headerReceived /\ headerReceived \in BOOLEAN /\ header = 0
      /\ reading /\ reading \in BOOLEAN /\ received = <<>>
  BY DEF Socket!Init
<1>2. SocketType
  BY <1>1, EmptySeq DEF SocketType
<1>3. Len(<<>>) = 0
  BY EmptySeq
<1>4. Unread = 0 /\ Taken = 0
  BY <1>1, <1>3 DEF Unread, Taken
<1>5. ChannelHolds
  BY <1>1, <1>3, <1>4 DEF ChannelHolds
<1>6. HeaderIsNext /\ ReceivedWhole
  BY <1>1, <1>3 DEF HeaderIsNext, ReceivedWhole
<1>7. QED
  BY <1>1, <1>2, <1>5, <1>6 DEF SocketInv

\* send(), up to the header: the header is the last datagram.
LEMMA SocketSendHeader ==
    ASSUME SocketInv, Socket!SendHeader
    PROVE  SocketInv'
<1> USE DEF Socket!receiverVars
<1>1. /\ half = 0 /\ count' = count + 1
      /\ UNCHANGED <<whole, torn, headerReceived, header, reading, received>>
      /\ \/ UNCHANGED <<channel, half>>
         \/ channel' = Append(channel, Socket!Datagram("header", count + 1)) /\ half' = count + 1
  BY DEF Socket!SendHeader
<1>2. CASE UNCHANGED <<channel, half>>
  <2>1. count' \in Nat
    BY <1>1 DEF SocketInv, SocketType
  <2>2. SocketType'
    BY <1>1, <1>2, <2>1 DEF SocketInv, SocketType
  <2>3. Unread' = Unread /\ Taken' = Taken
    BY <1>1 DEF Unread, Taken
  <2>4. (ChannelHolds <=> ChannelHolds') /\ (HeaderIsNext <=> HeaderIsNext') /\ (ReceivedWhole <=> ReceivedWhole')
    BY <1>1, <1>2, <2>3 DEF ChannelHolds, HeaderIsNext, ReceivedWhole
  <2>5. QED
    BY <1>1, <1>2, <2>2, <2>4 DEF SocketInv
<1>3. CASE channel' = Append(channel, Socket!Datagram("header", count + 1)) /\ half' = count + 1
  <2>1. /\ channel \in Seq(Dgram) /\ count \in Nat /\ whole \in Seq(Nat)
        /\ received \in Seq(Nat \X Dgram)
    BY DEF SocketInv, SocketType, Dgram
  <2>2. PICK d \in Dgram : d = Socket!Datagram("header", count + 1)
    BY <2>1, DatagramType
  <2>3. /\ channel' \in Seq(Dgram) /\ Len(channel') = Len(channel) + 1
        /\ channel'[Len(channel) + 1] = d /\ \A i \in 1 .. Len(channel) : channel'[i] = channel[i]
        /\ Len(channel) \in Nat
    BY <1>3, <2>1, <2>2, AppendIndexing
  <2>4. SocketType'
    BY <1>1, <1>3, <2>1, <2>3 DEF SocketInv, SocketType, Dgram
  <2>5. Len(whole) \in Nat /\ Len(received) \in Nat
    BY <2>1
  <2>6. ASSUME ~torn PROVE ChannelHolds' /\ HeaderIsNext' /\ ReceivedWhole'
    <3>1. ChannelHolds /\ HeaderIsNext /\ ReceivedWhole
      BY <2>6 DEF SocketInv
    <3>2. Unread' = Unread /\ Taken' = Taken /\ Unread \in Nat /\ Taken \in 0 .. 1 /\ (headerReceived <=> Taken = 1)
      BY <1>1, <2>5, <3>1 DEF Unread, Taken, ChannelHolds
    <3>3. Len(channel) = 2 * Unread - Taken
      BY <1>1, <3>1, <3>2 DEF ChannelHolds
    <3>4. half' # 0 /\ Len(channel') = 2 * Unread + 1 - Taken
      BY <1>3, <2>1, <2>3, <3>2, <3>3
    <3>5. ChannelHolds'
      <4>1. channel'[2 * Unread + 1 - Taken] = d
        BY <2>3, <3>2, <3>3
      <4>2. \A k \in 1 .. Unread :
               /\ ~(headerReceived /\ k = 1) =>
                  channel'[2 * k - 1 - Taken] = Socket!Datagram("header", whole[Len(received) + k])
               /\ channel'[2 * k - Taken] = Socket!Datagram("payload", whole[Len(received) + k])
        <5>1. ASSUME NEW k \in 1 .. Unread
              PROVE  /\ 2 * k - Taken \in 1 .. Len(channel)
                     /\ ~(headerReceived /\ k = 1) => 2 * k - 1 - Taken \in 1 .. Len(channel)
          BY <3>2, <3>3
        <5>2. QED
          BY <2>3, <3>1, <5>1 DEF ChannelHolds
      <4>3. QED
        BY <1>1, <1>3, <2>2, <3>1, <3>2, <3>4, <4>1, <4>2 DEF ChannelHolds
    <3>6. headerReceived => Unread > 0
      BY <3>2, <3>3, <2>3
    <3>7. HeaderIsNext' /\ ReceivedWhole'
      BY <1>1, <3>1, <3>2, <3>6 DEF HeaderIsNext, ReceivedWhole
    <3>8. QED
      BY <3>5, <3>7
  <2>7. channel' # <<>>
    BY <2>3, EmptySeq
  <2>8. QED
    BY <1>1, <2>4, <2>6, <2>7 DEF SocketInv
<1>4. QED
  BY <1>1, <1>2, <1>3

\* sendData(): the payload follows its header, or the message is torn.
LEMMA SocketSendData ==
    ASSUME SocketInv, Socket!SendData
    PROVE  SocketInv'
<1> USE DEF Socket!receiverVars
<1>1. /\ half # 0 /\ half' = 0
      /\ UNCHANGED <<count, headerReceived, header, reading, received>>
      /\ \/ torn' /\ torn' \in BOOLEAN /\ UNCHANGED <<channel, whole>>
         \/ /\ channel' = Append(channel, Socket!Datagram("payload", half))
            /\ whole' = Append(whole, half) /\ UNCHANGED torn
  BY DEF Socket!SendData
<1>2. CASE torn' /\ torn' \in BOOLEAN /\ UNCHANGED <<channel, whole>>
  BY <1>1, <1>2 DEF SocketInv, SocketType
<1>3. CASE /\ channel' = Append(channel, Socket!Datagram("payload", half))
           /\ whole' = Append(whole, half) /\ UNCHANGED torn
  <2>1. /\ channel \in Seq(Dgram) /\ half \in Nat /\ whole \in Seq(Nat)
        /\ received \in Seq(Nat \X Dgram)
    BY DEF SocketInv, SocketType, Dgram
  <2>2. PICK d \in Dgram : d = Socket!Datagram("payload", half)
    BY <2>1, DatagramType
  <2>3. /\ channel' \in Seq(Dgram) /\ Len(channel') = Len(channel) + 1
        /\ channel'[Len(channel) + 1] = d /\ \A i \in 1 .. Len(channel) : channel'[i] = channel[i]
        /\ Len(channel) \in Nat
    BY <1>3, <2>1, <2>2, AppendIndexing
  <2>4. /\ whole' \in Seq(Nat) /\ Len(whole') = Len(whole) + 1
        /\ whole'[Len(whole) + 1] = half /\ \A i \in 1 .. Len(whole) : whole'[i] = whole[i]
        /\ Len(whole) \in Nat /\ Len(received) \in Nat
    BY <1>3, <2>1, AppendIndexing
  <2>5. SocketType'
    BY <1>1, <1>3, <2>1, <2>3, <2>4 DEF SocketInv, SocketType, Dgram
  <2>6. ASSUME ~torn PROVE ChannelHolds' /\ HeaderIsNext' /\ ReceivedWhole'
    <3>1. ChannelHolds /\ HeaderIsNext /\ ReceivedWhole
      BY <2>6 DEF SocketInv
    <3>2. /\ Unread' = Unread + 1 /\ Taken' = Taken /\ Unread \in Nat /\ Taken \in 0 .. 1
          /\ (headerReceived <=> Taken = 1) /\ Len(received) + Unread = Len(whole)
      BY <1>1, <2>4, <3>1 DEF Unread, Taken, ChannelHolds
    <3>3. Len(channel) = 2 * Unread + 1 - Taken
      BY <1>1, <3>1, <3>2 DEF ChannelHolds
    <3>4. \A k \in 1 .. Unread : whole'[Len(received) + k] = whole[Len(received) + k]
      BY <2>4, <3>2
    <3>5. whole'[Len(received) + Unread + 1] = half
      BY <2>4, <3>2
    <3>6. ASSUME NEW k \in 1 .. Unread + 1
          PROVE  /\ ~(headerReceived /\ k = 1) =>
                    channel'[2 * k - 1 - Taken] = Socket!Datagram("header", whole'[Len(received) + k])
                 /\ channel'[2 * k - Taken] = Socket!Datagram("payload", whole'[Len(received) + k])
      <4>1. CASE k \in 1 .. Unread
        <5>1. /\ 2 * k - Taken \in 1 .. Len(channel)
              /\ ~(headerReceived /\ k = 1) => 2 * k - 1 - Taken \in 1 .. Len(channel)
          BY <3>2, <3>3, <4>1
        <5>2. QED
          BY <2>3, <3>1, <3>4, <4>1, <5>1 DEF ChannelHolds
      <4>2. CASE k = Unread + 1
        <5>1. /\ 2 * k - Taken = Len(channel) + 1 /\ 2 * k - 1 - Taken = 2 * Unread + 1 - Taken
              /\ ~(headerReceived /\ k = 1) => 2 * k - 1 - Taken \in 1 .. Len(channel)
          BY <3>2, <3>3, <4>2
        <5>2. Len(received) + k = Len(received) + Unread + 1
          BY <2>4, <3>2, <4>2
        <5>3. ~(headerReceived /\ k = 1) => ~(headerReceived /\ Unread = 0)
          BY <3>2, <4>2
        <5>4. ~(headerReceived /\ k = 1) => channel'[2 * k - 1 - Taken] = Socket!Datagram("header", half)
          BY <1>1, <2>3, <3>1, <5>1, <5>3 DEF ChannelHolds
        <5>5. QED
          BY <2>2, <2>3, <3>5, <5>1, <5>2, <5>4
      <4>3. QED
        BY <3>2, <4>1, <4>2
    <3>7. ChannelHolds'
      <4>1. Len(received') <= Len(whole')
        BY <1>1, <2>4, <3>2
      <4>2. Len(channel') = 2 * Unread' + 0 - Taken'
        BY <2>3, <3>2, <3>3
      <4>3. QED
        BY <1>1, <3>2, <3>6, <4>1, <4>2 DEF ChannelHolds
    <3>8. HeaderIsNext'
      <4>1. Unread' > 0 /\ (Unread > 0 => 1 \in 1 .. Unread)
        BY <3>2
      <4>2. Unread = 0 => Len(received) + 1 = Len(received) + Unread + 1
        BY <2>4, <3>2
      <4>3. Unread > 0 \/ Unread = 0
        BY <3>2
      <4>4. QED
        BY <1>1, <3>1, <3>4, <3>5, <4>1, <4>2, <4>3 DEF HeaderIsNext
    <3>9. ReceivedWhole'
      <4>1. \A i \in 1 .. Len(received) : i \in 1 .. Len(whole)
        BY <2>4, <3>2
      <4>2. QED
        BY <1>1, <2>4, <3>1, <4>1 DEF ReceivedWhole
    <3>10. QED
      BY <3>7, <3>8, <3>9
  <2>7. channel' # <<>>
    BY <2>3, EmptySeq
  <2>8. QED
    BY <1>1, <1>3, <2>5, <2>6, <2>7 DEF SocketInv
<1>4. QED
  BY <1>1, <1>2, <1>3

\* dataNotifier(): a header is taken from the socket, and the notifier waits until
\* something follows.
LEMMA SocketDataNotifier ==
    ASSUME SocketInv, Socket!DataNotifier
    PROVE  SocketInv'
<1> USE DEF Socket!senderVars
<1>1. /\ channel # <<>> /\ headerReceived' /\ headerReceived' \in BOOLEAN
      /\ reading' = (channel' = <<>>)
      /\ UNCHANGED <<count, half, whole, torn, received>>
  BY DEF Socket!DataNotifier
<1>2. ~reading' => headerReceived' /\ channel' # <<>>
  BY <1>1
<1>3. CASE headerReceived
  <2>1. UNCHANGED <<channel, header>>
    BY <1>3 DEF Socket!DataNotifier
  <2>2. headerReceived' = headerReceived
    BY <1>1, <1>3 DEF SocketInv, SocketType
  <2>3. SocketType'
    BY <1>1, <2>1 DEF SocketInv, SocketType
  <2>4. Unread' = Unread /\ Taken' = Taken
    BY <1>1, <2>2 DEF Unread, Taken
  <2>5. (ChannelHolds <=> ChannelHolds') /\ (HeaderIsNext <=> HeaderIsNext') /\ (ReceivedWhole <=> ReceivedWhole')
    BY <1>1, <2>1, <2>2, <2>4 DEF ChannelHolds, HeaderIsNext, ReceivedWhole
  <2>6. QED
    BY <1>1, <1>2, <2>3, <2>5 DEF SocketInv
<1>4. CASE ~headerReceived
  <2>1. header' = Head(channel).message /\ channel' = Tail(channel)
    BY <1>4 DEF Socket!DataNotifier
  <2>2. /\ channel \in Seq(Dgram) /\ half \in Nat /\ whole \in Seq(Nat)
        /\ received \in Seq(Nat \X Dgram) /\ Len(whole) \in Nat /\ Len(received) \in Nat
    BY DEF SocketInv, SocketType, Dgram
  <2>3. /\ channel' \in Seq(Dgram) /\ Len(channel') = Len(channel) - 1 /\ Len(channel) \in Nat \ {0}
        /\ Head(channel) = channel[1] /\ channel[1] \in Dgram
        /\ \A i \in 1 .. Len(channel) - 1 : channel'[i] = channel[i + 1]
    BY <1>1, <2>1, <2>2, TailIndexing
  <2>4. header' = channel[1].message /\ header' \in Nat
    BY <2>1, <2>3 DEF Dgram
  <2>5. SocketType'
    BY <1>1, <2>2, <2>3, <2>4 DEF SocketInv, SocketType, Dgram
  <2>6. ASSUME ~torn PROVE ChannelHolds' /\ HeaderIsNext' /\ ReceivedWhole'
    <3>1. ChannelHolds /\ HeaderIsNext /\ ReceivedWhole
      BY <2>6 DEF SocketInv
    <3>2. Unread' = Unread /\ Taken' = 1 /\ Unread \in Nat /\ Taken = 0
      BY <1>1, <1>4, <2>2, <3>1 DEF Unread, Taken, ChannelHolds
    <3>3. Len(channel) = 2 * Unread + IF half # 0 THEN 1 ELSE 0
      BY <3>1, <3>2 DEF ChannelHolds
    <3>4. \A k \in 1 .. Unread :
             /\ channel[2 * k - 1] = Socket!Datagram("header", whole[Len(received) + k])
             /\ channel[2 * k] = Socket!Datagram("payload", whole[Len(received) + k])
      BY <1>4, <3>1, <3>2 DEF ChannelHolds
    <3>5. half # 0 => channel[2 * Unread + 1] = Socket!Datagram("header", half)
      BY <1>4, <3>1, <3>2 DEF ChannelHolds
    <3>6. \A k \in 1 .. Unread :
             /\ k # 1 => channel'[2 * k - 2] = Socket!Datagram("header", whole[Len(received) + k])
             /\ channel'[2 * k - 1] = Socket!Datagram("payload", whole[Len(received) + k])
      <4>1. ASSUME NEW k \in 1 .. Unread
            PROVE  /\ 2 * k - 1 \in 1 .. Len(channel) - 1 /\ (2 * k - 1) + 1 = 2 * k
                   /\ k # 1 => 2 * k - 2 \in 1 .. Len(channel) - 1 /\ (2 * k - 2) + 1 = 2 * k - 1
        BY <3>2, <3>3
      <4>2. QED
        BY <2>3, <3>4, <4>1
    <3>7. half # 0 /\ Unread # 0 => channel'[2 * Unread] = Socket!Datagram("header", half)
      <4>1. half # 0 /\ Unread # 0 => 2 * Unread \in 1 .. Len(channel) - 1
        BY <3>2, <3>3
      <4>2. QED
        BY <2>3, <3>5, <4>1
    <3>8. ChannelHolds'
      <4>1. /\ Len(channel') = 2 * Unread + (IF half # 0 THEN 1 ELSE 0) - 1
            /\ 2 * Unread + 1 - 1 = 2 * Unread
            /\ \A k \in 1 .. Unread : 2 * k - 1 - 1 = 2 * k - 2
        BY <2>3, <3>2, <3>3
      <4>2. Len(received') <= Len(whole')
        BY <1>1, <3>1 DEF ChannelHolds
      <4>3. \A k \in 1 .. Unread' :
               /\ ~(headerReceived' /\ k = 1) =>
                  channel'[2 * k - 1 - Taken'] = Socket!Datagram("header", whole'[Len(received') + k])
               /\ channel'[2 * k - Taken'] = Socket!Datagram("payload", whole'[Len(received') + k])
        BY <1>1, <3>2, <3>6, <4>1
      <4>4. half' # 0 /\ ~(headerReceived' /\ Unread' = 0) =>
               channel'[2 * Unread' + 1 - Taken'] = Socket!Datagram("header", half')
        BY <1>1, <3>2, <3>7, <4>1
      <4>5. QED
        BY <1>1, <3>2, <4>1, <4>2, <4>3, <4>4 DEF ChannelHolds
    <3>9. HeaderIsNext'
      <4>1. CASE Unread > 0
        <5>1. 1 \in 1 .. Unread /\ 2 * 1 - 1 = 1
          BY <3>2, <4>1
        <5>2. header' = whole[Len(received) + 1]
          <6>1. channel[2 * 1 - 1] = Socket!Datagram("header", whole[Len(received) + 1])
            BY <3>4, <5>1
          <6>2. channel[1] = Socket!Datagram("header", whole[Len(received) + 1])
            BY <5>1, <6>1
          <6>3. QED
            BY <2>4, <6>2 DEF Socket!Datagram
        <5>3. QED
          BY <1>1, <3>2, <4>1, <5>2 DEF HeaderIsNext
      <4>2. CASE Unread = 0
        <5>1. half # 0 /\ 2 * Unread + 1 = 1
          BY <2>3, <3>2, <3>3, <4>2
        <5>2. header' = half
          BY <2>4, <3>5, <5>1 DEF Socket!Datagram
        <5>3. ~(Unread' > 0)
          BY <3>2, <4>2
        <5>4. QED
          BY <1>1, <5>2, <5>3 DEF HeaderIsNext
      <4>3. QED
        BY <3>2, <4>1, <4>2
    <3>10. QED
      BY <1>1, <3>1, <3>8, <3>9 DEF ReceivedWhole
  <2>7. QED
    BY <1>1, <1>2, <2>5, <2>6 DEF SocketInv
<1>5. QED
  BY <1>3, <1>4

\* receive(): the payload in the socket belongs to the header.
LEMMA SocketReceive ==
    ASSUME SocketInv, Socket!Receive
    PROVE  SocketInv'
<1> USE DEF Socket!senderVars
<1>1. /\ ~reading /\ received' = Append(received, <<header, Head(channel)>>)
      /\ channel' = Tail(channel) /\ ~headerReceived' /\ headerReceived' \in BOOLEAN
      /\ reading' /\ reading' \in BOOLEAN /\ UNCHANGED <<count, half, whole, torn, header>>
  BY DEF Socket!Receive
<1>2. headerReceived /\ channel # <<>>
  BY <1>1 DEF SocketInv
<1>3. /\ channel \in Seq(Dgram) /\ half \in Nat /\ whole \in Seq(Nat) /\ header \in Nat
      /\ received \in Seq(Nat \X Dgram) /\ Len(whole) \in Nat /\ Len(received) \in Nat
  BY DEF SocketInv, SocketType, Dgram
<1>4. /\ channel' \in Seq(Dgram) /\ Len(channel') = Len(channel) - 1 /\ Len(channel) \in Nat \ {0}
      /\ Head(channel) = channel[1] /\ channel[1] \in Dgram
      /\ \A i \in 1 .. Len(channel) - 1 : channel'[i] = channel[i + 1]
  BY <1>1, <1>2, <1>3, TailIndexing
<1>5. PICK p \in Nat \X Dgram : p = <<header, channel[1]>>
  BY <1>3, <1>4
<1>6. /\ received' \in Seq(Nat \X Dgram) /\ Len(received') = Len(received) + 1
      /\ received'[Len(received) + 1] = p /\ \A i \in 1 .. Len(received) : received'[i] = received[i]
  BY <1>1, <1>3, <1>4, <1>5, AppendIndexing
<1>7. SocketType'
  BY <1>1, <1>3, <1>4, <1>6 DEF SocketInv, SocketType, Dgram
<1>8. ASSUME ~torn PROVE ChannelHolds' /\ HeaderIsNext' /\ ReceivedWhole'
  <2>1. ChannelHolds /\ HeaderIsNext /\ ReceivedWhole
    BY <1>8 DEF SocketInv
  <2>2. Unread' = Unread - 1 /\ Taken' = 0 /\ Taken = 1 /\ Unread \in Nat /\ Len(received) + Unread = Len(whole)
    BY <1>1, <1>2, <1>3, <1>6, <2>1 DEF Unread, Taken, ChannelHolds
  <2>3. Len(channel) = 2 * Unread + (IF half # 0 THEN 1 ELSE 0) - 1
    BY <2>1, <2>2 DEF ChannelHolds
  <2>4. Unread > 0 /\ 1 \in 1 .. Unread /\ 2 * 1 - 1 = 1
    BY <1>4, <2>2, <2>3
  <2>5. \A k \in 1 .. Unread :
           /\ k # 1 => channel[2 * k - 2] = Socket!Datagram("header", whole[Len(received) + k])
           /\ channel[2 * k - 1] = Socket!Datagram("payload", whole[Len(received) + k])
    <3>1. \A k \in 1 .. Unread : 2 * k - 1 - 1 = 2 * k - 2
      BY <2>2
    <3>2. QED
      BY <1>2, <2>1, <2>2, <3>1 DEF ChannelHolds
  <2>6. half # 0 => channel[2 * Unread] = Socket!Datagram("header", half)
    <3>1. 2 * Unread + 1 - 1 = 2 * Unread /\ Unread # 0
      BY <2>2, <2>4
    <3>2. QED
      BY <2>1, <2>2, <3>1 DEF ChannelHolds
  <2>7. ReceivedWhole'
    <3>1. header = whole[Len(received) + 1]
      BY <1>2, <2>1, <2>4 DEF HeaderIsNext
    <3>2. channel[2 * 1 - 1] = Socket!Datagram("payload", whole[Len(received) + 1])
      BY <2>4, <2>5
    <3>3. p = <<whole[Len(received) + 1], Socket!Datagram("payload", whole[Len(received) + 1])>>
      BY <1>5, <2>4, <3>1, <3>2
    <3>4. ASSUME NEW i \in 1 .. Len(received) + 1
          PROVE  received'[i] = <<whole[i], Socket!Datagram("payload", whole[i])>>
      <4>1. i \in 1 .. Len(received) \/ i = Len(received) + 1
        BY <1>3
      <4>2. QED
        BY <1>6, <2>1, <3>3, <4>1 DEF ReceivedWhole
    <3>5. QED
      BY <1>1, <1>6, <3>4 DEF ReceivedWhole
  <2>8. ChannelHolds'
    <3>1. ASSUME NEW k \in 1 .. Unread - 1
          PROVE  /\ channel'[2 * k - 1 - 0] = Socket!Datagram("header", whole[(Len(received) + 1) + k])
                 /\ channel'[2 * k - 0] = Socket!Datagram("payload", whole[(Len(received) + 1) + k])
      <4>1. /\ k + 1 \in 1 .. Unread /\ k + 1 # 1
            /\ 2 * k - 1 - 0 \in 1 .. Len(channel) - 1 /\ (2 * k - 1 - 0) + 1 = 2 * (k + 1) - 2
            /\ 2 * k - 0 \in 1 .. Len(channel) - 1 /\ (2 * k - 0) + 1 = 2 * (k + 1) - 1
            /\ (Len(received) + 1) + k = Len(received) + (k + 1)
        BY <1>3, <2>2, <2>3
      <4>2. QED
        BY <1>4, <2>5, <4>1
    <3>2. ASSUME half # 0
          PROVE  channel'[2 * (Unread - 1) + 1 - 0] = Socket!Datagram("header", half)
      <4>1. 2 * (Unread - 1) + 1 - 0 \in 1 .. Len(channel) - 1 /\ (2 * (Unread - 1) + 1 - 0) + 1 = 2 * Unread
        BY <2>2, <2>3, <2>4, <3>2
      <4>2. QED
        BY <1>4, <2>6, <3>2, <4>1
    <3>3. /\ Len(received') <= Len(whole')
          /\ Len(channel') = 2 * (Unread - 1) + (IF half # 0 THEN 1 ELSE 0) - 0
      BY <1>1, <1>3, <1>4, <1>6, <2>2, <2>3, <2>4
    <3>4. QED
      BY <1>1, <1>6, <2>2, <3>1, <3>2, <3>3 DEF ChannelHolds
  <2>9. QED
    BY <1>1, <2>7, <2>8 DEF HeaderIsNext
<1>9. QED
  BY <1>1, <1>7, <1>8 DEF SocketInv

\* and every step keeps it.
LEMMA SocketStep == SocketInv /\ [Socket!Next]_(Socket!vars) => SocketInv'
<1>1. SUFFICES ASSUME SocketInv, [Socket!Next]_(Socket!vars) PROVE SocketInv'
  OBVIOUS
<1>2. CASE Socket!ReceiveFails \/ UNCHANGED Socket!vars
  <2>1. UNCHANGED <<count, half, whole, torn, channel, headerReceived, header, reading, received>>
    BY <1>2 DEF Socket!ReceiveFails, Socket!vars, Socket!senderVars, Socket!receiverVars
  <2>2. Unread' = Unread /\ Taken' = Taken
    BY <2>1 DEF Unread, Taken
  <2>3. (ChannelHolds <=> ChannelHolds') /\ (HeaderIsNext <=> HeaderIsNext') /\ (ReceivedWhole <=> ReceivedWhole')
    BY <2>1, <2>2 DEF ChannelHolds, HeaderIsNext, ReceivedWhole
  <2>4. QED
    BY <1>1, <2>1, <2>3 DEF SocketInv, SocketType
<1>3. QED
  BY <1>1, <1>2, SocketSendHeader, SocketSendData, SocketDataNotifier, SocketReceive DEF Socket!Next

\* What receive() returned is a prefix of what send() accepted.
LEMMA SocketInvWhole == SocketInv => MessagesWhole
<1> SUFFICES ASSUME SocketInv, ~torn PROVE MessagesWhole
  BY DEF MessagesWhole, Socket!MessagesWhole
<1> DEFINE W == [i \in DOMAIN whole |-> <<whole[i], Socket!Datagram("payload", whole[i])>>]
<1>1. whole \in Seq(Nat) /\ received \in Seq(Nat \X Dgram) /\ Len(whole) \in Nat /\ Len(received) \in Nat
  BY DEF SocketInv, SocketType, Dgram
<1>2. DOMAIN whole = 1 .. Len(whole) /\ \A i \in 1 .. Len(whole) : whole[i] \in Nat
  BY <1>1
<1>3. W \in Seq(Nat \X Dgram) /\ Len(W) = Len(whole)
  <2>1. W = [i \in 1 .. Len(whole) |-> <<whole[i], Socket!Datagram("payload", whole[i])>>]
    BY <1>2
  <2>2. \A i \in 1 .. Len(whole) : <<whole[i], Socket!Datagram("payload", whole[i])>> \in Nat \X Dgram
    BY <1>2, DatagramType
  <2>3. QED
    BY <1>1, <2>1, <2>2
<1>4. Len(received) <= Len(whole)
  BY DEF SocketInv, ChannelHolds
<1>5. \A i \in 1 .. Len(received) : i \in DOMAIN whole /\ received[i] = W[i]
  <2>1. ReceivedWhole
    BY DEF SocketInv
  <2>2. \A i \in 1 .. Len(received) : i \in DOMAIN whole
    BY <1>1, <1>2, <1>4
  <2>3. \A i \in DOMAIN whole : W[i] = <<whole[i], Socket!Datagram("payload", whole[i])>>
    OBVIOUS
  <2>4. QED
    BY <2>1, <2>2, <2>3, Zenon DEF ReceivedWhole
<1> HIDE DEF W
<1>6. SubSeq(received, 1, Len(received)) = SubSeq(W, 1, Len(received))
  <2>1. /\ SubSeq(received, 1, Len(received)) = [i \in 1 .. Len(received) |-> received[i]]
        /\ SubSeq(W, 1, Len(received)) = [i \in 1 .. Len(received) |-> W[i]]
    BY <1>1, <1>3, <1>4
  <2>2. QED
    BY <1>5, <2>1
<1>7. Socket!IsPrefix(received, W)
  BY <1>3, <1>4, <1>6 DEF Socket!IsPrefix
<1>8. QED
  BY <1>7 DEF MessagesWhole, Socket!MessagesWhole, W

\* IPCUnixSocket::receive() pairs each payload with its own header and returns the
\* messages in the order they were sent, for any number of messages and any size of the
\* kernel's queue, until a payload could not be sent after its header.
THEOREM SocketKeepsMessagesWhole == Socket!Spec => []MessagesWhole
<1>1. QED
  BY SocketInit, SocketStep, SocketInvWhole, PTL DEF Socket!Spec

-----------------------------------------------------------------------------
(***************************************************************************)
(* The pipe.                                                               *)
(***************************************************************************)

\* seq_ does not wrap around.
LEMMA NextCookie ==
    ASSUME CookiesSuffice, sent \in 0 .. MaxCalls, sent < MaxCalls, seq = sent + 1
    PROVE  (seq + 1) % CookieLimit = sent + 2
<1>1. seq + 1 \in 0 .. CookieLimit - 1 /\ CookieLimit \in Nat \ {0} /\ seq + 1 = sent + 2
  BY DEF CookiesSuffice
<1>2. \A n \in Nat, d \in Nat \ {0} : n < d => n % d = n
  OBVIOUS
<1>3. QED
  BY <1>1, <1>2

\* The fields of messages in the pipe.
LEMMA NoneIsNoMessage ==
    /\ \A m \in Answers : m # Pipe!None /\ m.kind \in {"reply", "event"} /\ m.call \in Nat \ {0}
                          /\ m.cookie = (IF m.kind = "reply" THEN m.call ELSE 0)
    /\ \A m \in Calls : m # Pipe!None /\ m.kind \in {"sync", "async"}
                        /\ m.call \in 1 .. MaxCalls /\ m.cookie = m.call
  BY DEF Answers, Calls, Pipe!None, Pipe!FromWorker, Pipe!ToWorker

\* The invariant of the cookies holds at first.
LEMMA CookieInit == ASSUME CookiesSuffice PROVE Pipe!Init => CookieInv
<1> SUFFICES ASSUME Pipe!Init PROVE CookieInv
  OBVIOUS
<1>1. /\ callData = <<>> /\ toWorker = <<>> /\ fromWorker = <<>> /\ working = Pipe!None
      /\ seq = 1 /\ sent = 0 /\ events = 0
  BY DEF Pipe!Init
<1>2. callData \in Seq(InProgress) /\ toWorker \in Seq(Calls) /\ fromWorker \in Seq(Answers)
  BY <1>1, EmptySeq
<1>3. sent \in 0 .. MaxCalls /\ seq = sent + 1 /\ events \in Nat
  BY <1>1 DEF CookiesSuffice
<1>4. QED
  BY <1>1, <1>2, <1>3 DEF CookieInv

\* A message that is sent, or a call that is recorded, has the cookie seq_.
LEMMA NewCall ==
    ASSUME CookiesSuffice, CookieInv, sent < MaxCalls, NEW kind \in {"sync", "async"}
    PROVE  /\ [kind |-> kind, cookie |-> seq, call |-> sent + 1] \in Calls
           /\ [cookie |-> seq, call |-> sent + 1, timer |-> TRUE, response |-> Pipe!None] \in InProgress
<1>1. seq = sent + 1 /\ sent + 1 \in 1 .. MaxCalls /\ seq \in 0 .. CookieLimit - 1
  BY DEF CookieInv, CookiesSuffice
<1>2. QED
  BY <1>1 DEF Calls, InProgress, Pipe!ToWorker

\* What a send() does, whether it is recorded as a call or not.
LEMMA CookieSend ==
    ASSUME CookiesSuffice, CookieInv, Pipe!SendSync \/ Pipe!SendFails \/ Pipe!SendAsync
    PROVE  CookieInv'
<1> USE DEF Pipe!workerVars
<1>1. /\ sent < MaxCalls /\ sent' = sent + 1 /\ seq' = (seq + 1) % CookieLimit
      /\ UNCHANGED <<working, events, fromWorker>>
  BY DEF Pipe!SendSync, Pipe!SendFails, Pipe!SendAsync, Pipe!Send
<1>2. sent' \in 0 .. MaxCalls /\ seq' = sent' + 1
  <2>1. sent \in 0 .. MaxCalls /\ seq = sent + 1 /\ MaxCalls \in Nat
    BY DEF CookieInv, CookiesSuffice
  <2>2. (seq + 1) % CookieLimit = sent + 2
    BY <1>1, <2>1, NextCookie
  <2>3. QED
    BY <1>1, <2>1, <2>2
<1>3. callData \in Seq(InProgress) /\ toWorker \in Seq(Calls)
  BY DEF CookieInv
<1>4. toWorker' \in Seq(Calls)
  <2>1. UNCHANGED toWorker \/ \E k \in {"sync", "async"} :
            toWorker' = Append(toWorker, [kind |-> k, cookie |-> seq, call |-> sent + 1])
    BY DEF Pipe!SendSync, Pipe!SendFails, Pipe!SendAsync, Pipe!Send
  <2>2. CASE UNCHANGED toWorker
    BY <1>3, <2>2
  <2>3. ASSUME NEW k \in {"sync", "async"},
               toWorker' = Append(toWorker, [kind |-> k, cookie |-> seq, call |-> sent + 1])
        PROVE  toWorker' \in Seq(Calls)
    <3>1. PICK m \in Calls : m = [kind |-> k, cookie |-> seq, call |-> sent + 1]
      BY <1>1, NewCall
    <3>2. QED
      BY <1>3, <2>3, <3>1, AppendIndexing
  <2>4. QED
    BY <2>1, <2>2, <2>3
<1>5. callData' \in Seq(InProgress)
  <2>1. UNCHANGED callData \/ callData' =
            Append(callData, [cookie |-> seq, call |-> sent + 1, timer |-> TRUE, response |-> Pipe!None])
    BY DEF Pipe!SendSync, Pipe!SendFails, Pipe!SendAsync
  <2>2. PICK d \in InProgress :
            d = [cookie |-> seq, call |-> sent + 1, timer |-> TRUE, response |-> Pipe!None]
    BY <1>1, NewCall
  <2>3. Append(callData, d) \in Seq(InProgress)
    BY <1>3, AppendIndexing
  <2>4. QED
    BY <1>3, <2>1, <2>2, <2>3
<1>6. QED
  BY <1>1, <1>2, <1>4, <1>5 DEF CookieInv

\* An update of one entry.
LEMMA UpdateEntry ==
    ASSUME NEW S, NEW q \in Seq(S), NEW k \in 1 .. Len(q), NEW d \in S
    PROVE  /\ [q EXCEPT ![k] = d] \in Seq(S) /\ Len([q EXCEPT ![k] = d]) = Len(q)
           /\ [q EXCEPT ![k] = d][k] = d
           /\ \A i \in 1 .. Len(q) : i # k => [q EXCEPT ![k] = d][i] = q[i]
  OBVIOUS

\* What readyRead() does: an answer to a call in progress is stored with it.
LEMMA ReadyReadStores ==
    ASSUME CookiesSuffice, CookieInv, Pipe!readyRead
    PROVE  /\ fromWorker # <<>> /\ fromWorker' = Tail(fromWorker)
           /\ UNCHANGED <<seq, sent, toWorker, working, events>>
           /\ \E m \in Answers :
               /\ m = Head(fromWorker)
               /\ \/ UNCHANGED callData
                  \/ \E k \in 1 .. Len(callData), d \in InProgress :
                       /\ callData[k].cookie = m.cookie
                       /\ d.call = callData[k].call /\ d.response = m
                       /\ callData' = [callData EXCEPT ![k] = d]
<1> USE DEF Pipe!workerVars
<1>1. /\ fromWorker # <<>> /\ fromWorker' = Tail(fromWorker)
      /\ UNCHANGED <<seq, sent, toWorker, working, events>>
  BY DEF Pipe!readyRead
<1>2. fromWorker \in Seq(Answers) /\ callData \in Seq(InProgress)
  BY DEF CookieInv
<1>3. PICK m \in Answers : m = Head(fromWorker)
  BY <1>1, <1>2, TailIndexing
<1>4. CASE Pipe!Matching(m) = {}
  BY <1>1, <1>3, <1>4 DEF Pipe!readyRead
<1>5. CASE Pipe!Matching(m) # {}
  <2>1. Pipe!Matching(m) \in SUBSET Nat /\ Pipe!Matching(m) \subseteq 1 .. Len(callData)
    BY <1>2 DEF Pipe!Matching
  <2>2. PICK k \in Pipe!Matching(m) : k = Pipe!Min(Pipe!Matching(m))
    BY <1>5, <2>1, MinProperties DEF Min, Pipe!Min
  <2>3. k \in 1 .. Len(callData) /\ callData[k].cookie = m.cookie
    BY <2>1, <2>2 DEF Pipe!Matching
  <2>4. callData' = [callData EXCEPT ![k].response = m]
    BY <1>3, <1>5, <2>2 DEF Pipe!readyRead
  <2>5. callData[k] \in InProgress
    BY <1>2, <2>3
  <2>6. PICK d \in InProgress : d = [callData[k] EXCEPT !.response = m]
    BY <2>3, <2>5 DEF InProgress
  <2>7. callData' = [callData EXCEPT ![k] = d]
    BY <2>4, <2>6
  <2>8. d.call = callData[k].call /\ d.response = m
    BY <2>5, <2>6 DEF InProgress
  <2>9. QED
    BY <1>1, <1>3, <2>3, <2>7, <2>8
<1>6. QED
  BY <1>4, <1>5

\* What the steps of call() do that follow the sending.
LEMMA CallStep ==
    ASSUME CookieInv, \/ Pipe!CallReturn \/ Pipe!CallTimedOut
                      \/ \E i \in 1 .. MaxNesting : Pipe!TimeoutExpires(i)
    PROVE  /\ UNCHANGED <<seq, sent, toWorker, working, events, fromWorker>>
           /\ \/ callData # <<>> /\ callData' = SubSeq(callData, 1, Len(callData) - 1)
              \/ \E k \in 1 .. Len(callData), d \in InProgress :
                   /\ d.call = callData[k].call /\ d.response = callData[k].response
                   /\ callData' = [callData EXCEPT ![k] = d]
<1> USE DEF Pipe!workerVars
<1>1. UNCHANGED <<seq, sent, toWorker, working, events, fromWorker>>
  BY DEF Pipe!CallReturn, Pipe!CallTimedOut, Pipe!TimeoutExpires
<1>2. CASE Pipe!CallReturn \/ Pipe!CallTimedOut
  BY <1>1, <1>2 DEF Pipe!CallReturn, Pipe!CallTimedOut, Pipe!Front
<1>3. ASSUME NEW i \in 1 .. MaxNesting, Pipe!TimeoutExpires(i)
      PROVE  \E k \in 1 .. Len(callData), d \in InProgress :
                 /\ d.call = callData[k].call /\ d.response = callData[k].response
                 /\ callData' = [callData EXCEPT ![k] = d]
  <2>1. i \in 1 .. Len(callData) /\ callData' = [callData EXCEPT ![i].timer = FALSE]
    BY <1>3 DEF Pipe!TimeoutExpires
  <2>2. callData[i] \in InProgress
    BY <2>1 DEF CookieInv
  <2>3. PICK d \in InProgress : d = [callData[i] EXCEPT !.timer = FALSE]
    BY <2>2 DEF InProgress
  <2>4. callData' = [callData EXCEPT ![i] = d]
    BY <2>1, <2>3
  <2>5. d.call = callData[i].call /\ d.response = callData[i].response
    BY <2>2, <2>3 DEF InProgress
  <2>6. QED
    BY <2>1, <2>4, <2>5
<1>4. QED
  BY <1>1, <1>2, <1>3

\* A queue of calls stays one when an entry is replaced.
LEMMA CallsUpdated ==
    ASSUME callData \in Seq(InProgress),
           \E k \in 1 .. Len(callData), d \in InProgress : callData' = [callData EXCEPT ![k] = d]
    PROVE  callData' \in Seq(InProgress)
<1>1. PICK k \in 1 .. Len(callData), d \in InProgress : callData' = [callData EXCEPT ![k] = d]
  OBVIOUS
<1>2. QED
  BY <1>1, UpdateEntry

\* Every step keeps the cookies of calls in progress apart.
LEMMA CookieNext ==
    ASSUME CookiesSuffice, CookieInv, [Pipe!Next]_(Pipe!vars)
    PROVE  CookieInv'
<1> USE DEF Pipe!workerVars, Pipe!proxyVars
<1>1. CASE Pipe!SendSync \/ Pipe!SendFails \/ Pipe!SendAsync
  BY <1>1, CookieSend
<1>2. callData \in Seq(InProgress) /\ toWorker \in Seq(Calls) /\ fromWorker \in Seq(Answers)
  BY DEF CookieInv
<1>3. CASE Pipe!readyRead
  <2>1. fromWorker' \in Seq(Answers)
    <3>1. fromWorker # <<>> /\ fromWorker' = Tail(fromWorker)
      BY <1>3, ReadyReadStores
    <3>2. QED
      BY <1>2, <3>1, TailIndexing
  <2>2. UNCHANGED callData \/ \E k \in 1 .. Len(callData), d \in InProgress :
            callData' = [callData EXCEPT ![k] = d]
    BY <1>3, ReadyReadStores
  <2>3. callData' \in Seq(InProgress)
    BY <1>2, <2>2, CallsUpdated
  <2>4. UNCHANGED <<seq, sent, toWorker, working, events>>
    BY <1>3, ReadyReadStores
  <2>5. QED
    BY <2>1, <2>3, <2>4 DEF CookieInv
<1>4. CASE \/ Pipe!CallReturn \/ Pipe!CallTimedOut
           \/ \E i \in 1 .. MaxNesting : Pipe!TimeoutExpires(i)
  <2>1. \/ callData # <<>> /\ callData' = SubSeq(callData, 1, Len(callData) - 1)
        \/ \E k \in 1 .. Len(callData), d \in InProgress : callData' = [callData EXCEPT ![k] = d]
    BY <1>4, CallStep
  <2>2. callData' \in Seq(InProgress)
    <3>1. CASE callData # <<>> /\ callData' = SubSeq(callData, 1, Len(callData) - 1)
      BY <1>2, <3>1, FrontIndexing
    <3>2. CASE \E k \in 1 .. Len(callData), d \in InProgress : callData' = [callData EXCEPT ![k] = d]
      BY <1>2, <3>2, CallsUpdated
    <3>3. QED
      BY <2>1, <3>1, <3>2
  <2>3. UNCHANGED <<seq, sent, toWorker, working, events, fromWorker>>
    BY <1>4, CallStep
  <2>4. QED
    BY <2>2, <2>3 DEF CookieInv
<1>5. CASE Pipe!WorkerReceive
  <2>1. toWorker # <<>> /\ working' = Head(toWorker) /\ toWorker' = Tail(toWorker)
        /\ UNCHANGED <<seq, sent, callData, events, fromWorker>>
    BY <1>5 DEF Pipe!WorkerReceive
  <2>2. working' \in Calls /\ toWorker' \in Seq(Calls)
    BY <1>2, <2>1, TailIndexing
  <2>3. QED
    BY <2>1, <2>2 DEF CookieInv
<1>6. CASE Pipe!WorkerEvent
  <2>1. /\ working # Pipe!None /\ events' = events + 1 /\ UNCHANGED <<seq, sent, callData, toWorker, working>>
        /\ fromWorker' = Append(fromWorker, [kind |-> "event", cookie |-> 0, call |-> working.call])
    BY <1>6 DEF Pipe!WorkerEvent
  <2>2. working.call \in 1 .. MaxCalls
    BY <2>1, NoneIsNoMessage DEF CookieInv
  <2>3. [kind |-> "event", cookie |-> 0, call |-> working.call] \in Answers
    BY <2>2 DEF Answers, Pipe!FromWorker, CookiesSuffice
  <2>4. fromWorker' \in Seq(Answers)
    BY <1>2, <2>1, <2>3, AppendIndexing
  <2>5. QED
    BY <2>1, <2>4 DEF CookieInv
<1>7. CASE Pipe!WorkerDone
  <2>1. /\ working # Pipe!None /\ working' = Pipe!None /\ UNCHANGED <<seq, sent, callData, toWorker, events>>
        /\ \/ UNCHANGED fromWorker
           \/ fromWorker' = Append(fromWorker,
                  [kind |-> "reply", cookie |-> working.cookie, call |-> working.call])
    BY <1>7 DEF Pipe!WorkerDone
  <2>2. working.call \in 1 .. MaxCalls /\ working.cookie = working.call
    BY <2>1, NoneIsNoMessage DEF CookieInv
  <2>3. [kind |-> "reply", cookie |-> working.cookie, call |-> working.call] \in Answers
    BY <2>2 DEF Answers, Pipe!FromWorker, CookiesSuffice
  <2>4. fromWorker' \in Seq(Answers)
    BY <1>2, <2>1, <2>3, AppendIndexing
  <2>5. QED
    BY <2>1, <2>4 DEF CookieInv
<1>8. CASE UNCHANGED Pipe!vars
  BY <1>8 DEF Pipe!vars, CookieInv
<1>9. QED
  BY <1>1, <1>3, <1>4, <1>5, <1>6, <1>7, <1>8 DEF Pipe!Next, Pipe!Proxy, Pipe!Worker

\* The cookie of an answer tells the call it belongs to.
LEMMA CookieInvMatch == CookieInv => RepliesMatch
<1> SUFFICES ASSUME CookieInv, NEW i \in 1 .. Len(callData), callData[i].response # Pipe!None
             PROVE  callData[i].response.kind = "reply" /\ callData[i].response.call = callData[i].call
  BY DEF RepliesMatch, Pipe!RepliesMatch
<1>1. callData[i] \in InProgress
  BY DEF CookieInv
<1>2. callData[i].response \in Answers /\ callData[i].response.cookie = callData[i].call /\ callData[i].call \in 1 .. MaxCalls
  BY <1>1 DEF InProgress
<1>3. QED
  BY <1>2, NoneIsNoMessage

\* A synchronous call of IPCPipeUnixSocket gets the answer of its own, however calls are
\* nested, time out and interleave with events, as long as the cookies last.
THEOREM CallsGetTheirAnswers ==
    ASSUME CookiesSuffice
    PROVE  Pipe!Spec => []RepliesMatch
<1>1. QED
  BY CookieInit, CookieNext, CookieInvMatch, PTL DEF Pipe!Spec

\* The call numbers of the messages are numbers.
LEMMA CallNumbers ==
    ASSUME CookieInv
    PROVE  /\ sent \in Nat /\ Len(toWorker) \in Nat /\ Len(fromWorker) \in Nat /\ Len(callData) \in Nat
           /\ \A i \in 1 .. Len(toWorker) : toWorker[i].call \in Nat
           /\ \A i \in 1 .. Len(fromWorker) : fromWorker[i].call \in Nat
           /\ working # Pipe!None => working.call \in Nat
           /\ \A i \in 1 .. Len(callData) : callData[i].response # Pipe!None => callData[i].response.call \in Nat
<1>1. /\ sent \in 0 .. MaxCalls /\ toWorker \in Seq(Calls) /\ fromWorker \in Seq(Answers)
      /\ callData \in Seq(InProgress) /\ working \in Calls \cup {Pipe!None}
  BY DEF CookieInv
<1>2. /\ sent \in Nat /\ Len(toWorker) \in Nat /\ Len(fromWorker) \in Nat /\ Len(callData) \in Nat
      /\ \A i \in 1 .. Len(toWorker) : toWorker[i] \in Calls
      /\ \A i \in 1 .. Len(fromWorker) : fromWorker[i] \in Answers
      /\ \A i \in 1 .. Len(callData) : callData[i] \in InProgress
  BY <1>1
<1>3. \A d \in InProgress : d.response \in Answers \cup {Pipe!None}
  BY DEF InProgress
<1>4. /\ \A m \in Calls : m.call \in Nat
      /\ \A m \in Answers : m.call \in Nat
  BY NoneIsNoMessage
<1>5. QED
  BY <1>1, <1>2, <1>3, <1>4

\* Sending keeps the order of calls and answers;
LEMMA OrderSend ==
    ASSUME CookieInv, OrderOfCalls, AnswersAreLast,
           Pipe!SendSync \/ Pipe!SendFails \/ Pipe!SendAsync
    PROVE  OrderOfCalls' /\ AnswersAreLast'
<1> USE DEF Pipe!workerVars
<1>1. sent' = sent + 1 /\ UNCHANGED <<working, fromWorker>> /\ sent \in Nat
  BY CallNumbers DEF Pipe!SendSync, Pipe!SendFails, Pipe!SendAsync, Pipe!Send
<1>2. /\ \A i \in 1 .. Len(toWorker') :
            \/ i \in 1 .. Len(toWorker) /\ toWorker'[i] = toWorker[i]
            \/ toWorker'[i].call = sent + 1 /\ i = Len(toWorker) + 1
      /\ Len(toWorker) \in Nat
  <2>1. UNCHANGED toWorker \/ \E k \in {"sync", "async"} :
            toWorker' = Append(toWorker, [kind |-> k, cookie |-> seq, call |-> sent + 1])
    BY DEF Pipe!SendSync, Pipe!SendFails, Pipe!SendAsync, Pipe!Send
  <2>2. toWorker \in Seq(Calls) /\ Len(toWorker) \in Nat
    BY DEF CookieInv
  <2>3. ASSUME NEW k, toWorker' = Append(toWorker, [kind |-> k, cookie |-> seq, call |-> sent + 1])
        PROVE  \A i \in 1 .. Len(toWorker') :
                 \/ i \in 1 .. Len(toWorker) /\ toWorker'[i] = toWorker[i]
                 \/ toWorker'[i].call = sent + 1 /\ i = Len(toWorker) + 1
    BY <2>2, <2>3
  <2>4. QED
    BY <2>1, <2>2, <2>3
<1>3. /\ \A i \in 1 .. Len(callData') :
            \/ i \in 1 .. Len(callData) /\ callData'[i] = callData[i]
            \/ callData'[i].response = Pipe!None
  <2>1. UNCHANGED callData \/ callData' =
            Append(callData, [cookie |-> seq, call |-> sent + 1, timer |-> TRUE, response |-> Pipe!None])
    BY DEF Pipe!SendSync, Pipe!SendFails, Pipe!SendAsync
  <2>2. callData \in Seq(InProgress)
    BY DEF CookieInv
  <2>3. QED
    BY <2>1, <2>2
<1>4. OrderOfCalls'
  <2>1. \A i \in 1 .. Len(toWorker') : toWorker'[i].call <= sent'
    <3>1. \A i \in 1 .. Len(toWorker) : toWorker[i].call \in Nat /\ toWorker[i].call <= sent
      BY CallNumbers DEF OrderOfCalls
    <3>2. QED
      BY <1>1, <1>2, <3>1
  <2>2. ASSUME NEW i \in 1 .. Len(toWorker'), NEW j \in 1 .. Len(toWorker'), i < j
        PROVE  toWorker'[i].call < toWorker'[j].call
    <3>0. i \in 1 .. Len(toWorker) /\ toWorker'[i] = toWorker[i]
      BY <1>2, <2>2
    <3>1. i \in 1 .. Len(toWorker) /\ toWorker'[i] = toWorker[i] /\ toWorker[i].call \in Nat
      BY <3>0, CallNumbers
    <3>2. CASE j \in 1 .. Len(toWorker) /\ toWorker'[j] = toWorker[j]
      BY <2>2, <3>1, <3>2 DEF OrderOfCalls
    <3>3. CASE toWorker'[j].call = sent + 1
      <4>1. toWorker[i].call <= sent
        BY <3>1 DEF OrderOfCalls
      <4>2. QED
        BY <1>1, <3>1, <3>3, <4>1
    <3>4. QED
      BY <1>2, <3>2, <3>3
  <2>3. ASSUME working' # Pipe!None
        PROVE  /\ working'.call <= sent'
               /\ \A i \in 1 .. Len(toWorker') : working'.call < toWorker'[i].call
    <3>1. /\ working.call \in Nat /\ working.call <= sent
          /\ \A i \in 1 .. Len(toWorker) : working.call < toWorker[i].call
      BY <1>1, <2>3, CallNumbers DEF OrderOfCalls
    <3>2. QED
      BY <1>1, <1>2, <3>1
  <2>4. \A k \in 1 .. Len(fromWorker') :
           /\ fromWorker'[k].call <= sent'
           /\ \A i \in 1 .. Len(toWorker') : fromWorker'[k].call < toWorker'[i].call
    BY <1>1, <1>2, CallNumbers DEF OrderOfCalls
  <2>5. QED
    BY <1>1, <2>1, <2>2, <2>3, <2>4 DEF OrderOfCalls
<1>5. AnswersAreLast'
  <2>1. SUFFICES ASSUME NEW i \in 1 .. Len(callData'), callData'[i].response # Pipe!None
                 PROVE  LET c == callData'[i].response.call IN
                        /\ c <= sent'
                        /\ working' # Pipe!None => c < working'.call
                        /\ \A k \in 1 .. Len(toWorker') : c < toWorker'[k].call
                        /\ \A k \in 1 .. Len(fromWorker') : c < fromWorker'[k].call
    BY DEF AnswersAreLast
  <2>2. i \in 1 .. Len(callData) /\ callData'[i] = callData[i]
    BY <1>3, <2>1
  <2>3. PICK c \in Nat : c = callData[i].response.call
    BY <2>1, <2>2, CallNumbers
  <2>4. /\ c <= sent
        /\ working # Pipe!None => c < working.call
        /\ \A k \in 1 .. Len(toWorker) : c < toWorker[k].call
        /\ \A k \in 1 .. Len(fromWorker) : c < fromWorker[k].call
    BY <2>1, <2>2, <2>3 DEF AnswersAreLast
  <2>5. /\ c <= sent'
        /\ \A k \in 1 .. Len(toWorker') : c < toWorker'[k].call
    BY <1>1, <1>2, <2>4
  <2>6. QED
    BY <1>1, <2>2, <2>3, <2>4, <2>5
<1>6. QED
  BY <1>4, <1>5

\* An answer is the last message of its call, so that what follows it in the socket is
\* of later calls.
LEMMA OrderReadyRead ==
    ASSUME CookiesSuffice, CookieInv, OrderOfCalls, AnswersAreLast, Pipe!readyRead
    PROVE  OrderOfCalls' /\ AnswersAreLast'
<1>1. fromWorker # <<>> /\ fromWorker' = Tail(fromWorker) /\ UNCHANGED <<sent, toWorker, working>>
  BY ReadyReadStores
<1>2. fromWorker \in Seq(Answers) /\ callData \in Seq(InProgress)
  BY DEF CookieInv
<1>3. /\ Len(fromWorker') = Len(fromWorker) - 1 /\ Len(fromWorker) \in Nat \ {0}
      /\ Head(fromWorker) = fromWorker[1]
      /\ \A i \in 1 .. Len(fromWorker') : i + 1 \in 1 .. Len(fromWorker) /\ fromWorker'[i] = fromWorker[i + 1]
  BY <1>1, <1>2, TailIndexing
<1>4. OrderOfCalls'
  BY <1>1, <1>3, CallNumbers DEF OrderOfCalls
<1>5. \A i \in 1 .. Len(callData') :
          \/ i \in 1 .. Len(callData) /\ callData'[i].response = callData[i].response
          \/ callData'[i].response = fromWorker[1] /\ fromWorker[1].kind = "reply"
  <2>1. CASE UNCHANGED callData
    BY <2>1
  <2>2. ASSUME NEW k \in 1 .. Len(callData), NEW d \in InProgress,
               callData[k].cookie = Head(fromWorker).cookie,
               d.call = callData[k].call /\ d.response = Head(fromWorker),
               callData' = [callData EXCEPT ![k] = d]
        PROVE  \A i \in 1 .. Len(callData') :
                  \/ i \in 1 .. Len(callData) /\ callData'[i].response = callData[i].response
                  \/ callData'[i].response = fromWorker[1] /\ fromWorker[1].kind = "reply"
    <3>1. Len(callData') = Len(callData) /\ callData'[k] = d
          /\ \A i \in 1 .. Len(callData) : i # k => callData'[i] = callData[i]
      BY <1>2, <2>2, UpdateEntry
    <3>2. fromWorker[1] \in Answers /\ callData[k] \in InProgress
      BY <1>2, <1>3
    <3>3. callData[k].cookie \in Nat \ {0}
      BY <3>2 DEF InProgress
    <3>4. fromWorker[1].kind = "reply"
      BY <1>3, <2>2, <3>2, <3>3, NoneIsNoMessage
    <3>5. QED
      BY <1>3, <2>2, <3>1, <3>4
  <2>3. QED
    BY <2>1, <2>2, ReadyReadStores
<1>6. AnswersAreLast'
  <2>1. 1 \in 1 .. Len(fromWorker) /\ \A i \in 1 .. Len(fromWorker') : 1 < i + 1
    BY <1>3
  <2>2. fromWorker[1].kind = "reply" =>
          LET c == fromWorker[1].call IN
          /\ c <= sent
          /\ working # Pipe!None => c < working.call
          /\ \A k \in 1 .. Len(toWorker) : c < toWorker[k].call
          /\ \A k \in 1 .. Len(fromWorker') : c < fromWorker'[k].call
    BY <1>3, <2>1 DEF OrderOfCalls
  <2>3. QED
    BY <1>1, <1>3, <1>5, <2>2 DEF AnswersAreLast
<1>7. QED
  BY <1>4, <1>6

\* so do the return and the timeout of a call,
LEMMA OrderCall ==
    ASSUME CookieInv, OrderOfCalls, AnswersAreLast,
           \/ Pipe!CallReturn \/ Pipe!CallTimedOut
           \/ \E i \in 1 .. MaxNesting : Pipe!TimeoutExpires(i)
    PROVE  OrderOfCalls' /\ AnswersAreLast'
<1>1. UNCHANGED <<sent, toWorker, working, fromWorker>>
  BY CallStep
<1>2. callData \in Seq(InProgress)
  BY DEF CookieInv
<1>3. \A i \in 1 .. Len(callData') : i \in 1 .. Len(callData) /\ callData'[i].response = callData[i].response
  <2>1. CASE callData # <<>> /\ callData' = SubSeq(callData, 1, Len(callData) - 1)
    BY <1>2, <2>1, FrontIndexing
  <2>2. ASSUME NEW k \in 1 .. Len(callData), NEW d \in InProgress,
               d.response = callData[k].response, callData' = [callData EXCEPT ![k] = d]
        PROVE  \A i \in 1 .. Len(callData') : i \in 1 .. Len(callData) /\ callData'[i].response = callData[i].response
    <3>1. Len(callData') = Len(callData) /\ callData'[k] = d
          /\ \A i \in 1 .. Len(callData) : i # k => callData'[i] = callData[i]
      BY <1>2, <2>2, UpdateEntry
    <3>2. QED
      BY <2>2, <3>1
  <2>3. QED
    BY <2>1, <2>2, CallStep
<1>4. OrderOfCalls'
  BY <1>1 DEF OrderOfCalls
<1>5. AnswersAreLast'
  BY <1>1, <1>3 DEF AnswersAreLast
<1>6. QED
  BY <1>4, <1>5

\* and the worker, which answers after the events of the call.
LEMMA OrderWorker ==
    ASSUME CookiesSuffice, CookieInv, OrderOfCalls, AnswersAreLast, Pipe!Worker
    PROVE  OrderOfCalls' /\ AnswersAreLast'
<1> USE DEF Pipe!workerVars, Pipe!proxyVars
<1>1. UNCHANGED <<sent, callData>>
  BY DEF Pipe!Worker, Pipe!WorkerReceive, Pipe!WorkerEvent, Pipe!WorkerDone
<1>2. toWorker \in Seq(Calls) /\ fromWorker \in Seq(Answers)
  BY DEF CookieInv
<1>3. CASE Pipe!WorkerReceive
  <2>1. /\ working' = Head(toWorker) /\ toWorker # <<>> /\ toWorker' = Tail(toWorker) /\ UNCHANGED fromWorker
    BY <1>3 DEF Pipe!WorkerReceive
  <2>2. /\ Len(toWorker') = Len(toWorker) - 1 /\ Len(toWorker) \in Nat \ {0} /\ working' = toWorker[1]
        /\ \A i \in 1 .. Len(toWorker') : i + 1 \in 1 .. Len(toWorker) /\ toWorker'[i] = toWorker[i + 1]
        /\ 1 \in 1 .. Len(toWorker) /\ \A i \in 1 .. Len(toWorker') : 1 < i + 1
    BY <1>2, <2>1, TailIndexing
  <2>3. OrderOfCalls'
    <3>1. /\ \A i \in 1 .. Len(toWorker') : toWorker'[i].call <= sent
          /\ \A i, j \in 1 .. Len(toWorker') : i < j => toWorker'[i].call < toWorker'[j].call
          /\ working'.call <= sent
          /\ \A i \in 1 .. Len(toWorker') : working'.call < toWorker'[i].call
      <4>1. /\ \A i \in 1 .. Len(toWorker) : toWorker[i].call <= sent
            /\ \A i, j \in 1 .. Len(toWorker) : i < j => toWorker[i].call < toWorker[j].call
        BY DEF OrderOfCalls
      <4>2. \A i, j \in 1 .. Len(toWorker') : i < j => i + 1 < j + 1
        BY <2>2
      <4>3. QED
        BY <2>2, <4>1, <4>2
    <3>2. \A k \in 1 .. Len(fromWorker) :
             /\ fromWorker[k].call <= sent
             /\ \A i \in 1 .. Len(toWorker') : fromWorker[k].call < toWorker'[i].call
             /\ fromWorker[k].call < working'.call
      BY <2>2 DEF OrderOfCalls
    <3>3. \A k \in 1 .. Len(fromWorker) : fromWorker[k].call <= working'.call
      BY <3>2, <2>2, CallNumbers
    <3>4. QED
      BY <1>1, <2>1, <3>1, <3>2, <3>3 DEF OrderOfCalls
  <2>4. AnswersAreLast'
    BY <1>1, <2>1, <2>2 DEF AnswersAreLast
  <2>5. QED
    BY <2>3, <2>4
<1>4. ASSUME working # Pipe!None, UNCHANGED toWorker, working' \in {working, Pipe!None},
             UNCHANGED fromWorker
      PROVE  OrderOfCalls' /\ AnswersAreLast'
  BY <1>1, <1>4 DEF OrderOfCalls, AnswersAreLast
<1>5. ASSUME working # Pipe!None, UNCHANGED toWorker, NEW m \in Answers, m.call = working.call,
             fromWorker' = Append(fromWorker, m),
             (m.kind = "event" /\ working' = working) \/ working' = Pipe!None
      PROVE  OrderOfCalls' /\ AnswersAreLast'
  <2>1. /\ Len(fromWorker') = Len(fromWorker) + 1 /\ Len(fromWorker) \in Nat
        /\ fromWorker'[Len(fromWorker) + 1] = m
        /\ \A i \in 1 .. Len(fromWorker) : fromWorker'[i] = fromWorker[i]
    BY <1>2, <1>5, AppendIndexing
  <2>2. \A i \in 1 .. Len(fromWorker') :
            \/ i \in 1 .. Len(fromWorker) /\ fromWorker'[i] = fromWorker[i]
            \/ i = Len(fromWorker) + 1 /\ fromWorker'[i] = m
    BY <2>1
  <2>3. working.call \in Nat /\ m.call \in Nat
    BY <1>5, CallNumbers
  <2>4. \A k \in 1 .. Len(fromWorker') :
           /\ fromWorker'[k].call <= sent
           /\ \A i \in 1 .. Len(toWorker) : fromWorker'[k].call < toWorker[i].call
           /\ working' # Pipe!None =>
                  /\ fromWorker'[k].call <= working'.call
                  /\ fromWorker'[k].kind = "reply" => fromWorker'[k].call < working'.call
    BY <1>5, <2>2, <2>3 DEF OrderOfCalls
  <2>5. \A k, l \in 1 .. Len(fromWorker') : k < l =>
           /\ fromWorker'[k].call <= fromWorker'[l].call
           /\ fromWorker'[k].kind = "reply" => fromWorker'[k].call < fromWorker'[l].call
    BY <1>5, <2>1, <2>2, <2>3 DEF OrderOfCalls
  <2>6. OrderOfCalls'
    BY <1>1, <1>5, <2>4, <2>5 DEF OrderOfCalls
  <2>7. AnswersAreLast'
    BY <1>1, <1>5, <2>2, <2>3 DEF AnswersAreLast
  <2>8. QED
    BY <2>6, <2>7
<1>6. CASE Pipe!WorkerEvent
  <2>1. /\ working # Pipe!None /\ UNCHANGED <<toWorker, working>>
        /\ fromWorker' = Append(fromWorker, [kind |-> "event", cookie |-> 0, call |-> working.call])
    BY <1>6 DEF Pipe!WorkerEvent
  <2>2. working.call \in 1 .. MaxCalls /\ working.cookie \in 0 .. CookieLimit - 1
    BY <2>1 DEF CookieInv, Calls, Pipe!ToWorker
  <2>3. PICK m \in Answers : m = [kind |-> "event", cookie |-> 0, call |-> working.call]
    <3>1. 0 \in 0 .. CookieLimit - 1
      BY DEF CookiesSuffice
    <3>2. QED
      BY <2>2, <3>1 DEF Answers, Pipe!FromWorker
  <2>4. QED
    BY <1>5, <2>1, <2>3
<1>7. CASE Pipe!WorkerDone
  <2>1. /\ working # Pipe!None /\ working' = Pipe!None /\ UNCHANGED toWorker
        /\ \/ UNCHANGED fromWorker
           \/ fromWorker' = Append(fromWorker,
                  [kind |-> "reply", cookie |-> working.cookie, call |-> working.call])
    BY <1>7 DEF Pipe!WorkerDone
  <2>2. /\ working.call \in 1 .. MaxCalls /\ working.cookie \in 0 .. CookieLimit - 1
        /\ working.cookie = working.call
    BY <2>1 DEF CookieInv, Calls, Pipe!ToWorker
  <2>3. PICK m \in Answers : m = [kind |-> "reply", cookie |-> working.cookie, call |-> working.call]
    BY <2>2 DEF Answers, Pipe!FromWorker
  <2>4. QED
    BY <1>4, <1>5, <2>1, <2>3
<1>8. QED
  BY <1>3, <1>6, <1>7 DEF Pipe!Worker

\* Every step keeps the order.
LEMMA OrderNext ==
    ASSUME CookiesSuffice, CookieInv, OrderOfCalls, AnswersAreLast, [Pipe!Next]_(Pipe!vars)
    PROVE  OrderOfCalls' /\ AnswersAreLast'
<1>1. CASE UNCHANGED Pipe!vars
  <2>1. UNCHANGED <<sent, toWorker, working, fromWorker, callData>>
    BY <1>1 DEF Pipe!vars, Pipe!proxyVars, Pipe!workerVars
  <2>2. QED
    BY <2>1 DEF OrderOfCalls, AnswersAreLast
<1>2. QED
  BY <1>1, OrderSend, OrderReadyRead, OrderCall, OrderWorker DEF Pipe!Next, Pipe!Proxy

\* The order holds at first.
LEMMA OrderInit == Pipe!Init => OrderOfCalls /\ AnswersAreLast
<1> SUFFICES ASSUME Pipe!Init PROVE OrderOfCalls /\ AnswersAreLast
  OBVIOUS
<1>1. /\ callData = <<>> /\ toWorker = <<>> /\ fromWorker = <<>> /\ working = Pipe!None
  BY DEF Pipe!Init
<1>2. Len(callData) = 0 /\ Len(toWorker) = 0 /\ Len(fromWorker) = 0
  BY <1>1, EmptySeq
<1>3. QED
  BY <1>1, <1>2 DEF OrderOfCalls, AnswersAreLast

\* When a synchronous call returns with its answer, every event that the IPA sent
\* before answering has been delivered to its handler.
THEOREM EventsPrecedeAnswers ==
    ASSUME CookiesSuffice
    PROVE  Pipe!Spec => Pipe!EventsBeforeReply
<1>1. ASSUME CookieInv, AnswersAreLast, callData # <<>>, Pipe!Last(callData).response # Pipe!None,
             NEW i \in 1 .. Len(fromWorker)
      PROVE  /\ fromWorker[i].call >= Pipe!Last(callData).call
             /\ fromWorker[i].call = Pipe!Last(callData).call => fromWorker[i].kind # "event"
  <2>1. PICK n \in 1 .. Len(callData) : Pipe!Last(callData) = callData[n]
    <3>1. callData \in Seq(InProgress)
      BY <1>1 DEF CookieInv
    <3>2. Len(callData) \in 1 .. Len(callData)
      BY <1>1, <3>1
    <3>3. QED
      BY <3>2 DEF Pipe!Last
  <2>2. callData[n].response.call = callData[n].call
    BY <1>1, <2>1, CookieInvMatch DEF RepliesMatch, Pipe!RepliesMatch
  <2>3. callData[n].call < fromWorker[i].call
    BY <1>1, <2>1, <2>2 DEF AnswersAreLast
  <2>4. fromWorker[i].call \in Nat /\ callData[n].call \in Nat
    BY <1>1, <2>1, <2>2, CallNumbers
  <2>5. QED
    BY <2>1, <2>3, <2>4
<1>2. ASSUME CookieInv, AnswersAreLast, [Pipe!Next]_(Pipe!vars), CookieInv'
      PROVE  [Len(callData') < Len(callData) /\ Pipe!Last(callData).response # Pipe!None =>
                \A i \in 1 .. Len(fromWorker) : fromWorker[i].call >= Pipe!Last(callData).call
                  /\ (fromWorker[i].call = Pipe!Last(callData).call => fromWorker[i].kind # "event")]_(Pipe!vars)
  <2>1. Len(callData') < Len(callData) => callData # <<>>
    <3>1. Len(callData') \in Nat
      BY <1>2 DEF CookieInv
    <3>2. QED
      BY <3>1, EmptySeq
  <2>2. QED
    BY <1>1, <1>2, <2>1
<1>3. QED
  BY <1>2, CookieInit, CookieNext, OrderInit, OrderNext, PTL DEF Pipe!Spec, Pipe!EventsBeforeReply

-----------------------------------------------------------------------------
(***************************************************************************)
(* The notifiers.                                                          *)
(***************************************************************************)

PollFd == [fd : Notifiers!Fd, revents : SUBSET Notifiers!Type, nval : BOOLEAN]

\* The invariant of the notifiers holds at first.
LEMMA NotifierTypeInit == ASSUME NotifierConstants PROVE Notifiers!Init => NotifierInv
<1> SUFFICES ASSUME Notifiers!Init PROVE NotifierInv
  OBVIOUS
<1>1. rounds = <<>> /\ <<>> \in Seq(Notifiers!Round)
  BY EmptySeq DEF Notifiers!Init
<1>2. Notifiers!TypeOK
  BY <1>1 DEF Notifiers!Init, Notifiers!TypeOK, Notifiers!NoSet
<1>3. RegisteredEnabled
  BY DEF Notifiers!Init, Notifiers!NoSet, RegisteredEnabled
<1>4. QED
  BY <1>2, <1>3 DEF NotifierInv

\* setEnabled(): what the map holds stays registered at its place.
LEMMA NotifierEnable ==
    ASSUME NotifierConstants, NotifierInv, NEW n \in Notifier, Notifiers!Enable(n)
    PROVE  NotifierInv' /\ keys \subseteq keys' /\ UNCHANGED <<processing, rounds>>
<1> USE DEF Notifiers!kernelVars
<1>1. /\ enabled' = enabled \cup {n} /\ keys' = keys \cup {FdOf[n]}
      /\ notifiers' = [notifiers EXCEPT ![FdOf[n]][TypeOf[n]] = IF @ = NoNotifier THEN n ELSE @]
      /\ UNCHANGED <<processing, rounds, ready, invalid>>
  BY DEF Notifiers!Enable
<1>2. FdOf[n] \in Notifiers!Fd /\ TypeOf[n] \in Notifiers!Type
  BY DEF NotifierConstants
<1>3. notifiers \in [Notifiers!Fd -> [Notifiers!Type -> Notifier \cup {NoNotifier}]]
  BY DEF NotifierInv, Notifiers!TypeOK
<1>4. /\ notifiers' \in [Notifiers!Fd -> [Notifiers!Type -> Notifier \cup {NoNotifier}]]
      /\ notifiers'[FdOf[n]][TypeOf[n]] \in {n, notifiers[FdOf[n]][TypeOf[n]]}
      /\ \A f \in Notifiers!Fd, t \in Notifiers!Type :
            f # FdOf[n] \/ t # TypeOf[n] => notifiers'[f][t] = notifiers[f][t]
  BY <1>1, <1>2, <1>3
<1>5. Notifiers!TypeOK'
  BY <1>1, <1>2, <1>4 DEF NotifierInv, Notifiers!TypeOK
<1>6. RegisteredEnabled'
  <2>1. SUFFICES ASSUME NEW f \in Notifiers!Fd, NEW t \in Notifiers!Type, notifiers'[f][t] # NoNotifier
                 PROVE  /\ notifiers'[f][t] \in enabled'
                        /\ FdOf[notifiers'[f][t]] = f /\ TypeOf[notifiers'[f][t]] = t
    BY DEF RegisteredEnabled
  <2>2. CASE f = FdOf[n] /\ t = TypeOf[n] /\ notifiers'[f][t] = n
    BY <1>1, <2>2
  <2>3. CASE ~(f = FdOf[n] /\ t = TypeOf[n] /\ notifiers'[f][t] = n)
    <3>1. notifiers'[f][t] = notifiers[f][t]
      BY <1>4, <2>3
    <3>2. QED
      BY <1>1, <2>1, <3>1 DEF NotifierInv, RegisteredEnabled
  <2>4. QED
    BY <2>2, <2>3
<1>7. QED
  BY <1>1, <1>5, <1>6 DEF NotifierInv

\* While a round runs, disabling a notifier erases no entry.
LEMMA NotifierDisable ==
    ASSUME NotifierConstants, NotifierInv, NEW n \in Notifier, Notifiers!Disable(n)
    PROVE  /\ NotifierInv' /\ UNCHANGED <<processing, rounds>>
           /\ processing => UNCHANGED keys
<1> USE DEF Notifiers!kernelVars
<1>1. /\ enabled' = enabled \ {n} /\ notifiers' = Notifiers!Unregister(n)
      /\ keys' \subseteq keys /\ (processing => UNCHANGED keys)
      /\ UNCHANGED <<processing, rounds, ready, invalid>>
  BY DEF Notifiers!Disable
<1>2. FdOf[n] \in Notifiers!Fd /\ TypeOf[n] \in Notifiers!Type
  BY DEF NotifierConstants
<1>3. notifiers \in [Notifiers!Fd -> [Notifiers!Type -> Notifier \cup {NoNotifier}]]
  BY DEF NotifierInv, Notifiers!TypeOK
<1>4. /\ notifiers' \in [Notifiers!Fd -> [Notifiers!Type -> Notifier \cup {NoNotifier}]]
      /\ notifiers'[FdOf[n]][TypeOf[n]] # n
      /\ \A f \in Notifiers!Fd, t \in Notifiers!Type :
            notifiers'[f][t] = notifiers[f][t] \/ notifiers'[f][t] = NoNotifier
  <2>1. CASE notifiers[FdOf[n]][TypeOf[n]] = n
    <3>1. notifiers' = [notifiers EXCEPT ![FdOf[n]][TypeOf[n]] = NoNotifier]
      BY <1>1, <2>1 DEF Notifiers!Unregister
    <3>2. QED
      BY <1>2, <1>3, <3>1 DEF NotifierConstants
  <2>2. CASE notifiers[FdOf[n]][TypeOf[n]] # n
    BY <1>1, <1>3, <2>2 DEF Notifiers!Unregister
  <2>3. QED
    BY <2>1, <2>2
<1>5. Notifiers!TypeOK'
  BY <1>1, <1>4 DEF NotifierInv, Notifiers!TypeOK
<1>6. RegisteredEnabled'
  <2>1. SUFFICES ASSUME NEW f \in Notifiers!Fd, NEW t \in Notifiers!Type, notifiers'[f][t] # NoNotifier
                 PROVE  /\ notifiers'[f][t] \in enabled'
                        /\ FdOf[notifiers'[f][t]] = f /\ TypeOf[notifiers'[f][t]] = t
    BY DEF RegisteredEnabled
  <2>2. notifiers'[f][t] = notifiers[f][t]
    BY <1>4, <2>1
  <2>3. notifiers[f][t] \in enabled /\ FdOf[notifiers[f][t]] = f /\ TypeOf[notifiers[f][t]] = t
    BY <2>1, <2>2 DEF NotifierInv, RegisteredEnabled
  <2>4. notifiers[f][t] # n
    BY <1>4, <2>2, <2>3
  <2>5. QED
    BY <1>1, <2>2, <2>3, <2>4
<1>7. QED
  BY <1>1, <1>5, <1>6 DEF NotifierInv

\* The kernel changes neither the map nor the rounds.
LEMMA NotifierKernel ==
    ASSUME NotifierInv,
           \/ UNCHANGED Notifiers!vars
           \/ \E f \in Notifiers!Fd : \/ Notifiers!Close(f)
                                      \/ \E t \in Notifiers!Type : Notifiers!Occur(f, t) \/ Notifiers!Consume(f, t)
    PROVE  NotifierInv' /\ UNCHANGED <<enabled, notifiers, keys, processing, rounds>>
<1> USE DEF Notifiers!kernelVars
<1>1. UNCHANGED <<enabled, notifiers, keys, processing, rounds>>
  BY DEF Notifiers!vars, Notifiers!Close, Notifiers!Occur, Notifiers!Consume
<1>2. ready' \subseteq Notifiers!Fd \X Notifiers!Type /\ invalid' \subseteq Notifiers!Fd
  <2>1. ready \subseteq Notifiers!Fd \X Notifiers!Type /\ invalid \subseteq Notifiers!Fd
    BY DEF NotifierInv, Notifiers!TypeOK
  <2>2. ASSUME NEW f \in Notifiers!Fd, Notifiers!Close(f)
        PROVE  ready' \subseteq ready /\ invalid' \subseteq Notifiers!Fd
    BY <2>1, <2>2 DEF Notifiers!Close
  <2>3. ASSUME NEW f \in Notifiers!Fd, NEW t \in Notifiers!Type, Notifiers!Occur(f, t) \/ Notifiers!Consume(f, t)
        PROVE  ready' \subseteq Notifiers!Fd \X Notifiers!Type /\ invalid' = invalid
    BY <2>1, <2>3 DEF Notifiers!Occur, Notifiers!Consume
  <2>4. QED
    BY <2>1, <2>2, <2>3 DEF Notifiers!vars
<1>3. Notifiers!TypeOK'
  BY <1>1, <1>2 DEF NotifierInv, Notifiers!TypeOK
<1>4. QED
  BY <1>1, <1>3 DEF NotifierInv, RegisteredEnabled

\* poll() reports on every entry of the map, on each of them once.
LEMMA NotifierPoll ==
    ASSUME NotifierConstants, NotifierInv, Notifiers!Poll \/ Notifiers!Interrupted
    PROVE  /\ NotifierInv' /\ processing' /\ UNCHANGED <<enabled, notifiers, keys>>
           /\ Len(rounds) < MaxRounds
           /\ \E r \in Notifiers!Round :
               /\ rounds' = Append(rounds, r) /\ r.activated = NoNotifier
               /\ \A i \in 1 .. Len(r.pollfds) : r.pollfds[i].fd \in keys
               /\ \A i, j \in 1 .. Len(r.pollfds) : r.pollfds[i].fd = r.pollfds[j].fd => i = j
<1> USE DEF Notifiers!kernelVars
<1>0. Notifiers!BeginRound
  BY DEF Notifiers!Poll, Notifiers!Interrupted
<1>1. PICK fds \in Notifiers!SeqOf(keys, NumFds) :
        /\ Notifiers!Ascending(fds)
        /\ rounds' = Append(rounds,
              [pollfds |-> [i \in DOMAIN fds |->
                   [fd |-> fds[i],
                    revents |-> {t \in Notifiers!Type :
                        notifiers[fds[i]][t] # NoNotifier /\ <<fds[i], t>> \in ready},
                    nval |-> fds[i] \in invalid]],
               event |-> 1,
               activated |-> NoNotifier])
  BY <1>0 DEF Notifiers!BeginRound
<1>2. processing' = TRUE /\ UNCHANGED <<enabled, notifiers, keys, ready, invalid>> /\ Len(rounds) < MaxRounds
  BY <1>0 DEF Notifiers!BeginRound
<1>3. keys \subseteq Notifiers!Fd /\ rounds \in Seq(Notifiers!Round)
  BY DEF NotifierInv, Notifiers!TypeOK
<1>4. PICK m \in Nat : fds \in [1 .. m -> keys] /\ DOMAIN fds = 1 .. m
  BY DEF Notifiers!SeqOf, NotifierConstants
<1> DEFINE p == [i \in DOMAIN fds |->
                   [fd |-> fds[i],
                    revents |-> {t \in Notifiers!Type :
                        notifiers[fds[i]][t] # NoNotifier /\ <<fds[i], t>> \in ready},
                    nval |-> fds[i] \in invalid]]
<1>5. p \in Seq(PollFd) /\ Len(p) = m
  <2>1. p \in [1 .. m -> PollFd]
    <3>1. \A i \in 1 .. m : fds[i] \in Notifiers!Fd
      BY <1>3, <1>4
    <3>2. QED
      BY <1>4, <3>1 DEF PollFd
  <2>2. QED
    BY <1>4, <2>1
<1>6. \A i \in 1 .. m : p[i].fd = fds[i]
  BY <1>4
<1>7. PICK r \in Notifiers!Round : r = [pollfds |-> p, event |-> 1, activated |-> NoNotifier]
  <2> HIDE DEF p
  <2>1. Notifiers!Round = [pollfds : Seq(PollFd), event : 1 .. 4, activated : Notifier \cup {NoNotifier}]
    BY DEF Notifiers!Round, PollFd
  <2>2. 1 \in 1 .. 4 /\ NoNotifier \in Notifier \cup {NoNotifier} /\ p \in Seq(PollFd)
    BY <1>5
  <2>3. [pollfds |-> p, event |-> 1, activated |-> NoNotifier]
            \in [pollfds : Seq(PollFd), event : 1 .. 4, activated : Notifier \cup {NoNotifier}]
    BY <2>2, Zenon
  <2>4. QED
    BY <2>1, <2>3, Zenon
<1>8. rounds' = Append(rounds, r) /\ r.pollfds = p /\ r.activated = NoNotifier
  BY <1>1, <1>7
<1> HIDE DEF p
<1>9. /\ \A i \in 1 .. Len(p) : p[i].fd \in keys
      /\ \A i, j \in 1 .. Len(p) : p[i].fd = p[j].fd => i = j
  <2>1. \A i, j \in 1 .. m : i < j => fds[i] < fds[j]
    BY <1>1, <1>4 DEF Notifiers!Ascending
  <2>2. \A i \in 1 .. m : fds[i] \in keys /\ fds[i] \in Int
    <3>1. keys \subseteq Notifiers!Fd /\ Notifiers!Fd \subseteq Int
      BY <1>3 DEF Notifiers!Fd, NotifierConstants
    <3>2. \A i \in 1 .. m : fds[i] \in keys
      BY <1>4
    <3>3. QED
      BY <3>1, <3>2
  <2>3. \A i, j \in 1 .. m : fds[i] = fds[j] => i = j
    BY <1>4, <2>1, <2>2
  <2>4. QED
    BY <1>5, <1>6, <2>2, <2>3
<1>10. rounds' \in Seq(Notifiers!Round)
  BY <1>3, <1>8, AppendIndexing
<1>11. Notifiers!TypeOK'
  BY <1>2, <1>10 DEF NotifierInv, Notifiers!TypeOK
<1>12. RegisteredEnabled'
  BY <1>2 DEF NotifierInv, RegisteredEnabled
<1>13. QED
  BY <1>2, <1>8, <1>9, <1>11, <1>12 DEF NotifierInv

\* A round as a set of records,
LEMMA RoundSet ==
    Notifiers!Round = [pollfds : Seq(PollFd), event : 1 .. 4, activated : Notifier \cup {NoNotifier}]
  BY DEF Notifiers!Round, PollFd

\* how one is updated,
LEMMA RoundUpdate ==
    ASSUME NEW r \in Notifiers!Round, NEW e \in 1 .. 4, NEW a \in Notifier \cup {NoNotifier}
    PROVE  [r EXCEPT !.event = e, !.activated = a] = [pollfds |-> r.pollfds, event |-> e, activated |-> a]
<1> DEFINE x == [r EXCEPT !.event = e, !.activated = a]
<1>1. /\ x \in [pollfds : Seq(PollFd), event : 1 .. 4, activated : Notifier \cup {NoNotifier}]
      /\ x.pollfds = r.pollfds /\ x.event = e /\ x.activated = a
  <2>1. r \in [pollfds : Seq(PollFd), event : 1 .. 4, activated : Notifier \cup {NoNotifier}]
    BY RoundSet
  <2>2. QED
    BY <2>1
<1> HIDE DEF x
<1>2. x = [pollfds |-> x.pollfds, event |-> x.event, activated |-> x.activated]
  BY <1>1
<1>3. x = [pollfds |-> r.pollfds, event |-> e, activated |-> a]
  BY <1>1, <1>2
<1>4. QED
  BY <1>3 DEF x

\* and its fields.
LEMMA RoundFields ==
    /\ \A r \in Notifiers!Round : /\ r.pollfds \in Seq(PollFd) /\ r.event \in 1 .. 4
                                  /\ r.activated \in Notifier \cup {NoNotifier}
    /\ \A p, e, a : p \in Seq(PollFd) /\ e \in 1 .. 4 /\ a \in Notifier \cup {NoNotifier} =>
           [pollfds |-> p, event |-> e, activated |-> a] \in Notifiers!Round
  BY RoundSet

\* The innermost round, which is the one that runs.
LEMMA TopRound ==
    ASSUME NotifierInv, rounds # <<>>
    PROVE  /\ Notifiers!Top \in Notifiers!Round /\ Len(rounds) \in 1 .. Len(rounds)
           /\ Notifiers!Top = rounds[Len(rounds)] /\ rounds \in Seq(Notifiers!Round)
<1>1. rounds \in Seq(Notifiers!Round)
  BY DEF NotifierInv, Notifiers!TypeOK
<1>2. Len(rounds) \in 1 .. Len(rounds) /\ rounds[Len(rounds)] \in Notifiers!Round
  BY <1>1
<1>3. QED
  BY <1>1, <1>2 DEF Notifiers!Top

\* The notifier that is activated is the one registered now, and so an enabled one.
LEMMA NotifierProcessEvent ==
    ASSUME NotifierConstants, NotifierInv, Notifiers!ProcessEvent
    PROVE  /\ NotifierInv' /\ UNCHANGED <<enabled, keys, processing>> /\ rounds # <<>>
           /\ \E r \in Notifiers!Round :
               /\ rounds' = [rounds EXCEPT ![Len(rounds)] = r]
               /\ r.pollfds = Notifiers!Top.pollfds
               /\ r.activated \in enabled \cup {NoNotifier}
<1> USE DEF Notifiers!kernelVars
<1>1. /\ rounds # <<>> /\ Notifiers!Top.pollfds # <<>> /\ Notifiers!Top.event <= 3
      /\ UNCHANGED <<enabled, keys, processing, ready, invalid>>
  BY DEF Notifiers!ProcessEvent
<1>2. PICK top \in Notifiers!Round : top = Notifiers!Top
  BY <1>1, TopRound
<1>3. top.pollfds \in Seq(PollFd) /\ top.event \in 1 .. 3 /\ top.pollfds # <<>>
  BY <1>1, <1>2, RoundFields
<1>4. PICK pfd \in PollFd : pfd = Head(top.pollfds)
  BY <1>3
<1>5. PICK t \in Notifiers!Type : t = Notifiers!EventOrder[top.event]
  BY <1>3 DEF Notifiers!EventOrder, Notifiers!Type
<1>6. pfd.fd \in Notifiers!Fd
  BY DEF PollFd
<1>7. /\ notifiers \in [Notifiers!Fd -> [Notifiers!Type -> Notifier \cup {NoNotifier}]]
      /\ notifiers[pfd.fd][t] \in Notifier \cup {NoNotifier}
  BY <1>6 DEF NotifierInv, Notifiers!TypeOK
<1>8. notifiers[pfd.fd][t] \in enabled \cup {NoNotifier}
  BY <1>6 DEF NotifierInv, RegisteredEnabled
<1>9. PICK a \in Notifier \cup {NoNotifier} :
        /\ a \in enabled \cup {NoNotifier}
        /\ a = IF ~pfd.nval /\ t \in pfd.revents THEN notifiers[pfd.fd][t] ELSE NoNotifier
  BY <1>7, <1>8
<1>10. PICK r \in Notifiers!Round : r = [pollfds |-> top.pollfds, event |-> top.event + 1, activated |-> a]
  <2>1. top.event + 1 \in 1 .. 4
    BY <1>3
  <2>2. QED
    BY <1>3, <2>1, RoundFields
<1>11. rounds' = [rounds EXCEPT ![Len(rounds)] = r]
  <2>1. rounds' = [rounds EXCEPT ![Len(rounds)] = [top EXCEPT !.event = top.event + 1, !.activated = a]]
    BY <1>2, <1>4, <1>5, <1>9 DEF Notifiers!ProcessEvent, Notifiers!SetTop
  <2>2. [top EXCEPT !.event = top.event + 1, !.activated = a] = r
    <3>1. top.event + 1 \in 1 .. 4
      BY <1>3
    <3>2. [top EXCEPT !.event = top.event + 1, !.activated = a] =
              [pollfds |-> top.pollfds, event |-> top.event + 1, activated |-> a]
      BY <3>1, RoundUpdate, Zenon
    <3>3. QED
      BY <1>10, <3>2, Zenon
  <2>3. QED
    BY <2>1, <2>2
<1>12. notifiers' = notifiers \/ notifiers' = [notifiers EXCEPT ![pfd.fd][t] = NoNotifier]
  BY <1>2, <1>4, <1>5 DEF Notifiers!ProcessEvent
<1>13. /\ notifiers' \in [Notifiers!Fd -> [Notifiers!Type -> Notifier \cup {NoNotifier}]]
       /\ \A f \in Notifiers!Fd, u \in Notifiers!Type :
             notifiers'[f][u] = notifiers[f][u] \/ notifiers'[f][u] = NoNotifier
  BY <1>6, <1>7, <1>12
<1>14. rounds' \in Seq(Notifiers!Round)
  <2>1. rounds \in Seq(Notifiers!Round) /\ Len(rounds) \in 1 .. Len(rounds)
    BY <1>1, TopRound
  <2>2. QED
    BY <1>11, <2>1, UpdateEntry
<1>15. Notifiers!TypeOK'
  BY <1>1, <1>13, <1>14 DEF NotifierInv, Notifiers!TypeOK
<1>16. RegisteredEnabled'
  BY <1>1, <1>13 DEF NotifierInv, RegisteredEnabled
<1>17. r.pollfds = Notifiers!Top.pollfds /\ r.activated \in enabled \cup {NoNotifier}
  BY <1>2, <1>9, <1>10
<1>18. NotifierInv'
  BY <1>15, <1>16 DEF NotifierInv
<1>19. QED
  BY <1>1, <1>11, <1>17, <1>18

\* The end of an entry erases at most the entry itself.
LEMMA NotifierEndEntry ==
    ASSUME NotifierConstants, NotifierInv, Notifiers!EndEntry
    PROVE  /\ NotifierInv' /\ UNCHANGED <<enabled, processing>>
           /\ rounds # <<>> /\ Notifiers!Top.pollfds # <<>>
           /\ keys \ {Head(Notifiers!Top.pollfds).fd} \subseteq keys'
           /\ \E r \in Notifiers!Round :
               /\ rounds' = [rounds EXCEPT ![Len(rounds)] = r]
               /\ r.pollfds = Tail(Notifiers!Top.pollfds) /\ r.activated = NoNotifier
<1> USE DEF Notifiers!kernelVars
<1>1. /\ rounds # <<>> /\ Notifiers!Top.pollfds # <<>>
      /\ keys' \subseteq keys /\ keys \ {Head(Notifiers!Top.pollfds).fd} \subseteq keys'
      /\ UNCHANGED <<enabled, notifiers, processing, ready, invalid>>
  BY DEF Notifiers!EndEntry
<1>2. Notifiers!Top.pollfds \in Seq(PollFd)
  BY <1>1, TopRound, RoundFields
<1>3. PICK r \in Notifiers!Round :
        r = [pollfds |-> Tail(Notifiers!Top.pollfds), event |-> 1, activated |-> NoNotifier]
  <2>1. Tail(Notifiers!Top.pollfds) \in Seq(PollFd) /\ 1 \in 1 .. 4
    BY <1>1, <1>2, TailIndexing
  <2>2. QED
    BY <2>1, RoundFields
<1>4. rounds' = [rounds EXCEPT ![Len(rounds)] = r]
  BY <1>3 DEF Notifiers!EndEntry, Notifiers!NextEntry, Notifiers!SetTop
<1>5. rounds' \in Seq(Notifiers!Round)
  <2>1. rounds \in Seq(Notifiers!Round) /\ Len(rounds) \in 1 .. Len(rounds)
    BY <1>1, TopRound
  <2>2. QED
    BY <1>4, <2>1, UpdateEntry
<1>6. Notifiers!TypeOK'
  BY <1>1, <1>5 DEF NotifierInv, Notifiers!TypeOK
<1>7. RegisteredEnabled'
  BY <1>1 DEF NotifierInv, RegisteredEnabled
<1>8. r.pollfds = Tail(Notifiers!Top.pollfds) /\ r.activated = NoNotifier
  BY <1>3
<1>9. NotifierInv'
  BY <1>6, <1>7 DEF NotifierInv
<1>10. QED
  BY <1>1, <1>4, <1>8, <1>9

\* The end of a round.
LEMMA NotifierReturn ==
    ASSUME NotifierInv, Notifiers!ProcessReturn
    PROVE  /\ NotifierInv' /\ rounds # <<>> /\ rounds \in Seq(Notifiers!Round)
           /\ rounds' = SubSeq(rounds, 1, Len(rounds) - 1) /\ UNCHANGED keys
<1> USE DEF Notifiers!kernelVars
<1>1. /\ rounds # <<>> /\ rounds' = SubSeq(rounds, 1, Len(rounds) - 1) /\ processing' = FALSE
      /\ UNCHANGED <<enabled, notifiers, keys, ready, invalid>>
  BY DEF Notifiers!ProcessReturn, Notifiers!Front
<1>2. rounds \in Seq(Notifiers!Round)
  BY <1>1, TopRound
<1>3. rounds' \in Seq(Notifiers!Round)
  BY <1>1, <1>2, FrontIndexing
<1>4. Notifiers!TypeOK'
  BY <1>1, <1>3 DEF NotifierInv, Notifiers!TypeOK
<1>5. RegisteredEnabled'
  BY <1>1 DEF NotifierInv, RegisteredEnabled
<1>6. QED
  BY <1>1, <1>2, <1>4, <1>5 DEF NotifierInv

\* Every step keeps the invariant of the notifiers.
LEMMA NotifierNext ==
    ASSUME NotifierConstants, NotifierInv, [Notifiers!Next]_(Notifiers!vars)
    PROVE  NotifierInv'
  BY NotifierEnable, NotifierDisable, NotifierKernel, NotifierPoll, NotifierProcessEvent,
     NotifierEndEntry, NotifierReturn DEF Notifiers!Next

\* RoundsSound, for the one round there is.
LEMMA OneRoundSound ==
    ASSUME NotifierInv
    PROVE  RoundsSound <=>
              /\ Len(rounds) <= 1
              /\ rounds # <<>> =>
                   /\ processing
                   /\ \A i \in 1 .. Len(rounds[1].pollfds) : rounds[1].pollfds[i].fd \in keys
                   /\ \A i, j \in 1 .. Len(rounds[1].pollfds) :
                          rounds[1].pollfds[i].fd = rounds[1].pollfds[j].fd => i = j
<1>1. rounds \in Seq(Notifiers!Round)
  BY DEF NotifierInv, Notifiers!TypeOK
<1>2. Len(rounds) \in Nat /\ (rounds # <<>> <=> Len(rounds) > 0)
  BY <1>1, EmptySeq
<1>3. Len(rounds) <= 1 => \A k \in 1 .. Len(rounds) : k = 1 /\ rounds # <<>>
  BY <1>2
<1>4. rounds # <<>> => 1 \in 1 .. Len(rounds)
  BY <1>2
<1>5. QED
  BY <1>3, <1>4 DEF RoundsSound

\* Every step keeps the entries that the round still has to visit.
LEMMA RoundsNext ==
    ASSUME NotifierConstants, NotNested, NotifierInv, RoundsSound, [Notifiers!Next]_(Notifiers!vars)
    PROVE  RoundsSound'
<1>1. NotifierInv'
  BY NotifierNext
<1>2. rounds \in Seq(Notifiers!Round) /\ Len(rounds) \in Nat /\ Len(rounds) <= 1
  BY DEF NotifierInv, Notifiers!TypeOK, RoundsSound
<1>3. ASSUME UNCHANGED <<processing, rounds>>, rounds # <<>> => keys \subseteq keys'
      PROVE  RoundsSound'
  BY <1>1, <1>3, OneRoundSound DEF RoundsSound
<1>4. CASE \E n \in Notifier : Notifiers!Enable(n) \/ Notifiers!Disable(n)
  <2>1. PICK n \in Notifier : Notifiers!Enable(n) \/ Notifiers!Disable(n)
    BY <1>4
  <2>2. CASE Notifiers!Enable(n)
    BY <1>3, <2>2, NotifierEnable
  <2>3. CASE Notifiers!Disable(n)
    BY <1>3, <2>3, NotifierDisable DEF RoundsSound
  <2>4. QED
    BY <2>1, <2>2, <2>3
<1>5. CASE \/ UNCHANGED Notifiers!vars
           \/ \E f \in Notifiers!Fd : \/ Notifiers!Close(f)
                                      \/ \E t \in Notifiers!Type : Notifiers!Occur(f, t) \/ Notifiers!Consume(f, t)
  BY <1>3, <1>5, NotifierKernel
<1>6. CASE Notifiers!Poll \/ Notifiers!Interrupted
  <2>1. rounds = <<>>
    BY <1>2, <1>6, NotifierPoll, EmptySeq DEF NotNested
  <2>2. PICK r \in Notifiers!Round :
          /\ rounds' = Append(rounds, r)
          /\ \A i \in 1 .. Len(r.pollfds) : r.pollfds[i].fd \in keys
          /\ \A i, j \in 1 .. Len(r.pollfds) : r.pollfds[i].fd = r.pollfds[j].fd => i = j
    BY <1>6, NotifierPoll
  <2>3. Len(rounds') = 1 /\ rounds'[1] = r
    BY <2>1, <2>2
  <2>4. processing' /\ UNCHANGED keys
    BY <1>6, NotifierPoll
  <2>5. Len(rounds') <= 1 /\ \A k \in 1 .. Len(rounds') : rounds'[k] = r
    BY <2>3
  <2>6. QED
    BY <2>2, <2>4, <2>5 DEF RoundsSound
<1>7. CASE Notifiers!ProcessEvent \/ Notifiers!EndEntry
  <2>1. rounds # <<>> /\ UNCHANGED processing
    BY <1>7, NotifierProcessEvent, NotifierEndEntry
  <2>2. Len(rounds) = 1 /\ Notifiers!Top = rounds[1]
    <3>1. Notifiers!Top = rounds[Len(rounds)]
      BY <2>1, TopRound
    <3>2. Len(rounds) = 1
      <4>1. Len(rounds) \in 1 .. Len(rounds) /\ Len(rounds) \in Nat
        BY <1>2, <2>1, TopRound
      <4>2. Len(rounds) <= 1
        BY <1>2
      <4>3. QED
        BY <4>1, <4>2
    <3>3. QED
      BY <3>1, <3>2, Zenon
  <2>3. /\ processing
        /\ \A i \in 1 .. Len(rounds[1].pollfds) : rounds[1].pollfds[i].fd \in keys
        /\ \A i, j \in 1 .. Len(rounds[1].pollfds) :
               rounds[1].pollfds[i].fd = rounds[1].pollfds[j].fd => i = j
    BY <2>1, OneRoundSound
  <2>4. PICK r \in Notifiers!Round :
          /\ rounds' = [rounds EXCEPT ![Len(rounds)] = r]
          /\ \/ r.pollfds = rounds[1].pollfds /\ UNCHANGED keys
             \/ /\ r.pollfds = Tail(rounds[1].pollfds) /\ rounds[1].pollfds # <<>>
                /\ keys \ {Head(rounds[1].pollfds).fd} \subseteq keys'
    BY <1>7, <2>2, NotifierProcessEvent, NotifierEndEntry
  <2>5. Len(rounds') = 1 /\ rounds'[1] = r
    BY <1>2, <2>2, <2>4, UpdateEntry
  <2>6. /\ \A i \in 1 .. Len(r.pollfds) : r.pollfds[i].fd \in keys'
        /\ \A i, j \in 1 .. Len(r.pollfds) : r.pollfds[i].fd = r.pollfds[j].fd => i = j
    <3>1. CASE r.pollfds = rounds[1].pollfds /\ UNCHANGED keys
      BY <2>3, <3>1
    <3>2. CASE /\ r.pollfds = Tail(rounds[1].pollfds) /\ rounds[1].pollfds # <<>>
               /\ keys \ {Head(rounds[1].pollfds).fd} \subseteq keys'
      <4>1. PICK q \in Seq(PollFd) : q = rounds[1].pollfds
        BY <1>2, <2>2, RoundFields
      <4>2. /\ Len(Tail(q)) = Len(q) - 1 /\ Len(q) \in Nat \ {0} /\ Head(q) = q[1]
            /\ \A i \in 1 .. Len(Tail(q)) : Tail(q)[i] = q[i + 1]
        BY <3>2, <4>1, TailIndexing
      <4>3. \A i \in 1 .. Len(Tail(q)) : i + 1 \in 1 .. Len(q) /\ 1 \in 1 .. Len(q) /\ i + 1 # 1
        BY <4>2
      <4>4. \A i, j \in 1 .. Len(Tail(q)) : i + 1 = j + 1 => i = j
        BY <4>2
      <4>5. \A i \in 1 .. Len(Tail(q)) : Tail(q)[i].fd \in keys /\ Tail(q)[i].fd # Head(q).fd
        BY <2>3, <4>1, <4>2, <4>3
      <4>6. \A i, j \in 1 .. Len(Tail(q)) : Tail(q)[i].fd = Tail(q)[j].fd => i = j
        BY <2>3, <4>1, <4>2, <4>3, <4>4
      <4>7. QED
        BY <3>2, <4>1, <4>5, <4>6
    <3>3. QED
      BY <2>4, <3>1, <3>2
  <2>7. Len(rounds') <= 1 /\ \A k \in 1 .. Len(rounds') : rounds'[k] = r
    BY <2>5
  <2>8. QED
    BY <2>1, <2>3, <2>6, <2>7 DEF RoundsSound
<1>8. CASE Notifiers!ProcessReturn
  <2>1. rounds # <<>> /\ rounds' = SubSeq(rounds, 1, Len(rounds) - 1)
    BY <1>8, NotifierReturn
  <2>2. rounds' \in Seq(Notifiers!Round) /\ Len(rounds') = 0
    BY <1>2, <2>1, FrontIndexing
  <2>3. rounds' = <<>> /\ Len(rounds') <= 1
    BY <2>2, EmptySeq
  <2>4. QED
    BY <2>2, <2>3 DEF RoundsSound
<1>9. QED
  BY <1>4, <1>5, <1>6, <1>7, <1>8 DEF Notifiers!Next

\* The map entry that EventDispatcherPoll::processNotifiers() works on is not erased
\* under it, whatever the handlers enable, disable and close, for any number of
\* descriptors and notifiers, as long as no handler runs processEvents() itself.
THEOREM EntriesStay ==
    ASSUME NotifierConstants, NotNested
    PROVE  Notifiers!Spec => []EntryExists
<1>1. Notifiers!Init => RoundsSound
  <2>1. Notifiers!Init => rounds = <<>> /\ Len(rounds) = 0
    BY EmptySeq DEF Notifiers!Init
  <2>2. QED
    BY <2>1 DEF RoundsSound
<1>2. NotifierInv /\ RoundsSound => EntryExists
  <2> SUFFICES ASSUME NotifierInv, RoundsSound, NEW k \in 1 .. Len(rounds), rounds[k].pollfds # <<>>
               PROVE  Head(rounds[k].pollfds).fd \in keys
    BY DEF EntryExists, Notifiers!EntryExists
  <2>1. rounds[k] \in Notifiers!Round
    BY DEF NotifierInv, Notifiers!TypeOK
  <2>2. rounds[k].pollfds \in Seq(PollFd)
    BY <2>1, RoundFields
  <2>3. Head(rounds[k].pollfds) = rounds[k].pollfds[1] /\ 1 \in 1 .. Len(rounds[k].pollfds)
    BY <2>2
  <2>4. QED
    BY <2>3 DEF RoundsSound
<1>3. QED
  BY <1>1, <1>2, NotifierTypeInit, NotifierNext, RoundsNext, PTL DEF Notifiers!Spec

\* A notifier whose activated signal is emitted is enabled at that time, also when it was
\* disabled, or disabled and deleted, after poll() reported its event; for any nesting of
\* processEvents().
THEOREM OnlyEnabledActivated ==
    ASSUME NotifierConstants
    PROVE  Notifiers!Spec => Notifiers!ActivatedWhenEnabled
<1>1. ASSUME NotifierInv, [Notifiers!Next]_(Notifiers!vars)
      PROVE  Notifiers!Activated' \ Notifiers!Activated \subseteq enabled
  <2>1. rounds \in Seq(Notifiers!Round) /\ Len(rounds) \in Nat
    BY <1>1 DEF NotifierInv, Notifiers!TypeOK
  <2>2. SUFFICES ASSUME NEW k \in 1 .. Len(rounds'), rounds'[k].activated # NoNotifier,
                        ~\E i \in 1 .. Len(rounds) : rounds[i].activated = rounds'[k].activated
                 PROVE  rounds'[k].activated \in enabled
    BY DEF Notifiers!Activated
  <2>3. CASE UNCHANGED rounds
    BY <2>2, <2>3
  <2>4. CASE Notifiers!Poll \/ Notifiers!Interrupted
    <3>1. PICK r \in Notifiers!Round : rounds' = Append(rounds, r) /\ r.activated = NoNotifier
      BY <1>1, <2>4, NotifierPoll
    <3>2. (k \in 1 .. Len(rounds) /\ rounds'[k] = rounds[k]) \/ rounds'[k] = r
      BY <2>1, <3>1
    <3>3. QED
      BY <2>2, <3>1, <3>2
  <2>5. CASE Notifiers!ProcessEvent \/ Notifiers!EndEntry
    <3>1. rounds # <<>>
      BY <1>1, <2>5, NotifierProcessEvent, NotifierEndEntry
    <3>2. PICK r \in Notifiers!Round :
            /\ rounds' = [rounds EXCEPT ![Len(rounds)] = r]
            /\ r.activated \in enabled \cup {NoNotifier}
      BY <1>1, <2>5, NotifierProcessEvent, NotifierEndEntry
    <3>3. k \in 1 .. Len(rounds) /\ (rounds'[k] = rounds[k] \/ rounds'[k] = r)
      <4>1. Len(rounds) \in 1 .. Len(rounds)
        BY <1>1, <3>1, TopRound
      <4>2. QED
        BY <2>1, <3>2, <4>1, UpdateEntry
    <3>4. QED
      BY <2>2, <3>2, <3>3
  <2>6. CASE Notifiers!ProcessReturn
    <3>1. rounds # <<>> /\ rounds' = SubSeq(rounds, 1, Len(rounds) - 1)
      BY <1>1, <2>6, NotifierReturn
    <3>2. k \in 1 .. Len(rounds) /\ rounds'[k] = rounds[k]
      BY <2>1, <3>1, FrontIndexing
    <3>3. QED
      BY <2>2, <3>2
  <2>7. QED
    BY <1>1, <2>3, <2>4, <2>5, <2>6, NotifierEnable, NotifierDisable, NotifierKernel DEF Notifiers!Next
<1>2. QED
  BY <1>1, NotifierTypeInit, NotifierNext, PTL DEF Notifiers!Spec, Notifiers!ActivatedWhenEnabled

(***************************************************************************)
(* V4L2VideoDevice, for every number of buffers and indices and whatever    *)
(* ioctls fail.                                                             *)
(***************************************************************************)

USE DEF vars, cacheVars, kernelVars

\* The indices whose entry of the cache is in use.
InUse == IF state = "Stopping" THEN sending ELSE Queued

\* The two queues of the kernel have no index in common or twice.
KernelQueues == IsInjective(kqueue) /\ IsInjective(kdone) /\ ToSet(kqueue) \cap ToSet(kdone) = {}

\* The inductive invariant.  Beyond what the properties say: without a cache nothing
\* is queued, and streamOff() works on the buffers that were queued, with the
\* watchdog off and the kernel empty.
DeviceInv ==
    /\ TypeOK /\ CacheTracksQueue /\ KernelQueues
    /\ NotifierTracksQueue /\ WatchdogNeedsBuffers
    /\ ~hasCache => state = "Stopped" /\ Queued = {}
    /\ state # "Stopping" => sending = {} /\ Queued \subseteq InKernel
    /\ state = "Stopping" => sending \subseteq Queued /\ ~watchdog /\ kqueue = <<>> /\ kdone = <<>>

\* V4L2BufferCache::get() picks a free entry.
LEMMA GetFree ==
    ASSUME NEW c, NEW b, NEW i, get(c, b, i)
    PROVE  i \in Index /\ c[i].free
  BY DEF get, Candidates

\* Returning an entry to the cache keeps its type and its buffer.
LEMMA PutType ==
    ASSUME NEW c \in [Index -> Entry], NEW i \in Index
    PROVE  /\ put(c, i) \in [Index -> Entry]
           /\ put(c, i)[i].free
           /\ \A j \in Index : put(c, i)[j].buffer = c[j].buffer /\ (j # i => put(c, i)[j] = c[j])
  BY DEF put, Entry

\* A device without buffers is sound.
LEMMA EmptyState ==
    /\ NoEntry \in [Index -> Entry] /\ NoQueue \in [Index -> Buffer \cup {NoBuffer}]
    /\ <<>> \in Seq(Index)
    /\ \A i \in Index : NoEntry[i].free /\ NoQueue[i] = NoBuffer
  BY EmptySeq DEF NoEntry, NoQueue, Entry

\* The types hold at first,
LEMMA DeviceTypeInit == Init => TypeOK
<1> SUFFICES ASSUME Init PROVE TypeOK
  OBVIOUS
<1>1. cache = NoEntry /\ queuedBuffers = NoQueue /\ kqueue = <<>> /\ kdone = <<>>
  BY DEF Init
<1>2. /\ cache \in [Index -> Entry] /\ queuedBuffers \in [Index -> Buffer \cup {NoBuffer}]
      /\ kqueue \in Seq(Index) /\ kdone \in Seq(Index)
  BY <1>1, EmptyState
<1>3. QED
  BY <1>2 DEF Init, TypeOK

\* and every step keeps them.
LEMMA DeviceTypeNext == TypeOK /\ [Next]_vars => TypeOK'
<1> SUFFICES ASSUME TypeOK, [Next]_vars PROVE TypeOK'
  OBVIOUS
<1>1. CASE importBuffers
  BY <1>1, EmptyState DEF importBuffers, TypeOK
<1>2. CASE allocateBuffers
  <2>1. cache' \in [Index -> Entry]
    BY <1>2, DeviceAssumption DEF allocateBuffers, Index, Entry
  <2>2. QED
    BY <1>2, <2>1, DeviceAssumption DEF allocateBuffers, TypeOK
<1>3. CASE releaseBuffers
  BY <1>3, EmptyState DEF releaseBuffers, TypeOK
<1>4. ASSUME NEW b \in Buffer, queueBuffer(b) \/ queueBufferFails(b) PROVE TypeOK'
  <2>1. PICK i \in Index, f \in BOOLEAN :
            /\ cache' = [cache EXCEPT ![i] = [free |-> f, lastUsed |-> lastUsedCounter, buffer |-> b]]
            /\ queuedBuffers' = [queuedBuffers EXCEPT ![i] = b] \/ UNCHANGED queuedBuffers
            /\ kqueue' = Append(kqueue, i) \/ UNCHANGED kqueue
    BY <1>4 DEF queueBuffer, queueBufferFails
  <2>2. cache' \in [Index -> Entry]
    BY <2>1 DEF TypeOK, Entry
  <2>3. queuedBuffers' \in [Index -> Buffer \cup {NoBuffer}]
    BY <2>1 DEF TypeOK
  <2>4. kqueue' \in Seq(Index)
    <3>1. kqueue \in Seq(Index)
      BY DEF TypeOK
    <3>2. Append(kqueue, i) \in Seq(Index)
      BY <3>1
    <3>3. QED
      BY <2>1, <3>1, <3>2
  <2>5. /\ lastUsedCounter' = lastUsedCounter + 1 /\ notifier' \in BOOLEAN /\ watchdog' \in BOOLEAN
        /\ UNCHANGED <<state, memoryType, hasCache, sending, watchdogDuration, kdone>>
    BY <1>4 DEF TypeOK, queueBuffer, queueBufferFails
  <2>6. QED
    BY <2>2, <2>3, <2>4, <2>5 DEF TypeOK
<1>5. CASE Capture
  BY <1>5 DEF Capture, TypeOK
<1>6. CASE bufferAvailable
  <2>1. kdone # <<>> /\ kdone' = Tail(kdone) /\ kdone \in Seq(Index)
    BY <1>6 DEF bufferAvailable, TypeOK
  <2>2. PICK i \in Index : i = Head(kdone)
    BY <2>1, HeadInToSet
  <2>3. kdone' \in Seq(Index)
    BY <2>1, HeadInToSet
  <2>4. put(cache, i) \in [Index -> Entry]
    BY PutType DEF TypeOK
  <2>5. [queuedBuffers EXCEPT ![i] = NoBuffer] \in [Index -> Buffer \cup {NoBuffer}]
    BY DEF TypeOK
  <2>6. /\ cache' = cache \/ cache' = put(cache, i)
        /\ queuedBuffers' = queuedBuffers \/ queuedBuffers' = [queuedBuffers EXCEPT ![i] = NoBuffer]
        /\ notifier' \in BOOLEAN /\ watchdog' \in BOOLEAN
        /\ UNCHANGED <<state, memoryType, hasCache, lastUsedCounter, sending, watchdogDuration, kqueue>>
    BY <1>6, <2>2 DEF bufferAvailable, TypeOK
  <2>7. QED
    BY <2>3, <2>4, <2>5, <2>6 DEF TypeOK
<1>7. CASE SendBack
  <2>1. PICK i \in sending : cache' = put(cache, i) /\ sending' = sending \ {i}
    BY <1>7 DEF SendBack
  <2>2. cache' \in [Index -> Entry]
    BY <2>1, PutType DEF TypeOK
  <2>3. QED
    BY <1>7, <2>1, <2>2 DEF SendBack, TypeOK
<1>8. CASE streamOn \/ streamOff \/ streamOffDone
  BY <1>8, EmptyState DEF streamOn, streamOff, streamOffDone, TypeOK, Queued
<1>9. ASSUME NEW timeout \in BOOLEAN, setDequeueTimeout(timeout) PROVE TypeOK'
  BY <1>9 DEF setDequeueTimeout, TypeOK
<1>10. CASE watchdogExpired \/ UNCHANGED vars
  BY <1>10 DEF watchdogExpired, TypeOK
<1>11. QED
  BY <1>1, <1>2, <1>3, <1>4, <1>5, <1>6, <1>7, <1>8, <1>9, <1>10 DEF Next

-----------------------------------------------------------------------------
(***************************************************************************)
(* Every step preserves DeviceInv.                                         *)
(***************************************************************************)

\* Outside streamOff() the entries in use are those of the queued buffers.
LEMMA CacheInUse ==
    CacheTracksQueue <=>
        /\ \A i \in Index : ~cache[i].free <=> i \in InUse
        /\ \A i \in InUse : cache[i].buffer = queuedBuffers[i]
        /\ \A i, j \in InUse : queuedBuffers[i] = queuedBuffers[j] => i = j
  BY DEF CacheTracksQueue, InUse

\* Importing and releasing buffers.
LEMMA DeviceMemory ==
    ASSUME DeviceInv, TypeOK', importBuffers \/ allocateBuffers \/ releaseBuffers
    PROVE  DeviceInv'
<1>1. /\ UNCHANGED <<state, queuedBuffers, sending, notifier, watchdogDuration, watchdog>>
      /\ state = "Stopped" /\ Queued = {} /\ InUse = {} /\ sending = {}
  BY DEF DeviceInv, importBuffers, allocateBuffers, releaseBuffers, InUse
<1>2. Queued' = {} /\ InUse' = {}
  BY <1>1 DEF Queued, InUse
<1>3. \A i \in Index : cache'[i].free
  BY EmptyState DEF importBuffers, allocateBuffers, releaseBuffers
<1>4. CacheTracksQueue'
  BY <1>2, <1>3 DEF CacheTracksQueue, InUse
<1>5. KernelQueues'
  BY ToSetOfEmpty DEF DeviceInv, KernelQueues, importBuffers, allocateBuffers, releaseBuffers
<1>6. NotifierTracksQueue' /\ WatchdogNeedsBuffers'
  BY <1>1, <1>2 DEF DeviceInv, NotifierTracksQueue, WatchdogNeedsBuffers
<1>7. QED
  BY <1>1, <1>2, <1>4, <1>5, <1>6 DEF DeviceInv

\* queueBuffer() takes an entry and an index that neither cache nor kernel uses.
LEMMA DeviceQueues ==
    ASSUME DeviceInv, TypeOK', NEW b \in Buffer, queueBuffer(b)
    PROVE  DeviceInv' /\ InDevice' = InDevice \cup {b} /\ b \notin InDevice /\ hasCache /\ hasCache'
<1>1. PICK i \in Index :
          /\ cache[i].free /\ i \notin InKernel
          /\ cache' = [cache EXCEPT ![i] = [free |-> FALSE, lastUsed |-> lastUsedCounter, buffer |-> b]]
          /\ queuedBuffers' = [queuedBuffers EXCEPT ![i] = b]
          /\ kqueue' = Append(kqueue, i)
  BY GetFree DEF queueBuffer
<1>2. /\ state # "Stopping" /\ hasCache /\ b \notin InDevice /\ notifier' = (notifier \/ Queued = {})
      /\ watchdog' = IF Queued = {} THEN watchdogDuration ELSE watchdog
      /\ UNCHANGED <<state, memoryType, hasCache, sending, watchdogDuration, kdone>>
  BY DEF queueBuffer, Queueable
<1>3. /\ TypeOK /\ KernelQueues /\ CacheTracksQueue /\ WatchdogNeedsBuffers /\ NotifierTracksQueue
      /\ sending = {} /\ Queued \subseteq InKernel
  BY <1>2 DEF DeviceInv
<1>4. InUse = Queued /\ InUse' = Queued'
  BY <1>2 DEF InUse
<1>5. /\ queuedBuffers'[i] = b /\ \A j \in Index : j # i => queuedBuffers'[j] = queuedBuffers[j]
      /\ ~cache'[i].free /\ cache'[i].buffer = b /\ \A j \in Index : j # i => cache'[j] = cache[j]
      /\ b # NoBuffer
  BY <1>1, <1>3, DeviceAssumption DEF TypeOK
<1>6. i \notin Queued /\ Queued' = Queued \cup {i}
  BY <1>1, <1>3, <1>4, <1>5, CacheInUse DEF Queued
<1>7. \A j \in Queued : queuedBuffers[j] # b
  BY <1>2 DEF InDevice
<1>8. CacheTracksQueue'
  <2>1. \A j \in Index : ~cache'[j].free <=> j \in Queued'
    BY <1>3, <1>4, <1>5, <1>6, CacheInUse
  <2>2. \A j \in Queued' : cache'[j].buffer = queuedBuffers'[j]
    BY <1>3, <1>4, <1>5, <1>6, CacheInUse DEF Queued
  <2>3. \A j, k \in Queued' : queuedBuffers'[j] = queuedBuffers'[k] => j = k
    BY <1>3, <1>4, <1>5, <1>6, <1>7, CacheInUse DEF Queued
  <2>4. QED
    BY <1>2, <2>1, <2>2, <2>3 DEF CacheTracksQueue
<1>9. ToSet(kqueue') = ToSet(kqueue) \cup {i} /\ KernelQueues'
  <2>1. kqueue \in Seq(Index)
    BY <1>3 DEF TypeOK
  <2>2. ToSet(kqueue') = ToSet(kqueue) \cup {i}
    BY <1>1, <2>1, ToSetOfAppend
  <2>3. IsInjective(kqueue')
    BY <1>1, <1>3, <2>1, InjectiveAppend DEF KernelQueues, InKernel
  <2>4. QED
    BY <1>1, <1>2, <1>3, <2>2, <2>3 DEF KernelQueues, InKernel
<1>10. Queued' \subseteq InKernel'
  BY <1>2, <1>3, <1>6, <1>9 DEF InKernel
<1>11. NotifierTracksQueue' /\ WatchdogNeedsBuffers'
  <2>1. notifier'
    BY <1>2, <1>3 DEF NotifierTracksQueue
  <2>2. QED
    BY <1>2, <1>3, <1>6, <2>1 DEF NotifierTracksQueue, WatchdogNeedsBuffers, TypeOK
<1>12. InDevice' = InDevice \cup {b}
  <2>1. InDevice = {queuedBuffers[j] : j \in Queued} /\ InDevice' = {queuedBuffers'[j] : j \in Queued'}
    BY <1>2 DEF InDevice
  <2>2. \A j \in Queued : j \in Index /\ queuedBuffers'[j] = queuedBuffers[j]
    BY <1>5, <1>6 DEF Queued
  <2>3. QED
    BY <1>5, <1>6, <2>1, <2>2
<1>13. QED
  BY <1>2, <1>3, <1>8, <1>9, <1>10, <1>11, <1>12 DEF DeviceInv

\* A failed VIDIOC_QBUF leaves a free entry; the kernel may have kept the index.
LEMMA DeviceQueueFails ==
    ASSUME DeviceInv, TypeOK', NEW b \in Buffer, queueBufferFails(b)
    PROVE  DeviceInv' /\ UNCHANGED <<hasCache, InDevice>>
<1>1. PICK i \in Index :
          /\ cache[i].free
          /\ cache' = [cache EXCEPT ![i] = [free |-> TRUE, lastUsed |-> lastUsedCounter, buffer |-> b]]
          /\ UNCHANGED kqueue \/ (i \notin InKernel /\ kqueue' = Append(kqueue, i))
  BY GetFree DEF queueBufferFails
<1>2. /\ state # "Stopping" /\ hasCache
      /\ UNCHANGED <<state, memoryType, hasCache, queuedBuffers, sending, notifier, watchdogDuration,
                     watchdog, kdone>>
  BY DEF queueBufferFails, Queueable
<1>3. /\ TypeOK /\ KernelQueues /\ CacheTracksQueue /\ WatchdogNeedsBuffers /\ NotifierTracksQueue
      /\ sending = {} /\ Queued \subseteq InKernel
  BY <1>2 DEF DeviceInv
<1>4. InUse = Queued /\ InUse' = Queued /\ Queued' = Queued /\ InDevice' = InDevice
  BY <1>2 DEF InUse, Queued, InDevice
<1>5. cache'[i].free /\ \A j \in Index : j # i => cache'[j] = cache[j]
  BY <1>1, <1>3 DEF TypeOK
<1>6. CacheTracksQueue'
  <2>1. i \notin Queued /\ Queued \subseteq Index
    BY <1>1, <1>3, <1>4, CacheInUse DEF Queued
  <2>2. QED
    BY <1>2, <1>3, <1>4, <1>5, <2>1 DEF CacheTracksQueue
<1>7. KernelQueues' /\ InKernel \subseteq InKernel'
  <2>1. kqueue \in Seq(Index)
    BY <1>3 DEF TypeOK
  <2>2. CASE UNCHANGED kqueue
    BY <1>2, <1>3, <2>2 DEF KernelQueues, InKernel
  <2>3. CASE i \notin InKernel /\ kqueue' = Append(kqueue, i)
    <3>1. ToSet(kqueue') = ToSet(kqueue) \cup {i}
      BY <2>1, <2>3, ToSetOfAppend
    <3>2. IsInjective(kqueue')
      BY <1>3, <2>1, <2>3, InjectiveAppend DEF KernelQueues, InKernel
    <3>3. QED
      BY <1>2, <1>3, <2>3, <3>1, <3>2 DEF KernelQueues, InKernel
  <2>4. QED
    BY <1>1, <2>2, <2>3
<1>8. QED
  BY <1>2, <1>3, <1>4, <1>6, <1>7 DEF DeviceInv, NotifierTracksQueue, WatchdogNeedsBuffers

\* The kernel fills a buffer.
LEMMA DeviceCaptures ==
    ASSUME DeviceInv, TypeOK', Capture
    PROVE  DeviceInv' /\ UNCHANGED <<hasCache, InDevice>>
<1>1. /\ state = "Streaming" /\ kqueue # <<>> /\ kdone' = Append(kdone, Head(kqueue))
      /\ kqueue' = Tail(kqueue)
      /\ UNCHANGED <<state, cacheVars, queuedBuffers, sending, notifier, watchdogDuration, watchdog>>
  BY DEF Capture
<1>2. kqueue \in Seq(Index) /\ kdone \in Seq(Index) /\ KernelQueues
  BY DEF DeviceInv, TypeOK
<1>3. PICK i \in Index : i = Head(kqueue) /\ i \in ToSet(kqueue)
  BY <1>1, <1>2, HeadInToSet
<1>4. ToSet(kqueue') = ToSet(kqueue) \ {i} /\ IsInjective(kqueue')
  BY <1>1, <1>2, <1>3, ToSetOfTail DEF KernelQueues
<1>5. ToSet(kdone') = ToSet(kdone) \cup {i} /\ IsInjective(kdone')
  BY <1>1, <1>2, <1>3, ToSetOfAppend, InjectiveAppend DEF KernelQueues
<1>6. KernelQueues' /\ InKernel' = InKernel
  BY <1>2, <1>3, <1>4, <1>5 DEF KernelQueues, InKernel
<1>7. Queued' = Queued /\ InDevice' = InDevice
  BY <1>1 DEF Queued, InDevice
<1>8. QED
  BY <1>1, <1>6, <1>7 DEF DeviceInv, CacheTracksQueue, NotifierTracksQueue, WatchdogNeedsBuffers

\* dequeueBuffer() returns the buffer queued at the index, or ignores the index.
LEMMA DeviceDequeues ==
    ASSUME DeviceInv, TypeOK', bufferAvailable
    PROVE  /\ DeviceInv' /\ UNCHANGED hasCache
           /\ \/ UNCHANGED InDevice
              \/ \E b \in Buffer : b \in InDevice /\ InDevice' = InDevice \ {b}
<1>1. /\ notifier /\ state # "Stopping" /\ kdone # <<>> /\ kdone' = Tail(kdone)
      /\ UNCHANGED <<state, memoryType, hasCache, lastUsedCounter, sending, watchdogDuration, kqueue>>
  BY DEF bufferAvailable
<1>2. /\ TypeOK /\ KernelQueues /\ CacheTracksQueue /\ WatchdogNeedsBuffers /\ NotifierTracksQueue
      /\ sending = {} /\ Queued \subseteq InKernel /\ (~hasCache => state = "Stopped" /\ Queued = {})
  BY <1>1 DEF DeviceInv
<1>3. kdone \in Seq(Index)
  BY <1>2 DEF TypeOK
<1>4. PICK i \in Index : i = Head(kdone) /\ i \in ToSet(kdone)
  BY <1>1, <1>3, HeadInToSet
<1>5. ToSet(kdone') = ToSet(kdone) \ {i} /\ IsInjective(kdone')
  BY <1>1, <1>2, <1>3, <1>4, ToSetOfTail DEF KernelQueues
<1>6. KernelQueues' /\ InKernel' = InKernel \ {i}
  BY <1>1, <1>2, <1>4, <1>5 DEF KernelQueues, InKernel
<1>7. InUse = Queued /\ InUse' = Queued'
  BY <1>1 DEF InUse
<1>8. CASE i \notin Queued
  <2>1. UNCHANGED <<cache, queuedBuffers, notifier, watchdog>>
    BY <1>4, <1>8 DEF bufferAvailable
  <2>2. Queued' = Queued /\ InDevice' = InDevice
    BY <1>1, <2>1 DEF Queued, InDevice
  <2>3. CacheTracksQueue' /\ NotifierTracksQueue' /\ WatchdogNeedsBuffers'
    BY <1>1, <1>2, <2>1, <2>2 DEF CacheTracksQueue, NotifierTracksQueue, WatchdogNeedsBuffers
  <2>4. Queued' \subseteq InKernel'
    BY <1>2, <1>6, <1>8, <2>2
  <2>5. QED
    BY <1>1, <1>2, <1>6, <2>2, <2>3, <2>4 DEF DeviceInv
<1>9. CASE i \in Queued
  <2>1. /\ cache' = put(cache, i)
        /\ queuedBuffers' = [queuedBuffers EXCEPT ![i] = NoBuffer]
        /\ notifier' = (Queued # {i})
        /\ watchdog' = (Queued # {i} /\ (watchdogDuration \/ watchdog))
    BY <1>4, <1>9 DEF bufferAvailable
  <2>2. /\ cache'[i].free
        /\ \A j \in Index : cache'[j].buffer = cache[j].buffer /\ (j # i => cache'[j] = cache[j])
    <3>1. cache' = put(cache, i) /\ cache \in [Index -> Entry]
      BY <1>2, <2>1 DEF TypeOK
    <3>2. QED
      BY <3>1, PutType
  <2>3. /\ queuedBuffers'[i] = NoBuffer
        /\ \A j \in Index : j # i => queuedBuffers'[j] = queuedBuffers[j]
    BY <1>2, <2>1 DEF TypeOK
  <2>4. Queued' = Queued \ {i}
    BY <2>3 DEF Queued
  <2>5. CacheTracksQueue'
    <3>1. \A j \in Index : ~cache'[j].free <=> j \in Queued'
      BY <1>2, <1>7, <2>2, <2>4, CacheInUse
    <3>2. \A j \in Queued' : cache'[j].buffer = queuedBuffers'[j]
      BY <1>2, <1>7, <2>2, <2>3, <2>4, CacheInUse DEF Queued
    <3>3. \A j, k \in Queued' : queuedBuffers'[j] = queuedBuffers'[k] => j = k
      BY <1>2, <1>7, <2>3, <2>4, CacheInUse DEF Queued
    <3>4. QED
      BY <1>1, <3>1, <3>2, <3>3 DEF CacheTracksQueue
  <2>6. notifier' <=> Queued' # {}
    BY <1>9, <2>1, <2>4
  <2>7. watchdog' => watchdogDuration' /\ Queued' # {}
    BY <1>1, <1>2, <1>9, <2>1, <2>4 DEF WatchdogNeedsBuffers
  <2>8. Queued' \subseteq InKernel'
    BY <1>2, <1>6, <2>4
  <2>9. DeviceInv'
    BY <1>1, <1>2, <1>6, <2>4, <2>5, <2>6, <2>7, <2>8
       DEF DeviceInv, NotifierTracksQueue, WatchdogNeedsBuffers
  <2>10. PICK b \in Buffer : b = queuedBuffers[i]
    BY <1>2, <1>9 DEF Queued, TypeOK
  <2>11. InDevice = {queuedBuffers[j] : j \in Queued} /\ InDevice' = {queuedBuffers'[j] : j \in Queued'}
    BY <1>1 DEF InDevice
  <2>12. \A j \in Queued : j \in Index /\ (j # i => queuedBuffers[j] # b)
    BY <1>2, <1>7, <1>9, <2>10, CacheInUse DEF Queued
  <2>13. b \in InDevice /\ InDevice' = InDevice \ {b}
    BY <1>9, <2>3, <2>4, <2>10, <2>11, <2>12
  <2>14. QED
    BY <1>1, <2>9, <2>13
<1>10. QED
  BY <1>8, <1>9

\* The stream is switched on, or off: the queued buffers are the ones to send back.
LEMMA DeviceSwitches ==
    ASSUME DeviceInv, TypeOK', streamOn \/ streamOff
    PROVE  DeviceInv' /\ UNCHANGED <<hasCache, InDevice>>
<1>1. /\ TypeOK /\ KernelQueues /\ CacheTracksQueue /\ WatchdogNeedsBuffers /\ NotifierTracksQueue
      /\ sending = {} /\ Queued \subseteq InKernel /\ (~hasCache => state = "Stopped" /\ Queued = {})
      /\ state # "Stopping"
  BY DEF DeviceInv, streamOn, streamOff
<1>2. UNCHANGED <<cacheVars, queuedBuffers, notifier, watchdogDuration>> /\ Queued' = Queued
  BY DEF streamOn, streamOff, Queued
<1>3. CASE state' = "Stopping"
  <2>1. /\ sending' = Queued /\ kqueue' = <<>> /\ kdone' = <<>> /\ hasCache
        /\ watchdog' = (watchdog /\ ~watchdogDuration)
    BY <1>1, <1>3 DEF streamOn, streamOff
  <2>2. ~watchdog'
    BY <1>1, <2>1 DEF WatchdogNeedsBuffers
  <2>3. KernelQueues' /\ CacheTracksQueue' /\ InDevice' = InDevice
    BY <1>1, <1>2, <1>3, <2>1, ToSetOfEmpty DEF KernelQueues, CacheTracksQueue, InDevice
  <2>4. QED
    BY <1>2, <1>3, <2>1, <2>2, <2>3 DEF DeviceInv, NotifierTracksQueue, WatchdogNeedsBuffers
<1>4. CASE state' # "Stopping"
  <2>1. UNCHANGED <<sending, kernelVars>> /\ (~hasCache => state' = "Stopped" /\ Queued = {})
    BY <1>1, <1>4 DEF streamOn, streamOff
  <2>2. watchdog' => watchdogDuration /\ Queued # {}
    BY <1>1 DEF streamOn, streamOff, WatchdogNeedsBuffers
  <2>3. KernelQueues' /\ CacheTracksQueue' /\ InDevice' = InDevice /\ InKernel' = InKernel
    BY <1>1, <1>2, <1>4, <2>1 DEF KernelQueues, CacheTracksQueue, InDevice, InKernel
  <2>4. QED
    BY <1>1, <1>2, <1>4, <2>1, <2>2, <2>3 DEF DeviceInv, NotifierTracksQueue, WatchdogNeedsBuffers
<1>5. QED
  BY <1>3, <1>4

\* streamOff() sends one buffer back.
LEMMA DeviceSends ==
    ASSUME DeviceInv, TypeOK', SendBack
    PROVE  /\ DeviceInv' /\ UNCHANGED hasCache
           /\ \E b \in Buffer : b \in InDevice /\ InDevice' = InDevice \ {b}
<1>1. /\ TypeOK /\ KernelQueues /\ CacheTracksQueue /\ state = "Stopping" /\ hasCache
      /\ sending \subseteq Queued /\ ~watchdog /\ kqueue = <<>> /\ kdone = <<>>
      /\ UNCHANGED <<state, memoryType, hasCache, lastUsedCounter, queuedBuffers, notifier,
                     watchdogDuration, watchdog, kernelVars>>
  BY DEF DeviceInv, SendBack
<1>2. PICK i \in sending : cache' = put(cache, i) /\ sending' = sending \ {i}
  BY DEF SendBack
<1>3. InUse = sending /\ InUse' = sending' /\ Queued' = Queued /\ i \in Index /\ sending \subseteq Index
  BY <1>1, <1>2 DEF InUse, Queued, TypeOK
<1>4. /\ cache'[i].free
      /\ \A j \in Index : cache'[j].buffer = cache[j].buffer /\ (j # i => cache'[j] = cache[j])
  BY <1>1, <1>2, <1>3, PutType DEF TypeOK
<1>5. CacheTracksQueue'
  <2>1. \A j \in Index : ~cache'[j].free <=> j \in sending'
    BY <1>1, <1>2, <1>3, <1>4, CacheInUse
  <2>2. \A j \in sending' : cache'[j].buffer = queuedBuffers'[j]
    BY <1>1, <1>2, <1>3, <1>4, CacheInUse
  <2>3. \A j, k \in sending' : queuedBuffers'[j] = queuedBuffers'[k] => j = k
    BY <1>1, <1>2, <1>3, CacheInUse
  <2>4. QED
    BY <1>1, <2>1, <2>2, <2>3 DEF CacheTracksQueue
<1>6. DeviceInv'
  BY <1>1, <1>2, <1>3, <1>5 DEF DeviceInv, KernelQueues, NotifierTracksQueue, WatchdogNeedsBuffers
<1>7. PICK b \in Buffer : b = queuedBuffers[i]
  BY <1>1, <1>2 DEF Queued, TypeOK
<1>8. InDevice = {queuedBuffers[j] : j \in sending} /\ InDevice' = {queuedBuffers[j] : j \in sending'}
  BY <1>1 DEF InDevice
<1>9. \A j \in sending : j # i => queuedBuffers[j] # b
  BY <1>1, <1>2, <1>3, <1>7, CacheInUse
<1>10. b \in InDevice /\ InDevice' = InDevice \ {b}
  BY <1>2, <1>7, <1>8, <1>9
<1>11. QED
  BY <1>1, <1>6, <1>10

\* streamOff() ends when it has sent back all the buffers.
LEMMA DeviceStops ==
    ASSUME DeviceInv, TypeOK', streamOffDone
    PROVE  DeviceInv' /\ UNCHANGED <<hasCache, InDevice>>
<1>1. /\ TypeOK /\ KernelQueues /\ CacheTracksQueue /\ state = "Stopping" /\ hasCache /\ sending = {}
      /\ ~watchdog /\ queuedBuffers' = NoQueue /\ notifier' = FALSE /\ state' = "Stopped"
      /\ UNCHANGED <<cacheVars, sending, watchdogDuration, watchdog, kernelVars>>
  BY DEF DeviceInv, streamOffDone
<1>2. Queued' = {} /\ InDevice' = {} /\ InDevice = {}
  BY <1>1, EmptyState DEF Queued, InDevice
<1>3. CacheTracksQueue'
  BY <1>1, <1>2 DEF CacheTracksQueue
<1>4. QED
  BY <1>1, <1>2, <1>3 DEF DeviceInv, KernelQueues, NotifierTracksQueue, WatchdogNeedsBuffers

\* The watchdog expires.
LEMMA DeviceWatchdog ==
    ASSUME DeviceInv, TypeOK',
           watchdogExpired \/ \E timeout \in BOOLEAN : setDequeueTimeout(timeout)
    PROVE  DeviceInv' /\ UNCHANGED <<hasCache, InDevice>>
<1>1. /\ state # "Stopping"
      /\ UNCHANGED <<state, cacheVars, queuedBuffers, sending, notifier, kernelVars>>
  BY DEF setDequeueTimeout, watchdogExpired
<1>2. Queued' = Queued /\ InDevice' = InDevice /\ InKernel' = InKernel
  BY <1>1 DEF Queued, InDevice, InKernel
<1>3. WatchdogNeedsBuffers'
  <2>1. ASSUME NEW timeout \in BOOLEAN, setDequeueTimeout(timeout) PROVE WatchdogNeedsBuffers'
    <3>1. watchdogDuration' = timeout /\ watchdog' = (timeout /\ state = "Streaming" /\ Queued # {})
      BY <2>1 DEF setDequeueTimeout
    <3>2. QED
      BY <1>2, <3>1 DEF WatchdogNeedsBuffers
  <2>2. CASE watchdogExpired
    BY <2>2 DEF watchdogExpired, WatchdogNeedsBuffers
  <2>3. QED
    BY <2>1, <2>2
<1>4. QED
  BY <1>1, <1>2, <1>3 DEF DeviceInv, CacheTracksQueue, KernelQueues, NotifierTracksQueue

\* The invariant holds at first,
LEMMA DeviceInit == Init => DeviceInv
<1> SUFFICES ASSUME Init PROVE DeviceInv
  OBVIOUS
<1>1. TypeOK
  BY DeviceTypeInit
<1>2. Queued = {} /\ \A i \in Index : cache[i].free
  BY EmptyState DEF Init, Queued
<1>3. CacheTracksQueue
  BY <1>2 DEF Init, CacheTracksQueue
<1>4. KernelQueues
  BY ToSetOfEmpty DEF Init, KernelQueues
<1>5. QED
  BY <1>1, <1>2, <1>3, <1>4 DEF Init, DeviceInv, NotifierTracksQueue, WatchdogNeedsBuffers

\* and every step keeps it.
LEMMA DeviceInvariant == DeviceInv /\ [Next]_vars => DeviceInv'
<1> SUFFICES ASSUME DeviceInv, [Next]_vars PROVE DeviceInv'
  OBVIOUS
<1>1. TypeOK'
  BY DeviceTypeNext DEF DeviceInv
<1>2. CASE UNCHANGED vars
  BY <1>2 DEF DeviceInv, TypeOK, CacheTracksQueue, KernelQueues, NotifierTracksQueue,
              WatchdogNeedsBuffers, Queued, InKernel
<1>3. QED
  BY <1>1, <1>2, DeviceMemory, DeviceQueues, DeviceQueueFails, DeviceCaptures, DeviceDequeues,
     DeviceSwitches, DeviceSends, DeviceStops, DeviceWatchdog DEF Next

\* The buffer cache marks an entry in use exactly as long as its buffer is queued,
\* with any number of buffers and indices, and whichever VIDIOC_QBUF or
\* VIDIOC_STREAMOFF fails, the kernel keeping a buffer it has refused included.
THEOREM CacheFollowsQueue == Spec => []CacheTracksQueue
<1>1. DeviceInv => CacheTracksQueue
  BY DEF DeviceInv
<1>2. QED
  BY <1>1, DeviceInit, DeviceInvariant, PTL DEF Spec

\* The kernel has every queued buffer once, the event loop watches the device exactly
\* when a buffer is queued, and the watchdog runs only while one is.
THEOREM RecordsFollowQueue == Spec => []RecordsAgree
<1>1. DeviceInv => RecordsAgree
  <2> SUFFICES ASSUME DeviceInv PROVE RecordsAgree
    OBVIOUS
  <2>1. kqueue \in Seq(Index) /\ kdone \in Seq(Index) /\ KernelQueues
    BY DEF DeviceInv, TypeOK
  <2>2. IsInjective(kqueue \o kdone)
    BY <2>1, InjectiveConcat DEF KernelQueues
  <2>3. QED
    BY <2>2 DEF DeviceInv, RecordsAgree, KernelHasQueued
<1>2. QED
  BY <1>1, DeviceInit, DeviceInvariant, PTL DEF Spec

-----------------------------------------------------------------------------
(***************************************************************************)
(* The device implements the contract that pipeline handlers rely on.      *)
(***************************************************************************)
LEMMA ContractStep == DeviceInv /\ [Next]_vars => [Contract!Next]_(Contract!vars)
<1> SUFFICES ASSUME DeviceInv, [Next]_vars PROVE [Contract!Next]_(Contract!vars)
  OBVIOUS
<1> USE DEF Contract!Next, Contract!vars, Contract!Prepare, Contract!Release, Contract!Queue,
            Contract!Return
<1>1. TypeOK'
  BY DeviceTypeNext DEF DeviceInv
<1>2. CASE importBuffers \/ allocateBuffers
  <2>1. ~hasCache /\ hasCache' /\ InDevice' = InDevice
    BY <1>2 DEF importBuffers, allocateBuffers, InDevice, Queued
  <2>2. QED
    BY <2>1
<1>3. CASE releaseBuffers
  <2>1. hasCache /\ ~hasCache' /\ InDevice = {} /\ InDevice' = {}
    BY <1>3 DEF releaseBuffers, InDevice, Queued
  <2>2. QED
    BY <2>1
<1>4. ASSUME NEW b \in Buffer, queueBuffer(b) PROVE Contract!Next
  <2>1. InDevice' = InDevice \cup {b} /\ b \notin InDevice /\ hasCache /\ hasCache'
    BY <1>1, <1>4, DeviceQueues
  <2>2. QED
    BY <2>1
<1>5. ASSUME NEW b \in Buffer, b \in InDevice, InDevice' = InDevice \ {b}, UNCHANGED hasCache
      PROVE  Contract!Next
  BY <1>5
<1>6. CASE bufferAvailable \/ SendBack
  <2>1. /\ UNCHANGED hasCache
        /\ UNCHANGED InDevice \/ \E b \in Buffer : b \in InDevice /\ InDevice' = InDevice \ {b}
    BY <1>1, <1>6, DeviceDequeues, DeviceSends
  <2>2. QED
    BY <1>5, <2>1
<1>7. ASSUME UNCHANGED <<hasCache, InDevice>> PROVE UNCHANGED Contract!vars
  BY <1>7
<1>8. CASE UNCHANGED vars
  BY <1>7, <1>8 DEF InDevice, Queued
<1>9. QED
  BY <1>1, <1>2, <1>3, <1>4, <1>6, <1>7, <1>8, DeviceQueueFails, DeviceCaptures, DeviceSwitches,
     DeviceStops, DeviceWatchdog DEF Next

\* V4L2VideoDevice implements CaptureDevice, what it promises to pipeline handlers that
\* call streamOff() before releaseBuffers(): every queued buffer comes back exactly
\* once, captured or cancelled, before the memory is released.
THEOREM BuffersReturnOnce == Spec => ReturnsOnce
<1>1. Init => Contract!Init
  <2> SUFFICES ASSUME Init PROVE Contract!Init
    OBVIOUS
  <2>1. ~hasCache /\ InDevice = {}
    BY EmptyState DEF Init, InDevice, Queued
  <2>2. QED
    BY <2>1 DEF Contract!Init
<1>2. QED
  BY <1>1, DeviceInit, DeviceInvariant, ContractStep, PTL DEF Spec, ReturnsOnce, Contract!Spec
=============================================================================
