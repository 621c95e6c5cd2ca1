------------------------------ MODULE IpcSocket ------------------------------
(***************************************************************************)
(* One direction of an IPCUnixSocket channel.  A message is sent as two     *)
(* datagrams, a header and a payload, by two system calls that do not block *)
(* and fail when the socket is full; the receiver may run between them.     *)
(* The user of the receiving socket calls receive() from readyRead, as      *)
(* IPCPipeUnixSocket does.                                                  *)
(***************************************************************************)
EXTENDS Naturals, Sequences, SequencesExt, Functions

CONSTANTS MaxMessages,  \* bound: messages sent
          Capacity      \* datagrams the kernel queues for the receiver

VARIABLES count,           \* messages the sender has tried to send
          sending,         \* the message whose header is sent and payload is not, or 0
          channel,         \* datagrams in the socket
          headerReceived,  \* headerReceived_
          header,          \* header_: the message of the datagram taken for a header
          notifier,        \* whether the read notifier is enabled
          received,        \* what receive() returned: the header and the payload
          whole,           \* history: the messages send() returned 0 for
          torn,            \* history: a payload could not be sent after its header
          dead             \* history: recvmsg() failed

senderVars == <<count, sending, whole, torn>>
receiverVars == <<headerReceived, header, notifier, received, dead>>
vars == <<senderVars, channel, receiverVars>>

Datagram(kind, n) == [kind |-> kind, message |-> n]
Full == Len(channel) = Capacity

Init ==
    /\ count = 0 /\ sending = 0 /\ whole = <<>> /\ torn = FALSE
    /\ channel = <<>>
    /\ headerReceived = FALSE /\ header = 0 /\ notifier = TRUE
    /\ received = <<>> /\ dead = FALSE

\* send(), up to the header
SendHeader ==
    /\ sending = 0 /\ count < MaxMessages
    /\ count' = count + 1
    /\ IF Full THEN UNCHANGED <<channel, sending>>
       ELSE channel' = Append(channel, Datagram("header", count + 1)) /\ sending' = count + 1
    /\ UNCHANGED <<whole, torn, receiverVars>>

\* sendData()
SendData ==
    /\ sending # 0
    /\ sending' = 0
    /\ IF Full THEN torn' = TRUE /\ UNCHANGED <<channel, whole>>
       ELSE /\ channel' = Append(channel, Datagram("payload", sending))
            /\ whole' = Append(whole, sending)
            /\ UNCHANGED torn
    /\ UNCHANGED <<count, receiverVars>>

\* Mutant: a notification always starts with a header.
DataNotifierHeader ==
    /\ notifier /\ channel # <<>>
    /\ header' = Head(channel).message
    /\ channel' = Tail(channel)
    /\ headerReceived' = TRUE
    /\ notifier' = (channel' = <<>>)
    /\ UNCHANGED <<senderVars, received, dead>>

\* dataNotifier(): the notifier stays enabled until the payload is there too.
DataNotifier ==
    /\ notifier /\ channel # <<>>
    /\ header' = IF headerReceived THEN header ELSE Head(channel).message
    /\ channel' = IF headerReceived THEN channel ELSE Tail(channel)
    /\ headerReceived' = TRUE
    /\ notifier' = (channel' = <<>>)
    /\ UNCHANGED <<senderVars, received, dead>>

\* Mutant: the notifier is enabled again only when nothing is left to read.
ReceiveLast ==
    /\ ~notifier /\ ~dead
    /\ received' = Append(received, <<header, Head(channel)>>)
    /\ channel' = Tail(channel)
    /\ headerReceived' = FALSE
    /\ notifier' = (Tail(channel) = <<>>)
    /\ UNCHANGED <<senderVars, header, dead>>

\* receive(), in the slot of readyRead
Receive ==
    /\ ~notifier /\ ~dead
    /\ received' = Append(received, <<header, Head(channel)>>)
    /\ channel' = Tail(channel)
    /\ headerReceived' = FALSE
    /\ notifier' = TRUE
    /\ UNCHANGED <<senderVars, header, dead>>

\* receive() whose recvmsg() fails: the notifier stays disabled.
ReceiveFails ==
    /\ ~notifier /\ ~dead
    /\ dead' = TRUE
    /\ UNCHANGED <<senderVars, channel, headerReceived, header, notifier, received>>

Next == SendHeader \/ SendData \/ DataNotifier \/ Receive \/ ReceiveFails

Spec == Init /\ [][Next]_vars

\* The receiver's event loop runs; the sender may stop at any point.
FairSpec == Spec /\ WF_vars(DataNotifier) /\ WF_vars(Receive)

-----------------------------------------------------------------------------

\* MessagesWhole: what receive() returns are the messages that were sent, in order,
\* each payload with its own header, also when the two arrive far apart.  A payload
\* that could not be sent ends this: from then on headers are taken for payloads.
MessagesWhole ==
    ~torn => IsPrefix(received, [i \in DOMAIN whole |-> <<whole[i], Datagram("payload", whole[i])>>])

\* PayloadsEntire: receive() returns each payload with its own header, whatever became of
\* the messages before it: "transporting entire payloads with guaranteed ordering".
PayloadsEntire == \A i \in DOMAIN received : received[i][2] = Datagram("payload", received[i][1])

\* MessagesArrive: what send() returned 0 for is received in the end, whatever the
\* order of notifications and datagrams, unless the socket broke.
MessagesArrive ==
    \A n \in 1 .. MaxMessages :
        Contains(whole, n) ~> (torn \/ dead \/ \E i \in DOMAIN received : received[i][1] = n)
=============================================================================
