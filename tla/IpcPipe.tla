------------------------------- MODULE IpcPipe -------------------------------
(***************************************************************************)
(* An isolated IPA: the calls an IPA proxy makes to the worker process over *)
(* IPCPipeUnixSocket, and the events the IPA sends back.  A synchronous     *)
(* call runs the event loop until the answer has come, so that handlers run *)
(* and may make further calls within it.  The socket delivers messages in   *)
(* order and loses none; a message stands for its header and payload.       *)
(***************************************************************************)
EXTENDS Integers, Sequences, SequencesExt

CONSTANTS MaxCalls,     \* bound: messages the proxy sends
          MaxEvents,    \* bound: events the IPA sends
          MaxNesting,   \* bound: synchronous calls within each other
          CookieLimit   \* 2^32: the number of values of seq_

VARIABLES seq,         \* seq_ of the proxy
          sent,        \* bound: messages sent so far
          callData,    \* callData_: the synchronous calls in progress, innermost last
          emitted,     \* kinds of messages the recv signal has been emitted for
          toWorker,    \* messages on their way to the worker
          working,     \* the message the worker is handling
          events,      \* bound: events sent so far
          fromWorker   \* messages on their way from the worker

proxyVars == <<seq, sent, callData, emitted>>
workerVars == <<working, events>>
vars == <<proxyVars, toWorker, workerVars, fromWorker>>

None == [kind |-> "none"]

\* Messages carry the number of the call they are about, and of the worker's event.
ToWorker == [kind : {"sync", "async"}, cookie : 0 .. CookieLimit - 1, call : 1 .. MaxCalls]
FromWorker == [kind : {"reply", "event"}, cookie : 0 .. CookieLimit - 1, call : 1 .. MaxCalls]

TypeOK ==
    /\ seq \in 0 .. CookieLimit - 1
    /\ sent \in 0 .. MaxCalls
    /\ callData \in Seq([cookie : 0 .. CookieLimit - 1, call : 1 .. MaxCalls,
                         timer : BOOLEAN, response : FromWorker \cup {None}])
    /\ emitted \subseteq {"reply", "event"}
    /\ toWorker \in Seq(ToWorker)
    /\ working \in ToWorker \cup {None}
    /\ events \in 0 .. MaxEvents
    /\ fromWorker \in Seq(FromWorker)

(***************************************************************************)
(* The proxy.                                                              *)
(***************************************************************************)

Send(kind) ==
    /\ sent < MaxCalls
    /\ sent' = sent + 1
    /\ toWorker' = Append(toWorker, [kind |-> kind, cookie |-> seq, call |-> sent + 1])

\* sendSync() and call(): the call is recorded, sent and its timeout started.
SendSync ==
    /\ Len(callData) < MaxNesting
    /\ Send("sync")
    /\ seq' = (seq + 1) % CookieLimit
    /\ callData' = Append(callData, [cookie |-> seq, call |-> sent + 1, timer |-> TRUE,
                                     response |-> None])
    /\ UNCHANGED <<emitted, workerVars, fromWorker>>

\* A send() that fails leaves no trace but the cookie.
SendFails ==
    /\ sent < MaxCalls
    /\ sent' = sent + 1
    /\ seq' = (seq + 1) % CookieLimit
    /\ UNCHANGED <<callData, emitted, toWorker, workerVars, fromWorker>>

\* sendAsync()
SendAsync ==
    /\ Send("async")
    /\ seq' = (seq + 1) % CookieLimit
    /\ UNCHANGED <<callData, emitted, workerVars, fromWorker>>

\* The calls in progress that have the cookie of a message.
Matching(m) == {i \in 1 .. Len(callData) : callData[i].cookie = m.cookie}

\* Mutant: the innermost call gets the answer.
readyReadInnermost ==
    /\ fromWorker # <<>>
    /\ fromWorker' = Tail(fromWorker)
    /\ LET m == Head(fromWorker) IN
       IF m.kind = "reply" /\ callData # <<>>
       THEN callData' = [callData EXCEPT ![Len(callData)].response = m] /\ UNCHANGED emitted
       ELSE emitted' = emitted \cup {m.kind} /\ UNCHANGED callData
    /\ UNCHANGED <<seq, sent, toWorker, workerVars>>

\* readyRead(): a message with the cookie of a call in progress is its answer, any
\* other is passed on with the recv signal, as an event.
readyRead ==
    /\ fromWorker # <<>>
    /\ fromWorker' = Tail(fromWorker)
    /\ LET m == Head(fromWorker) IN
       IF Matching(m) # {}
       THEN callData' = [callData EXCEPT ![Min(Matching(m))].response = m] /\ UNCHANGED emitted
       ELSE emitted' = emitted \cup {m.kind} /\ UNCHANGED callData
    /\ UNCHANGED <<seq, sent, toWorker, workerVars>>

TimeoutExpires(i) ==
    /\ i \in 1 .. Len(callData)
    /\ callData[i].timer
    /\ callData' = [callData EXCEPT ![i].timer = FALSE]
    /\ UNCHANGED <<seq, sent, emitted, toWorker, workerVars, fromWorker>>

\* call() returns from its loop: with the answer, or -ETIMEDOUT.  The loop of the
\* innermost call is the one that runs.
CallReturn ==
    /\ callData # <<>>
    /\ Last(callData).response # None
    /\ callData' = Front(callData)
    /\ UNCHANGED <<seq, sent, emitted, toWorker, workerVars, fromWorker>>

\* Mutant: a timeout is logged and the call waits on.
CallTimedOutWaits ==
    /\ callData # <<>>
    /\ Last(callData).response = None
    /\ ~Last(callData).timer
    /\ UNCHANGED vars

CallTimedOut ==
    /\ callData # <<>>
    /\ Last(callData).response = None
    /\ ~Last(callData).timer
    /\ callData' = Front(callData)
    /\ UNCHANGED <<seq, sent, emitted, toWorker, workerVars, fromWorker>>

(***************************************************************************)
(* The worker process, one message at a time.                              *)
(***************************************************************************)

WorkerReceive ==
    /\ working = None
    /\ toWorker # <<>>
    /\ working' = Head(toWorker)
    /\ toWorker' = Tail(toWorker)
    /\ UNCHANGED <<proxyVars, events, fromWorker>>

\* The IPA emits a signal, which is sent with cookie 0.
WorkerEvent ==
    /\ working # None
    /\ events < MaxEvents
    /\ events' = events + 1
    /\ fromWorker' = Append(fromWorker, [kind |-> "event", cookie |-> 0, call |-> working.call])
    /\ UNCHANGED <<proxyVars, toWorker, working>>

\* The IPA function returns; a synchronous call is answered with its own cookie.
WorkerDone ==
    /\ working # None
    /\ working' = None
    /\ fromWorker' =
           IF working.kind = "async" THEN fromWorker
           ELSE Append(fromWorker, [kind |-> "reply", cookie |-> working.cookie, call |-> working.call])
    /\ UNCHANGED <<proxyVars, toWorker, events>>

-----------------------------------------------------------------------------

\* The proxy has called init(), with cookie 0 and before any camera exists, and has
\* got its answer.
Init ==
    /\ seq = 1
    /\ sent = 0
    /\ callData = <<>>
    /\ emitted = {}
    /\ toWorker = <<>>
    /\ working = None
    /\ events = 0
    /\ fromWorker = <<>>

Proxy ==
    \/ SendSync \/ SendFails \/ SendAsync \/ readyRead
    \/ CallReturn \/ CallTimedOut
    \/ \E i \in 1 .. MaxNesting : TimeoutExpires(i)

Worker == WorkerReceive \/ WorkerEvent \/ WorkerDone

Next == Proxy \/ Worker

Spec == Init /\ [][Next]_vars

\* The proxy runs its event loop and looks at the result.  The worker may hang or
\* die at any point; the timers of the proxy still expire.
FairSpec ==
    /\ Spec
    /\ WF_vars(readyRead) /\ WF_vars(CallReturn) /\ WF_vars(CallTimedOut)
    /\ \A i \in 1 .. MaxNesting : WF_vars(TimeoutExpires(i))

-----------------------------------------------------------------------------

\* A call gets its own answer, also when calls are made within calls: the cookie is
\* there "to identify the message and a corresponding reply".
RepliesMatch ==
    \A i \in 1 .. Len(callData) : callData[i].response # None =>
        callData[i].response.kind = "reply" /\ callData[i].response.call = callData[i].call

\* "Received unexpected data, this means it's a call from the IPA."
RecvOnlyEvents == "reply" \notin emitted

\* When a synchronous call returns, the events the IPA sent before it answered
\* have been delivered.
EventsBeforeReply ==
    [][Len(callData') < Len(callData) /\ Last(callData).response # None =>
           \A i \in 1 .. Len(fromWorker) : fromWorker[i].call >= Last(callData).call
              /\ (fromWorker[i].call = Last(callData).call => fromWorker[i].kind # "event")]_vars

\* Every synchronous call returns.
CallsReturn == \A c \in 1 .. MaxCalls :
    (\E i \in 1 .. Len(callData) : callData[i].call = c) ~>
        ~\E i \in 1 .. Len(callData) : callData[i].call = c

\* CallsServed: a call returns whatever the worker does, and its answer does not
\* overtake the events that the IPA sent before it.
CallsServed == EventsBeforeReply /\ CallsReturn
=============================================================================
