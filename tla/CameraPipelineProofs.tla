------------------------ MODULE CameraPipelineProofs ------------------------
(***************************************************************************)
(* Theorems about CameraPipeline, for every value of its constants that     *)
(* their hypotheses allow: submission order, then the queues of the         *)
(* pipeline handler, the buffers in the capture devices and the capture     *)
(* session.                                                                 *)
(***************************************************************************)
EXTENDS CameraPipeline, QueueLemmas, TLAPS

(***************************************************************************)
(* The operations on a request keep its type.                              *)
(***************************************************************************)
LEMMA NewRequestType ==
    ASSUME NEW f \in SUBSET Stream
    PROVE  NewRequest(f) \in RequestPrivate
  BY DEF RequestPrivate, NewRequest, Status

\* The operations of Request keep the type of a request.
LEMMA RequestOperations ==
    ASSUME NEW q \in RequestPrivate, NEW s \in Stream, NEW c \in BOOLEAN
    PROVE  /\ doCancelRequest(q) \in RequestPrivate
           /\ complete(q) \in RequestPrivate
           /\ completeBuffer(q, s, c) \in RequestPrivate
           /\ prepare(q) \in RequestPrivate
           /\ notifierActivated(q, s) \in RequestPrivate
           /\ timeout(q) \in RequestPrivate
  BY DEF RequestPrivate, doCancelRequest, complete, completeBuffer, prepare,
         notifierActivated, timeout, Status

\* Init establishes the types.
LEMMA TypeInit == Init => TypeOK
<1> SUFFICES ASSUME Init PROVE TypeOK
  OBVIOUS
<1>1. ASSUME NEW f \in SUBSET FencedStreams PROVE NewRequest(f) \in RequestPrivate
  <2>1. f \in SUBSET Stream
    BY ConstantsAssumption
  <2>2. QED
    BY <2>1, NewRequestType
<1>2. {NewRequest(f) : f \in SUBSET FencedStreams} \subseteq RequestPrivate
  BY <1>1
<1>. HIDE DEF NewRequest
<1>2a. req \in [Request -> RequestPrivate]
  BY <1>2 DEF Init
<1>3. stopStream \in 1 .. NumStreams + 1
  BY ConstantsAssumption DEF Init
<1>4. caller \in [Callers -> Request \cup {NoRequest}]
  BY DEF Init
<1>5. device \in [Stream -> SUBSET Request]
  BY DEF Init
<1>6. /\ msgs \in Seq(Message)
      /\ waitingRequests \in Seq(Request)
      /\ queuedRequests \in Seq(Request)
      /\ stopRequests \in Seq(Request)
  BY DEF Init
<1>7. /\ state \in CameraState
      /\ disconnected \in BOOLEAN
      /\ call \in Invocation \cup {"none", "stopping"}
      /\ reply \in {"none", "ok", "error"}
      /\ held \subseteq Request
      /\ pc \in {"loop", "complete", "doQueue", "stopDevice", "stopWaiting"}
      /\ ret \in {"loop", "stopDevice", "stopWaiting"}
      /\ requestSequence \in Nat
      /\ imported \subseteq Stream
      /\ fatal \in Fatal \cup {"none"}
  BY DEF Init, CameraState
<1>8. QED
  BY <1>2a, <1>3, <1>4, <1>5, <1>6, <1>7 DEF TypeOK

USE DEF vars, cameraVars, appVars, handlerVars, queueVars, deviceVars

\* Calls of the application: the state, the call and the messages change.
LEMMA TypeApplication == TypeOK /\ Application => TypeOK'
<1> SUFFICES ASSUME TypeOK, Application PROVE TypeOK'
  OBVIOUS
<1>1. ASSUME NEW op \in Invocation, Invoke(op)
      PROVE  msgs' \in Seq(Message) /\ call' \in Invocation
  BY <1>1 DEF TypeOK, Invoke, Message
<1>2. ASSUME NEW op, NEW next \in CameraState, Return(op, next), UNCHANGED fatal PROVE TypeOK'
  BY <1>2 DEF TypeOK, Return
<1>3. CASE Acquire
  BY <1>1, <1>3 DEF Acquire, TypeOK, Invocation
<1>4. CASE Configure
  BY <1>1, <1>4 DEF Configure, TypeOK, Invocation
<1>5. CASE Start
  BY <1>1, <1>5 DEF Start, TypeOK, Invocation, Fatal
<1>6. CASE Stop
  BY <1>6 DEF Stop, TypeOK
<1>7. CASE StopInvoke
  BY <1>1, <1>7 DEF StopInvoke, TypeOK, Invocation, CameraState
<1>8. CASE Release
  BY <1>1, <1>8 DEF Release, TypeOK, Invocation
<1>9. CASE AcquireReturn
  BY <1>2, <1>9 DEF AcquireReturn, CameraState
<1>10. CASE ConfigureReturn
  BY <1>2, <1>10 DEF ConfigureReturn, CameraState
<1>11. CASE StartReturn
  BY <1>2, <1>11 DEF StartReturn, CameraState
<1>12. CASE ReleaseReturn
  BY <1>2, <1>12 DEF ReleaseReturn, CameraState
<1>13. CASE StopReturn
  BY <1>13 DEF StopReturn, Return, TypeOK, CameraState, Fatal
<1>14. ASSUME NEW r \in Request, NEW f \in SUBSET FencedStreams, Reuse(r, f) PROVE TypeOK'
  <2>1. NewRequest(f) \in RequestPrivate
    BY ConstantsAssumption, NewRequestType
  <2>2. req' \in [Request -> RequestPrivate]
    BY <1>14, <2>1 DEF Reuse, TypeOK
  <2>3. QED
    BY <1>14, <2>2 DEF Reuse, TypeOK
<1>15. QED
  BY <1>3, <1>4, <1>5, <1>6, <1>7, <1>8, <1>9, <1>10, <1>11, <1>12, <1>13, <1>14 DEF Application

\* queueRequest(): a request moves from the application to a message.
LEMMA TypeQueueRequest == TypeOK /\ QueueRequest => TypeOK'
<1> SUFFICES ASSUME TypeOK, QueueRequest PROVE TypeOK'
  OBVIOUS
<1>1. ASSUME NEW t \in Callers, NEW r \in Request, QueueRequestCheck(t, r) PROVE TypeOK'
  BY <1>1 DEF QueueRequestCheck, TypeOK
<1>2. ASSUME NEW t \in Callers, QueueRequestPost(t) PROVE TypeOK'
  <2>1. [op |-> "queueRequest", request |-> caller[t]] \in Message
    BY <1>2 DEF QueueRequestPost, TypeOK, Message
  <2>2. msgs' \in Seq(Message)
    BY <1>2, <2>1 DEF QueueRequestPost, TypeOK
  <2>3. QED
    BY <1>2, <2>2 DEF QueueRequestPost, TypeOK
<1>3. QED
  BY <1>1, <1>2 DEF QueueRequest

\* Delivering a message: the rest of the messages, and the message's request.
LEMMA DispatchType ==
    ASSUME TypeOK, NEW op, Dispatch(op)
    PROVE  /\ msgs' \in Seq(Message)
           /\ op = "queueRequest" => Head(msgs).request \in Request
<1>1. msgs \in Seq(Message) /\ msgs # <<>> /\ msgs' = Tail(msgs) /\ Head(msgs).op = op
  BY DEF Dispatch, TypeOK
<1>2. Head(msgs) \in Message /\ Tail(msgs) \in Seq(Message)
  BY <1>1
<1>3. QED
  BY <1>1, <1>2 DEF Message, Invocation

\* The handlers of messages keep the types.
LEMMA TypeHandleMessage == TypeOK /\ HandleMessage => TypeOK'
<1> SUFFICES ASSUME TypeOK, HandleMessage PROVE TypeOK'
  OBVIOUS
<1>1. ASSUME NEW op, HandleInvocation(op) PROVE TypeOK'
  <2>1. msgs' \in Seq(Message)
    BY <1>1, DispatchType DEF HandleInvocation
  <2>2. QED
    BY <1>1, <2>1 DEF HandleInvocation, TypeOK
<1>2. CASE HandleStart
  <2>1. msgs' \in Seq(Message)
    BY <1>2, DispatchType DEF HandleStart
  <2>2. imported' \subseteq Stream
    <3>1. \A s \in StartFaults : 1 .. s - 1 \subseteq Stream /\ 1 .. s \subseteq Stream
      BY ConstantsAssumption DEF Stream
    <3>2. imported \subseteq Stream
      BY DEF TypeOK
    <3>3. \/ imported' = Stream \/ imported' = imported
          \/ \E s \in StartFaults : imported' \in {1 .. s - 1, 1 .. s}
      BY <1>2 DEF HandleStart
    <3>4. QED
      BY <3>1, <3>2, <3>3
  <2>3. reply' \in {"none", "ok", "error"}
    BY <1>2 DEF HandleStart
  <2>4. QED
    BY <1>2, <2>1, <2>2, <2>3 DEF HandleStart, TypeOK
<1>3. CASE HandleQueueRequest
  <2> DEFINE r == Head(msgs).request
  <2>1. msgs' \in Seq(Message) /\ r \in Request
    BY <1>3, DispatchType DEF HandleQueueRequest
  <2>2. waitingRequests' \in Seq(Request)
    <3>1. waitingRequests' = Append(waitingRequests, r)
      BY <1>3 DEF HandleQueueRequest
    <3>2. waitingRequests \in Seq(Request)
      BY DEF TypeOK
    <3> HIDE DEF r
    <3>3. QED
      BY <2>1, <3>1, <3>2
  <2>3. prepare(req[r]) \in RequestPrivate
    <3>1. req[r] \in RequestPrivate
      BY <2>1 DEF TypeOK
    <3>2. QED
      BY <3>1, RequestOperations, ConstantsAssumption DEF Stream
  <2>4. req' \in [Request -> RequestPrivate]
    BY <1>3, <2>1, <2>3 DEF HandleQueueRequest, TypeOK
  <2>5. QED
    BY <1>3, <2>1, <2>2, <2>4 DEF HandleQueueRequest, TypeOK, Fatal
<1>4. CASE HandleStop
  <2>1. msgs' \in Seq(Message)
    BY <1>4, DispatchType DEF HandleStop
  <2>2. stopStream' \in 1 .. NumStreams + 1
    BY <1>4, ConstantsAssumption DEF HandleStop
  <2>3. QED
    BY <1>4, <2>1, <2>2 DEF HandleStop, TypeOK
<1>5. QED
  BY <1>1, <1>2, <1>3, <1>4 DEF HandleMessage

\* bufferReady() completes a buffer, or a request with it.
LEMMA BufferReadyType ==
    ASSUME TypeOK, NEW r \in Request, NEW s \in Stream, NEW c \in BOOLEAN,
           bufferReady(r, s, c), pc \in {"loop", "stopDevice"}
    PROVE  /\ device' \in [Stream -> SUBSET Request]
           /\ req' \in [Request -> RequestPrivate]
           /\ fatal' \in Fatal \cup {"none"}
           /\ pc' \in {"loop", "stopDevice", "complete"}
           /\ ret' \in {"loop", "stopDevice"}
<1> DEFINE q == completeBuffer(req[r], s, c)
<1>1. q \in RequestPrivate /\ complete(q) \in RequestPrivate
  <2>1. req[r] \in RequestPrivate
    BY DEF TypeOK
  <2>2. q \in RequestPrivate
    BY <2>1 DEF RequestPrivate, completeBuffer
  <2> HIDE DEF q
  <2>3. complete(q) \in RequestPrivate
    BY <2>2 DEF RequestPrivate, complete, Status
  <2>4. QED
    BY <2>2, <2>3
<1>2. req' \in [Request -> RequestPrivate]
  BY <1>1 DEF bufferReady, TypeOK
<1>3. fatal' \in Fatal \cup {"none"}
  <2>1. /\ "completeBuffer: ret == 1" \in Fatal
        /\ "complete: status() == RequestPending" \in Fatal
    BY DEF Fatal
  <2>2. fatal' \in {fatal, "completeBuffer: ret == 1", "complete: status() == RequestPending"}
    BY DEF bufferReady
  <2>3. QED
    BY <2>1, <2>2 DEF TypeOK
<1>4. device' \in [Stream -> SUBSET Request]
  BY DEF bufferReady, TypeOK
<1>5. pc' \in {"loop", "stopDevice", "complete"} /\ ret' \in {"loop", "stopDevice"}
  BY DEF bufferReady
<1>6. QED
  BY <1>2, <1>3, <1>4, <1>5

\* So do device and fence events,
LEMMA TypeEvent == TypeOK /\ Event => TypeOK'
<1> SUFFICES ASSUME TypeOK, Event PROVE TypeOK'
  OBVIOUS
<1>1. ASSUME NEW r \in Request, Timeout(r) PROVE TypeOK'
  <2>1. timeout(req[r]) \in RequestPrivate
    <3> DEFINE q == doCancelRequest(req[r])
    <3>1. req[r] \in RequestPrivate
      BY DEF TypeOK
    <3>2. q \in RequestPrivate
      BY <3>1 DEF RequestPrivate, doCancelRequest
    <3>3. timeout(req[r]) = [q EXCEPT !.prepared = TRUE]
      BY DEF timeout
    <3> HIDE DEF q
    <3>4. QED
      BY <3>2, <3>3 DEF RequestPrivate
  <2>2. req' \in [Request -> RequestPrivate]
    BY <1>1, <2>1 DEF Timeout, TypeOK
  <2>3. fatal' \in Fatal \cup {"none"}
    <3>1. /\ "timeout: !notifiers_.empty()" \in Fatal
          /\ "cancel: status() == RequestPending" \in Fatal
      BY DEF Fatal
    <3>2. fatal' \in {fatal, "timeout: !notifiers_.empty()", "cancel: status() == RequestPending"}
      BY <1>1 DEF Timeout
    <3>3. QED
      BY <3>1, <3>2 DEF TypeOK
  <2>4. QED
    BY <1>1, <2>2, <2>3 DEF Timeout, TypeOK
<1>2. ASSUME NEW r \in Request, NEW s \in Stream, NotifierActivated(r, s) PROVE TypeOK'
  <2>1. notifierActivated(req[r], s) \in RequestPrivate
    <3>1. req[r] \in RequestPrivate
      BY DEF TypeOK
    <3>2. QED
      BY <3>1, RequestOperations
  <2>2. req' \in [Request -> RequestPrivate]
    BY <1>2, <2>1 DEF NotifierActivated, TypeOK
  <2>3. QED
    BY <1>2, <2>2 DEF NotifierActivated, TypeOK
<1>3. ASSUME NEW r \in Request, NEW s \in Stream, BufferReady(r, s) PROVE TypeOK'
  BY <1>3, BufferReadyType DEF BufferReady, TypeOK
<1>4. CASE Disconnect
  BY <1>4 DEF Disconnect, TypeOK, CameraState
<1>5. QED
  BY <1>1, <1>2, <1>3, <1>4 DEF Event

\* doQueueRequest() moves a request to the queue, to the device or to completion.
LEMMA DoQueueRequestType ==
    ASSUME TypeOK, NEW r \in Request, NEW q \in RequestPrivate, doQueueRequest(r, q)
    PROVE  /\ queuedRequests' \in Seq(Request)
           /\ requestSequence' \in Nat
           /\ req' \in [Request -> RequestPrivate]
           /\ device' \in [Stream -> SUBSET Request]
           /\ pc' \in {pc, "complete"}
           /\ fatal' \in Fatal \cup {"none"}
<1> DEFINE p == [q EXCEPT !.sequence = requestSequence]
<1>1. p \in RequestPrivate
  BY DEF TypeOK, RequestPrivate
<1>2. complete(p) \in RequestPrivate /\ complete(doCancelRequest(p)) \in RequestPrivate
  BY <1>1 DEF RequestPrivate, complete, doCancelRequest, Status
<1>3. \A v \in RequestPrivate : [req EXCEPT ![r] = v] \in [Request -> RequestPrivate]
  BY DEF TypeOK
<1>4. req' \in [Request -> RequestPrivate]
  BY <1>1, <1>2, <1>3 DEF doQueueRequest
<1>5. device' \in [Stream -> SUBSET Request]
  <2>1. device \in [Stream -> SUBSET Request]
    BY DEF TypeOK
  <2>2. \/ device' = device \/ queueRequestDevice(r)
        \/ \E s \in Stream : queueRequestDeviceFails(r, s)
    BY DEF doQueueRequest
  <2>3. QED
    BY <2>1, <2>2 DEF queueRequestDevice, queueRequestDeviceFails
<1>6. queuedRequests' \in Seq(Request) /\ requestSequence' \in Nat
  <2>1. queuedRequests' = Append(queuedRequests, r) /\ requestSequence' = requestSequence + 1
    BY DEF doQueueRequest
  <2>2. queuedRequests \in Seq(Request) /\ requestSequence \in Nat
    BY DEF TypeOK
  <2>3. QED
    BY <2>1, <2>2
<1>7. pc' \in {pc, "complete"} /\ fatal' \in Fatal \cup {"none"}
  BY DEF doQueueRequest, TypeOK, Fatal
<1>8. QED
  BY <1>4, <1>5, <1>6, <1>7

\* and the steps of the handlers of the pipeline thread.
LEMMA TypeHandler == TypeOK /\ Handler => TypeOK'
<1> SUFFICES ASSUME TypeOK, Handler PROVE TypeOK'
  OBVIOUS
<1>0. /\ waitingRequests \in Seq(Request) /\ queuedRequests \in Seq(Request)
      /\ stopRequests \in Seq(Request) /\ req \in [Request -> RequestPrivate]
  BY DEF TypeOK
<1>1. CASE DoQueueRequest
  <2>1. Head(waitingRequests) \in Request /\ waitingRequests' \in Seq(Request)
    BY <1>0, <1>1 DEF DoQueueRequest, CanQueue
  <2>2. req[Head(waitingRequests)] \in RequestPrivate
    BY <1>0, <2>1
  <2>3. QED
    BY <1>1, <2>1, <2>2, DoQueueRequestType DEF DoQueueRequest, TypeOK
<1>2. CASE DoQueueReturn
  BY <1>2 DEF DoQueueReturn, TypeOK
<1>3. CASE RequestComplete
  <2>1. Head(queuedRequests) \in Request /\ queuedRequests' \in Seq(Request)
    <3>1. queuedRequests # <<>> /\ queuedRequests' = Tail(queuedRequests)
      BY <1>3 DEF RequestComplete, CanComplete
    <3>2. QED
      BY <1>0, <3>1
  <2>2. held' \subseteq Request /\ fatal' \in Fatal \cup {"none"}
    BY <1>3, <2>1 DEF RequestComplete, TypeOK, Fatal
  <2>3. QED
    BY <1>3, <2>1, <2>2 DEF RequestComplete, TypeOK
<1>4. CASE CompleteReturn
  BY <1>4 DEF CompleteReturn, TypeOK
<1>5. ASSUME NEW r \in Request, StopDeviceBuffer(r) PROVE TypeOK'
  BY <1>5, BufferReadyType DEF StopDeviceBuffer, TypeOK
<1>6. CASE StopDeviceStream
  <2>1. stopStream' \in 1 .. NumStreams + 1
    BY <1>6, ConstantsAssumption DEF StopDeviceStream, Stream
  <2>2. QED
    BY <1>6, <2>1 DEF StopDeviceStream, TypeOK
<1>7. CASE StopWaitingRequest
  <2>1. Head(stopRequests) \in Request /\ stopRequests' \in Seq(Request)
    BY <1>0, <1>7 DEF StopWaitingRequest
  <2>2. req[Head(stopRequests)] \in RequestPrivate
    BY <1>0, <2>1
  <2>3. doCancelRequest(req[Head(stopRequests)]) \in RequestPrivate
    BY <2>2 DEF doCancelRequest, RequestPrivate
  <2>4. QED
    BY <1>7, <2>1, <2>3, DoQueueRequestType DEF StopWaitingRequest, TypeOK
<1>8. CASE StopDone
  BY <1>8 DEF StopDone, TypeOK, Fatal
<1>9. QED
  BY <1>1, <1>2, <1>3, <1>4, <1>5, <1>6, <1>7, <1>8 DEF Handler

\* The variables keep their types, the queues hold requests only, and the
\* process ends in a named assertion or not at all.
THEOREM TypeCorrect == Spec => []TypeOK
<1>1. TypeOK /\ [Next]_vars => TypeOK'
  <2> SUFFICES ASSUME TypeOK, [Next]_vars PROVE TypeOK'
    OBVIOUS
  <2>1. CASE UNCHANGED vars
    BY <2>1 DEF TypeOK
  <2>2. QED
    BY <2>1, TypeApplication, TypeQueueRequest, TypeHandleMessage, TypeHandler, TypeEvent DEF Next
<1>2. QED
  BY TypeInit, <1>1, PTL DEF Spec

-----------------------------------------------------------------------------
(***************************************************************************)
(* Every request is in one place.  OnePlace is inductive together with the  *)
(* type invariant and the fact that stop() holds requests only while it     *)
(* runs; without it, HandleStop could overwrite requests taken before.      *)
(***************************************************************************)
InStop == pc \in {"stopDevice", "stopWaiting"} \/ (pc \in {"complete", "doQueue"} /\ ret # "loop")

PlaceInv == TypeOK /\ OnePlace /\ (stopRequests # <<>> => InStop)

\* Moving a request from one place to another keeps the partition.
LEMMA PartitionMoves ==
    ASSUME NEW H, NEW C, NEW P, NEW W, NEW S, NEW Q, NEW r, Partition(H, C, P, W, S, Q)
    PROVE  /\ r \in H => Partition(H \ {r}, C \cup {r}, P, W, S, Q)
           /\ r \in C => Partition(H, C \ {r}, P \cup {r}, W, S, Q)
           /\ r \in P => Partition(H, C, P \ {r}, W \cup {r}, S, Q)
           /\ r \in W => Partition(H, C, P, W \ {r}, S, Q \cup {r})
           /\ r \in S => Partition(H, C, P, W, S \ {r}, Q \cup {r})
           /\ r \in Q => Partition(H \cup {r}, C, P, W, S, Q \ {r})
           /\ S = {} => Partition(H, C, P, {}, W, Q)
  BY DEF Partition

\* The messages: a blocking call carries no request, queueRequest() carries one.
MsgsApart ==
    \A i, j \in 1 .. Len(msgs) :
        msgs[i].request = msgs[j].request => i = j \/ msgs[i].request = NoRequest

\* A message posted adds its request to the posted ones.
LEMMA PostMessage ==
    ASSUME TypeOK, MsgsApart, NEW m \in Message, msgs' = Append(msgs, m),
           m.request \notin Posted
    PROVE  /\ Posted' = Posted \cup ({m.request} \ {NoRequest})
           /\ MsgsApart'
<1>1. msgs \in Seq(Message) /\ Len(msgs) \in Nat
  BY DEF TypeOK
<1>2. /\ Len(msgs') = Len(msgs) + 1 /\ msgs'[Len(msgs) + 1] = m
      /\ \A i \in 1 .. Len(msgs) : msgs'[i] = msgs[i]
  BY <1>1
<1>3. \A i \in 1 .. Len(msgs) + 1 : i \in 1 .. Len(msgs) \/ i = Len(msgs) + 1
  BY <1>1
<1>4. Len(msgs) + 1 \in 1 .. Len(msgs) + 1 /\ \A i \in 1 .. Len(msgs) : i \in 1 .. Len(msgs) + 1
  BY <1>1
<1>5. Posted' = Posted \cup ({m.request} \ {NoRequest})
  BY <1>2, <1>3, <1>4 DEF Posted
<1>6. \A i \in 1 .. Len(msgs) : msgs[i].request = m.request => m.request = NoRequest
  BY DEF Posted
<1>7. MsgsApart'
  BY <1>2, <1>3, <1>6 DEF MsgsApart
<1>8. QED
  BY <1>5, <1>7

\* The message taken removes it.
LEMMA TakeMessage ==
    ASSUME TypeOK, MsgsApart, msgs # <<>>, msgs' = Tail(msgs)
    PROVE  /\ Posted' = Posted \ {Head(msgs).request}
           /\ Head(msgs).request # NoRequest => Head(msgs).request \in Posted
           /\ MsgsApart'
<1>1. msgs \in Seq(Message) /\ Len(msgs) \in Nat /\ Len(msgs) > 0 /\ Head(msgs) = msgs[1]
  BY DEF TypeOK
<1>2. Len(msgs') = Len(msgs) - 1 /\ \A i \in 1 .. Len(msgs) - 1 : msgs'[i] = msgs[i + 1]
  BY <1>1
<1>3. \A i \in 1 .. Len(msgs) - 1 : i + 1 \in 1 .. Len(msgs) /\ i + 1 # 1
  BY <1>1
<1>4. \A i \in 1 .. Len(msgs) : i # 1 => i - 1 \in 1 .. Len(msgs) - 1 /\ msgs'[i - 1] = msgs[i]
  BY <1>1, <1>2
<1>5. 1 \in 1 .. Len(msgs)
  BY <1>1
<1>6. Posted' \subseteq Posted \ {Head(msgs).request}
  BY <1>1, <1>2, <1>3, <1>5 DEF Posted, MsgsApart
<1>7. Posted \ {Head(msgs).request} \subseteq Posted'
  BY <1>1, <1>2, <1>4 DEF Posted
<1>8. Head(msgs).request # NoRequest => Head(msgs).request \in Posted
  BY <1>1, <1>5 DEF Posted
<1>9. MsgsApart'
  <2> SUFFICES ASSUME NEW i \in 1 .. Len(msgs) - 1, NEW j \in 1 .. Len(msgs) - 1,
                      msgs[i + 1].request = msgs[j + 1].request, msgs[i + 1].request # NoRequest
               PROVE  i = j
    BY <1>2 DEF MsgsApart
  <2>1. i + 1 = j + 1
    BY <1>3 DEF MsgsApart
  <2>2. QED
    BY <1>1, <2>1
<1>10. QED
  BY <1>6, <1>7, <1>8, <1>9

\* A step that moves no request.
LEMMA NothingMoves ==
    ASSUME OnePlace, UNCHANGED <<held, caller, msgs, waitingRequests, stopRequests, queuedRequests>>
    PROVE  OnePlace'
  BY DEF OnePlace, Partition, Calling, Posted

\* A blocking call posts a message without a request.
LEMMA InvokeMovesNothing ==
    ASSUME TypeOK, OnePlace, NEW op \in Invocation, Invoke(op),
           UNCHANGED <<held, caller, waitingRequests, stopRequests, queuedRequests>>
    PROVE  OnePlace'
<1> DEFINE m == [op |-> op, request |-> NoRequest]
<1>1. m \in Message /\ m.request = NoRequest /\ msgs' = Append(msgs, m) /\ m.request \notin Posted
  BY DEF Invoke, Message, Posted
<1>2. MsgsApart
  BY DEF OnePlace, MsgsApart
<1> HIDE DEF m
<1>3. Posted' = Posted /\ MsgsApart'
  BY <1>1, <1>2, PostMessage
<1>4. QED
  BY <1>3 DEF OnePlace, Partition, Calling, MsgsApart

\* Calls of the application move a request at most into a message.
LEMMA PlaceApplication == PlaceInv /\ Application => OnePlace'
<1> SUFFICES ASSUME PlaceInv, Application PROVE OnePlace'
  OBVIOUS
<1>1. TypeOK /\ OnePlace
  BY DEF PlaceInv
<1>2. ASSUME NEW op, NEW next, Return(op, next) PROVE OnePlace'
  BY <1>1, <1>2, NothingMoves DEF Return
<1>3. CASE Acquire \/ Configure \/ Start \/ StopInvoke \/ Release
  BY <1>1, <1>3, InvokeMovesNothing
     DEF Acquire, Configure, Start, StopInvoke, Release, Invocation
<1>4. CASE Stop
  BY <1>1, <1>4, NothingMoves DEF Stop
<1>5. CASE AcquireReturn \/ ConfigureReturn \/ StartReturn \/ StopReturn \/ ReleaseReturn
  BY <1>2, <1>5 DEF AcquireReturn, ConfigureReturn, StartReturn, StopReturn, ReleaseReturn
<1>6. ASSUME NEW r \in Request, NEW f \in SUBSET FencedStreams, Reuse(r, f) PROVE OnePlace'
  BY <1>1, <1>6, NothingMoves DEF Reuse
<1>7. QED
  BY <1>3, <1>4, <1>5, <1>6 DEF Application

\* queueRequest() of any thread takes a request that the application has.
LEMMA PlaceQueueRequest == PlaceInv /\ QueueRequest => OnePlace'
<1> SUFFICES ASSUME PlaceInv, QueueRequest PROVE OnePlace'
  OBVIOUS
<1>1. TypeOK /\ OnePlace
  BY DEF PlaceInv
<1>2. caller \in [Callers -> Request \cup {NoRequest}] /\ NoRequest \notin Request
  BY <1>1, ConstantsAssumption DEF TypeOK
<1>3. ASSUME NEW t \in Callers, NEW r \in Request, QueueRequestCheck(t, r) PROVE OnePlace'
  <2>1. /\ caller[t] = NoRequest /\ r \in held /\ held' = held \ {r}
        /\ caller' = [caller EXCEPT ![t] = r]
        /\ UNCHANGED <<msgs, waitingRequests, stopRequests, queuedRequests>>
    BY <1>3 DEF QueueRequestCheck
  <2>2. Calling' = Calling \cup {r}
    BY <1>2, <2>1 DEF Calling
  <2>3. r \notin Calling
    BY <1>1, <2>1 DEF OnePlace, Partition
  <2>4. \A u, v \in Callers : caller'[u] = caller'[v] => u = v \/ caller'[u] = NoRequest
    <3>1. \A u \in Callers : caller[u] # r
      BY <1>2, <2>3 DEF Calling
    <3>2. \A u, v \in Callers : caller[u] = caller[v] => u = v \/ caller[u] = NoRequest
      BY <1>1 DEF OnePlace
    <3>3. \A u \in Callers : caller'[u] = IF u = t THEN r ELSE caller[u]
      BY <1>2, <2>1
    <3>4. QED
      BY <3>1, <3>2, <3>3
  <2>5. Partition(held', Calling', Posted', ToSet(waitingRequests'), ToSet(stopRequests'),
                  ToSet(queuedRequests'))
    <3>1. Partition(held, Calling, Posted, ToSet(waitingRequests), ToSet(stopRequests),
                    ToSet(queuedRequests))
      BY <1>1 DEF OnePlace
    <3>2. Partition(held \ {r}, Calling \cup {r}, Posted, ToSet(waitingRequests), ToSet(stopRequests),
                    ToSet(queuedRequests))
      BY <2>1, <3>1, PartitionMoves
    <3>3. Posted' = Posted
      BY <2>1 DEF Posted
    <3>4. QED
      BY <2>1, <2>2, <3>2, <3>3
  <2>6. QED
    BY <1>1, <2>1, <2>4, <2>5 DEF OnePlace
<1>4. ASSUME NEW t \in Callers, QueueRequestPost(t) PROVE OnePlace'
  <2> DEFINE r == caller[t]
             m == [op |-> "queueRequest", request |-> r]
  <2>1. /\ r # NoRequest /\ r \in Request /\ msgs' = Append(msgs, m)
        /\ caller' = [caller EXCEPT ![t] = NoRequest]
        /\ UNCHANGED <<held, waitingRequests, stopRequests, queuedRequests>>
    BY <1>2, <1>4 DEF QueueRequestPost
  <2>2. m \in Message /\ m.request = r
    BY <2>1 DEF Message
  <2>3. r \in Calling
    BY <2>1 DEF Calling
  <2>4. r \notin Posted
    BY <1>1, <2>3 DEF OnePlace, Partition
  <2>5. MsgsApart
    BY <1>1 DEF OnePlace, MsgsApart
  <2> HIDE DEF m
  <2>6. Posted' = Posted \cup {r} /\ MsgsApart'
    BY <1>1, <2>1, <2>2, <2>4, <2>5, PostMessage
  <2>7. \A u, v \in Callers : caller[u] = caller[v] => u = v \/ caller[u] = NoRequest
    BY <1>1 DEF OnePlace
  <2>8. \A u \in Callers : caller'[u] = IF u = t THEN NoRequest ELSE caller[u]
    BY <1>2, <2>1
  <2>9. Calling' = Calling \ {r}
    <3>1. \A u \in Callers : u # t => caller[u] # r
      BY <2>1, <2>7
    <3>2. Calling' = {caller'[u] : u \in Callers} \ {NoRequest}
      BY DEF Calling
    <3> HIDE DEF r
    <3>3. caller[t] = r
      BY DEF r
    <3>4. QED
      BY <2>8, <3>1, <3>2, <3>3 DEF Calling
  <2>10. \A u, v \in Callers : caller'[u] = caller'[v] => u = v \/ caller'[u] = NoRequest
    BY <2>7, <2>8
  <2>11. Partition(held', Calling', Posted', ToSet(waitingRequests'), ToSet(stopRequests'),
                   ToSet(queuedRequests'))
    BY <1>1, <2>1, <2>3, <2>6, <2>9, PartitionMoves DEF OnePlace
  <2>12. QED
    BY <1>1, <2>1, <2>6, <2>10, <2>11 DEF OnePlace, MsgsApart
<1>5. QED
  BY <1>3, <1>4 DEF QueueRequest

\* The pipeline thread moves a request from its message to the waiting ones.
LEMMA PlaceHandleMessage ==
    PlaceInv /\ HandleMessage => OnePlace' /\ (stopRequests' # <<>> => InStop')
<1> SUFFICES ASSUME PlaceInv, HandleMessage PROVE OnePlace' /\ (stopRequests' # <<>> => InStop')
  OBVIOUS
<1>1. TypeOK /\ OnePlace /\ MsgsApart
  BY DEF PlaceInv, OnePlace, MsgsApart
<1>2. pc = "loop" /\ stopRequests = <<>>
  BY DEF PlaceInv, InStop, HandleMessage, HandleInvocation, HandleStart, HandleQueueRequest,
         HandleStop, Dispatch
<1>3. ASSUME NEW op, Dispatch(op)
      PROVE  /\ Posted' = Posted \ {Head(msgs).request} /\ MsgsApart'
             /\ op = "queueRequest" => Head(msgs).request \in Posted
             /\ op # "queueRequest" => Posted' = Posted
  <2>1. msgs # <<>> /\ msgs' = Tail(msgs) /\ Head(msgs).op = op /\ Head(msgs) \in Message
    <3>1. msgs # <<>> /\ msgs' = Tail(msgs) /\ Head(msgs).op = op
      BY <1>3 DEF Dispatch
    <3>2. msgs \in Seq(Message)
      BY <1>1 DEF TypeOK
    <3>3. QED
      BY <3>1, <3>2
  <2>2. IF op = "queueRequest" THEN Head(msgs).request \in Request ELSE Head(msgs).request = NoRequest
    BY <2>1 DEF Message, Invocation
  <2>3. /\ Posted' = Posted \ {Head(msgs).request} /\ MsgsApart'
        /\ Head(msgs).request # NoRequest => Head(msgs).request \in Posted
    BY <1>1, <2>1, TakeMessage
  <2>4. NoRequest \notin Posted
    BY DEF Posted
  <2>5. QED
    BY <2>2, <2>3, <2>4, ConstantsAssumption
<1>4. ASSUME NEW op, op # "queueRequest", Dispatch(op),
             UNCHANGED <<held, caller, waitingRequests, stopRequests, queuedRequests>>
      PROVE  OnePlace'
  <2>1. Posted' = Posted /\ MsgsApart'
    BY <1>3, <1>4
  <2>2. QED
    BY <1>1, <1>4, <2>1 DEF OnePlace, Partition, Calling, MsgsApart
<1>5. ASSUME NEW op \in {"acquire", "release", "configure"}, HandleInvocation(op)
      PROVE  OnePlace' /\ stopRequests' = <<>>
  BY <1>2, <1>4, <1>5 DEF HandleInvocation
<1>6. CASE HandleStart
  BY <1>2, <1>4, <1>6 DEF HandleStart
<1>7. CASE HandleQueueRequest
  <2> DEFINE r == Head(msgs).request
  <2>1. /\ Dispatch("queueRequest") /\ waitingRequests' = Append(waitingRequests, r)
        /\ UNCHANGED <<held, caller, stopRequests, queuedRequests>>
    BY <1>7 DEF HandleQueueRequest
  <2>2. r \in Posted /\ Posted' = Posted \ {r} /\ MsgsApart' /\ r \in Request
    BY <1>1, <1>3, <2>1, DispatchType
  <2>3. waitingRequests \in Seq(Request)
    BY <1>1 DEF TypeOK
  <2> HIDE DEF r
  <2>4. r \notin ToSet(waitingRequests) /\ IsInjective(waitingRequests)
    BY <1>1, <2>2 DEF OnePlace, Partition
  <2>5. ToSet(waitingRequests') = ToSet(waitingRequests) \cup {r} /\ IsInjective(waitingRequests')
    BY <2>1, <2>2, <2>3, <2>4, ToSetOfAppend, InjectiveAppend
  <2>6. Partition(held', Calling', Posted', ToSet(waitingRequests'), ToSet(stopRequests'),
                  ToSet(queuedRequests'))
    <3>1. Partition(held, Calling, Posted, ToSet(waitingRequests), ToSet(stopRequests),
                    ToSet(queuedRequests))
      BY <1>1 DEF OnePlace
    <3>2. Partition(held, Calling, Posted \ {r}, ToSet(waitingRequests) \cup {r}, ToSet(stopRequests),
                    ToSet(queuedRequests))
      BY <2>2, <3>1, PartitionMoves
    <3>3. Calling' = Calling
      BY <2>1 DEF Calling
    <3>4. QED
      BY <2>1, <2>2, <2>5, <3>2, <3>3
  <2>7. OnePlace'
    BY <1>1, <2>1, <2>2, <2>5, <2>6 DEF OnePlace, MsgsApart
  <2>8. QED
    BY <1>2, <2>1, <2>7
<1>8. CASE HandleStop
  <2>1. /\ Dispatch("stop") /\ waitingRequests' = <<>> /\ stopRequests' = waitingRequests
        /\ pc' = "stopDevice" /\ UNCHANGED <<held, caller, queuedRequests>>
    BY <1>8 DEF HandleStop
  <2>2. Posted' = Posted /\ MsgsApart'
    BY <1>3, <2>1
  <2>3. ToSet(waitingRequests') = {} /\ IsInjective(waitingRequests') /\ ToSet(stopRequests) = {}
    BY <1>2, <2>1, ToSetOfEmpty
  <2>4. Partition(held', Calling', Posted', ToSet(waitingRequests'), ToSet(stopRequests'),
                  ToSet(queuedRequests'))
    <3>1. Partition(held, Calling, Posted, ToSet(waitingRequests), ToSet(stopRequests),
                    ToSet(queuedRequests))
      BY <1>1 DEF OnePlace
    <3>2. Partition(held, Calling, Posted, {}, ToSet(waitingRequests), ToSet(queuedRequests))
      BY <2>3, <3>1, PartitionMoves
    <3>3. Calling' = Calling
      BY <2>1 DEF Calling
    <3>4. QED
      BY <2>1, <2>2, <2>3, <3>2, <3>3
  <2>5. OnePlace'
    BY <1>1, <2>1, <2>2, <2>3, <2>4 DEF OnePlace, MsgsApart
  <2>6. QED
    BY <2>1, <2>5 DEF InStop
<1>9. QED
  BY <1>5, <1>6, <1>7, <1>8 DEF HandleMessage

\* Events leave the places of requests, but for the one they complete.
LEMMA PlaceEvent == PlaceInv /\ Event => OnePlace' /\ (stopRequests' # <<>> => InStop')
<1> SUFFICES ASSUME PlaceInv, Event PROVE OnePlace' /\ stopRequests' = <<>>
  OBVIOUS
<1>1. OnePlace /\ (pc = "loop" => stopRequests = <<>>)
  BY DEF PlaceInv, InStop
<1>2. pc = "loop" /\ UNCHANGED <<held, caller, msgs, waitingRequests, stopRequests, queuedRequests>>
  BY DEF Event, Timeout, NotifierActivated, BufferReady, Disconnect
<1>3. QED
  BY <1>1, <1>2, NothingMoves

\* doQueueRequest(): the request that the caller has taken is queued.
LEMMA PlaceHandler == PlaceInv /\ Handler => OnePlace' /\ (stopRequests' # <<>> => InStop')
<1> SUFFICES ASSUME PlaceInv, Handler PROVE OnePlace' /\ (stopRequests' # <<>> => InStop')
  OBVIOUS
<1>1. /\ TypeOK /\ OnePlace /\ (stopRequests # <<>> => InStop)
      /\ waitingRequests \in Seq(Request) /\ queuedRequests \in Seq(Request)
      /\ stopRequests \in Seq(Request)
      /\ IsInjective(waitingRequests) /\ IsInjective(stopRequests) /\ IsInjective(queuedRequests)
      /\ ret \in {"loop", "stopDevice", "stopWaiting"}
  BY DEF PlaceInv, OnePlace, TypeOK
<1>2. CASE DoQueueRequest
  <2> DEFINE r == Head(waitingRequests)
  <2>1. /\ waitingRequests # <<>> /\ waitingRequests' = Tail(waitingRequests)
        /\ queuedRequests' = Append(queuedRequests, r)
        /\ UNCHANGED <<held, caller, msgs, stopRequests, ret>> /\ pc = "doQueue"
        /\ pc' \in {"doQueue", "complete"}
    BY <1>2 DEF DoQueueRequest, CanQueue, doQueueRequest
  <2>2. r \in ToSet(waitingRequests) /\ r \in Request
    BY <1>1, <2>1, HeadInToSet
  <2>3. r \notin ToSet(queuedRequests)
    BY <1>1, <2>2 DEF OnePlace, Partition
  <2>4. /\ ToSet(waitingRequests') = ToSet(waitingRequests) \ {r}
        /\ IsInjective(waitingRequests')
    BY <1>1, <2>1, ToSetOfTail
  <2>5. ToSet(queuedRequests') = ToSet(queuedRequests) \cup {r} /\ IsInjective(queuedRequests')
    BY <1>1, <2>1, <2>2, <2>3, ToSetOfAppend, InjectiveAppend
  <2>6. Partition(held', Calling', Posted', ToSet(waitingRequests'), ToSet(stopRequests'),
                  ToSet(queuedRequests'))
    <3>1. Partition(held, Calling, Posted, ToSet(waitingRequests), ToSet(stopRequests),
                    ToSet(queuedRequests))
      BY <1>1 DEF OnePlace
    <3>2. Partition(held, Calling, Posted, ToSet(waitingRequests) \ {r}, ToSet(stopRequests),
                    ToSet(queuedRequests) \cup {r})
      BY <2>2, <3>1, PartitionMoves
    <3>3. Calling' = Calling /\ Posted' = Posted
      BY <2>1 DEF Calling, Posted
    <3>4. QED
      BY <2>1, <2>4, <2>5, <3>2, <3>3
  <2>7. OnePlace'
    BY <1>1, <2>1, <2>4, <2>5, <2>6 DEF OnePlace
  <2>8. QED
    BY <1>1, <2>1, <2>7 DEF InStop
<1>3. CASE RequestComplete
  <2> DEFINE r == Head(queuedRequests)
  <2>1. /\ queuedRequests # <<>> /\ queuedRequests' = Tail(queuedRequests)
        /\ held' = held \cup {r}
        /\ UNCHANGED <<caller, msgs, waitingRequests, stopRequests, pc, ret>>
    BY <1>3 DEF RequestComplete, CanComplete
  <2>2. r \in ToSet(queuedRequests)
    BY <1>1, <2>1, HeadInToSet
  <2>3. ToSet(queuedRequests') = ToSet(queuedRequests) \ {r} /\ IsInjective(queuedRequests')
    BY <1>1, <2>1, ToSetOfTail
  <2>4. Partition(held', Calling', Posted', ToSet(waitingRequests'), ToSet(stopRequests'),
                  ToSet(queuedRequests'))
    <3>1. Partition(held, Calling, Posted, ToSet(waitingRequests), ToSet(stopRequests),
                    ToSet(queuedRequests))
      BY <1>1 DEF OnePlace
    <3>2. Partition(held \cup {r}, Calling, Posted, ToSet(waitingRequests), ToSet(stopRequests),
                    ToSet(queuedRequests) \ {r})
      BY <2>2, <3>1, PartitionMoves
    <3>3. Calling' = Calling /\ Posted' = Posted
      BY <2>1 DEF Calling, Posted
    <3>4. QED
      BY <2>1, <2>3, <3>2, <3>3
  <2>5. OnePlace'
    BY <1>1, <2>1, <2>3, <2>4 DEF OnePlace
  <2>6. QED
    BY <1>1, <2>1, <2>5 DEF InStop
<1>4. CASE StopWaitingRequest
  <2> DEFINE r == Head(stopRequests)
  <2>1. /\ stopRequests # <<>> /\ stopRequests' = Tail(stopRequests)
        /\ queuedRequests' = Append(queuedRequests, r)
        /\ UNCHANGED <<held, caller, msgs, waitingRequests>>
        /\ pc' \in {"stopWaiting", "complete"} /\ ret' = "stopWaiting"
    BY <1>4 DEF StopWaitingRequest, doQueueRequest
  <2>2. r \in ToSet(stopRequests) /\ r \in Request
    BY <1>1, <2>1, HeadInToSet
  <2>3. r \notin ToSet(queuedRequests)
    BY <1>1, <2>2 DEF OnePlace, Partition
  <2>4. ToSet(stopRequests') = ToSet(stopRequests) \ {r} /\ IsInjective(stopRequests')
    BY <1>1, <2>1, ToSetOfTail
  <2>5. ToSet(queuedRequests') = ToSet(queuedRequests) \cup {r} /\ IsInjective(queuedRequests')
    BY <1>1, <2>1, <2>2, <2>3, ToSetOfAppend, InjectiveAppend
  <2>6. Partition(held', Calling', Posted', ToSet(waitingRequests'), ToSet(stopRequests'),
                  ToSet(queuedRequests'))
    <3>1. Partition(held, Calling, Posted, ToSet(waitingRequests), ToSet(stopRequests),
                    ToSet(queuedRequests))
      BY <1>1 DEF OnePlace
    <3>2. Partition(held, Calling, Posted, ToSet(waitingRequests), ToSet(stopRequests) \ {r},
                    ToSet(queuedRequests) \cup {r})
      BY <2>2, <3>1, PartitionMoves
    <3>3. Calling' = Calling /\ Posted' = Posted
      BY <2>1 DEF Calling, Posted
    <3>4. QED
      BY <2>1, <2>4, <2>5, <3>2, <3>3
  <2>7. OnePlace'
    BY <1>1, <2>1, <2>4, <2>5, <2>6 DEF OnePlace
  <2>8. QED
    BY <2>1, <2>7 DEF InStop
<1>5. CASE DoQueueReturn \/ CompleteReturn \/ StopDeviceStream
  <2>1. UNCHANGED <<held, caller, msgs, waitingRequests, stopRequests, queuedRequests>>
    BY <1>5 DEF DoQueueReturn, CompleteReturn, StopDeviceStream
  <2>2. stopRequests # <<>> => InStop'
    BY <1>1, <1>5 DEF DoQueueReturn, CompleteReturn, StopDeviceStream, InStop
  <2>3. QED
    BY <1>1, <2>1, <2>2, NothingMoves
<1>6. ASSUME NEW r \in Request, StopDeviceBuffer(r) PROVE OnePlace' /\ InStop'
  <2>1. UNCHANGED <<held, caller, msgs, waitingRequests, stopRequests, queuedRequests>>
    BY <1>6 DEF StopDeviceBuffer
  <2>2. InStop'
    BY <1>6 DEF StopDeviceBuffer, bufferReady, InStop
  <2>3. QED
    BY <1>1, <2>1, <2>2, NothingMoves
<1>7. CASE StopDone
  BY <1>1, <1>7, NothingMoves DEF StopDone
<1>8. QED
  BY <1>2, <1>3, <1>4, <1>5, <1>6, <1>7 DEF Handler

\* At first the application has all requests.
LEMMA PlaceInit == Init => PlaceInv
<1> SUFFICES ASSUME Init PROVE OnePlace /\ stopRequests = <<>>
  BY TypeInit DEF PlaceInv
<1>1. Calling = {} /\ Posted = {}
  BY DEF Init, Calling, Posted
<1>2. QED
  BY <1>1, ToSetOfEmpty DEF Init, OnePlace, Partition

\* Every step keeps requests in one place.
LEMMA PlaceInvariant == PlaceInv /\ [Next]_vars => PlaceInv'
<1> SUFFICES ASSUME PlaceInv, [Next]_vars PROVE PlaceInv'
  OBVIOUS
<1>1. TypeOK'
  <2>1. TypeOK
    BY DEF PlaceInv
  <2>2. CASE UNCHANGED vars
    BY <2>1, <2>2 DEF TypeOK
  <2>3. QED
    BY <2>1, <2>2, TypeApplication, TypeQueueRequest, TypeHandleMessage, TypeHandler, TypeEvent
       DEF Next
<1>2. CASE Application
  <2>1. UNCHANGED <<stopRequests, pc, ret>>
    BY <1>2 DEF Application, Acquire, AcquireReturn, Configure, ConfigureReturn, Start,
                StartReturn, Stop, StopInvoke, StopReturn, Release, ReleaseReturn, Reuse, Return
  <2>2. QED
    BY <1>1, <1>2, <2>1, PlaceApplication DEF PlaceInv, InStop
<1>3. CASE QueueRequest
  <2>1. UNCHANGED <<stopRequests, pc, ret>>
    BY <1>3 DEF QueueRequest, QueueRequestCheck, QueueRequestPost
  <2>2. QED
    BY <1>1, <1>3, <2>1, PlaceQueueRequest DEF PlaceInv, InStop
<1>4. CASE UNCHANGED vars
  <2>1. OnePlace'
    BY <1>4, NothingMoves DEF PlaceInv
  <2>2. QED
    BY <1>1, <1>4, <2>1 DEF PlaceInv, InStop
<1>5. QED
  BY <1>1, <1>2, <1>3, <1>4, PlaceHandleMessage, PlaceHandler, PlaceEvent DEF Next, PlaceInv

\* PipelineHandler and Camera never lose, duplicate or return twice a request,
\* however fences, timeouts, device errors, stop(), a disconnection and the
\* threads that call queueRequest() interleave.
THEOREM RequestsInOnePlace == Spec => []OnePlace
<1>1. PlaceInv => OnePlace
  BY DEF PlaceInv
<1>2. QED
  BY PlaceInit, PlaceInvariant, <1>1, PTL DEF Spec

-----------------------------------------------------------------------------
(***************************************************************************)
(* The pipeline handler is a first-in first-out service.  The waiting queue *)
(* is empty while stop() runs, so that doQueueRequests() cannot let a        *)
(* request overtake the ones that stop() has taken.                         *)
(***************************************************************************)
OrderInv == PlaceInv /\ (InStop => waitingRequests = <<>>)

\* Every step keeps the three queues in order.
LEMMA OrderInvariant == OrderInv /\ [Next]_vars => OrderInv'
<1> SUFFICES ASSUME OrderInv, [Next]_vars PROVE OrderInv'
  OBVIOUS
<1>1. PlaceInv /\ (InStop => waitingRequests = <<>>) /\ TypeOK
  BY DEF OrderInv, PlaceInv
<1>2. PlaceInv'
  BY <1>1, PlaceInvariant
<1>3. CASE Application
  BY <1>1, <1>2, <1>3
     DEF Application, Acquire, AcquireReturn, Configure, ConfigureReturn, Start, StartReturn, Stop,
         StopInvoke, StopReturn, Release, ReleaseReturn, Reuse, Return, OrderInv, InStop
<1>4. CASE QueueRequest
  BY <1>1, <1>2, <1>4 DEF QueueRequest, QueueRequestCheck, QueueRequestPost, OrderInv, InStop
<1>5. CASE HandleMessage
  BY <1>2, <1>5 DEF HandleMessage, HandleInvocation, HandleStart, HandleQueueRequest, HandleStop,
                    Dispatch, OrderInv, InStop
<1>6. CASE Event
  BY <1>2, <1>6 DEF Event, Timeout, NotifierActivated, BufferReady, bufferReady, Disconnect,
                    OrderInv, InStop
<1>7. CASE DoQueueRequest
  <2>1. waitingRequests # <<>> /\ pc = "doQueue" /\ ret' = ret /\ pc' \in {"doQueue", "complete"}
    BY <1>7 DEF DoQueueRequest, CanQueue, doQueueRequest
  <2>2. QED
    BY <1>1, <1>2, <2>1 DEF OrderInv, InStop
<1>8. CASE DoQueueReturn \/ CompleteReturn \/ StopDeviceStream \/ StopDone \/ RequestComplete
  BY <1>1, <1>2, <1>8 DEF DoQueueReturn, CompleteReturn, StopDeviceStream, StopDone,
                          RequestComplete, OrderInv, InStop
<1>9. ASSUME NEW r \in Request, StopDeviceBuffer(r) PROVE OrderInv'
  BY <1>1, <1>2, <1>9 DEF StopDeviceBuffer, OrderInv, InStop
<1>10. CASE StopWaitingRequest
  BY <1>1, <1>2, <1>10 DEF StopWaitingRequest, OrderInv, InStop
<1>11. CASE UNCHANGED vars
  BY <1>1, <1>2, <1>11 DEF OrderInv, InStop
<1>12. QED
  BY <1>3, <1>4, <1>5, <1>6, <1>7, <1>8, <1>9, <1>10, <1>11 DEF Next, Handler

\* A step that touches none of the three queues is a stuttering step of the fifo.
LEMMA FifoStutters ==
    ASSUME UNCHANGED <<waitingRequests, stopRequests, queuedRequests>>
    PROVE  UNCHANGED Fifo!vars
  BY DEF Fifo!vars, InPipeline

\* Every step is a step of the abstract fifo, or none.
LEMMA FifoStep == OrderInv /\ OrderInv' /\ [Next]_vars => [Fifo!Next]_(Fifo!vars)
<1> SUFFICES ASSUME OrderInv, OrderInv', [Next]_vars PROVE [Fifo!Next]_(Fifo!vars)
  OBVIOUS
<1> DEFINE W == waitingRequests
           S == stopRequests
           Q == queuedRequests
<1>1. /\ W \in Seq(Request) /\ S \in Seq(Request) /\ Q \in Seq(Request)
      /\ W' \in Seq(Request) /\ S' \in Seq(Request) /\ Q' \in Seq(Request)
      /\ TypeOK /\ OnePlace /\ OnePlace'
  BY DEF OrderInv, PlaceInv, TypeOK
<1>2. Q \o S \in Seq(Request)
  BY <1>1
<1>3. CASE Application \/ QueueRequest \/ Event \/ UNCHANGED vars
  <2>1. UNCHANGED <<waitingRequests, stopRequests, queuedRequests>>
    BY <1>3 DEF Application, Acquire, AcquireReturn, Configure, ConfigureReturn, Start,
                StartReturn, Stop, StopInvoke, StopReturn, Release, ReleaseReturn, Reuse, Return,
                QueueRequest, QueueRequestCheck, QueueRequestPost,
                Event, Timeout, NotifierActivated, BufferReady, Disconnect
  <2>2. QED
    BY <2>1, FifoStutters
<1>4. CASE HandleMessage
  <2>1. pc = "loop" /\ S = <<>>
    BY <1>4 DEF OrderInv, PlaceInv, InStop, HandleMessage, HandleInvocation, HandleStart,
                HandleQueueRequest, HandleStop, Dispatch
  <2>2. CASE (\E op \in {"acquire", "release", "configure"} : HandleInvocation(op)) \/ HandleStart
    BY <2>2, FifoStutters DEF HandleInvocation, HandleStart
  <2>3. CASE HandleStop
    <3>1. Q' = Q /\ S' = W /\ W' = <<>>
      BY <2>3 DEF HandleStop
    <3>2. InPipeline' = InPipeline
      <4>1. InPipeline = Q \o W
        BY <1>1, <2>1, ConcatEmptySeq DEF InPipeline
      <4>2. InPipeline' = (Q \o W) \o <<>>
        BY <3>1 DEF InPipeline
      <4>3. Q \o W \in Seq(Request)
        BY <1>1
      <4>4. QED
        BY <4>1, <4>2, <4>3, ConcatEmptySeq
    <3>3. QED
      BY <3>2 DEF Fifo!vars
  <2>4. CASE HandleQueueRequest
    <3> DEFINE r == Head(msgs).request
    <3>1. /\ W' = Append(W, r) /\ Q' = Q /\ S' = S /\ Dispatch("queueRequest")
      BY <2>4 DEF HandleQueueRequest
    <3>2. r \in Request
      BY <1>1, <3>1, DispatchType
    <3>3. r \in Posted
      <4>1. msgs \in Seq(Message) /\ msgs # <<>>
        BY <1>1, <3>1 DEF TypeOK, Dispatch
      <4>2. 1 \in 1 .. Len(msgs) /\ Head(msgs) = msgs[1]
        BY <4>1
      <4>3. QED
        BY <3>2, <4>2, ConstantsAssumption DEF Posted
    <3> HIDE DEF r
    <3>4. InPipeline' = Append(InPipeline, r)
      <4>1. (Q \o S) \o Append(W, r) = Append((Q \o S) \o W, r)
        BY <1>1, <1>2, <3>2, ConcatAppend
      <4>2. QED
        BY <3>1, <4>1 DEF InPipeline
    <3>5. InPipeline \in Seq(Request)
      BY <1>1, <1>2 DEF InPipeline
    <3>6. ToSet(InPipeline') = ToSet(InPipeline) \cup {r}
      BY <3>2, <3>4, <3>5, ToSetOfAppend
    <3>7. ToSet(InPipeline) = ToSet(Q) \cup ToSet(S) \cup ToSet(W)
      BY <1>1, ToSetOfThree DEF InPipeline
    <3>8. r \notin ToSet(InPipeline)
      BY <1>1, <3>3, <3>7 DEF OnePlace, Partition
    <3>9. Fifo!Queue(r)
      BY <3>2, <3>4, <3>6, <3>8 DEF Fifo!Queue
    <3>10. QED
      BY <3>2, <3>9 DEF Fifo!Next
  <2>5. QED
    BY <1>4, <2>2, <2>3, <2>4 DEF HandleMessage
<1>5. CASE DoQueueRequest
  <2>1. W # <<>> /\ W' = Tail(W) /\ Q' = Append(Q, Head(W)) /\ S' = S /\ pc = "doQueue"
    BY <1>5 DEF DoQueueRequest, CanQueue, doQueueRequest
  <2>2. S = <<>>
    BY <2>1 DEF OrderInv, PlaceInv, InStop
  <2>3. InPipeline = Q \o W
    BY <1>1, <2>2, ConcatEmptySeq DEF InPipeline
  <2>4. InPipeline' = Append(Q, Head(W)) \o Tail(W)
    <3>1. Append(Q, Head(W)) \in Seq(Request)
      BY <1>1, <2>1
    <3>2. QED
      BY <2>1, <2>2, <3>1, ConcatEmptySeq DEF InPipeline
  <2>5. InPipeline' = InPipeline
    BY <1>1, <2>1, <2>3, <2>4, ConcatShift
  <2>6. QED
    BY <2>5 DEF Fifo!vars
<1>6. CASE StopWaitingRequest
  <2>1. S # <<>> /\ S' = Tail(S) /\ Q' = Append(Q, Head(S)) /\ W' = W
    BY <1>6 DEF StopWaitingRequest, doQueueRequest
  <2>2. Q' \o S' = Q \o S
    BY <1>1, <2>1, ConcatShift
  <2>3. QED
    BY <2>1, <2>2 DEF Fifo!vars, InPipeline
<1>7. CASE RequestComplete
  <2>1. Q # <<>> /\ Q' = Tail(Q) /\ S' = S /\ W' = W
    BY <1>7 DEF RequestComplete, CanComplete
  <2>2. Q \o S # <<>> /\ Head(Q \o S) = Head(Q) /\ Q' \o S' = Tail(Q \o S)
    BY <1>1, <2>1, ConcatPop
  <2>3. InPipeline # <<>> /\ Head(InPipeline) = Head(Q) /\ InPipeline' = Tail(InPipeline)
    BY <1>1, <1>2, <2>1, <2>2, ConcatPop DEF InPipeline
  <2>4. ToSet(InPipeline) = ToSet(Q) \cup ToSet(S) \cup ToSet(W)
    BY <1>1, ToSetOfThree DEF InPipeline
  <2>5. ToSet(InPipeline') = ToSet(Q') \cup ToSet(S) \cup ToSet(W)
    <3>1. InPipeline' = Tail(Q) \o S \o W
      BY <2>1 DEF InPipeline
    <3>2. Tail(Q) \in Seq(Request)
      BY <1>1, <2>1, HeadInToSet
    <3>3. ASSUME NEW t \in Seq(Request)
          PROVE  ToSet(t \o S \o W) = ToSet(t) \cup ToSet(S) \cup ToSet(W)
      BY <1>1, ToSetOfThree
    <3>4. QED
      BY <2>1, <3>1, <3>2, <3>3
  <2>6. ToSet(Q') = ToSet(Q) \ {Head(Q)} /\ Head(Q) \in ToSet(Q) /\ Head(Q) \in Request
    BY <1>1, <2>1, ToSetOfTail, HeadInToSet DEF OnePlace
  <2>7. Head(Q) \notin ToSet(S) \cup ToSet(W)
    BY <1>1, <2>6 DEF OnePlace, Partition
  <2>8. ToSet(InPipeline') = ToSet(InPipeline) \ {Head(InPipeline)}
    BY <2>3, <2>4, <2>5, <2>6, <2>7
  <2>9. Request \ ToSet(InPipeline') = (Request \ ToSet(InPipeline)) \cup {Head(InPipeline)}
    BY <2>3, <2>6, <2>8
  <2>10. Fifo!Complete
    BY <2>3, <2>9 DEF Fifo!Complete
  <2>11. QED
    BY <2>10 DEF Fifo!Next
<1>8. CASE Handler /\ ~DoQueueRequest /\ ~StopWaitingRequest /\ ~RequestComplete
  <2>1. UNCHANGED <<waitingRequests, stopRequests, queuedRequests>>
    BY <1>8 DEF Handler, DoQueueReturn, CompleteReturn, StopDeviceBuffer, StopDeviceStream, StopDone
  <2>2. QED
    BY <2>1, FifoStutters
<1>9. QED
  BY <1>3, <1>4, <1>5, <1>6, <1>7, <1>8 DEF Next

\* Requests are returned in the order in which PipelineHandler::queueRequest()
\* received them, for any number of requests, streams and callers, any device
\* limit, and whatever fails.
THEOREM RequestsCompleteInOrder == Spec => CompletesInOrder
<1>1. Init => OrderInv /\ Fifo!Init
  <2> SUFFICES ASSUME Init PROVE OrderInv /\ Fifo!Init
    OBVIOUS
  <2>1. PlaceInv
    BY PlaceInit
  <2>2. InPipeline = <<>>
    BY ConcatEmptySeq, EmptySeq DEF Init, InPipeline
  <2>3. QED
    BY <2>1, <2>2, ToSetOfEmpty DEF OrderInv, Fifo!Init, Init
<1>2. QED
  BY <1>1, OrderInvariant, FifoStep, PTL DEF Spec, CompletesInOrder, Fifo!Spec
-----------------------------------------------------------------------------
(***************************************************************************)
(* The life of a request.  Fresh: as created or reused.  Waits: accepted by *)
(* the pipeline handler, with or without fences to wait for, or cancelled   *)
(* by their timeout.  Works: queued to the devices.  Done: completed.       *)
(***************************************************************************)
Fresh(q) ==
    /\ q.status = "Pending" /\ q.pending = Stream /\ ~q.cancelled
    /\ q.notifiers = {} /\ ~q.timer
Waits(q) ==
    /\ q.status = "Pending"
    /\ q.pending = IF q.cancelled THEN {} ELSE Stream
    /\ q.timer <=> q.notifiers # {}
    /\ q.prepared <=> q.notifiers = {}
Works(q) == q.status = "Pending" /\ q.pending # {} /\ q.notifiers = {} /\ ~q.timer
Done(q) == q.status # "Pending" /\ q.pending = {} /\ q.notifiers = {} /\ ~q.timer

Accepted == ToSet(waitingRequests) \cup ToSet(stopRequests)

\* The life of a request follows the place it is in.
LifeOf(r) ==
    /\ r \in held => Fresh(req[r]) \/ Done(req[r])
    /\ r \in Accepted => Waits(req[r])
    /\ r \in ToSet(queuedRequests) => Works(req[r]) \/ Done(req[r])
    /\ r \notin held \cup Accepted \cup ToSet(queuedRequests) => Fresh(req[r])
Lives == \A r \in Request : LifeOf(r)

\* completeRequest() leaves no completed request at the head of the queue.
HeadWorks ==
    pc # "complete" /\ queuedRequests # <<>> => req[Head(queuedRequests)].status = "Pending"

\* stopDevice() empties one device after the other, and nothing fills them again.
StoppingDevice == pc = "stopDevice" \/ (pc \in {"complete", "doQueue"} /\ ret = "stopDevice")
StoppingWaiting == pc = "stopWaiting" \/ (pc \in {"complete", "doQueue"} /\ ret = "stopWaiting")
StopCleared ==
    Alive => /\ StoppingDevice => \A s \in Stream : s < stopStream => device[s] = {}
             /\ StoppingWaiting => \A s \in Stream : device[s] = {}

\* The inductive invariant.
QueueInv ==
    /\ Lives /\ HeadWorks /\ StopCleared
    /\ DeviceLimit /\ SequenceOrder /\ DeviceOwnsPending /\ NoStall

\* queueBuffer() may fail for the first stream only.  A failure of a later stream
\* leaves the earlier buffers of a cancelled request in their devices, and their
\* completion fails an assertion.
FirstStreamFaults == QueueFaults \subseteq {1}

USE DEF vars, cameraVars, appVars, handlerVars, queueVars, deviceVars

(***************************************************************************)
(* The operations on a request move it along its life.                     *)
(***************************************************************************)
LEMMA StreamNotEmpty == 1 \in Stream /\ Stream # {} /\ \A s \in Stream : s \in Nat /\ s >= 1
  BY ConstantsAssumption DEF Stream

\* A new request is fresh; prepare(), fences and the timeout make it wait.
LEMMA LifeBeforeQueue ==
    ASSUME NEW q \in RequestPrivate
    PROVE  /\ \A f \in SUBSET Stream : Fresh(NewRequest(f))
           /\ Fresh(q) => Waits(prepare(q))
           /\ \A s \in q.notifiers : Waits(q) => Waits(notifierActivated(q, s))
           /\ Waits(q) => Waits(timeout(q))
<1>1. \A f \in SUBSET Stream : Fresh(NewRequest(f))
  BY DEF Fresh, NewRequest
<1>2. Fresh(q) => Waits(prepare(q))
  BY DEF Fresh, Waits, prepare, RequestPrivate
<1>3. \A s \in q.notifiers : Waits(q) => Waits(notifierActivated(q, s))
  BY DEF Waits, notifierActivated, RequestPrivate
<1>4. Waits(q) => Waits(timeout(q))
  <2> DEFINE p == doCancelRequest(q)
  <2>1. /\ p \in RequestPrivate /\ p.status = q.status /\ p.pending = {} /\ p.cancelled
        /\ p.notifiers = {} /\ ~p.timer
    BY DEF doCancelRequest, RequestPrivate
  <2>2. timeout(q) = [p EXCEPT !.prepared = TRUE]
    BY DEF timeout
  <2> HIDE DEF p
  <2>3. QED
    BY <2>1, <2>2 DEF Waits, RequestPrivate
<1>5. QED
  BY <1>1, <1>2, <1>3, <1>4

\* A request that doQueueRequest() is called with: no fence is waited for.
Ready(q) ==
    /\ q.status = "Pending" /\ q.notifiers = {} /\ ~q.timer
    /\ q.pending = IF q.cancelled THEN {} ELSE Stream

\* A prepared or cancelled request is ready.
LEMMA LifeReady ==
    ASSUME NEW q \in RequestPrivate, Waits(q)
    PROVE  /\ q.prepared => Ready(q)
           /\ Ready(doCancelRequest(q)) /\ doCancelRequest(q).cancelled
           /\ doCancelRequest(q) \in RequestPrivate
  BY DEF Waits, Ready, doCancelRequest, RequestPrivate

\* doQueueRequest() gives the request its sequence number n.
LEMMA LifeQueued ==
    ASSUME NEW q \in RequestPrivate, NEW n \in Nat, Ready(q)
    PROVE  LET p == [q EXCEPT !.sequence = n]
           IN  /\ p \in RequestPrivate /\ p.sequence = n /\ p.status = "Pending"
               /\ p.cancelled = q.cancelled
               /\ p.pending = IF q.cancelled THEN {} ELSE Stream
               /\ complete(p).sequence = n /\ complete(doCancelRequest(p)).sequence = n
               /\ q.cancelled => Done(complete(p))
               /\ ~q.cancelled => Works(p)
               /\ Done(complete(doCancelRequest(p)))
<1> DEFINE p == [q EXCEPT !.sequence = n]
           e == doCancelRequest(p)
<1>1. /\ p \in RequestPrivate /\ p.sequence = n /\ p.status = q.status /\ p.cancelled = q.cancelled
      /\ p.pending = q.pending /\ p.notifiers = q.notifiers /\ p.timer = q.timer
  BY DEF RequestPrivate
<1> HIDE DEF p
<1>2. /\ e \in RequestPrivate /\ e.sequence = n /\ e.pending = {} /\ e.notifiers = {} /\ ~e.timer
  BY <1>1 DEF doCancelRequest, RequestPrivate
<1>3. \A x \in RequestPrivate :
          /\ complete(x).sequence = x.sequence /\ complete(x).status # "Pending"
          /\ complete(x).pending = x.pending /\ complete(x).notifiers = x.notifiers
          /\ complete(x).timer = x.timer
  BY DEF complete, RequestPrivate
<1> HIDE DEF e
<1>4. complete(p).sequence = n /\ complete(e).sequence = n /\ Done(complete(e))
  BY <1>1, <1>2, <1>3 DEF Done
<1>5. q.cancelled => Done(complete(p))
  BY <1>1, <1>3 DEF Done, Ready
<1>6. ~q.cancelled => Works(p)
  BY <1>1, StreamNotEmpty DEF Works, Ready
<1>7. q.status = "Pending" /\ q.pending = IF q.cancelled THEN {} ELSE Stream
  BY DEF Ready
<1>8. QED
  BY <1>1, <1>4, <1>5, <1>6, <1>7 DEF p, e

\* A buffer that comes back leaves a request that works, or completes it.
LEMMA LifeInDevice ==
    ASSUME NEW q \in RequestPrivate, NEW s \in q.pending, NEW b \in BOOLEAN, Works(q)
    PROVE  LET p == completeBuffer(q, s, b)
           IN  /\ p \in RequestPrivate /\ p.status = "Pending" /\ p.pending = q.pending \ {s}
               /\ p.sequence = q.sequence /\ complete(p).sequence = q.sequence
               /\ hasPendingBuffers(p) => Works(p)
               /\ ~hasPendingBuffers(p) => Done(complete(p))
<1> DEFINE p == completeBuffer(q, s, b)
<1>1. /\ p \in RequestPrivate /\ p.status = "Pending" /\ p.pending = q.pending \ {s}
      /\ p.sequence = q.sequence /\ p.notifiers = {} /\ ~p.timer
  BY DEF completeBuffer, RequestPrivate, Works
<1> HIDE DEF p
<1>2. /\ complete(p).sequence = p.sequence /\ complete(p).status # "Pending"
      /\ complete(p).pending = p.pending /\ complete(p).notifiers = {} /\ ~complete(p).timer
  BY <1>1 DEF complete, RequestPrivate
<1>3. QED
  BY <1>1, <1>2 DEF p, Works, Done, hasPendingBuffers

-----------------------------------------------------------------------------
(***************************************************************************)
(* Every step preserves QueueInv.  One lemma per kind of step.             *)
(***************************************************************************)

\* Steps that touch neither the queues nor what they refer to.
Untouched ==
    /\ UNCHANGED <<held, waitingRequests, stopRequests, queuedRequests, requestSequence, req, device,
                   pc, ret, stopStream>>
    /\ Alive' => Alive

\* Steps that touch neither queues nor devices keep the invariant.
LEMMA QueueUntouched == QueueInv /\ Untouched => QueueInv'
  BY DEF QueueInv, Untouched, Lives, LifeOf, Accepted, HeadWorks, StopCleared, StoppingDevice,
         StoppingWaiting, DeviceLimit, SequenceOrder, DeviceOwnsPending, NoStall, Alive

\* Every request is in one of the places, and in no two of them.
LEMMA PlacesApart ==
    ASSUME OnePlace, NEW r \in Request
    PROVE  /\ r \in held => r \notin Accepted /\ r \notin ToSet(queuedRequests)
           /\ r \in Accepted => r \notin held /\ r \notin ToSet(queuedRequests)
           /\ r \in ToSet(queuedRequests) => r \notin held /\ r \notin Accepted
           /\ r \in Calling \cup Posted => r \notin held \cup Accepted \cup ToSet(queuedRequests)
           /\ r \in ToSet(waitingRequests) => r \notin ToSet(stopRequests)
  BY DEF OnePlace, Partition, Accepted

\* What a step does to one request leaves the life of the others as it is.
LEMMA OthersLive ==
    ASSUME TypeOK, Lives, NEW r \in Request, NEW v, req' = [req EXCEPT ![r] = v],
           \A x \in Request \ {r} :
               /\ x \in held <=> x \in held'
               /\ x \in Accepted <=> x \in Accepted'
               /\ x \in ToSet(queuedRequests) <=> x \in ToSet(queuedRequests'),
           LifeOf(r)'
    PROVE  Lives'
<1> SUFFICES ASSUME NEW x \in Request, x # r PROVE LifeOf(x)'
  BY DEF Lives
<1>1. req'[x] = req[x]
  BY DEF TypeOK
<1>2. LifeOf(x)
  BY DEF Lives
<1>3. QED
  BY <1>1, <1>2 DEF LifeOf

\* The request at a place of the queue is in the queue.
LEMMA InQueue ==
    ASSUME TypeOK
    PROVE  /\ queuedRequests \in Seq(Request) /\ Len(queuedRequests) \in Nat
           /\ \A i \in 1 .. Len(queuedRequests) :
                  queuedRequests[i] \in ToSet(queuedRequests) /\ queuedRequests[i] \in Request
           /\ queuedRequests # <<>> => /\ Len(queuedRequests) > 0
                                       /\ Head(queuedRequests) = queuedRequests[1]
                                       /\ Head(queuedRequests) \in ToSet(queuedRequests)
                                       /\ Head(queuedRequests) \in Request
           /\ ToSet(queuedRequests) \subseteq Request
<1>1. queuedRequests \in Seq(Request) /\ Len(queuedRequests) \in Nat
      /\ DOMAIN queuedRequests = 1 .. Len(queuedRequests)
  BY DEF TypeOK
<1>2. \A i \in 1 .. Len(queuedRequests) :
          queuedRequests[i] \in ToSet(queuedRequests) /\ queuedRequests[i] \in Request
  BY <1>1 DEF ToSet
<1>3. ToSet(queuedRequests) \subseteq Request
  BY <1>1 DEF ToSet
<1>4. queuedRequests # <<>> => Len(queuedRequests) > 0 /\ Head(queuedRequests) = queuedRequests[1]
  BY <1>1
<1>5. QED
  BY <1>1, <1>2, <1>3, <1>4

\* A change to a request that is not queued, while the queue and the devices stay.
LEMMA QueueKept ==
    ASSUME TypeOK, Alive, SequenceOrder, DeviceOwnsPending, DeviceLimit, HeadWorks, pc # "complete",
           NEW r \in Request, r \notin ToSet(queuedRequests), NEW v, req' = [req EXCEPT ![r] = v],
           UNCHANGED <<queuedRequests, requestSequence, device>>
    PROVE  SequenceOrder' /\ DeviceOwnsPending' /\ DeviceLimit' /\ HeadWorks'
<1>1. \A x \in ToSet(queuedRequests) : req'[x] = req[x]
  BY InQueue DEF TypeOK
<1>2. SequenceOrder'
  BY <1>1, InQueue DEF SequenceOrder
<1>3. DeviceOwnsPending'
  BY <1>1 DEF DeviceOwnsPending
<1>4. DeviceLimit' /\ HeadWorks'
  BY <1>1, InQueue DEF DeviceLimit, HeadWorks
<1>5. QED
  BY <1>2, <1>3, <1>4

\* The first waiting request is an accepted one.
LEMMA HeadWaits ==
    ASSUME TypeOK, waitingRequests # <<>>
    PROVE  /\ Head(waitingRequests) \in Request /\ Head(waitingRequests) \in Accepted
           /\ Head(waitingRequests) \in ToSet(waitingRequests)
  BY HeadInToSet DEF TypeOK, Accepted

\* Reuse(): the request is fresh.
LEMMA QueueReuse ==
    ASSUME OrderInv, QueueInv, NEW r \in Request, NEW f \in SUBSET FencedStreams, Reuse(r, f)
    PROVE  QueueInv'
<1> DEFINE v == NewRequest(f)
<1>1. /\ TypeOK /\ OnePlace /\ Alive /\ r \in held /\ req' = [req EXCEPT ![r] = v]
      /\ UNCHANGED <<held, waitingRequests, stopRequests, queuedRequests, requestSequence, device,
                     pc, ret, stopStream, fatal>>
  BY DEF Reuse, OrderInv, PlaceInv
<1>2. r \notin Accepted /\ r \notin ToSet(queuedRequests)
  BY <1>1, PlacesApart
<1>3. Fresh(v)
  BY ConstantsAssumption DEF Fresh, NewRequest
<1> HIDE DEF v
<1>4. req'[r] = v /\ \A x \in Request : x # r => req'[x] = req[x]
  BY <1>1 DEF TypeOK
<1>5. Lives'
  <2>1. Lives /\ Accepted' = Accepted
    BY <1>1 DEF QueueInv, Accepted
  <2>2. LifeOf(r)'
    BY <1>1, <1>2, <1>3, <1>4, <2>1 DEF LifeOf
  <2>3. QED
    BY <1>1, <2>1, <2>2, OthersLive
<1>6. SequenceOrder' /\ DeviceOwnsPending' /\ DeviceLimit'
  <2>1. \A x \in ToSet(queuedRequests) : req'[x] = req[x]
    BY <1>1, <1>2, <1>4, InQueue
  <2>2. QED
    BY <1>1, <2>1, InQueue DEF QueueInv, SequenceOrder, DeviceOwnsPending, DeviceLimit, Alive
<1>7. HeadWorks'
  BY <1>1, <1>2, <1>4, InQueue DEF QueueInv, HeadWorks
<1>8. NoStall'
  BY <1>1, <1>2, <1>4, HeadWaits DEF QueueInv, NoStall
<1>9. StopCleared'
  BY <1>1 DEF QueueInv, StopCleared, StoppingDevice, StoppingWaiting, Alive
<1>10. QED
  BY <1>5, <1>6, <1>7, <1>8, <1>9 DEF QueueInv

\* queueRequest(): a request that is pending and with the application is fresh.
LEMMA QueueCheck ==
    ASSUME OrderInv, QueueInv, NEW t \in Callers, NEW r \in Request, QueueRequestCheck(t, r)
    PROVE  QueueInv'
<1>1. /\ TypeOK /\ OnePlace /\ r \in held /\ req[r].status = "Pending" /\ held' = held \ {r}
      /\ UNCHANGED <<waitingRequests, stopRequests, queuedRequests, requestSequence, req, device,
                     pc, ret, stopStream, fatal>>
  BY DEF QueueRequestCheck, OrderInv, PlaceInv
<1>2. r \notin Accepted /\ r \notin ToSet(queuedRequests)
  BY <1>1, PlacesApart
<1>3. Fresh(req[r])
  BY <1>1 DEF QueueInv, Lives, LifeOf, Done
<1>4. Lives'
  BY <1>1, <1>2, <1>3 DEF QueueInv, Lives, LifeOf, Accepted
<1>5. QED
  BY <1>1, <1>4 DEF QueueInv, HeadWorks, StopCleared, StoppingDevice, StoppingWaiting, DeviceLimit,
                    SequenceOrder, DeviceOwnsPending, NoStall, Alive

\* PipelineHandler::queueRequest(): a fresh request waits.
LEMMA QueueHandleRequest ==
    ASSUME OrderInv, OrderInv', QueueInv, HandleQueueRequest
    PROVE  QueueInv'
<1>0. TypeOK /\ OnePlace /\ Alive /\ pc = "loop" /\ Dispatch("queueRequest")
  BY DEF HandleQueueRequest, Dispatch, OrderInv, PlaceInv
<1>2. PICK r \in Request : r = Head(msgs).request
  BY <1>0, DispatchType
<1> DEFINE v == prepare(req[r])
<1>1. /\ TypeOK /\ OnePlace /\ Alive /\ pc = "loop" /\ Dispatch("queueRequest")
      /\ waitingRequests' = Append(waitingRequests, r) /\ req' = [req EXCEPT ![r] = v]
      /\ pc' = IF req'[r].prepared THEN "doQueue" ELSE "loop"
      /\ ret' = "loop"
      /\ UNCHANGED <<held, stopRequests, queuedRequests, requestSequence, device, stopStream>>
  BY <1>0, <1>2 DEF HandleQueueRequest
<1>3. r \notin held \cup Accepted \cup ToSet(queuedRequests)
  <2>1. MsgsApart /\ msgs # <<>> /\ msgs' = Tail(msgs)
    BY <1>1 DEF OnePlace, MsgsApart, Dispatch
  <2>2. r \in Posted
    BY <1>1, <1>2, <2>1, TakeMessage, ConstantsAssumption
  <2>3. QED
    BY <1>1, <2>2, PlacesApart
<1>4. Waits(v)
  <2>1. req[r] \in RequestPrivate
    BY <1>1 DEF TypeOK
  <2>2. Fresh(req[r])
    BY <1>3 DEF QueueInv, Lives, LifeOf
  <2>3. QED
    BY <2>1, <2>2, LifeBeforeQueue
<1> HIDE DEF v
<1>5. req'[r] = v /\ \A x \in Request : x # r => req'[x] = req[x]
  BY <1>1, <1>2 DEF TypeOK
<1>6. ToSet(waitingRequests') = ToSet(waitingRequests) \cup {r}
  BY <1>1, <1>2, ToSetOfAppend DEF TypeOK
<1>7. Accepted' = Accepted \cup {r}
  BY <1>1, <1>6 DEF Accepted
<1>8. Lives'
  <2>1. LifeOf(r)'
    BY <1>1, <1>3, <1>4, <1>5, <1>7 DEF LifeOf
  <2>2. QED
    BY <1>1, <1>2, <1>7, <2>1, OthersLive DEF QueueInv
<1>9. SequenceOrder' /\ DeviceOwnsPending' /\ DeviceLimit' /\ HeadWorks'
  BY <1>1, <1>2, <1>3, QueueKept DEF QueueInv
<1>10. StopCleared'
  BY <1>1 DEF StopCleared, StoppingDevice, StoppingWaiting
<1>11. NoStall'
  <2> SUFFICES ASSUME pc' = "loop" PROVE Len(queuedRequests') = MaxQueuedRequestsDevice
                                         \/ req'[Head(waitingRequests')].timer
    BY DEF NoStall
  <2>1. v.timer
    BY <1>1, <1>4, <1>5 DEF Waits
  <2>2. CASE waitingRequests = <<>>
    <3>1. Head(waitingRequests') = r
      BY <1>1, <1>2, <2>2
    <3>2. QED
      BY <1>5, <2>1, <3>1
  <2>3. CASE waitingRequests # <<>>
    <3>1. Head(waitingRequests') = Head(waitingRequests)
      BY <1>1, <1>2, <2>3 DEF TypeOK
    <3>2. req'[Head(waitingRequests)] = req[Head(waitingRequests)]
      BY <1>1, <1>3, <1>5, <2>3, HeadWaits
    <3>3. QED
      BY <1>1, <2>3, <3>1, <3>2 DEF QueueInv, NoStall
  <2>4. QED
    BY <2>2, <2>3
<1>12. QED
  BY <1>8, <1>9, <1>10, <1>11 DEF QueueInv

\* stop() takes the requests that wait.
LEMMA QueueHandleStop ==
    ASSUME OrderInv, QueueInv, HandleStop
    PROVE  QueueInv'
<1>1. /\ TypeOK /\ OnePlace /\ Alive /\ pc = "loop" /\ stopRequests' = waitingRequests
      /\ waitingRequests' = <<>> /\ stopStream' = 1 /\ pc' = "stopDevice"
      /\ UNCHANGED <<held, queuedRequests, requestSequence, req, device, fatal>>
  BY DEF HandleStop, Dispatch, OrderInv, PlaceInv
<1>2. stopRequests = <<>>
  BY <1>1 DEF OrderInv, PlaceInv, InStop
<1>3. Accepted' = Accepted
  BY <1>1, <1>2, ToSetOfEmpty DEF Accepted
<1>4. Lives'
  BY <1>1, <1>3 DEF QueueInv, Lives, LifeOf
<1>5. StopCleared'
  BY <1>1, StreamNotEmpty DEF StopCleared, StoppingDevice, StoppingWaiting
<1>6. QED
  BY <1>1, <1>4, <1>5 DEF QueueInv, HeadWorks, DeviceLimit, SequenceOrder, DeviceOwnsPending, NoStall,
                          Alive

\* The timer or a fence of a request: it waits, and goes on to.
LEMMA FenceEvent ==
    ASSUME OrderInv, QueueInv, NEW r \in Request, NEW v, Alive, pc = "loop",
           r \in Accepted, Waits(v), req' = [req EXCEPT ![r] = v],
           pc' = "doQueue" \/ (pc' = "loop" /\ ~v.prepared), ret' = "loop",
           UNCHANGED <<held, waitingRequests, stopRequests, queuedRequests, requestSequence, device,
                       stopStream>>
    PROVE  QueueInv'
<1>1. TypeOK /\ OnePlace
  BY DEF OrderInv, PlaceInv
<1>2. r \notin held /\ r \notin ToSet(queuedRequests) /\ Accepted' = Accepted
  BY <1>1, PlacesApart DEF Accepted
<1>3. req'[r] = v /\ \A x \in Request : x # r => req'[x] = req[x]
  BY <1>1 DEF TypeOK
<1>4. Lives'
  <2>1. LifeOf(r)'
    BY <1>2, <1>3 DEF LifeOf
  <2>2. QED
    BY <1>1, <1>2, <2>1, OthersLive DEF QueueInv
<1>5. SequenceOrder' /\ DeviceOwnsPending' /\ DeviceLimit' /\ HeadWorks'
  BY <1>1, <1>2, QueueKept DEF QueueInv
<1>6. StopCleared'
  BY DEF StopCleared, StoppingDevice, StoppingWaiting
<1>7. NoStall'
  BY <1>1, <1>3, HeadWaits DEF QueueInv, NoStall, Waits
<1>8. QED
  BY <1>4, <1>5, <1>6, <1>7 DEF QueueInv

\* A fence that signals, or the timeout, only prepares its request.
LEMMA QueueFence ==
    ASSUME OrderInv, QueueInv, NEW r \in Request,
           Timeout(r) \/ \E s \in Stream : NotifierActivated(r, s)
    PROVE  QueueInv'
<1>1. TypeOK /\ OnePlace /\ req[r] \in RequestPrivate
  BY DEF OrderInv, PlaceInv, TypeOK
<1>2. LifeOf(r)
  BY DEF QueueInv, Lives
<1>3. req[r].notifiers # {} \/ req[r].timer => r \in Accepted /\ Waits(req[r])
  BY <1>2 DEF LifeOf, Fresh, Done, Works
<1>4. CASE Timeout(r)
  <2>1. r \in Accepted /\ Waits(timeout(req[r]))
    BY <1>1, <1>3, <1>4, LifeBeforeQueue DEF Timeout
  <2>2. /\ Alive /\ pc = "loop" /\ req' = [req EXCEPT ![r] = timeout(req[r])]
        /\ pc' = "doQueue" /\ ret' = "loop"
        /\ UNCHANGED <<held, waitingRequests, stopRequests, queuedRequests, requestSequence, device,
                       stopStream>>
    BY <1>4 DEF Timeout
  <2>3. QED
    BY <2>1, <2>2, FenceEvent
<1>5. ASSUME NEW s \in Stream, NotifierActivated(r, s) PROVE QueueInv'
  <2> DEFINE v == notifierActivated(req[r], s)
  <2>1. r \in Accepted /\ Waits(v)
    BY <1>1, <1>3, <1>5, LifeBeforeQueue DEF NotifierActivated
  <2>2. /\ Alive /\ pc = "loop" /\ req' = [req EXCEPT ![r] = v] /\ ret' = "loop"
        /\ pc' = IF req'[r].prepared THEN "doQueue" ELSE "loop"
        /\ UNCHANGED <<held, waitingRequests, stopRequests, queuedRequests, requestSequence, device,
                       stopStream>>
    BY <1>5 DEF NotifierActivated
  <2> HIDE DEF v
  <2>3. req'[r] = v
    BY <1>1, <2>2 DEF TypeOK
  <2>4. QED
    BY <2>1, <2>2, <2>3, FenceEvent
<1>6. QED
  BY <1>4, <1>5

\* bufferReady(), from the event loop or from stopDevice().
LEMMA QueueBufferReady ==
    ASSUME OrderInv, QueueInv, Alive, NEW r \in Request, NEW s \in Stream, NEW c \in BOOLEAN,
           pc = "loop" \/ pc = "stopDevice", r \in device[s], bufferReady(r, s, c),
           UNCHANGED <<held, waitingRequests, stopRequests, queuedRequests, requestSequence, stopStream>>
    PROVE  QueueInv'
<1> DEFINE q == completeBuffer(req[r], s, c)
           v == IF hasPendingBuffers(q) THEN q ELSE complete(q)
<1>1. TypeOK /\ OnePlace /\ req[r] \in RequestPrivate
  BY DEF OrderInv, PlaceInv, TypeOK
<1>2. r \in ToSet(queuedRequests) /\ req[r].status = "Pending" /\ s \in req[r].pending
  BY DEF QueueInv, DeviceOwnsPending
<1>3. r \notin held /\ r \notin Accepted /\ Accepted' = Accepted
  BY <1>1, <1>2, PlacesApart DEF Accepted
<1>4. Works(req[r])
  BY <1>2 DEF QueueInv, Lives, LifeOf, Done
<1>5. /\ device' = [device EXCEPT ![s] = @ \ {r}] /\ req' = [req EXCEPT ![r] = v]
      /\ pc' = IF hasPendingBuffers(q) THEN pc ELSE "complete"
      /\ ret' = pc
  BY DEF bufferReady
<1>6. /\ q.status = "Pending" /\ q.pending = req[r].pending \ {s}
      /\ q.sequence = req[r].sequence /\ complete(q).sequence = req[r].sequence
      /\ hasPendingBuffers(q) => Works(q)
      /\ ~hasPendingBuffers(q) => Done(complete(q))
  BY <1>1, <1>2, <1>4, LifeInDevice
<1>7. /\ v.sequence = req[r].sequence
      /\ Works(v) \/ Done(v)
      /\ pc' # "complete" => v.status = "Pending"
      /\ v.status = "Pending" => v.pending = req[r].pending \ {s}
      /\ v.status # "Pending" => req[r].pending \subseteq {s}
  BY <1>5, <1>6 DEF Done, hasPendingBuffers
<1> HIDE DEF v, q
<1>8. req'[r] = v /\ \A x \in Request : x # r => req'[x] = req[x]
  BY <1>1, <1>5 DEF TypeOK
<1>9. Lives'
  <2>1. LifeOf(r)'
    BY <1>2, <1>3, <1>7, <1>8 DEF LifeOf
  <2>2. QED
    BY <1>1, <1>3, <1>5, <2>1, OthersLive DEF QueueInv
<1>10. DeviceOwnsPending'
  <2> SUFFICES ASSUME NEW z \in Stream
               PROVE  device'[z] = {x \in ToSet(queuedRequests) :
                                        req'[x].status = "Pending" /\ z \in req'[x].pending}
    BY DEF DeviceOwnsPending
  <2>1. device[z] = {x \in ToSet(queuedRequests) : req[x].status = "Pending" /\ z \in req[x].pending}
    BY DEF QueueInv, DeviceOwnsPending
  <2>2. device'[z] = IF z = s THEN device[z] \ {r} ELSE device[z]
    BY <1>1, <1>5 DEF TypeOK
  <2>3. ToSet(queuedRequests) \subseteq Request
    BY <1>1, InQueue
  <2>4. z \in req'[r].pending /\ req'[r].status = "Pending" <=> z \in req[r].pending /\ z # s
    BY <1>7, <1>8
  <2>5. QED
    BY <1>2, <1>8, <2>1, <2>2, <2>3, <2>4
<1>11. SequenceOrder' /\ DeviceLimit'
  <2>1. \A x \in Request : req'[x].sequence = req[x].sequence
    BY <1>7, <1>8
  <2>2. \A i \in 1 .. Len(queuedRequests) : queuedRequests[i] \in Request
    BY <1>1, InQueue
  <2>3. SequenceOrder /\ DeviceLimit
    BY DEF QueueInv
  <2>4. QED
    BY <2>1, <2>2, <2>3 DEF SequenceOrder, DeviceLimit
<1>12. HeadWorks'
  BY <1>1, <1>7, <1>8, InQueue DEF QueueInv, HeadWorks
<1>13. StopCleared'
  <2>1. \A z \in Stream : device[z] = {} => device'[z] = {}
    BY <1>1, <1>5 DEF TypeOK
  <2>2. QED
    BY <1>5, <2>1 DEF QueueInv, StopCleared, StoppingDevice, StoppingWaiting
<1>14. NoStall'
  BY <1>1, <1>3, <1>5, <1>8, HeadWaits DEF QueueInv, NoStall
<1>15. QED
  BY <1>9, <1>10, <1>11, <1>12, <1>13, <1>14 DEF QueueInv

\* stopDevice() has returned the last buffer: no request is queued any more.
LEMMA Drained ==
    ASSUME TypeOK, QueueInv, Alive, pc = "stopWaiting"
    PROVE  queuedRequests = <<>>
<1> SUFFICES ASSUME queuedRequests # <<>> PROVE FALSE
  OBVIOUS
<1> DEFINE r == Head(queuedRequests)
<1>1. r \in ToSet(queuedRequests) /\ r \in Request /\ req[r].status = "Pending"
  BY InQueue DEF QueueInv, HeadWorks
<1> HIDE DEF r
<1>2. req[r].pending # {} /\ req[r].pending \subseteq Stream
  <2>1. req[r] \in RequestPrivate
    BY <1>1 DEF TypeOK
  <2>2. Works(req[r])
    BY <1>1 DEF QueueInv, Lives, LifeOf, Done
  <2>3. QED
    BY <2>1, <2>2 DEF Works, RequestPrivate
<1>3. PICK s \in Stream : s \in req[r].pending
  BY <1>2
<1>4. r \in device[s]
  BY <1>1, <1>3 DEF QueueInv, DeviceOwnsPending
<1>5. QED
  BY <1>4 DEF QueueInv, StopCleared, StoppingWaiting

\* doQueueRequest(): the request is queued, with its buffers in the devices or completed.
LEMMA QueueDoQueue ==
    ASSUME FirstStreamFaults, TypeOK, QueueInv, Alive, pc # "complete",
           NEW r \in Request, r \notin ToSet(queuedRequests), NEW q \in RequestPrivate, Ready(q),
           doQueueRequest(r, q)
    PROVE  /\ \E v : /\ req' = [req EXCEPT ![r] = v] /\ req'[r] = v /\ (Works(v) \/ Done(v))
           /\ ToSet(queuedRequests') = ToSet(queuedRequests) \cup {r}
           /\ Len(queuedRequests') = Len(queuedRequests) + 1
           /\ SequenceOrder' /\ DeviceOwnsPending' /\ HeadWorks'
           /\ q.cancelled => UNCHANGED device /\ pc' = "complete"
           /\ pc' \in {pc, "complete"}
<1> DEFINE p == [q EXCEPT !.sequence = requestSequence]
<1>1. /\ p \in RequestPrivate /\ p.sequence = requestSequence /\ p.status = "Pending"
      /\ p.cancelled = q.cancelled
      /\ p.pending = IF q.cancelled THEN {} ELSE Stream
      /\ complete(p).sequence = requestSequence
      /\ complete(doCancelRequest(p)).sequence = requestSequence
      /\ q.cancelled => Done(complete(p))
      /\ ~q.cancelled => Works(p)
      /\ Done(complete(doCancelRequest(p)))
  <2>1. requestSequence \in Nat
    BY DEF TypeOK
  <2>2. QED
    BY <2>1, LifeQueued
<1>2. /\ queuedRequests \in Seq(Request) /\ Len(queuedRequests) \in Nat
      /\ queuedRequests' = Append(queuedRequests, r) /\ requestSequence' = requestSequence + 1
      /\ requestSequence \in Nat
  <2>1. queuedRequests \in Seq(Request) /\ requestSequence \in Nat
    BY DEF TypeOK
  <2>2. queuedRequests' = Append(queuedRequests, r) /\ requestSequence' = requestSequence + 1
    BY DEF doQueueRequest
  <2>3. QED
    BY <2>1, <2>2
<1> HIDE DEF p
\* The three outcomes: completed at once, in the devices, or the process aborts.
<1>3. \E v : /\ req' = [req EXCEPT ![r] = v]
             /\ v.sequence = requestSequence
             /\ \/ /\ Done(v) /\ pc' = "complete" /\ UNCHANGED device
                \/ /\ ~q.cancelled /\ Works(v) /\ v.pending = Stream /\ pc' = pc
                   /\ \/ ~Alive'
                      \/ device' = [i \in Stream |-> device[i] \cup {r}]
  <2>1. CASE q.cancelled
    <3>1. req' = [req EXCEPT ![r] = complete(p)] /\ pc' = "complete" /\ UNCHANGED device
      BY <1>1, <2>1 DEF doQueueRequest, p
    <3>2. QED
      BY <1>1, <2>1, <3>1
  <2>2. CASE ~q.cancelled /\ queueRequestDevice(r) /\ req' = [req EXCEPT ![r] = p] /\ UNCHANGED pc
    BY <1>1, <2>2 DEF queueRequestDevice
  <2>3. CASE ~q.cancelled /\ fatal' = "queueBuffer: No BufferCache available to queue"
             /\ req' = [req EXCEPT ![r] = p] /\ UNCHANGED pc
    BY <1>1, <2>3 DEF Alive
  <2>4. CASE /\ ~q.cancelled /\ \E s \in Stream : queueRequestDeviceFails(r, s)
             /\ req' = [req EXCEPT ![r] = complete(doCancelRequest(p))] /\ pc' = "complete"
    <3>1. \A i \in Stream : ~(i < 1)
      BY StreamNotEmpty
    <3>2. device' = [i \in Stream |-> device[i]]
      BY <2>4, <3>1 DEF queueRequestDeviceFails, FirstStreamFaults
    <3>3. UNCHANGED device
      BY <3>2 DEF TypeOK
    <3>4. QED
      BY <1>1, <2>4, <3>3
  <2>5. QED
    BY <1>1, <2>1, <2>2, <2>3, <2>4 DEF doQueueRequest, p
<1>4. PICK v : /\ req' = [req EXCEPT ![r] = v]
               /\ v.sequence = requestSequence
               /\ \/ /\ Done(v) /\ pc' = "complete" /\ UNCHANGED device
                  \/ /\ ~q.cancelled /\ Works(v) /\ v.pending = Stream /\ pc' = pc
                     /\ \/ ~Alive'
                        \/ device' = [i \in Stream |-> device[i] \cup {r}]
  BY <1>3
<1>5. req'[r] = v /\ \A x \in Request : x # r => req'[x] = req[x]
  BY <1>4 DEF TypeOK
<1>6. ToSet(queuedRequests') = ToSet(queuedRequests) \cup {r}
  BY <1>2, ToSetOfAppend
<1>7. /\ Len(queuedRequests') = Len(queuedRequests) + 1
      /\ queuedRequests'[Len(queuedRequests) + 1] = r
      /\ \A i \in 1 .. Len(queuedRequests) : queuedRequests'[i] = queuedRequests[i]
  BY <1>2
<1>8. SequenceOrder'
  <2> SUFFICES ASSUME NEW i \in 1 .. Len(queuedRequests) + 1
               PROVE  req'[queuedRequests'[i]].sequence
                          = requestSequence + 1 - (Len(queuedRequests) + 1) + i - 1
    BY <1>2, <1>7 DEF SequenceOrder
  <2>1. CASE i = Len(queuedRequests) + 1
    BY <1>2, <1>4, <1>5, <1>7, <2>1
  <2>2. CASE i \in 1 .. Len(queuedRequests)
    <3>1. queuedRequests[i] \in Request /\ queuedRequests[i] # r
      BY <2>2, InQueue
    <3>2. req[queuedRequests[i]].sequence = requestSequence - Len(queuedRequests) + i - 1
      BY <2>2 DEF QueueInv, SequenceOrder
    <3>3. req'[queuedRequests'[i]].sequence = requestSequence - Len(queuedRequests) + i - 1
      BY <1>5, <1>7, <2>2, <3>1, <3>2
    <3>4. QED
      BY <1>2, <3>3
  <2>3. QED
    BY <1>2, <2>1, <2>2
<1>9. DeviceOwnsPending'
  <2> SUFFICES ASSUME Alive', NEW z \in Stream
               PROVE  device'[z] = {x \in ToSet(queuedRequests') :
                                        req'[x].status = "Pending" /\ z \in req'[x].pending}
    BY DEF DeviceOwnsPending
  <2>1. device[z] = {x \in ToSet(queuedRequests) : req[x].status = "Pending" /\ z \in req[x].pending}
    BY DEF QueueInv, DeviceOwnsPending
  <2>2. ToSet(queuedRequests) \subseteq Request
    BY InQueue
  <2>3. CASE Done(v) /\ UNCHANGED device
    BY <1>5, <1>6, <2>1, <2>2, <2>3 DEF Done
  <2>4. CASE Works(v) /\ v.pending = Stream /\ device' = [i \in Stream |-> device[i] \cup {r}]
    <3>1. device'[z] = device[z] \cup {r}
      BY <2>4
    <3>2. QED
      BY <1>5, <1>6, <2>1, <2>2, <2>4, <3>1 DEF Works
  <2>5. QED
    BY <1>4, <2>3, <2>4
<1>10. HeadWorks'
  <2> SUFFICES ASSUME pc' # "complete" PROVE req'[Head(queuedRequests')].status = "Pending"
    BY DEF HeadWorks
  <2>1. v.status = "Pending"
    BY <1>4 DEF Works
  <2>2. CASE queuedRequests = <<>>
    <3>1. Head(queuedRequests') = r
      BY <1>2, <2>2
    <3>2. QED
      BY <1>5, <2>1, <3>1
  <2>3. CASE queuedRequests # <<>>
    <3>1. Head(queuedRequests') = Head(queuedRequests)
      BY <1>2, <2>3
    <3>2. Head(queuedRequests) \in Request /\ Head(queuedRequests) # r
      BY <2>3, InQueue
    <3>3. QED
      BY <1>5, <2>3, <3>1, <3>2 DEF QueueInv, HeadWorks
  <2>4. QED
    BY <2>2, <2>3
<1>11. QED
  BY <1>4, <1>5, <1>6, <1>7, <1>8, <1>9, <1>10

\* A request that waits is queued, by doQueueRequests() or by stop().
LEMMA LivesQueued ==
    ASSUME TypeOK, OnePlace, Lives, NEW r \in Request, r \in Accepted,
           NEW v, req' = [req EXCEPT ![r] = v], req'[r] = v, Works(v) \/ Done(v),
           ToSet(queuedRequests') = ToSet(queuedRequests) \cup {r},
           Accepted' = Accepted \ {r}, UNCHANGED held
    PROVE  Lives'
<1>1. r \notin held
  BY PlacesApart
<1>2. LifeOf(r)'
  BY <1>1 DEF LifeOf
<1>3. QED
  BY <1>2, OthersLive

\* One iteration of doQueueRequests().
LEMMA QueueDoQueueRequest ==
    ASSUME FirstStreamFaults, OrderInv, QueueInv, DoQueueRequest
    PROVE  QueueInv'
<1>1. /\ TypeOK /\ OnePlace /\ Alive /\ pc = "doQueue" /\ waitingRequests # <<>>
      /\ Len(queuedRequests) # MaxQueuedRequestsDevice /\ waitingRequests' = Tail(waitingRequests)
      /\ UNCHANGED <<held, stopRequests, ret, stopStream>>
  BY DEF DoQueueRequest, CanQueue, OrderInv, PlaceInv
<1>2. PICK r \in Request : r = Head(waitingRequests)
  BY <1>1, HeadWaits
<1>3. r \in ToSet(waitingRequests) /\ r \in Accepted /\ r \notin ToSet(stopRequests)
      /\ r \notin ToSet(queuedRequests)
  BY <1>1, <1>2, HeadWaits, PlacesApart
<1>4. req[r] \in RequestPrivate /\ Ready(req[r]) /\ doQueueRequest(r, req[r])
  <2>1. req[r] \in RequestPrivate
    BY <1>1 DEF TypeOK
  <2>2. Waits(req[r])
    BY <1>3 DEF QueueInv, Lives, LifeOf
  <2>3. req[r].prepared /\ doQueueRequest(r, req[r])
    BY <1>2 DEF DoQueueRequest, CanQueue
  <2>4. QED
    BY <2>1, <2>2, <2>3, LifeReady
<1>5. /\ \E v : req' = [req EXCEPT ![r] = v] /\ req'[r] = v /\ (Works(v) \/ Done(v))
      /\ ToSet(queuedRequests') = ToSet(queuedRequests) \cup {r}
      /\ Len(queuedRequests') = Len(queuedRequests) + 1
      /\ SequenceOrder' /\ DeviceOwnsPending' /\ HeadWorks'
      /\ pc' \in {pc, "complete"}
  BY <1>1, <1>3, <1>4, QueueDoQueue
<1>6. Lives'
  <2>1. ToSet(waitingRequests') = ToSet(waitingRequests) \ {r}
    BY <1>1, <1>2, ToSetOfTail DEF TypeOK, OnePlace
  <2>2. Accepted' = Accepted \ {r}
    BY <1>1, <1>3, <2>1 DEF Accepted
  <2>3. QED
    BY <1>1, <1>3, <1>5, <2>2, LivesQueued DEF QueueInv
<1>7. DeviceLimit'
  <2>1. Len(queuedRequests) \in Nat
    BY <1>1, InQueue
  <2>2. QED
    BY <1>1, <1>5, <2>1, ConstantsAssumption DEF QueueInv, DeviceLimit
<1>8. StopCleared'
  <2>1. ret \notin {"stopDevice", "stopWaiting"}
    BY <1>1 DEF OrderInv, InStop
  <2>2. QED
    BY <1>1, <1>5, <2>1 DEF StopCleared, StoppingDevice, StoppingWaiting
<1>9. NoStall'
  BY <1>1, <1>5 DEF NoStall
<1>10. QED
  BY <1>5, <1>6, <1>7, <1>8, <1>9 DEF QueueInv

\* stop() cancels a waiting request.
LEMMA QueueStopWaiting ==
    ASSUME FirstStreamFaults, OrderInv, QueueInv, StopWaitingRequest
    PROVE  QueueInv'
<1>1. /\ TypeOK /\ OnePlace /\ Alive /\ pc = "stopWaiting" /\ stopRequests # <<>>
      /\ stopRequests' = Tail(stopRequests) /\ ret' = "stopWaiting"
      /\ UNCHANGED <<held, waitingRequests, stopStream>>
  BY DEF StopWaitingRequest, OrderInv, PlaceInv
<1>2. /\ stopRequests \in Seq(Request) /\ Head(stopRequests) \in ToSet(stopRequests)
      /\ Head(stopRequests) \in Request
  BY <1>1, HeadInToSet DEF TypeOK
<1>3. PICK r \in Request : r = Head(stopRequests)
  BY <1>2
<1>4. r \in ToSet(stopRequests) /\ r \in Accepted /\ r \notin ToSet(queuedRequests)
      /\ r \notin ToSet(waitingRequests)
  BY <1>1, <1>2, <1>3, PlacesApart DEF Accepted
<1> DEFINE q == doCancelRequest(req[r])
<1>5. q \in RequestPrivate /\ Ready(q) /\ q.cancelled
  <2>1. req[r] \in RequestPrivate
    BY <1>1 DEF TypeOK
  <2>2. Waits(req[r])
    BY <1>4 DEF QueueInv, Lives, LifeOf
  <2>3. QED
    BY <2>1, <2>2, LifeReady
<1>6. doQueueRequest(r, q)
  BY <1>3 DEF StopWaitingRequest
<1> HIDE DEF q
<1>7. /\ \E v : req' = [req EXCEPT ![r] = v] /\ req'[r] = v /\ (Works(v) \/ Done(v))
      /\ ToSet(queuedRequests') = ToSet(queuedRequests) \cup {r}
      /\ Len(queuedRequests') = Len(queuedRequests) + 1
      /\ SequenceOrder' /\ DeviceOwnsPending' /\ HeadWorks'
      /\ UNCHANGED device /\ pc' = "complete"
  BY <1>1, <1>4, <1>5, <1>6, QueueDoQueue
<1>8. Lives'
  <2>1. ToSet(stopRequests') = ToSet(stopRequests) \ {r}
    BY <1>1, <1>2, <1>3, ToSetOfTail DEF OnePlace
  <2>2. Accepted' = Accepted \ {r}
    BY <1>1, <1>4, <2>1 DEF Accepted
  <2>3. QED
    BY <1>1, <1>4, <1>7, <2>2, LivesQueued DEF QueueInv
<1>9. DeviceLimit'
  <2>1. Len(queuedRequests) = 0
    BY <1>1, Drained
  <2>2. QED
    BY <1>7, <2>1, ConstantsAssumption DEF DeviceLimit
<1>10. StopCleared'
  BY <1>1, <1>7 DEF QueueInv, StopCleared, StoppingDevice, StoppingWaiting
<1>11. NoStall'
  BY <1>7 DEF NoStall
<1>12. QED
  BY <1>7, <1>8, <1>9, <1>10, <1>11 DEF QueueInv

\* completeRequest() returns the request at the head of the queue.
LEMMA QueueComplete ==
    ASSUME OrderInv, QueueInv, RequestComplete
    PROVE  QueueInv'
<1>1. /\ TypeOK /\ OnePlace /\ Alive /\ pc = "complete" /\ queuedRequests # <<>>
      /\ req[Head(queuedRequests)].status # "Pending"
      /\ held' = held \cup {Head(queuedRequests)} /\ queuedRequests' = Tail(queuedRequests)
      /\ UNCHANGED <<waitingRequests, stopRequests, requestSequence, req, device, pc, ret, stopStream>>
  BY DEF RequestComplete, CanComplete, OrderInv, PlaceInv
<1>2. PICK r \in Request : r = Head(queuedRequests)
  BY <1>1, InQueue
<1>3. r \in ToSet(queuedRequests) /\ r \notin Accepted /\ r \notin held
  BY <1>1, <1>2, InQueue, PlacesApart
<1>4. ToSet(queuedRequests') = ToSet(queuedRequests) \ {r} /\ Accepted' = Accepted
  BY <1>1, <1>2, ToSetOfTail DEF TypeOK, OnePlace, Accepted
<1>5. Done(req[r])
  BY <1>1, <1>2, <1>3 DEF QueueInv, Lives, LifeOf, Works
<1>6. Lives'
  BY <1>1, <1>2, <1>3, <1>4, <1>5 DEF QueueInv, Lives, LifeOf
<1>7. /\ queuedRequests \in Seq(Request) /\ Len(queuedRequests) \in Nat /\ Len(queuedRequests) > 0
      /\ Len(queuedRequests') = Len(queuedRequests) - 1
      /\ \A i \in 1 .. Len(queuedRequests) - 1 : queuedRequests'[i] = queuedRequests[i + 1]
  BY <1>1 DEF TypeOK
<1>8. SequenceOrder'
  <2> SUFFICES ASSUME NEW i \in 1 .. Len(queuedRequests) - 1
               PROVE  req[queuedRequests[i + 1]].sequence
                          = requestSequence - (Len(queuedRequests) - 1) + i - 1
    BY <1>1, <1>7 DEF SequenceOrder
  <2>1. i + 1 \in 1 .. Len(queuedRequests) /\ requestSequence \in Nat
    BY <1>1, <1>7 DEF TypeOK
  <2>2. req[queuedRequests[i + 1]].sequence = requestSequence - Len(queuedRequests) + (i + 1) - 1
    BY <2>1 DEF QueueInv, SequenceOrder
  <2>3. QED
    BY <1>7, <2>1, <2>2
<1>9. DeviceLimit'
  BY <1>7, ConstantsAssumption DEF QueueInv, DeviceLimit
<1>10. DeviceOwnsPending'
  BY <1>1, <1>2, <1>4 DEF QueueInv, DeviceOwnsPending
<1>11. HeadWorks' /\ NoStall'
  BY <1>1 DEF HeadWorks, NoStall
<1>12. StopCleared'
  BY <1>1 DEF QueueInv, StopCleared, StoppingDevice, StoppingWaiting
<1>13. QED
  BY <1>6, <1>8, <1>9, <1>10, <1>11, <1>12 DEF QueueInv

\* The handlers return, and stop() goes from stream to stream.
LEMMA QueueReturns ==
    ASSUME OrderInv, QueueInv, DoQueueReturn \/ CompleteReturn
    PROVE  QueueInv'
<1>1. /\ TypeOK /\ Alive
      /\ UNCHANGED <<held, waitingRequests, stopRequests, queuedRequests, requestSequence, req, device,
                     ret, stopStream, fatal>>
  BY DEF DoQueueReturn, CompleteReturn, OrderInv, PlaceInv
<1>2. Lives' /\ DeviceLimit' /\ SequenceOrder' /\ DeviceOwnsPending'
  BY <1>1 DEF QueueInv, Lives, LifeOf, Accepted, DeviceLimit, SequenceOrder, DeviceOwnsPending, Alive
<1>3. HeadWorks'
  BY <1>1 DEF QueueInv, HeadWorks, DoQueueReturn, CompleteReturn, CanComplete
<1>4. StopCleared'
  BY <1>1 DEF QueueInv, StopCleared, StoppingDevice, StoppingWaiting, Alive, DoQueueReturn,
              CompleteReturn
<1>5. NoStall'
  <2> SUFFICES ASSUME DoQueueReturn, waitingRequests # <<>>,
                      Len(queuedRequests) # MaxQueuedRequestsDevice
               PROVE  req[Head(waitingRequests)].timer
    BY <1>1 DEF NoStall, CompleteReturn
  <2>1. ~req[Head(waitingRequests)].prepared
    BY DEF DoQueueReturn, CanQueue
  <2>2. Waits(req[Head(waitingRequests)])
    BY <1>1, HeadWaits DEF QueueInv, Lives, LifeOf
  <2>3. QED
    BY <2>1, <2>2 DEF Waits
<1>6. QED
  BY <1>2, <1>3, <1>4, <1>5 DEF QueueInv

\* stopDevice() has emptied a stream and goes on to the next.
LEMMA QueueStopStream ==
    ASSUME OrderInv, QueueInv, StopDeviceStream
    PROVE  QueueInv'
<1>1. /\ TypeOK /\ Alive /\ pc = "stopDevice" /\ stopStream \in Stream /\ device[stopStream] = {}
      /\ stopStream' = stopStream + 1
      /\ pc' = IF stopStream = NumStreams THEN "stopWaiting" ELSE "stopDevice"
      /\ UNCHANGED <<held, waitingRequests, stopRequests, queuedRequests, requestSequence, req, device,
                     ret, fatal>>
  BY DEF StopDeviceStream, OrderInv, PlaceInv
<1>2. Lives' /\ DeviceLimit' /\ SequenceOrder' /\ DeviceOwnsPending' /\ HeadWorks' /\ NoStall'
  BY <1>1 DEF QueueInv, Lives, LifeOf, Accepted, DeviceLimit, SequenceOrder, DeviceOwnsPending, Alive,
              HeadWorks, NoStall
<1>3. \A s \in Stream : s < stopStream + 1 => device[s] = {}
  <2>1. \A s \in Stream : s < stopStream => device[s] = {}
    BY <1>1 DEF QueueInv, StopCleared, StoppingDevice
  <2>2. \A s \in Stream : s < stopStream + 1 => s < stopStream \/ s = stopStream
    BY <1>1, StreamNotEmpty
  <2>3. QED
    BY <1>1, <2>1, <2>2
<1>4. StopCleared'
  <2>1. CASE stopStream = NumStreams
    <3>1. \A s \in Stream : s < stopStream + 1
      BY <2>1, ConstantsAssumption DEF Stream
    <3>2. QED
      BY <1>1, <1>3, <2>1, <3>1 DEF StopCleared, StoppingDevice, StoppingWaiting
  <2>2. CASE stopStream # NumStreams
    BY <1>1, <1>3, <2>2 DEF StopCleared, StoppingDevice, StoppingWaiting
  <2>3. QED
    BY <2>1, <2>2
<1>5. QED
  BY <1>2, <1>4 DEF QueueInv

\* stop() ends with nothing left.
LEMMA QueueStopDone ==
    ASSUME OrderInv, QueueInv, StopDone
    PROVE  QueueInv'
<1>1. /\ TypeOK /\ Alive /\ pc = "stopWaiting" /\ pc' = "loop" /\ waitingRequests = <<>>
      /\ UNCHANGED <<held, waitingRequests, stopRequests, queuedRequests, req, device, ret, stopStream>>
  BY DEF StopDone, OrderInv, PlaceInv, InStop
<1>2. queuedRequests = <<>>
  BY <1>1, Drained
<1>3. Lives' /\ DeviceLimit' /\ DeviceOwnsPending'
  BY <1>1 DEF QueueInv, Lives, LifeOf, Accepted, DeviceLimit, DeviceOwnsPending
<1>4. SequenceOrder' /\ HeadWorks' /\ NoStall' /\ StopCleared'
  BY <1>1, <1>2 DEF SequenceOrder, HeadWorks, NoStall, StopCleared, StoppingDevice, StoppingWaiting
<1>5. QED
  BY <1>3, <1>4 DEF QueueInv

\* The invariant holds at first.
LEMMA QueueInit == Init => QueueInv
<1> SUFFICES ASSUME Init PROVE QueueInv
  OBVIOUS
<1>1. Lives
  <2> SUFFICES ASSUME NEW r \in Request PROVE LifeOf(r)
    BY DEF Lives
  <2>1. PICK f \in SUBSET FencedStreams : req[r] = NewRequest(f)
    BY DEF Init
  <2>2. Fresh(req[r])
    BY <2>1 DEF Fresh, NewRequest
  <2>3. held = Request /\ Accepted = {} /\ ToSet(queuedRequests) = {}
    BY ToSetOfEmpty DEF Init, Accepted
  <2>4. QED
    BY <2>2, <2>3 DEF LifeOf
<1>2. DeviceLimit /\ SequenceOrder /\ HeadWorks /\ NoStall
  BY ConstantsAssumption DEF Init, DeviceLimit, SequenceOrder, HeadWorks, NoStall
<1>3. DeviceOwnsPending
  BY ToSetOfEmpty DEF Init, DeviceOwnsPending
<1>4. StopCleared
  BY DEF Init, StopCleared
<1>5. QED
  BY <1>1, <1>2, <1>3, <1>4 DEF QueueInv

\* Every step keeps the invariant of the queues.
LEMMA QueueInvariant ==
    ASSUME FirstStreamFaults, OrderInv, OrderInv', QueueInv, [Next]_vars
    PROVE  QueueInv'
<1>1. CASE Application
  <2>1. CASE \E r \in Request, f \in SUBSET FencedStreams : Reuse(r, f)
    BY <2>1, QueueReuse
  <2>2. CASE ~ \E r \in Request, f \in SUBSET FencedStreams : Reuse(r, f)
    <3>1. Untouched
      BY <1>1, <2>2 DEF Application, Acquire, AcquireReturn, Configure, ConfigureReturn, Start,
         StartReturn, Stop, StopInvoke, StopReturn, Release, ReleaseReturn, Return, Untouched, Alive, Idle
    <3>2. QED
      BY <3>1, QueueUntouched
  <2>3. QED
    BY <2>1, <2>2
<1>2. CASE QueueRequest
  <2>1. ASSUME NEW t \in Callers, QueueRequestPost(t) PROVE Untouched
    BY <2>1 DEF QueueRequestPost, Untouched, Alive
  <2>2. QED
    BY <1>2, <2>1, QueueUntouched, QueueCheck DEF QueueRequest
<1>3. CASE HandleMessage
  <2>1. ASSUME NEW op, HandleInvocation(op) PROVE Untouched
    BY <2>1 DEF HandleInvocation, Dispatch, Untouched, Alive
  <2>2. CASE HandleStart
    BY <2>2, QueueUntouched DEF HandleStart, Dispatch, Untouched, Alive
  <2>3. QED
    BY <1>3, <2>1, <2>2, QueueUntouched, QueueHandleRequest, QueueHandleStop DEF HandleMessage
<1>4. CASE Handler
  <2>1. ASSUME NEW r \in Request, StopDeviceBuffer(r) PROVE QueueInv'
    <3>1. /\ Alive /\ pc = "stopDevice" /\ stopStream \in Stream /\ r \in device[stopStream]
          /\ bufferReady(r, stopStream, TRUE)
          /\ UNCHANGED <<held, waitingRequests, stopRequests, queuedRequests, requestSequence, stopStream>>
      BY <2>1 DEF StopDeviceBuffer
    <3>2. QED
      BY <3>1, QueueBufferReady
  <2>2. QED
    BY <1>4, <2>1, QueueDoQueueRequest, QueueReturns, QueueComplete, QueueStopStream, QueueStopWaiting,
       QueueStopDone DEF Handler
<1>5. CASE Event
  <2>1. ASSUME NEW r \in Request, NEW s \in Stream, BufferReady(r, s) PROVE QueueInv'
    <3>1. /\ Alive /\ pc = "loop" /\ r \in device[s] /\ bufferReady(r, s, FALSE)
          /\ UNCHANGED <<held, waitingRequests, stopRequests, queuedRequests, requestSequence, stopStream>>
      BY <2>1 DEF BufferReady
    <3>2. QED
      BY <3>1, QueueBufferReady
  <2>2. CASE Disconnect
    BY <2>2, QueueUntouched DEF Disconnect, Untouched, Alive
  <2>3. QED
    BY <1>5, <2>1, <2>2, QueueFence DEF Event
<1>6. CASE UNCHANGED vars
  BY <1>6, QueueUntouched DEF Untouched, Alive
<1>7. QED
  BY <1>1, <1>2, <1>3, <1>4, <1>5, <1>6 DEF Next

\* A timer or a notifier belongs to a request that waits.
LEMMA EventsFollow == OnePlace /\ Lives => EventsOfWaiting
<1> SUFFICES ASSUME OnePlace, Lives, NEW r \in Request
             PROVE  /\ req[r].timer <=> req[r].notifiers # {}
                    /\ req[r].timer => r \in Accepted
  BY DEF EventsOfWaiting, Accepted
<1>1. LifeOf(r)
  BY DEF Lives
<1>2. QED
  BY <1>1 DEF LifeOf, Fresh, Done, Works, Waits

\* Both invariants hold at first.
LEMMA OrderAndQueueInit == Init => OrderInv /\ QueueInv
<1>1. Init => waitingRequests = <<>>
  BY DEF Init
<1>2. QED
  BY <1>1, PlaceInit, QueueInit DEF OrderInv

\* The pipeline handler's bookkeeping agrees with the hardware and with the events it
\* waits for: never more requests in the devices than they take, sequence numbers
\* without gaps, fence events only for requests that wait, and in each device exactly
\* the buffers of the requests that have not completed.  Whatever the callers, stop(),
\* a disconnection, fences, timeouts and errors do, as long as queueBuffer() fails
\* for no stream but the first.
THEOREM BookkeepingSound ==
    ASSUME FirstStreamFaults
    PROVE  Spec => []QueuesSound
<1>1. OrderInv /\ QueueInv /\ [Next]_vars => OrderInv' /\ QueueInv'
  BY OrderInvariant, QueueInvariant
<1>2. OrderInv /\ QueueInv => QueuesSound
  BY EventsFollow DEF QueuesSound, QueueInv, OrderInv, PlaceInv
<1>3. QED
  BY OrderAndQueueInit, <1>1, <1>2, PTL DEF Spec

\* No wake-up is lost: when the pipeline thread goes back to its event loop with
\* requests waiting, the device is full or the first of them is under a timer.
THEOREM NoRequestStalls ==
    ASSUME FirstStreamFaults
    PROVE  Spec => []NoStall
<1>1. OrderInv /\ QueueInv /\ [Next]_vars => OrderInv' /\ QueueInv'
  BY OrderInvariant, QueueInvariant
<1>2. QueueInv => NoStall
  BY DEF QueueInv
<1>3. QED
  BY OrderAndQueueInit, <1>1, <1>2, PTL DEF Spec

-----------------------------------------------------------------------------
(***************************************************************************)
(* The capture session.  Camera is used from one thread and the hardware    *)
(* stays plugged in; the runs QueueStopRace and DisconnectCompletion show    *)
(* what happens otherwise.  CallInv ties the state of the camera, the        *)
(* blocking invocation and the pipeline thread together.                     *)
(***************************************************************************)
OneThread == Callers \subseteq {App}

\* A blocking invocation is the last message, and the application waits for it.
Invoked == \A i \in 1 .. Len(msgs) : msgs[i].op # "queueRequest" => i = Len(msgs) /\ msgs[i].op = call

StateOfCall ==
    /\ call = "none" => state # "Stopping"
    /\ call = "acquire" => state = "Available"
    /\ call \in {"configure", "release"} => state \in {"Acquired", "Configured"}
    /\ call = "start" => state = "Configured"
    /\ call = "stopping" => state = "Running"
    /\ call = "stop" => state = "Stopping" /\ reply # "error"

CallInv ==
    /\ Invoked /\ StateOfCall
    /\ \A t \in Callers : caller[t] # NoRequest => call = "none"
    /\ call \in {"none", "stopping"} => reply = "none"
    /\ InStop => call = "stop" /\ reply = "none"
    /\ InStop \/ reply # "none" => msgs = <<>>

\* Nothing is left over: all the requests are back and the handler is idle.
Quiet == held = Request /\ requestSequence = 0 /\ pc = "loop" /\ \A s \in Stream : device[s] = {}

Over == ~InSession \/ (call = "stop" /\ reply # "none")

Capturing == \/ state = "Running" \/ (call = "start" /\ reply = "ok")
             \/ (call = "stop" /\ reply = "none" /\ ~InStop)

\* The inductive invariant of a session.
SessionInv == Alive /\ CallInv /\ (Over => Quiet) /\ (Capturing => imported = Stream)

\* Between blocking calls only requests are in messages.
LEMMA OnlyRequests ==
    ASSUME TypeOK, CallInv, call \in {"none", "stopping"}
    PROVE  /\ \A i \in 1 .. Len(msgs) : msgs[i].op = "queueRequest"
           /\ ~InStop /\ reply = "none"
<1>1. \A i \in 1 .. Len(msgs) : msgs[i] \in Message
  BY DEF TypeOK
<1>2. \A m \in Message : m.op \in Invocation \cup {"queueRequest"}
  BY DEF Message
<1>3. QED
  BY <1>1, <1>2 DEF CallInv, Invoked, Invocation

\* A blocking call puts its message behind them.
LEMMA InvokedBlocking ==
    ASSUME TypeOK, CallInv, NEW op, call \in {"none", "stopping"}, Invoke(op)
    PROVE  Invoked'
<1>1. msgs \in Seq(Message) /\ Len(msgs) \in Nat
  BY DEF TypeOK
<1>2. /\ Len(msgs') = Len(msgs) + 1 /\ msgs'[Len(msgs) + 1].op = op /\ call' = op
      /\ \A i \in 1 .. Len(msgs) : msgs'[i] = msgs[i]
  BY <1>1 DEF Invoke
<1>3. \A i \in 1 .. Len(msgs) + 1 : i \in 1 .. Len(msgs) \/ i = Len(msgs) + 1
  BY <1>1
<1>4. QED
  BY <1>2, <1>3, OnlyRequests DEF Invoked

\* A request posted keeps that form.
LEMMA InvokedPost ==
    ASSUME TypeOK, CallInv, NEW t \in Callers, call = "none", QueueRequestPost(t)
    PROVE  Invoked'
<1>1. msgs \in Seq(Message) /\ Len(msgs) \in Nat
  BY DEF TypeOK
<1>2. /\ Len(msgs') = Len(msgs) + 1 /\ msgs'[Len(msgs) + 1].op = "queueRequest"
      /\ \A i \in 1 .. Len(msgs) : msgs'[i] = msgs[i]
  BY <1>1 DEF QueueRequestPost
<1>3. \A i \in 1 .. Len(msgs) + 1 : i \in 1 .. Len(msgs) \/ i = Len(msgs) + 1
  BY <1>1
<1>4. QED
  BY <1>2, <1>3, OnlyRequests DEF Invoked

\* The pipeline thread takes a message; an invocation is the last one.
LEMMA TakeInvocation ==
    ASSUME TypeOK, CallInv, NEW op, Dispatch(op)
    PROVE  /\ UNCHANGED call => Invoked'
           /\ ~InStop /\ reply = "none" /\ msgs # <<>>
           /\ op # "queueRequest" => call = op /\ msgs' = <<>>
<1>1. /\ msgs \in Seq(Message) /\ msgs # <<>> /\ msgs' = Tail(msgs) /\ Len(msgs) \in Nat
      /\ Head(msgs).op = op
  BY DEF TypeOK, Dispatch
<1>2. /\ Len(msgs) > 0 /\ Head(msgs) = msgs[1] /\ Len(msgs') = Len(msgs) - 1
      /\ \A i \in 1 .. Len(msgs) - 1 : msgs'[i] = msgs[i + 1]
  BY <1>1
<1>3. ~InStop /\ reply = "none"
  BY <1>1 DEF CallInv
<1>4. op # "queueRequest" => call = op /\ msgs' = <<>>
  <2> SUFFICES ASSUME op # "queueRequest" PROVE call = op /\ Len(msgs) = 1
    BY <1>1, <1>2
  <2>1. 1 \in 1 .. Len(msgs)
    BY <1>1, <1>2
  <2>2. QED
    BY <1>1, <1>2, <2>1 DEF CallInv, Invoked
<1>5. ASSUME UNCHANGED call PROVE Invoked'
  <2> SUFFICES ASSUME NEW i \in 1 .. Len(msgs) - 1, msgs'[i].op # "queueRequest"
               PROVE  i = Len(msgs) - 1 /\ msgs'[i].op = call
    BY <1>2, <1>5 DEF Invoked
  <2>1. i + 1 \in 1 .. Len(msgs) /\ msgs'[i] = msgs[i + 1]
    BY <1>1, <1>2
  <2>2. i + 1 = Len(msgs) /\ msgs[i + 1].op = call
    BY <2>1 DEF CallInv, Invoked
  <2>3. QED
    BY <1>1, <2>1, <2>2
<1>6. QED
  BY <1>1, <1>3, <1>4, <1>5

\* Every step but the two ends of stop() leaves the pipeline thread in or out of stop().
LEMMA StopKept ==
    ASSUME TypeOK, Next, ~HandleStop, ~StopDone
    PROVE  InStop' <=> InStop
<1> USE DEF InStop
<1>1. CASE Application \/ QueueRequest
  BY <1>1 DEF Application, Acquire, AcquireReturn, Configure, ConfigureReturn, Start, StartReturn,
              Stop, StopInvoke, StopReturn, Release, ReleaseReturn, Reuse, Return, QueueRequest,
              QueueRequestCheck, QueueRequestPost
<1>2. CASE HandleMessage
  BY <1>2 DEF HandleMessage, HandleInvocation, HandleStart, HandleQueueRequest, Dispatch
<1>3. CASE Handler
  <2>1. ret \in {"loop", "stopDevice", "stopWaiting"}
    BY DEF TypeOK
  <2>2. CASE DoQueueRequest \/ StopWaitingRequest
    BY <2>2 DEF DoQueueRequest, StopWaitingRequest, doQueueRequest
  <2>3. CASE ~DoQueueRequest /\ ~StopWaitingRequest
    BY <1>3, <2>1, <2>3 DEF Handler, DoQueueReturn, RequestComplete, CompleteReturn,
                            StopDeviceBuffer, bufferReady, StopDeviceStream
  <2>4. QED
    BY <2>2, <2>3
<1>4. CASE Event
  BY <1>4 DEF Event, Timeout, NotifierActivated, BufferReady, bufferReady, Disconnect
<1>5. QED
  BY <1>1, <1>2, <1>3, <1>4 DEF Next

\* Every step keeps the phase of the application's call.
LEMMA CallSteps ==
    ASSUME OneThread, ~Hotplug, TypeOK, CallInv, [Next]_vars
    PROVE  CallInv'
<1>1. CASE Acquire \/ Configure \/ Start \/ Release \/ StopInvoke
  <2>1. PICK op \in Invocation : Invoke(op) /\ StateOfCall'
    BY <1>1 DEF Acquire, Configure, Start, Release, StopInvoke, Invocation, StateOfCall, Invoke, CallInv
  <2>2. call \in {"none", "stopping"} /\ UNCHANGED <<caller, reply, pc, ret>>
    BY <1>1 DEF Acquire, Configure, Start, Release, StopInvoke, Idle
  <2>3. \A t \in Callers : caller[t] = NoRequest
    BY <1>1 DEF Acquire, Configure, Start, Release, StopInvoke, Idle, OneThread, CallInv
  <2>4. Invoked' /\ ~InStop /\ reply = "none"
    BY <2>1, <2>2, InvokedBlocking, OnlyRequests
  <2>5. QED
    BY <2>1, <2>2, <2>3, <2>4 DEF CallInv, InStop
<1>2. CASE Stop
  <2>1. /\ call = "none" /\ call' = "stopping" /\ state = "Running"
        /\ UNCHANGED <<state, caller, reply, pc, ret, msgs>>
    BY <1>2 DEF Stop, Idle
  <2>2. \A t \in Callers : caller[t] = NoRequest
    BY <1>2 DEF Stop, Idle, OneThread
  <2>3. Invoked' /\ ~InStop /\ reply = "none"
    BY <2>1, OnlyRequests DEF Invoked
  <2>4. QED
    BY <2>1, <2>2, <2>3 DEF CallInv, InStop, StateOfCall
<1>3. CASE AcquireReturn \/ ConfigureReturn \/ StartReturn \/ StopReturn \/ ReleaseReturn
  <2>1. /\ reply # "none" /\ call' = "none" /\ reply' = "none"
        /\ UNCHANGED <<caller, pc, ret, msgs>>
    BY <1>3 DEF AcquireReturn, ConfigureReturn, StartReturn, StopReturn, ReleaseReturn, Return
  <2>2. state' # "Stopping"
    BY <1>3 DEF AcquireReturn, ConfigureReturn, StartReturn, StopReturn, ReleaseReturn, Return,
                CallInv, StateOfCall, TypeOK
  <2>3. msgs = <<>> /\ ~InStop
    BY <2>1 DEF CallInv
  <2>4. QED
    BY <2>1, <2>2, <2>3 DEF CallInv, InStop, StateOfCall, Invoked
<1>4. ASSUME NEW r, NEW f, Reuse(r, f) PROVE CallInv'
  BY <1>4 DEF Reuse, CallInv, Invoked, StateOfCall, InStop
<1>5. ASSUME NEW t \in Callers, NEW r \in Request, QueueRequestCheck(t, r) PROVE CallInv'
  <2>1. call = "none" /\ UNCHANGED <<state, call, reply, pc, ret, msgs>>
    BY <1>5 DEF QueueRequestCheck, OneThread
  <2>2. QED
    BY <2>1 DEF CallInv, Invoked, StateOfCall, InStop
<1>6. ASSUME NEW t \in Callers, QueueRequestPost(t) PROVE CallInv'
  <2>1. call = "none" /\ UNCHANGED <<state, call, reply, pc, ret>>
    BY <1>6 DEF QueueRequestPost, CallInv
  <2>2. Invoked' /\ ~InStop /\ reply = "none"
    BY <1>6, <2>1, InvokedPost, OnlyRequests
  <2>3. QED
    BY <2>1, <2>2 DEF CallInv, StateOfCall, InStop
<1>7. ASSUME NEW op \in {"acquire", "release", "configure"}, HandleInvocation(op) PROVE CallInv'
  <2>1. Dispatch(op) /\ UNCHANGED <<state, call, caller, pc, ret>>
    BY <1>7 DEF HandleInvocation
  <2>2. Invoked' /\ ~InStop /\ call = op /\ msgs' = <<>>
    BY <2>1, TakeInvocation
  <2>3. QED
    BY <2>1, <2>2 DEF CallInv, StateOfCall, InStop
<1>8. CASE HandleStart
  <2>1. Dispatch("start") /\ UNCHANGED <<state, call, caller, pc, ret>>
    BY <1>8 DEF HandleStart
  <2>2. Invoked' /\ ~InStop /\ call = "start" /\ msgs' = <<>>
    BY <2>1, TakeInvocation
  <2>3. QED
    BY <2>1, <2>2 DEF CallInv, StateOfCall, InStop
<1>9. CASE HandleStop
  <2>1. Dispatch("stop") /\ UNCHANGED <<state, call, caller, reply>>
    BY <1>9 DEF HandleStop
  <2>2. Invoked' /\ reply = "none" /\ call = "stop" /\ msgs' = <<>>
    BY <2>1, TakeInvocation
  <2>3. QED
    BY <2>1, <2>2 DEF CallInv, StateOfCall
<1>10. CASE HandleQueueRequest
  <2>1. Dispatch("queueRequest") /\ UNCHANGED <<state, call, caller, reply>>
    BY <1>10 DEF HandleQueueRequest
  <2>2. Invoked' /\ reply = "none" /\ ~InStop
    BY <2>1, TakeInvocation
  <2>3. ~InStop'
    BY <1>10 DEF HandleQueueRequest, InStop
  <2>4. QED
    BY <2>1, <2>2, <2>3 DEF CallInv, StateOfCall
<1>11. CASE StopDone
  <2>1. /\ reply' = "ok" /\ pc = "stopWaiting" /\ pc' = "loop"
        /\ UNCHANGED <<state, call, caller, msgs>>
    BY <1>11 DEF StopDone
  <2>2. InStop /\ ~InStop'
    BY <2>1 DEF InStop
  <2>3. QED
    BY <2>1, <2>2 DEF CallInv, Invoked, StateOfCall
<1>12. CASE \/ Event
            \/ Handler /\ ~StopDone
  <2>1. UNCHANGED <<state, call, caller, msgs, reply>>
    BY <1>12 DEF Event, Handler, Timeout, NotifierActivated, BufferReady, Disconnect, DoQueueRequest,
                 DoQueueReturn, RequestComplete, CompleteReturn, StopDeviceBuffer, StopDeviceStream,
                 StopWaitingRequest
  <2>2. ~HandleStop
    BY <2>1 DEF HandleStop, Dispatch, TypeOK
  <2>3. ~StopDone
    BY <1>12, <2>1 DEF StopDone, Event, Timeout, NotifierActivated, BufferReady, Disconnect
  <2>4. InStop' <=> InStop
    BY <1>12, <2>2, <2>3, StopKept DEF Next
  <2>5. QED
    BY <2>1, <2>4 DEF CallInv, Invoked, StateOfCall
<1>13. CASE UNCHANGED vars
  BY <1>13 DEF CallInv, Invoked, StateOfCall, InStop
<1>14. QED
  BY <1>1, <1>2, <1>3, <1>4, <1>5, <1>6, <1>7, <1>8, <1>9, <1>10, <1>11, <1>12, <1>13
     DEF Next, Application, QueueRequest, HandleMessage

\* When nothing is left over no request is on its way and no event can come.
LEMMA QuietEmpty ==
    ASSUME OrderInv, QueueInv, SessionInv, Over
    PROVE  /\ Calling = {} /\ Posted = {} /\ ToSet(waitingRequests) = {}
           /\ queuedRequests = <<>> /\ requestSequence = 0
           /\ pc = "loop" /\ ~InStop
           /\ \A r \in Request : ~req[r].timer /\ req[r].notifiers = {}
<1>1. TypeOK /\ OnePlace /\ held = Request /\ requestSequence = 0 /\ pc = "loop"
  BY DEF OrderInv, PlaceInv, SessionInv, Quiet
<1>2. ToSet(queuedRequests) \subseteq Request /\ (queuedRequests # <<>> => ToSet(queuedRequests) # {})
  BY <1>1, InQueue
<1>3. ToSet(waitingRequests) \subseteq Request /\ ToSet(stopRequests) \subseteq Request
  BY <1>1 DEF OnePlace, Partition
<1>4. /\ Calling = {} /\ Posted = {} /\ ToSet(waitingRequests) = {} /\ Accepted = {}
      /\ ToSet(queuedRequests) = {}
  BY <1>1, <1>2, <1>3 DEF OnePlace, Partition, Accepted
<1>5. \A r \in Request : ~req[r].timer /\ req[r].notifiers = {}
  BY <1>1 DEF QueueInv, Lives, LifeOf, Fresh, Done
<1>6. QED
  BY <1>1, <1>2, <1>4, <1>5 DEF InStop

\* A step that starts from quiet stays quiet or leaves the end of the session behind.
LEMMA QuietSteps ==
    ASSUME OneThread, ~Hotplug, OrderInv, QueueInv, SessionInv, [Next]_vars, Over'
    PROVE  Quiet'
<1>1. CASE Over
  <2>1. Quiet /\ TypeOK /\ OnePlace /\ Alive
    BY <1>1 DEF SessionInv, OrderInv, PlaceInv
  <2>2. /\ Calling = {} /\ Posted = {} /\ pc = "loop" /\ ~InStop
        /\ \A r \in Request : ~req[r].timer /\ req[r].notifiers = {}
    BY <1>1, QuietEmpty
  <2>3. CASE Application \/ UNCHANGED vars
    BY <2>1, <2>3
       DEF Application, Acquire, AcquireReturn, Configure, ConfigureReturn, Start, StartReturn, Stop,
           StopInvoke, StopReturn, Release, ReleaseReturn, Reuse, Return, Quiet
  <2>4. CASE QueueRequest
    <3>1. ASSUME NEW t \in Callers, NEW r \in Request, QueueRequestCheck(t, r) PROVE FALSE
      <4>1. call = "none" /\ state = "Running"
        BY <3>1 DEF QueueRequestCheck, OneThread
      <4>2. QED
        BY <1>1, <4>1 DEF Over, InSession
    <3>2. QED
      BY <2>1, <2>4, <3>1 DEF QueueRequest, QueueRequestPost, Quiet
  <2>5. CASE HandleMessage
    <3>1. ~HandleQueueRequest
      <4> SUFFICES ASSUME HandleQueueRequest PROVE FALSE
        OBVIOUS
      <4>1. /\ Dispatch("queueRequest") /\ MsgsApart /\ msgs # <<>> /\ msgs' = Tail(msgs)
        BY <2>1 DEF HandleQueueRequest, Dispatch, OnePlace, MsgsApart
      <4>2. Head(msgs).request \in Request
        BY <2>1, <4>1, DispatchType
      <4>3. QED
        BY <2>1, <2>2, <4>1, <4>2, TakeMessage, ConstantsAssumption
    <3>2. ~HandleStop
      <4> SUFFICES ASSUME HandleStop PROVE FALSE
        OBVIOUS
      <4>1. Dispatch("stop")
        BY DEF HandleStop
      <4>2. call = "stop" /\ reply = "none"
        BY <2>1, <4>1, TakeInvocation DEF SessionInv
      <4>3. QED
        BY <1>1, <4>2 DEF Over, InSession, SessionInv, CallInv, StateOfCall
    <3>3. QED
      BY <2>1, <2>5, <3>1, <3>2 DEF HandleMessage, HandleInvocation, HandleStart, Quiet
  <2>6. CASE Handler
    BY <2>2, <2>6 DEF Handler, DoQueueRequest, DoQueueReturn, RequestComplete, CompleteReturn,
                      StopDeviceBuffer, StopDeviceStream, StopWaitingRequest, StopDone
  <2>7. CASE Event
    BY <2>1, <2>2, <2>7 DEF Event, Timeout, NotifierActivated, BufferReady, Disconnect, Quiet
  <2>8. QED
    BY <2>3, <2>4, <2>5, <2>6, <2>7 DEF Next
\* stop() ends: it has drained the devices and returned every request.
<1>2. CASE StopDone
  <2>1. /\ TypeOK /\ OnePlace /\ Alive /\ pc = "stopWaiting" /\ stopRequests = <<>>
        /\ requestSequence' = 0 /\ pc' = "loop" /\ UNCHANGED <<held, device>>
    BY <1>2 DEF StopDone, OrderInv, PlaceInv
  <2>2. InStop /\ waitingRequests = <<>> /\ queuedRequests = <<>>
    BY <2>1, Drained DEF OrderInv, InStop
  <2>3. Calling = {} /\ msgs = <<>>
    BY <2>2 DEF SessionInv, CallInv, Calling
  <2>4. Posted = {}
    BY <2>3 DEF Posted
  <2>5. held = Request
    BY <2>1, <2>2, <2>3, <2>4, ToSetOfEmpty DEF OnePlace, Partition
  <2>6. \A s \in Stream : device[s] = {}
    BY <2>1 DEF QueueInv, StopCleared, StoppingWaiting
  <2>7. QED
    BY <2>1, <2>5, <2>6 DEF Quiet
<1>3. CASE ~Over /\ ~StopDone
  <2>1. state \in {"Running", "Stopping"} /\ ~(call = "stop" /\ reply # "none")
    BY <1>3 DEF Over, InSession
  <2>2. CASE Application
    <3>1. CallInv /\ StateOfCall
      BY DEF SessionInv, CallInv
    <3>2. QED
      BY <2>1, <2>2, <3>1
         DEF Application, Acquire, AcquireReturn, Configure, ConfigureReturn, Start, StartReturn, Stop,
             StopInvoke, StopReturn, Release, ReleaseReturn, Reuse, Return, Over, InSession, StateOfCall,
             Invoke, CallInv
  <2>3. CASE QueueRequest \/ UNCHANGED vars
    BY <2>1, <2>3 DEF QueueRequest, QueueRequestCheck, QueueRequestPost, Over, InSession
  <2>4. CASE HandleMessage
    <3>1. ASSUME NEW op \in {"acquire", "release", "configure"}, HandleInvocation(op) PROVE FALSE
      <4>1. TypeOK /\ CallInv /\ Dispatch(op)
        BY <3>1 DEF HandleInvocation, SessionInv, OrderInv, PlaceInv
      <4>2. call = op
        BY <4>1, TakeInvocation
      <4>3. QED
        BY <2>1, <4>1, <4>2 DEF CallInv, StateOfCall
    <3>2. ASSUME HandleStart PROVE FALSE
      <4>1. TypeOK /\ CallInv /\ Dispatch("start")
        BY <3>2 DEF HandleStart, SessionInv, OrderInv, PlaceInv
      <4>2. call = "start"
        BY <4>1, TakeInvocation
      <4>3. QED
        BY <2>1, <4>1, <4>2 DEF CallInv, StateOfCall
    <3>3. QED
      BY <2>1, <2>4, <3>1, <3>2 DEF HandleMessage, HandleQueueRequest, HandleStop, Over, InSession
  <2>5. CASE Handler \/ Event
    BY <1>3, <2>1, <2>5 DEF Handler, Event, Timeout, NotifierActivated, BufferReady, Disconnect,
       DoQueueRequest, DoQueueReturn, RequestComplete, CompleteReturn, StopDeviceBuffer,
       StopDeviceStream, StopWaitingRequest, Over, InSession
  <2>6. QED
    BY <2>2, <2>3, <2>4, <2>5 DEF Next
<1>4. QED
  BY <1>1, <1>2, <1>3

\* The devices keep their buffers from a successful start() to the end of stop().
LEMMA ImportedSteps ==
    ASSUME ~Hotplug, TypeOK, CallInv, Capturing => imported = Stream, [Next]_vars, Capturing'
    PROVE  imported' = Stream
<1>1. CASE Application
  <2>1. UNCHANGED imported /\ UNCHANGED <<pc, ret>>
    BY <1>1 DEF Application, Acquire, AcquireReturn, Configure, ConfigureReturn, Start, StartReturn,
                Stop, StopInvoke, StopReturn, Release, ReleaseReturn, Reuse, Return
  <2>2. Capturing
    <3>1. StateOfCall /\ (call \in {"none", "stopping"} => reply = "none")
      BY DEF CallInv
    <3>2. QED
      BY <1>1, <3>1
         DEF Application, Acquire, AcquireReturn, Configure, ConfigureReturn, Start, StartReturn, Stop,
             StopInvoke, StopReturn, Release, ReleaseReturn, Reuse, Return, Invoke, Capturing,
             StateOfCall, InStop, Idle
  <2>3. QED
    BY <2>1, <2>2
<1>2. CASE HandleStart
  <2>1. Dispatch("start") /\ UNCHANGED <<state, call>>
    BY <1>2 DEF HandleStart
  <2>2. call = "start"
    BY <2>1, TakeInvocation
  <2>3. state' # "Running" /\ call' # "stop"
    BY <2>1, <2>2 DEF CallInv, StateOfCall
  <2>4. reply' = "ok"
    BY <2>3 DEF Capturing
  <2>5. QED
    BY <1>2, <2>4 DEF HandleStart
<1>3. ASSUME NEW op \in {"acquire", "release", "configure"}, HandleInvocation(op)
      PROVE  imported' = Stream
  <2>1. Dispatch(op) /\ UNCHANGED <<state, call, imported>>
    BY <1>3 DEF HandleInvocation
  <2>2. call = op
    BY <2>1, TakeInvocation
  <2>3. QED
    BY <2>1, <2>2 DEF Capturing
<1>4. CASE HandleStop
  BY <1>4 DEF HandleStop, Capturing, InStop, TypeOK
<1>5. CASE StopDone
  BY <1>5 DEF StopDone, Capturing, CallInv, StateOfCall, InStop
<1>6. CASE StopDeviceStream
  <2>1. InStop /\ InStop' /\ UNCHANGED <<state, call, reply>>
    BY <1>6 DEF StopDeviceStream, InStop
  <2>2. QED
    BY <2>1 DEF Capturing, CallInv, StateOfCall
<1>7. CASE /\ QueueRequest \/ HandleQueueRequest \/ Handler \/ Event
           /\ ~HandleStop /\ ~StopDone /\ ~StopDeviceStream
  <2>1. UNCHANGED <<state, call, reply, imported>>
    BY <1>7 DEF QueueRequest, QueueRequestCheck, QueueRequestPost, HandleQueueRequest, Handler, Event,
                Timeout, NotifierActivated, BufferReady, Disconnect, DoQueueRequest, DoQueueReturn,
                RequestComplete, CompleteReturn, StopDeviceBuffer, StopWaitingRequest
  <2>2. InStop' <=> InStop
    BY <1>7, StopKept DEF Next, HandleMessage
  <2>3. QED
    BY <2>1, <2>2 DEF Capturing
<1>8. CASE UNCHANGED vars
  BY <1>8 DEF Capturing, InStop
<1>9. QED
  BY <1>1, <1>2, <1>3, <1>4, <1>5, <1>6, <1>7, <1>8 DEF Next, HandleMessage

\* doQueueRequest() is called in a session, and while its devices have buffers.
LEMMA AliveDoQueue ==
    ASSUME TypeOK, Alive, NEW r \in Request, NEW q \in RequestPrivate, Ready(q), doQueueRequest(r, q),
           ~q.cancelled => imported = Stream
    PROVE  Alive'
<1> DEFINE p == [q EXCEPT !.sequence = requestSequence]
<1>1. p.status = "Pending" /\ p.cancelled = q.cancelled /\ (q.cancelled => p.pending = {})
  BY DEF Ready, RequestPrivate
<1> HIDE DEF p
<1>2. CASE q.cancelled
  <2>1. fatal' = IF p.status # "Pending" THEN "complete: status() == RequestPending"
                 ELSE IF hasPendingBuffers(p) THEN "complete: !hasPendingBuffers()" ELSE fatal
    BY <1>1, <1>2 DEF doQueueRequest, p
  <2>2. QED
    BY <1>1, <1>2, <2>1 DEF hasPendingBuffers, Alive
<1>3. CASE ~q.cancelled
  <2>1. \/ UNCHANGED fatal
        \/ fatal' = IF p.status # "Pending" THEN "cancel: status() == RequestPending" ELSE fatal
    BY <1>1, <1>3 DEF doQueueRequest, p
  <2>2. QED
    BY <1>1, <2>1 DEF Alive
<1>4. QED
  BY <1>2, <1>3

\* No step reaches an assertion that fails.
LEMMA AliveSteps ==
    ASSUME FirstStreamFaults, ~Hotplug, OrderInv, QueueInv, SessionInv, [Next]_vars
    PROVE  Alive'
<1>1. TypeOK /\ OnePlace /\ Alive /\ CallInv /\ (InStop => waitingRequests = <<>>)
      /\ \A r \in Request : req[r] \in RequestPrivate /\ LifeOf(r)
  BY DEF OrderInv, PlaceInv, SessionInv, TypeOK, QueueInv, Lives
<1>2. CASE Application
  <2>1. CASE Start
    <3>1. Over
      BY <2>1 DEF Start, Over, InSession
    <3>2. QED
      BY <1>1, <2>1, <3>1, QuietEmpty DEF Start, Alive
  <2>2. CASE StopReturn
    <3>1. Over
      BY <2>2 DEF StopReturn, Return, Over
    <3>2. QED
      BY <1>1, <2>2, <3>1, QuietEmpty DEF StopReturn, Alive
  <2>3. CASE ~Start /\ ~StopReturn
    BY <1>1, <1>2, <2>3 DEF Application, Acquire, AcquireReturn, Configure, ConfigureReturn,
       StartReturn, Stop, StopInvoke, Release, ReleaseReturn, Reuse, Alive
  <2>4. QED
    BY <2>1, <2>2, <2>3
<1>3. CASE QueueRequest \/ UNCHANGED vars
  BY <1>1, <1>3 DEF QueueRequest, QueueRequestCheck, QueueRequestPost, Alive
<1>4. CASE HandleMessage
  <2>1. CASE HandleQueueRequest
    <3>1. Dispatch("queueRequest") /\ MsgsApart /\ msgs # <<>> /\ msgs' = Tail(msgs)
      BY <1>1, <2>1 DEF HandleQueueRequest, Dispatch, OnePlace, MsgsApart
    <3>2. PICK r \in Request : r = Head(msgs).request
      BY <1>1, <3>1, DispatchType
    <3>3. r \in Posted
      BY <1>1, <3>1, <3>2, TakeMessage, ConstantsAssumption
    <3>4. Fresh(req[r])
      BY <1>1, <3>3, PlacesApart DEF LifeOf
    <3>5. fatal' = IF req[r].notifiers = {} THEN fatal ELSE "prepare: inserted"
      BY <2>1, <3>2 DEF HandleQueueRequest
    <3>6. QED
      BY <1>1, <3>4, <3>5 DEF Fresh, Alive
  <2>2. CASE ~HandleQueueRequest
    BY <1>1, <1>4, <2>2 DEF HandleMessage, HandleInvocation, HandleStart, HandleStop, Alive
  <2>3. QED
    BY <2>1, <2>2
\* The device returns a buffer that is pending in a request it works on.
<1>5. ASSUME NEW r \in Request, NEW s \in Stream, NEW c \in BOOLEAN, bufferReady(r, s, c),
             r \in device[s]
      PROVE  Alive'
  <2>1. r \in ToSet(queuedRequests) /\ req[r].status = "Pending" /\ s \in req[r].pending
    BY <1>1, <1>5 DEF QueueInv, DeviceOwnsPending
  <2>2. Works(req[r])
    BY <1>1, <2>1 DEF LifeOf, Done
  <2>3. completeBuffer(req[r], s, c).status = "Pending"
    BY <1>1, <2>1, <2>2, LifeInDevice
  <2>4. QED
    BY <1>1, <1>5, <2>1, <2>3 DEF bufferReady, Alive
<1>6. CASE Event
  <2>1. ASSUME NEW r \in Request, Timeout(r) PROVE Alive'
    <3>1. req[r].timer
      BY <2>1 DEF Timeout
    <3>2. Waits(req[r])
      BY <1>1, <3>1 DEF LifeOf, Fresh, Done, Works
    <3>3. QED
      BY <1>1, <2>1, <3>1, <3>2 DEF Timeout, Waits, Alive
  <2>2. QED
    BY <1>1, <1>5, <1>6, <2>1 DEF Event, NotifierActivated, BufferReady, Disconnect, Alive
<1>7. CASE DoQueueRequest
  <2>1. /\ pc = "doQueue" /\ waitingRequests # <<>> /\ req[Head(waitingRequests)].prepared
        /\ doQueueRequest(Head(waitingRequests), req[Head(waitingRequests)])
    BY <1>7 DEF DoQueueRequest, CanQueue
  <2>2. PICK r \in Request : r = Head(waitingRequests)
    BY <1>1, <2>1, HeadWaits
  <2>3. Waits(req[r])
    BY <1>1, <2>1, <2>2, HeadWaits DEF LifeOf
  <2>4. ~Over /\ ~InStop
    BY <1>1, <2>1 DEF SessionInv, Quiet
  <2>5. imported = Stream
    BY <1>1, <2>4 DEF SessionInv, Capturing, Over, InSession, CallInv, StateOfCall, TypeOK, Invocation
  <2>6. Ready(req[r])
    BY <1>1, <2>1, <2>2, <2>3, LifeReady
  <2>7. QED
    BY <1>1, <2>1, <2>2, <2>5, <2>6, AliveDoQueue
<1>8. CASE StopWaitingRequest
  <2>1. /\ stopRequests # <<>>
        /\ doQueueRequest(Head(stopRequests), doCancelRequest(req[Head(stopRequests)]))
    BY <1>8 DEF StopWaitingRequest
  <2>2. Head(stopRequests) \in Request /\ Head(stopRequests) \in ToSet(stopRequests)
    BY <1>1, <2>1, HeadInToSet DEF TypeOK
  <2>3. PICK r \in Request : r = Head(stopRequests)
    BY <2>2
  <2>4. Waits(req[r])
    BY <1>1, <2>2, <2>3 DEF LifeOf, Accepted
  <2>5. /\ Ready(doCancelRequest(req[r])) /\ doCancelRequest(req[r]).cancelled
        /\ doCancelRequest(req[r]) \in RequestPrivate
    BY <1>1, <2>4, LifeReady
  <2>6. QED
    BY <1>1, <2>1, <2>3, <2>5, AliveDoQueue
<1>9. CASE RequestComplete
  <2>1. /\ queuedRequests # <<>> /\ pc = "complete" /\ req[Head(queuedRequests)].status # "Pending"
    BY <1>9 DEF RequestComplete, CanComplete
  <2>2. Done(req[Head(queuedRequests)])
    BY <1>1, <2>1, InQueue DEF LifeOf, Works
  <2>3. ~Over
    BY <2>1 DEF SessionInv, Quiet
  <2>4. QED
    BY <1>1, <1>9, <2>2, <2>3 DEF RequestComplete, Done, hasPendingBuffers, Over, InSession, Alive
<1>10. CASE StopDone
  <2>1. pc = "stopWaiting"
    BY <1>10 DEF StopDone
  <2>2. queuedRequests = <<>> /\ waitingRequests = <<>>
    BY <1>1, <2>1, Drained DEF InStop
  <2>3. QED
    BY <1>1, <1>10, <2>2 DEF StopDone, Alive
<1>11. ASSUME NEW r \in Request, StopDeviceBuffer(r) PROVE Alive'
  BY <1>5, <1>11 DEF StopDeviceBuffer
<1>12. CASE DoQueueReturn \/ CompleteReturn \/ StopDeviceStream
  BY <1>1, <1>12 DEF DoQueueReturn, CompleteReturn, StopDeviceStream, Alive
<1>13. QED
  BY <1>2, <1>3, <1>4, <1>6, <1>7, <1>8, <1>9, <1>10, <1>11, <1>12 DEF Next, Handler

\* The invariant holds at first.
LEMMA SessionInit == Init => SessionInv
<1> SUFFICES ASSUME Init PROVE SessionInv
  OBVIOUS
<1>1. Alive /\ CallInv
  BY DEF Init, Alive, CallInv, Invoked, StateOfCall, InStop
<1>2. Quiet /\ ~Capturing
  BY DEF Init, Quiet, Capturing
<1>3. QED
  BY <1>1, <1>2 DEF SessionInv

\* The three invariants together are inductive.
LEMMA SessionInvariant ==
    ASSUME FirstStreamFaults, OneThread, ~Hotplug
    PROVE  Spec => [](OrderInv /\ QueueInv /\ SessionInv)
<1>1. OrderInv /\ QueueInv /\ SessionInv /\ [Next]_vars => (OrderInv /\ QueueInv /\ SessionInv)'
  <2> SUFFICES ASSUME OrderInv, QueueInv, SessionInv, [Next]_vars
               PROVE  OrderInv' /\ QueueInv' /\ SessionInv'
    OBVIOUS
  <2>1. TypeOK /\ CallInv /\ (Capturing => imported = Stream)
    BY DEF OrderInv, PlaceInv, SessionInv
  <2>2. OrderInv'
    BY OrderInvariant
  <2>3. QueueInv'
    BY <2>2, QueueInvariant
  <2>4. Alive' /\ CallInv'
    BY <2>1, AliveSteps, CallSteps
  <2>5. Over' => Quiet'
    BY QuietSteps
  <2>6. Capturing' => imported' = Stream
    BY <2>1, ImportedSteps
  <2>7. QED
    BY <2>2, <2>3, <2>4, <2>5, <2>6 DEF SessionInv
<1>2. QED
  BY <1>1, OrderAndQueueInit, SessionInit, PTL DEF Spec

\* No assertion of Camera, PipelineHandler and Request can fail, and
\* requestComplete() is never reached outside a session, for any number of
\* requests and streams: when one thread uses the camera, the hardware stays
\* plugged in, and a capture device refuses a buffer only for the first stream.
THEOREM NoAssertionFails ==
    ASSUME FirstStreamFaults, OneThread, ~Hotplug
    PROVE  Spec => []NoFatal
<1>1. SessionInv => NoFatal
  BY DEF SessionInv, NoFatal, Alive
<1>2. QED
  BY <1>1, SessionInvariant, PTL

\* stop() leaves nothing behind: in every state that is neither Running nor
\* Stopping the application has all its requests, the devices hold no buffer, and
\* the next session numbers its requests from 0.
THEOREM SessionsEndClean ==
    ASSUME FirstStreamFaults, OneThread, ~Hotplug
    PROVE  Spec => []CleanBetweenSessions
<1>1. SessionInv => CleanBetweenSessions
  BY DEF SessionInv, CleanBetweenSessions, Over, Quiet
<1>2. QED
  BY <1>1, SessionInvariant, PTL

\* What stopDevice() has still to release: the streams it has not reached.
ToRelease ==
    /\ InStop => imported \subseteq {s \in Stream : s >= stopStream}
    /\ pc = "stopWaiting" \/ (pc \in {"complete", "doQueue"} /\ ret = "stopWaiting") => imported = {}
    /\ call = "stop" /\ reply # "none" => imported = {}

\* Every step keeps ToRelease: start() runs only when no stop() is in progress.
LEMMA ReleaseSteps ==
    ASSUME ~Hotplug, TypeOK, CallInv, ToRelease, [Next]_vars
    PROVE  ToRelease'
<1>1. CASE Application
  <2>1. UNCHANGED <<imported, pc, ret, stopStream>>
    BY <1>1 DEF Application, Acquire, AcquireReturn, Configure, ConfigureReturn, Start, StartReturn,
                Stop, StopInvoke, StopReturn, Release, ReleaseReturn, Reuse, Return, handlerVars,
                deviceVars
  <2>2. call' = "stop" /\ reply' # "none" => call = "stop" /\ reply # "none"
    <3>1. call \in {"none", "stopping"} => reply = "none"
      BY DEF CallInv
    <3>2. QED
      BY <1>1, <3>1
         DEF Application, Acquire, AcquireReturn, Configure, ConfigureReturn, Start, StartReturn, Stop,
             StopInvoke, StopReturn, Release, ReleaseReturn, Reuse, Return, Invoke, Idle
  <2>3. QED
    BY <2>1, <2>2 DEF ToRelease, InStop
<1>2. ASSUME NEW op \in {"acquire", "release", "configure", "start"}, Dispatch(op),
             UNCHANGED <<call, handlerVars>>
      PROVE  ToRelease'
  <2>1. call = op
    BY <1>2, TakeInvocation
  <2>2. pc' = "loop"
    BY <1>2 DEF Dispatch, handlerVars
  <2>3. QED
    BY <1>2, <2>1, <2>2 DEF ToRelease, InStop
<1>3. CASE HandleStart \/ \E op \in {"acquire", "release", "configure"} : HandleInvocation(op)
  BY <1>2, <1>3 DEF HandleStart, HandleInvocation, handlerVars
<1>4. CASE HandleStop
  <2>1. pc' = "stopDevice" /\ stopStream' = 1 /\ UNCHANGED <<imported, call, reply>> /\ Dispatch("stop")
    BY <1>4 DEF HandleStop, appVars, deviceVars
  <2>2. call = "stop" /\ reply = "none"
    BY <2>1, TakeInvocation DEF CallInv, Dispatch
  <2>3. imported \subseteq Stream /\ \A s \in Stream : s >= 1
    BY StreamNotEmpty DEF TypeOK
  <2>4. QED
    BY <2>1, <2>2, <2>3 DEF ToRelease
<1>5. CASE StopDeviceStream
  <2>1. /\ InStop /\ InStop' /\ UNCHANGED <<call, reply, ret>> /\ pc = "stopDevice"
        /\ imported' = imported \ {stopStream} /\ stopStream' = stopStream + 1
        /\ pc' = "stopWaiting" => stopStream = NumStreams
    BY <1>5 DEF StopDeviceStream, InStop, appVars
  <2>2. imported' \subseteq {s \in Stream : s >= stopStream'}
    <3>1. imported \subseteq {s \in Stream : s >= stopStream} /\ stopStream \in Nat
      BY <2>1, ConstantsAssumption DEF ToRelease, TypeOK
    <3>2. QED
      BY <2>1, <3>1, ConstantsAssumption DEF Stream
  <2>3. pc' = "stopWaiting" => imported' = {}
    BY <2>1, <2>2, ConstantsAssumption DEF Stream
  <2>4. call = "stop" /\ reply = "none"
    BY <2>1 DEF CallInv
  <2>5. pc' \notin {"complete", "doQueue"}
    BY <1>5 DEF StopDeviceStream
  <2>6. QED
    BY <2>1, <2>2, <2>3, <2>4, <2>5 DEF ToRelease
<1>6. CASE StopDone
  <2>1. pc = "stopWaiting" /\ pc' = "loop" /\ UNCHANGED imported
    BY <1>6 DEF StopDone, deviceVars
  <2>2. QED
    BY <2>1 DEF ToRelease, InStop
<1>7. CASE StopWaitingRequest
  <2>1. pc = "stopWaiting" /\ UNCHANGED <<imported, call, reply, stopStream>>
    BY <1>7 DEF StopWaitingRequest, appVars
  <2>2. QED
    BY <2>1 DEF ToRelease
<1>8. CASE /\ QueueRequest \/ HandleQueueRequest \/ Handler \/ Event
           /\ ~HandleStop /\ ~StopDone /\ ~StopDeviceStream /\ ~StopWaitingRequest
  <2>1. UNCHANGED <<call, reply, imported, stopStream>>
    BY <1>8 DEF QueueRequest, QueueRequestCheck, QueueRequestPost, HandleQueueRequest, Handler, Event,
                Timeout, NotifierActivated, BufferReady, Disconnect, DoQueueRequest, DoQueueReturn,
                RequestComplete, CompleteReturn, StopDeviceBuffer, handlerVars, appVars, deviceVars
  <2>2. InStop' <=> InStop
    BY <1>8, StopKept DEF Next, HandleMessage
  <2>3. /\ pc' = "stopWaiting" => pc = "stopWaiting" \/ (pc = "doQueue" /\ ret = "stopWaiting")
        /\ pc' \in {"complete", "doQueue"} /\ ret' = "stopWaiting"
               => (pc \in {"complete", "doQueue"} /\ ret = "stopWaiting") \/ pc = "stopWaiting"
    BY <1>8 DEF QueueRequest, QueueRequestCheck, QueueRequestPost, HandleQueueRequest, Handler, Event,
                Timeout, NotifierActivated, BufferReady, bufferReady, Disconnect, DoQueueRequest,
                doQueueRequest, DoQueueReturn, RequestComplete, CompleteReturn, StopDeviceBuffer,
                handlerVars
  <2>4. QED
    BY <2>1, <2>2, <2>3 DEF ToRelease, InStop
<1>9. CASE UNCHANGED vars
  BY <1>9 DEF ToRelease, InStop, vars, handlerVars, appVars, deviceVars
<1>10. QED
  BY <1>1, <1>3, <1>4, <1>5, <1>6, <1>7, <1>8, <1>9 DEF Next, HandleMessage

\* Every session has buffers on all of its streams and stop() leaves none on any,
\* so a start() that failed half way is never taken for a session: for any number
\* of streams, when one thread uses the camera and the hardware stays plugged in.
THEOREM SessionsHaveBuffers ==
    ASSUME FirstStreamFaults, OneThread, ~Hotplug
    PROVE  Spec => BuffersBracketSessions
<1>1. Init => ToRelease
  BY DEF Init, ToRelease, InStop
<1>2. OrderInv /\ SessionInv /\ ToRelease /\ [Next]_vars => ToRelease'
  BY ReleaseSteps DEF OrderInv, PlaceInv, SessionInv
<1>3. ASSUME SessionInv, ToRelease, [Next]_vars
      PROVE  [/\ state # "Running" /\ state' = "Running" => imported = Stream
              /\ state = "Stopping" /\ state' # "Stopping" => imported = {}]_vars
  <2>1. StateOfCall /\ (Capturing => imported = Stream)
    BY <1>3 DEF SessionInv, CallInv
  <2>2. CASE Application
    <3>1. state # "Running" /\ state' = "Running" => call = "start" /\ reply = "ok"
      BY <2>1, <2>2
         DEF Application, Acquire, AcquireReturn, Configure, ConfigureReturn, Start, StartReturn, Stop,
             StopInvoke, StopReturn, Release, ReleaseReturn, Reuse, Return, cameraVars
    <3>2. state = "Stopping" /\ state' # "Stopping" => call = "stop" /\ reply # "none"
      BY <2>1, <2>2
         DEF Application, Acquire, AcquireReturn, Configure, ConfigureReturn, Start, StartReturn, Stop,
             StopInvoke, StopReturn, Release, ReleaseReturn, Reuse, Return, cameraVars, StateOfCall, Idle
    <3>3. QED
      BY <2>1, <3>1, <3>2, <1>3 DEF Capturing, ToRelease
  <2>3. CASE QueueRequest \/ HandleMessage \/ Handler \/ Event
    <3>1. state' = state \/ (state = "Running" /\ state' = "Configured")
      BY <2>3 DEF QueueRequest, QueueRequestCheck, QueueRequestPost, HandleMessage, HandleInvocation,
                  HandleStart, HandleStop, HandleQueueRequest, Handler, Event, Timeout,
                  NotifierActivated, BufferReady, Disconnect, DoQueueRequest, DoQueueReturn,
                  RequestComplete, CompleteReturn, StopDeviceBuffer, StopDeviceStream,
                  StopWaitingRequest, StopDone, cameraVars
    <3>2. QED
      BY <3>1
  <2>4. QED
    BY <1>3, <2>2, <2>3 DEF Next, vars
<1>4. QED
  BY <1>1, <1>2, <1>3, SessionInvariant, PTL DEF Spec, BuffersBracketSessions
=============================================================================
