--------------------------- MODULE CameraPipeline ---------------------------
(***************************************************************************)
(* A capture session of one camera: the Camera state machine, the request  *)
(* queues that PipelineHandler keeps for it, the life of a Request, and a   *)
(* pipeline handler with one capture device per stream (imx8-isi; with one  *)
(* stream its request path is also the one of uvcvideo).                    *)
(*                                                                          *)
(* Threads.  The application thread calls the Camera functions.  Any thread *)
(* of Callers may call Camera::queueRequest().  The pipeline (CameraManager)*)
(* thread runs the event loop.  Camera functions reach it by messages: a    *)
(* blocking invocation waits for the reply, queueRequest() does not.  A     *)
(* handler of the pipeline thread is a sequence of steps under "pc", because *)
(* completeRequest() and doQueueRequests() call each other; each of the two *)
(* is the other's tail call, so a loop over "pc" has the same effect.       *)
(***************************************************************************)
EXTENDS Integers, Sequences, SequencesExt

CONSTANTS Request,        \* the requests the application has created
          NumStreams,     \* active streams, numbered in the order of the map Request::buffers()
          MaxQueuedRequestsDevice,
          FencedStreams,  \* streams whose buffers the application may give a fence
          QueueFaults,    \* streams whose V4L2VideoDevice::queueBuffer() may fail
          StartFaults,    \* streams whose importBuffers() or streamOn() may fail
          App,            \* the application thread
          Callers,        \* the threads that call queueRequest()
          Hotplug,        \* whether the hardware may be unplugged
          MaxSequence,    \* bound: requests queued in one session
          NoRequest

Stream == 1 .. NumStreams

ASSUME ConstantsAssumption ==
    /\ NumStreams \in Nat \ {0}
    /\ MaxQueuedRequestsDevice \in Nat \ {0}
    /\ MaxSequence \in Nat
    /\ FencedStreams \subseteq Stream
    /\ QueueFaults \subseteq Stream
    /\ StartFaults \subseteq Stream
    /\ Hotplug \in BOOLEAN
    /\ NoRequest \notin Request

VARIABLES state,            \* Camera::Private::state_
          disconnected,     \* Camera::Private::disconnected_
          call,             \* the Camera function the application thread is in
          reply,            \* result of its blocking invocation
          caller,           \* request a thread has checked in queueRequest() and not yet posted
          held,             \* requests in the hands of the application
          msgs,             \* messages posted to the pipeline thread
          pc,               \* where the pipeline thread is
          ret,              \* where it returns when completeRequest()/doQueueRequests() end
          waitingRequests,  \* Camera::Private::waitingRequests_
          queuedRequests,   \* Camera::Private::queuedRequests_
          stopRequests,     \* the local waitingRequests of PipelineHandler::stop()
          stopStream,       \* stream that stopDevice() is switching off
          requestSequence,  \* Camera::Private::requestSequence_
          req,              \* the Request objects
          device,           \* for each stream, requests whose buffer is in the capture device
          imported,         \* streams whose capture device has imported buffers
          fatal             \* the ASSERT or LOG(Fatal) that aborted the process, or "none"

cameraVars == <<state, disconnected>>
appVars == <<call, reply, caller, held>>
handlerVars == <<pc, ret, stopRequests, stopStream>>
queueVars == <<waitingRequests, queuedRequests, requestSequence>>
deviceVars == <<device, imported>>
vars == <<cameraVars, appVars, msgs, handlerVars, queueVars, req, deviceVars, fatal>>

CameraState == {"Available", "Acquired", "Configured", "Stopping", "Running"}
Status == {"Pending", "Complete", "Cancelled"}
Invocation == {"acquire", "release", "configure", "start", "stop"}
Message == [op : Invocation, request : {NoRequest}] \cup [op : {"queueRequest"}, request : Request]

RequestPrivate == [status    : Status,
                   pending   : SUBSET Stream,   \* pending_: buffers not yet completed
                   cancelled : BOOLEAN,
                   prepared  : BOOLEAN,
                   notifiers : SUBSET Stream,   \* notifiers_: fences being waited for
                   timer     : BOOLEAN,         \* timer_ is running
                   fence     : SUBSET Stream,   \* buffers that hold a fence
                   sequence  : Nat]

\* The ASSERTs and the LOG(Fatal) on the modelled paths.
Fatal == {"cancel: status() == RequestPending",
          "complete: !hasPendingBuffers()",
          "complete: status() == RequestPending",
          "completeBuffer: ret == 1",
          "completeRequest: !hasPendingBuffers()",
          "prepare: inserted",
          "queueBuffer: No BufferCache available to queue",
          "requestComplete: Trying to complete a request when stopped",
          "start: requestSequence_ == 0",
          "stop: !hasPendingRequests()",
          "stop: queuedRequests_.empty()",
          "stop: waitingRequests_.empty()",
          "timeout: !notifiers_.empty()"}

TypeOK ==
    /\ state \in CameraState
    /\ disconnected \in BOOLEAN
    /\ call \in Invocation \cup {"none", "stopping"}
    /\ reply \in {"none", "ok", "error"}
    /\ caller \in [Callers -> Request \cup {NoRequest}]
    /\ held \subseteq Request
    /\ msgs \in Seq(Message)
    /\ pc \in {"loop", "complete", "doQueue", "stopDevice", "stopWaiting"}
    /\ ret \in {"loop", "stopDevice", "stopWaiting"}
    /\ waitingRequests \in Seq(Request)
    /\ queuedRequests \in Seq(Request)
    /\ stopRequests \in Seq(Request)
    /\ stopStream \in 1 .. NumStreams + 1
    /\ requestSequence \in Nat
    /\ req \in [Request -> RequestPrivate]
    /\ device \in [Stream -> SUBSET Request]
    /\ imported \subseteq Stream
    /\ fatal \in Fatal \cup {"none"}

(***************************************************************************)
(* Request::Private: operations on one request.                            *)
(***************************************************************************)

\* A request with a buffer for every active stream, fences f among them.
\* addBuffer() refuses a buffer that still holds a fence, so the application
\* has taken back the ones a timeout left behind.
NewRequest(f) == [status |-> "Pending", pending |-> Stream, cancelled |-> FALSE,
                  prepared |-> FALSE, notifiers |-> {}, timer |-> FALSE,
                  fence |-> f, sequence |-> 0]

hasPendingBuffers(q) == q.pending # {}

doCancelRequest(q) == [q EXCEPT !.cancelled = TRUE, !.pending = {},
                                !.notifiers = {}, !.timer = FALSE]

complete(q) == [q EXCEPT !.status = IF q.cancelled THEN "Cancelled" ELSE "Complete"]

\* completeBuffer(): the buffer of stream s, cancelled or not, is done.
completeBuffer(q, s, frameCancelled) ==
    [q EXCEPT !.pending = @ \ {s}, !.cancelled = @ \/ frameCancelled]

\* prepare(): a notifier for each fence; the timer only when there is one.
prepare(q) ==
    LET fences == q.pending \cap q.fence
    IN  [q EXCEPT !.notifiers = fences, !.timer = fences # {}, !.prepared = fences = {}]

\* notifierActivated(): the last fence ends the preparation.
notifierActivated(q, s) ==
    LET left == q.notifiers \ {s}
    IN  [q EXCEPT !.fence = @ \ {s}, !.notifiers = left,
                  !.timer = @ /\ left # {}, !.prepared = left = {}]

\* Mutant: a request that timed out is cancelled and never prepared.
timeoutUnprepared(q) == doCancelRequest(q)

timeout(q) == [doCancelRequest(q) EXCEPT !.prepared = TRUE]

(***************************************************************************)
(* Camera: functions the application thread calls, one at a time.          *)
(***************************************************************************)

\* An aborted process takes no step.
Alive == fatal = "none"

Idle == Alive /\ call = "none" /\ (App \in Callers => caller[App] = NoRequest)

\* invokeMethod(..., ConnectionTypeBlocking, ...) from the application thread.
Invoke(op) ==
    /\ call' = op
    /\ msgs' = Append(msgs, [op |-> op, request |-> NoRequest])

\* Back in the application thread; "next" is the state on success.
Return(op, next) ==
    /\ Alive
    /\ call = op
    /\ reply # "none"
    /\ state' = IF reply = "ok" THEN next ELSE state
    /\ call' = "none"
    /\ reply' = "none"
    /\ UNCHANGED <<disconnected, caller, held, msgs, handlerVars, queueVars, req, deviceVars>>

Acquire ==
    /\ Idle /\ ~disconnected /\ state = "Available"
    /\ Invoke("acquire")
    /\ UNCHANGED <<cameraVars, reply, caller, held, handlerVars, queueVars, req, deviceVars, fatal>>

AcquireReturn == Return("acquire", "Acquired") /\ UNCHANGED fatal

Configure ==
    /\ Idle /\ ~disconnected /\ state \in {"Acquired", "Configured"}
    /\ Invoke("configure")
    /\ UNCHANGED <<cameraVars, reply, caller, held, handlerVars, queueVars, req, deviceVars, fatal>>

ConfigureReturn == Return("configure", "Configured") /\ UNCHANGED fatal

Start ==
    /\ Idle /\ ~disconnected /\ state = "Configured"
    /\ fatal' = IF requestSequence = 0 THEN fatal ELSE "start: requestSequence_ == 0"
    /\ Invoke("start")
    /\ UNCHANGED <<cameraVars, reply, caller, held, handlerVars, queueVars, req, deviceVars>>

StartReturn == Return("start", "Running") /\ UNCHANGED fatal

\* stop() is a no-op unless Running; the check and setState() are two accesses.
Stop ==
    /\ Idle /\ ~disconnected /\ state = "Running"
    /\ call' = "stopping"
    /\ UNCHANGED <<cameraVars, reply, caller, held, msgs, handlerVars, queueVars, req, deviceVars, fatal>>

StopInvoke ==
    /\ Alive
    /\ call = "stopping"
    /\ state' = "Stopping"
    /\ Invoke("stop")
    /\ UNCHANGED <<disconnected, reply, caller, held, handlerVars, queueVars, req, deviceVars, fatal>>

StopReturn ==
    /\ Return("stop", "Configured")
    /\ fatal' = IF queuedRequests = <<>> THEN fatal ELSE "stop: !hasPendingRequests()"

\* release() is allowed on a disconnected camera, and only resets the state
\* of one that is not acquired.
Release ==
    /\ Idle /\ state \in {"Acquired", "Configured"}
    /\ Invoke("release")
    /\ UNCHANGED <<cameraVars, reply, caller, held, handlerVars, queueVars, req, deviceVars, fatal>>

ReleaseReturn == Return("release", "Available") /\ UNCHANGED fatal

(***************************************************************************)
(* Camera::queueRequest(): thread-safe, in two steps: the checks, and the   *)
(* message that hands the request to the pipeline thread.                   *)
(***************************************************************************)

QueueRequestCheck(t, r) ==
    /\ Alive
    /\ caller[t] = NoRequest
    /\ t = App => call = "none"
    /\ r \in held
    /\ ~disconnected /\ state = "Running"
    /\ req[r].status = "Pending"
    /\ requestSequence + Cardinality(Request \ held) < MaxSequence
    /\ caller' = [caller EXCEPT ![t] = r]
    /\ held' = held \ {r}
    /\ UNCHANGED <<cameraVars, call, reply, msgs, handlerVars, queueVars, req, deviceVars, fatal>>

QueueRequestPost(t) ==
    /\ Alive
    /\ caller[t] # NoRequest
    /\ msgs' = Append(msgs, [op |-> "queueRequest", request |-> caller[t]])
    /\ caller' = [caller EXCEPT ![t] = NoRequest]
    /\ UNCHANGED <<cameraVars, call, reply, held, handlerVars, queueVars, req, deviceVars, fatal>>

\* Request::reuse() of a request that has completed, with new fences.
Reuse(r, f) ==
    /\ Alive
    /\ r \in held
    /\ req[r].status # "Pending"
    /\ req' = [req EXCEPT ![r] = NewRequest(f)]
    /\ UNCHANGED <<cameraVars, appVars, msgs, handlerVars, queueVars, deviceVars, fatal>>

(***************************************************************************)
(* The event loop of the pipeline thread: messages.                        *)
(***************************************************************************)

Dispatch(op) ==
    /\ Alive
    /\ pc = "loop"
    /\ msgs # <<>>
    /\ Head(msgs).op = op
    /\ msgs' = Tail(msgs)

\* acquire(), release() and configure() of the pipeline handler keep no state
\* of the session; only release() cannot fail.
HandleInvocation(op) ==
    /\ Dispatch(op)
    /\ reply' \in IF op = "release" THEN {"ok"} ELSE {"ok", "error"}
    /\ UNCHANGED <<cameraVars, call, caller, held, handlerVars, queueVars, req, deviceVars, fatal>>

\* Mutant: a device that already has buffers is taken for a running one.
HandleStartAgain ==
    /\ Dispatch("start")
    /\ \/ /\ imported = {}
          /\ imported' = Stream
          /\ reply' = "ok"
       \/ \E s \in StartFaults :
          /\ imported = {}
          /\ imported' \in {1 .. s - 1, 1 .. s}
          /\ reply' = "error"
       \/ /\ imported # {}
          /\ imported' = imported
          /\ reply' = "ok"
    /\ UNCHANGED <<cameraVars, call, caller, held, handlerVars, queueVars, req, device, fatal>>

\* PipelineHandlerISI::start(): import buffers and stream on, stream by stream.
\* It returns on the first error and leaves the earlier streams as they are;
\* importBuffers() fails on a device that already has buffers.
HandleStart ==
    /\ Dispatch("start")
    /\ \/ /\ imported = {}
          /\ imported' = Stream
          /\ reply' = "ok"
       \/ \E s \in StartFaults :
          /\ imported = {}
          /\ imported' \in {1 .. s - 1, 1 .. s}
          /\ reply' = "error"
       \/ /\ imported # {}
          /\ imported' = imported
          /\ reply' = "error"
    /\ UNCHANGED <<cameraVars, call, caller, held, handlerVars, queueVars, req, device, fatal>>

\* PipelineHandler::queueRequest(): wait, and prepare; a request without a
\* fence is prepared at once.
HandleQueueRequest ==
    /\ Dispatch("queueRequest")
    /\ LET r == Head(msgs).request IN
       /\ waitingRequests' = Append(waitingRequests, r)
       /\ req' = [req EXCEPT ![r] = prepare(@)]
       /\ fatal' = IF req[r].notifiers = {} THEN fatal ELSE "prepare: inserted"
       /\ pc' = IF req'[r].prepared THEN "doQueue" ELSE "loop"
    /\ ret' = "loop"
    /\ UNCHANGED <<cameraVars, appVars, stopRequests, stopStream, queuedRequests,
                   requestSequence, deviceVars>>

\* Mutant: the waiting requests are copied, not swapped.
HandleStopCopies ==
    /\ Dispatch("stop")
    /\ stopRequests' = waitingRequests
    /\ stopStream' = 1
    /\ pc' = "stopDevice"
    /\ UNCHANGED <<cameraVars, appVars, ret, queueVars, req, deviceVars, fatal>>

\* Mutant: the waiting requests are left where they are.
HandleStopLeaves ==
    /\ Dispatch("stop")
    /\ stopStream' = 1
    /\ pc' = "stopDevice"
    /\ UNCHANGED <<cameraVars, appVars, ret, stopRequests, queueVars, req, deviceVars, fatal>>

\* PipelineHandler::stop(), first part: take the waiting requests.
HandleStop ==
    /\ Dispatch("stop")
    /\ stopRequests' = waitingRequests
    /\ waitingRequests' = <<>>
    /\ stopStream' = 1
    /\ pc' = "stopDevice"
    /\ UNCHANGED <<cameraVars, appVars, ret, queuedRequests, requestSequence, req, deviceVars, fatal>>

(***************************************************************************)
(* The event loop: fences, their timer, and the hardware.                  *)
(***************************************************************************)

\* Mutant: the prepared signal is not emitted.
NotifierActivatedSilent(r, s) ==
    /\ Alive
    /\ pc = "loop"
    /\ s \in req[r].notifiers
    /\ req' = [req EXCEPT ![r] = notifierActivated(@, s)]
    /\ ret' = "loop"
    /\ UNCHANGED <<cameraVars, appVars, msgs, pc, stopRequests, stopStream, queueVars, deviceVars,
                   fatal>>

NotifierActivated(r, s) ==
    /\ Alive
    /\ pc = "loop"
    /\ s \in req[r].notifiers
    /\ req' = [req EXCEPT ![r] = notifierActivated(@, s)]
    /\ pc' = IF req'[r].prepared THEN "doQueue" ELSE "loop"
    /\ ret' = "loop"
    /\ UNCHANGED <<cameraVars, appVars, msgs, stopRequests, stopStream, queueVars, deviceVars, fatal>>

Timeout(r) ==
    /\ Alive
    /\ pc = "loop"
    /\ req[r].timer
    /\ req' = [req EXCEPT ![r] = timeout(@)]
    /\ fatal' = IF req[r].notifiers = {} THEN "timeout: !notifiers_.empty()"
                ELSE IF req[r].status # "Pending" THEN "cancel: status() == RequestPending"
                ELSE fatal
    /\ pc' = "doQueue"
    /\ ret' = "loop"
    /\ UNCHANGED <<cameraVars, appVars, msgs, stopRequests, stopStream, queueVars, deviceVars>>

\* bufferReady() of stream s: complete the buffer, and the request with its last one.
bufferReady(r, s, frameCancelled) ==
    LET q == completeBuffer(req[r], s, frameCancelled) IN
    /\ device' = [device EXCEPT ![s] = @ \ {r}]
    /\ fatal' = IF s \notin req[r].pending THEN "completeBuffer: ret == 1"
                ELSE IF ~hasPendingBuffers(q) /\ q.status # "Pending"
                     THEN "complete: status() == RequestPending"
                ELSE fatal
    /\ req' = [req EXCEPT ![r] = IF hasPendingBuffers(q) THEN q ELSE complete(q)]
    /\ pc' = IF hasPendingBuffers(q) THEN pc ELSE "complete"
    /\ ret' = pc

\* The capture device of stream s returns a buffer to the event loop.
BufferReady(r, s) ==
    /\ Alive
    /\ pc = "loop"
    /\ r \in device[s]
    /\ bufferReady(r, s, FALSE)
    /\ UNCHANGED <<cameraVars, appVars, msgs, stopRequests, stopStream, queueVars, imported>>

\* PipelineHandler::disconnect(), on the pipeline thread.
Disconnect ==
    /\ Alive
    /\ pc = "loop"
    /\ Hotplug
    /\ ~disconnected
    /\ state' = IF state = "Running" THEN "Configured" ELSE state
    /\ disconnected' = TRUE
    /\ UNCHANGED <<appVars, msgs, handlerVars, queueVars, req, deviceVars, fatal>>

(***************************************************************************)
(* doQueueRequests(), doQueueRequest(), completeRequest().                 *)
(***************************************************************************)

\* Mutant: the refused buffer is in the device all the same.
queueRequestDeviceFailsLate(r, s) ==
    /\ s \in QueueFaults
    /\ 1 .. s \subseteq imported
    /\ device' = [i \in Stream |-> IF i <= s THEN device[i] \cup {r} ELSE device[i]]

\* queueRequestDevice() of imx8-isi queues the buffers stream by stream and
\* returns the error of the first that fails; the earlier ones stay queued.
queueRequestDeviceFails(r, s) ==
    /\ s \in QueueFaults
    /\ 1 .. s \subseteq imported
    /\ device' = [i \in Stream |-> IF i < s THEN device[i] \cup {r} ELSE device[i]]

queueRequestDevice(r) ==
    /\ imported = Stream
    /\ device' = [i \in Stream |-> device[i] \cup {r}]

\* doQueueRequest(): a request that is cancelled, or that the device refuses,
\* completes at once; queueBuffer() aborts on a device that has released its
\* buffers.  q0 is the request as the caller left it.
doQueueRequest(r, q0) ==
    LET q == [q0 EXCEPT !.sequence = requestSequence] IN
    /\ queuedRequests' = Append(queuedRequests, r)
    /\ requestSequence' = requestSequence + 1
    /\ \/ /\ q.cancelled
          /\ req' = [req EXCEPT ![r] = complete(q)]
          /\ pc' = "complete"
          /\ fatal' = IF q.status # "Pending" THEN "complete: status() == RequestPending"
                      ELSE IF hasPendingBuffers(q) THEN "complete: !hasPendingBuffers()"
                      ELSE fatal
          /\ UNCHANGED device
       \/ /\ ~q.cancelled
          /\ queueRequestDevice(r)
          /\ req' = [req EXCEPT ![r] = q]
          /\ UNCHANGED <<pc, fatal>>
       \/ /\ ~q.cancelled
          /\ imported # Stream
          /\ fatal' = "queueBuffer: No BufferCache available to queue"
          /\ req' = [req EXCEPT ![r] = q]
          /\ UNCHANGED <<pc, device>>
       \/ /\ ~q.cancelled
          /\ \E s \in Stream : queueRequestDeviceFails(r, s)
          /\ req' = [req EXCEPT ![r] = complete(doCancelRequest(q))]
          /\ pc' = "complete"
          /\ fatal' = IF q.status # "Pending" THEN "cancel: status() == RequestPending" ELSE fatal

\* doQueueRequests() passes on the first waiting request.
CanQueue ==
    /\ waitingRequests # <<>>
    /\ Len(queuedRequests) # MaxQueuedRequestsDevice
    /\ req[Head(waitingRequests)].prepared

DoQueueRequest ==
    /\ Alive
    /\ pc = "doQueue"
    /\ CanQueue
    /\ waitingRequests' = Tail(waitingRequests)
    /\ doQueueRequest(Head(waitingRequests), req[Head(waitingRequests)])
    /\ UNCHANGED <<cameraVars, appVars, msgs, ret, stopRequests, stopStream, imported>>

DoQueueReturn ==
    /\ Alive
    /\ pc = "doQueue"
    /\ ~CanQueue
    /\ pc' = ret
    /\ UNCHANGED <<cameraVars, appVars, msgs, ret, stopRequests, stopStream, queueVars, req,
                   deviceVars, fatal>>

\* completeRequest() returns the completed requests at the head of the queue,
\* Camera::requestComplete() hands each to the application.
CanComplete ==
    /\ queuedRequests # <<>>
    /\ req[Head(queuedRequests)].status # "Pending"

\* Mutant: completed requests are returned as they complete.
RequestCompleteUnordered ==
    /\ Alive
    /\ pc = "complete"
    /\ \E r \in ToSet(queuedRequests) :
           /\ req[r].status # "Pending"
           /\ held' = held \cup {r}
           /\ queuedRequests' = SelectSeq(queuedRequests, LAMBDA x : x # r)
    /\ UNCHANGED <<cameraVars, call, reply, caller, msgs, handlerVars, waitingRequests,
                   requestSequence, req, deviceVars, fatal>>

RequestComplete ==
    /\ Alive
    /\ pc = "complete"
    /\ CanComplete
    /\ LET r == Head(queuedRequests) IN
       /\ fatal' = IF hasPendingBuffers(req[r]) THEN "completeRequest: !hasPendingBuffers()"
                   ELSE IF state \notin {"Stopping", "Running"}
                        THEN "requestComplete: Trying to complete a request when stopped"
                   ELSE fatal
       /\ held' = held \cup {r}
    /\ queuedRequests' = Tail(queuedRequests)
    /\ UNCHANGED <<cameraVars, call, reply, caller, msgs, handlerVars, waitingRequests,
                   requestSequence, req, deviceVars>>

CompleteReturn ==
    /\ Alive
    /\ pc = "complete"
    /\ ~CanComplete
    /\ pc' = "doQueue"
    /\ UNCHANGED <<cameraVars, appVars, msgs, ret, stopRequests, stopStream, queueVars, req,
                   deviceVars, fatal>>

(***************************************************************************)
(* PipelineHandler::stop(), after the waiting requests have been taken.     *)
(***************************************************************************)

\* streamOff() cancels every buffer of the stream and signals it with bufferReady.
StopDeviceBuffer(r) ==
    /\ Alive
    /\ pc = "stopDevice"
    /\ stopStream \in Stream
    /\ r \in device[stopStream]
    /\ bufferReady(r, stopStream, TRUE)
    /\ UNCHANGED <<cameraVars, appVars, msgs, stopRequests, stopStream, queueVars, imported>>

\* Mutant: the loop goes one stream too far.
StopDeviceStreamFurther ==
    /\ Alive
    /\ pc = "stopDevice"
    /\ stopStream \in Stream => device[stopStream] = {}
    /\ imported' = imported \ {stopStream}
    /\ stopStream' = stopStream + 1
    /\ pc' = IF stopStream > NumStreams THEN "stopWaiting" ELSE "stopDevice"
    /\ UNCHANGED <<cameraVars, appVars, msgs, ret, stopRequests, queueVars, req, device, fatal>>

\* The stream is off and has released its buffers; go on with the next.  The
\* result of streamOff() is ignored; here it always succeeds.
StopDeviceStream ==
    /\ Alive
    /\ pc = "stopDevice"
    /\ stopStream \in Stream
    /\ device[stopStream] = {}
    /\ imported' = imported \ {stopStream}
    /\ stopStream' = stopStream + 1
    /\ pc' = IF stopStream = NumStreams THEN "stopWaiting" ELSE "stopDevice"
    /\ UNCHANGED <<cameraVars, appVars, msgs, ret, stopRequests, queueVars, req, device, fatal>>

\* Cancel a request that was waiting, and complete it through doQueueRequest().
StopWaitingRequest ==
    /\ Alive
    /\ pc = "stopWaiting"
    /\ stopRequests # <<>>
    /\ stopRequests' = Tail(stopRequests)
    /\ doQueueRequest(Head(stopRequests), doCancelRequest(req[Head(stopRequests)]))
    /\ ret' = "stopWaiting"
    /\ UNCHANGED <<cameraVars, appVars, msgs, stopStream, waitingRequests, imported>>

\* Mutant: requestSequence_ is not reset.
StopDoneKeepsSequence ==
    /\ Alive
    /\ pc = "stopWaiting"
    /\ stopRequests = <<>>
    /\ reply' = "ok"
    /\ pc' = "loop"
    /\ UNCHANGED <<cameraVars, call, caller, held, msgs, ret, stopRequests, stopStream, queueVars,
                   req, deviceVars, fatal>>

StopDone ==
    /\ Alive
    /\ pc = "stopWaiting"
    /\ stopRequests = <<>>
    /\ fatal' = IF queuedRequests # <<>> THEN "stop: queuedRequests_.empty()"
                ELSE IF waitingRequests # <<>> THEN "stop: waitingRequests_.empty()"
                ELSE fatal
    /\ requestSequence' = 0
    /\ reply' = "ok"
    /\ pc' = "loop"
    /\ UNCHANGED <<cameraVars, call, caller, held, msgs, ret, stopRequests, stopStream,
                   waitingRequests, queuedRequests, req, deviceVars>>

-----------------------------------------------------------------------------

Init ==
    /\ state = "Available"
    /\ disconnected = FALSE
    /\ call = "none"
    /\ reply = "none"
    /\ caller = [t \in Callers |-> NoRequest]
    /\ held = Request
    /\ msgs = <<>>
    /\ pc = "loop"
    /\ ret = "loop"
    /\ waitingRequests = <<>>
    /\ queuedRequests = <<>>
    /\ stopRequests = <<>>
    /\ stopStream = 1
    /\ requestSequence = 0
    /\ req \in [Request -> {NewRequest(f) : f \in SUBSET FencedStreams}]
    /\ device = [s \in Stream |-> {}]
    /\ imported = {}
    /\ fatal = "none"

Application ==
    \/ Acquire \/ AcquireReturn \/ Configure \/ ConfigureReturn
    \/ Start \/ StartReturn \/ Stop \/ StopInvoke \/ StopReturn
    \/ Release \/ ReleaseReturn
    \/ \E r \in Request, f \in SUBSET FencedStreams : Reuse(r, f)

QueueRequest ==
    \E t \in Callers : QueueRequestPost(t) \/ \E r \in Request : QueueRequestCheck(t, r)

HandleMessage ==
    \/ \E op \in {"acquire", "release", "configure"} : HandleInvocation(op)
    \/ HandleStart \/ HandleQueueRequest \/ HandleStop

\* A handler in progress runs to its end.
Handler ==
    \/ DoQueueRequest \/ DoQueueReturn
    \/ RequestComplete \/ CompleteReturn
    \/ \E r \in Request : StopDeviceBuffer(r)
    \/ StopDeviceStream \/ StopWaitingRequest \/ StopDone

Event ==
    \/ \E r \in Request : Timeout(r)
    \/ \E r \in Request, s \in Stream : NotifierActivated(r, s) \/ BufferReady(r, s)
    \/ Disconnect

Next == Application \/ QueueRequest \/ HandleMessage \/ Handler \/ Event

Spec == Init /\ [][Next]_vars

(***************************************************************************)
(* Fairness.  The pipeline thread keeps running.  Each iteration of its     *)
(* event loop (EventDispatcherPoll::processEvents()) delivers all pending   *)
(* messages, then all ready notifiers, then all expired timers, so an event *)
(* that keeps coming up is handled; a running timer expires.  That the      *)
(* hardware fills the buffers it holds is assumed.  Callers of queueRequest() *)
(* return from it.  The application is free to stop calling at any time.    *)
(***************************************************************************)
Fairness ==
    /\ WF_vars(Handler)
    /\ SF_vars(HandleMessage)
    /\ \A r \in Request : SF_vars(Timeout(r))
    /\ \A r \in Request, s \in Stream : SF_vars(BufferReady(r, s))
    /\ \A t \in Callers : WF_vars(QueueRequestPost(t))

FairSpec == Spec /\ Fairness

-----------------------------------------------------------------------------
(***************************************************************************)
(* Properties.                                                             *)
(***************************************************************************)

\* No ASSERT of Camera, PipelineHandler and Request fails, and requestComplete()
\* is never reached in a state in which it aborts the process.
NoFatal == fatal = "none"

\* Requests a thread inside queueRequest() holds, and requests in a message.
Calling == {caller[t] : t \in Callers} \ {NoRequest}
Posted == {msgs[i].request : i \in 1 .. Len(msgs)} \ {NoRequest}

\* H, C, P, W, S and Q have no member in common and contain all the requests.
Partition(H, C, P, W, S, Q) ==
    /\ Request = H \cup C \cup P \cup W \cup S \cup Q
    /\ H \cap (C \cup P \cup W \cup S \cup Q) = {}
    /\ C \cap (P \cup W \cup S \cup Q) = {}
    /\ P \cap (W \cup S \cup Q) = {}
    /\ W \cap (S \cup Q) = {}
    /\ S \cap Q = {}

\* Every request is in one place, once: with the application, in the hands of
\* a thread inside queueRequest(), in a message, waiting, taken by stop(), or
\* queued.  So none is lost, and none is queued or completed twice.
OnePlace ==
    /\ Partition(held, Calling, Posted, ToSet(waitingRequests), ToSet(stopRequests),
                 ToSet(queuedRequests))
    /\ IsInjective(waitingRequests) /\ IsInjective(stopRequests) /\ IsInjective(queuedRequests)
    /\ \A i, j \in 1 .. Len(msgs) :
           msgs[i].request = msgs[j].request => i = j \/ msgs[i].request = NoRequest
    /\ \A t, u \in Callers : caller[t] = caller[u] => t = u \/ caller[t] = NoRequest

\* PipelineHandler never has more than maxQueuedRequestsDevice_ requests queued
\* to the device, stop() included, which bypasses the check of doQueueRequests().
DeviceLimit == Len(queuedRequests) <= MaxQueuedRequestsDevice

\* Requests are queued in the order of their sequence numbers, without gaps,
\* and the last one queued has number requestSequence_ - 1.
SequenceOrder ==
    \A i \in 1 .. Len(queuedRequests) :
        req[queuedRequests[i]].sequence = requestSequence - Len(queuedRequests) + i - 1

\* No lost wake-up: when the event loop goes idle with requests waiting, either
\* the device is full or the first one is waiting for a fence under a running
\* timer.
NoStall ==
    pc = "loop" /\ waitingRequests # <<>> =>
        \/ Len(queuedRequests) = MaxQueuedRequestsDevice
        \/ req[Head(waitingRequests)].timer

\* A fence notifier or a timer exists only for a request that waits, so no
\* late event reaches a request the application owns or the device works on;
\* and there is a timer exactly as long as a fence is waited for.
EventsOfWaiting ==
    \A r \in Request :
        /\ req[r].timer <=> req[r].notifiers # {}
        /\ req[r].timer => r \in ToSet(waitingRequests) \cup ToSet(stopRequests)

\* The capture device of a stream holds a buffer if and only if the buffer is
\* pending in a queued request that has not completed: the application never
\* gets back a buffer the hardware may still write to.
DeviceOwnsPending ==
    Alive => \A s \in Stream : device[s] =
        {r \in ToSet(queuedRequests) : req[r].status = "Pending" /\ s \in req[r].pending}

\* QueuesSound: the bookkeeping of the pipeline handler agrees with the hardware
\* and with the events it waits for, whoever queues and whenever stop() comes.
QueuesSound == DeviceLimit /\ SequenceOrder /\ EventsOfWaiting /\ DeviceOwnsPending

\* Between sessions nothing is left over: outside a session every request is
\* with the application, the sequence restarts from 0 and the hardware has no
\* buffer.
InSession == state \in {"Running", "Stopping"}

CleanBetweenSessions ==
    ~InSession => /\ held = Request
                  /\ requestSequence = 0
                  /\ \A s \in Stream : device[s] = {}

\* PipelineHandler implements a first-in first-out service: requests leave in
\* the order queueRequest() put them in, whatever the order in which fences
\* are signalled and the device completes them, and whether they are captured,
\* fail, time out or are cancelled by stop().  Outside the fifo are the requests
\* of the application and of its messages in flight.
InPipeline == queuedRequests \o stopRequests \o waitingRequests

Fifo == INSTANCE RequestFifo WITH
            fifo <- InPipeline,
            held <- Request \ ToSet(InPipeline)

CompletesInOrder == Fifo!Spec

CompletesAllInOrder == Fifo!FairSpec

\* A session begins with buffers imported on all the streams and ends with none:
\* a start() that failed half way, and the devices it left prepared, never pass
\* for a session, and stop() takes back what start() gave every device.
BuffersBracketSessions ==
    [][/\ state # "Running" /\ state' = "Running" => imported = Stream
       /\ state = "Stopping" /\ state' # "Stopping" => imported = {}]_vars

\* Camera::queueRequest() checks the state and posts the request later: "The
\* camera state may change until the end of the function. No locking is however
\* needed as PipelineHandler::queueRequest() will handle this."
StateChangeHandled ==
    fatal \notin {"queueBuffer: No BufferCache available to queue",
                  "requestComplete: Trying to complete a request when stopped",
                  "start: requestSequence_ == 0"}

\* "Disconnected cameras are still able to complete requests."
CompletesWhenDisconnected ==
    disconnected => fatal # "requestComplete: Trying to complete a request when stopped"

\* "All buffers associate with the request shall be marked as complete by calling
\* this function once and once only before reporting the request as complete":
\* no buffer comes back from a device after its request has been completed.
BuffersMarkedOnce == fatal # "completeBuffer: ret == 1"
=============================================================================
