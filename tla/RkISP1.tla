------------------------------- MODULE RkISP1 -------------------------------
(***************************************************************************)
(* The rkisp1 pipeline handler with its threaded IPA proxy and the frame    *)
(* context queue of the IPA.                                                *)
(*                                                                          *)
(* A request becomes a frame: an entry of frameInfo_ that borrows internal  *)
(* parameter, statistics and (with a dewarper) main path buffers.  The      *)
(* handler queues the request to the IPA thread, and queues buffers to the  *)
(* devices when paramsComputed comes back.  The request completes when its  *)
(* images, its parameters and its metadata are all in, in whichever order.  *)
(*                                                                          *)
(* The pipeline thread runs handlers under "pc", the IPA thread runs        *)
(* "calls" in order, and stopDevice() interleaves with the IPA thread until *)
(* the proxy has drained it.  The kernel returns the buffers of a device in *)
(* queueing order.  Requests carry no fence, so they are prepared at once.  *)
(***************************************************************************)
EXTENDS Integers, Sequences, FiniteSets, Functions

CONSTANTS Request,
          Modes,       \* configurations tried, among "isp", "dewarp" and "raw"
          MaxQueued,   \* kRkISP1MaxQueuedRequests, also kRkISP1MinBufferCount
          FCSize,      \* kMaxFrameContexts
          MaxSkip,     \* frames the statistics may skip in a row
          MaxFrame,    \* bound: last sensor sequence number of a session
          MaxFaults    \* bound: failures of queueBuffer() or of the dewarper

VARIABLES mode,        \* isRaw_ and usesDewarper_, from configure()
          active,      \* activeCamera_ is set
          pc,          \* where the pipeline thread is
          ret,         \* where completeRequest() returns to
          waiting,     \* waitingRequests_
          queued,      \* queuedRequests_
          stopped,     \* the local waitingRequests of PipelineHandler::stop()
          req,         \* the requests
          frame,       \* data->frame_
          frameInfo,   \* RkISP1Frames::frameInfo_
          avail,       \* availableParamBuffers_, ...StatBuffers_, ...MainPathBuffers_
          device,      \* buffers in the devices, dewarper included
          sequence,    \* last sequence number of a statistics buffer
          calls,       \* calls posted to the IPA thread
          events,      \* IPA events posted to the pipeline thread
          proxy,       \* state_ of the IPA proxy
          contexts,    \* FCQueue::contexts_
          faults,      \* the frames that lack a buffer some queueBuffer() refused
          fatal        \* the ASSERT or LOG(Fatal) that aborted the process, or "none"

queueVars == <<waiting, queued, stopped>>
frameVars == <<frameInfo, avail, req>>
ipaVars == <<calls, events, proxy, contexts>>
vars == <<mode, active, pc, ret, queueVars, frameVars, frame, device, sequence, ipaVars, faults, fatal>>

Frame == 0 .. MaxFrame + Cardinality(Request) + 1
Device == {"self", "main", "stat", "param", "dewarp"}
Pool == {"param", "stat", "main"}
Buffer == 1 .. MaxQueued
None == <<"none", 0>>

\* The streams configure() activates: raw capture has one, and the platform
\* with a dewarper has no self path.
Streams(m) == IF m = "isp" THEN {"main", "self"} ELSE {"main"}

\* FCQueue slots as created and as FCQueue::clear() leaves them.
ClearContexts == [i \in 0 .. FCSize - 1 |-> [frame |-> 0, initialised |-> FALSE]]

Init ==
    /\ mode \in Modes
    /\ active = FALSE
    /\ pc = "loop" /\ ret = "loop"
    /\ waiting = <<>> /\ queued = <<>> /\ stopped = <<>>
    /\ req = [r \in Request |-> [status |-> "Free", pending |-> {}]]
    /\ frame = 0 /\ sequence = -1
    /\ frameInfo = <<>>
    /\ avail = [p \in Pool |-> <<>>]
    /\ device = [d \in Device |-> <<>>]
    /\ calls = <<>> /\ events = <<>>
    /\ proxy = "Stopped"
    /\ contexts = ClearContexts
    /\ faults = {}
    /\ fatal = "none"

Abort(what) == fatal' = what

\* The dewarper, or another device, refuses a buffer of frame f.
Fault(by, f) ==
    /\ Cardinality(faults) < MaxFaults
    /\ faults' = faults \cup {<<by, f>>}

(***************************************************************************)
(* RkISP1Frames                                                            *)
(***************************************************************************)

Pick(p) == IF avail[p] = <<>> THEN None ELSE <<p, Head(avail[p])>>

\* The buffers create() gives the frame of request r: internal ones, or the
\* ones of the application, named after the stream and the request.
NewInfo(r) ==
    [request   |-> r,
     param     |-> IF mode = "raw" THEN None ELSE Pick("param"),
     stat      |-> IF mode = "raw" THEN None ELSE Pick("stat"),
     main      |-> CASE mode = "dewarp" -> Pick("main")
                     [] mode # "dewarp" /\ "main" \in req[r].pending -> <<"app main", r>>
                     [] OTHER -> None,
     self      |-> IF "self" \in req[r].pending THEN <<"app self", r>> ELSE None,
     paramDequeued     |-> FALSE,
     metadataProcessed |-> FALSE]

Taken == IF mode = "raw" THEN {} ELSE IF mode = "dewarp" THEN Pool ELSE {"param", "stat"}

\* recycleBuffers()
recycle(info) ==
    [p \in Pool |-> IF p \in Taken /\ info[p] # None THEN Append(avail[p], info[p][2]) ELSE avail[p]]

\* find(buffer): the frame that uses a buffer.
FramesWith(b) == {f \in DOMAIN frameInfo : \E k \in {"param", "stat", "main", "self"} : frameInfo[f][k] = b}
First(S) == CHOOSE f \in S : \A g \in S : f <= g

(***************************************************************************)
(* Completion.  tryCompleteRequest() as the tail of a handler that has      *)
(* updated the entry of frame f to info and the requests to q.              *)
(***************************************************************************)

\* Mutant: the parameter buffer is not waited for.
IncompleteForget(info, q) == q[info.request].pending # {} \/ ~info.metadataProcessed

Incomplete(info, q) ==
    \/ q[info.request].pending # {}
    \/ ~info.metadataProcessed
    \/ mode # "raw" /\ ~info.paramDequeued

tryCompleteRequest(f, info, q) ==
    \/ /\ Incomplete(info, q)
       /\ frameInfo' = [frameInfo EXCEPT ![f] = info]
       /\ req' = q
       /\ UNCHANGED <<avail, pc, ret>>
    \/ /\ ~Incomplete(info, q)
       /\ frameInfo' = Restrict(frameInfo, DOMAIN frameInfo \ {f})
       /\ avail' = recycle(info)
       /\ req' = [q EXCEPT ![info.request].status = "Complete"]
       /\ pc' = "complete" /\ ret' = pc

\* Request::Private::completeBuffer() for stream s of request r.
completeBuffer(r, s) == [req EXCEPT ![r].pending = @ \ {s}]

\* Mutant: any completed request leaves the queue.
CompleteRequestAny ==
    /\ pc = "complete"
    /\ \/ \E i \in DOMAIN queued :
              /\ req[queued[i]].status # "Pending"
              /\ req' = [req EXCEPT ![queued[i]] = [status |-> "Free", pending |-> {}]]
              /\ queued' = SelectSeq(queued, LAMBDA r : r # queued[i])
              /\ UNCHANGED pc
       \/ pc' = "doQueue" /\ UNCHANGED <<req, queued>>
    /\ UNCHANGED <<mode, active, ret, waiting, stopped, frame, frameInfo, avail, device, sequence, ipaVars, faults, fatal>>

\* PipelineHandler::completeRequest(): requests leave in queueing order.
CompleteRequest ==
    /\ pc = "complete"
    /\ IF queued # <<>> /\ req[Head(queued)].status # "Pending"
       THEN /\ IF req[Head(queued)].pending # {}
               THEN Abort("completeRequest: !hasPendingBuffers()") ELSE UNCHANGED fatal
            /\ req' = [req EXCEPT ![Head(queued)] = [status |-> "Free", pending |-> {}]]
            /\ queued' = Tail(queued)
            /\ UNCHANGED pc
       ELSE pc' = "doQueue" /\ UNCHANGED <<req, queued, fatal>>
    /\ UNCHANGED <<mode, active, ret, waiting, stopped, frame, frameInfo, avail, device, sequence, ipaVars, faults>>

(***************************************************************************)
(* Queueing a request.                                                     *)
(***************************************************************************)

\* PipelineHandler::queueRequest(), for a request with a buffer for some
\* of the active streams.
QueueRequest(r, streams) ==
    /\ active /\ pc = "loop"
    /\ frame <= MaxFrame
    /\ req[r].status = "Free"
    /\ req' = [req EXCEPT ![r] = [status |-> "Pending", pending |-> streams]]
    /\ waiting' = Append(waiting, r)
    /\ pc' = "doQueue" /\ ret' = "loop"
    /\ UNCHANGED <<mode, active, queued, stopped, frame, frameInfo, avail, device, sequence, ipaVars, faults, fatal>>

\* create() finds no internal buffer: queueRequestDevice() fails and the
\* request is cancelled.
Underrun ==
    /\ mode # "raw"
    /\ avail["param"] = <<>> \/ avail["stat"] = <<>>

\* What queueRequestDevice() posts to the IPA thread.
IpaCalls(f) ==
    <<[op |-> "queueRequest", frame |-> f]>>
        \o IF mode = "raw" THEN <<>> ELSE <<[op |-> "computeParams", frame |-> f]>>

\* queueRequestDevice() once create() has the buffers of request r.  It ignores
\* a main path that refuses a raw buffer.
queueRequestDevice(r) ==
    /\ fatal' = IF mode = "dewarp" /\ avail["main"] = <<>> THEN "create: front() of an empty queue"
                ELSE IF frame \in DOMAIN frameInfo THEN "create: inserted"
                ELSE IF proxy # "Running" THEN "queueRequest: state_ == ProxyRunning"
                ELSE fatal
    /\ frameInfo' = [f \in DOMAIN frameInfo \cup {frame} |-> IF f = frame THEN NewInfo(r) ELSE frameInfo[f]]
    /\ avail' = [p \in Pool |-> IF p \in Taken THEN Tail(avail[p]) ELSE avail[p]]
    /\ calls' = calls \o IpaCalls(frame)
    /\ \/ /\ device' = IF mode = "raw" THEN [device EXCEPT !["main"] = Append(@, NewInfo(r).main)] ELSE device
          /\ UNCHANGED faults
       \/ mode = "raw" /\ Fault("device", frame) /\ UNCHANGED device
    /\ frame' = frame + 1

\* One iteration of doQueueRequests(), with doQueueRequest().
DoQueueRequests ==
    /\ pc = "doQueue"
    /\ IF waiting # <<>> /\ Len(queued) # MaxQueued
       THEN /\ waiting' = Tail(waiting)
            /\ queued' = Append(queued, Head(waiting))
            /\ IF Underrun
               THEN /\ req' = [req EXCEPT ![Head(waiting)] = [status |-> "Cancelled", pending |-> {}]]
                    /\ pc' = "complete"
                    /\ UNCHANGED <<frame, frameInfo, avail, calls, device, faults, fatal>>
               ELSE queueRequestDevice(Head(waiting)) /\ UNCHANGED <<req, pc>>
       ELSE /\ pc' = ret
            /\ UNCHANGED <<waiting, queued, req, frame, frameInfo, avail, calls, device, faults, fatal>>
    /\ UNCHANGED <<mode, active, ret, stopped, sequence, events, proxy, contexts>>

(***************************************************************************)
(* The IPA thread.  processStats() also emits setSensorControls, which      *)
(* reaches DelayedControls only.                                            *)
(***************************************************************************)

Slot(f) == contexts[f % FCSize]
Initialised(f) == [contexts EXCEPT ![f % FCSize] = [frame |-> f, initialised |-> TRUE]]

\* FCQueue::alloc()
alloc(f) == IF f # 0 /\ f <= Slot(f).frame THEN contexts ELSE Initialised(f)

\* FCQueue::get(): Fatal if a newer frame has taken the slot.
Overwritten(f) == f < Slot(f).frame
get(f) ==
    IF (f = 0 /\ ~Slot(f).initialised) \/ f # Slot(f).frame THEN Initialised(f) ELSE contexts

\* IPARkISP1::queueRequest(), computeParams() and processStats()
IpaThread ==
    /\ proxy # "Stopped" /\ pc # "drain"
    /\ calls # <<>>
    /\ calls' = Tail(calls)
    /\ LET f == Head(calls).frame IN
       IF Head(calls).op = "queueRequest"
       THEN contexts' = alloc(f) /\ UNCHANGED <<events, fatal>>
       ELSE IF Overwritten(f)
       THEN Abort("get: frame context overwritten") /\ UNCHANGED <<contexts, events>>
       ELSE /\ contexts' = get(f)
            /\ events' = Append(events, [frame |-> f,
                   name |-> IF Head(calls).op = "computeParams" THEN "paramsComputed" ELSE "metadataReady"])
            /\ UNCHANGED fatal
    /\ UNCHANGED <<mode, active, pc, ret, queueVars, frameVars, frame, device, sequence, proxy, faults>>

\* The proxy accepts a call of the pipeline thread.
processStats(f) ==
    /\ calls' = Append(calls, [op |-> "processStats", frame |-> f])
    /\ fatal' = IF proxy = "Running" THEN fatal ELSE "processStats: state_ == ProxyRunning"

(***************************************************************************)
(* IPA events in the pipeline thread, from its event loop or from the       *)
(* dispatchMessages() at the end of the proxy's stop().                     *)
(***************************************************************************)

\* The devices that take a buffer of the frame, but for the refusing ones.
QueueBuffers(info, refusing) ==
    [d \in Device |-> IF d \notin refusing \cup {"dewarp"} /\ info[d] # None THEN Append(device[d], info[d])
                      ELSE device[d]]

\* paramsComputed(): the buffers of the frame go to their devices.  It returns
\* when the parameter device refuses its buffer, and ignores the others.
paramsComputed(f) ==
    /\ \/ device' = QueueBuffers(frameInfo[f], {}) /\ UNCHANGED faults
       \/ \E refusing \in {Device, {"stat"}, {"main"}, {"self"}} :
              device' = QueueBuffers(frameInfo[f], refusing) /\ Fault("device", f)
    /\ UNCHANGED <<frameVars, pc, ret>>

\* metadataReady()
metadataReady(f) ==
    /\ tryCompleteRequest(f, [frameInfo[f] EXCEPT !.metadataProcessed = TRUE], req)
    /\ UNCHANGED <<device, faults>>

IpaEvent ==
    /\ pc \in {"loop", "drain"}
    /\ events # <<>>
    /\ events' = Tail(events)
    /\ LET f == Head(events).frame IN
       IF proxy = "Stopped" \/ f \notin DOMAIN frameInfo
       THEN /\ Abort(IF proxy = "Stopped" THEN "Handler: state_ != ProxyStopped" ELSE "find: frame")
            /\ UNCHANGED <<frameVars, pc, ret, device, faults>>
       ELSE /\ IF Head(events).name = "paramsComputed" THEN paramsComputed(f) ELSE metadataReady(f)
            /\ UNCHANGED fatal
    /\ UNCHANGED <<mode, active, queueVars, frame, sequence, calls, proxy, contexts>>

(***************************************************************************)
(* Buffers that come back.  status is "Success", or "Cancelled" from        *)
(* streamOff().                                                             *)
(***************************************************************************)

FindFails ==
    /\ Abort("find: buffer")
    /\ UNCHANGED <<frameVars, pc, ret, frame, calls, sequence, faults>>

paramBufferReady(b) ==
    LET f == First(FramesWith(b)) IN
    /\ tryCompleteRequest(f, [frameInfo[f] EXCEPT !.paramDequeued = TRUE], req)
    /\ UNCHANGED <<frame, calls, sequence, faults, fatal>>

\* The frame number of the next request catches up with the sensor.
statBufferReady(b, status, seq) ==
    LET f == First(FramesWith(b)) IN
    \/ /\ status = "Cancelled"
       /\ tryCompleteRequest(f, [frameInfo[f] EXCEPT !.metadataProcessed = TRUE], req)
       /\ UNCHANGED <<frame, calls, sequence, faults, fatal>>
    \/ /\ status = "Success"
       /\ sequence' = seq
       /\ frame' = IF frame <= seq THEN seq + 1 ELSE frame
       /\ processStats(f)
       /\ UNCHANGED <<frameVars, pc, ret, faults>>

\* imageBufferReady() without a dewarper: a raw frame has no statistics, and
\* its metadata is asked for, or given up, here.
imageBufferReady(b, s, status) ==
    LET f == First(FramesWith(b))
        info == frameInfo[f]
    IN  /\ IF mode = "raw" /\ status = "Success" THEN processStats(f) ELSE UNCHANGED <<calls, fatal>>
        /\ tryCompleteRequest(f, [info EXCEPT !.metadataProcessed = @ \/ (mode = "raw" /\ status = "Cancelled")],
                              completeBuffer(info.request, s))
        /\ UNCHANGED <<frame, sequence, faults>>

\* cancelDewarpRequest()
cancelDewarpRequest(f) ==
    tryCompleteRequest(f, frameInfo[f], completeBuffer(frameInfo[f].request, "main"))

Pop(d) == [device EXCEPT ![d] = Tail(@)]

BufferReady(d, status) ==
    LET b == Head(device[d]) IN
    /\ device[d] # <<>>
    /\ mode = "dewarp" => d \in {"param", "stat"}
    /\ d \in {"param", "stat", "main", "self"}
    /\ device' = Pop(d)
    /\ IF FramesWith(b) = {} THEN FindFails
       ELSE CASE d = "param" -> paramBufferReady(b)
              [] d = "stat" ->
                   \E skip \in IF status = "Cancelled" THEN {0} ELSE 0 .. MaxSkip :
                       /\ status = "Success" => sequence + 1 + skip <= MaxFrame
                       /\ statBufferReady(b, status, sequence + 1 + skip)
              [] OTHER -> imageBufferReady(b, d, status)
    /\ UNCHANGED <<mode, active, queueVars, events, proxy, contexts>>

\* imageBufferReady() with a dewarper: the internal buffer goes on to the
\* dewarper, and the request is cancelled when it cannot.
DewarpInput(status) ==
    LET b == Head(device["main"])
        f == First(FramesWith(b))
    IN  /\ mode = "dewarp"
        /\ device["main"] # <<>>
        /\ IF FramesWith(b) = {} THEN FindFails /\ device' = Pop("main")
           ELSE \/ /\ status = "Success"
                   /\ device' = [Pop("main") EXCEPT !["dewarp"] = Append(@, frameInfo[f].request)]
                   /\ UNCHANGED <<frameVars, pc, ret, frame, calls, sequence, faults, fatal>>
                \/ /\ status = "Success"
                   /\ Fault("dewarper", f)
                   /\ device' = Pop("main")
                   /\ cancelDewarpRequest(f)
                   /\ UNCHANGED <<frame, calls, sequence, fatal>>
                \/ /\ status = "Cancelled"
                   /\ device' = Pop("main")
                   /\ cancelDewarpRequest(f)
                   /\ UNCHANGED <<frame, calls, sequence, faults, fatal>>
        /\ UNCHANGED <<mode, active, queueVars, events, proxy, contexts>>

\* dewarpBufferReady(): the request is found by its output buffer.
DewarpOutput ==
    LET r == Head(device["dewarp"])
        frames == {f \in DOMAIN frameInfo : frameInfo[f].request = r}
    IN  /\ device["dewarp"] # <<>>
        /\ device' = Pop("dewarp")
        /\ IF frames = {} THEN Abort("find: request") /\ UNCHANGED <<frameVars, pc, ret>>
           ELSE /\ tryCompleteRequest(First(frames), frameInfo[First(frames)], completeBuffer(r, "main"))
                /\ UNCHANGED fatal
        /\ UNCHANGED <<mode, active, queueVars, frame, sequence, ipaVars, faults>>

\* A device finishes a buffer while the pipeline thread is in its event loop.
Capture ==
    /\ active /\ pc = "loop"
    /\ \/ \E d \in Device : BufferReady(d, "Success")
       \/ DewarpInput("Success")
       \/ DewarpOutput

(***************************************************************************)
(* configure(), start() and stop().                                        *)
(***************************************************************************)

\* configure() picks the streams.
Configure(m) ==
    /\ ~active /\ pc = "loop"
    /\ mode' = m
    /\ contexts' = ClearContexts
    /\ UNCHANGED <<active, pc, ret, queueVars, frameVars, frame, device, sequence, calls, events, proxy, faults, fatal>>

\* start(), with allocateBuffers() and the IPA thread.
Start ==
    /\ ~active /\ pc = "loop"
    /\ active' = TRUE
    /\ avail' = [p \in Pool |-> IF p \in Taken THEN [i \in Buffer |-> i] ELSE <<>>]
    /\ proxy' = "Running"
    /\ frame' = 0 /\ sequence' = -1
    /\ faults' = {}
    /\ UNCHANGED <<mode, pc, ret, queueVars, frameInfo, req, device, calls, events, contexts, fatal>>

\* start() when a device refuses to stream: its ScopeExitActions stop the IPA,
\* that has no call to run, and free the buffers.
StartFails ==
    /\ ~active /\ pc = "loop"
    /\ frame' = 0
    /\ contexts' = ClearContexts
    /\ UNCHANGED <<mode, active, pc, ret, queueVars, frameVars, device, sequence, calls, events, proxy, faults, fatal>>

\* PipelineHandler::stop() up to the blocking call of the IPA's stop().
Stop ==
    /\ active /\ pc = "loop"
    /\ stopped' = waiting /\ waiting' = <<>>
    /\ proxy' = "Stopping"
    /\ pc' = "ipaStop"
    /\ UNCHANGED <<mode, active, ret, queued, frameVars, frame, device, sequence, calls, events, contexts, faults, fatal>>

\* The IPA thread has run every earlier call: it stops and exits.
IpaStop ==
    /\ pc = "ipaStop" /\ calls = <<>>
    /\ contexts' = ClearContexts
    /\ pc' = "drain"
    /\ UNCHANGED <<mode, active, ret, queueVars, frameVars, frame, device, sequence, calls, events, proxy, faults, fatal>>

\* Mutant: the events still posted are not dispatched.
IpaStoppedNoDrain ==
    /\ pc = "drain"
    /\ proxy' = "Stopped"
    /\ pc' = "self"
    /\ UNCHANGED <<mode, active, ret, queueVars, frameVars, frame, device, sequence, calls, events, contexts, faults, fatal>>

\* The proxy has dispatched the events the IPA had posted.
IpaStopped ==
    /\ pc = "drain" /\ events = <<>>
    /\ proxy' = "Stopped"
    /\ pc' = "self"
    /\ UNCHANGED <<mode, active, ret, queueVars, frameVars, frame, device, sequence, calls, events, contexts, faults, fatal>>

NextOff == [self |-> "main", main |-> "stat", stat |-> "param", param |-> "dewarp", dewarp |-> "clear"]

\* streamOff() returns the buffers of a device as cancelled, one by one.
StreamOff ==
    /\ pc \in Device
    /\ \/ BufferReady(pc, "Cancelled")
       \/ pc = "main" /\ DewarpInput("Cancelled")
       \/ pc = "dewarp" /\ DewarpOutput
       \/ /\ device[pc] = <<>>
          /\ pc' = NextOff[pc]
          /\ UNCHANGED <<mode, active, ret, queueVars, frameVars, frame, device, sequence, ipaVars, faults, fatal>>

\* The end of stopDevice().
StopDevice ==
    /\ pc = "clear"
    /\ IF queued = <<>> THEN UNCHANGED fatal ELSE Abort("stopDevice: queuedRequests_.empty()")
    /\ frameInfo' = <<>>
    /\ avail' = [p \in Pool |-> <<>>]
    /\ active' = FALSE
    /\ pc' = "waiting"
    /\ UNCHANGED <<mode, ret, queueVars, req, frame, device, sequence, ipaVars, faults>>

\* The end of stop() cancels the requests that were waiting.
StopWaiting ==
    /\ pc = "waiting"
    /\ IF stopped = <<>>
       THEN pc' = "loop" /\ UNCHANGED <<ret, req, queued, stopped>>
       ELSE /\ stopped' = Tail(stopped)
            /\ queued' = Append(queued, Head(stopped))
            /\ req' = [req EXCEPT ![Head(stopped)] = [status |-> "Cancelled", pending |-> {}]]
            /\ pc' = "complete" /\ ret' = "waiting"
    /\ UNCHANGED <<mode, active, waiting, frame, frameInfo, avail, device, sequence, ipaVars, faults, fatal>>

PipelineThread ==
    CompleteRequest \/ DoQueueRequests \/ IpaEvent \/ IpaStop \/ IpaStopped \/ StreamOff \/ StopDevice \/ StopWaiting

Next ==
    /\ fatal = "none"  \* the process lives
    /\ \/ PipelineThread
       \/ IpaThread
       \/ Capture
       \/ \E m \in Modes : Configure(m)
       \/ Start \/ StartFails
       \/ Stop
       \/ \E r \in Request : \E streams \in (SUBSET Streams(mode)) \ {{}} : QueueRequest(r, streams)

Spec == Init /\ [][Next]_vars

(***************************************************************************)
(* Properties                                                              *)
(***************************************************************************)

Lent(p) == {frameInfo[f][p] : f \in DOMAIN frameInfo}

\* BuffersAccounted: while the camera runs, an internal buffer is either in its
\* pool, once, or lent to exactly one frame, and a buffer in a device or a
\* frame in the hands of the IPA belongs to a frame that has not been
\* destroyed.  tryCompleteRequest() recycles the buffers of a frame when three
\* events that come in any order have happened: were it to miss one, the next
\* request would write a buffer that the hardware or the IPA still uses.
BuffersAccounted ==
    active =>
    /\ \A p \in Taken :
        /\ IsInjective(avail[p])
        /\ Len(avail[p]) + Cardinality(DOMAIN frameInfo) = MaxQueued
        /\ \A f, g \in DOMAIN frameInfo : f # g => frameInfo[f][p] # frameInfo[g][p]
        /\ \A i \in Range(avail[p]) : <<p, i>> \notin Lent(p)
    /\ \A d \in Device \ {"dewarp"} : \A i \in DOMAIN device[d] : FramesWith(device[d][i]) # {}
    /\ \A i \in DOMAIN calls : calls[i].frame \in DOMAIN frameInfo
    /\ \A i \in DOMAIN events : events[i].frame \in DOMAIN frameInfo

\* NoAbort: no ASSERT and no LOG(Fatal) of the handler, the proxy or the frame
\* context queue is reached, with one exception that the code does not handle:
\* when a device other than the dewarper refused a buffer of the session, nothing
\* completes that request and the ASSERT of stopDevice() aborts.  It needs
\* statistics that skip few frames: (MaxQueued - 1) * (MaxSkip + 2) <= FCSize.
NoAbort ==
    fatal # "none" =>
        /\ fatal = "stopDevice: queuedRequests_.empty()"
        /\ \E x \in faults : x[1] = "device"

\* ContextsKept: a pipeline handler that never has more requests in flight than
\* the frame context queue has slots never loses the context of a frame.
ContextsKept == fatal # "get: frame context overwritten"

Fifo == INSTANCE RequestFifo WITH
            fifo <- queued \o stopped \o waiting,
            held <- {r \in Request : req[r].status = "Free"}

\* InOrder: requests are returned in the order they were queued, each once,
\* although parameters, statistics, images and metadata of several frames
\* come back in any order and stop() cancels what is left.
InOrder == Fifo!Spec
=============================================================================
