----------------------------- MODULE AndroidHal -----------------------------
(***************************************************************************)
(* The Android camera HAL: CameraDevice, its request descriptors and the    *)
(* post-processing worker of every stream that libcamera does not produce   *)
(* itself.                                                                  *)
(*                                                                          *)
(* Threads: the framework thread in process_capture_request() (one call at  *)
(* a time), a second framework thread in flush(), the pipeline thread in    *)
(* requestComplete(), and one PostProcessorWorker per internal or mapped    *)
(* stream.  stateMutex_, descriptorsMutex_ and streamsProcessMutex_ make    *)
(* the steps below atomic.  A descriptor is named by its frame number.      *)
(* The camera completes requests in order.  As camera3.h asks, the          *)
(* framework configures only when every result has been returned.           *)
(***************************************************************************)
EXTENDS Integers, Sequences, FiniteSets

CONSTANTS Frames,     \* frame numbers, 1 .. n: bounds the requests of a run
          Mapped,     \* mapped streams: those that configureStreams() associates with the direct one
          Requested,  \* bound: sets of streams that a request may ask for
          MaxBuffers, \* bound: internal buffers of a stream
          Unplug      \* whether queueRequest() may fail because the camera is gone

Streams == {"direct", "internal"} \cup Mapped
Processed == Streams \ {"direct"}

VARIABLES state,        \* CameraDevice::state_
          camera,       \* "stopped", "running" or "stopping"
          building,     \* frame whose descriptor processCaptureRequest() has built, or 0
          flushing,     \* where flush() is: "idle", "begin" or "stop"
          descriptors,  \* descriptors_
          desc,         \* the descriptors, by frame
          requests,     \* requests in the camera
          workers,      \* requests_ of each worker, and the descriptor it works on
          buffers,      \* CameraStream::buffers_
          allocated,    \* size of CameraStream::allocatedBuffers_
          notified,     \* messages sent to the framework, by frame
          lost          \* frames that Camera::queueRequest() refused

captureVars == <<descriptors, desc, notified>>
vars == <<state, camera, building, flushing, captureVars, requests, workers, buffers, allocated, lost>>

\* Messages of camera3_callback_ops::notify().
Shutter == <<"shutter", "request">>
ErrorRequest == <<"error", "request">>
ErrorBuffer(s) == <<"buffer", s>>

NoDescriptor == [live |-> FALSE, streams |-> {}, internal |-> <<>>, pending |-> {},
                 errors |-> {}, complete |-> FALSE]
IdleWorker == [queue |-> <<>>, busy |-> 0, done |-> FALSE]

Init ==
    /\ state = "Stopped" /\ camera = "stopped"
    /\ building = 0 /\ flushing = "idle"
    /\ descriptors = <<>>
    /\ desc = [f \in Frames |-> NoDescriptor]
    /\ notified = [f \in Frames |-> {}]
    /\ requests = <<>>
    /\ workers = [s \in Processed |-> IdleWorker]
    /\ buffers = [s \in Processed |-> <<>>]
    /\ allocated = [s \in Processed |-> 0]
    /\ lost = {}

(***************************************************************************)
(* CameraStream: the internal buffers.                                     *)
(***************************************************************************)

\* The streams of a request that take an internal buffer: the internal stream, and,
\* when the request has no direct stream to map from, the mapped stream that comes
\* first in the framework's list.  The other mapped streams read that same buffer.
NeedBuffer(streams) ==
    LET mapped == streams \cap Mapped IN
    IF "direct" \in streams \/ mapped = {} THEN {streams \cap {"internal"}}
    ELSE {(streams \cap {"internal"}) \cup {first} : first \in mapped}

\* getBuffer(): the buffer returned last, or a new one.
getBuffer(s) == IF buffers[s] = <<>> THEN allocated[s] + 1 ELSE buffers[s][Len(buffers[s])]

\* putBuffer() for stream s of descriptor d.
putBuffer(d, s) ==
    IF s \in DOMAIN d.internal THEN [buffers EXCEPT ![s] = Append(@, d.internal[s])] ELSE buffers

(***************************************************************************)
(* Results.                                                                *)
(***************************************************************************)

\* A thread is in the loop of sendCaptureResults(), with descriptorsMutex_ held.
Sending == descriptors # <<>> /\ desc[Head(descriptors)].complete

\* completeDescriptor() for descriptor f, with the descriptors d and the queue q.
completeDescriptor(f, d, q) ==
    /\ descriptors' = q
    /\ desc' = [d EXCEPT ![f].complete = TRUE]

\* Mutant: the result of any complete descriptor is sent.
SendCaptureResultUnordered ==
    /\ \E i \in DOMAIN descriptors :
        /\ desc[descriptors[i]].complete
        /\ desc' = [desc EXCEPT ![descriptors[i]].live = FALSE]
        /\ descriptors' = SelectSeq(descriptors, LAMBDA f : f # descriptors[i])
    /\ UNCHANGED <<state, camera, building, flushing, notified, requests, workers, buffers, allocated, lost>>

\* One iteration of sendCaptureResults(): the result is sent, the descriptor freed.
SendCaptureResult ==
    /\ Sending
    /\ desc' = [desc EXCEPT ![Head(descriptors)].live = FALSE]
    /\ descriptors' = Tail(descriptors)
    /\ UNCHANGED <<state, camera, building, flushing, notified, requests, workers, buffers, allocated, lost>>

\* abortRequest(): every buffer is in error.
abortRequest(d) == [d EXCEPT !.errors = d.streams]
Notify(f, messages) == notified' = [notified EXCEPT ![f] = @ \cup messages]

(***************************************************************************)
(* processCaptureRequest()                                                 *)
(***************************************************************************)

\* The descriptor is built.  processControls() may then refuse the request.
BuildDescriptor(f, streams, need) ==
    /\ need \in NeedBuffer(streams)
    /\ building = 0
    /\ ~desc[f].live /\ desc[f].streams = {}
    /\ f # 1 => desc[f - 1].streams # {}
    /\ \A s \in need : getBuffer(s) <= MaxBuffers
    /\ desc' = [desc EXCEPT ![f] =
           [NoDescriptor EXCEPT !.live = TRUE, !.streams = streams,
                                !.internal = [s \in need |-> getBuffer(s)],
                                !.pending = streams \cap Processed]]
    /\ allocated' = [s \in Processed |->
           IF s \in need /\ buffers[s] = <<>> THEN allocated[s] + 1 ELSE allocated[s]]
    /\ buffers' = [s \in Processed |->
           IF s \in need /\ buffers[s] # <<>>
           THEN SubSeq(buffers[s], 1, Len(buffers[s]) - 1) ELSE buffers[s]]
    /\ building' = f
    /\ UNCHANGED <<state, camera, flushing, descriptors, notified, requests, workers, lost>>

\* processControls() or Camera::start() fails: the descriptor is destroyed, and
\* its internal buffers do not return to the streams.
RefuseRequest ==
    /\ building # 0
    /\ desc' = [desc EXCEPT ![building].live = FALSE]
    /\ building' = 0
    /\ UNCHANGED <<state, camera, flushing, descriptors, notified, requests, workers, buffers, allocated, lost>>

\* A request that arrives during flush() is put in the queue and aborted.
AbortDuringFlush ==
    /\ building # 0 /\ state = "Flushing" /\ ~Sending
    /\ Notify(building, {ErrorRequest})
    /\ completeDescriptor(building, [desc EXCEPT ![building] = abortRequest(@)], Append(descriptors, building))
    /\ building' = 0
    /\ UNCHANGED <<state, camera, flushing, requests, workers, buffers, allocated, lost>>

\* The request is queued, after start() if the camera is stopped.  The result
\* of Camera::queueRequest() is ignored.
QueueToCamera ==
    /\ building # 0 /\ state # "Flushing" /\ ~Sending
    /\ state' = "Running" /\ camera' = "running"
    /\ descriptors' = Append(descriptors, building)
    /\ \/ requests' = Append(requests, building) /\ UNCHANGED lost
       \/ Unplug /\ lost' = lost \cup {building} /\ UNCHANGED requests
    /\ building' = 0
    /\ UNCHANGED <<flushing, desc, notified, workers, buffers, allocated>>

(***************************************************************************)
(* requestComplete(), in the pipeline thread.                              *)
(***************************************************************************)

\* The request failed or was cancelled.
RequestCancelled ==
    /\ requests # <<>> /\ ~Sending
    /\ LET f == Head(requests) IN
       /\ Notify(f, {ErrorRequest})
       /\ completeDescriptor(f, [desc EXCEPT ![f] = abortRequest(@)], descriptors)
    /\ requests' = Tail(requests)
    /\ UNCHANGED <<state, camera, building, flushing, workers, buffers, allocated, lost>>

\* The request completed: shutter, metadata, and every stream to post-process
\* goes to its worker, except those of "failed", whose process() failed.  The source
\* of a stream to process always has a buffer in the request.
RequestComplete(failed) ==
    /\ requests # <<>> /\ ~Sending
    /\ LET f == Head(requests)
           d == desc[f]
           left == d.pending \ failed
           e == [d EXCEPT !.pending = left, !.errors = @ \cup failed]
       IN  /\ failed \subseteq d.pending
           /\ Notify(f, {Shutter} \cup {ErrorBuffer(s) : s \in failed})
           /\ workers' = [s \in Processed |->
                  IF s \in left THEN [workers[s] EXCEPT !.queue = Append(@, f)] ELSE workers[s]]
           /\ buffers' = [s \in Processed |-> IF s \in failed THEN putBuffer(d, s)[s] ELSE buffers[s]]
           /\ IF left = {} THEN completeDescriptor(f, [desc EXCEPT ![f] = e], descriptors)
              ELSE desc' = [desc EXCEPT ![f] = e] /\ UNCHANGED descriptors
    /\ requests' = Tail(requests)
    /\ camera # "stopped"
    /\ UNCHANGED <<state, camera, building, flushing, allocated, lost>>

(***************************************************************************)
(* PostProcessorWorker                                                     *)
(***************************************************************************)

\* Mutant: the buffer returns to its pool when processing starts.
WorkerTakeEarly(s) ==
    /\ workers[s].busy = 0 /\ workers[s].queue # <<>>
    /\ workers' = [workers EXCEPT ![s] = [queue |-> Tail(@.queue), busy |-> Head(@.queue), done |-> FALSE]]
    /\ buffers' = putBuffer(desc[Head(workers[s].queue)], s)
    /\ UNCHANGED <<state, camera, building, flushing, captureVars, requests, allocated, lost>>

\* run() takes the next stream buffer.
WorkerTake(s) ==
    /\ workers[s].busy = 0 /\ workers[s].queue # <<>>
    /\ workers' = [workers EXCEPT ![s] = [queue |-> Tail(@.queue), busy |-> Head(@.queue), done |-> FALSE]]
    /\ UNCHANGED <<state, camera, building, flushing, captureVars, requests, buffers, allocated, lost>>

\* streamProcessingComplete() up to the end of its critical section: the status,
\* the internal buffer, the entry of pendingStreamsToProcess_.
WorkerFinish(s, ok) ==
    /\ workers[s].busy # 0 /\ ~workers[s].done
    /\ LET f == workers[s].busy IN
       /\ desc' = [desc EXCEPT ![f].pending = @ \ {s}, ![f].errors = IF ok THEN @ ELSE @ \cup {s}]
       /\ Notify(f, IF ok THEN {} ELSE {ErrorBuffer(s)})
       /\ buffers' = putBuffer(desc[f], s)
       /\ workers' = [workers EXCEPT ![s] =
              IF desc[f].pending = {s} THEN [@ EXCEPT !.done = TRUE] ELSE [@ EXCEPT !.busy = 0]]
    /\ UNCHANGED <<state, camera, building, flushing, descriptors, requests, allocated, lost>>

\* Mutant: the worker of the last stream does not complete the descriptor.
WorkerCompleteNothing(s) ==
    /\ workers[s].done /\ ~Sending
    /\ workers' = [workers EXCEPT ![s].busy = 0, ![s].done = FALSE]
    /\ UNCHANGED <<state, camera, building, flushing, captureVars, requests, buffers, allocated, lost>>

\* Its last stream: completeDescriptor().
WorkerComplete(s) ==
    /\ workers[s].done /\ ~Sending
    /\ completeDescriptor(workers[s].busy, desc, descriptors)
    /\ workers' = [workers EXCEPT ![s].busy = 0, ![s].done = FALSE]
    /\ UNCHANGED <<state, camera, building, flushing, notified, requests, buffers, allocated, lost>>

(***************************************************************************)
(* flush() and configureStreams()                                          *)
(***************************************************************************)

FlushBegin ==
    /\ flushing = "idle" /\ state = "Running"
    /\ state' = "Flushing"
    /\ flushing' = "begin"
    /\ UNCHANGED <<camera, building, captureVars, requests, workers, buffers, allocated, lost>>

FlushStop ==
    /\ flushing = "begin"
    /\ flushing' = "stop" /\ camera' = "stopping"
    /\ UNCHANGED <<state, building, captureVars, requests, workers, buffers, allocated, lost>>

\* Camera::stop() has returned: it has completed all requests.
FlushEnd ==
    /\ flushing = "stop" /\ requests = <<>> /\ ~Sending
    /\ flushing' = "idle" /\ camera' = "stopped" /\ state' = "Stopped"
    /\ UNCHANGED <<building, captureVars, requests, workers, buffers, allocated, lost>>

\* configureStreams() begins with stop(), which drops the descriptors, the
\* streams with their workers, and the internal buffers.
ConfigureStreams ==
    /\ building = 0 /\ flushing = "idle" /\ descriptors = <<>>
    /\ state' = "Stopped" /\ camera' = "stopped"
    /\ workers' = [s \in Processed |-> IdleWorker]
    /\ buffers' = [s \in Processed |-> <<>>]
    /\ allocated' = [s \in Processed |-> 0]
    /\ UNCHANGED <<building, flushing, captureVars, requests, lost>>

Camera == RequestCancelled \/ \E failed \in SUBSET Processed : RequestComplete(failed)

Worker(s) == WorkerTake(s) \/ WorkerComplete(s) \/ \E ok \in BOOLEAN : WorkerFinish(s, ok)

ProcessCaptureRequest == RefuseRequest \/ AbortDuringFlush \/ QueueToCamera

Next ==
    \/ \E f \in Frames, streams \in Requested, need \in SUBSET Processed :
           BuildDescriptor(f, streams, need)
    \/ ProcessCaptureRequest
    \/ Camera
    \/ SendCaptureResult
    \/ \E s \in Processed : Worker(s)
    \/ FlushBegin \/ FlushStop \/ FlushEnd
    \/ ConfigureStreams

Spec == Init /\ [][Next]_vars

\* The camera completes requests, the post-processors finish, calls return.
FairSpec ==
    /\ Spec
    /\ WF_vars(Camera) /\ WF_vars(SendCaptureResult) /\ WF_vars(ProcessCaptureRequest)
    /\ \A s \in Processed : WF_vars(Worker(s))

(***************************************************************************)
(* Properties                                                              *)
(***************************************************************************)

Fifo == INSTANCE RequestFifo WITH
            Request <- Frames,
            fifo <- descriptors,
            held <- Frames \ {descriptors[i] : i \in DOMAIN descriptors}

\* ResultsInOrder: results reach the framework in submission order, one for
\* each accepted request, although workers of different streams, cancelled
\* requests and requests aborted by flush() complete descriptors in any order.
ResultsInOrder == Fifo!Spec

\* Frames for which stream s has taken a buffer and its own processing is not over, and
\* frames for which some stream that reads that buffer is not done.
InUse(s) == {f \in Frames : desc[f].live /\ s \in DOMAIN desc[f].internal
                             /\ (s \in desc[f].pending /\ ~desc[f].complete)}
Readers(f, s) == IF s \in Mapped THEN desc[f].streams \cap Mapped ELSE {s}
ReadFor(s) == {f \in Frames : desc[f].live /\ s \in DOMAIN desc[f].internal
                               /\ Readers(f, s) \cap desc[f].pending # {} /\ ~desc[f].complete}

\* The buffers that stream s holds for the frames of "users" are different, and not
\* in its pool, where no buffer is twice.
Exclusive(s, users) ==
    /\ \A f, g \in users : f # g => desc[f].internal[s] # desc[g].internal[s]
    /\ \A i \in DOMAIN buffers[s] :
        /\ \A f \in users : desc[f].internal[s] # buffers[s][i]
        /\ \A j \in DOMAIN buffers[s] : i # j => buffers[s][i] # buffers[s][j]

\* BuffersExclusive: a buffer of a stream's pool is never captured into, or processed
\* by that stream, for two frames at once, and is never in the pool, or twice in it,
\* while the stream that took it needs it for a frame.  It says nothing of the other
\* mapped streams that read the buffer: see ReturnedWhenDone.
BuffersExclusive == \A s \in Processed : Exclusive(s, InUse(s))

\* ReturnedWhenDone: a buffer returns to its pool only "now that we're done processing
\* it" (the comments at both calls of putBuffer()), for all the streams that read it.
\* It does not hold when two mapped streams share a buffer: the stream that took it
\* returns it when its own worker is done, and the next request captures into it.
ReturnedWhenDone == \A s \in Processed : Exclusive(s, ReadFor(s))

Sent(f) == desc[f].complete /\ ~desc[f].live

\* NotifiedResults: a result follows exactly one of a shutter and a request
\* error message; after a request error all its buffers are in error, and
\* every other buffer in error was announced (camera3.h, flush, cases 2 and 3).
NotifiedResults ==
    \A f \in Frames : Sent(f) =>
        /\ (Shutter \in notified[f]) # (ErrorRequest \in notified[f])
        /\ ErrorRequest \in notified[f] => desc[f].errors = desc[f].streams
        /\ Shutter \in notified[f] =>
             desc[f].errors = {s \in Processed : ErrorBuffer(s) \in notified[f]}

\* ResultsAnnounced: results come in order, and after the messages that announce them.
ResultsAnnounced == ResultsInOrder /\ []NotifiedResults

\* EveryCaptureAnswered: an accepted request gets its result in the end, unless
\* the camera refused a request, which leaves its descriptor, and all later
\* ones, waiting for ever.
EveryCaptureAnswered ==
    \A f \in Frames : (\E i \in DOMAIN descriptors : descriptors[i] = f) ~> (Sent(f) \/ lost # {})

\* FlushQuiesces: flush() returns when no request is left in the HAL, as camera3.h
\* asks.  It does not hold: flush() does not wait for the post-processors.
FlushQuiesces == [][FlushEnd => descriptors' = <<>>]_vars
=============================================================================
