------------------------------- MODULE GstSrc -------------------------------
(***************************************************************************)
(* The GStreamer source element: the task that queues and pushes, the       *)
(* completion handler in the camera thread, the buffer pool of each pad     *)
(* and the allocator behind it.                                             *)
(*                                                                          *)
(* The task pauses itself at the start of an iteration and is resumed by    *)
(* itself, by the completion handler and by a pool that was empty.  A pool  *)
(* buffer is a GstBuffer of the pool (shells) with the memory of a frame of *)
(* the allocator (frames); an element downstream may keep the memory in a   *)
(* buffer of its own after it has released the pool's.  A request and its   *)
(* RequestWrap have one name.  GstTask and the pads' peers are external:    *)
(* gst_task_pause() and the task's look at its state are one step, and      *)
(* gst_task_resume() acts on a paused task only.                            *)
(***************************************************************************)
EXTENDS Naturals, Sequences, FiniteSets, FiniteSetsExt, SequencesExt

CONSTANTS NumPads,   \* size of srcpads_
          PoolSize,  \* buffers of a stream
          Copied,    \* pads with a video pool, whose frames are copied
          MaxFailures \* bound on the failures of start(), configurations included, and unplugs

Pads == 1 .. NumPads
Requests == 1 .. PoolSize

VARIABLES task,        \* state of the GstTask
          pc,          \* where the task's thread is
          doResume,    \* the local of task_run()
          acquired,    \* number of pads whose buffer the new wrap has
          taken,       \* the wrap processRequest() has taken, or 0
          more,        \* whether it left another one
          queuedRequests, completedRequests,
          stale,       \* wraps of earlier pools, in queuedRequests_ before those of queuedRequests
          refused,     \* history: the camera has refused a request, "no", "now" or "before" the
                       \* present session
          camera,      \* requests in the camera
          running,     \* whether the camera is
          done,        \* wrap of requestCompleted() between its two critical sections, or 0
          wake,        \* requestCompleted() is about to resume the task
          mismatch,    \* history: requestCompleted() found another request's wrap
          shells,      \* size of GstLibcameraPool::queue, by pad
          frames,      \* size of the allocator's pool, by pad
          notify,      \* buffer-notify signals about to be emitted: the pad and the thread
          down,        \* buffers that elements downstream have, by pad
          kept,        \* frames whose memory alone is kept downstream, by pad
          wasKept,     \* history: that has happened with the present pools
          oldBuffers,  \* buffers of earlier pools are still downstream
          eos,         \* pending_eos: "none", "pending" or "sent"
          playing,     \* the element is in PLAYING
          connected,   \* the camera is there
          failures     \* so far

taskVars == <<task, pc, doResume, acquired, taken, more>>
cameraVars == <<camera, running, done, wake, mismatch>>
poolVars == <<shells, frames, notify>>
downVars == <<down, kept, wasKept, oldBuffers>>
appVars == <<eos, playing, connected, failures>>
staleVars == <<stale, refused>>
queues == <<queuedRequests, completedRequests, staleVars>>
vars == <<taskVars, queues, cameraVars, poolVars, downVars, appVars>>

None == [p \in Pads |-> 0]
Filled == [p \in Pads |-> PoolSize]

Init ==
    /\ task = "stopped" /\ pc = "off" /\ doResume = FALSE
    /\ acquired = 0 /\ taken = 0 /\ more = FALSE
    /\ queuedRequests = <<>> /\ completedRequests = <<>> /\ stale = 0 /\ refused = "no"
    /\ camera = <<>> /\ running = FALSE /\ done = 0 /\ wake = FALSE /\ mismatch = FALSE
    /\ shells = None /\ frames = None /\ notify = {}
    /\ down = None /\ kept = None /\ wasKept = FALSE /\ oldBuffers = FALSE
    /\ eos = "none" /\ playing = FALSE /\ connected = TRUE /\ failures = 0

\* gst_task_resume()
Resumed == IF task = "paused" THEN "started" ELSE task

Wraps == (ToSet(queuedRequests) \cup ToSet(completedRequests) \cup {done, taken}) \ {0}

\* Mutant: a pool looks whether it is empty after it has queued the buffer.
NotifiesAfter(n) == {p \in Pads : n[p] > 0 /\ shells[p] + n[p] = 0}

\* release_buffer(): the pads whose pool tells of n[p] buffers released to it.
Notifies(n) == {p \in Pads : n[p] > 0 /\ shells[p] = 0}

\* reset_buffer() and release_buffer() for n[p] buffers of each pad, up to the signal.
Release(n) ==
    /\ shells' = [p \in Pads |-> shells[p] + n[p]]
    /\ frames' = [p \in Pads |-> frames[p] + n[p]]

\* The same by a thread other than the task's, which emits the signal after it.
ReleaseThenNotify(n, thread) ==
    /\ Release(n)
    /\ notify' = notify \cup (Notifies(n) \X {thread})

Emitting(thread) == \E p \in Pads : <<p, thread>> \in notify

\* Buffers of k wraps.
OfWraps(k) == [p \in Pads |-> k]

(***************************************************************************)
(* The task.                                                               *)
(***************************************************************************)

\* negotiate() replaces the pools.  Wraps of refused requests stay in queuedRequests_,
\* with their buffers of the old pools.
NewPools ==
    /\ shells' = Filled /\ frames' = Filled
    /\ oldBuffers' = (oldBuffers \/ down # None \/ kept # None)
    /\ down' = None /\ kept' = None /\ wasKept' = FALSE
    /\ stale' = stale + Len(queuedRequests) /\ queuedRequests' = <<>>

\* Camera::start() fails on a camera that is gone, and for any other reason.
StartCamera(ok) ==
    /\ running' = ok
    /\ refused' = IF refused = "no" THEN "no" ELSE "before"
    /\ \/ ok /\ connected /\ UNCHANGED failures
       \/ ~ok /\ ~connected /\ UNCHANGED failures
       \/ ~ok /\ connected /\ failures < MaxFailures /\ failures' = failures + 1

\* task_enter(): negotiate() makes the pools and the camera starts.  gst_task_pause()
\* in READY_TO_PAUSED has started the thread.  When the configuration, negotiate() or
\* start() fails the task stops, and task_leave() gives up what pools there are.
TaskEnter ==
    /\ pc = "off"
    /\ pc' = "wait"
    /\ NewPools
    /\ \E ok \in BOOLEAN : StartCamera(ok) /\ task' = IF ok THEN "paused" ELSE "stopped"
    /\ eos' = IF eos = "sent" THEN "none" ELSE eos
    /\ UNCHANGED <<doResume, acquired, taken, more, completedRequests, camera, done, wake, mismatch, notify,
                   playing, connected>>

\* PAUSED_TO_PLAYING
Play ==
    /\ pc = "wait" /\ task = "paused" /\ ~playing
    /\ task' = "started" /\ playing' = TRUE
    /\ UNCHANGED <<pc, doResume, acquired, taken, more, queues, cameraVars, poolVars, downVars, eos, connected, failures>>

\* PAUSED_TO_READY: gst_task_join()
Join ==
    /\ pc # "off" /\ task # "stopped"
    /\ task' = "stopped"
    /\ UNCHANGED <<pc, doResume, acquired, taken, more, queues, cameraVars, poolVars, downVars, appVars>>

\* The start of an iteration.
Pause ==
    /\ pc = "wait" /\ task = "started"
    /\ task' = "paused" /\ doResume' = FALSE
    /\ IF eos = "pending"
       THEN eos' = "sent" /\ UNCHANGED pc
       ELSE pc' \in {"create", "stop"} /\ UNCHANGED eos
    /\ UNCHANGED <<acquired, taken, more, queues, cameraVars, poolVars, downVars, playing, connected, failures>>

\* A pad has asked for other caps: cam_->stop(), here and in task_leave().
StopCamera ==
    /\ running /\ \/ pc = "stop"
                  \/ pc = "wait" /\ task = "stopped"
    /\ running' = FALSE
    /\ UNCHANGED <<taskVars, queues, camera, done, wake, mismatch, poolVars, downVars, appVars>>

Stopped == ~running /\ camera = <<>> /\ done = 0 /\ ~wake /\ ~Emitting("camera")

\* cam_->stop() has returned: clearRequests(), negotiate() and cam_->start(), whose
\* result is ignored.  When negotiate() fails the old pools stay and the task stops
\* after this iteration.
Renegotiate ==
    /\ pc = "stop" /\ Stopped
    /\ completedRequests' = <<>>
    /\ \E ok \in BOOLEAN : StartCamera(ok)
    /\ pc' = "create"
    /\ \/ connected /\ NewPools /\ UNCHANGED task
       \/ /\ task' = "stopped"
          /\ Release(OfWraps(Len(completedRequests)))
          /\ UNCHANGED <<queuedRequests, stale, downVars>>
    /\ UNCHANGED <<doResume, acquired, taken, more, camera, done, wake, mismatch, notify, eos, playing, connected>>

\* task_leave(): the pads give up their pools.
TaskLeave ==
    /\ pc = "wait" /\ task = "stopped" /\ Stopped
    /\ completedRequests' = <<>>
    /\ pc' = "off" /\ playing' = FALSE
    /\ shells' = None /\ frames' = None
    /\ UNCHANGED <<task, doResume, acquired, taken, more, queuedRequests, staleVars, cameraVars, notify, downVars,
                   eos, connected, failures>>

\* queueRequest(): createRequest() fails when the camera is gone, and the task stops.
CreateRequest ==
    /\ pc = "create"
    /\ IF connected THEN pc' = "acquire" /\ UNCHANGED task
       ELSE pc' = "wait" /\ task' = "stopped"
    /\ UNCHANGED <<doResume, acquired, taken, more, queues, cameraVars, poolVars, downVars, appVars>>

\* acquire_buffer() of the next pad.
Acquire ==
    /\ pc = "acquire" /\ acquired < NumPads
    /\ LET p == acquired + 1 IN
        /\ shells[p] > 0 /\ frames[p] > 0
        /\ shells' = [shells EXCEPT ![p] = @ - 1]
        /\ frames' = [frames EXCEPT ![p] = @ - 1]
        /\ acquired' = p
    /\ UNCHANGED <<task, pc, doResume, taken, more, queues, cameraVars, notify, downVars, appVars>>

\* Mutant: the buffers of the other pads are not given back.
AcquireFailsLeaks ==
    /\ pc = "acquire" /\ acquired < NumPads
    /\ shells[acquired + 1] = 0 \/ frames[acquired + 1] = 0
    /\ acquired' = 0 /\ pc' = "process"
    /\ UNCHANGED <<task, doResume, taken, more, queues, cameraVars, poolVars, downVars, appVars>>

\* It has none: the wrap is destroyed with the buffers of the pads before.
AcquireFails ==
    /\ pc = "acquire" /\ acquired < NumPads
    /\ shells[acquired + 1] = 0 \/ frames[acquired + 1] = 0
    /\ LET n == [p \in Pads |-> IF p <= acquired THEN 1 ELSE 0] IN
        /\ Release(n)
        /\ task' = IF Notifies(n) # {} THEN Resumed ELSE task
    /\ acquired' = 0 /\ pc' = "process"
    /\ UNCHANGED <<doResume, taken, more, queues, cameraVars, notify, downVars, appVars>>

\* The rest of queueRequest(), with lock_ held: the wrap is queued whatever
\* Camera::queueRequest() returns.  It refuses when the camera is gone or not running.
QueueRequest ==
    /\ pc = "acquire" /\ acquired = NumPads
    /\ LET r == Min(Requests \ Wraps) IN
        /\ queuedRequests' = Append(queuedRequests, r)
        /\ IF connected /\ running
           THEN camera' = Append(camera, r) /\ UNCHANGED refused
           ELSE refused' = (IF refused = "no" THEN "now" ELSE refused) /\ UNCHANGED camera
    /\ acquired' = 0 /\ doResume' = TRUE /\ pc' = "process"
    /\ UNCHANGED <<task, taken, more, completedRequests, stale, running, done, wake, mismatch, poolVars, downVars, appVars>>

\* processRequest(), with lock_ held.
ProcessTake ==
    /\ pc = "process"
    /\ IF completedRequests = <<>>
       THEN pc' = "end" /\ UNCHANGED <<taken, more, completedRequests>>
       ELSE /\ taken' = Head(completedRequests)
            /\ completedRequests' = Tail(completedRequests)
            /\ more' = (Len(completedRequests) > 1)
            /\ pc' = "push"
    /\ UNCHANGED <<task, doResume, acquired, queuedRequests, staleVars, cameraVars, poolVars, downVars, appVars>>

\* The frames are pushed, or copied to a buffer of the video pool and released.
\* The flow may also end or fail, and the task stops.
ProcessPush ==
    /\ pc = "push"
    /\ LET n == [p \in Pads |-> IF p \in Copied THEN 1 ELSE 0] IN
        /\ Release(n)
        /\ down' = [p \in Pads |-> down[p] + 1 - n[p]]
        /\ \/ /\ pc' = "end" /\ doResume' = (doResume \/ more)
              /\ task' = IF Notifies(n) # {} THEN Resumed ELSE task
           \/ /\ pc' = "wait" /\ task' = "stopped" /\ UNCHANGED doResume
    /\ taken' = 0
    /\ UNCHANGED <<acquired, more, queues, cameraVars, notify, kept, wasKept, oldBuffers, appVars>>

\* The end of an iteration.
End ==
    /\ pc = "end"
    /\ pc' = "wait"
    /\ task' = IF doResume THEN Resumed ELSE task
    /\ UNCHANGED <<doResume, acquired, taken, more, queues, cameraVars, poolVars, downVars, appVars>>

(***************************************************************************)
(* The camera thread.                                                      *)
(***************************************************************************)

\* requestCompleted(), up to the second time it takes lock_.  A request that is
\* cancelled, or not the one of its wrap, ends here and the wrap's buffers go back.
CompletesOne == camera # <<>> /\ done = 0 /\ ~wake /\ ~Emitting("camera")

RequestCompleted ==
    /\ CompletesOne /\ stale = 0
    /\ camera' = Tail(camera)
    /\ LET wrap == Head(queuedRequests) IN
        /\ queuedRequests' = Tail(queuedRequests)
        /\ mismatch' = (mismatch \/ wrap # Head(camera))
        /\ \/ /\ running /\ wrap = Head(camera)
              /\ done' = wrap
              /\ UNCHANGED poolVars
           \/ /\ ReleaseThenNotify(OfWraps(1), "camera")
              /\ UNCHANGED done
    /\ UNCHANGED <<taskVars, completedRequests, staleVars, running, wake, downVars, appVars>>

\* The wrap at the front is one of an earlier session, with buffers of earlier pools.
StaleCompleted ==
    /\ CompletesOne /\ stale > 0
    /\ camera' = Tail(camera)
    /\ stale' = stale - 1 /\ mismatch' = TRUE /\ oldBuffers' = TRUE
    /\ UNCHANGED <<taskVars, queuedRequests, completedRequests, refused, running, done, wake, poolVars,
                   down, kept, wasKept, appVars>>

PushCompleted ==
    /\ done # 0
    /\ completedRequests' = Append(completedRequests, done)
    /\ done' = 0 /\ wake' = TRUE
    /\ UNCHANGED <<taskVars, queuedRequests, staleVars, camera, running, mismatch, poolVars, downVars, appVars>>

ResumeTask ==
    /\ wake
    /\ wake' = FALSE
    /\ task' = Resumed
    /\ UNCHANGED <<pc, doResume, acquired, taken, more, queues, camera, running, done, mismatch, poolVars, downVars, appVars>>

(***************************************************************************)
(* Elements downstream, the pools' signal and the application.             *)
(***************************************************************************)

ReleaseBuffer(p) ==
    /\ down[p] > 0 /\ pc # "off" /\ ~Emitting("downstream")
    /\ down' = [down EXCEPT ![p] = @ - 1]
    /\ ReleaseThenNotify([None EXCEPT ![p] = 1], "downstream")
    /\ UNCHANGED <<taskVars, queues, cameraVars, kept, wasKept, oldBuffers, appVars>>

\* The pool's buffer is released and its memory lives on in another one.
ReleaseShell(p) ==
    /\ down[p] > 0 /\ pc # "off" /\ ~Emitting("downstream")
    /\ down' = [down EXCEPT ![p] = @ - 1]
    /\ kept' = [kept EXCEPT ![p] = @ + 1] /\ wasKept' = TRUE
    /\ shells' = [shells EXCEPT ![p] = @ + 1]
    /\ notify' = IF shells[p] = 0 THEN notify \cup {<<p, "downstream">>} ELSE notify
    /\ UNCHANGED <<taskVars, queues, cameraVars, frames, oldBuffers, appVars>>

\* gst_libcamera_allocator_release(): the frame is free, and nobody is told.
ReleaseMemory(p) ==
    /\ kept[p] > 0 /\ pc # "off"
    /\ kept' = [kept EXCEPT ![p] = @ - 1]
    /\ frames' = [frames EXCEPT ![p] = @ + 1]
    /\ UNCHANGED <<taskVars, queues, cameraVars, shells, notify, down, wasKept, oldBuffers, appVars>>

\* buffer-notify, connected to gst_task_resume()
BufferNotify ==
    /\ \E n \in notify : notify' = notify \ {n}
    /\ task' = Resumed
    /\ UNCHANGED <<pc, doResume, acquired, taken, more, queues, cameraVars, shells, frames, downVars, appVars>>

\* The pools of before are connected to the task too.
OldBuffersReleased ==
    /\ oldBuffers
    /\ oldBuffers' = FALSE
    /\ task' = Resumed
    /\ UNCHANGED <<pc, doResume, acquired, taken, more, queues, cameraVars, poolVars, down, kept, wasKept, appVars>>

\* send_event()
SendEos ==
    /\ eos = "none" /\ playing
    /\ eos' = "pending"
    /\ UNCHANGED <<taskVars, queues, cameraVars, poolVars, downVars, playing, connected, failures>>

Disconnect ==
    /\ connected /\ failures < MaxFailures
    /\ connected' = FALSE /\ failures' = failures + 1
    /\ UNCHANGED <<taskVars, queues, cameraVars, poolVars, downVars, eos, playing>>

\* close() in READY_TO_NULL and open() in NULL_TO_READY, of a camera that is there.
\* queuedRequests_ is left as it is.
Reopen ==
    /\ pc = "off" /\ ~connected
    /\ connected' = TRUE
    /\ UNCHANGED <<taskVars, queues, cameraVars, poolVars, downVars, eos, playing, failures>>

Next ==
    \/ TaskEnter \/ Play \/ Join \/ Pause \/ StopCamera \/ Renegotiate \/ TaskLeave
    \/ CreateRequest \/ Acquire \/ AcquireFails \/ QueueRequest
    \/ ProcessTake \/ ProcessPush \/ End
    \/ RequestCompleted \/ StaleCompleted \/ PushCompleted \/ ResumeTask
    \/ \E p \in Pads : ReleaseBuffer(p) \/ ReleaseShell(p) \/ ReleaseMemory(p)
    \/ BufferNotify
    \/ OldBuffersReleased \/ SendEos \/ Disconnect \/ Reopen

Spec == Init /\ [][Next]_vars

-----------------------------------------------------------------------------

\* The task sleeps and nobody is about to resume it.
Asleep ==
    /\ pc = "wait" /\ task = "paused" /\ playing
    /\ done = 0 /\ ~wake /\ notify = {}

Buffers == \A p \in Pads : shells[p] > 0 /\ frames[p] > 0

\* TaskWoken: the task never sleeps while there is a completed request to push or a
\* buffer of every pad to queue, whatever the order in which it pauses itself,
\* requests complete and elements downstream return buffers.  Memory that is kept
\* downstream longer than the buffer it came in is the one exception.
TaskWoken ==
    (Asleep /\ connected /\ eos # "sent") => completedRequests = <<>> /\ (~Buffers \/ wasKept)

\* WakeupRaceFree: the same without the exception, as the comment in task_run() says.
\* It does not hold: memory freed later than its buffer is not announced to the task.
WakeupRaceFree ==
    (Asleep /\ connected /\ eos # "sent") => completedRequests = <<>> /\ ~Buffers

\* WrapsKept: requestCompleted() takes the wrap of the request it is about, as long as
\* the camera has refused no request in an earlier session, and no buffer of the pools
\* is lost on the paths where a request is given up, is refused or is not found.
WrapsKept ==
    /\ mismatch => refused = "before"
    /\ pc # "off" => \A p \in Pads :
        shells[p] + down[p] + Cardinality(Wraps) + (IF p <= acquired THEN 1 ELSE 0) = PoolSize

\* WrapFound: the first wrap is always that of the request that completes, as
\* g_return_if_fail() in requestCompleted() asserts.  It does not hold: task_run()
\* ignores a failing start(), and the wraps of the requests refused then are still in
\* queuedRequests_ when the next session's requests complete.
WrapFound == ~mismatch
=============================================================================
