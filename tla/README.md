# TLA+ models of libcamera

Models of the parts of libcamera in which the order of events matters: the path
of a request from the application to the capture devices and back, the V4L2
buffer queue under it, the event loop that everything runs on, the pipe and the
socket to an isolated IPA, the queue of delayed sensor controls, three pipeline
handlers with an IPA or a conversion stage of their own, and two clients, the
Android HAL and the GStreamer element. TLC checks each of them on small
instances; TLAPS proves, for every value of the constants, the main results about
the request path, the device under it, the IPC pipe and socket, the event notifiers
and the two clients. `PROJECT.json` maps every definition to the lines it models.
Paths below are relative to `src/src/libcamera/`, or to `src/src/` where they
begin with `android/`, `gstreamer/` or `ipa/`.

## The system

An application acquires a `Camera`, configures it, starts it and queues
`Request`s, each with one buffer per stream. `Camera` keeps a state machine and
hands every operation to the thread of the `CameraManager` (the pipeline thread)
by messages. There a `PipelineHandler` keeps the requests in two queues, waits
for the fences of their buffers, and gives them to the handler of the hardware,
which queues their buffers to V4L2 devices. Devices, timers, fences and IPC are
all served by one event loop per thread. Image processing algorithms (IPAs) run
in the same process or in a worker process, behind a proxy.

| Component | State | Operations | Interaction | What is hard |
|---|---|---|---|---|
| `Camera` (camera.cpp) | state, disconnected flag | acquire, configure, start, stop, release, queueRequest, disconnect | blocking and queued invocations of the pipeline thread | calls of several threads; hot-unplug between a call and its return |
| `PipelineHandler` (pipeline_handler.cpp) | waiting and queued requests, sequence number | queueRequest, doQueueRequests, completeBuffer, completeRequest, stop | called by messages and by device signals | completeRequest and doQueueRequests call each other; out-of-order completion; cancellation |
| `Request` (request.cpp) | status, pending buffers, fences, timer | prepare, completeBuffer, complete, cancel, reuse | event notifiers and a timer | the fence timeout races with the fences |
| imx8-isi (pipeline/imx8-isi) | devices of the streams | start, stopDevice, queueRequestDevice, bufferReady | V4L2VideoDevice | one of several devices fails |
| `V4L2VideoDevice` (v4l2_videodevice.cpp) | buffer cache, queued buffers, notifier, watchdog | import, allocate, release, queue, dequeue, streamOn, streamOff | ioctls, bufferReady signal | four records of the same buffers; slots that run inside streamOff |
| `Timer`, timers of `EventDispatcherPoll` (base/) | deadline, ordered list | start, stop, processTimers | timeout signal | handlers change the list while it is walked through |
| `Thread`, `Object`, `Message`, `Semaphore` (base/) | message queues, recursion depth, exit flag | postMessage, dispatchMessages, removeMessages, moveObject, exit, wait | eventfd, locks | wake-ups; nested dispatching; deletion under a handler |
| `EventNotifier`, notifiers of `EventDispatcherPoll` (base/) | map of descriptors | registration, poll, processNotifiers | activated signal | handlers change the map while it is walked through |
| `IPCPipeUnixSocket`, generated proxy and worker | calls in progress, cookies | sendSync, sendAsync, readyRead | a socket, the event loop | a call runs the event loop; late answers; a dead worker |
| `IPCUnixSocket` (ipc_unixsocket.cpp) | a header received, a notifier | send, receive, dataNotifier | a datagram socket | header and payload are two system calls, each of which may fail |
| `DelayedControls` (delayed_controls.cpp) | ring buffers, two counters | push, get, reset, applyControls | frame start events, the sensor | delays of controls; wrap-around; sessions; lost events |
| rkisp1 (pipeline/rkisp1, ipa/rkisp1, ipa/libipa) | frame information, pools of buffers, frame contexts | queueRequestDevice, paramsComputed, metadataReady, handlers of four devices, stopDevice | five devices, an IPA thread behind a proxy | completion needs events of several sources in any order; stop against the IPA thread |
| rpi vc4 (pipeline/rpi) | streams with internal and external buffers, bayer and embedded queues, state | queueRequestDevice, handleState, tryRunPipeline, cameraTimeout, stopDevice | Unicam, the ISP, an IPA thread | recursion through completeRequest; lost embedded data; the camera timeout |
| simple, converters, software ISP (pipeline/simple, converter, software_isp) | conversion queue, internal buffers, frame information | imageBufferReady, conversionInputDone, conversionOutputDone, metadataReady, stopDevice | a capture device, a converter, a debayering thread, an IPA thread | frames that fail half way; stop against two threads |
| Android HAL (android/camera_device.cpp, camera_stream.cpp) | queue of descriptors, pools of internal buffers, workers | processCaptureRequest, requestComplete, streamProcessingComplete, flush, configureStreams | the framework, `Camera`, a worker per stream | results in order from several threads; flush during submission |
| GStreamer element (gstreamer/) | queued and completed requests, pools, a task | task_run, requestCompleted, release of buffers, change_state, negotiate | the camera thread, elements downstream | wake-ups of a task that pauses itself |

What makes each correct: no request or buffer is lost, returned twice or
returned while the hardware has it; requests come back in order and all of them
do; no assertion of the code fails; the records that several classes keep of the
same thing agree; no wake-up is lost; a handler that changes what its caller is
walking through does no harm; a call gets its own answer; a control takes effect
at the frame it was meant for; an internal buffer is in one place at a time and
returns to its pool on every path on which a frame is given up.

## The modules

### CameraPipeline, RequestFifo, CaptureDevice

`CameraPipeline` is one camera with an imx8-isi like pipeline handler: the
application thread (`call`, `reply`), other threads inside `queueRequest()`
(`caller`), the messages to the pipeline thread (`msgs`), and the pipeline thread
itself. A blocking invocation is three steps, so that everything can happen
between the check of the state, the handler and the return: `Start`,
`HandleStart`, `StartReturn`. `queueRequest()` is `QueueRequestCheck` and
`QueueRequestPost`; between the two the state may change. A handler that emits
signals is a sequence of steps over `pc`: `RequestComplete` and `DoQueueRequest`
are the loops of `completeRequest()` and `doQueueRequests()`, which call each other
last, so that `pc` and the place `ret` to return to stand for the stack.
`HandleStop`, `StopDeviceBuffer`, `StopDeviceStream`, `StopWaitingRequest` and
`StopDone` are `PipelineHandler::stop()` with `stopDevice()`. `NotifierActivated`
and `Timeout` are the fences, `BufferReady` a buffer that comes back from a
device. `fatal` records the ASSERT or LOG(Fatal) that would have ended the
process; nothing happens afterwards. A request is the record `RequestPrivate`;
buffers are named by their stream; controls and metadata are left out.

`RequestFifo` is what the pipeline handler promises: a first-in first-out queue.
`CompletesInOrder` says that `CameraPipeline` implements it, with the queued, the
stopping and the waiting requests as the queue. `BuffersBracketSessions` is about
`start()` and `stop()`: a session begins with buffers on all streams, also after a
`start()` that failed half way. `CaptureDevice` is what a device promises the pipeline
handlers, every queued buffer comes back once; `V4L2VideoDevice` implements it
(`ReturnsOnce`), and `CameraPipeline` uses devices in the way it allows: its own device
actions return a buffer once, in any order.

`streamOff()` always succeeds in this model. `stopDevice()` ignores its error
(imx8-isi.cpp:951); after one the device would keep its buffers, and
ASSERT(queuedRequests_.empty()) in `PipelineHandler::stop()` would fail.

### V4L2VideoDevice

One capture device on the pipeline thread: `cache` is the `V4L2BufferCache`,
`queuedBuffers` the map of the class, `kqueue` and `kdone` the kernel's queues
(external). `streamOff()` is three steps (`streamOff`, `SendBack`,
`streamOffDone`), because slots run between them. `queueBufferFails` is a failing
VIDIOC_QBUF; with `KernelBug` the kernel may keep the buffer all the same, which
the comment at v4l2_videodevice.cpp:1859 describes. `releaseBuffers` is guarded by
"stopped and nothing queued", which the code does not check: it is a duty of the callers,
and all pipeline handlers release after `streamOff()`.

### TimerList, EventLoop, EventNotifiers

Three views of the event loop, each with what can go wrong in it. `TimerList` has
the ordered list of timers, the steps of `processTimers()`, and a clock; a deadline may
be in the future, now or in the past.
`EventLoop` has threads with message queues, posters, and one controller per
thread that starts it, asks it to exit and waits; `frames` is the stack of
`dispatchMessages()` calls with their iterators and filters, and what a message
handler may do is an action each (return, post, dispatch invocations, run
`processEvents()`, delete, move an object). `processEvents()` in a handler, as
`IPCPipeUnixSocket::call()` runs it, dispatches all messages, deferred deletions
included, and then polls: `MethodProcessesEvents`, `DispatchThenPoll`, `NestedPoll`. An
object may therefore be deleted under a handler of its own that runs `processEvents()`;
`NotDeletedInHandler` says that nothing else does it, and in particular not the filtered
`dispatchMessages()` of `SoftwareIsp::stop()`. Left out of `EventLoop`:
`processEvents()` in the slot of a notifier or a timer (these are `EventNotifiers` and
`IpcPipe`); a second `deleteLater()` of an object that is to be deleted; and the race of
`postMessage()`, which reads the receiver's thread before it takes the lock of the queue
(thread.cpp:562), with `moveObject()`: the model does both in one step, and
`postMessage()` documents the behaviour as undefined.

`EventNotifiers` has the map of descriptors and the stack of `processNotifiers()` rounds.
A round begins when `ppoll()` reports a descriptor (`Poll`) or the eventfd
(`Interrupted`); when only a timer is due there is none. A second notifier for the same
descriptor and type is ignored, with its `enabled_` set, as the code does after its
warning. A handler is a state of these models, not an atomic step, so all others
interleave with it.

### IpcPipe

The proxy's calls in progress (`callData`), the two directions of the socket and
the worker, which handles one message at a time. Every message carries the number
of the call it belongs to, as a history that the properties use; the code only
sees the cookie. The model starts after `init()`, the first call, has been
answered.

### IpcSocket

One direction of the socket under `IpcPipe`. `SendHeader` and `SendData` are the
two system calls of `send()`, either of which fails when the kernel's queue is full
(`Capacity`, external); `DataNotifier` is the reception in two steps and `Receive`
the call of the slot. `IpcPipe` assumes an ordered channel of whole messages, which
is what `MessagesWhole` and `MessagesArrive` say of the socket.

### DelayedControls

The ring buffers of `values_`, the two counters, and the sensor (external): a
control written at the start of frame s is in effect from frame s + delay on.
`FrameStartLost` is an event that the queue of the subdevice has dropped. `wanted`
and `spoiled` are history: what was asked for at each index, and which controls
were written for a `push()` that returned false. Both properties are about frames whose
slot has been queued: after lost events the sensor can be ahead of everything pushed.

### RkISP1

The rkisp1 pipeline handler, its IPA behind a threaded proxy, and the `FCQueue` of
the IPA. The configuration is one of ISP capture with one or two paths, ISP with
dewarper, and raw. `queueRequestDevice` takes buffers of the pools and posts two
calls; `IpaThread` runs one call and posts its event; `IpaEvent` is
`paramsComputed()`, which queues the buffers of the frame, or `metadataReady()`.
`Capture` is a device that finishes a buffer, with its handler; each ends with
`tryCompleteRequest`. `Stop`, `IpaStop`, `IpaStopped`, `StreamOff`, `StopDevice` and
`StopWaiting` are the steps of `stop()`: the proxy drains the IPA thread and
dispatches its events before the devices are stopped, and `streamOff()` calls the
handlers with cancelled buffers. Any `queueBuffer()` may be refused, that of the
parameters, whose error returns, and those of statistics and images, whose errors
rkisp1.cpp:495-501 and 1355-1358 ignore; the dewarper may fail; `start()` may fail
(`StartFails`). `faults` records who refused which frame. A frame that a device has
refused never completes, and the ASSERT in `stop()` then fails: `RkNoAbort` exempts these
behaviours, and only these; `RkBuffersAccounted` and `RkInOrder` do not.

### RpiPipeline

The vc4 variant of the Raspberry Pi handler. A stream has internal buffers, buffers
of requests that wait their turn, and buffers in its device. `stack` is the stack of
functions of the pipeline thread, because `checkRequestCompleted()`,
`completeRequest()`, `doQueueRequests()` and `handleState()` call each other.
`CaptureFrame` and `CaptureLost` are the receiver (external), with and without
embedded data; `IspRun` is the ISP. `CameraTimeout` is the watchdog of the receiver.
`StartFails` is a `start()` that fails and stops again. `session` tells what the current
session has met: "refused" after a `queueBuffer()` that failed, for a stream of a request
(`QueueRefused`, pipeline_base.cpp:784) or at the ISP (`IspRefuses`, vc4.cpp:879), and
"leftover" when `start()` found requests for buffers that `resetBuffers()` had left from
the session before. A refused buffer leaves the buffers of the earlier streams in their
devices, where they come back as unknown ones and join the internal buffers;
`RpiBuffersInPlace` and `RpiNoStall` are therefore about clean sessions, and `RpiNoAbort`
about sessions without a refusal, whatever the sessions before were like.

### SimplePipeline

The simple handler without converter, with a memory-to-memory converter of two
outputs, or with the software ISP; with or without a raw stream. `ImageBufferReady`
is a captured or failed frame; `m2m` holds the buffers in the converter, `swIsp` what
the debayering thread, the IPA thread and the messages back to the pipeline thread
have. The stop is `Stop`, then `StopM2m`, or `StopStep`, `StopSwIspOutput` and
`StopSwIspInput`, then `StopVideo` and `ClearIncompleteRequests`. `QueueRefused` is a
capture device that refuses the buffer of a request. `ConvertFails` is a converter whose
`queueBuffers()` fails (converter_v4l2_m2m.cpp:746), which simple.cpp:959 ignores: the
request has left the conversion queue and its input buffer is nowhere (`dropped`). The
properties of the handler are about behaviours without such an error, because they fail
in the others.

### AndroidHal

`CameraDevice` with a direct, an internal and any set of mapped streams (`Mapped`), all
but the first with a worker each; a request asks for one of the sets of `Requested`. A
mapped stream is produced from the buffer of the direct stream, or, when the request does
not ask for that one, from an internal buffer that the first mapped stream takes from its
pool and the others share. A call of `processCaptureRequest()` is `BuildDescriptor` and then one of
`RefuseRequest`, `AbortDuringFlush` and `QueueToCamera`, so that `flush()` (three
steps) may come between. The camera is used through its contract: it completes
requests in order, and all of them when it stops. The descriptors implement
`RequestFifo` too. The path for a mapped stream without a source buffer
(camera_device.cpp:1232) cannot be reached, as `BuildDescriptor` adds one, and the
ERROR_RESULT message (1205) is left out. `WorkerFinish` is one step: the status, the
return of the buffer and the removal from `pendingStreamsToProcess_`.

### GstSrc

The task of the element (`Pause` to `End` are one iteration), the completion handler
in the camera thread (three steps, for its two critical sections and the wake-up),
the pools and the elements downstream. A pool buffer is a shell and the frame of the
allocator in it; downstream may keep the frame longer than the shell. `start()` may fail,
`MaxFailures` times: in `task_enter()` the task stops; in `task_run()` nobody looks, and
the requests created then are refused, with wraps that stay in `queuedRequests_`.
`refused` tells whether that has happened in this session or before; `stale` are the
wraps of former sessions. After an unplug the element may be closed and opened again
(`Reopen`). Left out: a state change to PLAYING after `task_enter()` has failed, pools of
which a failing `negotiate()` has replaced only some, and `queueRequest()` that fails for
another reason than a camera that does not run.

### Modules of proofs

`CameraPipelineProofs` is about `CameraPipeline`, `ServicesProofs` about the device, the
notifiers, the pipe and the socket as `MCServices` puts them together, `StagesProofs` about
`GstSrc` and the HAL and `SimplePipelineProofs` about `SimplePipeline` as `MCStages` does,
`EventLoopProofs` about `EventLoop`, `HandlersProofs` about `DelayedControls` and `RkISP1`
and `RpiPipelineProofs` about `RpiPipeline` as `MCHandlers` does. `QueueLemmas` is what they
share.

### MC modules

`MCCameraPipeline` and `MCEventLoop` instantiate one specification. `MCServices`,
`MCHandlers` and `MCStages` put several in one run: a behaviour is one of a single
component, which the variable `part` names, and the others do not move. Nothing is
shared between the components, so the run shows of each what a run of its own would;
`MCHandlers` even uses the same variables for state that two components have under
the same name.

## The runs

| Run | Instance | Properties |
|---|---|---|
| capture_session | 2 requests, 2 streams, 1 request in the device, one thread; fences, failing start of stream 2, failing queueBuffer of stream 1 | TypeOK, NoFatal, CleanBetweenSessions, BuffersBracketSessions; CompletesAllInOrder under fairness |
| concurrent_callers | 3 requests, 2 streams, 2 requests in the device, two threads that queue, hot-unplug | OnePlace, NoStall, QueuesSound, CompletesInOrder |
| loop_messages | 2 threads, 2 objects, 2 posters, 3 messages, nesting 2 of either kind, either thread (not both) asked to exit | NoLostWakeup, NotDeletedInHandler, MessagesAccounted, DeliveredInOrder |
| services | device: 3 frame buffers, 2 V4L2 buffers, failing ioctls, kernel bug | CacheTracksQueue, RecordsAgree, ReturnsOnce; EveryBufferReturns |
| | timers: 3 timers, 4 instants | TimersServed |
| | notifiers: 2 descriptors, 4 notifiers | EntryExists; EventsServed |
| | pipe: 3 calls, nesting 2, 2 events, timeouts | RepliesMatch; CallsServed |
| | socket: 4 messages, a queue of 3 datagrams | MessagesWhole; MessagesArrive |
| handlers | delayed: 2 controls with delays 0 and 1, ring of 3, 3 frames, 1 lost | TakesEffect, ReadBack |
| | rkisp1: 3 requests, 2 in the device, 3 modes, 3 frame contexts, 1 refused buffer or failed dewarp, failing start | RkBuffersAccounted, RkNoAbort, RkInOrder |
| | rpi: 2 requests, 4 configurations, 3 frames, 1 lost, 1 timeout, 1 refused buffer or failing start | RpiNoAbort, RpiBuffersInPlace, RpiNoStall |
| stages | gstreamer: 2 pads, one with copies, 2 buffers each, 1 failing start, unplug and reopening | TaskWoken, WrapsKept |
| | simple: 3 requests, 2 in the device, 5 configurations, 1 failed frame, 1 fault of the debayer, 1 refusal of the converter | SimpleNoAbort, SimpleBuffersCirculate; SimpleServes |
| | android: 2 captures, 4 streams of which 2 are mapped, 4 sets of them, unplug | AndroidBuffersExclusive, AndroidResults; AndroidAnswers |
| queue_stop_race | 1 request queued by another thread | StateChangeHandled: violated |
| disconnect_completion | 3 requests, 2 in the device, hot-unplug | CompletesWhenDisconnected: violated |
| timer_restart | 2 timers, earlier deadlines | RestartReplaces: violated |
| ipc_late_reply | 2 calls, timeouts | RecvOnlyEvents: violated |
| frame_context | 2 requests, 2 in the device, 4 frame contexts, 3 frames skipped | ContextsKept: violated |
| rpi_reentry | 2 requests, 1 in the device | CompletedOnce: violated |

Properties with several parts: `QueuesSound` is the limit of the device, the sequence
numbers, the events of requests that wait for fences, and the buffers the hardware has;
`RecordsAgree` is kernel, notifier and watchdog against `queuedBuffers_`;
`MessagesAccounted` the counts of messages and the blocked callers; `TimersServed`,
`EventsServed`, `CallsServed`, `SimpleServes` and `AndroidResults` join what a step may
not do with what has to happen in the end. The type invariants of the modules that the
sum modules use are not checked again there, as each of their properties would fail or
not evaluate on an ill-typed state.

Why the bounds are enough. Two requests and a device for one of them make a
request wait while another one is worked on, which is what stalls, overtaking and
cancellation need; the third one in concurrent_callers puts two into the device,
so that they complete out of order, and one behind them; rkisp1 and simple have the
same three and two. `MaxSequence`, `MaxFrame` and `MaxFrames` only bound the length of a
session. With three frame buffers for two indices the cache has to give an index to
another buffer. Three timers put one ahead of, one behind and one equal to any other. A
nested `dispatchMessages()` has to skip, reach and leave messages for its caller, which
takes three. Four notifiers are two on one descriptor and two that use the same one in
turn. A queue of three datagrams is full after a header and a message, so that either
half of the next one may fail. A ring of three slots with a longest delay of one wraps
around within three frames, with one frame of history left to read back; the code's
ring has 16. Three frame contexts are as many as two frames in flight and a skipped one
need; the code has 16 for 4. Two buffers in a pool make it empty, partly filled and full.
The requests of rpi never wait for room in the device: with one more rpi_reentry would
end every behaviour. The cookies do not wrap around.

Deadlock is checked in capture_session and timer_restart. In the others the system may
stop: the process has aborted (all violations, and the faults that `NoAbort` names),
the bounded number of messages, calls, frames or captures has been used, or the
application does nothing more.

### Fairness

The pipeline thread keeps running (weak fairness of its steps), and each round of
`EventDispatcherPoll::processEvents()` serves all messages, all ready descriptors
and all expired timers, so that an event that keeps coming up is handled (strong
fairness of each). Running timers expire. That the hardware fills the buffers it
has while it streams is assumed. The application may stop calling at any time. In
`IpcPipe` and `IpcSocket` only the receiving side is fair: the worker may hang. Nothing
is assumed of the kernel's events in `EventNotifiers`: a property is about events that
stay. A round is fair there only while `ppoll()` has a descriptor to report, and nobody
need ever interrupt it: an entry that the last round emptied behind its back stays until
another round begins, and `EmptyEntriesErased` says no more than that. In `SimplePipeline` the pipeline thread, the debayering thread and the IPA thread
run, which are loops that block on their queues only; nothing is assumed of the
capture device. In `AndroidHal` the camera completes its requests (which
`CompletesAllInOrder` shows of `Camera`), calls in progress return, and workers run.

## What is proved

Thirty-four theorems in seven modules. Each is a statement about `Spec` of a component, for
every value of its constants that satisfies the hypotheses it names. Where a run
checks the property, the theorem says it for all instances.

**The request path** (`CameraPipelineProofs`), for any sets of requests and callers, any
number of streams and any limit of the device. The constants satisfy
`ConstantsAssumption`.

- `TypeCorrect`: `Spec => []TypeOK`.
- `RequestsInOnePlace`: `Spec => []OnePlace`. Every request is with the application,
  with one caller, in one message, or in one of the three queues, and there once.
- `RequestsCompleteInOrder`: `Spec => CompletesInOrder`, the refinement of `RequestFifo`.
- `BookkeepingSound` and `NoRequestStalls`: `[]QueuesSound` and `[]NoStall`, under
  `FirstStreamFaults`.
- `NoAssertionFails`, `SessionsEndClean` and `SessionsHaveBuffers`: `[]NoFatal`,
  `[]CleanBetweenSessions` and `BuffersBracketSessions`, under `FirstStreamFaults`,
  `OneThread` and `~Hotplug`.

None of the three hypotheses can be dropped. `FirstStreamFaults` (queueBuffer() may fail
for the first stream only): with a fault of the second stream
`NoFatal` is violated, as said below. `OneThread`: queue_stop_race. `~Hotplug`: disconnect_completion.

`OnePlace` is not inductive by itself: `stop()` moves the waiting requests to a list of
its own, and a second `stop()` would overwrite it. `PlaceInv` adds that the list is only
in use while `stop()` runs (`InStop`), which is when no message is handled. Each step
then moves at most one request from one place to the next (`PartitionMoves`). For the
refinement `OrderInv` adds that nothing waits while `stop()` runs: then taking the
waiting requests over does not change the concatenation of the three queues, a
request that starts to work moves from the head of one to the end of the next
(`ConcatShift`), a queued one is appended (`ConcatAppend`), and a completed one is
the head (`ConcatPop`). `QueueInv` adds the life of a request (`Lives`: what its status,
pending buffers, fences and timer are in each place), that the head of the queue has not
completed unless it is being completed (`HeadWorks`), what `stopDevice()` has emptied
(`StopCleared`) and which buffers a device owns (`DeviceOwnsPending`). `SessionInv` adds
the phase of the application's call (`CallInv`: what is in the messages at each of the
three steps of a blocking call), that outside a session all is quiet, and that a camera
that captures has imported its buffers.

**The device** (`ServicesProofs`), for any frame buffers, indices and faults:
`CacheFollowsQueue` (`[]CacheTracksQueue`), `RecordsFollowQueue` (`[]RecordsAgree`), and
`BuffersReturnOnce` (`Spec => ReturnsOnce`), the contract of `CaptureDevice`. `DeviceInv`
adds to them that nothing is queued without a cache, and that `streamOff()`, whose slots
run between its steps, sends back only buffers that are still queued, with the kernel
empty and the watchdog off.

**The event loop** (`EventLoopProofs`), for any sets of threads, objects and posters, any
number of messages and any depth of nested `dispatchMessages()` calls (`LoopAssumption`).

- `SleepersAreWoken`: `[]NoLostWakeup`; `HandlersKeepTheirObject`: `[]NotDeletedInHandler`;
  `MessagesStayCounted`: `[]MessagesAccounted`; `MessagesDeliveredInOrder`: the action
  property `DeliveredInOrder`.

None of the four is inductive. `LoopInv` says for each thread what makes nested calls
sound (`ThreadSound`): everything an iterator has passed is delivered or does not pass its
filters, and calls inside a handler take invocations or, from `processEvents()`,
everything (`Iterators`); every message, queued or being handled, is for an object of the
thread (`Bound`), which lives while the message is queued (`Living`); nobody waits for a
message of an object that has a deferred deletion (`Deletions`), so deleting it forgets no
caller; and the messages of one object are queued in the order of their numbers
(`Ordered`), which `moveObject()` keeps because an object has all its messages in one queue.
`Awake` adds why a loop that goes to sleep has an empty list: the outermost call of a loop
filters nothing and has passed everything. `Caller` says where the message of a blocked
poster is, thread by thread; from it the count in `CallerAccounted` follows. The lemmas about
`Entries` (`EntriesKept`, `EntriesSound`) show that taking messages out of a list pairs
what was there with what is left, which is what carries the cardinalities over
`moveObject()` and over the erasure of null entries. A defect of an earlier form of
`CallerAccounted` came to light here: it counted only positions up to the number of
messages, and null entries can push a message beyond that.

**Event notifiers, IPC pipe and socket** (`ServicesProofs`).

- `SocketKeepsMessagesWhole`: `[]MessagesWhole`. The channel alternates headers and
  payloads of the same message, and starts with a payload exactly when a header has been
  received (`SocketInv`).
- `CallsGetTheirAnswers`: `[]RepliesMatch`; `EventsPrecedeAnswers`: the action property
  that is the safety half of `CallsServed`. Under `CookiesSuffice`: the cookies do not
  wrap around, since after that a late answer may be taken for that of a new call.
  `CookieInv`: until then the cookie of a call is its number, and so is that of its
  answer. `OrderOfCalls` and `AnswersAreLast`: the worker and the socket keep
  the order of calls, and no event of a call is behind its answer.
- `EntriesStay`: `[]EntryExists`, under `NotNested`, which a nested `processEvents()`
  shows to be needed (below). `RoundsSound`: the descriptors that a round still has to
  visit are keys of the map, because unregistering erases nothing while a round runs.
- `OnlyEnabledActivated`: the action property that is the safety half of `EventsServed`.

**The clients** (`StagesProofs`).

- `BuffersStayCounted`: `[]WrapsKept`, and `TaskIsWoken`: `[]TaskWoken`, for any number of
  pads, buffers, failing starts, unplugs and reopenings (`GstConstants`). `WrapInv` counts: requests with a wrap are in one of
  two queues or with a thread (`Places`), the first of them is that of the first request in
  the camera unless requests were refused in an earlier session (`CameraFirst`), wraps are distinct, and for every
  pad pool, downstream and wraps add up to the size of the pool (`PoolCounted`, with
  `WrapsCounted` for the cardinality of the wraps). `WakeInv` says why no wake-up is
  lost: a completed request, or a pool that has just become non-empty, has a signal under
  way or a task that has not yet looked.
- `HalBuffersExclusive`: `[]AndroidBuffersExclusive` for any set of mapped streams, and
  `[]ReturnedWhenDone` for at most one (with two it is violated: below);
  `HalResultsAnnounced`: `AndroidResults`, the refinement of `RequestFifo` with the
  messages; for any frame numbers from 1 on (`HalConstants`). `HalInv`: a frame that is being built or is in the
  camera is with no worker and has sent nothing (`CameraStage`), a frame at a worker has
  sent its shutter and still has that stream to process (`WorkerStage`), and only one
  worker is left with a frame that has none (`LastStage`); so completion happens once.
  `MessageInv` has the messages of frames that are not sent yet, and `PoolInv` separates
  the buffers in use from those in the pool.

**The pipeline handlers with an IPA** (`HandlersProofs`).

- `ControlsTakeEffect`: `[]TakesEffect`, and `ControlsReadBack`: `[]ReadBack`, for any
  controls, delays, frames and lost events, under `DelayedConstants`: `ListSize > 1` and
  `ResetOnStart`. With one slot two rejected pushes would overwrite the slot that is still
  to be written (the code has 16); without the reset a session begins with the counters of
  the one before (below). `DelayedInv` says that
  the counters are apart by lost events and no more is pending than the ring holds
  (`CountsSound`), that a slot still has what was wanted at its index unless it was reused
  (`RingSound`) and is marked exactly when a `push()` set it (`MarksSound`), that nothing
  was set between an index and the `push()` its value comes from (`SinceSound`), and that
  at every frame the value of the last index written in time is in effect (`EffectSound`).
- `RkRequestsInOrder`: `RkInOrder`, the refinement of `RequestFifo`, and `RkBuffersKept`:
  `[]RkBuffersAccounted`, for any numbers of requests and frame contexts, in every mode,
  whichever buffers are refused and however often `start()` fails (`RkConstants`). `OrderInv` has the phases of `stop()` and the frames of the requests that
  are queued. `FrameInv` follows each frame (`FrameSound`): which of its buffers are inside
  which device, which calls and events of the IPA are about it, and that these are what
  `tryCompleteRequest()` waits for; so a frame is destroyed with nothing of it outside, and
  what is outside belongs to one frame (`DevicesSound`, `PoolsSound`).

**The simple pipeline handler** (`SimplePipelineProofs`), for any requests, any number of
buffers and any set of configurations (`SimpleConstants`).

- `SimpleBuffersStay`: `[]SimpleBuffersCirculate`; `SimpleNeverAborts`: `[]SimpleNoAbort`;
  `SimpleInOrder`: the refinement of `RequestFifo`, the safety half of `SimpleServes`, in
  the behaviours in which the converter drops no frame, `[](dropped = 0)`. The first two
  have that premise in the properties, and TLC explores what comes after.

`SimpleConstants` has every request bring a buffer for every stream (`~Partial`): a
request that does not is never completed (see `Partial = TRUE` below). Frames that fail, and
frames the debayer fails to map, are allowed; `NoAbort` itself is about runs without the
latter. None of the three is inductive. `SimpleInv` says that a stream of a request is
pending exactly as long as its buffer is in the capture device, in the input or the output
of the converter, or its conversion is still to come (`PiecesSound`); that a request has a
frame info of its own until these are cleared (`SimpleFrames`), which is kept because a
buffer or the metadata is missing (`Missing`), and that the metadata comes (`MetadataComes`);
that the converter's reference counts are those of its two input queues (`M2mSound`); and
which of all that is empty at each stage of `stop()` (`SimplePhases`). The assertions of the
software ISP compare an event with the head of a queue: `Follows` says that what the events
and the debayer still have is in the queues, in the same order, and `Covers` that nothing
else is in them as long as the debayer lost nothing. `LeftOver` is why `stop()` finds no
request in the end: what is pending then waits for a conversion, and is cancelled. The
invariant holds as long as the process lives, which is part of the induction (`SimpleSafe`).
An earlier form of `InternalBuffersCirculate` looked at where the thread returns to also
when it was not going to return; `Stage` now says where it is.

**The Raspberry Pi pipeline handler** (`RpiPipelineProofs`), for any number of requests,
frames, timeouts and lost embedded data.

- `RpiNeverAborts`: `[](session # "refused" => RpiNoAbort)`.
- `RpiBuffersStay`: `[]RpiBuffersInPlace`, under `RpiConstants`.
- `RpiNeverStalls`: `[]RpiNoStall`, under `RpiConstants`.

`RpiConstants`: no request waits for room in the device. The camera may be started any
number of times without being configured, `start()` may fail and devices may refuse
buffers. What is said is said of sessions without a refusal, and the last two of sessions
that began without leftover requests for buffers; that needs an invariant of the other
sessions as well (`AnySession`), strong enough that `stop()` and `start()` lead back to a
state from which a clean session can begin.

The premise of `NoAbort`, that no request waits for room in the device, is needed
(rpi_reentry, below); what it means in the proof is that a request waits no longer than
`doQueueRequests()` runs (`NoneWaits`), since a queue without repetitions that misses a
request is shorter than the number of requests (`RoomInQueue`). Then `completeRequest()`
does not run `handleState()` within itself, and the functions in progress are one of a
few stacks (`RpiStacks`). `RpiInv` says for each what `requestQueue_` and
`queuedRequests_` have in common, when the request that is being completed has left one
and not the other (`InStep`); what `state_` is (`StatesSound`); that in state Busy exactly
one thing is under way, a call of the IPA, an event, an image in the ISP or its statistics,
and nothing in other states (`OneJob`), so that a handler finds the request it is about;
and that a request has metadata only while the pipeline works on it (`FilledSound`), which
`tryRunPipeline()` asserts. A late event after `stop()` or after a timeout is harmless
because it is ignored (`LateEventSound`) and gone before the next `start()`.

For the buffers `PlaceInv` puts the queues of a stream in one line, from the images that
wait for the IPA to the requests that wait for an internal buffer (`Line`). An internal
buffer is in the line, at hand, or in work, and once (`Conserved`); the line of an external
stream has exactly one entry for each request whose turn has not come, in the order of the
requests: the request's own buffer where it has one, else an internal buffer or the wish
for one (`InOrder`); the buffer of the first request is in work from its turn until it is
back (`Owned`). `InOrder` is the part that `BuffersInPlace` does not say and cannot do
without: `handleStreamBuffer()` compares a buffer with the first request only, so a buffer
that came back ahead of its request would go to the internal ones. `AtHand` is the contract
of `RPi::Stream`: an internal buffer is at hand only while no request waits for one, which
`queueBuffer()` and `returnBuffer()` keep (`QueueBufferSound`, `ReturnBufferSound`). For
`NoStall`, `Exhausted` says what `tryRunPipeline()` and `checkRequestCompleted()` leave
undone when they return: an image without its embedded data, a request with pending
buffers. A stall would then need an internal buffer that is nowhere.

`QueueLemmas` has the facts about sequences, and induction over the natural numbers,
that these proofs share. Before each proof TLC checked the inductive invariant on the
instance of the run.

Only model-checked: all liveness and with it the second halves of the joined properties
(out of the prover's reach, as is ENABLED), `CompletesAllInOrder`, `EveryBufferReturns`
and `MessagesArrive` among it; `TimerList`, about which nothing is proved yet; of `RkISP1`,
`RkNoAbort`.

## Where the code and its documentation disagree

Six runs show it; the quotations are in `PROJECT.json`.

- **queue_stop_race.** `Camera::queueRequest()` relies on the pipeline handler to
  deal with a state that has changed; `PipelineHandler::queueRequest()` does not
  look at it. A request posted behind `stop()` reaches a stopped device.
- **disconnect_completion.** "Disconnected cameras are still able to complete
  requests", but the unplug has moved the camera to Configured, in which
  `requestComplete()` aborts.
- **timer_restart.** `Timer::start()` changes the deadline before it removes the
  running timer from a list that is ordered by it, and may leave it there.
- **ipc_late_reply.** The answer to a call that has timed out is taken for an event.
- **frame_context.** The frame context queue is said not to overflow when no more
  requests are in flight than it has slots. `statBufferReady()` lets the frame numbers
  catch up with a sensor that has skipped frames, and two frames in flight get the
  same slot. With (requests in flight - 1) * (skipped + 2) slots TLC finds no violation
  of `RkNoAbort`; with fewer it does (3 requests, one skipped frame: 6 slots suffice, 5
  do not).
- **rpi_reentry.** `checkRequestCompleted()` completes a request before it removes it
  from the queue and leaves its state; a request that was waiting for room enters the
  state machine in between and completes it again.

More properties that the code's documentation or its assertions state, and that do not
hold. They are in the modules without a run; TLC refutes each with the constants given.

| Property | Constants | What happens |
|---|---|---|
| `CameraPipeline!BuffersMarkedOnce` (request.cpp:99, ASSERT at 111) | capture_session, `QueueFaults = {2}` | When the second stream's `queueBuffer()` fails, the first stream's buffer is in the device and the request is completed; the device then returns a buffer that nobody waits for. |
| `EventNotifiers!LookupFinds` (ASSERT at event_dispatcher_poll.cpp:256) | services, `MaxRounds = 2` | A handler that runs `processEvents()`, as a synchronous IPC call does, erases entries that the outer `processNotifiers()` still looks up. |
| `IpcSocket!PayloadsEntire` (ipc_unixsocket.cpp:50) | `MaxMessages = 4`, `Capacity = 3` | After a payload that could not be sent every later header is taken for a payload. |
| `ReadBack`, `TakesEffect` (delayed_controls.cpp:192) | handlers, `ResetOnStart = FALSE` | rkisp1 and mali-c55 do not call `reset()` in `start()`, and the second session reads and writes the slots of the first. |
| `GstSrc!WrapFound` (g_return_if_fail at gstlibcamerasrc.cpp:240) | `NumPads = 1`, `MaxFailures = 1` | A failing `start()` after a renegotiation is ignored (758); the wraps of the requests that are then refused are taken for those of the next session. |
| `AndroidHal!ReturnedWhenDone` (camera_device.cpp:1371) | `Requested = {{"jpeg", "copy"}}` | Of two mapped streams that share an internal buffer the one that took it returns it when its own worker is done, while the other still reads it. |
| `SimplePipeline!RequestKeepsFrame` (simple.cpp:882) | stages | A request whose raw capture failed leaves its other outputs at the head of the conversion queue, and the next frame is converted into them. |
| `AndroidHal!FlushQuiesces` (camera3.h: no request is left after `flush()`) | stages | `flush()` returns while workers still process streams. |
| `GstSrc!WakeupRaceFree` (gstlibcamerasrc.cpp:714) | stages | Memory that outlives its pool buffer downstream is released without a wake-up. |

And limits of the passing runs, each a premise of a property or a constant:

- `spoiled` in `DelayedControls`: a `push()` that returns false leaves controls in
  the slot, and a frame that starts before the next one writes them.
- `session` in `RpiPipeline`: `resetBuffers()` of `RPi::Stream` (rpi_stream.cpp:67) leaves
  the requests for buffers of the session before, and a stream waits for a buffer that
  nobody brings; a refused buffer puts the images one request behind. Without the premise
  `session = "clean"` `RpiNoStall` and `RpiBuffersInPlace` are violated.
- `faults` in `RkISP1`: a buffer that cannot be queued (rkisp1.cpp:488, 495-501,
  1355-1358) leaves its request behind, and `PipelineHandler::stop()` asserts that none is.
- `dropped` in `SimplePipeline`: a frame that the converter does not queue
  (simple.cpp:959) leaves its request behind and its input buffer nowhere.
- `faults` in `SimplePipeline`: a debayering that cannot map its buffers emits
  nothing, and the queues of `SoftwareIsp` no longer match its events
  (debayer_cpu.cpp:990).
- `Partial = TRUE` in stages: a request without a buffer for a converted stream is
  never completed by the simple handler.

Met while reading, and outside the models: `exit()` stores `exit_` and loads
`dispatcher_` in an order that the memory orders do not enforce, and neither does
`exec()`, so that an exit during the start of a thread may be lost (thread.cpp:380;
the model is sequentially consistent); `wait()` with a duration joins the thread
after it has timed out (thread.cpp:420; `Wait` models the join); `start()` of a camera
that is unplugged on the way back sets Running, and neither `stop()` nor `release()`
work afterwards (camera.cpp:1425); `queueBuffer()` starts the watchdog of a device
that does not stream (v4l2_videodevice.cpp:1797, against the documentation of
`setDequeueTimeout()`); `CameraDevice::stop()` of the HAL drops the
descriptors before the workers that use them have been joined (camera_device.cpp:434),
`processCaptureRequest()` ignores what `queueRequest()` returns (camera_device.cpp:1133:
`lost` in `AndroidHal`), and internal buffers of a descriptor that is refused or aborted
do not return to their pool; `send_event()` of the GStreamer element does not resume the
task that is to send the event (gstlibcamerasrc.cpp:1071).

## Not modelled

Formats, configuration, controls and metadata, serialization, YAML: data without
an order of events. IPA algorithms: floating point over statistics. Kernel and Android
headers, tables of formats and tags, generated code: declarations. Together these are
most of the lines of the repository, so that a small share of them is behind the models
although the models cover most of the code in which an order of events matters.

The V4L2 compatibility layer (v4l2_camera_proxy.cpp) is the one client with a protocol
of its own left. It hands out buffers in the order of a ring (`currentBuf_`) and counts
completed ones apart from the list of them; neither count nor list is reset by
`streamOff()`, which a model would have to start from. Python and the applications are
clients without one. The other pipeline handlers vary what is modelled: ipu3 and
mali-c55 the frame information of rkisp1, pisp the streams of vc4, uvcvideo and vimc the
plain path of imx8-isi. The camera manager changes its list on one thread.

In the modelled parts: object parents, signals across threads and thread affinity;
requests of V4L2; moving a timer to another thread; the reuse of a descriptor within a
round; cookies that wrap around, and events during `init()`; failing control writes;
fences in the handlers other than `CameraPipeline`; the sizes of buffers.

## Plan

Done, in this order: the request path with its abstract specifications and its proofs;
the device; the event loop in three modules; the IPC pipe and socket; delayed controls;
the rkisp1, rpi and simple pipeline handlers; the Android HAL and the GStreamer element.

Proved since: the request path up to its assertions, the device, the notifiers, the pipe
and the socket, the GStreamer element and the HAL, the event loop, the delayed controls,
the order and the buffers of the rkisp1 handler, the simple handler, the Raspberry Pi
handler.

Next theorems, with the strengthening each needs:

1. `RkISP1`: `RkNoAbort`, from the order of the frames in calls, devices and events and the
   distance between the oldest frame in flight and the frame number.
2. `TimerList`: its order, between a `start()` and the round that runs the timers.

Next module, should there be one: the V4L2 compatibility layer.
