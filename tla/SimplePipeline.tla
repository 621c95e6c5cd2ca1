--------------------------- MODULE SimplePipeline ---------------------------
(***************************************************************************)
(* The simple pipeline handler, with no conversion, with a V4L2             *)
(* memory-to-memory converter of two output streams, or with the software   *)
(* ISP; the last two optionally with a raw stream beside the processed one. *)
(*                                                                          *)
(* Without a raw stream the capture device runs on internal buffers that    *)
(* belong to no request: the head of conversionQueue_ gets the next frame.  *)
(* With one, the raw buffers of the requests are captured into.             *)
(*                                                                          *)
(* Threads: the pipeline thread under "pc", the debayer thread and the IPA  *)
(* thread of the software ISP.  The IPA's queueRequest() and computeParams()*)
(* cause no event this handler waits for and are left out.                  *)
(***************************************************************************)
EXTENDS Integers, Sequences, FiniteSets, Functions, SequencesExt

CONSTANTS Request,
          Configs,     \* configurations tried, subset of Configuration
          Partial,     \* whether requests may lack a buffer for some stream
          MaxQueued,   \* kMaxQueuedRequestsDevice, also kNumInternalBuffers
          MaxSequence, \* bound: requests queued in one session
          MaxErrors,   \* bound: errors of the capture device
          MaxFaults    \* bound: frames the debayer fails to map, or the converter to queue

Configuration == [conv : {"none"}, raw : {FALSE}] \cup [conv : {"m2m", "soft"}, raw : BOOLEAN]

VARIABLES config, active, pc, ret,
          waiting, queued, stopped,  \* requests, as PipelineHandler keeps them
          req,                       \* status and pending buffers of each request
          sequence,                  \* requestSequence_
          frameInfo,                 \* SimpleFrames::frameInfo_, by request sequence
          conversionQueue,           \* conversionQueue_
          video,                     \* buffers in the capture device
          m2m,                       \* V4L2M2MConverter: buffers in the devices, and queue_
          swIsp,                     \* SoftwareIsp: queuedInput/OutputBuffers_ and what its threads have
          errors, faults,
          dropped,                   \* frames that the memory-to-memory converter failed to queue
          mixed,                     \* outputs were converted from another request's raw buffer
          fatal

queueVars == <<waiting, queued, stopped>>
convVars == <<m2m, swIsp>>
vars == <<config, active, pc, ret, queueVars, req, sequence, frameInfo, conversionQueue, video,
          convVars, errors, faults, dropped, mixed, fatal>>

useConversion == config.conv # "none"
Outs(c) == IF c.conv = "m2m" THEN {"a", "b"} ELSE {"a"}
Streams(c) == Outs(c) \cup IF c.raw THEN {"raw"} ELSE {}
Internal == useConversion /\ ~config.raw

\* Buffers of the capture device: an internal one, or the one of a request.
InternalBuffer(i) == [request |-> <<>>, id |-> i]
RequestBuffer(r) == [request |-> <<r>>, id |-> 0]
CapturedStream == IF config.raw THEN "raw" ELSE "a"

NoM2m == [in |-> [s \in {"a", "b"} |-> <<>>], out |-> [s \in {"a", "b"} |-> <<>>], queue |-> <<>>]
NoSwIsp == [in |-> <<>>, out |-> <<>>, debayer |-> <<>>, events |-> <<>>, ipa |-> <<>>, metadata |-> <<>>]
FreeRequest == [status |-> "Free", pending |-> {}, sequence |-> 0]

Init ==
    /\ config \in Configs
    /\ active = FALSE
    /\ pc = "loop" /\ ret = "loop"
    /\ waiting = <<>> /\ queued = <<>> /\ stopped = <<>>
    /\ req = [r \in Request |-> FreeRequest]
    /\ sequence = 0
    /\ frameInfo = <<>> /\ conversionQueue = <<>> /\ video = <<>>
    /\ m2m = NoM2m /\ swIsp = NoSwIsp
    /\ errors = 0 /\ faults = 0 /\ dropped = 0
    /\ mixed = FALSE /\ fatal = "none"

(***************************************************************************)
(* Completion.                                                             *)
(***************************************************************************)

completeBuffers(r, streams) == [req EXCEPT ![r].pending = @ \ streams]

\* metadataRequired = false for request r.
NoMetadata(r) ==
    IF req[r].sequence \in DOMAIN frameInfo
    THEN [frameInfo EXCEPT ![req[r].sequence].required = FALSE] ELSE frameInfo

\* tryCompleteRequest(), with the requests q and the frame infos info.
tryCompleteRequest(r, q, info) ==
    LET f == q[r].sequence IN
    IF q[r].pending # {} \/ f \notin DOMAIN info \/ (f \in DOMAIN info /\ info[f].required /\ ~info[f].processed)
    THEN req' = q /\ frameInfo' = info /\ UNCHANGED <<pc, ret>>
    ELSE /\ req' = [q EXCEPT ![r].status = "Complete"]
         /\ frameInfo' = Restrict(info, DOMAIN info \ {f})
         /\ pc' = "complete" /\ ret' = pc

\* PipelineHandler::completeRequest()
CompleteRequest ==
    /\ pc = "complete"
    /\ IF queued # <<>> /\ req[Head(queued)].status # "Pending"
       THEN /\ req' = [req EXCEPT ![Head(queued)] = FreeRequest]
            /\ queued' = Tail(queued)
            /\ UNCHANGED pc
       ELSE pc' = "doQueue" /\ UNCHANGED <<req, queued>>
    /\ UNCHANGED <<config, active, ret, waiting, stopped, sequence, frameInfo, conversionQueue, video,
                   convVars, errors, faults, dropped, mixed, fatal>>

(***************************************************************************)
(* Queueing a request.                                                     *)
(***************************************************************************)

QueueRequest(r, streams) ==
    /\ active /\ pc = "loop"
    /\ sequence + Len(waiting) < MaxSequence
    /\ req[r].status = "Free"
    /\ req' = [req EXCEPT ![r] = [status |-> "Pending", pending |-> streams, sequence |-> 0]]
    /\ waiting' = Append(waiting, r)
    /\ pc' = "doQueue" /\ ret' = "loop"
    /\ UNCHANGED <<config, active, queued, stopped, sequence, frameInfo, conversionQueue, video,
                   convVars, errors, faults, dropped, mixed, fatal>>

\* queueRequestDevice(): a captured stream goes to the device, converted ones
\* wait in conversionQueue_.
queueRequestDevice(r) ==
    LET outputs == IF useConversion THEN req[r].pending \ {"raw"} ELSE {} IN
    /\ video' = IF req[r].pending # outputs THEN Append(video, RequestBuffer(r)) ELSE video
    /\ fatal' = IF sequence \in DOMAIN frameInfo THEN "create: inserted" ELSE fatal
    /\ frameInfo' = [f \in DOMAIN frameInfo \cup {sequence} |->
           IF f \in DOMAIN frameInfo THEN frameInfo[f]
           ELSE [request |-> r, required |-> outputs # {} /\ config.conv = "soft", processed |-> FALSE]]
    /\ conversionQueue' = IF useConversion THEN Append(conversionQueue, [request |-> r, outputs |-> outputs])
                          ELSE conversionQueue

DoQueueRequests ==
    /\ pc = "doQueue"
    /\ IF waiting # <<>> /\ Len(queued) # MaxQueued
       THEN /\ waiting' = Tail(waiting)
            /\ queued' = Append(queued, Head(waiting))
            /\ req' = [req EXCEPT ![Head(waiting)].sequence = sequence]
            /\ sequence' = sequence + 1
            /\ queueRequestDevice(Head(waiting))
            /\ UNCHANGED pc
       ELSE /\ pc' = ret
            /\ UNCHANGED <<waiting, queued, req, sequence, video, fatal, frameInfo, conversionQueue>>
    /\ UNCHANGED <<config, active, ret, stopped, convVars, errors, faults, dropped, mixed>>

\* The capture device refuses the buffer: the request is cancelled.
QueueRefused ==
    LET r == Head(waiting) IN
    /\ pc = "doQueue" /\ waiting # <<>> /\ Len(queued) # MaxQueued
    /\ ~useConversion \/ "raw" \in req[r].pending
    /\ errors < MaxErrors
    /\ errors' = errors + 1
    /\ waiting' = Tail(waiting)
    /\ queued' = Append(queued, r)
    /\ req' = [req EXCEPT ![r] = [status |-> "Cancelled", pending |-> {}, sequence |-> sequence]]
    /\ sequence' = sequence + 1
    /\ pc' = "complete"
    /\ UNCHANGED <<config, active, ret, stopped, frameInfo, conversionQueue, video, convVars,
                   faults, dropped, mixed, fatal>>

(***************************************************************************)
(* The converters' queueBuffers().                                         *)
(***************************************************************************)

\* Refused when the outputs do not match the converter's streams.
Refused(outputs) == outputs # Outs(config)

\* V4L2M2MConverter: the input goes to every stream, with a reference for each.
m2mQueue(b, r) ==
    [in    |-> [s \in {"a", "b"} |-> Append(m2m.in[s], b)],
     out   |-> [s \in {"a", "b"} |-> Append(m2m.out[s], r)],
     queue |-> [x \in DOMAIN m2m.queue \cup {b} |-> IF x = b THEN 2 ELSE m2m.queue[x]]]

\* A device refuses a buffer, after "accepted" of the four, input and output of each
\* stream in turn: queue_ does not get the input.
m2mQueueFails(b, r, accepted) ==
    LET before == [s \in {"a", "b"} |-> IF s = "a" THEN 0 ELSE 2] IN
    [m2m EXCEPT !.in = [s \in {"a", "b"} |-> IF accepted > before[s] THEN Append(@[s], b) ELSE @[s]],
                !.out = [s \in {"a", "b"} |-> IF accepted > before[s] + 1 THEN Append(@[s], r) ELSE @[s]]]

\* SoftwareIsp: the buffers are recorded, the debayer thread gets the work.
swIspQueue(b, r) ==
    [swIsp EXCEPT !.in = Append(@, b), !.out = Append(@, r),
                  !.debayer = Append(@, [frame |-> req[r].sequence, in |-> b, out |-> r])]

(***************************************************************************)
(* imageBufferReady(); status is "Success", "Error" or "Cancelled".         *)
(***************************************************************************)

\* No conversion, or a raw stream: complete what the request captured.
ImageFailed(b) ==
    LET r == b.request[1] IN
    /\ video' = Tail(video)
    /\ tryCompleteRequest(r, completeBuffers(r, {CapturedStream}), NoMetadata(r))
    /\ UNCHANGED <<conversionQueue, convVars, mixed>>

\* An internal buffer: captured into again, and the oldest request is given up.
InternalFailed(b, status) ==
    /\ video' = IF status = "Cancelled" THEN Tail(video) ELSE Append(Tail(video), b)
    /\ IF conversionQueue = <<>> THEN UNCHANGED <<req, frameInfo, conversionQueue, pc, ret>>
       ELSE LET head == Head(conversionQueue) IN
            /\ tryCompleteRequest(head.request, completeBuffers(head.request, head.outputs), NoMetadata(head.request))
            /\ conversionQueue' = Tail(conversionQueue)
    /\ UNCHANGED <<convVars, mixed>>

\* Mutant: a frame nobody waits for is dropped with its buffer.
ConvertDrops(b) ==
    IF conversionQueue = <<>>
    THEN /\ video' = Tail(video)
         /\ UNCHANGED <<conversionQueue, convVars, mixed, req, frameInfo, pc, ret>>
    ELSE LET head == Head(conversionQueue) IN
         /\ video' = Tail(video)
         /\ conversionQueue' = Tail(conversionQueue)
         /\ m2m' = IF config.conv = "m2m" /\ ~Refused(head.outputs) THEN m2mQueue(b, head.request) ELSE m2m
         /\ swIsp' = IF config.conv = "soft" /\ ~Refused(head.outputs) THEN swIspQueue(b, head.request) ELSE swIsp
         /\ UNCHANGED <<mixed, req, frameInfo, pc, ret>>

\* A frame to convert, for the oldest request if there is one.
Convert(b) ==
    IF conversionQueue = <<>>
    THEN /\ video' = IF config.raw THEN Tail(video) ELSE Append(Tail(video), b)
         /\ UNCHANGED <<conversionQueue, convVars, mixed, req, frameInfo, pc, ret>>
    ELSE LET head == Head(conversionQueue) IN
         /\ video' = Tail(video)
         /\ conversionQueue' = Tail(conversionQueue)
         /\ m2m' = IF config.conv = "m2m" /\ ~Refused(head.outputs) THEN m2mQueue(b, head.request) ELSE m2m
         /\ swIsp' = IF config.conv = "soft" /\ ~Refused(head.outputs) THEN swIspQueue(b, head.request) ELSE swIsp
         /\ mixed' = (mixed \/ (config.raw /\ b.request # <<head.request>>))
         /\ UNCHANGED <<req, frameInfo, pc, ret>>

\* Captured with success and not converted.
ImageDone(b) ==
    LET r == b.request[1] IN
    /\ video' = Tail(video)
    /\ tryCompleteRequest(r, completeBuffers(r, {CapturedStream}), frameInfo)
    /\ UNCHANGED <<conversionQueue, convVars, mixed>>

imageBufferReady(status) ==
    /\ video # <<>>
    /\ CASE status # "Success" /\ ~Internal -> ImageFailed(Head(video))
         [] status # "Success" /\ Internal -> InternalFailed(Head(video), status)
         [] status = "Success" /\ useConversion -> Convert(Head(video))
         [] OTHER -> ImageDone(Head(video))
    /\ UNCHANGED <<config, active, queueVars, sequence, faults, dropped, fatal>>

ImageBufferReady ==
    /\ active /\ pc = "loop"
    /\ \/ imageBufferReady("Success") /\ UNCHANGED errors
       \/ errors < MaxErrors /\ errors' = errors + 1 /\ imageBufferReady("Error")

\* imageBufferReady() when a device of the converter refuses a buffer: its error is
\* ignored, the request has left conversionQueue_ for good.
ConvertFails(accepted) ==
    /\ active /\ pc = "loop"
    /\ video # <<>> /\ conversionQueue # <<>>
    /\ config.conv = "m2m" /\ ~Refused(Head(conversionQueue).outputs)
    /\ dropped < MaxFaults
    /\ dropped' = dropped + 1
    /\ video' = Tail(video)
    /\ conversionQueue' = Tail(conversionQueue)
    /\ m2m' = m2mQueueFails(Head(video), Head(conversionQueue).request, accepted)
    /\ mixed' = (mixed \/ (config.raw /\ Head(video).request # <<Head(conversionQueue).request>>))
    /\ UNCHANGED <<config, active, pc, ret, queueVars, req, sequence, frameInfo, swIsp, errors, faults, fatal>>

(***************************************************************************)
(* conversionOutputDone() and conversionInputDone()                        *)
(***************************************************************************)

conversionOutputDone(r, s) ==
    /\ tryCompleteRequest(r, completeBuffers(r, {s}), frameInfo)
    /\ UNCHANGED video

conversionInputDone(b) ==
    IF config.raw
    THEN /\ tryCompleteRequest(b.request[1], completeBuffers(b.request[1], {"raw"}), frameInfo)
         /\ UNCHANGED video
    ELSE video' = Append(video, b) /\ UNCHANGED <<req, frameInfo, pc, ret>>

\* The converter finishes an output buffer of stream s, or streamOff() cancels it.
M2mOutput(s) ==
    /\ m2m.out[s] # <<>>
    /\ m2m' = [m2m EXCEPT !.out[s] = Tail(@)]
    /\ conversionOutputDone(Head(m2m.out[s]), s)
    /\ UNCHANGED <<config, active, queueVars, sequence, conversionQueue, swIsp, errors, faults, dropped, mixed, fatal>>

\* It returns an input buffer of stream s; the last stream to do so releases it,
\* if it was queued to all of them.
M2mInput(s) ==
    LET b == Head(m2m.in[s]) IN
    /\ m2m.in[s] # <<>>
    /\ IF b \notin DOMAIN m2m.queue
       THEN /\ m2m' = [m2m EXCEPT !.in[s] = Tail(@)]
            /\ UNCHANGED <<req, frameInfo, video, pc, ret>>
       ELSE IF m2m.queue[b] = 1
       THEN /\ m2m' = [m2m EXCEPT !.in[s] = Tail(@), !.queue = Restrict(@, DOMAIN @ \ {b})]
            /\ conversionInputDone(b)
       ELSE /\ m2m' = [m2m EXCEPT !.in[s] = Tail(@), !.queue[b] = @ - 1]
            /\ UNCHANGED <<req, frameInfo, video, pc, ret>>
    /\ UNCHANGED <<config, active, queueVars, sequence, conversionQueue, swIsp, errors, faults, dropped, mixed, fatal>>

M2m == active /\ pc = "loop" /\ \E s \in {"a", "b"} : M2mOutput(s) \/ M2mInput(s)

(***************************************************************************)
(* The software ISP's threads.                                             *)
(***************************************************************************)

\* Debayer::process(): statistics, output, input; nothing if it cannot map.
Debayer ==
    /\ swIsp.debayer # <<>>
    /\ LET w == Head(swIsp.debayer)
           done == <<[name |-> "stats", frame |-> w.frame], [name |-> "output", out |-> w.out],
                     [name |-> "input", in |-> w.in]>>
       IN  \/ /\ swIsp' = [swIsp EXCEPT !.debayer = Tail(@), !.events = @ \o done]
              /\ UNCHANGED faults
           \/ /\ faults < MaxFaults
              /\ faults' = faults + 1
              /\ swIsp' = [swIsp EXCEPT !.debayer = Tail(@)]
    /\ UNCHANGED <<config, active, pc, ret, queueVars, req, sequence, frameInfo, conversionQueue, video,
                   m2m, errors, dropped, mixed, fatal>>

\* Mutant: the IPA thread only serves calls while the camera runs.
IpaThreadStops ==
    /\ pc = "loop"
    /\ swIsp.ipa # <<>>
    /\ swIsp' = [swIsp EXCEPT !.ipa = Tail(@), !.metadata = Append(@, Head(swIsp.ipa))]
    /\ UNCHANGED <<config, active, pc, ret, queueVars, req, sequence, frameInfo, conversionQueue, video,
                   m2m, errors, faults, dropped, mixed, fatal>>

\* IPASoftSimple::processStats()
IpaThread ==
    /\ swIsp.ipa # <<>>
    /\ swIsp' = [swIsp EXCEPT !.ipa = Tail(@), !.metadata = Append(@, Head(swIsp.ipa))]
    /\ UNCHANGED <<config, active, pc, ret, queueVars, req, sequence, frameInfo, conversionQueue, video,
                   m2m, errors, faults, dropped, mixed, fatal>>

\* statsReady(), outputReady() and inputReady() in the pipeline thread.
SwIspEvent ==
    /\ pc \in {"loop", "drain"}
    /\ swIsp.events # <<>>
    /\ LET e == Head(swIsp.events)
           rest == [swIsp EXCEPT !.events = Tail(@)]
       IN  CASE e.name = "stats" ->
                   /\ swIsp' = [rest EXCEPT !.ipa = Append(@, e.frame)]
                   /\ UNCHANGED <<req, frameInfo, video, pc, ret, fatal>>
             [] e.name = "output" ->
                   /\ fatal' = IF Head(swIsp.out) = e.out THEN fatal ELSE "outputReady: front() == output"
                   /\ swIsp' = [rest EXCEPT !.out = Tail(@)]
                   /\ conversionOutputDone(e.out, "a")
             [] OTHER ->
                   /\ fatal' = IF Head(swIsp.in) = e.in THEN fatal ELSE "inputReady: front() == input"
                   /\ swIsp' = [rest EXCEPT !.in = Tail(@)]
                   /\ conversionInputDone(e.in)
    /\ UNCHANGED <<config, active, queueVars, sequence, conversionQueue, m2m, errors, faults, dropped, mixed>>

\* metadataReady()
IpaEvent ==
    /\ pc \in {"loop", "ipaDrain"}
    /\ swIsp.metadata # <<>>
    /\ swIsp' = [swIsp EXCEPT !.metadata = Tail(@)]
    /\ LET f == Head(swIsp.metadata) IN
       IF f \notin DOMAIN frameInfo THEN UNCHANGED <<req, frameInfo, pc, ret>>
       ELSE tryCompleteRequest(frameInfo[f].request, req, [frameInfo EXCEPT ![f].processed = TRUE])
    /\ UNCHANGED <<config, active, queueVars, sequence, conversionQueue, video, m2m, errors, faults, dropped, mixed, fatal>>

(***************************************************************************)
(* configure(), start() and stop()                                         *)
(***************************************************************************)

Configure(c) ==
    /\ ~active /\ pc = "loop"
    /\ config' = c
    /\ UNCHANGED <<active, pc, ret, queueVars, req, sequence, frameInfo, conversionQueue, video,
                   convVars, errors, faults, dropped, mixed, fatal>>

\* start(): internal buffers are queued for capture.
Start ==
    /\ ~active /\ pc = "loop"
    /\ active' = TRUE
    /\ video' = IF Internal THEN [i \in 1 .. MaxQueued |-> InternalBuffer(i)] ELSE <<>>
    /\ UNCHANGED <<config, pc, ret, queueVars, req, sequence, frameInfo, conversionQueue,
                   convVars, errors, faults, dropped, mixed, fatal>>

\* PipelineHandler::stop(), up to the converter's stop().
Stop ==
    /\ active /\ pc = "loop"
    /\ stopped' = waiting /\ waiting' = <<>>
    /\ pc' = CASE config.conv = "m2m" -> "m2m" [] config.conv = "soft" -> "debayer" [] OTHER -> "video"
    /\ UNCHANGED <<config, active, ret, queued, req, sequence, frameInfo, conversionQueue, video,
                   convVars, errors, faults, dropped, mixed, fatal>>

\* V4L2M2MConverter::stop(): stream by stream, outputs first.
StopM2m ==
    /\ pc = "m2m"
    /\ \/ M2mOutput("a")
       \/ m2m.out["a"] = <<>> /\ M2mInput("a")
       \/ m2m.out["a"] = <<>> /\ m2m.in["a"] = <<>> /\ M2mOutput("b")
       \/ m2m.out["a"] = <<>> /\ m2m.in["a"] = <<>> /\ m2m.out["b"] = <<>> /\ M2mInput("b")

\* SoftwareIsp::stop(): the buffers that the debayer never returned.
StopSwIspOutput ==
    /\ pc = "swIsp" /\ swIsp.out # <<>>
    /\ swIsp' = [swIsp EXCEPT !.out = Tail(@)]
    /\ conversionOutputDone(Head(swIsp.out), "a")
    /\ UNCHANGED <<config, active, queueVars, sequence, conversionQueue, m2m, errors, faults, dropped, mixed, fatal>>

StopSwIspInput ==
    /\ pc = "swIsp" /\ swIsp.out = <<>> /\ swIsp.in # <<>>
    /\ swIsp' = [swIsp EXCEPT !.in = Tail(@)]
    /\ conversionInputDone(Head(swIsp.in))
    /\ UNCHANGED <<config, active, queueVars, sequence, conversionQueue, m2m, errors, faults, dropped, mixed, fatal>>

\* Mutant: the events of the debayer are not dispatched before the IPA stops.
StopStepNoDrain ==
    /\ \/ pc = "debayer" /\ swIsp.debayer = <<>> /\ pc' = "ipa"
       \/ pc = "ipa" /\ swIsp.ipa = <<>> /\ pc' = "ipaDrain"
       \/ pc = "ipaDrain" /\ swIsp.metadata = <<>> /\ pc' = "swIsp"
       \/ pc = "swIsp" /\ swIsp.out = <<>> /\ swIsp.in = <<>> /\ pc' = "video"
       \/ pc = "m2m" /\ (\A s \in {"a", "b"} : m2m.in[s] = <<>> /\ m2m.out[s] = <<>>) /\ pc' = "video"
    /\ UNCHANGED <<config, active, ret, queueVars, req, sequence, frameInfo, conversionQueue, video,
                   convVars, errors, faults, dropped, mixed, fatal>>

\* The debayer thread stops after the work queued before, its events are
\* dispatched, then the IPA thread stops in the same way.
StopStep ==
    /\ \/ pc = "debayer" /\ swIsp.debayer = <<>> /\ pc' = "drain"
       \/ pc = "drain" /\ swIsp.events = <<>> /\ pc' = "ipa"
       \/ pc = "ipa" /\ swIsp.ipa = <<>> /\ pc' = "ipaDrain"
       \/ pc = "ipaDrain" /\ swIsp.metadata = <<>> /\ pc' = "swIsp"
       \/ pc = "swIsp" /\ swIsp.out = <<>> /\ swIsp.in = <<>> /\ pc' = "video"
       \/ pc = "m2m" /\ (\A s \in {"a", "b"} : m2m.in[s] = <<>> /\ m2m.out[s] = <<>>) /\ pc' = "video"
    /\ UNCHANGED <<config, active, ret, queueVars, req, sequence, frameInfo, conversionQueue, video,
                   convVars, errors, faults, dropped, mixed, fatal>>

\* streamOff(), then frameInfo_.clear()
StopVideo ==
    /\ pc = "video"
    /\ IF video # <<>> THEN imageBufferReady("Cancelled") /\ UNCHANGED errors
       ELSE /\ frameInfo' = <<>>
            /\ pc' = "clear"
            /\ UNCHANGED <<config, active, ret, queueVars, req, sequence, conversionQueue, video,
                           convVars, errors, faults, dropped, mixed, fatal>>

\* clearIncompleteRequests()
ClearIncompleteRequests ==
    /\ pc = "clear"
    /\ IF conversionQueue = <<>>
       THEN active' = FALSE /\ pc' = "waiting" /\ UNCHANGED <<req, conversionQueue, ret, fatal>>
       ELSE LET r == Head(conversionQueue).request IN
            /\ fatal' = IF req[r].status = "Pending" THEN fatal ELSE "cancel: status() == RequestPending"
            /\ req' = [req EXCEPT ![r].status = "Cancelled", ![r].pending = {}]
            /\ conversionQueue' = Tail(conversionQueue)
            /\ pc' = "complete" /\ ret' = "clear"
            /\ UNCHANGED active
    /\ UNCHANGED <<config, queueVars, sequence, frameInfo, video, convVars, errors, faults, dropped, mixed>>

\* The end of PipelineHandler::stop()
StopWaiting ==
    /\ pc = "waiting"
    /\ IF stopped = <<>>
       THEN /\ fatal' = IF queued = <<>> THEN fatal ELSE "stop: queuedRequests_.empty()"
            /\ sequence' = 0
            /\ pc' = "loop"
            /\ UNCHANGED <<ret, req, queued, stopped>>
       ELSE /\ stopped' = Tail(stopped)
            /\ queued' = Append(queued, Head(stopped))
            /\ req' = [req EXCEPT ![Head(stopped)].status = "Cancelled", ![Head(stopped)].pending = {}]
            /\ pc' = "complete" /\ ret' = "waiting"
            /\ UNCHANGED <<sequence, fatal>>
    /\ UNCHANGED <<config, active, waiting, frameInfo, conversionQueue, video, convVars, errors, faults, dropped, mixed>>

PipelineThread ==
    \/ CompleteRequest \/ DoQueueRequests \/ QueueRefused \/ SwIspEvent \/ IpaEvent
    \/ StopM2m \/ StopSwIspOutput \/ StopSwIspInput \/ StopStep \/ StopVideo
    \/ ClearIncompleteRequests \/ StopWaiting

Next ==
    /\ fatal = "none"  \* the process lives
    /\ \/ PipelineThread \/ Debayer \/ IpaThread
       \/ ImageBufferReady \/ M2m \/ \E accepted \in 0 .. 3 : ConvertFails(accepted)
       \/ \E c \in Configs : Configure(c)
       \/ Start \/ Stop
       \/ \E r \in Request, streams \in SUBSET {"a", "b", "raw"} :
              /\ IF Partial THEN streams # {} /\ streams \subseteq Streams(config) ELSE streams = Streams(config)
              /\ QueueRequest(r, streams)

Spec == Init /\ [][Next]_vars
FairSpec ==
    /\ Spec
    /\ WF_vars(fatal = "none" /\ PipelineThread)
    /\ WF_vars(fatal = "none" /\ Debayer) /\ WF_vars(fatal = "none" /\ IpaThread)

(***************************************************************************)
(* Properties                                                              *)
(***************************************************************************)

\* Where the pipeline thread is, or returns to after completing and queueing requests.
Stage == IF pc \in {"complete", "doQueue"} THEN ret ELSE pc

\* NoAbort: no ASSERT is reached: stop() completes every request whatever the
\* capture device, the converter, the debayer and the IPA still had, as long as
\* the debayer could map every buffer it was given and the converter's devices took
\* every buffer.  A frame lost in either way leaves its request to the ASSERT of stop().
NoAbort == faults = 0 /\ dropped = 0 => fatal = "none"

\* InternalBuffersCirculate: while the camera runs, each internal buffer is in
\* exactly one place: the capture device, or the converter.  A buffer lost on a
\* path that drops or refuses a frame would starve the capture: this happens when the
\* memory-to-memory converter fails to queue a frame, whose input nobody returns.
InternalBuffersCirculate ==
    dropped = 0 /\ active /\ Internal /\ Stage \notin {"video", "clear"} /\ fatal = "none" =>
    \A i \in 1 .. MaxQueued :
        LET b == InternalBuffer(i)
            converting == IF config.conv = "m2m" THEN b \in DOMAIN m2m.queue ELSE Contains(swIsp.in, b)
        IN  /\ Cardinality({k \in DOMAIN video : video[k] = b}) + (IF converting THEN 1 ELSE 0) = 1
            /\ config.conv = "m2m" /\ ~converting => \A s \in {"a", "b"} : ~Contains(m2m.in[s], b)

Fifo == INSTANCE RequestFifo WITH
            fifo <- queued \o stopped \o waiting,
            held <- {r \in Request : req[r].status = "Free"}

\* InOrder: requests come back in the order they were queued, each once.
InOrder == Fifo!Spec

\* StopReturns: stop() finishes, after joining two threads that may still post
\* work to each other through the pipeline thread.
StopReturns == (pc \in {"m2m", "debayer", "video"}) ~> (pc = "loop" \/ fatal # "none")

\* RequestsServed: requests come back in order, and stop() brings back the last of them.
RequestsServed == InOrder /\ StopReturns

\* RequestKeepsFrame: the raw and the processed image of a request are of the
\* same frame, because a request whose capture failed is completed then.  It does
\* not hold: its other outputs stay at the head of conversionQueue_ for the next frame.
RequestKeepsFrame == ~mixed
=============================================================================
