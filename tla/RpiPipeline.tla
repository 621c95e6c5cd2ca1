----------------------------- MODULE RpiPipeline -----------------------------
(***************************************************************************)
(* The Raspberry Pi pipeline handler on VC4: the Unicam receiver captures   *)
(* images and embedded data, the IPA prepares the ISP for a pair of them,   *)
(* the ISP processes the image, and the IPA gets the statistics.  One       *)
(* request is in the ISP at a time, under the control of state_.            *)
(*                                                                          *)
(* A stream has internal buffers.  An external one also gets the buffers of *)
(* the requests, in turn with internal ones for requests that have none.    *)
(* One ISP output stands for the two.                                       *)
(*                                                                          *)
(* "stack" holds the functions in progress in the pipeline thread, for      *)
(* completeRequest() may queue waiting requests, which runs handleState()   *)
(* within checkRequestCompleted().                                          *)
(***************************************************************************)
EXTENDS Integers, Sequences, FiniteSets, SequencesExt

CONSTANTS Request,
          MaxQueued,    \* maxQueuedRequestsDevice_
          MaxFrames,    \* bound: frames of a session, one less after each fault
          MaxLost,      \* bound: embedded data that is lost in a session
          MaxTimeouts,  \* bound: timeouts of the frontend in a session
          MaxFaults     \* bound: buffers that devices refuse, and sessions that begin with
                        \* buffers that requests of an earlier one had still to queue

VARIABLES config,          \* whether there is a raw stream and embedded data
          active, state,   \* the camera runs; state_
          stack,
          waiting, queued, stopped,
          req,             \* status, streams, pending buffers and metadata of each request
          requestQueue, bayerQueue, embeddedQueue,
          streams,         \* RPi::Stream: availableBuffers_, requestBuffers_ and the device's queue
          input, done,     \* the ISP's input, and buffers that devices have finished
          calls, events,   \* to and from the IPA
          frame, lost, timeouts,
          session, faults, \* the fault of this session, and the number of faults (for the
                           \* properties and the bound only)
          fatal

queueVars == <<waiting, queued, stopped>>
frameVars == <<bayerQueue, embeddedQueue>>
deviceVars == <<streams, input, done>>
ipaVars == <<calls, events>>
boundVars == <<frame, lost, timeouts>>
faultVars == <<session, faults>>
vars == <<config, active, state, stack, queueVars, req, requestQueue, frameVars, deviceVars, ipaVars, boundVars,
          faultVars, fatal>>

Stream == {"image", "embedded", "output", "stats"}
Configuration == [raw : BOOLEAN, embedded : BOOLEAN]
External(s) == s = "output" \/ (s = "image" /\ config.raw)

Internal(i) == [request |-> <<>>, id |-> i]
OfRequest(r) == [request |-> <<r>>, id |-> 0]
Null == Internal(0)

\* allocateBuffers(): more than one buffer where several frames are in flight.
InternalBuffers(s) ==
    LET n == IF s = "embedded" \/ (s = "image" /\ ~External(s)) THEN 2 ELSE 1
    IN  [i \in 1 .. n |-> Internal(i)]

NoStreams == [s \in Stream |-> [available |-> <<>>, requests |-> <<>>, device |-> <<>>]]
NotDone == [s \in {"image", "embedded", "input", "output", "stats"} |-> <<>>]
FreeRequest == [status |-> "Free", streams |-> {}, pending |-> {}, filled |-> FALSE]

isRunning == state \notin {"Stopped", "Error"}
Loop == stack = <<>>
At(label) == stack # <<>> /\ Head(stack) = label
Call(label) == stack' = <<label>> \o stack
Return == stack' = Tail(stack)

Init ==
    /\ config \in Configuration
    /\ active = FALSE /\ state = "Stopped" /\ stack = <<>>
    /\ waiting = <<>> /\ queued = <<>> /\ stopped = <<>>
    /\ req = [r \in Request |-> FreeRequest]
    /\ requestQueue = <<>> /\ bayerQueue = <<>> /\ embeddedQueue = <<>>
    /\ streams = NoStreams /\ input = <<>> /\ done = NotDone
    /\ calls = <<>> /\ events = <<>>
    /\ frame = 0 /\ lost = 0 /\ timeouts = 0 /\ session = "clean" /\ faults = 0
    /\ fatal = "none"

(***************************************************************************)
(* RPi::Stream, as functions from the state of a stream to the next one.   *)
(***************************************************************************)

\* Mutant: a buffer that is there does not wait for earlier requests.
queueBufferAtOnce(st, b) ==
    CASE b = Null /\ st.available = <<>> -> [st EXCEPT !.requests = Append(@, Null)]
      [] b = Null /\ st.available # <<>> ->
             [st EXCEPT !.available = Tail(@), !.device = Append(@, Head(st.available))]
      [] OTHER -> [st EXCEPT !.device = Append(@, b)]

queueBuffer(st, b) ==
    LET take == b = Null /\ st.available # <<>>
        buffer == IF take THEN Head(st.available) ELSE b
        rest == IF take THEN [st EXCEPT !.available = Tail(@)] ELSE st
    IN  IF buffer = Null \/ st.requests # <<>>
        THEN [rest EXCEPT !.requests = Append(@, buffer)]
        ELSE [rest EXCEPT !.device = Append(@, buffer)]

\* returnBuffer(): requests that wait are served as far as the buffers go.
returnBuffer(st, b, external) ==
    IF ~external THEN [st EXCEPT !.device = Append(@, b)]
    ELSE LET avail == Append(st.available, b)
             Nulls(k) == Cardinality({i \in 1 .. k : st.requests[i] = Null})
             n == CHOOSE k \in 0 .. Len(st.requests) :
                      /\ Nulls(k) <= Len(avail)
                      /\ k < Len(st.requests) => Nulls(k + 1) > Len(avail)
             Served(i) == IF st.requests[i] = Null THEN avail[Nulls(i)] ELSE st.requests[i]
         IN  [available |-> SubSeq(avail, Nulls(n) + 1, Len(avail)),
              requests  |-> SubSeq(st.requests, n + 1, Len(st.requests)),
              device    |-> st.device \o [i \in 1 .. n |-> Served(i)]]

\* A fault that the rest of the session does not recover from: queueRequestDevice() and
\* returnBuffer() do not take back what a failing queueBuffer() leaves behind, and
\* start() does not clear requestBuffers_.
Fault(kind) ==
    /\ faults < MaxFaults
    /\ faults' = faults + 1
    /\ session' = kind

\* Stream s becomes st; or its device refuses one of the buffers that st adds to
\* the device's queue, an error that returnBuffer() ignores: the buffer is lost.
Returned(s, st) ==
    \/ streams' = [streams EXCEPT ![s] = st] /\ UNCHANGED faultVars
    \/ /\ Fault("refused")
       /\ \E i \in Len(streams[s].device) + 1 .. Len(st.device) :
              streams' = [streams EXCEPT ![s] = [st EXCEPT !.device = RemoveAt(@, i)]]

\* handleStreamBuffer(): complete the buffer of the first request, or return it.
handleStreamBuffer(s, b) ==
    IF requestQueue # <<>> /\ b = OfRequest(Head(requestQueue))
    THEN /\ req' = [req EXCEPT ![Head(requestQueue)].pending = @ \ {s}]
         /\ UNCHANGED <<streams, faultVars>>
    ELSE /\ Returned(s, returnBuffer(streams[s], b, External(s)))
         /\ UNCHANGED req

(***************************************************************************)
(* Requests.                                                               *)
(***************************************************************************)

\* PipelineHandler::queueRequest(), in the pipeline thread
QueueRequest(r, ss) ==
    /\ active /\ Loop
    /\ req[r].status = "Free"
    /\ req' = [req EXCEPT ![r] = [status |-> "Pending", streams |-> ss, pending |-> ss, filled |-> FALSE]]
    /\ waiting' = Append(waiting, r)
    /\ stack' = <<"doQueue">>
    /\ UNCHANGED <<config, active, state, queued, stopped, requestQueue, frameVars, deviceVars, ipaVars, boundVars, faultVars, fatal>>

\* queueRequestDevice(), or cancelRequest() when it fails
DoQueueRequests ==
    /\ At("doQueue")
    /\ IF waiting = <<>> \/ Len(queued) = MaxQueued
       THEN Return /\ UNCHANGED <<waiting, queued, req, requestQueue, streams>>
       ELSE LET r == Head(waiting) IN
            /\ waiting' = Tail(waiting)
            /\ queued' = Append(queued, r)
            /\ IF isRunning
               THEN /\ streams' = [s \in Stream |->
                           IF External(s)
                           THEN queueBuffer(streams[s], IF s \in req[r].streams THEN OfRequest(r) ELSE Null)
                           ELSE streams[s]]
                    /\ requestQueue' = Append(requestQueue, r)
                    /\ Call("handleState")
                    /\ UNCHANGED req
               ELSE /\ req' = [req EXCEPT ![r].status = "Cancelled", ![r].pending = {}]
                    /\ Call("complete")
                    /\ UNCHANGED <<streams, requestQueue>>
    /\ UNCHANGED <<config, active, state, stopped, frameVars, input, done, ipaVars, boundVars, faultVars, fatal>>

\* queueRequestDevice() fails at the stream s, whose device refuses the buffer: the
\* request is cancelled, with its image in Unicam's queue if s is the output; an
\* internal buffer taken for s is lost.
QueueRefused(s) ==
    /\ Fault("refused")
    /\ At("doQueue") /\ isRunning
    /\ waiting # <<>> /\ Len(queued) # MaxQueued
    /\ External(s) /\ streams[s].requests = <<>>
    /\ LET r == Head(waiting) IN
       /\ s \in req[r].streams \/ streams[s].available # <<>>
       /\ waiting' = Tail(waiting)
       /\ queued' = Append(queued, r)
       /\ req' = [req EXCEPT ![r].status = "Cancelled", ![r].pending = {}]
       /\ streams' = [x \in Stream |->
              CASE x = s /\ s \notin req[r].streams -> [streams[s] EXCEPT !.available = Tail(@)]
                [] s = "output" /\ x = "image" /\ External(x) ->
                       queueBuffer(streams[x], IF x \in req[r].streams THEN OfRequest(r) ELSE Null)
                [] OTHER -> streams[x]]
    /\ Call("complete")
    /\ UNCHANGED <<config, active, state, stopped, requestQueue, frameVars, input, done, ipaVars, boundVars, fatal>>

\* The rest of PipelineHandler::completeRequest()
CompleteRequest ==
    /\ At("complete")
    /\ IF queued # <<>> /\ req[Head(queued)].status # "Pending"
       THEN /\ req' = [req EXCEPT ![Head(queued)] = FreeRequest]
            /\ queued' = Tail(queued)
            /\ UNCHANGED stack
       ELSE stack' = <<"doQueue">> \o Tail(stack) /\ UNCHANGED <<req, queued>>
    /\ UNCHANGED <<config, active, state, waiting, stopped, requestQueue, frameVars, deviceVars, ipaVars, boundVars, faultVars, fatal>>

(***************************************************************************)
(* handleState()                                                           *)
(***************************************************************************)

HandleState ==
    /\ At("handleState")
    /\ stack' = (CASE state = "IpaComplete" -> <<"checkRequest", "tryRun">>
                   [] state = "Idle" -> <<"tryRun">>
                   [] OTHER -> <<>>) \o Tail(stack)
    /\ UNCHANGED <<config, active, state, queueVars, req, requestQueue, frameVars, deviceVars, ipaVars, boundVars, faultVars, fatal>>

\* checkRequestCompleted(), up to completeRequest()
CheckRequestCompleted ==
    /\ At("checkRequest")
    /\ LET r == Head(requestQueue) IN
       IF req[r].pending # {} \/ state # "IpaComplete" THEN Return /\ UNCHANGED <<req, fatal>>
       ELSE /\ fatal' = IF req[r].status = "Pending" THEN fatal ELSE "complete: status() == RequestPending"
            /\ req' = [req EXCEPT ![r].status = "Complete"]
            /\ stack' = <<"complete", "completed">> \o Tail(stack)
    /\ UNCHANGED <<config, active, state, queueVars, requestQueue, frameVars, deviceVars, ipaVars, boundVars, faultVars>>

\* Its end
RequestCompleted ==
    /\ At("completed")
    /\ requestQueue' = Tail(requestQueue)
    /\ state' = "Idle"
    /\ Return
    /\ UNCHANGED <<config, active, queueVars, req, frameVars, deviceVars, ipaVars, boundVars, faultVars, fatal>>

\* tryRunPipeline() with the request r and buffers that match.
RunPipeline(r, bayer, embedded) ==
    /\ fatal' = IF req[r].filled THEN "tryRunPipeline: metadata().empty()" ELSE fatal
    /\ req' = [req EXCEPT ![r].filled = TRUE]
    /\ state' = "Busy"
    /\ calls' = Append(calls, [op |-> "prepareIsp", bayer |-> bayer, embedded |-> embedded])

\* findMatchingBuffers(): how many embedded buffers at the front are older than an image.
Older(ts) ==
    CHOOSE n \in 0 .. Len(embeddedQueue) :
        /\ \A i \in 1 .. n : embeddedQueue[i].ts < ts
        /\ n < Len(embeddedQueue) => embeddedQueue[n + 1].ts >= ts

\* Mutant: embedded data without an image is dropped with its buffer.
TryRunPipelineDrops ==
    /\ At("tryRun")
    /\ Return
    /\ IF \/ state # "Idle" \/ requestQueue = <<>> \/ bayerQueue = <<>>
          \/ config.embedded /\ embeddedQueue = <<>>
       THEN UNCHANGED <<state, req, bayerQueue, embeddedQueue, streams, calls, faultVars, fatal>>
       ELSE LET bayer == Head(bayerQueue)
                rest == SubSeq(embeddedQueue, Older(bayer.ts) + 1, Len(embeddedQueue))
                match == rest # <<>> /\ rest[1].ts = bayer.ts
            IN  /\ UNCHANGED <<streams, faultVars>>
                /\ embeddedQueue' = IF match THEN Tail(rest) ELSE rest
                /\ IF rest = <<>> /\ config.embedded THEN UNCHANGED <<state, req, bayerQueue, calls, fatal>>
                   ELSE /\ bayerQueue' = Tail(bayerQueue)
                        /\ RunPipeline(Head(requestQueue), bayer.buffer, IF match THEN rest[1].buffer ELSE Null)
    /\ UNCHANGED <<config, active, queueVars, requestQueue, input, done, events, boundVars>>

\* tryRunPipeline() and findMatchingBuffers()
TryRunPipeline ==
    /\ At("tryRun")
    /\ Return
    /\ IF \/ state # "Idle" \/ requestQueue = <<>> \/ bayerQueue = <<>>
          \/ config.embedded /\ embeddedQueue = <<>>
       THEN UNCHANGED <<state, req, bayerQueue, embeddedQueue, streams, calls, faultVars, fatal>>
       ELSE LET bayer == Head(bayerQueue)
                n == Older(bayer.ts)
                rest == SubSeq(embeddedQueue, n + 1, Len(embeddedQueue))
                match == rest # <<>> /\ rest[1].ts = bayer.ts
            IN  /\ Returned("embedded", [streams["embedded"] EXCEPT
                                            !.device = @ \o [i \in 1 .. n |-> embeddedQueue[i].buffer]])
                /\ embeddedQueue' = IF match THEN Tail(rest) ELSE rest
                /\ IF rest = <<>> /\ config.embedded THEN UNCHANGED <<state, req, bayerQueue, calls, fatal>>
                   ELSE /\ bayerQueue' = Tail(bayerQueue)
                        /\ RunPipeline(Head(requestQueue), bayer.buffer, IF match THEN rest[1].buffer ELSE Null)
    /\ UNCHANGED <<config, active, queueVars, requestQueue, input, done, events, boundVars>>

(***************************************************************************)
(* The devices and their bufferReady handlers.                             *)
(***************************************************************************)

\* Unicam receives a frame: it goes to the streams that have a buffer.
Capture(got) ==
    /\ isRunning /\ frame + faults < MaxFrames
    /\ frame' = frame + 1
    /\ LET full == {s \in got : streams[s].device # <<>>} IN
       /\ streams' = [s \in Stream |-> IF s \in full THEN [streams[s] EXCEPT !.device = Tail(@)] ELSE streams[s]]
       /\ done' = [s \in DOMAIN done |->
              IF s \in full THEN Append(done[s], [buffer |-> Head(streams[s].device), ts |-> frame + 1]) ELSE done[s]]
    /\ UNCHANGED <<config, active, state, stack, queueVars, req, requestQueue, frameVars, input, ipaVars, timeouts, faultVars, fatal>>

CaptureFrame == Capture({"image"} \cup IF config.embedded THEN {"embedded"} ELSE {}) /\ UNCHANGED lost
CaptureLost == config.embedded /\ lost < MaxLost /\ lost' = lost + 1 /\ Capture({"image"})

\* The ISP processes an image.
IspRun ==
    /\ isRunning
    /\ input # <<>>
    /\ \A s \in {"output", "stats"} : streams[s].device # <<>>
    /\ input' = Tail(input)
    /\ streams' = [s \in Stream |->
           IF s \in {"output", "stats"} THEN [streams[s] EXCEPT !.device = Tail(@)] ELSE streams[s]]
    /\ done' = [s \in DOMAIN done |->
           CASE s = "input" -> Append(done[s], [buffer |-> Head(input), ts |-> 0])
             [] s \in {"output", "stats"} -> Append(done[s], [buffer |-> Head(streams[s].device), ts |-> 0])
             [] OTHER -> done[s]]
    /\ UNCHANGED <<config, active, state, stack, queueVars, req, requestQueue, frameVars, ipaVars, boundVars, faultVars, fatal>>

Dequeue(s) ==
    /\ Loop /\ done[s] # <<>>
    /\ done' = [done EXCEPT ![s] = Tail(@)]
    /\ Call("handleState")
    /\ UNCHANGED <<config, active, state, queueVars, requestQueue, input, boundVars>>

\* unicamBufferDequeue()
UnicamImageDequeue ==
    /\ Dequeue("image")
    /\ bayerQueue' = Append(bayerQueue, Head(done["image"]))
    /\ UNCHANGED <<req, embeddedQueue, streams, ipaVars, faultVars, fatal>>

UnicamEmbeddedDequeue ==
    /\ Dequeue("embedded")
    /\ embeddedQueue' = Append(embeddedQueue, Head(done["embedded"]))
    /\ UNCHANGED <<req, bayerQueue, streams, ipaVars, faultVars, fatal>>

\* ispInputDequeue(): the image buffer goes back to Unicam.
IspInputDequeue ==
    /\ Dequeue("input")
    /\ handleStreamBuffer("image", Head(done["input"]).buffer)
    /\ UNCHANGED <<frameVars, ipaVars, fatal>>

\* ispOutputDequeue()
IspOutputDequeue ==
    /\ Dequeue("output")
    /\ handleStreamBuffer("output", Head(done["output"]).buffer)
    /\ UNCHANGED <<frameVars, ipaVars, fatal>>

IspStatsDequeue ==
    /\ Dequeue("stats")
    /\ fatal' = IF requestQueue = <<>> THEN "ispOutputDequeue: no request" ELSE fatal
    /\ calls' = Append(calls, [op |-> "processStats", stats |-> Head(done["stats"]).buffer])
    /\ UNCHANGED <<req, frameVars, streams, events, faultVars>>

(***************************************************************************)
(* The IPA and its signals.                                                *)
(***************************************************************************)

\* IpaBase::prepareIsp() and processStats()
IpaThread ==
    /\ calls # <<>>
    /\ calls' = Tail(calls)
    /\ LET c == Head(calls) IN
       events' = events \o
           IF c.op = "prepareIsp" THEN <<[c EXCEPT !.op = "prepareIspComplete"]>>
           ELSE <<[op |-> "metadataReady"], [c EXCEPT !.op = "processStatsComplete"]>>
    /\ UNCHANGED <<config, active, state, stack, queueVars, req, requestQueue, frameVars, deviceVars, boundVars, faultVars, fatal>>

\* A signal of the IPA, which is ignored when the camera does not run.
IpaEvent ==
    /\ Loop /\ events # <<>>
    /\ events' = Tail(events)
    /\ LET e == Head(events) IN
       CASE ~isRunning -> UNCHANGED <<state, stack, req, streams, input, faultVars, fatal>>
         [] isRunning /\ e.op = "metadataReady" ->
                /\ fatal' = IF requestQueue = <<>> THEN "metadataReady: no request" ELSE fatal
                /\ UNCHANGED <<state, stack, req, streams, input, faultVars>>
         [] isRunning /\ e.op = "prepareIspComplete" ->
                /\ input' = Append(input, e.bayer)
                /\ Call("handleState")
                /\ IF e.embedded = Null THEN UNCHANGED <<req, streams, faultVars>>
                   ELSE handleStreamBuffer("embedded", e.embedded)
                /\ UNCHANGED <<state, fatal>>
         [] OTHER ->
                /\ handleStreamBuffer("stats", e.stats)
                /\ state' = "IpaComplete"
                /\ Call("handleState")
                /\ UNCHANGED <<input, fatal>>
    /\ UNCHANGED <<config, active, queueVars, requestQueue, frameVars, done, calls, boundVars>>

\* prepareIspComplete when the ISP refuses the image, an error that is ignored too.
IspRefuses ==
    /\ Fault("refused")
    /\ Loop /\ events # <<>> /\ isRunning
    /\ LET e == Head(events) IN
       /\ e.op = "prepareIspComplete"
       /\ streams' = IF e.embedded = Null THEN streams
                     ELSE [streams EXCEPT !["embedded"] = returnBuffer(@, e.embedded, FALSE)]
    /\ events' = Tail(events)
    /\ Call("handleState")
    /\ UNCHANGED <<config, active, state, queueVars, req, requestQueue, frameVars, input, done, calls, boundVars, fatal>>

(***************************************************************************)
(* start(), stop() and the timeout of the frontend.                        *)
(***************************************************************************)

\* configure(): freeBuffers()
Configure(c) ==
    /\ ~active /\ Loop
    /\ config' = c
    /\ streams' = NoStreams
    /\ UNCHANGED <<active, state, stack, queueVars, req, requestQueue, frameVars, input, done, ipaVars, boundVars, faultVars, fatal>>

\* start(): resetBuffers() and queueAllBuffers(); requestBuffers_ stays as the last
\* session left it, unless the camera has been configured since.
Start ==
    /\ ~active /\ Loop
    /\ active' = TRUE /\ state' = "Idle"
    /\ streams' = [s \in Stream |->
           [requests  |-> streams[s].requests,
            available |-> IF External(s) THEN InternalBuffers(s) ELSE <<>>,
            device    |-> IF External(s) THEN <<>> ELSE InternalBuffers(s)]]
    /\ frame' = 0 /\ lost' = 0 /\ timeouts' = 0
    /\ IF \A s \in Stream : streams[s].requests = <<>> THEN session' = "clean" /\ UNCHANGED faults ELSE Fault("leftover")
    /\ UNCHANGED <<config, stack, queueVars, req, requestQueue, frameVars, input, done, ipaVars, fatal>>

\* start() fails and calls stop(): allocateBuffers() frees all the buffers, after
\* queueAllBuffers() and streamOn() the internal ones are left for the next start().
StartFails ==
    /\ ~active /\ Loop
    /\ streams' \in {NoStreams, [s \in Stream |-> [streams[s] EXCEPT
                                      !.available = IF External(s) THEN InternalBuffers(s) ELSE <<>>]]}
    /\ UNCHANGED <<config, active, state, stack, queueVars, req, requestQueue, frameVars, input, done, ipaVars,
                   boundVars, faultVars, fatal>>

\* platformStop() and streamOff(), whose buffers are ignored
StreamOff ==
    /\ bayerQueue' = <<>> /\ embeddedQueue' = <<>>
    /\ streams' = [s \in Stream |-> [streams[s] EXCEPT !.device = <<>>]]
    /\ input' = <<>> /\ done' = NotDone

\* PipelineHandler::stop() and stopDevice()
Stop ==
    /\ active /\ Loop
    /\ state' = "Stopped"
    /\ stopped' = waiting /\ waiting' = <<>>
    /\ StreamOff
    /\ stack' = <<"clear", "stopIpa", "waiting">>
    /\ UNCHANGED <<config, active, queued, req, requestQueue, ipaVars, boundVars, faultVars, fatal>>

\* cameraTimeout()
CameraTimeout ==
    /\ Loop /\ isRunning /\ timeouts < MaxTimeouts
    /\ streams["image"].device # <<>>
    /\ timeouts' = timeouts + 1
    /\ state' = "Error"
    /\ StreamOff
    /\ stack' = <<"clear">>
    /\ UNCHANGED <<config, active, queueVars, req, requestQueue, ipaVars, frame, lost, faultVars, fatal>>

\* clearIncompleteRequests()
ClearIncompleteRequests ==
    /\ At("clear")
    /\ IF requestQueue = <<>> THEN Return /\ UNCHANGED <<req, fatal>>
       ELSE LET r == Head(requestQueue) IN
            /\ fatal' = IF req[r].status = "Pending" THEN fatal ELSE "complete: status() == RequestPending"
            /\ req' = [req EXCEPT ![r].status = "Cancelled", ![r].pending = {}]
            /\ stack' = <<"complete", "pop">> \o stack
    /\ UNCHANGED <<config, active, state, queueVars, requestQueue, frameVars, deviceVars, ipaVars, boundVars, faultVars>>

PopIncomplete ==
    /\ At("pop")
    /\ requestQueue' = Tail(requestQueue)
    /\ Return
    /\ UNCHANGED <<config, active, state, queueVars, req, frameVars, deviceVars, ipaVars, boundVars, faultVars, fatal>>

\* Mutant: stop() does not wait for the IPA.
StopIpaAtOnce ==
    /\ At("stopIpa")
    /\ Return
    /\ UNCHANGED <<config, active, state, queueVars, req, requestQueue, frameVars, deviceVars, ipaVars, boundVars, faultVars, fatal>>

\* ipa_->stop(): the calls made before have been handled, their signals are ignored.
StopIpa ==
    /\ At("stopIpa") /\ calls = <<>>
    /\ events' = <<>>
    /\ Return
    /\ UNCHANGED <<config, active, state, queueVars, req, requestQueue, frameVars, deviceVars, calls, boundVars, faultVars, fatal>>

\* The end of PipelineHandler::stop()
StopWaiting ==
    /\ At("waiting")
    /\ IF stopped = <<>>
       THEN /\ fatal' = IF queued = <<>> THEN fatal ELSE "stop: queuedRequests_.empty()"
            /\ active' = FALSE
            /\ Return
            /\ UNCHANGED <<req, queued, stopped>>
       ELSE /\ stopped' = Tail(stopped)
            /\ queued' = Append(queued, Head(stopped))
            /\ req' = [req EXCEPT ![Head(stopped)].status = "Cancelled", ![Head(stopped)].pending = {}]
            /\ Call("complete")
            /\ UNCHANGED <<active, fatal>>
    /\ UNCHANGED <<config, state, waiting, requestQueue, frameVars, deviceVars, ipaVars, boundVars, faultVars>>

PipelineThread ==
    \/ DoQueueRequests \/ CompleteRequest \/ \E s \in {"image", "output"} : QueueRefused(s)
    \/ HandleState \/ CheckRequestCompleted \/ RequestCompleted \/ TryRunPipeline
    \/ UnicamImageDequeue \/ UnicamEmbeddedDequeue
    \/ IspInputDequeue \/ IspOutputDequeue \/ IspStatsDequeue \/ IpaEvent \/ IspRefuses
    \/ ClearIncompleteRequests \/ PopIncomplete \/ StopIpa \/ StopWaiting

Next ==
    /\ fatal = "none"
    /\ \/ PipelineThread \/ IpaThread \/ CaptureFrame \/ CaptureLost \/ IspRun
       \/ \E r \in Request, ss \in (SUBSET {"image", "output"}) \ {{}} :
              (\A s \in ss : External(s)) /\ QueueRequest(r, ss)
       \/ \E c \in Configuration : Configure(c)
       \/ Start \/ StartFails \/ Stop \/ CameraTimeout

Spec == Init /\ [][Next]_vars

(***************************************************************************)
(* Properties                                                              *)
(***************************************************************************)

Count(seq, b) == Cardinality({i \in DOMAIN seq : seq[i] = b})
CountIn(seq, b) == Cardinality({i \in DOMAIN seq : seq[i].buffer = b})

\* Where the buffer b of stream s is.
Places(s, b) ==
    LET st == streams[s] IN
    Count(st.available, b) + Count(st.requests, b) + Count(st.device, b) + CountIn(done[s], b)
    + CASE s = "image" ->
             CountIn(bayerQueue, b) + Count(input, b) + CountIn(done["input"], b)
             + Cardinality({i \in DOMAIN calls : calls[i].op = "prepareIsp" /\ calls[i].bayer = b})
             + Cardinality({i \in DOMAIN events : events[i].op = "prepareIspComplete" /\ events[i].bayer = b})
        [] s = "embedded" ->
             CountIn(embeddedQueue, b)
             + Cardinality({i \in DOMAIN calls : calls[i].op = "prepareIsp" /\ calls[i].embedded = b})
             + Cardinality({i \in DOMAIN events : events[i].op = "prepareIspComplete" /\ events[i].embedded = b})
        [] s = "stats" ->
             Cardinality({i \in DOMAIN calls : calls[i].op = "processStats" /\ calls[i].stats = b})
             + Cardinality({i \in DOMAIN events : events[i].op = "processStatsComplete" /\ events[i].stats = b})
        [] OTHER -> 0

\* BuffersInPlace: while the camera runs in a clean session, every internal buffer is
\* in one place, and so is every buffer that a request still waits for; one that it
\* does not wait for is nowhere, so that completeBuffer() never gets it again; and none
\* is in a pool of internal buffers, where handleStreamBuffer() puts what it does not
\* find in the first request.  A fault in an earlier session does not matter.
BuffersInPlace ==
    session = "clean" /\ isRunning /\ fatal = "none" =>
    \A s \in Stream :
        /\ \A i \in DOMAIN InternalBuffers(s) : Places(s, Internal(i)) = 1
        /\ \A r \in Request :
               /\ ~Contains(streams[s].available, OfRequest(r))
               /\ External(s) /\ Contains(requestQueue, r) =>
                      Places(s, OfRequest(r)) = IF s \in req[r].pending THEN 1 ELSE 0

\* NoAbort: no ASSERT fails and no empty queue is read, whenever the camera is
\* stopped and whenever the frontend times out, as long as no request waits for
\* room in the device.
NoAbort == Cardinality(Request) <= MaxQueued => fatal = "none"

\* NoStall: in a clean session a request in the queue has what it needs: an image can
\* come, or the embedded data the image waits for, or the IPA or the ISP is at work
\* for it and has all its buffers.
NoStall ==
    LET Coming(s) == streams[s].device # <<>> \/ done[s] # <<>> IN
    session = "clean" /\ isRunning /\ Loop /\ requestQueue # <<>> /\ fatal = "none" =>
    IF state = "Idle"
    THEN IF bayerQueue = <<>> THEN Coming("image") \/ done["input"] # <<>>
         ELSE config.embedded /\ embeddedQueue = <<>> /\ Coming("embedded")
    ELSE \/ calls # <<>> \/ events # <<>>
         \/ \E s \in {"input", "output", "stats"} : done[s] # <<>>
         \/ input # <<>> /\ \A s \in {"output", "stats"} : streams[s].device # <<>>

\* CompletedOnce: "The application may choose to queue as many requests as it
\* desires": a request that waited does not end the process when it is queued.
CompletedOnce == fatal # "complete: status() == RequestPending"
=============================================================================
