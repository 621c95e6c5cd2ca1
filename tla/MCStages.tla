------------------------------ MODULE MCStages ------------------------------
(***************************************************************************)
(* The components that put a stage of their own behind the capture of a     *)
(* frame, for TLC: the GStreamer element, the simple pipeline handler with  *)
(* its converters, and the Android HAL with its post-processors.  A         *)
(* behaviour is one of a single component: `part` says which, the others    *)
(* stay as they are initially.                                              *)
(***************************************************************************)
EXTENDS GstSrc

CONSTANTS Request, Configs, Partial, MaxQueued, MaxSequence, MaxErrors, MaxFaults,
          Frames, Mapped, Requested, MaxBuffers, Unplug

VARIABLES part,
          \* SimplePipeline
          config, active, position, ret, waiting, queued, stopped, req, sequence, frameInfo,
          conversionQueue, video, m2m, swIsp, errors, faults, dropped, mixed, fatal,
          \* AndroidHal
          state, device, building, flushing, descriptors, desc, requests, workers, buffers,
          allocated, notified, lost

Simple == INSTANCE SimplePipeline WITH pc <- position
Android == INSTANCE AndroidHal WITH camera <- device

\* SimplePipeline!Configuration
AllConfigs == [conv : {"none"}, raw : {FALSE}] \cup [conv : {"m2m", "soft"}, raw : BOOLEAN]

simpleVars == <<config, active, position, ret, waiting, queued, stopped, req, sequence, frameInfo,
                conversionQueue, video, m2m, swIsp, errors, faults, dropped, mixed, fatal>>
androidVars == <<state, device, building, flushing, descriptors, desc, requests, workers, buffers,
                 allocated, notified, lost>>
allVars == <<part, vars, simpleVars, androidVars>>

AllInit ==
    /\ part \in {"gstreamer", "simple", "android"}
    /\ Init
    /\ Simple!Init
    /\ part # "simple" => config = CHOOSE c \in Configs : TRUE
    /\ Android!Init

AllNext ==
    /\ UNCHANGED part
    /\ \/ part = "gstreamer" /\ Next /\ UNCHANGED <<simpleVars, androidVars>>
       \/ part = "simple" /\ Simple!Next /\ UNCHANGED <<vars, androidVars>>
       \/ part = "android" /\ Android!Next /\ UNCHANGED <<vars, simpleVars>>

\* The fairness of SimplePipeline!FairSpec and AndroidHal!FairSpec.
AllSpec ==
    /\ AllInit /\ [][AllNext]_allVars
    /\ WF_simpleVars(part = "simple" /\ fatal = "none" /\ Simple!PipelineThread)
    /\ WF_simpleVars(part = "simple" /\ fatal = "none" /\ Simple!Debayer)
    /\ WF_simpleVars(part = "simple" /\ fatal = "none" /\ Simple!IpaThread)
    /\ WF_androidVars(part = "android" /\ Android!Camera)
    /\ WF_androidVars(part = "android" /\ Android!SendCaptureResult)
    /\ WF_androidVars(part = "android" /\ Android!ProcessCaptureRequest)
    /\ \A s \in Android!Processed : WF_androidVars(part = "android" /\ Android!Worker(s))

-----------------------------------------------------------------------------

\* TaskWoken and WrapsKept are those of GstSrc.

\* SimpleNoAbort: no ASSERT of the simple pipeline handler or of its converters is
\* reached (SimplePipeline!NoAbort).
SimpleNoAbort == Simple!NoAbort

\* SimpleBuffersCirculate: the internal buffers of the simple pipeline handler are in
\* one place each (SimplePipeline!InternalBuffersCirculate).
SimpleBuffersCirculate == Simple!InternalBuffersCirculate

\* SimpleServes: the simple pipeline handler returns requests in order, as RequestFifo
\* says, and its stop() finishes (SimplePipeline!RequestsServed).
SimpleServes == Simple!RequestsServed

\* AndroidBuffersExclusive: the HAL never uses an internal buffer for two frames
\* (AndroidHal!BuffersExclusive).
AndroidBuffersExclusive == Android!BuffersExclusive

\* AndroidResults: the HAL returns results in submission order, as RequestFifo says,
\* each after the messages that announce it (AndroidHal!ResultsAnnounced).
AndroidResults == Android!ResultsAnnounced

\* AndroidAnswers: every capture request that the HAL accepts gets its result
\* (AndroidHal!EveryCaptureAnswered).
AndroidAnswers == Android!EveryCaptureAnswered
=============================================================================
