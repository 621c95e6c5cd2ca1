----------------------------- MODULE MCHandlers -----------------------------
(***************************************************************************)
(* The pipeline handlers that run an IPA module frame by frame, and the     *)
(* DelayedControls they use, for TLC.  A behaviour is one of a single       *)
(* component: `part` says which, the others do not move.  State that the    *)
(* two handlers have under the same name is one variable here.              *)
(***************************************************************************)
EXTENDS DelayedControls, Sequences, TLC

CONSTANTS exposure, gain, v1, v2, first, second,
          Request, Modes, MaxQueued, FCSize, MaxSkip, MaxFrame, MaxFaults,
          Pair, MaxRpiFrames, MaxTimeouts

VARIABLES part,
          \* RkISP1 and RpiPipeline
          active, waiting, queued, stopped, req, frameNumber, calls, events, faults, fatal,
          \* RkISP1
          mode, pc, ret, frameInfo, avail, buffers, sequence, proxy, contexts,
          \* RpiPipeline
          config, state, stack, requestQueue, bayerQueue, embeddedQueue, streams, input, done,
          embeddedLost, timeouts, session

TwoDelays == (exposure :> second) @@ (gain :> first)

\* Requests and values of controls are only copied and compared.
Symmetry == Permutations(Request) \cup Permutations(Pair) \cup Permutations(Values)

Rk == INSTANCE RkISP1 WITH frame <- frameNumber, device <- buffers
Rpi == INSTANCE RpiPipeline WITH
           Request <- Pair, MaxFrames <- MaxRpiFrames, frame <- frameNumber, lost <- embeddedLost

bothVars == <<active, waiting, queued, stopped, req, frameNumber, calls, events, faults, fatal>>
rkVars == <<mode, pc, ret, frameInfo, avail, buffers, sequence, proxy, contexts>>
rpiVars == <<config, state, stack, requestQueue, bayerQueue, embeddedQueue, streams, input, done,
             embeddedLost, timeouts, session>>
allVars == <<part, vars, bothVars, rkVars, rpiVars>>

NoDelayed == Init /\ device = [c \in Controls |-> v1]
NoHandler == /\ active = 0 /\ waiting = 0 /\ queued = 0 /\ stopped = 0 /\ req = 0 /\ frameNumber = 0
             /\ calls = 0 /\ events = 0 /\ faults = 0 /\ fatal = 0
NoRk == /\ mode = 0 /\ pc = 0 /\ ret = 0 /\ frameInfo = 0 /\ avail = 0 /\ buffers = 0
        /\ sequence = 0 /\ proxy = 0 /\ contexts = 0
NoRpi == /\ config = 0 /\ state = 0 /\ stack = 0 /\ requestQueue = 0 /\ bayerQueue = 0 /\ embeddedQueue = 0
         /\ streams = 0 /\ input = 0 /\ done = 0 /\ embeddedLost = 0 /\ timeouts = 0
         /\ session = 0

AllInit ==
    \/ part = "delayed" /\ Init /\ NoHandler /\ NoRk /\ NoRpi
    \/ part = "rkisp1" /\ NoDelayed /\ Rk!Init /\ NoRpi
    \/ part = "rpi" /\ NoDelayed /\ Rpi!Init /\ NoRk

AllNext ==
    /\ UNCHANGED part
    /\ \/ part = "delayed" /\ Next /\ UNCHANGED <<bothVars, rkVars, rpiVars>>
       \/ part = "rkisp1" /\ Rk!Next /\ UNCHANGED <<vars, rpiVars>>
       \/ part = "rpi" /\ Rpi!Next /\ UNCHANGED <<vars, rkVars>>

AllSpec == AllInit /\ [][AllNext]_allVars

-----------------------------------------------------------------------------

\* TakesEffect and ReadBack are those of DelayedControls.

\* RkBuffersAccounted: the rkisp1 pipeline handler never loses or doubles one of its
\* parameters, statistics and dewarper input buffers (RkISP1!BuffersAccounted).
RkBuffersAccounted == part = "rkisp1" => Rk!BuffersAccounted

\* RkNoAbort: no ASSERT of the rkisp1 pipeline handler, of its IPA's frame context
\* queue or of the proxy is reached (RkISP1!NoAbort).
RkNoAbort == part = "rkisp1" => Rk!NoAbort

\* RkInOrder: the rkisp1 pipeline handler returns requests once, in the order they
\* were queued: every step is one of RequestFifo, or none (RkISP1!InOrder).
RkInOrder == [][part = "rkisp1" => [Rk!Fifo!Next]_(Rk!Fifo!vars)]_allVars

\* RpiNoAbort: no ASSERT of the Raspberry Pi pipeline handler is reached, whatever is
\* lost or late when it stops (RpiPipeline!NoAbort).
RpiNoAbort == part = "rpi" => Rpi!NoAbort

\* RpiBuffersInPlace: each buffer of an RPi::Stream is in exactly one place
\* (RpiPipeline!BuffersInPlace).
RpiBuffersInPlace == part = "rpi" => Rpi!BuffersInPlace

\* RpiNoStall: the state machine never rests with a request and the buffers to run
\* it at hand (RpiPipeline!NoStall).
RpiNoStall == part = "rpi" => Rpi!NoStall
=============================================================================
