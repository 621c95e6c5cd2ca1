------------------------ MODULE SimplePipelineProofs ------------------------
(***************************************************************************)
(* Theorems about the simple pipeline handler, in every configuration, for  *)
(* any requests and any number of buffers: its internal buffers circulate   *)
(* (SimpleBuffersCirculate), no ASSERT is reached (SimpleNoAbort), and it   *)
(* implements RequestFifo (the safety half of SimpleServes).                *)
(*                                                                          *)
(* The invariant SimpleInv sees the queues as sets where order does not     *)
(* matter: a request owes the streams that are pending, and the buffer of   *)
(* each is in one place (PiecesSound).  The software ISP is where order     *)
(* matters: its two queues follow the work and the events of the debayer    *)
(* (SwIspSound).                                                            *)
(***************************************************************************)
EXTENDS MCStages, QueueLemmas, FiniteSetTheorems

\* Every request has a buffer for every stream.
SimpleConstants == MaxQueued \in Nat /\ MaxFaults \in Nat /\ Configs \subseteq Simple!Configuration /\ ~Partial

AllStreams == {"a", "b", "raw"}
SimpleRequest ==
    [status : {"Free", "Pending", "Complete", "Cancelled"}, pending : SUBSET AllStreams, sequence : Nat]
InternalBuffers == {Simple!InternalBuffer(i) : i \in 1 .. MaxQueued}
RequestBuffers == {Simple!RequestBuffer(r) : r \in Request}
CaptureBuffers == InternalBuffers \cup RequestBuffers
SimpleStages == {"loop", "m2m", "debayer", "drain", "ipa", "ipaDrain", "swIsp", "video", "clear", "waiting"}
FrameEntry == [request : Request, required : BOOLEAN, processed : BOOLEAN]
DebayerWork == [frame : Nat, in : CaptureBuffers, out : Request]
DebayerEvent == [name : {"stats"}, frame : Nat] \cup [name : {"output"}, out : Request]
                \cup [name : {"input"}, in : CaptureBuffers]

SimpleType ==
    /\ config \in Simple!Configuration /\ active \in BOOLEAN
    /\ position \in SimpleStages \cup {"complete", "doQueue"} /\ ret \in SimpleStages
    /\ req \in [Request -> SimpleRequest]
    /\ sequence \in Nat /\ faults \in Nat
    /\ DOMAIN frameInfo \subseteq Nat /\ \A f \in DOMAIN frameInfo : frameInfo[f] \in FrameEntry
\* A request is in one queue, once, and not with the application.
SimpleQueues ==
    /\ queued \in Seq(Request) /\ stopped \in Seq(Request) /\ waiting \in Seq(Request)
    /\ IsInjective(queued) /\ IsInjective(stopped) /\ IsInjective(waiting)
    /\ ToSet(queued) \cap ToSet(stopped) = {}
    /\ ToSet(queued) \cap ToSet(waiting) = {}
    /\ ToSet(stopped) \cap ToSet(waiting) = {}
    /\ \A r \in ToSet(queued) \cup ToSet(stopped) \cup ToSet(waiting) : req[r].status # "Free"
    /\ \A r \in ToSet(waiting) : req[r].status = "Pending" /\ req[r].pending = Simple!Streams(config)

Live(r) == r \in ToSet(queued) /\ req[r].status = "Pending"
Owes(r, s) == Live(r) /\ s \in req[r].pending

\* A live request has a frame info of its own, until they are cleared.
SimpleFrames ==
    /\ \A f \in DOMAIN frameInfo :
        LET r == frameInfo[f].request IN f < sequence /\ Live(r) /\ req[r].sequence = f
    /\ Simple!Stage \notin {"clear", "waiting"} =>
        \A r \in ToSet(queued) : req[r].status = "Pending" =>
            req[r].sequence \in DOMAIN frameInfo /\ frameInfo[req[r].sequence].request = r

Inputs == ToSet(m2m.in["a"]) \cup ToSet(m2m.in["b"]) \cup ToSet(swIsp.in)
ToConvert == {conversionQueue[i].request : i \in DOMAIN conversionQueue}
OutputsOf(s) ==
    (IF s \in {"a", "b"} THEN ToSet(m2m.out[s]) ELSE {}) \cup (IF s = "a" THEN ToSet(swIsp.out) ELSE {})

Captured == IF Simple!Internal THEN {} ELSE {Simple!CapturedStream}
Converted == IF Simple!useConversion THEN Simple!Outs(config) ELSE {}

\* Each buffer a request owes is in the capture device or in the converter's input,
\* or waits for its conversion, or is in the converter's output.
Held(r, s) ==
    \/ s \in Captured /\ Simple!RequestBuffer(r) \in ToSet(video) \cup Inputs
    \/ s \in Converted /\ r \in ToConvert \cup OutputsOf(s)
PiecesSound == \A r \in Request, s \in AllStreams : Owes(r, s) <=> Held(r, s)

ConversionSound ==
    /\ conversionQueue \in Seq([request : Request, outputs : SUBSET AllStreams])
    /\ \A i, j \in DOMAIN conversionQueue : conversionQueue[i].request = conversionQueue[j].request => i = j
    /\ \A i \in DOMAIN conversionQueue : conversionQueue[i].outputs = Simple!Outs(config)
    /\ \A s \in AllStreams : ToConvert \cap OutputsOf(s) = {}

\* The buffers of the capture device: of requests, or internal and all there.
VideoSound ==
    /\ video \in Seq(CaptureBuffers) /\ IsInjective(video)
    /\ ToSet(video) \cap Inputs = {}
    /\ ToSet(video) \cup Inputs \subseteq (IF Simple!Internal THEN InternalBuffers ELSE RequestBuffers)
    /\ active /\ Simple!Internal /\ Simple!Stage \notin {"video", "clear"} =>
        InternalBuffers \subseteq ToSet(video) \cup Inputs
    /\ config.raw => Len(video) <= Len(conversionQueue)

\* V4L2M2MConverter::queue_ counts the streams that still have an input.
References == UNION {[D -> {1, 2}] : D \in SUBSET CaptureBuffers}
M2mSound ==
    /\ m2m \in [in : [{"a", "b"} -> Seq(CaptureBuffers)], out : [{"a", "b"} -> Seq(Request)], queue : References]
    /\ \A s \in {"a", "b"} : IsInjective(m2m.in[s]) /\ IsInjective(m2m.out[s])
    /\ DOMAIN m2m.queue = ToSet(m2m.in["a"]) \cup ToSet(m2m.in["b"])
    /\ \A b \in DOMAIN m2m.queue :
        m2m.queue[b] = IF b \in ToSet(m2m.in["a"]) /\ b \in ToSet(m2m.in["b"]) THEN 2 ELSE 1

\* The inputs and the outputs that the debayer thread and its events have, in order.
InWork(ev, db) ==
    [i \in 1 .. Len(ev) + Len(db) |->
        IF i <= Len(ev) THEN (IF ev[i].name = "input" THEN <<ev[i].in>> ELSE <<>>)
        ELSE <<db[i - Len(ev)].in>>]
OutWork(ev, db) ==
    [i \in 1 .. Len(ev) + Len(db) |->
        IF i <= Len(ev) THEN (IF ev[i].name = "output" THEN <<ev[i].out>> ELSE <<>>)
        ELSE <<db[i - Len(ev)].out>>]

Follows(w, q) ==
    /\ \A i \in DOMAIN w : w[i] # <<>> => \E k \in DOMAIN q : w[i] = <<q[k]>>
    /\ \A i, j \in DOMAIN w, k, l \in DOMAIN q : w[i] = <<q[k]>> /\ w[j] = <<q[l]>> /\ i < j => k < l
Covers(w, q) == \A k \in DOMAIN q : \E i \in DOMAIN w : w[i] = <<q[k]>>

SwIspState ==
    [in : Seq(CaptureBuffers), out : Seq(Request), debayer : Seq(DebayerWork),
     events : Seq(DebayerEvent), ipa : Seq(Nat), metadata : Seq(Nat)]
SwIspSound ==
    /\ swIsp \in SwIspState
    /\ IsInjective(swIsp.in) /\ IsInjective(swIsp.out)
    /\ Follows(InWork(swIsp.events, swIsp.debayer), swIsp.in)
    /\ Follows(OutWork(swIsp.events, swIsp.debayer), swIsp.out)
    /\ faults = 0 /\ Simple!Stage # "swIsp" =>
        /\ Covers(InWork(swIsp.events, swIsp.debayer), swIsp.in)
        /\ Covers(OutWork(swIsp.events, swIsp.debayer), swIsp.out)

\* Frames whose metadata is on its way.
StatsWork ==
    {swIsp.debayer[i].frame : i \in DOMAIN swIsp.debayer}
    \cup {swIsp.events[i].frame : i \in {j \in DOMAIN swIsp.events : swIsp.events[j].name = "stats"}}
    \cup ToSet(swIsp.ipa) \cup ToSet(swIsp.metadata)

\* A frame info is kept as long as something is missing, and what is missing comes.
Missing == \A f \in DOMAIN frameInfo :
    req[frameInfo[f].request].pending # {} \/ (frameInfo[f].required /\ ~frameInfo[f].processed)
Wanted(f) == frameInfo[f].required /\ ~frameInfo[f].processed
Coming(r, f) == r \in ToConvert \/ f \in StatsWork
MetadataComes ==
    /\ \A f \in DOMAIN frameInfo : frameInfo[f].required => config.conv = "soft"
    /\ faults = 0 => \A f \in DOMAIN frameInfo : Wanted(f) => Coming(frameInfo[f].request, f)
LeftOver ==
    faults = 0 /\ Simple!Stage \in {"clear", "waiting"} =>
        \A r \in ToSet(queued) : req[r].status = "Pending" => r \in ToConvert

SimpleHeadWorks == queued # <<>> /\ position # "complete" => req[Head(queued)].status = "Pending"

Booked == SimpleQueues /\ SimpleFrames /\ Missing /\ SimpleHeadWorks

StagesSound ==
    /\ ~active => Simple!Stage \in {"loop", "waiting"}
    /\ Simple!Stage = "waiting" => ~active
    /\ ~active /\ Simple!Stage = "loop" => queued = <<>>
    /\ waiting # <<>> => active /\ Simple!Stage = "loop"
    /\ Simple!Stage = "loop" => stopped = <<>>
    /\ Simple!Stage = "m2m" => config.conv = "m2m"
    /\ Simple!Stage \in {"debayer", "drain", "ipa", "ipaDrain", "swIsp"} => config.conv = "soft"

\* What is empty when.
NoM2mWork == \A s \in {"a", "b"} : m2m.in[s] = <<>> /\ m2m.out[s] = <<>>
M2mPhases == config.conv # "m2m" \/ ~active \/ Simple!Stage \in {"video", "clear"} => NoM2mWork
SwIspPhases ==
    /\ config.conv # "soft" \/ ~active \/ Simple!Stage \in {"video", "clear"} => swIsp = Simple!NoSwIsp
    /\ Simple!Stage \in {"drain", "ipa", "ipaDrain", "swIsp"} => swIsp.debayer = <<>>
    /\ Simple!Stage \in {"ipa", "ipaDrain", "swIsp"} => swIsp.events = <<>>
    /\ Simple!Stage \in {"ipaDrain", "swIsp"} => swIsp.ipa = <<>>
    /\ Simple!Stage = "swIsp" => swIsp.metadata = <<>>
VideoPhases ==
    /\ ~active \/ Simple!Stage = "clear" => video = <<>> /\ DOMAIN frameInfo = {}
    /\ ~active \/ config.conv = "none" => conversionQueue = <<>>

SimplePhases == StagesSound /\ M2mPhases /\ SwIspPhases /\ VideoPhases

SimpleInv ==
    /\ SimpleType /\ Booked
    /\ PiecesSound /\ ConversionSound /\ VideoSound /\ M2mSound /\ SwIspSound
    /\ MetadataComes /\ LeftOver /\ SimplePhases
-----------------------------------------------------------------------------

\* A handler takes streams S from what request r owes, and updates or removes its frame.
Same(r) ==
    /\ req' \in [Request -> SimpleRequest]
    /\ \A q \in Request : q # r => req'[q] = req[q]
    /\ req'[r].sequence = req[r].sequence

StillOwes(r, S) ==
    /\ Same(r)
    /\ req'[r].pending = req[r].pending \ S /\ req'[r].status = req[r].status
    /\ LET f == req[r].sequence IN
       /\ DOMAIN frameInfo' = DOMAIN frameInfo
       /\ \A g \in DOMAIN frameInfo : g # f => frameInfo'[g] = frameInfo[g]
       /\ frameInfo'[f] \in FrameEntry /\ frameInfo'[f].request = r
       /\ frameInfo'[f].required /\ ~frameInfo'[f].processed => frameInfo[f].required /\ ~frameInfo[f].processed
       /\ req[r].pending \ S # {} \/ (frameInfo'[f].required /\ ~frameInfo'[f].processed)
    /\ UNCHANGED <<position, ret>>

IsDone(r, S) ==
    /\ Same(r)
    /\ req[r].pending \ S = {} /\ req'[r].status = "Complete"
    /\ LET f == req[r].sequence IN
       /\ DOMAIN frameInfo' = DOMAIN frameInfo \ {f}
       /\ \A g \in DOMAIN frameInfo' : frameInfo'[g] = frameInfo[g]
    /\ position' = "complete" /\ ret' = position

Handled(r, S) == StillOwes(r, S) \/ IsDone(r, S)

Bookkeeping == <<config, active, queued, stopped, waiting, sequence>>

\* What a handler may do to the entry of a frame.
Settles(e, f) ==
    /\ e \in FrameEntry /\ e.request = frameInfo[f].request
    /\ e.required /\ ~e.processed => frameInfo[f].required /\ ~frameInfo[f].processed

\* A queue of elements of S has no others.
LEMMA QueueOf ==
    ASSUME NEW S, NEW q \in Seq(S)
    PROVE  \A x \in ToSet(q) : x \in S
BY DEF ToSet

LEMMA TryCompletes ==
    ASSUME SimpleType, NEW r \in Request, NEW S \in SUBSET AllStreams, NEW info, NEW f, f = req[r].sequence,
           f \in DOMAIN frameInfo, frameInfo[f].request = r, Settles(info[f], f),
           DOMAIN info = DOMAIN frameInfo, \A g \in DOMAIN frameInfo : g # f => info[g] = frameInfo[g],
           Simple!tryCompleteRequest(r, Simple!completeBuffers(r, S), info)
    PROVE  Handled(r, S)
<1> DEFINE q == Simple!completeBuffers(r, S)
           e == info[f]
<1>1. req \in [Request -> SimpleRequest] /\ req[r] \in SimpleRequest
  BY DEF SimpleType
<1>2. q = [req EXCEPT ![r].pending = @ \ S]
  BY DEF Simple!completeBuffers
<1>3. /\ q \in [Request -> SimpleRequest] /\ \A x \in Request : x # r => q[x] = req[x]
      /\ q[r].pending = req[r].pending \ S /\ q[r].status = req[r].status /\ q[r].sequence = f
  BY <1>1, <1>2 DEF SimpleRequest
<1>4. DOMAIN info = DOMAIN frameInfo /\ info[f] = e /\ \A g \in DOMAIN frameInfo : g # f => info[g] = frameInfo[g]
  OBVIOUS
<1> HIDE DEF e, q
<1>5. Simple!tryCompleteRequest(r, q, info)
  BY DEF q
<1>6. CASE q[r].pending # {} \/ (e.required /\ ~e.processed)
  <2>1. req' = q /\ frameInfo' = info /\ UNCHANGED <<position, ret>>
    BY <1>3, <1>4, <1>5, <1>6 DEF Simple!tryCompleteRequest
  <2>2. Same(r)
    BY <1>3, <2>1 DEF Same
  <2>3. StillOwes(r, S)
    BY <1>3, <1>4, <1>6, <2>1, <2>2 DEF StillOwes, Settles, e
  <2>4. QED
    BY <2>3 DEF Handled
<1>7. CASE ~(q[r].pending # {} \/ (e.required /\ ~e.processed))
  <2>1. /\ req' = [q EXCEPT ![r].status = "Complete"]
        /\ frameInfo' = Simple!Restrict(info, DOMAIN info \ {f})
        /\ position' = "complete" /\ ret' = position
    BY <1>3, <1>4, <1>5, <1>7 DEF Simple!tryCompleteRequest
  <2>2. DOMAIN frameInfo' = DOMAIN frameInfo \ {f} /\ \A g \in DOMAIN frameInfo' : frameInfo'[g] = frameInfo[g]
    BY <1>4, <2>1 DEF Simple!Restrict
  <2>3. /\ req' \in [Request -> SimpleRequest] /\ \A x \in Request : x # r => req'[x] = q[x]
        /\ req'[r].status = "Complete" /\ req'[r].sequence = q[r].sequence
    BY <1>3, <2>1 DEF SimpleRequest
  <2>4. Same(r)
    BY <1>3, <2>3 DEF Same
  <2>5. IsDone(r, S)
    BY <1>3, <1>7, <2>1, <2>2, <2>3, <2>4 DEF IsDone
  <2>6. QED
    BY <2>5 DEF Handled
<1>8. QED
  BY <1>6, <1>7

\* Where it returns to does not change.
LEMMA SameStage ==
    ASSUME SimpleType, NEW r, NEW S, Handled(r, S), position \in SimpleStages
    PROVE  Simple!Stage' = Simple!Stage
BY DEF Handled, StillOwes, IsDone, Simple!Stage, SimpleStages

LEMMA HandledTypes ==
    ASSUME SimpleType, NEW r \in Request, NEW S, Handled(r, S), position \in SimpleStages, UNCHANGED Bookkeeping,
           req[r].sequence \in DOMAIN frameInfo, frameInfo[req[r].sequence].request = r, faults' \in Nat
    PROVE  SimpleType'
<1>1. req' \in [Request -> SimpleRequest]
  BY DEF Handled, StillOwes, IsDone, Same
<1>2. position' \in SimpleStages \cup {"complete", "doQueue"} /\ ret' \in SimpleStages
  BY DEF Handled, StillOwes, IsDone, SimpleType
<1>3. DOMAIN frameInfo' \subseteq Nat /\ \A g \in DOMAIN frameInfo' : frameInfo'[g] \in FrameEntry
  <2>1. CASE StillOwes(r, S)
    BY <2>1 DEF StillOwes, SimpleType
  <2>2. CASE IsDone(r, S)
    BY <2>2 DEF IsDone, SimpleType
  <2>3. QED
    BY <2>1, <2>2 DEF Handled
<1>4. QED
  BY <1>1, <1>2, <1>3 DEF SimpleType, Bookkeeping

\* What is owed afterwards.
LEMMA HandledOwes ==
    ASSUME SimpleType, NEW r \in Request, NEW S \in SUBSET AllStreams, Handled(r, S), UNCHANGED Bookkeeping, Live(r)
    PROVE  /\ \A q \in Request, t \in AllStreams : Owes(q, t)' <=> Owes(q, t) /\ ~(q = r /\ t \in S)
           /\ \A q \in Request : q # r => (Live(q)' <=> Live(q))
<1>1. queued' = queued
  BY DEF Bookkeeping
<1>2. \A q \in Request : q # r => (Live(q)' <=> Live(q)) /\ req'[q] = req[q]
  BY <1>1 DEF Handled, StillOwes, IsDone, Same, Live
<1>3. \A t \in AllStreams : Owes(r, t)' <=> Owes(r, t) /\ t \notin S
  <2>1. CASE StillOwes(r, S)
    BY <1>1, <2>1 DEF StillOwes, Owes, Live
  <2>2. CASE IsDone(r, S)
    BY <1>1, <2>2 DEF IsDone, Owes, Live
  <2>3. QED
    BY <2>1, <2>2 DEF Handled
<1>4. QED
  BY <1>2, <1>3 DEF Owes

LEMMA HandledBooked ==
    ASSUME SimpleType, Booked, NEW r \in Request, NEW S \in SUBSET AllStreams, Handled(r, S), UNCHANGED Bookkeeping,
           Live(r), position \in SimpleStages, req[r].sequence \in DOMAIN frameInfo,
           frameInfo[req[r].sequence].request = r
    PROVE  Booked'
<1> DEFINE f == req[r].sequence
<1>1. /\ queued' = queued /\ stopped' = stopped /\ waiting' = waiting /\ sequence' = sequence /\ config' = config
      /\ Simple!Stage' = Simple!Stage
  BY SameStage DEF Bookkeeping
<1>2. Same(r) /\ r \in ToSet(queued) /\ req[r].status = "Pending" /\ req'[r].status # "Free"
  BY DEF Handled, StillOwes, IsDone, Live
<1>3. SimpleQueues'
  <2>1. \A q \in ToSet(queued) \cup ToSet(stopped) \cup ToSet(waiting) : q \in Request
    BY QueueOf DEF Booked, SimpleQueues
  <2>2. \A q \in ToSet(waiting) : q # r
    BY <1>2 DEF Booked, SimpleQueues
  <2>3. \A q \in ToSet(queued) \cup ToSet(stopped) \cup ToSet(waiting) : req'[q].status # "Free"
    BY <1>2, <2>1 DEF Same, Booked, SimpleQueues
  <2>4. \A q \in ToSet(waiting) : req'[q].status = "Pending" /\ req'[q].pending = Simple!Streams(config)
    BY <1>2, <2>1, <2>2 DEF Same, Booked, SimpleQueues
  <2>5. Simple!Streams(config)' = Simple!Streams(config)
    BY <1>1 DEF Simple!Streams, Simple!Outs
  <2>6. QED
    BY <1>1, <2>3, <2>4, <2>5 DEF Booked, SimpleQueues
<1>4. \A g \in DOMAIN frameInfo : g # f => frameInfo[g].request \in Request /\ frameInfo[g].request # r
  BY DEF Booked, SimpleFrames, SimpleType, FrameEntry
<1>5. SimpleFrames' /\ Missing'
  <2>1. \A g \in DOMAIN frameInfo : g # f =>
            req'[frameInfo[g].request] = req[frameInfo[g].request] /\ frameInfo[g].request \in ToSet(queued)
            /\ req[frameInfo[g].request].status = "Pending"
    BY <1>1, <1>2, <1>4 DEF Same, Booked, SimpleFrames, Live
  <2>2. \A q \in Request : q # r /\ q \in ToSet(queued) /\ req[q].status = "Pending" /\ Simple!Stage \notin {"clear", "waiting"} =>
            req[q].sequence \in DOMAIN frameInfo /\ req[q].sequence # f /\ frameInfo[req[q].sequence].request = q
    BY DEF Booked, SimpleFrames
  <2>3. CASE StillOwes(r, S)
    <3>1. DOMAIN frameInfo' = DOMAIN frameInfo /\ \A g \in DOMAIN frameInfo : frameInfo'[g].request = frameInfo[g].request
      BY <2>3 DEF StillOwes
    <3>2. r \in ToSet(queued') /\ req'[r].status = "Pending" /\ req'[r].sequence = f
      BY <1>1, <2>3 DEF StillOwes, Same, Live
    <3>3. \A g \in DOMAIN frameInfo' :
              /\ g < sequence' /\ frameInfo'[g].request \in ToSet(queued') /\ req'[frameInfo'[g].request].status = "Pending"
              /\ req'[frameInfo'[g].request].sequence = g
      BY <1>1, <2>1, <3>1, <3>2 DEF Booked, SimpleFrames, Live
    <3>4. Simple!Stage' \notin {"clear", "waiting"} =>
            \A q \in ToSet(queued') : req'[q].status = "Pending" =>
                req'[q].sequence \in DOMAIN frameInfo' /\ frameInfo'[req'[q].sequence].request = q
      <4>1. \A q \in ToSet(queued) : q \in Request
        BY QueueOf DEF Booked, SimpleQueues
      <4>2. QED
        BY <1>1, <1>2, <2>2, <3>1, <3>2, <4>1 DEF Same
    <3>5. Missing'
      BY <2>1, <2>3, <3>1 DEF StillOwes, Booked, Missing
    <3>6. QED
      BY <3>3, <3>4, <3>5 DEF SimpleFrames, Live
  <2>4. CASE IsDone(r, S)
    <3>1. DOMAIN frameInfo' = DOMAIN frameInfo \ {f} /\ \A g \in DOMAIN frameInfo' : frameInfo'[g] = frameInfo[g]
      BY <2>4 DEF IsDone
    <3>2. req'[r].status # "Pending"
      BY <2>4 DEF IsDone
    <3>3. \A g \in DOMAIN frameInfo' :
              /\ g < sequence' /\ frameInfo'[g].request \in ToSet(queued') /\ req'[frameInfo'[g].request].status = "Pending"
              /\ req'[frameInfo'[g].request].sequence = g
      BY <1>1, <2>1, <3>1 DEF Booked, SimpleFrames
    <3>4. Simple!Stage' \notin {"clear", "waiting"} =>
            \A q \in ToSet(queued') : req'[q].status = "Pending" =>
                req'[q].sequence \in DOMAIN frameInfo' /\ frameInfo'[req'[q].sequence].request = q
      <4>1. \A q \in ToSet(queued) : q \in Request
        BY QueueOf DEF Booked, SimpleQueues
      <4>2. QED
        BY <1>1, <1>2, <2>2, <3>1, <3>2, <4>1 DEF Same
    <3>5. Missing'
      BY <2>1, <3>1 DEF Booked, Missing
    <3>6. QED
      BY <3>3, <3>4, <3>5 DEF SimpleFrames, Live
  <2>5. QED
    BY <2>3, <2>4 DEF Handled
<1>6. SimpleHeadWorks'
  <2>1. CASE StillOwes(r, S)
    <3>1. \A q \in Request : req'[q].status = req[q].status
      BY <1>2, <2>1 DEF StillOwes, Same
    <3>2. queued # <<>> => Head(queued) \in Request
      BY DEF Booked, SimpleQueues
    <3>3. QED
      BY <1>1, <2>1, <3>1, <3>2 DEF StillOwes, Booked, SimpleHeadWorks
  <2>2. CASE IsDone(r, S)
    BY <2>2 DEF IsDone, SimpleHeadWorks
  <2>3. QED
    BY <2>1, <2>2 DEF Handled
<1>7. QED
  BY <1>3, <1>5, <1>6 DEF Booked
-----------------------------------------------------------------------------

LEMMA PushedIndexing ==
    ASSUME NEW S, NEW q \in Seq(S), NEW x \in S
    PROVE  /\ Append(q, x) \in Seq(S) /\ Len(q) \in Nat /\ DOMAIN q = 1 .. Len(q)
           /\ DOMAIN Append(q, x) = 1 .. Len(q) + 1 /\ Append(q, x)[Len(q) + 1] = x
           /\ \A i \in 1 .. Len(q) : Append(q, x)[i] = q[i]
OBVIOUS

LEMMA PoppedQueue ==
    ASSUME NEW S, NEW q \in Seq(S), q # <<>>, IsInjective(q)
    PROVE  /\ Tail(q) \in Seq(S) /\ IsInjective(Tail(q)) /\ ToSet(Tail(q)) = ToSet(q) \ {Head(q)}
           /\ Head(q) \in S /\ Head(q) \in ToSet(q) /\ Len(Tail(q)) = Len(q) - 1 /\ Len(q) \in Nat \ {0}
<1>1. Tail(q) \in Seq(S) /\ Head(q) \in S /\ Len(Tail(q)) = Len(q) - 1 /\ Len(q) \in Nat \ {0}
  OBVIOUS
<1>2. QED
  BY <1>1, ToSetOfTail, HeadInToSet

LEMMA PushedQueue ==
    ASSUME NEW S, NEW q \in Seq(S), NEW x \in S, x \notin ToSet(q), IsInjective(q)
    PROVE  /\ Append(q, x) \in Seq(S) /\ IsInjective(Append(q, x)) /\ ToSet(Append(q, x)) = ToSet(q) \cup {x}
           /\ Len(Append(q, x)) = Len(q) + 1 /\ Len(q) \in Nat
<1>1. Append(q, x) \in Seq(S) /\ Len(Append(q, x)) = Len(q) + 1 /\ Len(q) \in Nat
  OBVIOUS
<1>2. QED
  BY <1>1, ToSetOfAppend, InjectiveAppend

(***************************************************************************)
(* V4L2M2MConverter                                                        *)
(***************************************************************************)

M2mState == [in : [{"a", "b"} -> Seq(CaptureBuffers)], out : [{"a", "b"} -> Seq(Request)], queue : References]

LEMMA M2mKept ==
    ASSUME M2mSound, m2m' = m2m
    PROVE  M2mSound'
BY DEF M2mSound, References, CaptureBuffers, InternalBuffers, RequestBuffers, Simple!InternalBuffer, Simple!RequestBuffer

LEMMA M2mOutputMove ==
    ASSUME M2mSound, NEW s \in {"a", "b"}, m2m.out[s] # <<>>, m2m' = [m2m EXCEPT !.out[s] = Tail(@)]
    PROVE  /\ M2mSound' /\ m2m'.in = m2m.in
           /\ ToSet(m2m'.out[s]) = ToSet(m2m.out[s]) \ {Head(m2m.out[s])}
           /\ \A t \in {"a", "b"} : t # s => m2m'.out[t] = m2m.out[t]
           /\ Head(m2m.out[s]) \in ToSet(m2m.out[s]) /\ Head(m2m.out[s]) \in Request
<1>1. m2m \in M2mState
  BY DEF M2mSound, M2mState
<1>2. PICK q \in Seq(Request) : q = m2m.out[s] /\ q # <<>> /\ IsInjective(q)
  BY <1>1 DEF M2mState, M2mSound
<1>3. /\ Tail(q) \in Seq(Request) /\ IsInjective(Tail(q)) /\ ToSet(Tail(q)) = ToSet(q) \ {Head(q)}
      /\ Head(q) \in ToSet(q) /\ Head(q) \in Request
  BY <1>2, PoppedQueue
<1>4. /\ m2m'.in = m2m.in /\ m2m'.queue = m2m.queue /\ m2m'.out = [m2m.out EXCEPT ![s] = Tail(q)]
      /\ m2m' \in M2mState
  BY <1>1, <1>2, <1>3 DEF M2mState
<1>5. m2m'.out[s] = Tail(q) /\ \A t \in {"a", "b"} : t # s => m2m'.out[t] = m2m.out[t]
  BY <1>1, <1>4 DEF M2mState
<1>6. \A t \in {"a", "b"} : IsInjective(m2m'.in[t]) /\ IsInjective(m2m'.out[t])
  BY <1>3, <1>4, <1>5 DEF M2mSound
<1>7. M2mSound'
  BY <1>4, <1>6 DEF M2mSound, M2mState
<1>8. QED
  BY <1>2, <1>3, <1>4, <1>5, <1>7

LEMMA M2mInputMove ==
    ASSUME M2mSound, NEW s \in {"a", "b"}, m2m.in[s] # <<>>, NEW b, b = Head(m2m.in[s]),
           IF m2m.queue[b] = 1
           THEN m2m' = [m2m EXCEPT !.in[s] = Tail(@), !.queue = Simple!Restrict(@, DOMAIN @ \ {b})]
           ELSE m2m' = [m2m EXCEPT !.in[s] = Tail(@), !.queue[b] = @ - 1]
    PROVE  /\ M2mSound' /\ m2m'.out = m2m.out /\ b \in ToSet(m2m.in["a"]) \cup ToSet(m2m.in["b"]) /\ b \in CaptureBuffers
           /\ ToSet(m2m'.in["a"]) \cup ToSet(m2m'.in["b"]) =
                  (ToSet(m2m.in["a"]) \cup ToSet(m2m.in["b"])) \ (IF m2m.queue[b] = 1 THEN {b} ELSE {})
<1> DEFINE A == ToSet(m2m.in["a"])
           B == ToSet(m2m.in["b"])
<1>1. m2m \in M2mState
  BY DEF M2mSound, M2mState
<1>2. PICK q \in Seq(CaptureBuffers) : q = m2m.in[s] /\ q # <<>> /\ IsInjective(q)
  BY <1>1 DEF M2mState, M2mSound
<1>3. /\ Tail(q) \in Seq(CaptureBuffers) /\ IsInjective(Tail(q)) /\ ToSet(Tail(q)) = ToSet(q) \ {b}
      /\ b \in ToSet(q) /\ b \in CaptureBuffers
  BY <1>2, PoppedQueue
<1>4. b \in DOMAIN m2m.queue /\ b \in A \cup B /\ DOMAIN m2m.queue = A \cup B
  BY <1>2, <1>3 DEF M2mSound
<1>5. \E new \in References :
        /\ DOMAIN new = (A \cup B) \ (IF m2m.queue[b] = 1 THEN {b} ELSE {})
        /\ \A x \in DOMAIN new : x # b => new[x] = m2m.queue[x]
        /\ b \in DOMAIN new => new[b] = 1
        /\ m2m' = [m2m EXCEPT !.in = [m2m.in EXCEPT ![s] = Tail(q)], !.queue = new]
  <2>1. PICK D \in SUBSET CaptureBuffers : m2m.queue \in [D -> {1, 2}] /\ D = A \cup B
    BY <1>1, <1>4 DEF M2mState, References
  <2>2. CASE m2m.queue[b] = 1
    <3> DEFINE new == Simple!Restrict(m2m.queue, DOMAIN m2m.queue \ {b})
    <3>1. new \in [D \ {b} -> {1, 2}] /\ DOMAIN new = D \ {b} /\ \A x \in DOMAIN new : new[x] = m2m.queue[x]
      BY <2>1 DEF Simple!Restrict
    <3>2. new \in References
      BY <2>1, <3>1 DEF References
    <3>3. m2m' = [m2m EXCEPT !.in = [m2m.in EXCEPT ![s] = Tail(q)], !.queue = new]
      BY <1>1, <1>2, <2>2 DEF M2mState
    <3> HIDE DEF new
    <3>4. QED
      BY <2>1, <2>2, <3>1, <3>2, <3>3
  <2>3. CASE m2m.queue[b] # 1
    <3> DEFINE new == [m2m.queue EXCEPT ![b] = 1]
    <3>1. m2m.queue[b] = 2
      BY <1>4, <2>1, <2>3
    <3>2. new \in [D -> {1, 2}] /\ DOMAIN new = D /\ new[b] = 1 /\ \A x \in D : x # b => new[x] = m2m.queue[x]
      BY <1>4, <2>1
    <3>3. new \in References
      BY <2>1, <3>2 DEF References
    <3>4. m2m' = [m2m EXCEPT !.in = [m2m.in EXCEPT ![s] = Tail(q)], !.queue = new]
      BY <1>1, <1>2, <2>3, <3>1 DEF M2mState
    <3> HIDE DEF new
    <3>5. QED
      BY <2>1, <2>3, <3>2, <3>3, <3>4
  <2>4. QED
    BY <2>2, <2>3
<1>a. PICK new \in References :
        /\ DOMAIN new = (A \cup B) \ (IF m2m.queue[b] = 1 THEN {b} ELSE {})
        /\ \A x \in DOMAIN new : x # b => new[x] = m2m.queue[x]
        /\ b \in DOMAIN new => new[b] = 1
        /\ m2m' = [m2m EXCEPT !.in = [m2m.in EXCEPT ![s] = Tail(q)], !.queue = new]
  BY <1>5
<1>6. /\ m2m'.out = m2m.out /\ m2m'.queue = new /\ m2m'.in = [m2m.in EXCEPT ![s] = Tail(q)]
      /\ m2m' \in M2mState
  <2>1. [m2m.in EXCEPT ![s] = Tail(q)] \in [{"a", "b"} -> Seq(CaptureBuffers)]
    BY <1>1, <1>3 DEF M2mState
  <2>2. QED
    BY <1>1, <1>a, <2>1 DEF M2mState
<1>7. m2m'.in[s] = Tail(q) /\ \A t \in {"a", "b"} : t # s => m2m'.in[t] = m2m.in[t]
  BY <1>1, <1>6 DEF M2mState
<1>8. ToSet(m2m'.in["a"]) \cup ToSet(m2m'.in["b"]) = (A \cup B) \ (IF m2m.queue[b] = 1 THEN {b} ELSE {})
  <2>1. m2m.queue[b] = 1 <=> ~(b \in A /\ b \in B)
    BY <1>4 DEF M2mSound
  <2>2. CASE s = "a"
    BY <1>2, <1>3, <1>7, <2>1, <2>2
  <2>3. CASE s = "b"
    BY <1>2, <1>3, <1>7, <2>1, <2>3
  <2>4. QED
    BY <2>2, <2>3
<1>9. M2mSound'
  <2>1. \A t \in {"a", "b"} : IsInjective(m2m'.in[t]) /\ IsInjective(m2m'.out[t])
    BY <1>3, <1>6, <1>7 DEF M2mSound
  <2>2. \A x \in DOMAIN new :
            new[x] = IF x \in ToSet(m2m'.in["a"]) /\ x \in ToSet(m2m'.in["b"]) THEN 2 ELSE 1
    <3>1. \A x \in DOMAIN new : x # b => (x \in ToSet(m2m'.in["a"]) <=> x \in A) /\ (x \in ToSet(m2m'.in["b"]) <=> x \in B)
      BY <1>2, <1>3, <1>7
    <3>2. ~(b \in ToSet(m2m'.in["a"]) /\ b \in ToSet(m2m'.in["b"]))
      BY <1>2, <1>3, <1>7
    <3>3. \A x \in DOMAIN new : x \in DOMAIN m2m.queue
      BY <1>4, <1>a
    <3>4. \A x \in DOMAIN m2m.queue : m2m.queue[x] = IF x \in A /\ x \in B THEN 2 ELSE 1
      BY DEF M2mSound
    <3>5. (\A x \in DOMAIN new : x # b => new[x] = m2m.queue[x]) /\ (b \in DOMAIN new => new[b] = 1)
      BY <1>a
    <3>6. \A x \in DOMAIN new : x # b => new[x] = IF x \in A /\ x \in B THEN 2 ELSE 1
      BY <3>3, <3>4, <3>5
    <3> HIDE DEF A, B
    <3>7. QED
      BY <3>1, <3>2, <3>5, <3>6
  <2>3. QED
    BY <1>a, <1>6, <1>8, <2>1, <2>2 DEF M2mSound, M2mState
<1>10. QED
  BY <1>2, <1>3, <1>4, <1>6, <1>8, <1>9

LEMMA M2mQueueMove ==
    ASSUME M2mSound, NEW b \in CaptureBuffers, NEW r \in Request, m2m' = Simple!m2mQueue(b, r),
           b \notin ToSet(m2m.in["a"]) \cup ToSet(m2m.in["b"]), r \notin ToSet(m2m.out["a"]) \cup ToSet(m2m.out["b"])
    PROVE  /\ M2mSound'
           /\ \A s \in {"a", "b"} : ToSet(m2m'.in[s]) = ToSet(m2m.in[s]) \cup {b} /\ ToSet(m2m'.out[s]) = ToSet(m2m.out[s]) \cup {r}
<1> DEFINE A == ToSet(m2m.in["a"])
           B == ToSet(m2m.in["b"])
           new == [x \in DOMAIN m2m.queue \cup {b} |-> IF x = b THEN 2 ELSE m2m.queue[x]]
<1>1. m2m \in M2mState /\ DOMAIN m2m.queue = A \cup B
  BY DEF M2mSound, M2mState
<1>2. /\ m2m'.in = [s \in {"a", "b"} |-> Append(m2m.in[s], b)] /\ m2m'.out = [s \in {"a", "b"} |-> Append(m2m.out[s], r)]
      /\ m2m'.queue = new /\ m2m' = [in |-> m2m'.in, out |-> m2m'.out, queue |-> m2m'.queue]
  BY DEF Simple!m2mQueue
<1>3. \A s \in {"a", "b"} :
          /\ m2m'.in[s] \in Seq(CaptureBuffers) /\ IsInjective(m2m'.in[s]) /\ ToSet(m2m'.in[s]) = ToSet(m2m.in[s]) \cup {b}
          /\ m2m'.out[s] \in Seq(Request) /\ IsInjective(m2m'.out[s]) /\ ToSet(m2m'.out[s]) = ToSet(m2m.out[s]) \cup {r}
  <2> SUFFICES ASSUME NEW s \in {"a", "b"}
               PROVE  /\ m2m'.in[s] \in Seq(CaptureBuffers) /\ IsInjective(m2m'.in[s])
                      /\ ToSet(m2m'.in[s]) = ToSet(m2m.in[s]) \cup {b}
                      /\ m2m'.out[s] \in Seq(Request) /\ IsInjective(m2m'.out[s])
                      /\ ToSet(m2m'.out[s]) = ToSet(m2m.out[s]) \cup {r}
    OBVIOUS
  <2>1. m2m.in[s] \in Seq(CaptureBuffers) /\ IsInjective(m2m.in[s]) /\ b \notin ToSet(m2m.in[s])
    BY <1>1 DEF M2mState, M2mSound
  <2>2. m2m.out[s] \in Seq(Request) /\ IsInjective(m2m.out[s]) /\ r \notin ToSet(m2m.out[s])
    BY <1>1 DEF M2mState, M2mSound
  <2>3. m2m'.in[s] = Append(m2m.in[s], b) /\ m2m'.out[s] = Append(m2m.out[s], r)
    BY <1>2
  <2>4. /\ Append(m2m.in[s], b) \in Seq(CaptureBuffers) /\ IsInjective(Append(m2m.in[s], b))
        /\ ToSet(Append(m2m.in[s], b)) = ToSet(m2m.in[s]) \cup {b}
    BY <2>1, PushedQueue
  <2>5. /\ Append(m2m.out[s], r) \in Seq(Request) /\ IsInjective(Append(m2m.out[s], r))
        /\ ToSet(Append(m2m.out[s], r)) = ToSet(m2m.out[s]) \cup {r}
    BY <2>2, PushedQueue
  <2>6. QED
    BY <2>3, <2>4, <2>5
<1>4. new \in References
  <2>1. PICK D \in SUBSET CaptureBuffers : m2m.queue \in [D -> {1, 2}]
    BY <1>1 DEF M2mState, References
  <2>2. new \in [D \cup {b} -> {1, 2}] /\ D \cup {b} \in SUBSET CaptureBuffers
    BY <2>1
  <2>3. QED
    BY <2>2 DEF References
<1>5. m2m' \in M2mState
  <2>1. m2m'.in \in [{"a", "b"} -> Seq(CaptureBuffers)]
    BY <1>2, <1>3
  <2>2. m2m'.out \in [{"a", "b"} -> Seq(Request)]
    BY <1>2, <1>3
  <2>3. QED
    BY <1>2, <1>4, <2>1, <2>2 DEF M2mState
<1>6. \A x \in DOMAIN new : new[x] = IF x \in ToSet(m2m'.in["a"]) /\ x \in ToSet(m2m'.in["b"]) THEN 2 ELSE 1
  <2>1. \A x \in DOMAIN new : x # b =>
            new[x] = m2m.queue[x] /\ (x \in ToSet(m2m'.in["a"]) <=> x \in A) /\ (x \in ToSet(m2m'.in["b"]) <=> x \in B)
    BY <1>3
  <2>2. new[b] = 2 /\ b \in ToSet(m2m'.in["a"]) /\ b \in ToSet(m2m'.in["b"])
    BY <1>3
  <2>3. QED
    BY <1>1, <2>1, <2>2 DEF M2mSound
<1>7. DOMAIN new = ToSet(m2m'.in["a"]) \cup ToSet(m2m'.in["b"])
  BY <1>1, <1>3
<1> HIDE DEF new
<1>8. M2mSound'
  BY <1>2, <1>3, <1>5, <1>6, <1>7 DEF M2mSound, M2mState
<1>9. QED
  BY <1>3, <1>8

(***************************************************************************)
(* SoftwareIsp: the debayer thread and its events keep the order of the     *)
(* buffers.                                                                 *)
(***************************************************************************)

\* Leaving out, and moving apart, keeps the order.
LEMMA FollowsEmbedded ==
    ASSUME NEW w, NEW w2, NEW q, NEW h, Follows(w, q),
           \A i \in DOMAIN w2 : w2[i] # <<>> => h[i] \in DOMAIN w /\ w[h[i]] = w2[i],
           \A i, j \in DOMAIN w2 : w2[i] # <<>> /\ w2[j] # <<>> /\ i < j => h[i] < h[j]
    PROVE  Follows(w2, q)
<1>1. \A i \in DOMAIN w2 : w2[i] # <<>> => \E k \in DOMAIN q : w2[i] = <<q[k]>>
  BY DEF Follows
<1>2. ASSUME NEW i \in DOMAIN w2, NEW j \in DOMAIN w2, NEW k \in DOMAIN q, NEW l \in DOMAIN q,
             w2[i] = <<q[k]>>, w2[j] = <<q[l]>>, i < j
      PROVE  k < l
  <2>1. w2[i] # <<>> /\ w2[j] # <<>>
    BY <1>2
  <2>2. /\ h[i] \in DOMAIN w /\ h[j] \in DOMAIN w /\ w[h[i]] = <<q[k]>> /\ w[h[j]] = <<q[l]>>
        /\ h[i] < h[j]
    BY <1>2, <2>1
  <2>3. QED
    BY <2>2 DEF Follows
<1>3. QED
  BY <1>1, <1>2 DEF Follows

LEMMA CoversKept ==
    ASSUME NEW w, NEW w2, NEW q, Covers(w, q),
           \A i \in DOMAIN w : w[i] # <<>> => \E j \in DOMAIN w2 : w2[j] = w[i]
    PROVE  Covers(w2, q)
<1> SUFFICES ASSUME NEW k \in DOMAIN q PROVE \E j \in DOMAIN w2 : w2[j] = <<q[k]>>
  BY DEF Covers
<1>1. PICK i \in DOMAIN w : w[i] = <<q[k]>>
  BY DEF Covers
<1>2. w[i] # <<>>
  BY <1>1
<1>3. QED
  BY <1>1, <1>2

\* The first item of work is taken away.
Shifted(w, w2) ==
    \E n \in Nat \ {0} : DOMAIN w = 1 .. n /\ DOMAIN w2 = 1 .. n - 1 /\ \A i \in 1 .. n - 1 : w2[i] = w[i + 1]

LEMMA FollowsShifted ==
    ASSUME NEW w, NEW w2, NEW q, Shifted(w, w2), w[1] = <<>>
    PROVE  (Follows(w, q) => Follows(w2, q)) /\ (Covers(w, q) => Covers(w2, q))
<1>1. PICK n \in Nat \ {0} : DOMAIN w = 1 .. n /\ DOMAIN w2 = 1 .. n - 1 /\ \A i \in 1 .. n - 1 : w2[i] = w[i + 1]
  BY DEF Shifted
<1> DEFINE h == [i \in 1 .. n - 1 |-> i + 1]
<1>2. \A i \in DOMAIN w2 : h[i] \in DOMAIN w /\ w[h[i]] = w2[i]
  BY <1>1
<1>3. \A i, j \in DOMAIN w2 : i < j => h[i] < h[j]
  BY <1>1
<1>4. ASSUME NEW i \in DOMAIN w, w[i] # <<>> PROVE \E j \in DOMAIN w2 : w2[j] = w[i]
  <2>1. i \in 1 .. n /\ i # 1
    BY <1>1, <1>4
  <2>2. i - 1 \in 1 .. n - 1 /\ (i - 1) + 1 = i
    BY <1>1, <2>1
  <2>3. w2[i - 1] = w[i]
    BY <1>1, <2>2
  <2>4. QED
    BY <1>1, <2>2, <2>3
<1> HIDE DEF h
<1>5. Follows(w, q) => Follows(w2, q)
  BY <1>2, <1>3, FollowsEmbedded
<1>6. Covers(w, q) => Covers(w2, q)
  BY <1>4, CoversKept
<1>7. QED
  BY <1>5, <1>6

\* ... together with the first buffer.
LEMMA FollowsPopped ==
    ASSUME NEW S, NEW w, NEW w2, NEW q \in Seq(S), q # <<>>, Shifted(w, w2), w[1] = <<Head(q)>>, Follows(w, q)
    PROVE  Follows(w2, Tail(q)) /\ (Covers(w, q) /\ IsInjective(q) => Covers(w2, Tail(q)))
<1>1. PICK n \in Nat \ {0} : DOMAIN w = 1 .. n /\ DOMAIN w2 = 1 .. n - 1 /\ \A i \in 1 .. n - 1 : w2[i] = w[i + 1]
  BY DEF Shifted
<1>a. /\ Len(q) \in Nat \ {0} /\ DOMAIN q = 1 .. Len(q) /\ Head(q) = q[1]
      /\ Len(Tail(q)) = Len(q) - 1 /\ DOMAIN Tail(q) = 1 .. Len(Tail(q))
      /\ \A k \in 1 .. Len(q) - 1 : Tail(q)[k] = q[k + 1]
  OBVIOUS
<1>2. PICK m \in Nat \ {0} : /\ m = Len(q) /\ DOMAIN q = 1 .. m /\ Head(q) = q[1]
                            /\ DOMAIN Tail(q) = 1 .. m - 1 /\ \A k \in 1 .. m - 1 : Tail(q)[k] = q[k + 1]
  BY <1>a
<1> DEFINE t == Tail(q)
<1> HIDE DEF t
<1>3. DOMAIN t = 1 .. m - 1 /\ \A k \in 1 .. m - 1 : t[k] = q[k + 1]
  BY <1>2 DEF t
<1>4. 1 \in DOMAIN w /\ 1 \in DOMAIN q /\ w[1] = <<q[1]>>
  BY <1>1, <1>2
<1>5. ASSUME NEW i \in 1 .. n - 1, NEW k \in 1 .. m, w[i + 1] = <<q[k]>>
      PROVE  k - 1 \in 1 .. m - 1 /\ q[k] = t[k - 1]
  <2>1. i + 1 \in DOMAIN w /\ 1 < i + 1 /\ k \in DOMAIN q
    BY <1>1, <1>2
  <2>2. 1 < k
    BY <1>4, <1>5, <2>1 DEF Follows
  <2>3. k - 1 \in 1 .. m - 1 /\ (k - 1) + 1 = k
    BY <1>2, <2>2
  <2>4. QED
    BY <1>3, <2>3
<1>6. \A i \in DOMAIN w2 : w2[i] # <<>> => \E k \in DOMAIN t : w2[i] = <<t[k]>>
  <2> SUFFICES ASSUME NEW i \in 1 .. n - 1, w2[i] # <<>> PROVE \E k \in DOMAIN t : w2[i] = <<t[k]>>
    BY <1>1
  <2>1. i + 1 \in DOMAIN w /\ w2[i] = w[i + 1]
    BY <1>1
  <2>2. PICK k \in DOMAIN q : w[i + 1] = <<q[k]>>
    BY <2>1 DEF Follows
  <2>3. k - 1 \in 1 .. m - 1 /\ q[k] = t[k - 1]
    BY <1>2, <1>5, <2>2
  <2>4. QED
    BY <1>3, <2>1, <2>2, <2>3
<1>7. ASSUME NEW i \in DOMAIN w2, NEW j \in DOMAIN w2, NEW k \in DOMAIN t, NEW l \in DOMAIN t,
             w2[i] = <<t[k]>>, w2[j] = <<t[l]>>, i < j
      PROVE  k < l
  <2>1. /\ i + 1 \in DOMAIN w /\ j + 1 \in DOMAIN w /\ i + 1 < j + 1 /\ w[i + 1] = w2[i] /\ w[j + 1] = w2[j]
    BY <1>1, <1>7
  <2>2. k \in 1 .. m - 1 /\ l \in 1 .. m - 1
    BY <1>3
  <2>3. k + 1 \in DOMAIN q /\ l + 1 \in DOMAIN q /\ t[k] = q[k + 1] /\ t[l] = q[l + 1]
    BY <1>2, <1>3, <2>2
  <2>4. w[i + 1] = <<q[k + 1]>> /\ w[j + 1] = <<q[l + 1]>>
    BY <1>7, <2>1, <2>3
  <2>5. k + 1 < l + 1
    BY <2>1, <2>3, <2>4 DEF Follows
  <2>6. QED
    BY <2>2, <2>5
<1>8. ASSUME Covers(w, q), IsInjective(q), NEW k \in DOMAIN t PROVE \E i \in DOMAIN w2 : w2[i] = <<t[k]>>
  <2>1. k \in 1 .. m - 1 /\ k + 1 \in DOMAIN q /\ k + 1 # 1 /\ t[k] = q[k + 1]
    BY <1>2, <1>3
  <2>2. PICK i \in DOMAIN w : w[i] = <<q[k + 1]>>
    BY <1>8, <2>1 DEF Covers
  <2>3. q[k + 1] # q[1]
    BY <1>4, <1>8, <2>1 DEF IsInjective
  <2>4. i # 1
    BY <1>4, <2>2, <2>3
  <2>5. i - 1 \in 1 .. n - 1 /\ (i - 1) + 1 = i
    BY <1>1, <2>4
  <2>6. w2[i - 1] = w[i]
    BY <1>1, <2>5
  <2>7. QED
    BY <1>1, <2>1, <2>2, <2>5, <2>6
<1>9. Follows(w2, t) /\ (Covers(w, q) /\ IsInjective(q) => Covers(w2, t))
  BY <1>6, <1>7, <1>8 DEF Follows, Covers
<1>10. QED
  BY <1>9 DEF t

\* New work at the end.
LEMMA FollowsPushed ==
    ASSUME NEW S, NEW w, NEW w2, NEW q \in Seq(S), NEW x \in S, x \notin ToSet(q), NEW n \in Nat,
           DOMAIN w = 1 .. n, DOMAIN w2 = 1 .. n + 1, \A i \in 1 .. n : w2[i] = w[i], w2[n + 1] = <<x>>, Follows(w, q)
    PROVE  Follows(w2, Append(q, x)) /\ (Covers(w, q) => Covers(w2, Append(q, x)))
<1> DEFINE t == Append(q, x)
<1>1. PICK m \in Nat : m = Len(q) /\ DOMAIN q = 1 .. m /\ DOMAIN t = 1 .. m + 1 /\ t[m + 1] = x /\ \A k \in 1 .. m : t[k] = q[k]
  OBVIOUS
<1> HIDE DEF t
<1>2. \A k \in 1 .. m : q[k] # x
  BY <1>1 DEF ToSet
<1>3. \A i \in 1 .. n : w[i] # <<x>>
  <2> SUFFICES ASSUME NEW i \in 1 .. n, w[i] = <<x>> PROVE FALSE
    OBVIOUS
  <2>1. i \in DOMAIN w /\ w[i] # <<>>
    OBVIOUS
  <2>2. PICK k \in DOMAIN q : w[i] = <<q[k]>>
    BY <2>1 DEF Follows
  <2>3. QED
    BY <1>1, <1>2, <2>2
<1>4. \A i \in DOMAIN w2 : w2[i] # <<>> => \E k \in DOMAIN t : w2[i] = <<t[k]>>
  <2> SUFFICES ASSUME NEW i \in 1 .. n + 1, w2[i] # <<>> PROVE \E k \in DOMAIN t : w2[i] = <<t[k]>>
    OBVIOUS
  <2>1. CASE i = n + 1
    BY <1>1, <2>1
  <2>2. CASE i # n + 1
    <3>1. i \in DOMAIN w /\ w2[i] = w[i]
      BY <2>2
    <3>2. PICK k \in DOMAIN q : w[i] = <<q[k]>>
      BY <3>1 DEF Follows
    <3>3. k \in DOMAIN t /\ t[k] = q[k]
      BY <1>1, <3>2
    <3>4. QED
      BY <3>1, <3>2, <3>3
  <2>3. QED
    BY <2>1, <2>2
<1>5. ASSUME NEW i \in 1 .. n + 1, NEW j \in 1 .. n + 1, NEW k \in 1 .. m + 1, NEW l \in 1 .. m + 1,
             w2[i] = <<t[k]>>, w2[j] = <<t[l]>>, i < j
      PROVE  k < l
  <2>1. i \in 1 .. n /\ w[i] = <<t[k]>>
    BY <1>5
  <2>2. k \in 1 .. m /\ w[i] = <<q[k]>>
    <3>1. t[k] # x
      BY <1>3, <2>1
    <3>2. k # m + 1
      BY <1>1, <3>1
    <3>3. k \in 1 .. m
      BY <1>1, <3>2
    <3>4. QED
      BY <1>1, <2>1, <3>3
  <2>3. CASE j = n + 1
    <3>1. t[l] = x
      BY <1>5, <2>3
    <3>2. l \notin 1 .. m
      BY <1>1, <1>2, <3>1
    <3>3. QED
      BY <1>1, <2>2, <3>2
  <2>4. CASE j # n + 1
    <3>1. j \in 1 .. n /\ w[j] = <<t[l]>>
      BY <1>5, <2>4
    <3>2. t[l] # x
      BY <1>3, <3>1
    <3>3. l # m + 1
      BY <1>1, <3>2
    <3>4. l \in 1 .. m
      BY <1>1, <3>3
    <3>5. w[j] = <<q[l]>>
      BY <1>1, <3>1, <3>4
    <3>6. QED
      BY <1>1, <1>5, <2>1, <2>2, <3>1, <3>4, <3>5 DEF Follows
  <2>5. QED
    BY <2>3, <2>4
<1>6. ASSUME Covers(w, q), NEW k \in 1 .. m + 1 PROVE \E i \in DOMAIN w2 : w2[i] = <<t[k]>>
  <2>1. CASE k = m + 1
    BY <1>1, <2>1
  <2>2. CASE k # m + 1
    <3>1. k \in DOMAIN q /\ t[k] = q[k]
      BY <1>1, <2>2
    <3>2. PICK i \in DOMAIN w : w[i] = <<q[k]>>
      BY <1>6, <3>1 DEF Covers
    <3>3. QED
      BY <3>1, <3>2
  <2>3. QED
    BY <2>1, <2>2
<1>7. Follows(w2, t) /\ (Covers(w, q) => Covers(w2, t))
  BY <1>1, <1>4, <1>5, <1>6 DEF Follows, Covers
<1>8. QED
  BY <1>7 DEF t

LEMMA WorkPopped ==
    ASSUME NEW ev \in Seq(DebayerEvent), ev # <<>>, NEW db \in Seq(DebayerWork)
    PROVE  /\ Shifted(InWork(ev, db), InWork(Tail(ev), db)) /\ Shifted(OutWork(ev, db), OutWork(Tail(ev), db))
           /\ InWork(ev, db)[1] = IF Head(ev).name = "input" THEN <<Head(ev).in>> ELSE <<>>
           /\ OutWork(ev, db)[1] = IF Head(ev).name = "output" THEN <<Head(ev).out>> ELSE <<>>
<1>1. /\ Len(ev) \in Nat \ {0} /\ Len(db) \in Nat /\ Len(Tail(ev)) = Len(ev) - 1 /\ Head(ev) = ev[1]
      /\ \A i \in 1 .. Len(ev) - 1 : Tail(ev)[i] = ev[i + 1]
  OBVIOUS
<1>2. PICK t, m, n : t = Tail(ev) /\ m = Len(ev) /\ n = Len(db)
  OBVIOUS
<1>3. /\ m \in Nat \ {0} /\ n \in Nat /\ Len(t) = m - 1 /\ m + n \in Nat \ {0} /\ (m - 1) + n = (m + n) - 1
      /\ \A i \in 1 .. m - 1 : t[i] = ev[i + 1]
  BY <1>1, <1>2
<1>4. \A i \in 1 .. (m + n) - 1 :
          /\ i <= m - 1 => i + 1 <= m /\ t[i] = ev[i + 1]
          /\ ~(i <= m - 1) => ~(i + 1 <= m) /\ i - (m - 1) = (i + 1) - m
          /\ i + 1 \in 1 .. m + n
  BY <1>3
<1>5. Shifted(InWork(ev, db), InWork(t, db))
  <2>1. DOMAIN InWork(ev, db) = 1 .. m + n /\ DOMAIN InWork(t, db) = 1 .. (m + n) - 1
    BY <1>2, <1>3 DEF InWork
  <2>2. ASSUME NEW i \in 1 .. (m + n) - 1 PROVE InWork(t, db)[i] = InWork(ev, db)[i + 1]
    <3>1. InWork(t, db)[i] = IF i <= m - 1 THEN (IF t[i].name = "input" THEN <<t[i].in>> ELSE <<>>)
                                           ELSE <<db[i - (m - 1)].in>>
      BY <1>2, <1>3 DEF InWork
    <3>2. InWork(ev, db)[i + 1] = IF i + 1 <= m THEN (IF ev[i + 1].name = "input" THEN <<ev[i + 1].in>> ELSE <<>>)
                                               ELSE <<db[(i + 1) - m].in>>
      BY <1>2, <1>3, <1>4 DEF InWork
    <3>3. QED
      BY <1>4, <3>1, <3>2
  <2>3. QED
    BY <1>3, <2>1, <2>2 DEF Shifted
<1>6. Shifted(OutWork(ev, db), OutWork(t, db))
  <2>1. DOMAIN OutWork(ev, db) = 1 .. m + n /\ DOMAIN OutWork(t, db) = 1 .. (m + n) - 1
    BY <1>2, <1>3 DEF OutWork
  <2>2. ASSUME NEW i \in 1 .. (m + n) - 1 PROVE OutWork(t, db)[i] = OutWork(ev, db)[i + 1]
    <3>1. OutWork(t, db)[i] = IF i <= m - 1 THEN (IF t[i].name = "output" THEN <<t[i].out>> ELSE <<>>)
                                           ELSE <<db[i - (m - 1)].out>>
      BY <1>2, <1>3 DEF OutWork
    <3>2. OutWork(ev, db)[i + 1] = IF i + 1 <= m THEN (IF ev[i + 1].name = "output" THEN <<ev[i + 1].out>> ELSE <<>>)
                                               ELSE <<db[(i + 1) - m].out>>
      BY <1>2, <1>3, <1>4 DEF OutWork
    <3>3. QED
      BY <1>4, <3>1, <3>2
  <2>3. QED
    BY <1>3, <2>1, <2>2 DEF Shifted
<1>7. /\ InWork(ev, db)[1] = IF ev[1].name = "input" THEN <<ev[1].in>> ELSE <<>>
      /\ OutWork(ev, db)[1] = IF ev[1].name = "output" THEN <<ev[1].out>> ELSE <<>>
  BY <1>2, <1>3 DEF InWork, OutWork
<1>8. QED
  BY <1>1, <1>2, <1>5, <1>6, <1>7

Grown(ev, db, d, n) ==
    /\ DOMAIN InWork(ev, db) = 1 .. n /\ DOMAIN InWork(ev, Append(db, d)) = 1 .. n + 1
    /\ \A i \in 1 .. n : InWork(ev, Append(db, d))[i] = InWork(ev, db)[i]
    /\ InWork(ev, Append(db, d))[n + 1] = <<d.in>>
    /\ DOMAIN OutWork(ev, db) = 1 .. n /\ DOMAIN OutWork(ev, Append(db, d)) = 1 .. n + 1
    /\ \A i \in 1 .. n : OutWork(ev, Append(db, d))[i] = OutWork(ev, db)[i]
    /\ OutWork(ev, Append(db, d))[n + 1] = <<d.out>>

LEMMA WorkPushed ==
    ASSUME NEW ev \in Seq(DebayerEvent), NEW db \in Seq(DebayerWork), NEW d \in DebayerWork
    PROVE  \E n \in Nat : Grown(ev, db, d, n)
<1> DEFINE n == Len(ev) + Len(db)
<1>1. PICK t, m, k : t = Append(db, d) /\ m = Len(ev) /\ k = Len(db)
  OBVIOUS
<1>2. /\ m \in Nat /\ k \in Nat /\ n = m + k /\ Len(t) = k + 1 /\ m + (k + 1) = n + 1
      /\ t[k + 1] = d /\ \A i \in 1 .. k : t[i] = db[i]
  BY <1>1
<1>3. /\ \A i \in 1 .. n : i \in 1 .. n + 1 /\ (~(i <= m) => i - m \in 1 .. k)
      /\ n + 1 \in 1 .. n + 1 /\ ~(n + 1 <= m) /\ (n + 1) - m = k + 1
  BY <1>2
<1>4. DOMAIN InWork(ev, db) = 1 .. n /\ DOMAIN InWork(ev, t) = 1 .. n + 1
  BY <1>1, <1>2 DEF InWork
<1>5. DOMAIN OutWork(ev, db) = 1 .. n /\ DOMAIN OutWork(ev, t) = 1 .. n + 1
  BY <1>1, <1>2 DEF OutWork
<1>6. ASSUME NEW i \in 1 .. n
      PROVE  InWork(ev, t)[i] = InWork(ev, db)[i] /\ OutWork(ev, t)[i] = OutWork(ev, db)[i]
  <2>1. ~(i <= m) => t[i - m] = db[i - m]
    BY <1>2, <1>3
  <2>2. /\ InWork(ev, t)[i] = IF i <= m THEN (IF ev[i].name = "input" THEN <<ev[i].in>> ELSE <<>>) ELSE <<t[i - m].in>>
        /\ InWork(ev, db)[i] = IF i <= m THEN (IF ev[i].name = "input" THEN <<ev[i].in>> ELSE <<>>) ELSE <<db[i - m].in>>
    BY <1>1, <1>2, <1>3 DEF InWork
  <2>3. /\ OutWork(ev, t)[i] = IF i <= m THEN (IF ev[i].name = "output" THEN <<ev[i].out>> ELSE <<>>) ELSE <<t[i - m].out>>
        /\ OutWork(ev, db)[i] = IF i <= m THEN (IF ev[i].name = "output" THEN <<ev[i].out>> ELSE <<>>) ELSE <<db[i - m].out>>
    BY <1>1, <1>2, <1>3 DEF OutWork
  <2>4. QED
    BY <2>1, <2>2, <2>3
<1>7. InWork(ev, t)[n + 1] = <<t[(n + 1) - m].in>> /\ OutWork(ev, t)[n + 1] = <<t[(n + 1) - m].out>>
  BY <1>1, <1>2, <1>3 DEF InWork, OutWork
<1>8. n \in Nat
  BY <1>2
<1> HIDE DEF n
<1>9. Grown(ev, db, d, n)
  BY <1>1, <1>2, <1>3, <1>4, <1>5, <1>6, <1>7 DEF Grown
<1>10. QED
  BY <1>8, <1>9

\* What Debayer::process() reports.
Reports(d) == <<[name |-> "stats", frame |-> d.frame], [name |-> "output", out |-> d.out], [name |-> "input", in |-> d.in]>>

Extended(e, ev, d, n) ==
    /\ e \in Seq(DebayerEvent) /\ Len(e) = n + 3 /\ \A i \in 1 .. n : e[i] = ev[i]
    /\ e[n + 1] = [name |-> "stats", frame |-> d.frame] /\ e[n + 2] = [name |-> "output", out |-> d.out]
    /\ e[n + 3] = [name |-> "input", in |-> d.in]

LEMMA ReportsAppended ==
    ASSUME NEW ev \in Seq(DebayerEvent), NEW d \in DebayerWork
    PROVE  Extended(ev \o Reports(d), ev, d, Len(ev))
<1> DEFINE n == Len(ev)
<1>1. d.frame \in Nat /\ d.out \in Request /\ d.in \in CaptureBuffers
  BY DEF DebayerWork
<1>2. /\ [name |-> "stats", frame |-> d.frame] \in DebayerEvent /\ [name |-> "output", out |-> d.out] \in DebayerEvent
      /\ [name |-> "input", in |-> d.in] \in DebayerEvent
  BY <1>1 DEF DebayerEvent
<1>3. PICK x \in DebayerEvent, y \in DebayerEvent, z \in DebayerEvent :
         /\ x = [name |-> "stats", frame |-> d.frame] /\ y = [name |-> "output", out |-> d.out]
         /\ z = [name |-> "input", in |-> d.in]
  BY <1>2
<1>4. PICK R \in Seq(DebayerEvent) : R = Reports(d) /\ Len(R) = 3 /\ R[1] = x /\ R[2] = y /\ R[3] = z
  <2>1. <<x, y, z>> \in Seq(DebayerEvent) /\ Len(<<x, y, z>>) = 3
    OBVIOUS
  <2>2. Reports(d) = <<x, y, z>>
    BY <1>3 DEF Reports
  <2>3. QED
    BY <2>1, <2>2
<1>5. /\ ev \o R \in Seq(DebayerEvent) /\ Len(ev \o R) = n + 3 /\ n \in Nat
      /\ \A i \in 1 .. n + 3 : (ev \o R)[i] = IF i <= n THEN ev[i] ELSE R[i - n]
  <2>1. /\ ev \o R \in Seq(DebayerEvent) /\ Len(ev \o R) = Len(ev) + Len(R)
        /\ \A i \in 1 .. Len(ev) + Len(R) : (ev \o R)[i] = IF i <= Len(ev) THEN ev[i] ELSE R[i - Len(ev)]
    BY ConcatProperties
  <2>2. n \in Nat
    OBVIOUS
  <2>3. QED
    BY <1>4, <2>1, <2>2
<1>6. /\ \A i \in 1 .. n : i \in 1 .. n + 3 /\ i <= n
      /\ \A i \in {1, 2, 3} : n + i \in 1 .. n + 3 /\ ~(n + i <= n) /\ (n + i) - n = i
  BY <1>5
<1>7. (ev \o R)[n + 1] = x /\ (ev \o R)[n + 2] = y /\ (ev \o R)[n + 3] = z
  BY <1>4, <1>5, <1>6
<1>8. QED
  BY <1>3, <1>4, <1>5, <1>6, <1>7 DEF Extended

LEMMA WorkProcessed ==
    ASSUME NEW ev \in Seq(DebayerEvent), NEW db \in Seq(DebayerWork), db # <<>>, NEW q, NEW p
    PROVE  LET ev2 == ev \o Reports(Head(db))
           IN  /\ Follows(InWork(ev, db), q) => Follows(InWork(ev2, Tail(db)), q)
               /\ Covers(InWork(ev, db), q) => Covers(InWork(ev2, Tail(db)), q)
               /\ Follows(OutWork(ev, db), p) => Follows(OutWork(ev2, Tail(db)), p)
               /\ Covers(OutWork(ev, db), p) => Covers(OutWork(ev2, Tail(db)), p)
<1>1. PICK d \in DebayerWork, t \in Seq(DebayerWork), m \in Nat, n \in Nat \ {0} :
        /\ d = Head(db) /\ t = Tail(db) /\ m = Len(ev) /\ n = Len(db)
  <2>1. Head(db) \in DebayerWork /\ Tail(db) \in Seq(DebayerWork) /\ Len(ev) \in Nat /\ Len(db) \in Nat \ {0}
    OBVIOUS
  <2>2. QED
    BY <2>1
<1>2. d = db[1] /\ Len(t) = n - 1 /\ \A i \in 1 .. n - 1 : t[i] = db[i + 1]
  BY <1>1
<1>3. PICK e : e = ev \o Reports(d) /\ Extended(e, ev, d, m)
  BY <1>1, ReportsAppended
<1>4. /\ Len(e) = m + 3 /\ \A i \in 1 .. m : e[i] = ev[i]
      /\ e[m + 1] = [name |-> "stats", frame |-> d.frame] /\ e[m + 2] = [name |-> "output", out |-> d.out]
      /\ e[m + 3] = [name |-> "input", in |-> d.in]
  BY <1>3 DEF Extended
<1> DEFINE h == [i \in 1 .. m + n + 2 |-> IF i <= m THEN i ELSE IF i <= m + 3 THEN m + 1 ELSE i - 2]
           w == InWork(ev, db)
           w2 == InWork(e, t)
           v == OutWork(ev, db)
           v2 == OutWork(e, t)
<1>5. /\ DOMAIN w = 1 .. m + n /\ DOMAIN v = 1 .. m + n
      /\ DOMAIN w2 = 1 .. m + n + 2 /\ DOMAIN v2 = 1 .. m + n + 2
  <2>1. (m + 3) + (n - 1) = m + n + 2
    BY <1>1
  <2>2. QED
    BY <1>1, <1>2, <1>4, <2>1 DEF InWork, OutWork
<1>6. /\ \A i \in 1 .. m : w2[i] = w[i] /\ v2[i] = v[i]
      /\ w2[m + 1] = <<>> /\ w2[m + 2] = <<>> /\ w2[m + 3] = w[m + 1]
      /\ v2[m + 1] = <<>> /\ v2[m + 2] = v[m + 1] /\ v2[m + 3] = <<>>
  <2>1. /\ \A i \in 1 .. m : i <= m /\ i <= m + 3 /\ i \in 1 .. m + n /\ i \in 1 .. m + n + 2
        /\ m + 1 \in 1 .. m + n /\ ~(m + 1 <= m) /\ (m + 1) - m = 1
        /\ \A i \in {1, 2, 3} : m + i \in 1 .. m + n + 2 /\ m + i <= m + 3
    BY <1>1
  <2>2. ASSUME NEW i \in 1 .. m
        PROVE  w2[i] = w[i] /\ v2[i] = v[i]
    <3>1. /\ w2[i] = IF e[i].name = "input" THEN <<e[i].in>> ELSE <<>>
          /\ v2[i] = IF e[i].name = "output" THEN <<e[i].out>> ELSE <<>>
      BY <1>4, <1>5, <2>1 DEF InWork, OutWork
    <3>2. /\ w[i] = IF ev[i].name = "input" THEN <<ev[i].in>> ELSE <<>>
          /\ v[i] = IF ev[i].name = "output" THEN <<ev[i].out>> ELSE <<>>
      BY <1>1, <1>5, <2>1 DEF InWork, OutWork
    <3>3. QED
      BY <1>4, <3>1, <3>2
  <2>3. w[m + 1] = <<d.in>> /\ v[m + 1] = <<d.out>>
    BY <1>1, <1>2, <1>5, <2>1 DEF InWork, OutWork
  <2>4. \A i \in {m + 1, m + 2, m + 3} :
            /\ w2[i] = IF e[i].name = "input" THEN <<e[i].in>> ELSE <<>>
            /\ v2[i] = IF e[i].name = "output" THEN <<e[i].out>> ELSE <<>>
    BY <1>4, <1>5, <2>1 DEF InWork, OutWork
  <2> HIDE DEF w, w2, v, v2
  <2>5. /\ e[m + 1].name = "stats" /\ e[m + 2].name = "output" /\ e[m + 2].out = d.out
        /\ e[m + 3].name = "input" /\ e[m + 3].in = d.in
    BY <1>4
  <2>6. QED
    BY <2>2, <2>3, <2>4, <2>5
<1>7. ASSUME NEW i \in 1 .. m + n + 2, i > m + 3
      PROVE  w2[i] = w[i - 2] /\ v2[i] = v[i - 2] /\ i - 2 \in 1 .. m + n
  <2>1. ~(i <= m + 3) /\ ~(i - 2 <= m) /\ i - (m + 3) \in 1 .. n - 1 /\ (i - (m + 3)) + 1 = (i - 2) - m /\ i - 2 \in 1 .. m + n
    BY <1>1, <1>7
  <2>2. w2[i] = <<t[i - (m + 3)].in>> /\ v2[i] = <<t[i - (m + 3)].out>>
    BY <1>4, <1>5, <2>1 DEF InWork, OutWork
  <2>3. w[i - 2] = <<db[(i - 2) - m].in>> /\ v[i - 2] = <<db[(i - 2) - m].out>>
    BY <1>1, <1>5, <2>1 DEF InWork, OutWork
  <2>4. QED
    BY <1>2, <2>1, <2>2, <2>3
<1> HIDE DEF w, w2, v, v2
<1>8. \A i \in 1 .. m + n + 2 : i \in 1 .. m \/ i = m + 1 \/ i = m + 2 \/ i = m + 3 \/ i > m + 3
  BY <1>1
<1>9. \A i \in 1 .. m + n + 2 : h[i] = IF i <= m THEN i ELSE IF i <= m + 3 THEN m + 1 ELSE i - 2
  OBVIOUS
<1> HIDE DEF h
<1>10. /\ \A i \in 1 .. m + n + 2 : h[i] \in 1 .. m + n
       /\ h[m + 2] = m + 1 /\ h[m + 3] = m + 1 /\ \A i \in 1 .. m : h[i] = i
       /\ \A i \in 1 .. m + n + 2 : i > m + 3 => h[i] = i - 2
  <2>1. /\ \A i \in 1 .. m : i \in 1 .. m + n + 2 /\ i <= m
        /\ \A i \in {m + 2, m + 3} : i \in 1 .. m + n + 2 /\ ~(i <= m) /\ i <= m + 3
        /\ \A i \in 1 .. m + n + 2 : i > m + 3 => ~(i <= m) /\ ~(i <= m + 3) /\ i - 2 \in 1 .. m + n
        /\ m + 1 \in 1 .. m + n
        /\ \A i \in 1 .. m + n + 2 : i <= m => i \in 1 .. m + n
    BY <1>1
  <2>2. QED
    BY <1>9, <2>1
<1>11. \A i, j \in 1 .. m + n + 2 : i < j => h[i] < h[j] \/ (i \in m + 1 .. m + 3 /\ j \in m + 1 .. m + 3)
  BY <1>1, <1>9
<1>12. /\ \A i \in DOMAIN w2 : w2[i] # <<>> => h[i] \in DOMAIN w /\ w[h[i]] = w2[i]
       /\ \A i \in DOMAIN v2 : v2[i] # <<>> => h[i] \in DOMAIN v /\ v[h[i]] = v2[i]
  <2>1. ASSUME NEW i \in 1 .. m + n + 2
        PROVE  /\ w2[i] # <<>> => w[h[i]] = w2[i]
               /\ v2[i] # <<>> => v[h[i]] = v2[i]
    <3>1. CASE i \in 1 .. m
      BY <1>6, <1>10, <3>1
    <3>2. CASE i = m + 1 \/ i = m + 2 \/ i = m + 3
      BY <1>6, <1>10, <3>2
    <3>3. CASE i > m + 3
      BY <1>7, <1>10, <3>3
    <3>4. QED
      BY <1>8, <3>1, <3>2, <3>3
  <2>2. QED
    BY <1>5, <1>10, <2>1
<1>13. /\ \A i, j \in DOMAIN w2 : w2[i] # <<>> /\ w2[j] # <<>> /\ i < j => h[i] < h[j]
       /\ \A i, j \in DOMAIN v2 : v2[i] # <<>> /\ v2[j] # <<>> /\ i < j => h[i] < h[j]
  <2>1. \A i \in m + 1 .. m + 3 : i = m + 1 \/ i = m + 2 \/ i = m + 3
    <3>1. m \in Nat
      BY <1>1
    <3>2. QED
      BY <3>1
  <2>2. \A i \in m + 1 .. m + 3 : (w2[i] # <<>> => i = m + 3) /\ (v2[i] # <<>> => i = m + 2)
    BY <1>6, <2>1
  <2>3. \A i, j \in m + 1 .. m + 3 : i < j => i # j
    BY <1>1
  <2>4. \A i, j \in 1 .. m + n + 2 : w2[i] # <<>> /\ w2[j] # <<>> /\ i < j => h[i] < h[j]
    BY <1>11, <2>2, <2>3
  <2>5. \A i, j \in 1 .. m + n + 2 : v2[i] # <<>> /\ v2[j] # <<>> /\ i < j => h[i] < h[j]
    BY <1>11, <2>2, <2>3
  <2>6. QED
    BY <1>5, <2>4, <2>5
<1>14. /\ \A i \in DOMAIN w : w[i] # <<>> => \E j \in DOMAIN w2 : w2[j] = w[i]
       /\ \A i \in DOMAIN v : v[i] # <<>> => \E j \in DOMAIN v2 : v2[j] = v[i]
  <2> SUFFICES ASSUME NEW i \in 1 .. m + n
               PROVE  (\E j \in 1 .. m + n + 2 : w2[j] = w[i]) /\ (\E j \in 1 .. m + n + 2 : v2[j] = v[i])
    BY <1>5
  <2>1. CASE i <= m
    <3>1. i \in 1 .. m /\ i \in 1 .. m + n + 2
      BY <1>1, <2>1
    <3>2. QED
      BY <1>6, <3>1
  <2>2. CASE i = m + 1
    <3>1. m + 2 \in 1 .. m + n + 2 /\ m + 3 \in 1 .. m + n + 2
      BY <1>1
    <3>2. QED
      BY <1>6, <2>2, <3>1
  <2>3. CASE i > m + 1
    <3>1. i + 2 \in 1 .. m + n + 2 /\ i + 2 > m + 3 /\ (i + 2) - 2 = i
      BY <1>1, <2>3
    <3>2. w2[i + 2] = w[i] /\ v2[i + 2] = v[i]
      BY <1>7, <3>1
    <3>3. QED
      BY <3>1, <3>2
  <2>4. QED
    BY <1>1, <2>1, <2>2, <2>3
<1>15. (Follows(w, q) => Follows(w2, q)) /\ (Follows(v, p) => Follows(v2, p))
  BY <1>12, <1>13, FollowsEmbedded
<1>16. (Covers(w, q) => Covers(w2, q)) /\ (Covers(v, p) => Covers(v2, p))
  BY <1>14, CoversKept
<1>17. QED
  BY <1>1, <1>3, <1>15, <1>16 DEF w, w2, v, v2

LEMMA WorkDropped ==
    ASSUME NEW ev \in Seq(DebayerEvent), NEW db \in Seq(DebayerWork), db # <<>>, NEW q, NEW p
    PROVE  /\ Follows(InWork(ev, db), q) => Follows(InWork(ev, Tail(db)), q)
           /\ Follows(OutWork(ev, db), p) => Follows(OutWork(ev, Tail(db)), p)
<1>1. PICK t \in Seq(DebayerWork), m \in Nat, n \in Nat \ {0} : t = Tail(db) /\ m = Len(ev) /\ n = Len(db)
  <2>1. Tail(db) \in Seq(DebayerWork) /\ Len(ev) \in Nat /\ Len(db) \in Nat \ {0}
    OBVIOUS
  <2>2. QED
    BY <2>1
<1>2. Len(t) = n - 1 /\ \A i \in 1 .. n - 1 : t[i] = db[i + 1]
  BY <1>1
<1> DEFINE h == [i \in 1 .. m + (n - 1) |-> IF i <= m THEN i ELSE i + 1]
           w == InWork(ev, db)
           w2 == InWork(ev, t)
           v == OutWork(ev, db)
           v2 == OutWork(ev, t)
<1>3. /\ DOMAIN w = 1 .. m + n /\ DOMAIN v = 1 .. m + n
      /\ DOMAIN w2 = 1 .. m + (n - 1) /\ DOMAIN v2 = 1 .. m + (n - 1)
  BY <1>1, <1>2 DEF InWork, OutWork
<1>4. ASSUME NEW i \in 1 .. m + (n - 1) PROVE h[i] \in 1 .. m + n /\ w[h[i]] = w2[i] /\ v[h[i]] = v2[i]
  <2>1. CASE i <= m
    <3>1. h[i] = i /\ i \in 1 .. m + n
      BY <1>1, <2>1
    <3>2. /\ w2[i] = IF ev[i].name = "input" THEN <<ev[i].in>> ELSE <<>>
          /\ v2[i] = IF ev[i].name = "output" THEN <<ev[i].out>> ELSE <<>>
          /\ w[i] = IF ev[i].name = "input" THEN <<ev[i].in>> ELSE <<>>
          /\ v[i] = IF ev[i].name = "output" THEN <<ev[i].out>> ELSE <<>>
      BY <1>1, <1>3, <2>1, <3>1 DEF InWork, OutWork
    <3>3. QED
      BY <3>1, <3>2
  <2>2. CASE ~(i <= m)
    <3>1. h[i] = i + 1 /\ i + 1 \in 1 .. m + n /\ i - m \in 1 .. n - 1 /\ (i - m) + 1 = (i + 1) - m /\ ~(i + 1 <= m)
      BY <1>1, <2>2
    <3>2. w2[i] = <<t[i - m].in>> /\ v2[i] = <<t[i - m].out>>
      BY <1>1, <1>3, <2>2 DEF InWork, OutWork
    <3>3. w[i + 1] = <<db[(i + 1) - m].in>> /\ v[i + 1] = <<db[(i + 1) - m].out>>
      BY <1>1, <1>3, <3>1 DEF InWork, OutWork
    <3>4. QED
      BY <1>2, <3>1, <3>2, <3>3
  <2>3. QED
    BY <2>1, <2>2
<1>5. \A i, j \in 1 .. m + (n - 1) : i < j => h[i] < h[j]
  BY <1>1
<1> HIDE DEF h, w, w2, v, v2
<1>6. (Follows(w, q) => Follows(w2, q)) /\ (Follows(v, p) => Follows(v2, p))
  BY <1>3, <1>4, <1>5, FollowsEmbedded
<1>7. QED
  BY <1>1, <1>6 DEF w, w2, v, v2

\* The fields of the software ISP.
LEMMA SwIspFields ==
    ASSUME SwIspSound
    PROVE  /\ swIsp.in \in Seq(CaptureBuffers) /\ swIsp.out \in Seq(Request) /\ swIsp.debayer \in Seq(DebayerWork)
           /\ swIsp.events \in Seq(DebayerEvent) /\ swIsp.ipa \in Seq(Nat) /\ swIsp.metadata \in Seq(Nat)
BY DEF SwIspSound, SwIspState

Coverage == faults = 0 /\ Simple!Stage # "swIsp"

LEMMA SwIspKept ==
    ASSUME SwIspSound, Coverage' => Coverage, UNCHANGED <<swIsp>>
    PROVE  SwIspSound'
BY DEF SwIspSound, Coverage

\* Work for the debayer.
LEMMA SwIspQueueMove ==
    ASSUME SwIspSound, Coverage' => Coverage, NEW b \in CaptureBuffers, NEW r \in Request, req[r].sequence \in Nat,
           b \notin ToSet(swIsp.in), r \notin ToSet(swIsp.out), swIsp' = Simple!swIspQueue(b, r)
    PROVE  /\ SwIspSound' /\ ToSet(swIsp'.in) = ToSet(swIsp.in) \cup {b} /\ ToSet(swIsp'.out) = ToSet(swIsp.out) \cup {r}
           /\ swIsp'.debayer = Append(swIsp.debayer, [frame |-> req[r].sequence, in |-> b, out |-> r])
           /\ swIsp'.events = swIsp.events /\ swIsp'.ipa = swIsp.ipa /\ swIsp'.metadata = swIsp.metadata
<1>1. PICK d \in DebayerWork : d = [frame |-> req[r].sequence, in |-> b, out |-> r] /\ d.in = b /\ d.out = r
  <2>1. [frame |-> req[r].sequence, in |-> b, out |-> r] \in DebayerWork
    BY DEF DebayerWork
  <2>2. PICK d \in DebayerWork : d = [frame |-> req[r].sequence, in |-> b, out |-> r]
    BY <2>1
  <2>3. d.in = b /\ d.out = r
    BY <2>2
  <2>4. QED
    BY <2>2, <2>3
<1>2. swIsp \in SwIspState
  BY DEF SwIspSound
<1>3. /\ swIsp'.in = Append(swIsp.in, b) /\ swIsp'.out = Append(swIsp.out, r) /\ swIsp'.debayer = Append(swIsp.debayer, d)
      /\ swIsp'.events = swIsp.events /\ swIsp'.ipa = swIsp.ipa /\ swIsp'.metadata = swIsp.metadata
  BY <1>1, <1>2 DEF SwIspState, Simple!swIspQueue
<1>4. /\ Append(swIsp.in, b) \in Seq(CaptureBuffers) /\ IsInjective(Append(swIsp.in, b))
      /\ ToSet(Append(swIsp.in, b)) = ToSet(swIsp.in) \cup {b}
  <2>1. swIsp.in \in Seq(CaptureBuffers) /\ IsInjective(swIsp.in)
    BY SwIspFields DEF SwIspSound
  <2>2. QED
    BY <2>1, PushedQueue
<1>5. /\ Append(swIsp.out, r) \in Seq(Request) /\ IsInjective(Append(swIsp.out, r))
      /\ ToSet(Append(swIsp.out, r)) = ToSet(swIsp.out) \cup {r}
  <2>1. swIsp.out \in Seq(Request) /\ IsInjective(swIsp.out)
    BY SwIspFields DEF SwIspSound
  <2>2. QED
    BY <2>1, PushedQueue
<1>6. swIsp' \in SwIspState
  <2>1. Append(swIsp.debayer, d) \in Seq(DebayerWork)
    BY SwIspFields
  <2>2. QED
    BY <1>1, <1>2, <1>4, <1>5, <2>1 DEF SwIspState, Simple!swIspQueue
<1>7. /\ Follows(InWork(swIsp'.events, swIsp'.debayer), swIsp'.in)
      /\ Covers(InWork(swIsp.events, swIsp.debayer), swIsp.in) => Covers(InWork(swIsp'.events, swIsp'.debayer), swIsp'.in)
      /\ Follows(OutWork(swIsp'.events, swIsp'.debayer), swIsp'.out)
      /\ Covers(OutWork(swIsp.events, swIsp.debayer), swIsp.out) => Covers(OutWork(swIsp'.events, swIsp'.debayer), swIsp'.out)
  <2>1. PICK ev \in Seq(DebayerEvent), db \in Seq(DebayerWork), i \in Seq(CaptureBuffers), o \in Seq(Request) :
            ev = swIsp.events /\ db = swIsp.debayer /\ i = swIsp.in /\ o = swIsp.out
    BY SwIspFields
  <2>2. Follows(InWork(ev, db), i) /\ Follows(OutWork(ev, db), o) /\ b \notin ToSet(i) /\ r \notin ToSet(o)
    BY <2>1 DEF SwIspSound
  <2>3. PICK n \in Nat : Grown(ev, db, d, n)
    BY WorkPushed
  <2>4. PICK w, w2 : w = InWork(ev, db) /\ w2 = InWork(ev, Append(db, d))
    OBVIOUS
  <2>5. Follows(w2, Append(i, b)) /\ (Covers(w, i) => Covers(w2, Append(i, b)))
    <3>1. DOMAIN w = 1 .. n /\ DOMAIN w2 = 1 .. n + 1 /\ (\A k \in 1 .. n : w2[k] = w[k]) /\ w2[n + 1] = <<b>> /\ Follows(w, i)
      BY <1>1, <2>2, <2>3, <2>4 DEF Grown
    <3>2. QED
      BY <2>2, <3>1, FollowsPushed
  <2>6. PICK v, v2 : v = OutWork(ev, db) /\ v2 = OutWork(ev, Append(db, d))
    OBVIOUS
  <2>7. Follows(v2, Append(o, r)) /\ (Covers(v, o) => Covers(v2, Append(o, r)))
    <3>1. DOMAIN v = 1 .. n /\ DOMAIN v2 = 1 .. n + 1 /\ (\A k \in 1 .. n : v2[k] = v[k]) /\ v2[n + 1] = <<r>> /\ Follows(v, o)
      BY <1>1, <2>2, <2>3, <2>6 DEF Grown
    <3>2. QED
      BY <2>2, <3>1, FollowsPushed
  <2>8. QED
    BY <1>3, <2>1, <2>4, <2>5, <2>6, <2>7
<1>8. SwIspSound'
  BY <1>3, <1>4, <1>5, <1>6, <1>7 DEF SwIspSound, Coverage
<1>9. QED
  BY <1>1, <1>3, <1>4, <1>5, <1>8

\* Debayer::process(), or a frame it cannot map.
LEMMA SwIspDebayerMove ==
    ASSUME SwIspSound, swIsp.debayer # <<>>,
           \/ /\ swIsp' = [swIsp EXCEPT !.debayer = Tail(@), !.events = @ \o Reports(Head(swIsp.debayer))]
              /\ Coverage' => Coverage
           \/ swIsp' = [swIsp EXCEPT !.debayer = Tail(@)] /\ ~Coverage'
    PROVE  SwIspSound' /\ swIsp'.in = swIsp.in /\ swIsp'.out = swIsp.out /\ swIsp'.ipa = swIsp.ipa /\ swIsp'.metadata = swIsp.metadata
<1>1. swIsp \in SwIspState
  BY DEF SwIspSound
<1>2. PICK ev \in Seq(DebayerEvent), db \in Seq(DebayerWork), i \in Seq(CaptureBuffers), o \in Seq(Request) :
          ev = swIsp.events /\ db = swIsp.debayer /\ i = swIsp.in /\ o = swIsp.out
  BY SwIspFields
<1>3. Follows(InWork(ev, db), i) /\ Follows(OutWork(ev, db), o) /\ db # <<>>
  BY <1>2 DEF SwIspSound
<1>4. Head(db) \in DebayerWork /\ Tail(db) \in Seq(DebayerWork)
  BY <1>3
<1>5. CASE swIsp' = [swIsp EXCEPT !.debayer = Tail(@), !.events = @ \o Reports(Head(swIsp.debayer))] /\ (Coverage' => Coverage)
  <2>1. PICK ev2 \in Seq(DebayerEvent) : ev2 = ev \o Reports(Head(db))
    BY <1>4, ReportsAppended DEF Extended
  <2>2. /\ swIsp'.in = i /\ swIsp'.out = o /\ swIsp'.debayer = Tail(db) /\ swIsp'.events = ev2
        /\ swIsp'.ipa = swIsp.ipa /\ swIsp'.metadata = swIsp.metadata /\ swIsp' \in SwIspState
    BY <1>1, <1>2, <1>4, <1>5, <2>1 DEF SwIspState
  <2>3. /\ Follows(InWork(ev2, Tail(db)), i) /\ (Covers(InWork(ev, db), i) => Covers(InWork(ev2, Tail(db)), i))
        /\ Follows(OutWork(ev2, Tail(db)), o) /\ (Covers(OutWork(ev, db), o) => Covers(OutWork(ev2, Tail(db)), o))
    BY <1>3, <2>1, WorkProcessed
  <2>4. SwIspSound'
    BY <1>2, <1>5, <2>2, <2>3 DEF SwIspSound, Coverage
  <2>5. QED
    BY <1>2, <2>2, <2>4
<1>6. CASE swIsp' = [swIsp EXCEPT !.debayer = Tail(@)] /\ ~Coverage'
  <2>1. /\ swIsp'.in = i /\ swIsp'.out = o /\ swIsp'.debayer = Tail(db) /\ swIsp'.events = ev
        /\ swIsp'.ipa = swIsp.ipa /\ swIsp'.metadata = swIsp.metadata /\ swIsp' \in SwIspState
    BY <1>1, <1>2, <1>4, <1>6 DEF SwIspState
  <2>2. Follows(InWork(ev, Tail(db)), i) /\ Follows(OutWork(ev, Tail(db)), o)
    BY <1>3, WorkDropped
  <2>3. SwIspSound'
    BY <1>2, <1>6, <2>1, <2>2 DEF SwIspSound, Coverage
  <2>4. QED
    BY <1>2, <2>1, <2>3
<1>7. QED
  BY <1>5, <1>6

\* The first event is about the first buffer.
LEMMA FirstMatches ==
    ASSUME NEW S, NEW q \in Seq(S), NEW w, NEW n \in Nat \ {0}, DOMAIN w = 1 .. n, NEW x, w[1] = <<x>>, Follows(w, q)
    PROVE  q # <<>> /\ x \in ToSet(q) /\ (Covers(w, q) => x = Head(q))
<1>1. 1 \in DOMAIN w /\ w[1] # <<>>
  OBVIOUS
<1>2. PICK k \in DOMAIN q : w[1] = <<q[k]>>
  BY <1>1 DEF Follows
<1>3. x = q[k] /\ DOMAIN q = 1 .. Len(q) /\ Len(q) \in Nat
  BY <1>2
<1>4. q # <<>> /\ x \in ToSet(q) /\ 1 \in DOMAIN q /\ Head(q) = q[1]
  BY <1>3 DEF ToSet
<1>5. ASSUME Covers(w, q) PROVE x = q[1]
  <2>1. PICK i \in DOMAIN w : w[i] = <<q[1]>>
    BY <1>4, <1>5 DEF Covers
  <2>2. i = 1 \/ 1 < i
    OBVIOUS
  <2>3. ~(1 < i)
    <3>1. SUFFICES ASSUME 1 < i PROVE k < 1
      BY <1>3
    <3>2. QED
      BY <1>1, <1>2, <1>4, <2>1, <3>1 DEF Follows
  <2>4. QED
    BY <2>1, <2>2, <2>3
<1>6. QED
  BY <1>4, <1>5

LEMMA EventMatches ==
    ASSUME SwIspSound, swIsp.events # <<>>, NEW e, e = Head(swIsp.events)
    PROVE  /\ e \in DebayerEvent
           /\ e.name = "output" => swIsp.out # <<>> /\ e.out \in ToSet(swIsp.out) /\ (Coverage => Head(swIsp.out) = e.out)
           /\ e.name = "input" => swIsp.in # <<>> /\ e.in \in ToSet(swIsp.in) /\ (Coverage => Head(swIsp.in) = e.in)
<1>1. PICK ev \in Seq(DebayerEvent), db \in Seq(DebayerWork), i \in Seq(CaptureBuffers), o \in Seq(Request) :
          ev = swIsp.events /\ db = swIsp.debayer /\ i = swIsp.in /\ o = swIsp.out
  BY SwIspFields
<1>2. Follows(InWork(ev, db), i) /\ Follows(OutWork(ev, db), o) /\ ev # <<>> /\ e = Head(ev) /\ e \in DebayerEvent
  BY <1>1 DEF SwIspSound
<1>3. Coverage => Covers(InWork(ev, db), i) /\ Covers(OutWork(ev, db), o)
  BY <1>1 DEF SwIspSound, Coverage
<1>4. /\ Shifted(InWork(ev, db), InWork(Tail(ev), db)) /\ Shifted(OutWork(ev, db), OutWork(Tail(ev), db))
      /\ InWork(ev, db)[1] = IF e.name = "input" THEN <<e.in>> ELSE <<>>
      /\ OutWork(ev, db)[1] = IF e.name = "output" THEN <<e.out>> ELSE <<>>
  BY <1>2, WorkPopped
<1>5. PICK w, v : w = InWork(ev, db) /\ v = OutWork(ev, db)
  OBVIOUS
<1>6. PICK n \in Nat \ {0} : DOMAIN w = 1 .. n
  BY <1>4, <1>5 DEF Shifted
<1>7. PICK m \in Nat \ {0} : DOMAIN v = 1 .. m
  BY <1>4, <1>5 DEF Shifted
<1>8. ASSUME e.name = "input" PROVE i # <<>> /\ e.in \in ToSet(i) /\ (Covers(w, i) => e.in = Head(i))
  <2>1. w[1] = <<e.in>> /\ Follows(w, i)
    BY <1>2, <1>4, <1>5, <1>8
  <2>2. QED
    BY <1>6, <2>1, FirstMatches
<1>9. ASSUME e.name = "output" PROVE o # <<>> /\ e.out \in ToSet(o) /\ (Covers(v, o) => e.out = Head(o))
  <2>1. v[1] = <<e.out>> /\ Follows(v, o)
    BY <1>2, <1>4, <1>5, <1>9
  <2>2. QED
    BY <1>7, <2>1, FirstMatches
<1>10. QED
  BY <1>1, <1>2, <1>3, <1>5, <1>8, <1>9

\* Each event takes what it is about.
LEMMA SwIspEventMove ==
    ASSUME SwIspSound, Coverage' => Coverage, swIsp.events # <<>>, NEW e, e = Head(swIsp.events),
           \/ e.name = "stats" /\ swIsp' = [swIsp EXCEPT !.events = Tail(@), !.ipa = Append(@, e.frame)]
           \/ e.name = "output" /\ e.out = Head(swIsp.out) /\ swIsp' = [swIsp EXCEPT !.events = Tail(@), !.out = Tail(@)]
           \/ e.name = "input" /\ e.in = Head(swIsp.in) /\ swIsp' = [swIsp EXCEPT !.events = Tail(@), !.in = Tail(@)]
    PROVE  /\ SwIspSound' /\ swIsp'.events = Tail(swIsp.events) /\ swIsp'.debayer = swIsp.debayer
           /\ swIsp'.metadata = swIsp.metadata
           /\ ToSet(swIsp'.in) = ToSet(swIsp.in) \ (IF e.name = "input" THEN {e.in} ELSE {})
           /\ ToSet(swIsp'.out) = ToSet(swIsp.out) \ (IF e.name = "output" THEN {e.out} ELSE {})
           /\ swIsp'.ipa = IF e.name = "stats" THEN Append(swIsp.ipa, e.frame) ELSE swIsp.ipa
<1>1. PICK ev \in Seq(DebayerEvent), db \in Seq(DebayerWork), i \in Seq(CaptureBuffers), o \in Seq(Request) :
          ev = swIsp.events /\ db = swIsp.debayer /\ i = swIsp.in /\ o = swIsp.out
  BY SwIspFields
<1>2. /\ Follows(InWork(ev, db), i) /\ Follows(OutWork(ev, db), o) /\ ev # <<>> /\ e = Head(ev) /\ e \in DebayerEvent
      /\ IsInjective(i) /\ IsInjective(o)
  BY <1>1 DEF SwIspSound
<1>3. Coverage => Covers(InWork(ev, db), i) /\ Covers(OutWork(ev, db), o)
  BY <1>1 DEF SwIspSound, Coverage
<1>4. /\ Shifted(InWork(ev, db), InWork(Tail(ev), db)) /\ Shifted(OutWork(ev, db), OutWork(Tail(ev), db))
      /\ InWork(ev, db)[1] = IF e.name = "input" THEN <<e.in>> ELSE <<>>
      /\ OutWork(ev, db)[1] = IF e.name = "output" THEN <<e.out>> ELSE <<>>
  BY <1>2, WorkPopped
<1>5. PICK w, v, w2, v2 : w = InWork(ev, db) /\ v = OutWork(ev, db) /\ w2 = InWork(Tail(ev), db) /\ v2 = OutWork(Tail(ev), db)
  OBVIOUS
<1>6. e.name # "input" => Follows(w2, i) /\ (Covers(w, i) => Covers(w2, i))
  BY <1>2, <1>4, <1>5, FollowsShifted
<1>7. e.name # "output" => Follows(v2, o) /\ (Covers(v, o) => Covers(v2, o))
  BY <1>2, <1>4, <1>5, FollowsShifted
<1>8. Tail(ev) \in Seq(DebayerEvent) /\ swIsp \in SwIspState
  BY <1>2 DEF SwIspSound
<1>9. CASE e.name = "stats"
  <2>1. e.frame \in Nat
    BY <1>2, <1>9 DEF DebayerEvent
  <2>2. Append(swIsp.ipa, e.frame) \in Seq(Nat)
    BY <2>1, SwIspFields
  <2>3. swIsp' = [swIsp EXCEPT !.events = Tail(@), !.ipa = Append(@, e.frame)]
    BY <1>9
  <2>4. /\ swIsp'.in = i /\ swIsp'.out = o /\ swIsp'.debayer = db /\ swIsp'.events = Tail(ev)
        /\ swIsp'.ipa = Append(swIsp.ipa, e.frame) /\ swIsp'.metadata = swIsp.metadata /\ swIsp' \in SwIspState
    BY <1>1, <1>8, <2>2, <2>3 DEF SwIspState
  <2>5. SwIspSound'
    BY <1>2, <1>3, <1>5, <1>6, <1>7, <1>9, <2>4 DEF SwIspSound, Coverage
  <2>6. QED
    BY <1>1, <1>9, <2>4, <2>5
<1>10. CASE e.name = "output"
  <2>1. o # <<>> /\ e.out = Head(o) /\ swIsp' = [swIsp EXCEPT !.events = Tail(@), !.out = Tail(@)]
    BY <1>1, <1>10, EventMatches
  <2>2. Tail(o) \in Seq(Request) /\ IsInjective(Tail(o)) /\ ToSet(Tail(o)) = ToSet(o) \ {e.out}
    BY <1>2, <2>1, PoppedQueue
  <2>3. /\ swIsp'.in = i /\ swIsp'.out = Tail(o) /\ swIsp'.debayer = db /\ swIsp'.events = Tail(ev)
        /\ swIsp'.ipa = swIsp.ipa /\ swIsp'.metadata = swIsp.metadata /\ swIsp' \in SwIspState
    BY <1>1, <1>8, <2>1, <2>2 DEF SwIspState
  <2>4. Follows(v2, Tail(o)) /\ (Covers(v, o) => Covers(v2, Tail(o)))
    <3>1. v[1] = <<Head(o)>> /\ Shifted(v, v2) /\ Follows(v, o)
      BY <1>2, <1>4, <1>5, <1>10, <2>1
    <3>2. QED
      BY <1>2, <2>1, <3>1, FollowsPopped
  <2>5. SwIspSound'
    BY <1>2, <1>3, <1>5, <1>6, <1>10, <2>2, <2>3, <2>4 DEF SwIspSound, Coverage
  <2>6. QED
    BY <1>1, <1>10, <2>2, <2>3, <2>5
<1>11. CASE e.name = "input"
  <2>1. i # <<>> /\ e.in = Head(i) /\ swIsp' = [swIsp EXCEPT !.events = Tail(@), !.in = Tail(@)]
    BY <1>1, <1>11, EventMatches
  <2>2. Tail(i) \in Seq(CaptureBuffers) /\ IsInjective(Tail(i)) /\ ToSet(Tail(i)) = ToSet(i) \ {e.in}
    BY <1>2, <2>1, PoppedQueue
  <2>3. /\ swIsp'.in = Tail(i) /\ swIsp'.out = o /\ swIsp'.debayer = db /\ swIsp'.events = Tail(ev)
        /\ swIsp'.ipa = swIsp.ipa /\ swIsp'.metadata = swIsp.metadata /\ swIsp' \in SwIspState
    BY <1>1, <1>8, <2>1, <2>2 DEF SwIspState
  <2>4. Follows(w2, Tail(i)) /\ (Covers(w, i) => Covers(w2, Tail(i)))
    <3>1. w[1] = <<Head(i)>> /\ Shifted(w, w2) /\ Follows(w, i)
      BY <1>2, <1>4, <1>5, <1>11, <2>1
    <3>2. QED
      BY <1>2, <2>1, <3>1, FollowsPopped
  <2>5. SwIspSound'
    BY <1>2, <1>3, <1>5, <1>7, <1>11, <2>2, <2>3, <2>4 DEF SwIspSound, Coverage
  <2>6. QED
    BY <1>1, <1>11, <2>2, <2>3, <2>5
<1>12. QED
  BY <1>9, <1>10, <1>11

\* The IPA's thread and its events leave the buffers alone.
LEMMA SwIspIpaMove ==
    ASSUME SwIspSound, Coverage' => Coverage, NEW i \in Seq(Nat), NEW m \in Seq(Nat),
           swIsp' = [swIsp EXCEPT !.ipa = i, !.metadata = m]
    PROVE  /\ SwIspSound' /\ swIsp'.in = swIsp.in /\ swIsp'.out = swIsp.out /\ swIsp'.debayer = swIsp.debayer
           /\ swIsp'.events = swIsp.events /\ swIsp'.ipa = i /\ swIsp'.metadata = m
<1>1. swIsp \in SwIspState
  BY DEF SwIspSound
<1>2. /\ swIsp'.in = swIsp.in /\ swIsp'.out = swIsp.out /\ swIsp'.debayer = swIsp.debayer
      /\ swIsp'.events = swIsp.events /\ swIsp'.ipa = i /\ swIsp'.metadata = m /\ swIsp' \in SwIspState
  BY <1>1 DEF SwIspState
<1>3. SwIspSound'
  BY <1>2 DEF SwIspSound, Coverage
<1>4. QED
  BY <1>2, <1>3

\* stop() takes the buffers that were never returned.
LEMMA SwIspStopMove ==
    ASSUME SwIspSound, ~Coverage', swIsp.debayer = <<>>, swIsp.events = <<>>,
           \/ swIsp.out # <<>> /\ swIsp' = [swIsp EXCEPT !.out = Tail(@)]
           \/ swIsp.in # <<>> /\ swIsp' = [swIsp EXCEPT !.in = Tail(@)]
    PROVE  /\ SwIspSound' /\ swIsp'.debayer = <<>> /\ swIsp'.events = <<>> /\ swIsp'.ipa = swIsp.ipa /\ swIsp'.metadata = swIsp.metadata
           /\ \/ /\ swIsp.out # <<>> /\ swIsp' = [swIsp EXCEPT !.out = Tail(@)] /\ swIsp'.in = swIsp.in
                 /\ ToSet(swIsp'.out) = ToSet(swIsp.out) \ {Head(swIsp.out)} /\ Head(swIsp.out) \in ToSet(swIsp.out)
              \/ /\ swIsp.in # <<>> /\ swIsp' = [swIsp EXCEPT !.in = Tail(@)] /\ swIsp'.out = swIsp.out
                 /\ ToSet(swIsp'.in) = ToSet(swIsp.in) \ {Head(swIsp.in)} /\ Head(swIsp.in) \in ToSet(swIsp.in)
<1>1. swIsp \in SwIspState /\ IsInjective(swIsp.in) /\ IsInjective(swIsp.out)
  BY DEF SwIspSound
<1>2. PICK i \in Seq(CaptureBuffers), o \in Seq(Request) : i = swIsp.in /\ o = swIsp.out /\ IsInjective(i) /\ IsInjective(o)
  BY <1>1, SwIspFields
<1>3. DOMAIN InWork(<<>>, <<>>) = {} /\ DOMAIN OutWork(<<>>, <<>>) = {}
  BY DEF InWork, OutWork
<1>4. \A q : Follows(InWork(<<>>, <<>>), q) /\ Follows(OutWork(<<>>, <<>>), q)
  BY <1>3 DEF Follows
<1>5. CASE swIsp.out # <<>> /\ swIsp' = [swIsp EXCEPT !.out = Tail(@)]
  <2>1. Tail(o) \in Seq(Request) /\ IsInjective(Tail(o)) /\ ToSet(Tail(o)) = ToSet(o) \ {Head(o)} /\ Head(o) \in ToSet(o)
    BY <1>2, <1>5, PoppedQueue
  <2>2. /\ swIsp'.in = swIsp.in /\ swIsp'.out = Tail(o) /\ swIsp'.debayer = <<>> /\ swIsp'.events = <<>>
        /\ swIsp'.ipa = swIsp.ipa /\ swIsp'.metadata = swIsp.metadata /\ swIsp' \in SwIspState
    BY <1>1, <1>2, <1>5, <2>1 DEF SwIspState
  <2>3. SwIspSound'
    BY <1>1, <1>4, <2>1, <2>2 DEF SwIspSound, Coverage
  <2>4. QED
    BY <1>2, <1>5, <2>1, <2>2, <2>3
<1>6. CASE swIsp.in # <<>> /\ swIsp' = [swIsp EXCEPT !.in = Tail(@)]
  <2>1. Tail(i) \in Seq(CaptureBuffers) /\ IsInjective(Tail(i)) /\ ToSet(Tail(i)) = ToSet(i) \ {Head(i)} /\ Head(i) \in ToSet(i)
    BY <1>2, <1>6, PoppedQueue
  <2>2. /\ swIsp'.out = swIsp.out /\ swIsp'.in = Tail(i) /\ swIsp'.debayer = <<>> /\ swIsp'.events = <<>>
        /\ swIsp'.ipa = swIsp.ipa /\ swIsp'.metadata = swIsp.metadata /\ swIsp' \in SwIspState
    BY <1>1, <1>2, <1>6, <2>1 DEF SwIspState
  <2>3. SwIspSound'
    BY <1>1, <1>4, <2>1, <2>2 DEF SwIspSound, Coverage
  <2>4. QED
    BY <1>2, <1>6, <2>1, <2>2, <2>3
<1>7. QED
  BY <1>5, <1>6
-----------------------------------------------------------------------------
\* Pieces of the invariant about what is where, after a step.
PlacesSound == ConversionSound /\ VideoSound /\ M2mSound /\ SwIspSound /\ M2mPhases /\ SwIspPhases /\ VideoPhases

\* A request that owes something has its frame info.
LEMMA FrameOf ==
    ASSUME SimpleInv, NEW r \in Request, Live(r), Simple!Stage \notin {"clear", "waiting"}
    PROVE  req[r].sequence \in DOMAIN frameInfo /\ frameInfo[req[r].sequence].request = r
BY DEF SimpleInv, Booked, SimpleFrames, Live

\* A step that takes streams S from what request r owes keeps the invariant if the
\* buffers have left their places and the metadata is not lost.
LEMMA HandledInv ==
    ASSUME SimpleInv, NEW r \in Request, NEW S \in SUBSET AllStreams, Handled(r, S), UNCHANGED Bookkeeping, Live(r),
           position \in SimpleStages, Simple!Stage \notin {"clear", "waiting"}, faults' = faults,
           PlacesSound',
           \A q \in Request, t \in AllStreams : Held(q, t)' <=> Held(q, t) /\ ~(q = r /\ t \in S),
           \A f \in DOMAIN frameInfo' :
               Wanted(f)' /\ Coming(frameInfo[f].request, f) => Coming(frameInfo[f].request, f)',
           \A f \in DOMAIN frameInfo' : frameInfo'[f].required => frameInfo[f].required
    PROVE  SimpleInv'
<1>1. SimpleType /\ Booked /\ PiecesSound /\ MetadataComes /\ StagesSound
  BY DEF SimpleInv, SimplePhases
<1>2. req[r].sequence \in DOMAIN frameInfo /\ frameInfo[req[r].sequence].request = r
  BY FrameOf
<1>3. SimpleType'
  BY <1>1, <1>2, HandledTypes DEF SimpleType
<1>4. Booked'
  BY <1>1, <1>2, HandledBooked
<1>5. PiecesSound'
  <2>1. \A q \in Request, t \in AllStreams : Owes(q, t)' <=> Owes(q, t) /\ ~(q = r /\ t \in S)
    BY <1>1, HandledOwes
  <2>2. QED
    BY <1>1, <2>1 DEF PiecesSound
<1>6. Simple!Stage' = Simple!Stage
  BY <1>1, SameStage
<1>7. DOMAIN frameInfo' \subseteq DOMAIN frameInfo /\ \A f \in DOMAIN frameInfo' : Wanted(f)' => Wanted(f)
  <2>1. CASE StillOwes(r, S)
    BY <1>2, <2>1 DEF StillOwes, Wanted
  <2>2. CASE IsDone(r, S)
    BY <2>2 DEF IsDone, Wanted
  <2>3. QED
    BY <2>1, <2>2 DEF Handled
<1>8. MetadataComes'
  <2>1. \A f \in DOMAIN frameInfo' : frameInfo'[f].required => config'.conv = "soft"
    BY <1>1, <1>7 DEF MetadataComes, Bookkeeping
  <2>2. faults' = 0 => \A f \in DOMAIN frameInfo' : Wanted(f)' => Coming(frameInfo[f].request, f)'
    BY <1>1, <1>7 DEF MetadataComes
  <2>3. QED
    BY <2>1, <2>2 DEF MetadataComes
<1>9. LeftOver'
  BY <1>6 DEF LeftOver
<1>10. StagesSound'
  BY <1>1, <1>6 DEF StagesSound, Bookkeeping
<1>11. QED
  BY <1>3, <1>4, <1>5, <1>8, <1>9, <1>10 DEF SimpleInv, PlacesSound, SimplePhases

RequestState == <<req, frameInfo, position, ret>>

\* A step that only moves buffers and work.
LEMMA MovedInv ==
    ASSUME SimpleInv, UNCHANGED Bookkeeping, UNCHANGED RequestState, faults' \in Nat, PlacesSound',
           Simple!Stage \notin {"clear", "waiting"}, faults' = 0 => faults = 0,
           \A q \in Request, t \in AllStreams : Held(q, t)' <=> Held(q, t),
           faults' = 0 => \A f \in DOMAIN frameInfo :
               Wanted(f) /\ Coming(frameInfo[f].request, f) => Coming(frameInfo[f].request, f)'
    PROVE  SimpleInv'
<1>1. SimpleType /\ Booked /\ PiecesSound /\ MetadataComes /\ StagesSound
  BY DEF SimpleInv, SimplePhases
<1>2. /\ config' = config /\ active' = active /\ queued' = queued /\ stopped' = stopped /\ waiting' = waiting
      /\ sequence' = sequence /\ req' = req /\ frameInfo' = frameInfo /\ position' = position /\ ret' = ret
  BY DEF Bookkeeping, RequestState
<1>3. SimpleType'
  BY <1>1, <1>2 DEF SimpleType
<1>4. Simple!Stage' = Simple!Stage
  BY <1>2 DEF Simple!Stage
<1>5. Booked'
  BY <1>1, <1>2, <1>4 DEF Booked, SimpleQueues, SimpleFrames, Live, Missing, SimpleHeadWorks, Simple!Streams, Simple!Outs
<1>6. PiecesSound'
  <2>1. \A q \in Request, t \in AllStreams : Owes(q, t)' <=> Owes(q, t)
    BY <1>2 DEF Owes, Live
  <2>2. QED
    BY <1>1, <2>1 DEF PiecesSound
<1>7. MetadataComes'
  <2>1. \A f : Wanted(f)' <=> Wanted(f)
    BY <1>2 DEF Wanted
  <2>2. faults' = 0 => \A f \in DOMAIN frameInfo : Wanted(f) => Coming(frameInfo[f].request, f)'
    BY <1>1 DEF MetadataComes
  <2>3. QED
    BY <1>1, <1>2, <2>1, <2>2 DEF MetadataComes
<1>8. LeftOver'
  BY <1>4 DEF LeftOver
<1>9. StagesSound'
  BY <1>1, <1>2, <1>4 DEF StagesSound
<1>10. QED
  BY <1>3, <1>5, <1>6, <1>7, <1>8, <1>9 DEF SimpleInv, PlacesSound, SimplePhases

LEMMA SameConfig ==
    ASSUME config' = config
    PROVE  /\ Captured' = Captured /\ Converted' = Converted /\ (Simple!Internal' <=> Simple!Internal)
           /\ Simple!Outs(config') = Simple!Outs(config)
BY DEF Captured, Converted, Simple!Internal, Simple!useConversion, Simple!CapturedStream, Simple!Outs

\* What the stages convert and capture.
LEMMA StreamSets ==
    ASSUME SimpleInv
    PROVE  /\ Captured \subseteq AllStreams /\ Converted \subseteq {"a", "b"} /\ Captured \cap Converted = {}
           /\ (Simple!Internal <=> Captured = {}) /\ (~Simple!Internal => Captured = {Simple!CapturedStream})
           /\ (Simple!useConversion => Converted = Simple!Outs(config)) /\ (config.conv = "m2m" => Converted = {"a", "b"})
           /\ (config.conv = "soft" => Converted = {"a"}) /\ (config.conv = "none" => Converted = {})
           /\ config.conv \in {"none", "m2m", "soft"} /\ (Simple!useConversion <=> config.conv # "none")
           /\ config.raw \in BOOLEAN /\ (config.raw => config.conv # "none" /\ Captured = {"raw"})
<1>1. config \in Simple!Configuration
  BY DEF SimpleInv, SimpleType
<1>2. config.conv \in {"none", "m2m", "soft"} /\ config.raw \in BOOLEAN /\ (config.conv = "none" => ~config.raw)
  BY <1>1 DEF Simple!Configuration
<1>3. (config.conv = "m2m" => Simple!Outs(config) = {"a", "b"}) /\ (config.conv # "m2m" => Simple!Outs(config) = {"a"})
  BY DEF Simple!Outs
<1>4. Simple!CapturedStream = IF config.raw THEN "raw" ELSE "a"
  BY DEF Simple!CapturedStream
<1>5. QED
  BY <1>2, <1>3, <1>4 DEF Captured, Converted, Simple!Internal, Simple!useConversion, AllStreams

\* A request that owes a stream is live and has its frame info.
LEMMA Owing ==
    ASSUME SimpleInv, NEW r \in Request, NEW s \in AllStreams, Held(r, s)
    PROVE  /\ Live(r) /\ Owes(r, s)
           /\ Simple!Stage \notin {"clear", "waiting"} => req[r].sequence \in DOMAIN frameInfo /\ frameInfo[req[r].sequence].request = r
<1>1. Owes(r, s)
  BY DEF SimpleInv, PiecesSound
<1>2. Live(r)
  BY <1>1 DEF Owes
<1>3. QED
  BY <1>1, <1>2, FrameOf

LEMMA RequestBufferOf ==
    ASSUME NEW b \in RequestBuffers
    PROVE  /\ b.request[1] \in Request /\ b = Simple!RequestBuffer(b.request[1])
           /\ \A q \in Request : Simple!RequestBuffer(q) = b => q = b.request[1]
<1>1. PICK r \in Request : b = Simple!RequestBuffer(r)
  BY DEF RequestBuffers
<1>2. b.request[1] = r
  BY <1>1 DEF Simple!RequestBuffer
<1>3. \A q \in Request : Simple!RequestBuffer(q).request[1] = q
  BY DEF Simple!RequestBuffer
<1>4. QED
  BY <1>1, <1>2, <1>3

LEMMA BuffersApart == InternalBuffers \cap RequestBuffers = {}
BY DEF InternalBuffers, RequestBuffers, Simple!InternalBuffer, Simple!RequestBuffer

\* tryCompleteRequest() for a live request.
LEMMA Completes ==
    ASSUME SimpleInv, NEW r \in Request, Live(r), NEW S \in SUBSET AllStreams, Simple!Stage \notin {"clear", "waiting"},
           NEW info, info \in {frameInfo, Simple!NoMetadata(r)},
           Simple!tryCompleteRequest(r, Simple!completeBuffers(r, S), info)
    PROVE  /\ Handled(r, S)
           /\ \A f \in DOMAIN frameInfo' : frameInfo'[f].required => frameInfo[f].required
           /\ \A f \in DOMAIN frameInfo' : frameInfo'[f].request = frameInfo[f].request
           /\ info = Simple!NoMetadata(r) => \A f \in DOMAIN frameInfo' : f = req[r].sequence => ~frameInfo'[f].required
<1>1. SimpleType
  BY DEF SimpleInv
<1>2. PICK f : f = req[r].sequence /\ f \in DOMAIN frameInfo /\ frameInfo[f].request = r /\ frameInfo[f] \in FrameEntry
  BY <1>1, FrameOf DEF SimpleType
<1>3. /\ DOMAIN info = DOMAIN frameInfo /\ \A g \in DOMAIN frameInfo : g # f => info[g] = frameInfo[g]
      /\ info[f] \in FrameEntry /\ info[f].request = frameInfo[f].request /\ info[f].processed = frameInfo[f].processed
      /\ info[f].required => frameInfo[f].required
      /\ info = Simple!NoMetadata(r) => ~info[f].required
  <2>1. CASE info = Simple!NoMetadata(r)
    <3>1. info = [frameInfo EXCEPT ![f].required = FALSE]
      BY <1>2, <2>1 DEF Simple!NoMetadata
    <3>2. info[f] = [frameInfo[f] EXCEPT !.required = FALSE]
      BY <1>2, <3>1
    <3>3. QED
      BY <1>2, <2>1, <3>1, <3>2 DEF FrameEntry
  <2>2. CASE info = frameInfo /\ info # Simple!NoMetadata(r)
    BY <1>2, <2>2
  <2>3. QED
    BY <2>1, <2>2
<1>4. Handled(r, S)
  <2>1. Settles(info[f], f)
    BY <1>3 DEF Settles
  <2>2. QED
    BY <1>1, <1>2, <1>3, <2>1, TryCompletes
<1>5. \A g \in DOMAIN frameInfo' : g \in DOMAIN frameInfo /\ frameInfo'[g] = info[g]
  <2>1. \/ frameInfo' = info
        \/ frameInfo' = Simple!Restrict(info, DOMAIN info \ {Simple!completeBuffers(r, S)[r].sequence})
    BY DEF Simple!tryCompleteRequest
  <2>2. QED
    BY <1>3, <2>1 DEF Simple!Restrict
<1>6. QED
  BY <1>2, <1>3, <1>4, <1>5
\* A request buffer leaves the capture device for good.
LEMMA CapturedInv ==
    ASSUME SimpleInv, video # <<>>, position \in {"loop", "video"}, ~Simple!Internal, NEW r, r = Head(video).request[1],
           video' = Tail(video), NEW info, info \in {frameInfo, Simple!NoMetadata(r)},
           Simple!tryCompleteRequest(r, Simple!completeBuffers(r, {Simple!CapturedStream}), info),
           UNCHANGED Bookkeeping, UNCHANGED <<conversionQueue, m2m, swIsp, faults>>
    PROVE  SimpleInv'
<1>1. /\ VideoSound /\ M2mSound /\ SwIspSound /\ ConversionSound /\ M2mPhases /\ SwIspPhases /\ VideoPhases /\ SimpleType
  BY DEF SimpleInv, SimplePhases
<1>2. /\ config' = config /\ active' = active /\ Captured' = Captured /\ Converted' = Converted /\ (Simple!Internal' <=> Simple!Internal)
      /\ Simple!Outs(config') = Simple!Outs(config)
  BY SameConfig DEF Bookkeeping
<1>3. /\ Captured = {Simple!CapturedStream} /\ Captured \subseteq AllStreams /\ Captured \cap Converted = {}
  BY StreamSets
<1>4. position \in SimpleStages /\ Simple!Stage = position
  BY DEF SimpleStages, Simple!Stage
<1>5. PICK b : b = Head(video)
  OBVIOUS
<1>6. /\ Tail(video) \in Seq(CaptureBuffers) /\ IsInjective(Tail(video)) /\ ToSet(Tail(video)) = ToSet(video) \ {b}
      /\ b \in ToSet(video) /\ Len(Tail(video)) = Len(video) - 1 /\ Len(video) \in Nat \ {0}
  BY <1>1, <1>5, PoppedQueue DEF VideoSound
<1>7. b \in RequestBuffers
  BY <1>1, <1>6 DEF VideoSound
<1>8. r \in Request /\ b = Simple!RequestBuffer(r) /\ \A q \in Request : Simple!RequestBuffer(q) = b <=> q = r
  BY <1>5, <1>7, RequestBufferOf
<1>9. Held(r, Simple!CapturedStream)
  BY <1>3, <1>6, <1>8 DEF Held
<1>10. Live(r)
  BY <1>3, <1>8, <1>9, Owing
<1>11. Handled(r, Captured) /\ (\A f \in DOMAIN frameInfo' : frameInfo'[f].required => frameInfo[f].required)
       /\ (\A f \in DOMAIN frameInfo' : frameInfo'[f].request = frameInfo[f].request)
  BY <1>3, <1>4, <1>8, <1>10, Completes
<1>12. /\ Inputs' = Inputs /\ ToConvert' = ToConvert /\ (\A s : OutputsOf(s)' = OutputsOf(s)) /\ StatsWork' = StatsWork
       /\ b \notin Inputs
  BY <1>1, <1>6 DEF Inputs, ToConvert, OutputsOf, StatsWork, VideoSound
<1>13. Simple!Stage' = Simple!Stage
  BY <1>1, <1>4, <1>11, SameStage
<1>14. PlacesSound'
  <2>1. ConversionSound'
    BY <1>1, <1>2, <1>12 DEF ConversionSound
  <2>2. VideoSound'
    <3>1. config'.raw => Len(video') <= Len(conversionQueue')
      <4>1. ConversionSound => Len(conversionQueue) \in Nat
        BY DEF ConversionSound
      <4>2. QED
        BY <1>1, <1>2, <1>6, <4>1 DEF VideoSound
    <3>2. QED
      BY <1>1, <1>2, <1>6, <1>12, <3>1 DEF VideoSound
  <2>3. M2mSound'
    BY <1>1, M2mKept
  <2>4. SwIspSound'
    BY <1>1, <1>13, SwIspKept DEF Coverage
  <2>5. M2mPhases' /\ SwIspPhases'
    BY <1>1, <1>2, <1>13 DEF M2mPhases, NoM2mWork, SwIspPhases, Simple!NoSwIsp
  <2>6. VideoPhases'
    BY <1>1, <1>2, <1>4, <1>13 DEF VideoPhases
  <2>7. QED
    BY <2>1, <2>2, <2>3, <2>4, <2>5, <2>6 DEF PlacesSound
<1>15. \A q \in Request, t \in AllStreams : Held(q, t)' <=> Held(q, t) /\ ~(q = r /\ t \in Captured)
  <2> SUFFICES ASSUME NEW q \in Request, NEW t \in AllStreams
               PROVE  Held(q, t)' <=> Held(q, t) /\ ~(q = r /\ t \in Captured)
    OBVIOUS
  <2>1. Simple!RequestBuffer(q) \in ToSet(video') \cup Inputs' <=> Simple!RequestBuffer(q) \in ToSet(video) \cup Inputs /\ q # r
    BY <1>6, <1>8, <1>12
  <2>2. t \in Captured => t \notin Converted
    BY <1>3
  <2>3. QED
    BY <1>2, <1>12, <2>1, <2>2 DEF Held
<1>16. \A f \in DOMAIN frameInfo' : Wanted(f)' /\ Coming(frameInfo[f].request, f) => Coming(frameInfo[f].request, f)'
  BY <1>11, <1>12 DEF Coming
<1>17. Captured \in SUBSET AllStreams
  BY <1>3
<1>18. QED
  BY <1>4, <1>8, <1>10, <1>11, <1>14, <1>15, <1>16, <1>17, HandledInv
\* Taking the first request that waits for its conversion.
LEMMA ConversionPopped ==
    ASSUME ConversionSound, conversionQueue # <<>>, conversionQueue' = Tail(conversionQueue), config' = config,
           NEW r, r = Head(conversionQueue).request
    PROVE  /\ r \in Request /\ r \in ToConvert /\ ToConvert' = ToConvert \ {r} /\ Head(conversionQueue).outputs = Simple!Outs(config)
           /\ \A s \in AllStreams : r \notin OutputsOf(s)
           /\ conversionQueue' \in Seq([request : Request, outputs : SUBSET AllStreams])
           /\ \A i, j \in DOMAIN conversionQueue' : conversionQueue'[i].request = conversionQueue'[j].request => i = j
           /\ \A i \in DOMAIN conversionQueue' : conversionQueue'[i].outputs = Simple!Outs(config')
           /\ Len(conversionQueue') = Len(conversionQueue) - 1 /\ Len(conversionQueue) \in Nat \ {0}
<1> DEFINE Q == [request : Request, outputs : SUBSET AllStreams]
<1>1. PICK q \in Seq(Q), n \in Nat \ {0} : q = conversionQueue /\ q # <<>> /\ n = Len(q)
  <2>1. conversionQueue \in Seq([request : Request, outputs : SUBSET AllStreams])
    BY DEF ConversionSound
  <2>2. Len(conversionQueue) \in Nat \ {0}
    BY <2>1
  <2>3. QED
    BY <2>1, <2>2
<1>a. \A x \in Q : x.request \in Request
  OBVIOUS
<1> HIDE DEF Q
<1>2. PICK t \in Seq(Q) : t = Tail(q) /\ Len(t) = n - 1 /\ DOMAIN t = 1 .. n - 1 /\ \A i \in 1 .. n - 1 : t[i] = q[i + 1]
  <2>1. Tail(q) \in Seq(Q) /\ Len(Tail(q)) = Len(q) - 1 /\ DOMAIN Tail(q) = 1 .. Len(q) - 1 /\ \A i \in 1 .. Len(q) - 1 : Tail(q)[i] = q[i + 1]
    BY <1>1
  <2>2. QED
    BY <1>1, <2>1
<1>3. Head(q) = q[1] /\ q[1] \in Q /\ DOMAIN q = 1 .. n /\ r = q[1].request
  BY <1>1
<1>4. /\ 1 \in 1 .. n /\ (\A i \in 1 .. n - 1 : i + 1 \in 1 .. n /\ i + 1 # 1) /\ (\A i \in 1 .. n : i # 1 => i - 1 \in 1 .. n - 1 /\ (i - 1) + 1 = i)
  BY <1>1
<1>5. \A i, j \in 1 .. n : q[i].request = q[j].request => i = j
  BY <1>1, <1>3 DEF ConversionSound
<1>6. \A i \in 1 .. n : q[i].outputs = Simple!Outs(config)
  BY <1>1, <1>3 DEF ConversionSound
<1>7. r \in Request /\ r \in ToConvert
  BY <1>1, <1>a, <1>3, <1>4 DEF ToConvert
<1>8. ToConvert' = ToConvert \ {r}
  <2>1. ToConvert' = {t[i].request : i \in 1 .. n - 1} /\ ToConvert = {q[i].request : i \in 1 .. n}
    BY <1>1, <1>2, <1>3 DEF ToConvert
  <2>2. \A i \in 1 .. n - 1 : t[i].request = q[i + 1].request /\ q[i + 1].request # r
    BY <1>2, <1>3, <1>4, <1>5
  <2>3. \A i \in 1 .. n : q[i].request # r => i # 1 /\ t[i - 1].request = q[i].request
    BY <1>2, <1>3, <1>4
  <2>4. ASSUME NEW x \in ToConvert' PROVE x \in ToConvert /\ x # r
    <3>1. PICK i \in 1 .. n - 1 : x = t[i].request
      BY <2>1
    <3>2. x = q[i + 1].request /\ x # r /\ i + 1 \in 1 .. n
      BY <1>4, <2>2, <3>1
    <3>3. QED
      BY <2>1, <3>2
  <2>5. ASSUME NEW x \in ToConvert, x # r PROVE x \in ToConvert'
    <3>1. PICK i \in 1 .. n : x = q[i].request
      BY <2>1
    <3>2. i - 1 \in 1 .. n - 1 /\ t[i - 1].request = x
      BY <1>4, <2>3, <2>5, <3>1
    <3>3. QED
      BY <2>1, <3>2
  <2>6. QED
    BY <2>4, <2>5
<1>9. \A i, j \in 1 .. n - 1 : t[i].request = t[j].request => i = j
  <2> SUFFICES ASSUME NEW i \in 1 .. n - 1, NEW j \in 1 .. n - 1, t[i].request = t[j].request PROVE i = j
    OBVIOUS
  <2>1. i + 1 = j + 1
    BY <1>2, <1>4, <1>5
  <2>2. QED
    BY <2>1
<1>10. \A i \in 1 .. n - 1 : t[i].outputs = Simple!Outs(config')
  BY <1>2, <1>4, <1>6
<1>11. \A s \in AllStreams : r \notin OutputsOf(s)
  BY <1>7 DEF ConversionSound
<1>12. conversionQueue' = t /\ Len(conversionQueue') = Len(conversionQueue) - 1 /\ Len(conversionQueue) \in Nat \ {0}
  BY <1>1, <1>2
<1>13. conversionQueue' \in Seq([request : Request, outputs : SUBSET AllStreams])
  BY <1>2, <1>12 DEF Q
<1>14. Head(conversionQueue).outputs = Simple!Outs(config)
  BY <1>1, <1>3, <1>4, <1>6
<1>15. QED
  BY <1>2, <1>7, <1>8, <1>9, <1>10, <1>11, <1>12, <1>13, <1>14

\* An internal buffer goes back to the capture device, or leaves it as it stops.
LEMMA Rotated ==
    ASSUME VideoSound, video # <<>>, video' = Append(Tail(video), Head(video))
    PROVE  video' \in Seq(CaptureBuffers) /\ IsInjective(video') /\ ToSet(video') = ToSet(video)
<1>1. PICK q \in Seq(CaptureBuffers) : q = video /\ IsInjective(q) /\ q # <<>>
  BY DEF VideoSound
<1>2. /\ Tail(q) \in Seq(CaptureBuffers) /\ IsInjective(Tail(q)) /\ ToSet(Tail(q)) = ToSet(q) \ {Head(q)}
      /\ Head(q) \in CaptureBuffers /\ Head(q) \in ToSet(q)
  BY <1>1, PoppedQueue
<1>3. PICK t \in Seq(CaptureBuffers), x \in CaptureBuffers : t = Tail(q) /\ x = Head(q)
  BY <1>2
<1>4. Append(t, x) \in Seq(CaptureBuffers) /\ IsInjective(Append(t, x)) /\ ToSet(Append(t, x)) = ToSet(t) \cup {x}
  <2>1. IsInjective(t) /\ x \notin ToSet(t)
    BY <1>2, <1>3
  <2>2. QED
    BY <2>1, PushedQueue
<1>5. QED
  BY <1>1, <1>2, <1>3, <1>4

LEMMA InternalVideo ==
    ASSUME SimpleInv, video # <<>>, Simple!Internal, position \in {"loop", "video"},
           \/ video' = Append(Tail(video), Head(video))
           \/ video' = Tail(video) /\ position = "video",
           UNCHANGED Bookkeeping, Simple!Stage' = Simple!Stage, UNCHANGED <<m2m, swIsp>>
    PROVE  VideoSound' /\ (\A q \in Request : Simple!RequestBuffer(q) \notin ToSet(video) \cup Inputs)
<1>1. VideoSound
  BY DEF SimpleInv
<1>2. Simple!Stage = position
  BY DEF Simple!Stage
<1>3. /\ config' = config /\ active' = active /\ (Simple!Internal' <=> Simple!Internal) /\ Inputs' = Inputs
  BY SameConfig DEF Bookkeeping, Inputs
<1>4. config'.raw = FALSE
  BY <1>3, StreamSets DEF Simple!Internal
<1>5. \A q \in Request : Simple!RequestBuffer(q) \notin InternalBuffers
  BY BuffersApart DEF RequestBuffers
<1>6. CASE video' = Append(Tail(video), Head(video))
  <2>1. video' \in Seq(CaptureBuffers) /\ IsInjective(video') /\ ToSet(video') = ToSet(video)
    BY <1>1, <1>6, Rotated
  <2>2. QED
    BY <1>1, <1>3, <1>4, <1>5, <2>1 DEF VideoSound
<1>7. CASE video' = Tail(video) /\ position = "video"
  <2>1. video' \in Seq(CaptureBuffers) /\ IsInjective(video') /\ ToSet(video') = ToSet(video) \ {Head(video)}
    BY <1>1, <1>7, PoppedQueue DEF VideoSound
  <2>2. QED
    BY <1>1, <1>2, <1>3, <1>4, <1>5, <1>7, <2>1 DEF VideoSound
<1>8. QED
  BY <1>6, <1>7
\* The oldest request is given up with a frame that failed.
LEMMA InternalFailedInv ==
    ASSUME SimpleInv, video # <<>>, Simple!Internal, NEW status,
           status \in {"Error", "Cancelled"}, status = "Error" => position = "loop", status = "Cancelled" => position = "video",
           Simple!InternalFailed(Head(video), status), UNCHANGED Bookkeeping, faults' = faults
    PROVE  SimpleInv'
<1>1. /\ VideoSound /\ M2mSound /\ SwIspSound /\ ConversionSound /\ M2mPhases /\ SwIspPhases /\ VideoPhases /\ SimpleType
  BY DEF SimpleInv, SimplePhases
<1>2. /\ config' = config /\ active' = active /\ Captured' = Captured /\ Converted' = Converted /\ (Simple!Internal' <=> Simple!Internal)
      /\ Simple!Outs(config') = Simple!Outs(config)
  BY SameConfig DEF Bookkeeping
<1>3. /\ Captured = {} /\ Converted = Simple!Outs(config) /\ Converted \subseteq AllStreams /\ "a" \in Converted
  BY StreamSets DEF Simple!Internal, AllStreams
<1>4. position \in {"loop", "video"} /\ position \in SimpleStages /\ Simple!Stage = position
  BY DEF SimpleStages, Simple!Stage
<1>5. /\ video' = Append(Tail(video), Head(video)) \/ (video' = Tail(video) /\ position = "video")
      /\ m2m' = m2m /\ swIsp' = swIsp
  BY DEF Simple!InternalFailed, Simple!convVars
<1>6. Inputs' = Inputs /\ (\A s : OutputsOf(s)' = OutputsOf(s)) /\ StatsWork' = StatsWork
  BY <1>5 DEF Inputs, OutputsOf, StatsWork
<1>7. active
  BY <1>1, <1>4 DEF VideoPhases
<1>8. ASSUME Simple!Stage' = Simple!Stage, ConversionSound', conversionQueue' = conversionQueue \/ config.conv # "none"
      PROVE  PlacesSound'
  <2>1. VideoSound'
    BY <1>4, <1>5, <1>8, InternalVideo
  <2>2. M2mSound' /\ SwIspSound'
    BY <1>1, <1>5, <1>8, M2mKept, SwIspKept DEF Coverage
  <2>3. M2mPhases' /\ SwIspPhases' /\ VideoPhases'
    BY <1>1, <1>2, <1>4, <1>5, <1>7, <1>8 DEF M2mPhases, NoM2mWork, SwIspPhases, Simple!NoSwIsp, VideoPhases
  <2>4. QED
    BY <1>8, <2>1, <2>2, <2>3 DEF PlacesSound
<1>9. CASE conversionQueue = <<>>
  <2>1. UNCHANGED RequestState /\ conversionQueue' = conversionQueue
    BY <1>9 DEF Simple!InternalFailed, RequestState
  <2>2. Simple!Stage' = Simple!Stage
    BY <2>1 DEF RequestState, Simple!Stage
  <2>3. ToConvert' = ToConvert
    BY <2>1 DEF ToConvert
  <2>4. ConversionSound'
    BY <1>1, <1>2, <1>6, <2>1, <2>3 DEF ConversionSound
  <2>5. PlacesSound'
    BY <1>8, <2>1, <2>2, <2>4
  <2>6. \A q \in Request, t \in AllStreams : Held(q, t)' <=> Held(q, t)
    BY <1>2, <1>3, <1>6, <2>3 DEF Held
  <2>7. \A f \in DOMAIN frameInfo : Coming(frameInfo[f].request, f) => Coming(frameInfo[f].request, f)'
    BY <1>6, <2>1, <2>3 DEF Coming, RequestState
  <2>8. faults' \in Nat
    BY <1>1 DEF SimpleType
  <2>9. QED
    BY <1>4, <2>1, <2>5, <2>6, <2>7, <2>8, MovedInv
<1>10. CASE conversionQueue # <<>>
  <2>1. PICK r : r = Head(conversionQueue).request
    OBVIOUS
  <2>2. conversionQueue' = Tail(conversionQueue)
    BY <1>10 DEF Simple!InternalFailed
  <2>3. /\ r \in Request /\ r \in ToConvert /\ ToConvert' = ToConvert \ {r} /\ Head(conversionQueue).outputs = Converted
        /\ \A s \in AllStreams : r \notin OutputsOf(s)
        /\ conversionQueue' \in Seq([request : Request, outputs : SUBSET AllStreams])
        /\ \A i, j \in DOMAIN conversionQueue' : conversionQueue'[i].request = conversionQueue'[j].request => i = j
        /\ \A i \in DOMAIN conversionQueue' : conversionQueue'[i].outputs = Simple!Outs(config')
    BY <1>1, <1>2, <1>3, <1>10, <2>1, <2>2, ConversionPopped
  <2>4. ConversionSound'
    BY <1>1, <1>6, <2>3 DEF ConversionSound
  <2>5. Live(r)
    <3>1. Held(r, "a") /\ "a" \in AllStreams
      BY <1>3, <2>3 DEF Held
    <3>2. QED
      BY <2>3, <3>1, Owing
  <2>6. /\ Handled(r, Converted) /\ (\A f \in DOMAIN frameInfo' : frameInfo'[f].required => frameInfo[f].required)
        /\ (\A f \in DOMAIN frameInfo' : frameInfo'[f].request = frameInfo[f].request)
        /\ (\A f \in DOMAIN frameInfo' : f = req[r].sequence => ~frameInfo'[f].required)
    <3>1. Simple!tryCompleteRequest(r, Simple!completeBuffers(r, Converted), Simple!NoMetadata(r))
      BY <1>10, <2>1, <2>3 DEF Simple!InternalFailed
    <3>2. Converted \in SUBSET AllStreams
      BY <1>3
    <3>3. QED
      BY <1>4, <2>3, <2>5, <3>1, <3>2, Completes
  <2>7. Simple!Stage' = Simple!Stage
    BY <1>1, <1>4, <2>6, SameStage
  <2>8. PlacesSound'
    BY <1>8, <2>4, <2>7 DEF Simple!Internal, Simple!useConversion
  <2>9. \A q \in Request, t \in AllStreams : Held(q, t)' <=> Held(q, t) /\ ~(q = r /\ t \in Converted)
    BY <1>2, <1>3, <1>6, <2>3 DEF Held
  <2>10. \A f \in DOMAIN frameInfo' : Wanted(f)' /\ Coming(frameInfo[f].request, f) => Coming(frameInfo[f].request, f)'
    <3> SUFFICES ASSUME NEW f \in DOMAIN frameInfo', Wanted(f)', Coming(frameInfo[f].request, f)
                 PROVE  Coming(frameInfo[f].request, f)'
      OBVIOUS
    <3>1. f # req[r].sequence
      BY <2>6 DEF Wanted
    <3>2. f \in DOMAIN frameInfo /\ frameInfo[f].request # r
      BY <2>6, <3>1 DEF Handled, StillOwes, IsDone, SimpleInv, Booked, SimpleFrames
    <3>3. QED
      BY <1>6, <2>3, <2>6, <3>2 DEF Coming
  <2>11. Converted \in SUBSET AllStreams
    BY <1>3
  <2>12. QED
    BY <1>4, <2>3, <2>5, <2>6, <2>8, <2>9, <2>10, <2>11, HandledInv
<1>11. QED
  BY <1>9, <1>10
\* Metadata on its way stays on its way.
LEMMA DebayerPushed ==
    ASSUME SwIspSound, NEW b \in CaptureBuffers, NEW r \in Request, NEW g \in Nat,
           swIsp'.debayer = Append(swIsp.debayer, [frame |-> g, in |-> b, out |-> r]),
           swIsp'.events = swIsp.events, swIsp'.ipa = swIsp.ipa, swIsp'.metadata = swIsp.metadata
    PROVE  (\A f \in StatsWork : f \in StatsWork') /\ g \in StatsWork'
<1>1. PICK d \in DebayerWork, q \in Seq(DebayerWork), n \in Nat :
        q = swIsp.debayer /\ n = Len(q) /\ d.frame = g /\ swIsp'.debayer = Append(q, d)
  <2>1. [frame |-> g, in |-> b, out |-> r] \in DebayerWork
    BY DEF DebayerWork
  <2>2. PICK d \in DebayerWork : d = [frame |-> g, in |-> b, out |-> r]
    BY <2>1
  <2>3. d.frame = g
    BY <2>2
  <2>4. PICK q \in Seq(DebayerWork) : q = swIsp.debayer
    BY SwIspFields
  <2>5. Len(q) \in Nat
    OBVIOUS
  <2>6. QED
    BY <2>2, <2>3, <2>4, <2>5
<1>2. PICK t : t = Append(q, d) /\ DOMAIN t = 1 .. n + 1 /\ t[n + 1] = d /\ DOMAIN q = 1 .. n /\ \A i \in 1 .. n : t[i] = q[i]
  <2>1. n = Len(q)
    BY <1>1
  <2>2. /\ DOMAIN q = 1 .. Len(q) /\ DOMAIN Append(q, d) = 1 .. Len(q) + 1 /\ Append(q, d)[Len(q) + 1] = d
        /\ \A i \in 1 .. Len(q) : Append(q, d)[i] = q[i]
    BY PushedIndexing
  <2>3. QED
    BY <2>1, <2>2
<1>3. n + 1 \in DOMAIN t /\ \A i \in DOMAIN q : i \in DOMAIN t /\ t[i] = q[i]
  BY <1>2
<1>4. g \in {swIsp'.debayer[i].frame : i \in DOMAIN swIsp'.debayer}
  BY <1>1, <1>2, <1>3
<1>5. \A f \in {swIsp.debayer[i].frame : i \in DOMAIN swIsp.debayer} : f \in {swIsp'.debayer[i].frame : i \in DOMAIN swIsp'.debayer}
  BY <1>1, <1>2, <1>3
<1>6. QED
  BY <1>4, <1>5 DEF StatsWork
\* A frame goes to the converter for the oldest request, or back to the capture.
LEMMA ConvertInv ==
    ASSUME SimpleInv, video # <<>>, Simple!useConversion, position = "loop", active,
           Simple!Convert(Head(video)), UNCHANGED Bookkeeping, faults' = faults
    PROVE  SimpleInv'
<1>1. /\ VideoSound /\ M2mSound /\ SwIspSound /\ ConversionSound /\ M2mPhases /\ SwIspPhases /\ VideoPhases /\ SimpleType
      /\ MetadataComes
  BY DEF SimpleInv, SimplePhases
<1>2. /\ config' = config /\ active' = active /\ Captured' = Captured /\ Converted' = Converted /\ (Simple!Internal' <=> Simple!Internal)
      /\ Simple!Outs(config') = Simple!Outs(config)
  BY SameConfig DEF Bookkeeping
<1>3. /\ Converted = Simple!Outs(config) /\ Converted \subseteq AllStreams /\ config.conv \in {"m2m", "soft"}
      /\ (config.conv = "m2m" => Converted = {"a", "b"}) /\ (config.conv = "soft" => Converted = {"a"})
  BY StreamSets DEF AllStreams
<1>4. position \in SimpleStages /\ Simple!Stage = "loop"
  BY DEF SimpleStages, Simple!Stage
<1>5. UNCHANGED RequestState /\ Simple!Stage' = Simple!Stage /\ faults' \in Nat
  BY <1>1 DEF Simple!Convert, RequestState, Simple!Stage, SimpleType
<1>6. CASE conversionQueue = <<>>
  <2>1. ~config.raw
    <3>1. Len(video) # 0 /\ Len(video) \in Nat
      BY <1>1 DEF VideoSound
    <3>2. QED
      BY <1>1, <1>6, <3>1 DEF VideoSound
  <2>2. video' = Append(Tail(video), Head(video)) /\ m2m' = m2m /\ swIsp' = swIsp /\ conversionQueue' = conversionQueue
    BY <1>6, <2>1 DEF Simple!Convert, Simple!convVars
  <2>3. Simple!Internal
    BY <2>1 DEF Simple!Internal
  <2>4. VideoSound' /\ (\A q \in Request : Simple!RequestBuffer(q) \notin ToSet(video) \cup Inputs)
    BY <1>5, <2>2, <2>3, InternalVideo
  <2>5. Inputs' = Inputs /\ (\A s : OutputsOf(s)' = OutputsOf(s)) /\ StatsWork' = StatsWork /\ ToConvert' = ToConvert
    BY <2>2 DEF Inputs, OutputsOf, StatsWork, ToConvert
  <2>6. PlacesSound'
    <3>1. ConversionSound'
      BY <1>1, <1>2, <2>2, <2>5 DEF ConversionSound
    <3>2. M2mSound' /\ SwIspSound'
      BY <1>1, <1>5, <2>2, M2mKept, SwIspKept DEF Coverage
    <3>3. M2mPhases' /\ SwIspPhases' /\ VideoPhases'
      BY <1>1, <1>2, <1>4, <1>5, <2>2 DEF M2mPhases, NoM2mWork, SwIspPhases, Simple!NoSwIsp, VideoPhases
    <3>4. QED
      BY <2>4, <3>1, <3>2, <3>3 DEF PlacesSound
  <2>7. \A q \in Request, t \in AllStreams : Held(q, t)' <=> Held(q, t)
    <3>1. Captured = {}
      BY <2>3, StreamSets
    <3>2. QED
      BY <1>2, <2>5, <3>1 DEF Held
  <2>8. \A f \in DOMAIN frameInfo : Coming(frameInfo[f].request, f) => Coming(frameInfo[f].request, f)'
    BY <1>5, <2>5 DEF Coming, RequestState
  <2>9. QED
    BY <1>4, <1>5, <2>6, <2>7, <2>8, MovedInv
<1>7. CASE conversionQueue # <<>>
  <2>1. PICK r, b : r = Head(conversionQueue).request /\ b = Head(video)
    OBVIOUS
  <2>2. conversionQueue' = Tail(conversionQueue) /\ video' = Tail(video)
    BY <1>7 DEF Simple!Convert
  <2>3. /\ r \in Request /\ r \in ToConvert /\ ToConvert' = ToConvert \ {r} /\ Head(conversionQueue).outputs = Simple!Outs(config)
        /\ \A s \in AllStreams : r \notin OutputsOf(s)
        /\ conversionQueue' \in Seq([request : Request, outputs : SUBSET AllStreams])
        /\ \A i, j \in DOMAIN conversionQueue' : conversionQueue'[i].request = conversionQueue'[j].request => i = j
        /\ \A i \in DOMAIN conversionQueue' : conversionQueue'[i].outputs = Simple!Outs(config')
        /\ Len(conversionQueue') = Len(conversionQueue) - 1 /\ Len(conversionQueue) \in Nat \ {0}
    BY <1>1, <1>2, <1>7, <2>1, <2>2, ConversionPopped
  <2>4. /\ Tail(video) \in Seq(CaptureBuffers) /\ IsInjective(Tail(video)) /\ ToSet(Tail(video)) = ToSet(video) \ {b}
        /\ b \in ToSet(video) /\ Len(Tail(video)) = Len(video) - 1 /\ Len(video) \in Nat \ {0} /\ b \in CaptureBuffers
    BY <1>1, <2>1, PoppedQueue DEF VideoSound
  <2>5. b \notin Inputs
    BY <1>1, <2>4 DEF VideoSound
  <2>6. /\ m2m' = IF config.conv = "m2m" THEN Simple!m2mQueue(b, r) ELSE m2m
        /\ swIsp' = IF config.conv = "soft" THEN Simple!swIspQueue(b, r) ELSE swIsp
    BY <1>7, <2>1, <2>3 DEF Simple!Convert, Simple!Refused
  <2>7. req[r].sequence \in Nat
    BY <1>1, <2>3 DEF SimpleType, SimpleRequest
  <2>8. /\ M2mSound' /\ SwIspSound' /\ Inputs' = Inputs \cup {b}
        /\ \A s \in AllStreams : OutputsOf(s)' = OutputsOf(s) \cup (IF s \in Converted THEN {r} ELSE {})
        /\ M2mPhases' /\ SwIspPhases'
        /\ \A f \in StatsWork : f \in StatsWork'
        /\ config.conv = "soft" => req[r].sequence \in StatsWork'
    <3>1. CASE config.conv = "m2m"
      <4>1. m2m' = Simple!m2mQueue(b, r) /\ swIsp' = swIsp
        BY <2>6, <3>1
      <4>2. b \notin ToSet(m2m.in["a"]) \cup ToSet(m2m.in["b"]) /\ r \notin ToSet(m2m.out["a"]) \cup ToSet(m2m.out["b"])
        BY <2>3, <2>5 DEF Inputs, OutputsOf, AllStreams
      <4>3. /\ M2mSound'
            /\ \A s \in {"a", "b"} : ToSet(m2m'.in[s]) = ToSet(m2m.in[s]) \cup {b} /\ ToSet(m2m'.out[s]) = ToSet(m2m.out[s]) \cup {r}
        BY <1>1, <2>3, <2>4, <4>1, <4>2, M2mQueueMove
      <4>4. SwIspSound'
        BY <1>1, <1>5, <4>1, SwIspKept DEF Coverage
      <4>5. Inputs' = Inputs \cup {b}
        BY <4>1, <4>3 DEF Inputs
      <4>6. \A s \in AllStreams : OutputsOf(s)' = OutputsOf(s) \cup (IF s \in Converted THEN {r} ELSE {})
        BY <1>3, <3>1, <4>1, <4>3 DEF OutputsOf
      <4>7. M2mPhases' /\ SwIspPhases'
        BY <1>1, <1>2, <1>4, <1>5, <3>1, <4>1 DEF M2mPhases, SwIspPhases
      <4>8. StatsWork' = StatsWork
        BY <4>1 DEF StatsWork
      <4>9. QED
        BY <3>1, <4>3, <4>4, <4>5, <4>6, <4>7, <4>8
    <3>2. CASE config.conv = "soft"
      <4>1. swIsp' = Simple!swIspQueue(b, r) /\ m2m' = m2m
        BY <2>6, <3>2
      <4>2. b \notin ToSet(swIsp.in) /\ r \notin ToSet(swIsp.out)
        BY <2>3, <2>5 DEF Inputs, OutputsOf, AllStreams
      <4>3. /\ SwIspSound' /\ ToSet(swIsp'.in) = ToSet(swIsp.in) \cup {b} /\ ToSet(swIsp'.out) = ToSet(swIsp.out) \cup {r}
            /\ swIsp'.debayer = Append(swIsp.debayer, [frame |-> req[r].sequence, in |-> b, out |-> r])
            /\ swIsp'.events = swIsp.events /\ swIsp'.ipa = swIsp.ipa /\ swIsp'.metadata = swIsp.metadata
        BY <1>1, <1>5, <2>3, <2>4, <2>7, <4>1, <4>2, SwIspQueueMove DEF Coverage
      <4>4. M2mSound'
        BY <1>1, <4>1, M2mKept
      <4>5. Inputs' = Inputs \cup {b}
        BY <4>1, <4>3 DEF Inputs
      <4>6. \A s \in AllStreams : OutputsOf(s)' = OutputsOf(s) \cup (IF s \in Converted THEN {r} ELSE {})
        BY <1>3, <3>2, <4>1, <4>3 DEF OutputsOf
      <4>7. M2mPhases' /\ SwIspPhases'
        BY <1>1, <1>2, <1>4, <1>5, <3>2, <4>1 DEF M2mPhases, SwIspPhases, NoM2mWork
      <4>8. (\A f \in StatsWork : f \in StatsWork') /\ req[r].sequence \in StatsWork'
        BY <1>1, <2>3, <2>4, <2>7, <4>3, DebayerPushed
      <4>9. QED
        BY <4>3, <4>4, <4>5, <4>6, <4>7, <4>8
    <3>3. QED
      BY <1>3, <3>1, <3>2
  <2>9. ConversionSound'
    BY <1>1, <2>3, <2>8 DEF ConversionSound
  <2>10. VideoSound'
    <3>1. config'.raw => Len(video') <= Len(conversionQueue')
      BY <1>1, <1>2, <2>2, <2>3, <2>4 DEF VideoSound
    <3>2. QED
      BY <1>1, <1>2, <1>5, <2>2, <2>4, <2>5, <2>8, <3>1 DEF VideoSound
  <2>11. VideoPhases'
    BY <1>1, <1>2, <1>3, <1>4, <1>5 DEF VideoPhases
  <2>12. PlacesSound'
    BY <2>8, <2>9, <2>10, <2>11 DEF PlacesSound
  <2>13. \A q \in Request, t \in AllStreams : Held(q, t)' <=> Held(q, t)
    <3> SUFFICES ASSUME NEW q \in Request, NEW t \in AllStreams PROVE Held(q, t)' <=> Held(q, t)
      OBVIOUS
    <3>1. ToSet(video') \cup Inputs' = ToSet(video) \cup Inputs
      BY <2>2, <2>4, <2>8
    <3>2. t \in Converted => ToConvert' \cup OutputsOf(t)' = ToConvert \cup OutputsOf(t)
      BY <2>3, <2>8
    <3>3. QED
      BY <1>2, <3>1, <3>2 DEF Held
  <2>14. \A f \in DOMAIN frameInfo : Wanted(f) /\ Coming(frameInfo[f].request, f) => Coming(frameInfo[f].request, f)'
    <3> SUFFICES ASSUME NEW f \in DOMAIN frameInfo, Wanted(f), Coming(frameInfo[f].request, f)
                 PROVE  Coming(frameInfo[f].request, f)'
      OBVIOUS
    <3>1. config.conv = "soft" /\ frameInfo' = frameInfo
      BY <1>1, <1>5 DEF MetadataComes, Wanted, RequestState
    <3>2. frameInfo[f].request = r => f = req[r].sequence
      BY DEF SimpleInv, Booked, SimpleFrames
    <3>3. CASE frameInfo[f].request = r
      BY <2>8, <3>1, <3>2, <3>3 DEF Coming
    <3>4. CASE frameInfo[f].request # r
      BY <2>3, <2>8, <3>1, <3>4 DEF Coming
    <3>5. QED
      BY <3>3, <3>4
  <2>15. QED
    BY <1>4, <1>5, <2>12, <2>13, <2>14, MovedInv
<1>8. QED
  BY <1>6, <1>7
\* Work of the memory-to-memory converter: it is in use.
LEMMA M2mInUse ==
    ASSUME SimpleInv, NEW s \in {"a", "b"}, m2m.out[s] # <<>> \/ m2m.in[s] # <<>>
    PROVE  /\ config.conv = "m2m" /\ active /\ swIsp = Simple!NoSwIsp /\ Simple!Stage \notin {"video", "clear", "waiting"}
           /\ ToSet(swIsp.in) = {} /\ ToSet(swIsp.out) = {}
<1>1. M2mPhases /\ SwIspPhases /\ StagesSound
  BY DEF SimpleInv, SimplePhases
<1>2. config.conv = "m2m" /\ active /\ Simple!Stage \notin {"video", "clear"}
  BY <1>1 DEF M2mPhases, NoM2mWork
<1>3. swIsp = Simple!NoSwIsp /\ Simple!Stage # "waiting"
  BY <1>1, <1>2 DEF SwIspPhases, StagesSound
<1>4. QED
  BY <1>2, <1>3, ToSetOfEmpty DEF Simple!NoSwIsp

LEMMA M2mOutputInv ==
    ASSUME SimpleInv, NEW s \in {"a", "b"}, position \in SimpleStages, Simple!M2mOutput(s)
    PROVE  SimpleInv'
<1>1. /\ VideoSound /\ M2mSound /\ SwIspSound /\ ConversionSound /\ M2mPhases /\ SwIspPhases /\ VideoPhases /\ SimpleType
  BY DEF SimpleInv, SimplePhases
<1>2. /\ UNCHANGED Bookkeeping /\ UNCHANGED <<conversionQueue, swIsp, faults, video>>
      /\ m2m.out[s] # <<>> /\ m2m' = [m2m EXCEPT !.out[s] = Tail(@)]
  BY DEF Simple!M2mOutput, Simple!conversionOutputDone, Bookkeeping, Simple!queueVars
<1>3. /\ config' = config /\ active' = active /\ Captured' = Captured /\ Converted' = Converted /\ (Simple!Internal' <=> Simple!Internal)
      /\ Simple!Outs(config') = Simple!Outs(config)
  BY <1>2, SameConfig DEF Bookkeeping
<1>4. /\ config.conv = "m2m" /\ active /\ swIsp = Simple!NoSwIsp /\ Simple!Stage \notin {"video", "clear", "waiting"}
      /\ ToSet(swIsp.out) = {}
  BY <1>2, M2mInUse
<1>5. Converted = {"a", "b"} /\ Captured \cap Converted = {} /\ s \in AllStreams /\ {s} \in SUBSET AllStreams
  BY <1>4, StreamSets DEF AllStreams
<1>6. PICK r : r = Head(m2m.out[s])
  OBVIOUS
<1>7. /\ M2mSound' /\ m2m'.in = m2m.in
      /\ ToSet(m2m'.out[s]) = ToSet(m2m.out[s]) \ {r}
      /\ \A t \in {"a", "b"} : t # s => m2m'.out[t] = m2m.out[t]
      /\ r \in ToSet(m2m.out[s]) /\ r \in Request
  BY <1>1, <1>2, <1>6, M2mOutputMove
<1>8. /\ Inputs' = Inputs /\ ToConvert' = ToConvert /\ StatsWork' = StatsWork
  BY <1>2, <1>7 DEF Inputs, ToConvert, StatsWork
<1>9. r \in OutputsOf(s) /\ \A t \in AllStreams : OutputsOf(t)' = OutputsOf(t) \ (IF t = s THEN {r} ELSE {})
  BY <1>2, <1>4, <1>7 DEF OutputsOf
<1>10. r \notin ToConvert
  BY <1>1, <1>5, <1>9 DEF ConversionSound
<1>11. Live(r)
  <2>1. Held(r, s)
    BY <1>5, <1>9 DEF Held
  <2>2. QED
    BY <1>5, <1>7, <2>1, Owing
<1>12. /\ Handled(r, {s}) /\ (\A f \in DOMAIN frameInfo' : frameInfo'[f].required => frameInfo[f].required)
       /\ (\A f \in DOMAIN frameInfo' : frameInfo'[f].request = frameInfo[f].request)
  <2>1. Simple!tryCompleteRequest(r, Simple!completeBuffers(r, {s}), frameInfo)
    BY <1>6 DEF Simple!M2mOutput, Simple!conversionOutputDone
  <2>2. QED
    BY <1>4, <1>5, <1>7, <1>11, <2>1, Completes
<1>13. Simple!Stage' = Simple!Stage
  BY <1>1, <1>12, SameStage
<1>14. PlacesSound'
  <2>1. ConversionSound'
    BY <1>1, <1>2, <1>3, <1>8, <1>9 DEF ConversionSound
  <2>2. VideoSound'
    BY <1>1, <1>2, <1>3, <1>8, <1>13 DEF VideoSound
  <2>3. SwIspSound'
    BY <1>1, <1>2, <1>13, SwIspKept DEF Coverage
  <2>4. M2mPhases' /\ SwIspPhases' /\ VideoPhases'
    BY <1>1, <1>2, <1>3, <1>4, <1>13 DEF M2mPhases, SwIspPhases, Simple!NoSwIsp, VideoPhases
  <2>5. QED
    BY <1>7, <2>1, <2>2, <2>3, <2>4 DEF PlacesSound
<1>15. \A q \in Request, t \in AllStreams : Held(q, t)' <=> Held(q, t) /\ ~(q = r /\ t \in {s})
  <2> SUFFICES ASSUME NEW q \in Request, NEW t \in AllStreams
               PROVE  Held(q, t)' <=> Held(q, t) /\ ~(q = r /\ t \in {s})
    OBVIOUS
  <2>1. ToSet(video') \cup Inputs' = ToSet(video) \cup Inputs
    BY <1>2, <1>8
  <2>2. t \in {s} => t \notin Captured
    BY <1>5
  <2>3. QED
    BY <1>3, <1>8, <1>9, <1>10, <2>1, <2>2 DEF Held
<1>16. \A f \in DOMAIN frameInfo' : Wanted(f)' /\ Coming(frameInfo[f].request, f) => Coming(frameInfo[f].request, f)'
  BY <1>8, <1>12 DEF Coming
<1>17. QED
  BY <1>2, <1>4, <1>5, <1>7, <1>11, <1>12, <1>14, <1>15, <1>16, HandledInv
\* The pipeline thread returns to the same stage.
LEMMA TryStage ==
    ASSUME position \in SimpleStages, NEW r, NEW q, NEW info, Simple!tryCompleteRequest(r, q, info)
    PROVE  Simple!Stage' = Simple!Stage
<1>1. (position' = position /\ ret' = ret) \/ (position' = "complete" /\ ret' = position)
  BY DEF Simple!tryCompleteRequest
<1>2. QED
  BY <1>1 DEF Simple!Stage, SimpleStages

LEMMA InputStage ==
    ASSUME position \in SimpleStages, NEW b, Simple!conversionInputDone(b)
    PROVE  Simple!Stage' = Simple!Stage
<1>1. CASE config.raw
  BY <1>1, TryStage DEF Simple!conversionInputDone
<1>2. CASE ~config.raw
  BY <1>2 DEF Simple!conversionInputDone, Simple!Stage
<1>3. QED
  BY <1>1, <1>2

\* The converter returns an input: to its request, or to the capture device.
LEMMA InputDoneInv ==
    ASSUME SimpleInv, position \in SimpleStages, Simple!Stage \notin {"video", "clear", "waiting"}, active,
           NEW b \in Inputs, Inputs' = Inputs \ {b}, Simple!conversionInputDone(b),
           UNCHANGED Bookkeeping, UNCHANGED <<conversionQueue, faults>>,
           \A s \in AllStreams : OutputsOf(s)' = OutputsOf(s), \A f \in StatsWork : f \in StatsWork',
           M2mSound', SwIspSound', M2mPhases', SwIspPhases'
    PROVE  SimpleInv'
<1>1. /\ VideoSound /\ ConversionSound /\ VideoPhases /\ SimpleType
  BY DEF SimpleInv, SimplePhases
<1>2. /\ config' = config /\ active' = active /\ Captured' = Captured /\ Converted' = Converted /\ (Simple!Internal' <=> Simple!Internal)
      /\ Simple!Outs(config') = Simple!Outs(config)
  BY SameConfig DEF Bookkeeping
<1>3. Simple!Stage' = Simple!Stage /\ ToConvert' = ToConvert
  BY InputStage DEF ToConvert
<1>4. ConversionSound'
  BY <1>1, <1>2, <1>3 DEF ConversionSound
<1>5. VideoPhases'
  BY <1>1, <1>2, <1>3 DEF VideoPhases
<1>6. b \notin ToSet(video) /\ b \in (IF Simple!Internal THEN InternalBuffers ELSE RequestBuffers)
  BY <1>1 DEF VideoSound
<1>7. CASE config.raw
  <2>1. ~Simple!Internal /\ Captured = {"raw"} /\ Captured \cap Converted = {} /\ Captured \in SUBSET AllStreams
    BY <1>7, StreamSets
  <2>2. PICK r \in Request : r = b.request[1] /\ b = Simple!RequestBuffer(r) /\ \A q \in Request : Simple!RequestBuffer(q) = b => q = r
    BY <1>6, <2>1, RequestBufferOf
  <2>3. Simple!tryCompleteRequest(r, Simple!completeBuffers(r, Captured), frameInfo) /\ video' = video
    BY <1>7, <2>1, <2>2 DEF Simple!conversionInputDone
  <2>4. Live(r)
    <3>1. Held(r, "raw") /\ "raw" \in AllStreams
      BY <2>1, <2>2 DEF Held, AllStreams
    <3>2. QED
      BY <3>1, Owing
  <2>5. /\ Handled(r, Captured) /\ (\A f \in DOMAIN frameInfo' : frameInfo'[f].required => frameInfo[f].required)
        /\ (\A f \in DOMAIN frameInfo' : frameInfo'[f].request = frameInfo[f].request)
    BY <2>1, <2>3, <2>4, Completes
  <2>6. VideoSound'
    BY <1>1, <1>2, <1>3, <2>1, <2>3 DEF VideoSound
  <2>7. PlacesSound'
    BY <1>4, <1>5, <2>6 DEF PlacesSound
  <2>8. \A q \in Request, t \in AllStreams : Held(q, t)' <=> Held(q, t) /\ ~(q = r /\ t \in Captured)
    <3> SUFFICES ASSUME NEW q \in Request, NEW t \in AllStreams
                 PROVE  Held(q, t)' <=> Held(q, t) /\ ~(q = r /\ t \in Captured)
      OBVIOUS
    <3>1. Simple!RequestBuffer(q) \in ToSet(video') \cup Inputs' <=> Simple!RequestBuffer(q) \in ToSet(video) \cup Inputs /\ q # r
      BY <1>6, <2>2, <2>3
    <3>2. t \in Captured => t \notin Converted
      BY <2>1
    <3>3. QED
      BY <1>2, <1>3, <3>1, <3>2 DEF Held
  <2>9. \A f \in DOMAIN frameInfo' : Wanted(f)' /\ Coming(frameInfo[f].request, f) => Coming(frameInfo[f].request, f)'
    BY <1>3, <2>5 DEF Coming
  <2>10. QED
    BY <2>1, <2>4, <2>5, <2>7, <2>8, <2>9, HandledInv
<1>8. CASE ~config.raw
  <2>1. video' = Append(video, b) /\ UNCHANGED RequestState
    BY <1>8 DEF Simple!conversionInputDone, RequestState
  <2>2. Simple!Internal /\ Captured = {}
    <3>1. config.conv # "none"
      <4>1. Inputs = {} \/ config.conv # "none"
        BY ToSetOfEmpty DEF SimpleInv, SimplePhases, M2mPhases, SwIspPhases, NoM2mWork, Inputs, Simple!NoSwIsp
      <4>2. QED
        BY <4>1
    <3>2. QED
      BY <1>8, <3>1, StreamSets DEF Simple!Internal
  <2>3. b \in CaptureBuffers /\ video \in Seq(CaptureBuffers) /\ IsInjective(video)
    BY <1>1, <1>6, <2>2 DEF VideoSound, CaptureBuffers
  <2>4. video' \in Seq(CaptureBuffers) /\ IsInjective(video') /\ ToSet(video') = ToSet(video) \cup {b}
    BY <1>6, <2>1, <2>3, PushedQueue
  <2>5. VideoSound'
    BY <1>1, <1>2, <1>3, <1>8, <2>2, <2>4 DEF VideoSound
  <2>6. PlacesSound'
    BY <1>4, <1>5, <2>5 DEF PlacesSound
  <2>7. \A q \in Request, t \in AllStreams : Held(q, t)' <=> Held(q, t)
    BY <1>2, <1>3, <2>2 DEF Held
  <2>8. \A f \in DOMAIN frameInfo : Wanted(f) /\ Coming(frameInfo[f].request, f) => Coming(frameInfo[f].request, f)'
    BY <1>3, <2>1 DEF Coming, RequestState
  <2>9. faults' \in Nat
    BY <1>1 DEF SimpleType
  <2>10. QED
    BY <2>1, <2>6, <2>7, <2>8, <2>9, MovedInv
<1>9. QED
  BY <1>7, <1>8

LEMMA M2mInputInv ==
    ASSUME SimpleInv, NEW s \in {"a", "b"}, position \in SimpleStages, Simple!M2mInput(s)
    PROVE  SimpleInv'
<1>1. /\ VideoSound /\ M2mSound /\ SwIspSound /\ ConversionSound /\ M2mPhases /\ SwIspPhases /\ VideoPhases /\ SimpleType
  BY DEF SimpleInv, SimplePhases
<1>2. PICK b : b = Head(m2m.in[s])
  OBVIOUS
<1>a. b \in DOMAIN m2m.queue
  <2>1. m2m.in[s] \in Seq(CaptureBuffers) /\ m2m.in[s] # <<>>
    BY <1>1 DEF M2mSound, Simple!M2mInput
  <2>2. b \in ToSet(m2m.in[s])
    BY <1>2, <2>1, HeadInToSet
  <2>3. QED
    BY <1>1, <2>2 DEF M2mSound
<1>3. /\ UNCHANGED Bookkeeping /\ UNCHANGED <<conversionQueue, swIsp, faults>> /\ m2m.in[s] # <<>>
      /\ IF m2m.queue[b] = 1
         THEN m2m' = [m2m EXCEPT !.in[s] = Tail(@), !.queue = Simple!Restrict(@, DOMAIN @ \ {b})] /\ Simple!conversionInputDone(b)
         ELSE m2m' = [m2m EXCEPT !.in[s] = Tail(@), !.queue[b] = @ - 1] /\ UNCHANGED RequestState /\ video' = video
  BY <1>2, <1>a DEF Simple!M2mInput, Bookkeeping, Simple!queueVars, RequestState
<1>4. /\ config' = config /\ active' = active /\ Captured' = Captured /\ Converted' = Converted /\ (Simple!Internal' <=> Simple!Internal)
      /\ Simple!Outs(config') = Simple!Outs(config)
  BY <1>3, SameConfig DEF Bookkeeping
<1>5. /\ config.conv = "m2m" /\ active /\ swIsp = Simple!NoSwIsp /\ Simple!Stage \notin {"video", "clear", "waiting"}
      /\ ToSet(swIsp.in) = {}
  BY <1>3, M2mInUse
<1>6. /\ M2mSound' /\ m2m'.out = m2m.out /\ b \in ToSet(m2m.in["a"]) \cup ToSet(m2m.in["b"]) /\ b \in CaptureBuffers
      /\ ToSet(m2m'.in["a"]) \cup ToSet(m2m'.in["b"]) =
                  (ToSet(m2m.in["a"]) \cup ToSet(m2m.in["b"])) \ (IF m2m.queue[b] = 1 THEN {b} ELSE {})
  BY <1>1, <1>2, <1>3, M2mInputMove
<1>7. Simple!Stage' = Simple!Stage
  <2>1. CASE m2m.queue[b] = 1
    BY <1>3, <2>1, InputStage
  <2>2. CASE m2m.queue[b] # 1
    BY <1>3, <2>2 DEF RequestState, Simple!Stage
  <2>3. QED
    BY <2>1, <2>2
<1>8. /\ (\A t : OutputsOf(t)' = OutputsOf(t)) /\ ToConvert' = ToConvert /\ StatsWork' = StatsWork
  BY <1>3, <1>6 DEF OutputsOf, ToConvert, StatsWork
<1>9. Inputs' = Inputs \ (IF m2m.queue[b] = 1 THEN {b} ELSE {}) /\ b \in Inputs
  BY <1>3, <1>5, <1>6 DEF Inputs
<1>10. SwIspSound' /\ M2mPhases' /\ SwIspPhases'
  <2>1. SwIspSound'
    BY <1>1, <1>3, <1>7, SwIspKept DEF Coverage
  <2>2. QED
    BY <1>1, <1>3, <1>4, <1>5, <1>7, <2>1 DEF M2mPhases, SwIspPhases, Simple!NoSwIsp
<1>11. CASE m2m.queue[b] = 1
  <2>1. Inputs' = Inputs \ {b} /\ Simple!conversionInputDone(b)
    BY <1>3, <1>9, <1>11
  <2>2. QED
    BY <1>3, <1>5, <1>6, <1>8, <1>9, <1>10, <2>1, InputDoneInv
<1>12. CASE m2m.queue[b] # 1
  <2>1. UNCHANGED RequestState /\ video' = video /\ Inputs' = Inputs
    BY <1>3, <1>9, <1>12
  <2>2. ConversionSound'
    BY <1>1, <1>3, <1>4, <1>8 DEF ConversionSound
  <2>3. VideoSound' /\ VideoPhases'
    BY <1>1, <1>3, <1>4, <1>7, <2>1 DEF VideoSound, VideoPhases, RequestState
  <2>4. PlacesSound'
    BY <1>6, <1>10, <2>2, <2>3 DEF PlacesSound
  <2>5. \A q \in Request, t \in AllStreams : Held(q, t)' <=> Held(q, t)
    BY <1>4, <1>8, <2>1 DEF Held
  <2>6. \A f \in DOMAIN frameInfo : Wanted(f) /\ Coming(frameInfo[f].request, f) => Coming(frameInfo[f].request, f)'
    BY <1>8, <2>1 DEF Coming, RequestState
  <2>7. faults' \in Nat /\ faults' = faults
    BY <1>1, <1>3 DEF SimpleType
  <2>8. QED
    BY <1>3, <1>5, <2>1, <2>4, <2>5, <2>6, <2>7, MovedInv
<1>13. QED
  BY <1>11, <1>12
\* Work of the software ISP: it is in use.
LEMMA SwIspInUse ==
    ASSUME SimpleInv, swIsp # Simple!NoSwIsp
    PROVE  /\ config.conv = "soft" /\ active /\ NoM2mWork /\ Simple!Stage \notin {"video", "clear", "waiting"}
           /\ \A s \in {"a", "b"} : ToSet(m2m.in[s]) = {} /\ ToSet(m2m.out[s]) = {}
<1>1. M2mPhases /\ SwIspPhases /\ StagesSound
  BY DEF SimpleInv, SimplePhases
<1>2. config.conv = "soft" /\ active /\ Simple!Stage \notin {"video", "clear"}
  BY <1>1 DEF SwIspPhases
<1>3. NoM2mWork /\ Simple!Stage # "waiting"
  BY <1>1, <1>2 DEF M2mPhases, StagesSound
<1>4. QED
  BY <1>2, <1>3, ToSetOfEmpty DEF NoM2mWork

LEMMA SwIspOutputDoneInv ==
    ASSUME SimpleInv, position \in SimpleStages, Simple!Stage \notin {"video", "clear", "waiting"}, active, config.conv = "soft",
           NEW r \in OutputsOf("a"), r \in Request, Inputs' = Inputs,
           \A t \in AllStreams : OutputsOf(t)' = OutputsOf(t) \ (IF t = "a" THEN {r} ELSE {}),
           Simple!conversionOutputDone(r, "a"),
           UNCHANGED Bookkeeping, UNCHANGED <<conversionQueue, faults>>, \A f \in StatsWork : f \in StatsWork',
           M2mSound', SwIspSound', M2mPhases', SwIspPhases'
    PROVE  SimpleInv'
<1>1. /\ VideoSound /\ ConversionSound /\ VideoPhases /\ SimpleType
  BY DEF SimpleInv, SimplePhases
<1>2. /\ config' = config /\ active' = active /\ Captured' = Captured /\ Converted' = Converted /\ (Simple!Internal' <=> Simple!Internal)
      /\ Simple!Outs(config') = Simple!Outs(config)
  BY SameConfig DEF Bookkeeping
<1>3. Simple!tryCompleteRequest(r, Simple!completeBuffers(r, {"a"}), frameInfo) /\ video' = video
  BY DEF Simple!conversionOutputDone
<1>4. Simple!Stage' = Simple!Stage /\ ToConvert' = ToConvert
  BY <1>3, TryStage DEF ToConvert
<1>5. Converted = {"a"} /\ Captured \cap Converted = {} /\ {"a"} \in SUBSET AllStreams /\ "a" \in AllStreams
  BY StreamSets DEF AllStreams
<1>6. r \notin ToConvert
  BY <1>1, <1>5 DEF ConversionSound
<1>7. Live(r)
  <2>1. Held(r, "a")
    BY <1>5 DEF Held
  <2>2. QED
    BY <1>5, <2>1, Owing
<1>8. /\ Handled(r, {"a"}) /\ (\A f \in DOMAIN frameInfo' : frameInfo'[f].required => frameInfo[f].required)
      /\ (\A f \in DOMAIN frameInfo' : frameInfo'[f].request = frameInfo[f].request)
  BY <1>3, <1>5, <1>7, Completes
<1>9. PlacesSound'
  <2>1. ConversionSound'
    BY <1>1, <1>2, <1>4 DEF ConversionSound
  <2>2. VideoSound' /\ VideoPhases'
    BY <1>1, <1>2, <1>3, <1>4 DEF VideoSound, VideoPhases
  <2>3. QED
    BY <2>1, <2>2 DEF PlacesSound
<1>10. \A q \in Request, t \in AllStreams : Held(q, t)' <=> Held(q, t) /\ ~(q = r /\ t \in {"a"})
  <2> SUFFICES ASSUME NEW q \in Request, NEW t \in AllStreams
               PROVE  Held(q, t)' <=> Held(q, t) /\ ~(q = r /\ t \in {"a"})
    OBVIOUS
  <2>1. ToSet(video') \cup Inputs' = ToSet(video) \cup Inputs
    BY <1>3
  <2>2. t \in {"a"} => t \notin Captured
    BY <1>5
  <2>3. QED
    BY <1>2, <1>4, <1>6, <2>1, <2>2 DEF Held
<1>11. \A f \in DOMAIN frameInfo' : Wanted(f)' /\ Coming(frameInfo[f].request, f) => Coming(frameInfo[f].request, f)'
  BY <1>4, <1>8 DEF Coming
<1>12. QED
  BY <1>5, <1>7, <1>8, <1>9, <1>10, <1>11, HandledInv

\* A step of the software ISP that no request notices.
LEMMA SwIspMovedInv ==
    ASSUME SimpleInv, UNCHANGED Bookkeeping, UNCHANGED RequestState, UNCHANGED <<conversionQueue, m2m, video>>, swIsp # Simple!NoSwIsp,
           faults' \in Nat, faults' = 0 => faults = 0, Inputs' = Inputs, OutputsOf("a")' = OutputsOf("a"),
           SwIspSound', SwIspPhases',
           faults' = 0 => \A f \in StatsWork : f \in StatsWork' \/ (f \in DOMAIN frameInfo => ~Wanted(f))
    PROVE  SimpleInv'
<1>1. /\ VideoSound /\ M2mSound /\ ConversionSound /\ VideoPhases /\ SimpleType /\ M2mPhases
  BY DEF SimpleInv, SimplePhases
<1>2. /\ config' = config /\ active' = active /\ Captured' = Captured /\ Converted' = Converted /\ (Simple!Internal' <=> Simple!Internal)
      /\ Simple!Outs(config') = Simple!Outs(config)
  BY SameConfig DEF Bookkeeping
<1>3. /\ Simple!Stage' = Simple!Stage /\ ToConvert' = ToConvert
  BY DEF RequestState, Simple!Stage, ToConvert
<1>4. \A t \in AllStreams : OutputsOf(t)' = OutputsOf(t)
  BY DEF OutputsOf, AllStreams
<1>5. PlacesSound'
  <2>1. ConversionSound'
    BY <1>1, <1>2, <1>3, <1>4 DEF ConversionSound
  <2>2. VideoSound' /\ VideoPhases'
    BY <1>1, <1>2, <1>3 DEF VideoSound, VideoPhases, RequestState
  <2>3. M2mSound' /\ M2mPhases'
    BY <1>1, <1>2, <1>3, M2mKept DEF M2mPhases, NoM2mWork
  <2>4. QED
    BY <2>1, <2>2, <2>3 DEF PlacesSound
<1>6. \A q \in Request, t \in AllStreams : Held(q, t)' <=> Held(q, t)
  BY <1>2, <1>3, <1>4 DEF Held
<1>7. faults' = 0 => \A f \in DOMAIN frameInfo : Wanted(f) /\ Coming(frameInfo[f].request, f) => Coming(frameInfo[f].request, f)'
  BY <1>3 DEF Coming, RequestState
<1>8. Simple!Stage \notin {"clear", "waiting"}
  BY SwIspInUse
<1>9. QED
  BY <1>5, <1>6, <1>7, <1>8, MovedInv
-----------------------------------------------------------------------------
StatsOf(ev) == {ev[i].frame : i \in {j \in DOMAIN ev : ev[j].name = "stats"}}
FramesOf(db) == {db[i].frame : i \in DOMAIN db}

LEMMA StatsParts == StatsWork = FramesOf(swIsp.debayer) \cup StatsOf(swIsp.events) \cup ToSet(swIsp.ipa) \cup ToSet(swIsp.metadata)
BY DEF StatsWork, StatsOf, FramesOf

LEMMA TailedStats ==
    ASSUME NEW ev \in Seq(DebayerEvent), ev # <<>>
    PROVE  \A f \in StatsOf(ev) : f \in StatsOf(Tail(ev)) \/ (Head(ev).name = "stats" /\ f = Head(ev).frame)
<1>0. Len(ev) \in Nat \ {0} /\ DOMAIN Tail(ev) = 1 .. Len(ev) - 1 /\ \A i \in 1 .. Len(ev) - 1 : Tail(ev)[i] = ev[i + 1]
  OBVIOUS
<1>1. PICK t, n : t = Tail(ev) /\ n = Len(ev) /\ n \in Nat \ {0} /\ DOMAIN t = 1 .. n - 1 /\ \A i \in 1 .. n - 1 : t[i] = ev[i + 1]
  BY <1>0
<1>2. Head(ev) = ev[1] /\ DOMAIN ev = 1 .. n
  BY <1>1
<1>3. SUFFICES ASSUME NEW j \in 1 .. n, ev[j].name = "stats", j # 1 PROVE ev[j].frame \in StatsOf(t)
  BY <1>1, <1>2 DEF StatsOf
<1>4. j - 1 \in 1 .. n - 1 /\ (j - 1) + 1 = j
  BY <1>1, <1>3
<1>5. t[j - 1] = ev[j] /\ j - 1 \in DOMAIN t
  BY <1>1, <1>4
<1>6. QED
  BY <1>3, <1>5 DEF StatsOf

LEMMA TailedFrames ==
    ASSUME NEW db \in Seq(DebayerWork), db # <<>>
    PROVE  \A f \in FramesOf(db) : f \in FramesOf(Tail(db)) \/ f = Head(db).frame
<1>0. Len(db) \in Nat \ {0} /\ DOMAIN Tail(db) = 1 .. Len(db) - 1 /\ \A i \in 1 .. Len(db) - 1 : Tail(db)[i] = db[i + 1]
  OBVIOUS
<1>1. PICK t, n : t = Tail(db) /\ n = Len(db) /\ n \in Nat \ {0} /\ DOMAIN t = 1 .. n - 1 /\ \A i \in 1 .. n - 1 : t[i] = db[i + 1]
  BY <1>0
<1>2. Head(db) = db[1] /\ DOMAIN db = 1 .. n
  BY <1>1
<1>3. SUFFICES ASSUME NEW j \in 1 .. n, j # 1 PROVE db[j].frame \in FramesOf(t)
  <2>1. ASSUME NEW f \in FramesOf(db) PROVE \E j \in 1 .. n : f = db[j].frame
    BY <1>2, <2>1 DEF FramesOf
  <2>2. QED
    BY <1>1, <1>2, <2>1
<1>4. j - 1 \in 1 .. n - 1 /\ (j - 1) + 1 = j
  BY <1>1, <1>3
<1>5. t[j - 1] = db[j] /\ j - 1 \in DOMAIN t
  BY <1>1, <1>4
<1>6. QED
  BY <1>3, <1>5 DEF FramesOf

\* A popped queue keeps the others.
LEMMA TailedNumbers ==
    ASSUME NEW q \in Seq(Nat), q # <<>>
    PROVE  \A f \in ToSet(q) : f \in ToSet(Tail(q)) \/ f = Head(q)
<1>0. Len(q) \in Nat \ {0} /\ DOMAIN Tail(q) = 1 .. Len(q) - 1 /\ \A i \in 1 .. Len(q) - 1 : Tail(q)[i] = q[i + 1]
  OBVIOUS
<1>1. PICK t, n : t = Tail(q) /\ n = Len(q) /\ n \in Nat \ {0} /\ DOMAIN t = 1 .. n - 1 /\ \A i \in 1 .. n - 1 : t[i] = q[i + 1]
  BY <1>0
<1>2. Head(q) = q[1] /\ DOMAIN q = 1 .. n
  BY <1>1
<1>3. SUFFICES ASSUME NEW j \in 1 .. n, j # 1 PROVE q[j] \in ToSet(t)
  BY <1>1, <1>2 DEF ToSet
<1>4. j - 1 \in 1 .. n - 1 /\ (j - 1) + 1 = j
  BY <1>1, <1>3
<1>5. t[j - 1] = q[j] /\ j - 1 \in DOMAIN t
  BY <1>1, <1>4
<1>6. QED
  BY <1>5 DEF ToSet

LEMMA ExtendedStats ==
    ASSUME NEW ev \in Seq(DebayerEvent), NEW d \in DebayerWork
    PROVE  (\A f \in StatsOf(ev) : f \in StatsOf(ev \o Reports(d))) /\ d.frame \in StatsOf(ev \o Reports(d))
<1>1. PICK e, n : n \in Nat /\ e = ev \o Reports(d) /\ n = Len(ev) /\ Extended(e, ev, d, n)
  <2>1. Len(ev) \in Nat
    OBVIOUS
  <2>2. Extended(ev \o Reports(d), ev, d, Len(ev))
    BY ReportsAppended
  <2>3. QED
    BY <2>1, <2>2
<1>2. DOMAIN e = 1 .. n + 3 /\ (\A i \in 1 .. n : e[i] = ev[i]) /\ e[n + 1] = [name |-> "stats", frame |-> d.frame] /\ DOMAIN ev = 1 .. n
  BY <1>1 DEF Extended
<1>3. n + 1 \in DOMAIN e /\ e[n + 1].name = "stats" /\ e[n + 1].frame = d.frame
  BY <1>1, <1>2
<1>4. \A i \in DOMAIN ev : i \in DOMAIN e /\ e[i] = ev[i]
  BY <1>1, <1>2
<1>5. QED
  BY <1>1, <1>3, <1>4 DEF StatsOf
-----------------------------------------------------------------------------
\* The threads of the software ISP, and what they report.
LEMMA DebayerInv ==
    ASSUME SimpleInv, Simple!Debayer, MaxFaults \in Nat
    PROVE  SimpleInv'
<1>1. SwIspSound /\ SwIspPhases /\ SimpleType
  BY DEF SimpleInv, SimplePhases
<1>2. /\ UNCHANGED Bookkeeping /\ UNCHANGED RequestState /\ UNCHANGED <<conversionQueue, m2m, video>> /\ swIsp.debayer # <<>>
      /\ \/ swIsp' = [swIsp EXCEPT !.debayer = Tail(@), !.events = @ \o Reports(Head(swIsp.debayer))] /\ faults' = faults
         \/ swIsp' = [swIsp EXCEPT !.debayer = Tail(@)] /\ faults' = faults + 1
  BY DEF Simple!Debayer, Bookkeeping, RequestState, Simple!queueVars, Reports
<1>3. Simple!Stage' = Simple!Stage /\ config' = config /\ active' = active
  BY <1>2 DEF RequestState, Simple!Stage, Bookkeeping
<1>4. swIsp # Simple!NoSwIsp
  BY <1>2 DEF Simple!NoSwIsp
<1>5. faults \in Nat /\ faults' \in Nat /\ (faults' = 0 => faults = 0 /\ faults' = faults)
  <2>1. faults \in Nat
    BY <1>1 DEF SimpleType
  <2>2. QED
    BY <1>2, <2>1
<1>6. SwIspSound' /\ swIsp'.in = swIsp.in /\ swIsp'.out = swIsp.out /\ swIsp'.ipa = swIsp.ipa /\ swIsp'.metadata = swIsp.metadata
  <2>1. CASE swIsp' = [swIsp EXCEPT !.debayer = Tail(@), !.events = @ \o Reports(Head(swIsp.debayer))] /\ faults' = faults
    BY <1>1, <1>2, <1>3, <2>1, SwIspDebayerMove DEF Coverage
  <2>2. CASE swIsp' = [swIsp EXCEPT !.debayer = Tail(@)] /\ faults' = faults + 1
    <3>1. ~Coverage'
      BY <1>5, <2>2 DEF Coverage
    <3>2. QED
      BY <1>1, <1>2, <2>2, <3>1, SwIspDebayerMove
  <2>3. QED
    BY <1>2, <2>1, <2>2
<1>7. Inputs' = Inputs /\ OutputsOf("a")' = OutputsOf("a")
  BY <1>2, <1>6 DEF Inputs, OutputsOf
<1>8. SwIspPhases'
  <2>1. config.conv = "soft" /\ active /\ Simple!Stage \notin {"video", "clear"}
    BY <1>4, SwIspInUse
  <2>2. Simple!Stage \notin {"drain", "ipa", "ipaDrain", "swIsp"}
    BY <1>1, <1>2 DEF SwIspPhases
  <2>3. QED
    BY <1>1, <1>3, <2>1, <2>2 DEF SwIspPhases
<1>9. faults' = 0 => \A f \in StatsWork : f \in StatsWork'
  <2> SUFFICES ASSUME faults' = 0, NEW f \in StatsWork PROVE f \in StatsWork'
    OBVIOUS
  <2>1. swIsp' = [swIsp EXCEPT !.debayer = Tail(@), !.events = @ \o Reports(Head(swIsp.debayer))]
    BY <1>2, <1>5
  <2>2. PICK ev \in Seq(DebayerEvent), db \in Seq(DebayerWork) : ev = swIsp.events /\ db = swIsp.debayer /\ db # <<>>
    BY <1>1, <1>2, SwIspFields
  <2>3. swIsp'.debayer = Tail(db) /\ swIsp'.events = ev \o Reports(Head(db))
    BY <1>1, <2>1, <2>2 DEF SwIspSound, SwIspState
  <2>4. Head(db) \in DebayerWork
    BY <2>2
  <2>5. (\A g \in StatsOf(ev) : g \in StatsOf(ev \o Reports(Head(db)))) /\ Head(db).frame \in StatsOf(ev \o Reports(Head(db)))
    BY <2>4, ExtendedStats
  <2>6. \A g \in FramesOf(db) : g \in FramesOf(Tail(db)) \/ g = Head(db).frame
    BY <2>2, TailedFrames
  <2>7. StatsWork' = FramesOf(swIsp'.debayer) \cup StatsOf(swIsp'.events) \cup ToSet(swIsp'.ipa) \cup ToSet(swIsp'.metadata)
    BY DEF StatsWork, StatsOf, FramesOf
  <2>8. QED
    BY <1>6, <2>2, <2>3, <2>5, <2>6, <2>7, StatsParts
<1>10. QED
  BY <1>2, <1>4, <1>5, <1>6, <1>7, <1>8, <1>9, SwIspMovedInv

LEMMA IpaThreadInv ==
    ASSUME SimpleInv, Simple!IpaThread
    PROVE  SimpleInv'
<1>1. SwIspSound /\ SwIspPhases /\ SimpleType
  BY DEF SimpleInv, SimplePhases
<1>2. /\ UNCHANGED Bookkeeping /\ UNCHANGED RequestState /\ UNCHANGED <<conversionQueue, m2m, video, faults>> /\ swIsp.ipa # <<>>
      /\ swIsp' = [swIsp EXCEPT !.ipa = Tail(@), !.metadata = Append(@, Head(swIsp.ipa))]
  BY DEF Simple!IpaThread, Bookkeeping, RequestState, Simple!queueVars
<1>3. Simple!Stage' = Simple!Stage /\ config' = config /\ active' = active
  BY <1>2 DEF RequestState, Simple!Stage, Bookkeeping
<1>4. swIsp # Simple!NoSwIsp
  BY <1>2 DEF Simple!NoSwIsp
<1>5. PICK i \in Seq(Nat), m \in Seq(Nat) : i = swIsp.ipa /\ m = swIsp.metadata /\ i # <<>>
  BY <1>1, <1>2, SwIspFields
<1>6. Tail(i) \in Seq(Nat) /\ Head(i) \in Nat /\ Append(m, Head(i)) \in Seq(Nat)
  BY <1>5
<1>7. /\ SwIspSound' /\ swIsp'.in = swIsp.in /\ swIsp'.out = swIsp.out /\ swIsp'.debayer = swIsp.debayer
      /\ swIsp'.events = swIsp.events /\ swIsp'.ipa = Tail(i) /\ swIsp'.metadata = Append(m, Head(i))
  <2>1. swIsp' = [swIsp EXCEPT !.ipa = Tail(i), !.metadata = Append(m, Head(i))]
    BY <1>1, <1>2, <1>5 DEF SwIspSound, SwIspState
  <2>2. QED
    BY <1>1, <1>2, <1>3, <1>6, <2>1, SwIspIpaMove DEF Coverage
<1>8. Inputs' = Inputs /\ OutputsOf("a")' = OutputsOf("a")
  BY <1>2, <1>7 DEF Inputs, OutputsOf
<1>9. SwIspPhases'
  <2>1. config.conv = "soft" /\ active /\ Simple!Stage \notin {"video", "clear"}
    BY <1>4, SwIspInUse
  <2>2. Simple!Stage \notin {"ipaDrain", "swIsp"}
    BY <1>1, <1>2 DEF SwIspPhases
  <2>3. QED
    BY <1>1, <1>3, <1>7, <2>1, <2>2 DEF SwIspPhases
<1>10. \A f \in StatsWork : f \in StatsWork'
  <2>1. \A f \in ToSet(i) : f \in ToSet(Tail(i)) \/ f = Head(i)
    BY <1>5, TailedNumbers
  <2>2. ToSet(Append(m, Head(i))) = ToSet(m) \cup {Head(i)}
    BY <1>6, ToSetOfAppend
  <2>3. StatsWork' = FramesOf(swIsp'.debayer) \cup StatsOf(swIsp'.events) \cup ToSet(swIsp'.ipa) \cup ToSet(swIsp'.metadata)
    BY DEF StatsWork, StatsOf, FramesOf
  <2>4. QED
    BY <1>5, <1>7, <2>1, <2>2, <2>3, StatsParts
<1>11. faults' \in Nat /\ faults' = faults
  BY <1>1, <1>2 DEF SimpleType
<1>12. QED
  BY <1>2, <1>4, <1>7, <1>8, <1>9, <1>10, <1>11, SwIspMovedInv

\* The metadata of a frame arrives.
LEMMA IpaEventInv ==
    ASSUME SimpleInv, Simple!IpaEvent
    PROVE  SimpleInv'
<1>1. SwIspSound /\ SwIspPhases /\ SimpleType /\ VideoSound /\ VideoPhases /\ M2mSound /\ M2mPhases /\ ConversionSound
  BY DEF SimpleInv, SimplePhases
<1>2. /\ UNCHANGED Bookkeeping /\ UNCHANGED <<conversionQueue, m2m, video, faults>> /\ swIsp.metadata # <<>>
      /\ swIsp' = [swIsp EXCEPT !.metadata = Tail(@)] /\ position \in {"loop", "ipaDrain"}
  BY DEF Simple!IpaEvent, Bookkeeping, Simple!queueVars
<1>3. position \in SimpleStages /\ config' = config /\ active' = active
  BY <1>2 DEF SimpleStages, Bookkeeping
<1>4. swIsp # Simple!NoSwIsp
  BY <1>2 DEF Simple!NoSwIsp
<1>5. PICK i \in Seq(Nat), m \in Seq(Nat), f \in Nat : i = swIsp.ipa /\ m = swIsp.metadata /\ m # <<>> /\ f = Head(m)
  <2>1. PICK i \in Seq(Nat), m \in Seq(Nat) : i = swIsp.ipa /\ m = swIsp.metadata /\ m # <<>>
    BY <1>1, <1>2, SwIspFields
  <2>2. Head(m) \in Nat
    BY <2>1
  <2>3. QED
    BY <2>1, <2>2
<1>6. f \notin DOMAIN frameInfo => UNCHANGED RequestState
  BY <1>5 DEF Simple!IpaEvent, RequestState
<1>7. f \in DOMAIN frameInfo =>
        Simple!tryCompleteRequest(frameInfo[f].request, req, [frameInfo EXCEPT ![f].processed = TRUE])
  BY <1>5 DEF Simple!IpaEvent
<1>8. Simple!Stage' = Simple!Stage
  <2>1. CASE f \in DOMAIN frameInfo
    BY <1>3, <1>7, <2>1, TryStage
  <2>2. CASE f \notin DOMAIN frameInfo
    BY <1>6, <2>2 DEF RequestState, Simple!Stage
  <2>3. QED
    BY <2>1, <2>2
<1>9. /\ SwIspSound' /\ swIsp'.in = swIsp.in /\ swIsp'.out = swIsp.out /\ swIsp'.debayer = swIsp.debayer
      /\ swIsp'.events = swIsp.events /\ swIsp'.ipa = i /\ swIsp'.metadata = Tail(m)
  <2>1. swIsp' = [swIsp EXCEPT !.ipa = i, !.metadata = Tail(m)]
    BY <1>1, <1>2, <1>5 DEF SwIspSound, SwIspState
  <2>2. Tail(m) \in Seq(Nat)
    BY <1>5
  <2>3. QED
    BY <1>1, <1>2, <1>8, <2>1, <2>2, SwIspIpaMove DEF Coverage
<1>10. Inputs' = Inputs /\ (\A t : OutputsOf(t)' = OutputsOf(t)) /\ ToConvert' = ToConvert
  BY <1>2, <1>9 DEF Inputs, OutputsOf, ToConvert
<1>11. /\ config.conv = "soft" /\ active /\ Simple!Stage \notin {"video", "clear", "waiting"}
  BY <1>4, SwIspInUse
<1>12. SwIspPhases'
  <2>1. Simple!Stage # "swIsp"
    BY <1>1, <1>2 DEF SwIspPhases
  <2>2. QED
    BY <1>1, <1>3, <1>5, <1>8, <1>9, <1>11, <2>1 DEF SwIspPhases
<1>13. \A g \in StatsWork : g \in StatsWork' \/ g = f
  <2>1. \A g \in ToSet(m) : g \in ToSet(Tail(m)) \/ g = f
    BY <1>5, TailedNumbers
  <2>2. StatsWork' = FramesOf(swIsp'.debayer) \cup StatsOf(swIsp'.events) \cup ToSet(swIsp'.ipa) \cup ToSet(swIsp'.metadata)
    BY DEF StatsWork, StatsOf, FramesOf
  <2>3. QED
    BY <1>5, <1>9, <2>1, <2>2, StatsParts
<1>14. CASE f \notin DOMAIN frameInfo
  <2>1. UNCHANGED RequestState
    BY <1>6, <1>14
  <2>2. faults' \in Nat /\ faults' = faults
    BY <1>1, <1>2 DEF SimpleType
  <2>3. \A g \in StatsWork : g \in StatsWork' \/ (g \in DOMAIN frameInfo => ~Wanted(g))
    BY <1>13, <1>14
  <2>4. QED
    BY <1>2, <1>4, <1>9, <1>10, <1>12, <2>1, <2>2, <2>3, SwIspMovedInv
<1>15. CASE f \in DOMAIN frameInfo
  <2>1. PICK r \in Request : r = frameInfo[f].request /\ Live(r) /\ req[r].sequence = f /\ frameInfo[f] \in FrameEntry
    BY <1>1, <1>15 DEF SimpleInv, Booked, SimpleFrames, SimpleType, FrameEntry
  <2>2. PICK info : info = [frameInfo EXCEPT ![f].processed = TRUE]
    OBVIOUS
  <2>3. /\ DOMAIN info = DOMAIN frameInfo /\ \A g \in DOMAIN frameInfo : g # f => info[g] = frameInfo[g]
        /\ info[f] \in FrameEntry /\ info[f].request = r /\ info[f].processed /\ info[f].required = frameInfo[f].required
    <3>1. info[f] = [frameInfo[f] EXCEPT !.processed = TRUE]
      BY <1>15, <2>2
    <3>2. QED
      BY <1>15, <2>1, <2>2, <3>1 DEF FrameEntry
  <2>4. Simple!completeBuffers(r, {}) = req
    <3>1. req \in [Request -> SimpleRequest] /\ req[r].pending \ {} = req[r].pending
      BY <1>1 DEF SimpleType
    <3>2. QED
      BY <3>1 DEF Simple!completeBuffers, SimpleRequest
  <2>5. Handled(r, {})
    <3>1. Settles(info[f], f)
      BY <2>1, <2>3 DEF Settles
    <3>2. Simple!tryCompleteRequest(r, Simple!completeBuffers(r, {}), info)
      BY <1>7, <1>15, <2>1, <2>2, <2>4
    <3>3. QED
      <4>1. {} \in SUBSET AllStreams /\ f = req[r].sequence /\ frameInfo[f].request = r
        BY <2>1
      <4>2. DOMAIN info = DOMAIN frameInfo /\ \A g \in DOMAIN frameInfo : g # f => info[g] = frameInfo[g]
        BY <2>3
      <4>3. QED
        BY <1>1, <1>15, <3>1, <3>2, <4>1, <4>2, TryCompletes
  <2>6. \A g \in DOMAIN frameInfo' : g \in DOMAIN frameInfo /\ frameInfo'[g] = info[g]
    <3>1. frameInfo' = info \/ frameInfo' = Simple!Restrict(info, DOMAIN info \ {req[r].sequence})
      BY <1>7, <1>15, <2>1, <2>2 DEF Simple!tryCompleteRequest
    <3>2. QED
      BY <2>3, <3>1 DEF Simple!Restrict
  <2>7. PlacesSound'
    <3>1. ConversionSound'
      BY <1>1, <1>2, <1>3, <1>10, SameConfig DEF ConversionSound
    <3>2. VideoSound'
      BY <1>1, <1>2, <1>3, <1>8, <1>10, SameConfig DEF VideoSound
    <3>3. VideoPhases'
      BY <1>1, <1>2, <1>3, <1>8, <1>11 DEF VideoPhases
    <3>4. M2mSound' /\ M2mPhases'
      BY <1>1, <1>2, <1>3, <1>8, M2mKept DEF M2mPhases, NoM2mWork
    <3>5. QED
      BY <1>9, <1>12, <3>1, <3>2, <3>3, <3>4 DEF PlacesSound
  <2>8. \A q \in Request, t \in AllStreams : Held(q, t)' <=> Held(q, t) /\ ~(q = r /\ t \in {})
    BY <1>2, <1>3, <1>10, SameConfig DEF Held
  <2>9. \A g \in DOMAIN frameInfo' : Wanted(g)' /\ Coming(frameInfo[g].request, g) => Coming(frameInfo[g].request, g)'
    <3> SUFFICES ASSUME NEW g \in DOMAIN frameInfo', Wanted(g)', Coming(frameInfo[g].request, g)
                 PROVE  Coming(frameInfo[g].request, g)'
      OBVIOUS
    <3>1. g # f
      BY <2>3, <2>6 DEF Wanted
    <3>2. frameInfo'[g] = frameInfo[g]
      BY <2>3, <2>6, <3>1
    <3>3. QED
      BY <1>10, <1>13, <3>1, <3>2 DEF Coming
  <2>10. \A g \in DOMAIN frameInfo' : frameInfo'[g].required => frameInfo[g].required
    BY <2>3, <2>6
  <2>11. {} \in SUBSET AllStreams
    OBVIOUS
  <2>12. QED
    BY <1>2, <1>3, <1>11, <2>1, <2>5, <2>7, <2>8, <2>9, <2>10, <2>11, HandledInv
<1>16. QED
  BY <1>14, <1>15

\* The events of the debayer, in the order of its work.
LEMMA SwIspEventInv ==
    ASSUME SimpleInv, Simple!SwIspEvent, fatal = "none", fatal' = "none"
    PROVE  SimpleInv'
<1>1. SwIspSound /\ SwIspPhases /\ SimpleType /\ M2mSound /\ M2mPhases
  BY DEF SimpleInv, SimplePhases
<1>2. PICK e : e = Head(swIsp.events)
  OBVIOUS
<1>3. /\ UNCHANGED Bookkeeping /\ UNCHANGED <<conversionQueue, m2m, faults>> /\ swIsp.events # <<>> /\ position \in {"loop", "drain"}
  BY DEF Simple!SwIspEvent, Bookkeeping, Simple!queueVars
<1>4. position \in SimpleStages /\ config' = config /\ active' = active
  BY <1>3 DEF SimpleStages, Bookkeeping
<1>5. swIsp # Simple!NoSwIsp
  BY <1>3 DEF Simple!NoSwIsp
<1>6. /\ config.conv = "soft" /\ active /\ Simple!Stage \notin {"video", "clear", "waiting"}
      /\ \A s \in {"a", "b"} : ToSet(m2m.in[s]) = {} /\ ToSet(m2m.out[s]) = {}
  BY <1>5, SwIspInUse
<1>7. /\ e \in DebayerEvent
      /\ e.name = "output" => swIsp.out # <<>> /\ e.out \in ToSet(swIsp.out)
      /\ e.name = "input" => swIsp.in # <<>> /\ e.in \in ToSet(swIsp.in)
  BY <1>1, <1>2, <1>3, EventMatches
<1>8. e.name \in {"stats", "output", "input"}
  BY <1>7 DEF DebayerEvent
<1>9. /\ e.name = "stats" => swIsp' = [swIsp EXCEPT !.events = Tail(@), !.ipa = Append(@, e.frame)] /\ UNCHANGED RequestState /\ video' = video
      /\ e.name = "output" => /\ e.out = Head(swIsp.out) /\ swIsp' = [swIsp EXCEPT !.events = Tail(@), !.out = Tail(@)]
                              /\ Simple!conversionOutputDone(e.out, "a")
      /\ e.name = "input" => /\ e.in = Head(swIsp.in) /\ swIsp' = [swIsp EXCEPT !.events = Tail(@), !.in = Tail(@)]
                             /\ Simple!conversionInputDone(e.in)
  <2>1. swIsp \in SwIspState
    BY <1>1 DEF SwIspSound
  <2>2. CASE e.name = "stats"
    BY <1>2, <2>1, <2>2 DEF Simple!SwIspEvent, RequestState, SwIspState
  <2>3. CASE e.name = "output"
    BY <1>2, <2>1, <2>3 DEF Simple!SwIspEvent, SwIspState
  <2>4. CASE e.name = "input"
    BY <1>2, <2>1, <2>4 DEF Simple!SwIspEvent, SwIspState
  <2>5. QED
    BY <1>8, <2>2, <2>3, <2>4
<1>10. Simple!Stage' = Simple!Stage
  <2>1. CASE e.name = "stats"
    BY <1>9, <2>1 DEF RequestState, Simple!Stage
  <2>2. CASE e.name = "output"
    BY <1>4, <1>9, <2>2, TryStage DEF Simple!conversionOutputDone
  <2>3. CASE e.name = "input"
    BY <1>4, <1>9, <2>3, InputStage
  <2>4. QED
    BY <1>8, <2>1, <2>2, <2>3
<1>11. /\ SwIspSound' /\ swIsp'.events = Tail(swIsp.events) /\ swIsp'.debayer = swIsp.debayer
       /\ swIsp'.metadata = swIsp.metadata
       /\ ToSet(swIsp'.in) = ToSet(swIsp.in) \ (IF e.name = "input" THEN {e.in} ELSE {})
       /\ ToSet(swIsp'.out) = ToSet(swIsp.out) \ (IF e.name = "output" THEN {e.out} ELSE {})
       /\ swIsp'.ipa = IF e.name = "stats" THEN Append(swIsp.ipa, e.frame) ELSE swIsp.ipa
  BY <1>1, <1>2, <1>3, <1>8, <1>9, <1>10, SwIspEventMove DEF Coverage
<1>12. SwIspPhases'
  <2>1. Simple!Stage \notin {"ipa", "ipaDrain", "swIsp"}
    BY <1>1, <1>3 DEF SwIspPhases
  <2>2. QED
    BY <1>1, <1>4, <1>6, <1>10, <1>11, <2>1 DEF SwIspPhases
<1>13. M2mSound' /\ M2mPhases'
  BY <1>1, <1>3, <1>4, <1>10, M2mKept DEF M2mPhases, NoM2mWork
<1>14. \A f \in StatsWork : f \in StatsWork'
  <2>1. PICK ev \in Seq(DebayerEvent), i \in Seq(Nat) : ev = swIsp.events /\ i = swIsp.ipa /\ ev # <<>> /\ e = Head(ev)
    BY <1>1, <1>2, <1>3, SwIspFields
  <2>2. \A f \in StatsOf(ev) : f \in StatsOf(Tail(ev)) \/ (e.name = "stats" /\ f = e.frame)
    BY <2>1, TailedStats
  <2>3. e.name = "stats" => ToSet(Append(i, e.frame)) = ToSet(i) \cup {e.frame}
    <3>1. e.name = "stats" => e.frame \in Nat
      BY <1>7 DEF DebayerEvent
    <3>2. QED
      BY <3>1, ToSetOfAppend
  <2>4. StatsWork' = FramesOf(swIsp'.debayer) \cup StatsOf(swIsp'.events) \cup ToSet(swIsp'.ipa) \cup ToSet(swIsp'.metadata)
    BY DEF StatsWork, StatsOf, FramesOf
  <2>5. CASE e.name = "stats"
    BY <1>11, <2>1, <2>2, <2>3, <2>4, <2>5, StatsParts
  <2>6. CASE e.name # "stats"
    BY <1>11, <2>1, <2>2, <2>4, <2>6, StatsParts
  <2>7. QED
    BY <2>5, <2>6
<1>15. CASE e.name = "stats"
  <2>1. Inputs' = Inputs /\ OutputsOf("a")' = OutputsOf("a")
    BY <1>3, <1>11, <1>15 DEF Inputs, OutputsOf
  <2>2. faults' \in Nat /\ faults' = faults
    BY <1>1, <1>3 DEF SimpleType
  <2>3. UNCHANGED RequestState /\ video' = video
    BY <1>9, <1>15
  <2>4. QED
    BY <1>3, <1>5, <1>11, <1>12, <1>14, <2>1, <2>2, <2>3, SwIspMovedInv
<1>16. CASE e.name = "output"
  <2>1. Inputs' = Inputs
    BY <1>3, <1>11, <1>16 DEF Inputs
  <2>2. \A t \in AllStreams : OutputsOf(t)' = OutputsOf(t) \ (IF t = "a" THEN {e.out} ELSE {})
    BY <1>3, <1>6, <1>11, <1>16 DEF OutputsOf
  <2>3. e.out \in Request /\ e.out \in OutputsOf("a")
    BY <1>7, <1>16 DEF DebayerEvent, OutputsOf
  <2>4. Simple!conversionOutputDone(e.out, "a")
    BY <1>9, <1>16
  <2>5. QED
    BY <1>3, <1>4, <1>6, <1>11, <1>12, <1>13, <1>14, <2>1, <2>2, <2>3, <2>4, SwIspOutputDoneInv
<1>17. CASE e.name = "input"
  <2>1. Inputs' = Inputs \ {e.in} /\ e.in \in Inputs
    BY <1>3, <1>6, <1>7, <1>11, <1>17 DEF Inputs
  <2>2. \A t \in AllStreams : OutputsOf(t)' = OutputsOf(t)
    BY <1>3, <1>11, <1>17 DEF OutputsOf
  <2>3. Simple!conversionInputDone(e.in)
    BY <1>9, <1>17
  <2>4. QED
    BY <1>3, <1>4, <1>6, <1>11, <1>12, <1>13, <1>14, <2>1, <2>2, <2>3, InputDoneInv
<1>18. QED
  BY <1>8, <1>15, <1>16, <1>17

\* SoftwareIsp::stop(): the buffers the debayer kept.
LEMMA StopSwIspInv ==
    ASSUME SimpleInv, Simple!StopSwIspOutput \/ Simple!StopSwIspInput
    PROVE  SimpleInv'
<1>1. SwIspSound /\ SwIspPhases /\ SimpleType /\ M2mSound /\ M2mPhases
  BY DEF SimpleInv, SimplePhases
<1>2. /\ UNCHANGED Bookkeeping /\ UNCHANGED <<conversionQueue, m2m, faults>> /\ position = "swIsp"
      /\ \/ swIsp.out # <<>> /\ swIsp' = [swIsp EXCEPT !.out = Tail(@)] /\ Simple!conversionOutputDone(Head(swIsp.out), "a")
         \/ swIsp.in # <<>> /\ swIsp' = [swIsp EXCEPT !.in = Tail(@)] /\ Simple!conversionInputDone(Head(swIsp.in))
  BY DEF Simple!StopSwIspOutput, Simple!StopSwIspInput, Bookkeeping, Simple!queueVars
<1>3. position \in SimpleStages /\ config' = config /\ active' = active /\ Simple!Stage = "swIsp"
  BY <1>2 DEF SimpleStages, Bookkeeping, Simple!Stage
<1>4. swIsp # Simple!NoSwIsp
  BY <1>2 DEF Simple!NoSwIsp
<1>5. /\ config.conv = "soft" /\ active /\ Simple!Stage \notin {"video", "clear", "waiting"}
      /\ \A s \in {"a", "b"} : ToSet(m2m.in[s]) = {} /\ ToSet(m2m.out[s]) = {}
  BY <1>4, SwIspInUse
<1>6. Simple!Stage' = Simple!Stage
  <2>1. CASE Simple!conversionOutputDone(Head(swIsp.out), "a")
    BY <1>3, <2>1, TryStage DEF Simple!conversionOutputDone
  <2>2. CASE Simple!conversionInputDone(Head(swIsp.in))
    BY <1>3, <2>2, InputStage
  <2>3. QED
    BY <1>2, <2>1, <2>2
<1>7. swIsp.debayer = <<>> /\ swIsp.events = <<>> /\ swIsp.ipa = <<>> /\ swIsp.metadata = <<>>
  BY <1>1, <1>3 DEF SwIspPhases
<1>8. ~Coverage'
  BY <1>3, <1>6 DEF Coverage
<1>9. M2mSound' /\ M2mPhases'
  BY <1>1, <1>2, <1>3, <1>6, M2mKept DEF M2mPhases, NoM2mWork
<1>10. /\ SwIspSound' /\ swIsp'.debayer = <<>> /\ swIsp'.events = <<>> /\ swIsp'.ipa = swIsp.ipa /\ swIsp'.metadata = swIsp.metadata
  BY <1>1, <1>2, <1>7, <1>8, SwIspStopMove
<1>11. SwIspPhases'
  BY <1>3, <1>5, <1>6, <1>7, <1>10 DEF SwIspPhases
<1>12. StatsWork' = StatsWork
  BY <1>7, <1>10 DEF StatsWork
<1>13. CASE swIsp.out # <<>> /\ swIsp' = [swIsp EXCEPT !.out = Tail(@)] /\ Simple!conversionOutputDone(Head(swIsp.out), "a")
  <2>1. PICK o \in Seq(Request) : o = swIsp.out /\ IsInjective(o) /\ o # <<>>
    BY <1>1, <1>13, SwIspFields DEF SwIspSound
  <2>2. ToSet(Tail(o)) = ToSet(o) \ {Head(o)} /\ Head(o) \in ToSet(o) /\ Head(o) \in Request
    BY <2>1, PoppedQueue
  <2>3. swIsp'.out = Tail(o) /\ swIsp'.in = swIsp.in
    BY <1>1, <1>13, <2>1 DEF SwIspSound, SwIspState
  <2>4. Inputs' = Inputs
    BY <1>2, <2>3 DEF Inputs
  <2>5. \A t \in AllStreams : OutputsOf(t)' = OutputsOf(t) \ (IF t = "a" THEN {Head(o)} ELSE {})
    BY <1>2, <1>5, <2>1, <2>2, <2>3 DEF OutputsOf
  <2>6. Head(o) \in OutputsOf("a") /\ Simple!conversionOutputDone(Head(o), "a")
    BY <1>13, <2>1, <2>2 DEF OutputsOf
  <2>7. QED
    BY <1>2, <1>3, <1>5, <1>9, <1>10, <1>11, <1>12, <2>2, <2>4, <2>5, <2>6, SwIspOutputDoneInv
<1>14. CASE swIsp.in # <<>> /\ swIsp' = [swIsp EXCEPT !.in = Tail(@)] /\ Simple!conversionInputDone(Head(swIsp.in))
  <2>1. PICK i \in Seq(CaptureBuffers) : i = swIsp.in /\ IsInjective(i) /\ i # <<>>
    BY <1>1, <1>14, SwIspFields DEF SwIspSound
  <2>2. ToSet(Tail(i)) = ToSet(i) \ {Head(i)} /\ Head(i) \in ToSet(i)
    BY <2>1, PoppedQueue
  <2>3. swIsp'.in = Tail(i) /\ swIsp'.out = swIsp.out
    BY <1>1, <1>14, <2>1 DEF SwIspSound, SwIspState
  <2>4. Inputs' = Inputs \ {Head(i)} /\ Head(i) \in Inputs
    BY <1>2, <1>5, <2>1, <2>2, <2>3 DEF Inputs
  <2>5. \A t \in AllStreams : OutputsOf(t)' = OutputsOf(t)
    BY <1>2, <2>3 DEF OutputsOf
  <2>6. Simple!conversionInputDone(Head(i))
    BY <1>14, <2>1
  <2>7. QED
    BY <1>2, <1>3, <1>5, <1>9, <1>10, <1>11, <1>12, <2>4, <2>5, <2>6, InputDoneInv
<1>15. QED
  BY <1>2, <1>13, <1>14

\* A step that moves no buffer.
LEMMA PlacesKept ==
    ASSUME SimpleInv, UNCHANGED <<config, conversionQueue, video, m2m, swIsp>>,
           active' /\ Simple!Stage' \notin {"video", "clear"} => active /\ Simple!Stage \notin {"video", "clear"}
    PROVE  /\ ConversionSound' /\ VideoSound' /\ M2mSound' /\ ToConvert' = ToConvert /\ StatsWork' = StatsWork
           /\ \A q \in Request, t \in AllStreams : Held(q, t)' <=> Held(q, t)
<1>1. ConversionSound /\ VideoSound /\ M2mSound
  BY DEF SimpleInv
<1>2. /\ Captured' = Captured /\ Converted' = Converted /\ (Simple!Internal' <=> Simple!Internal)
      /\ Simple!Outs(config') = Simple!Outs(config)
  BY SameConfig
<1>3. Inputs' = Inputs /\ (\A s : OutputsOf(s)' = OutputsOf(s)) /\ ToConvert' = ToConvert /\ StatsWork' = StatsWork
  BY DEF Inputs, OutputsOf, ToConvert, StatsWork
<1>4. ConversionSound'
  BY <1>1, <1>2, <1>3 DEF ConversionSound
<1>5. VideoSound'
  BY <1>1, <1>2, <1>3 DEF VideoSound
<1>6. M2mSound'
  BY <1>1, M2mKept
<1>7. \A q \in Request, t \in AllStreams : Held(q, t)' <=> Held(q, t)
  BY <1>2, <1>3 DEF Held
<1>8. QED
  BY <1>3, <1>4, <1>5, <1>6, <1>7

\* Nothing is left in the converters.
LEMMA ConvertersEmpty ==
    ASSUME NoM2mWork, swIsp = Simple!NoSwIsp
    PROVE  /\ Inputs = {} /\ (\A s \in AllStreams : OutputsOf(s) = {}) /\ StatsWork = {}
<1>1. ToSet(<<>>) = {}
  BY ToSetOfEmpty
<1>2. Inputs = {}
  BY <1>1 DEF Inputs, NoM2mWork, Simple!NoSwIsp
<1>3. \A s \in AllStreams : OutputsOf(s) = {}
  BY <1>1 DEF OutputsOf, NoM2mWork, Simple!NoSwIsp
<1>4. StatsWork = {}
  BY <1>1 DEF StatsWork, Simple!NoSwIsp
<1>5. QED
  BY <1>2, <1>3, <1>4

\* stop() goes on to the next thread once this one has nothing left.
LEMMA StopStepInv ==
    ASSUME SimpleInv, Simple!StopStep
    PROVE  SimpleInv'
<1>1. SimpleType /\ Booked /\ PiecesSound /\ MetadataComes /\ StagesSound /\ SwIspSound /\ M2mPhases /\ SwIspPhases /\ VideoPhases
  BY DEF SimpleInv, SimplePhases
<1>2. /\ UNCHANGED <<config, active, ret, queued, stopped, waiting, req, sequence, frameInfo, conversionQueue, video, m2m, swIsp, faults>>
      /\ \/ position = "debayer" /\ swIsp.debayer = <<>> /\ position' = "drain"
         \/ position = "drain" /\ swIsp.events = <<>> /\ position' = "ipa"
         \/ position = "ipa" /\ swIsp.ipa = <<>> /\ position' = "ipaDrain"
         \/ position = "ipaDrain" /\ swIsp.metadata = <<>> /\ position' = "swIsp"
         \/ position = "swIsp" /\ swIsp.out = <<>> /\ swIsp.in = <<>> /\ position' = "video"
         \/ position = "m2m" /\ NoM2mWork /\ position' = "video"
  BY DEF Simple!StopStep, Simple!queueVars, Simple!convVars, NoM2mWork
<1>3. /\ Simple!Stage = position /\ Simple!Stage' = position' /\ position \notin {"complete", "doQueue", "video", "clear", "waiting", "loop"}
      /\ position' \in SimpleStages /\ position' \notin {"complete", "doQueue", "clear", "waiting", "loop", "m2m"}
  BY <1>2 DEF Simple!Stage, SimpleStages
<1>4. /\ ConversionSound' /\ VideoSound' /\ M2mSound' /\ ToConvert' = ToConvert /\ StatsWork' = StatsWork
      /\ \A q \in Request, t \in AllStreams : Held(q, t)' <=> Held(q, t)
  BY <1>2, <1>3, PlacesKept
<1>5. SimpleType'
  BY <1>1, <1>2, <1>3 DEF SimpleType
<1>6. Booked'
  BY <1>1, <1>2, <1>3 DEF Booked, SimpleQueues, SimpleFrames, Live, Missing, SimpleHeadWorks, Simple!Streams, Simple!Outs
<1>7. PiecesSound'
  <2>1. \A q \in Request, t \in AllStreams : Owes(q, t)' <=> Owes(q, t)
    BY <1>2 DEF Owes, Live
  <2>2. QED
    BY <1>1, <1>4, <2>1 DEF PiecesSound
<1>8. MetadataComes' /\ LeftOver'
  <2>1. MetadataComes'
    BY <1>1, <1>2, <1>4 DEF MetadataComes, Wanted, Coming
  <2>2. LeftOver'
    BY <1>3 DEF LeftOver
  <2>3. QED
    BY <2>1, <2>2
<1>9. active /\ (position # "m2m" => config.conv = "soft") /\ (position = "m2m" => config.conv = "m2m") /\ waiting = <<>>
  BY <1>1, <1>2, <1>3 DEF StagesSound
<1>10. StagesSound'
  BY <1>2, <1>3, <1>9 DEF StagesSound
<1>11. position = "swIsp" => swIsp = Simple!NoSwIsp
  <2>1. position = "swIsp" => swIsp.in = <<>> /\ swIsp.out = <<>> /\ swIsp.debayer = <<>> /\ swIsp.events = <<>> /\ swIsp.ipa = <<>> /\ swIsp.metadata = <<>>
    BY <1>1, <1>2, <1>3 DEF SwIspPhases
  <2>2. swIsp \in SwIspState
    BY <1>1 DEF SwIspSound
  <2>3. QED
    BY <2>1, <2>2 DEF SwIspState, Simple!NoSwIsp
<1>12. M2mPhases' /\ SwIspPhases' /\ VideoPhases'
  <2>1. M2mPhases'
    BY <1>1, <1>2, <1>3, <1>9 DEF M2mPhases, NoM2mWork
  <2>2. SwIspPhases'
    <3>1. CASE position = "m2m" \/ position = "swIsp"
      <4>1. swIsp = Simple!NoSwIsp
        BY <1>1, <1>9, <1>11, <3>1 DEF SwIspPhases
      <4>2. QED
        BY <1>2, <1>3, <4>1 DEF SwIspPhases, Simple!NoSwIsp
    <3>2. CASE position \in {"debayer", "drain", "ipa", "ipaDrain"}
      <4>1. config'.conv = "soft" /\ active' /\ Simple!Stage' \notin {"video", "clear"} /\ swIsp' = swIsp
        BY <1>2, <1>9, <3>2, <1>3
      <4>2. QED
        BY <1>1, <1>2, <1>3, <3>2, <4>1 DEF SwIspPhases
    <3>3. QED
      BY <1>2, <3>1, <3>2
  <2>3. VideoPhases'
    BY <1>1, <1>2, <1>3, <1>9 DEF VideoPhases
  <2>4. QED
    BY <2>1, <2>2, <2>3
<1>13. SwIspSound'
  <2>1. CASE position = "swIsp"
    <3>1. swIsp' = swIsp /\ swIsp.in = <<>> /\ swIsp.out = <<>>
      BY <1>2, <2>1
    <3>2. \A w : Covers(w, <<>>)
      BY DEF Covers
    <3>3. QED
      BY <1>1, <3>1, <3>2 DEF SwIspSound
  <2>2. CASE position # "swIsp"
    BY <1>1, <1>2, <1>3, <2>2, SwIspKept DEF Coverage
  <2>3. QED
    BY <2>1, <2>2
<1>14. QED
  BY <1>4, <1>5, <1>6, <1>7, <1>8, <1>10, <1>12, <1>13 DEF SimpleInv, SimplePhases

\* Once the capture has stopped, the frame infos are cleared: what is left waits
\* for its conversion, and clearIncompleteRequests() finds it there.
LEMMA StreamedOffInv ==
    ASSUME SimpleInv, position = "video", video = <<>>, frameInfo' = <<>>, position' = "clear",
           UNCHANGED <<config, active, ret, queued, stopped, waiting, req, sequence, conversionQueue, video, m2m, swIsp, faults>>
    PROVE  SimpleInv'
<1>1. SimpleType /\ Booked /\ PiecesSound /\ MetadataComes /\ StagesSound /\ SwIspSound /\ M2mPhases /\ SwIspPhases /\ VideoPhases
  BY DEF SimpleInv, SimplePhases
<1>2. Simple!Stage = "video" /\ Simple!Stage' = "clear" /\ DOMAIN frameInfo' = {}
  BY DEF Simple!Stage
<1>3. /\ ConversionSound' /\ VideoSound' /\ M2mSound' /\ ToConvert' = ToConvert /\ StatsWork' = StatsWork
      /\ \A q \in Request, t \in AllStreams : Held(q, t)' <=> Held(q, t)
  BY <1>2, PlacesKept
<1>4. SimpleType'
  BY <1>1, <1>2 DEF SimpleType, SimpleStages
<1>5. Booked'
  BY <1>1, <1>2 DEF Booked, SimpleQueues, SimpleFrames, Missing, SimpleHeadWorks, Simple!Streams, Simple!Outs
<1>6. PiecesSound'
  <2>1. \A q \in Request, t \in AllStreams : Owes(q, t)' <=> Owes(q, t)
    BY DEF Owes, Live
  <2>2. QED
    BY <1>1, <1>3, <2>1 DEF PiecesSound
<1>7. MetadataComes'
  BY <1>2 DEF MetadataComes
<1>8. active /\ waiting = <<>> /\ NoM2mWork /\ swIsp = Simple!NoSwIsp
  BY <1>1, <1>2 DEF StagesSound, M2mPhases, SwIspPhases
<1>9. LeftOver'
  <2>1. SUFFICES ASSUME faults = 0, NEW r \in ToSet(queued), req[r].status = "Pending" PROVE r \in ToConvert
    BY <1>3 DEF LeftOver
  <2>2. r \in Request /\ Live(r)
    BY <1>1, <2>1, QueueOf DEF Booked, SimpleQueues, Live
  <2>3. Inputs = {} /\ (\A s \in AllStreams : OutputsOf(s) = {}) /\ StatsWork = {} /\ ToSet(video) = {}
    BY <1>8, ConvertersEmpty, ToSetOfEmpty
  <2>4. PICK f : f = req[r].sequence /\ f \in DOMAIN frameInfo /\ frameInfo[f].request = r
    BY <1>2, <2>2, FrameOf
  <2>5. req[r].pending # {} \/ Wanted(f)
    BY <1>1, <2>4 DEF Booked, Missing, Wanted
  <2>6. CASE req[r].pending # {}
    <3>1. PICK s : s \in req[r].pending
      BY <2>6
    <3>2. s \in AllStreams
      BY <1>1, <2>2, <3>1 DEF SimpleType, SimpleRequest
    <3>3. Held(r, s)
      BY <1>1, <2>2, <3>1, <3>2 DEF PiecesSound, Owes
    <3>4. QED
      BY <2>3, <3>2, <3>3 DEF Held
  <2>7. CASE Wanted(f)
    BY <1>1, <2>1, <2>3, <2>4, <2>7 DEF MetadataComes, Coming
  <2>8. QED
    BY <2>5, <2>6, <2>7
<1>10. StagesSound'
  BY <1>2, <1>8 DEF StagesSound
<1>11. M2mPhases' /\ SwIspPhases' /\ VideoPhases'
  BY <1>1, <1>2, <1>8 DEF M2mPhases, NoM2mWork, SwIspPhases, Simple!NoSwIsp, VideoPhases
<1>12. SwIspSound'
  BY <1>1, <1>2, SwIspKept DEF Coverage
<1>13. QED
  BY <1>3, <1>4, <1>5, <1>6, <1>7, <1>9, <1>10, <1>11, <1>12 DEF SimpleInv, SimplePhases
\* doCancelRequest()
LEMMA RequestCancelled ==
    ASSUME req \in [Request -> SimpleRequest], NEW r \in Request, req' = [req EXCEPT ![r].status = "Cancelled", ![r].pending = {}]
    PROVE  /\ req' \in [Request -> SimpleRequest] /\ \A q \in Request : q # r => req'[q] = req[q]
           /\ req'[r].status = "Cancelled"
<1>1. PICK e : e = [req[r] EXCEPT !.status = "Cancelled", !.pending = {}]
  OBVIOUS
<1>2. e \in SimpleRequest /\ e.status = "Cancelled"
  BY <1>1 DEF SimpleRequest
<1>3. req' = [req EXCEPT ![r] = e]
  BY <1>1
<1>4. QED
  BY <1>2, <1>3

\* clearIncompleteRequests(): what waits for its conversion is cancelled.
LEMMA ClearInv ==
    ASSUME SimpleInv, Simple!ClearIncompleteRequests
    PROVE  SimpleInv'
<1>1. /\ SimpleType /\ Booked /\ PiecesSound /\ MetadataComes /\ StagesSound /\ SwIspSound /\ M2mPhases /\ SwIspPhases /\ VideoPhases
      /\ VideoSound /\ M2mSound /\ ConversionSound /\ LeftOver
  BY DEF SimpleInv, SimplePhases
<1>2. /\ UNCHANGED <<config, queued, stopped, waiting, sequence, frameInfo, video, m2m, swIsp, faults>> /\ position = "clear"
  BY DEF Simple!ClearIncompleteRequests, Simple!queueVars, Simple!convVars
<1>3. Simple!Stage = "clear"
  BY <1>2 DEF Simple!Stage
<1>4. /\ active /\ waiting = <<>> /\ NoM2mWork /\ swIsp = Simple!NoSwIsp /\ video = <<>> /\ DOMAIN frameInfo = {}
  BY <1>1, <1>3 DEF StagesSound, M2mPhases, SwIspPhases, VideoPhases
<1>5. CASE conversionQueue = <<>>
  <2>1. active' = FALSE /\ position' = "waiting" /\ UNCHANGED <<req, conversionQueue, ret>>
    BY <1>5 DEF Simple!ClearIncompleteRequests
  <2>2. Simple!Stage' = "waiting"
    BY <2>1 DEF Simple!Stage
  <2>3. /\ ConversionSound' /\ VideoSound' /\ M2mSound' /\ ToConvert' = ToConvert /\ StatsWork' = StatsWork
        /\ \A q \in Request, t \in AllStreams : Held(q, t)' <=> Held(q, t)
    BY <1>2, <2>1, PlacesKept
  <2>4. SimpleType'
    BY <1>1, <1>2, <2>1 DEF SimpleType, SimpleStages
  <2>5. Booked'
    BY <1>1, <1>2, <1>4, <2>1, <2>2 DEF Booked, SimpleQueues, SimpleFrames, Missing, SimpleHeadWorks, Simple!Streams, Simple!Outs
  <2>6. PiecesSound'
    <3>1. \A q \in Request, t \in AllStreams : Owes(q, t)' <=> Owes(q, t)
      BY <1>2, <2>1 DEF Owes, Live
    <3>2. QED
      BY <1>1, <2>3, <3>1 DEF PiecesSound
  <2>7. MetadataComes'
    BY <1>2, <1>4 DEF MetadataComes
  <2>8. LeftOver'
    BY <1>1, <1>2, <1>3, <2>1, <2>3 DEF LeftOver
  <2>9. StagesSound'
    BY <1>2, <1>4, <2>1, <2>2 DEF StagesSound
  <2>10. M2mPhases' /\ SwIspPhases' /\ VideoPhases'
    BY <1>2, <1>4, <1>5, <2>1, <2>2 DEF M2mPhases, NoM2mWork, SwIspPhases, Simple!NoSwIsp, VideoPhases
  <2>11. SwIspSound'
    BY <1>1, <1>2, <1>3, SwIspKept DEF Coverage
  <2>12. QED
    BY <2>3, <2>4, <2>5, <2>6, <2>7, <2>8, <2>9, <2>10, <2>11 DEF SimpleInv, SimplePhases
<1>6. CASE conversionQueue # <<>>
  <2>1. PICK r : r = Head(conversionQueue).request
    OBVIOUS
  <2>2. /\ req' = [req EXCEPT ![r].status = "Cancelled", ![r].pending = {}]
        /\ conversionQueue' = Tail(conversionQueue) /\ position' = "complete" /\ ret' = "clear" /\ active' = active
    BY <1>6, <2>1 DEF Simple!ClearIncompleteRequests
  <2>3. Simple!Stage' = "clear"
    BY <2>2 DEF Simple!Stage
  <2>4. /\ r \in Request /\ r \in ToConvert /\ ToConvert' = ToConvert \ {r} /\ Head(conversionQueue).outputs = Simple!Outs(config)
        /\ \A s \in AllStreams : r \notin OutputsOf(s)
        /\ conversionQueue' \in Seq([request : Request, outputs : SUBSET AllStreams])
        /\ \A i, j \in DOMAIN conversionQueue' : conversionQueue'[i].request = conversionQueue'[j].request => i = j
        /\ \A i \in DOMAIN conversionQueue' : conversionQueue'[i].outputs = Simple!Outs(config')
    BY <1>1, <1>2, <1>6, <2>1, <2>2, ConversionPopped
  <2>5. config.conv # "none" /\ "a" \in Converted /\ "a" \in AllStreams
    <3>1. config.conv # "none"
      BY <1>1, <1>6 DEF VideoPhases
    <3>2. QED
      BY <3>1, StreamSets DEF AllStreams
  <2>6. Live(r)
    <3>1. Held(r, "a")
      BY <2>4, <2>5 DEF Held
    <3>2. QED
      BY <2>4, <2>5, <3>1, Owing
  <2>7. /\ req' \in [Request -> SimpleRequest] /\ (\A q \in Request : q # r => req'[q] = req[q]) /\ req'[r].status = "Cancelled"
    BY <1>1, <2>2, <2>4, RequestCancelled DEF SimpleType
  <2>8. /\ Captured' = Captured /\ Converted' = Converted /\ (Simple!Internal' <=> Simple!Internal)
        /\ Simple!Outs(config') = Simple!Outs(config)
    BY <1>2, SameConfig
  <2>9. /\ Inputs = {} /\ (\A s \in AllStreams : OutputsOf(s) = {}) /\ Inputs' = Inputs /\ (\A s \in AllStreams : OutputsOf(s)' = OutputsOf(s))
        /\ ToSet(video) = {}
    <3>1. Inputs = {} /\ (\A s \in AllStreams : OutputsOf(s) = {}) /\ ToSet(video) = {}
      BY <1>4, ConvertersEmpty, ToSetOfEmpty
    <3>2. Inputs' = Inputs /\ (\A s \in AllStreams : OutputsOf(s)' = OutputsOf(s))
      BY <1>2 DEF Inputs, OutputsOf
    <3>3. QED
      BY <3>1, <3>2
  <2>10. SimpleType'
    BY <1>1, <1>2, <2>2, <2>7 DEF SimpleType, SimpleStages
  <2>11. Booked'
    <3>1. \A q \in ToSet(queued) \cup ToSet(stopped) \cup ToSet(waiting) : q \in Request
      BY <1>1, QueueOf DEF Booked, SimpleQueues
    <3>2. SimpleQueues'
      <4>1. \A q \in ToSet(queued) \cup ToSet(stopped) \cup ToSet(waiting) : req'[q].status # "Free"
        BY <1>1, <2>7, <3>1 DEF Booked, SimpleQueues
      <4>2. ToSet(waiting) = {}
        BY <1>4, ToSetOfEmpty
      <4>3. QED
        BY <1>1, <1>2, <4>1, <4>2 DEF Booked, SimpleQueues
    <3>3. SimpleFrames' /\ Missing' /\ SimpleHeadWorks'
      BY <1>2, <1>4, <2>2, <2>3 DEF SimpleFrames, Missing, SimpleHeadWorks
    <3>4. QED
      BY <3>2, <3>3 DEF Booked
  <2>12. PiecesSound'
    <3>1. \A q \in Request, t \in AllStreams : Owes(q, t)' <=> Owes(q, t) /\ q # r
      BY <1>2, <2>7 DEF Owes, Live
    <3>2. \A q \in Request, t \in AllStreams : Held(q, t)' <=> Held(q, t) /\ q # r
      BY <1>2, <2>4, <2>8, <2>9 DEF Held
    <3>3. QED
      BY <1>1, <3>1, <3>2 DEF PiecesSound
  <2>13. MetadataComes'
    BY <1>2, <1>4 DEF MetadataComes
  <2>14. LeftOver'
    <3>1. \A q \in ToSet(queued) : q \in Request
      BY <1>1, QueueOf DEF Booked, SimpleQueues
    <3>2. QED
      BY <1>1, <1>2, <1>3, <2>4, <2>7, <3>1 DEF LeftOver
  <2>15. StagesSound'
    BY <1>2, <1>4, <2>2, <2>3 DEF StagesSound
  <2>16. M2mPhases' /\ SwIspPhases' /\ VideoPhases'
    BY <1>2, <1>4, <2>2, <2>3, <2>5 DEF M2mPhases, NoM2mWork, SwIspPhases, Simple!NoSwIsp, VideoPhases
  <2>17. SwIspSound'
    BY <1>1, <1>2, <1>3, SwIspKept DEF Coverage
  <2>18. M2mSound'
    BY <1>1, <1>2, M2mKept
  <2>19. ConversionSound'
    BY <2>4, <2>9 DEF ConversionSound
  <2>20. VideoSound'
    <3>1. Len(video') = 0 /\ Len(conversionQueue') \in Nat
      BY <1>2, <1>4, <2>4
    <3>2. QED
      BY <1>1, <1>2, <2>3, <2>8, <2>9, <3>1 DEF VideoSound
  <2>21. QED
    BY <2>10, <2>11, <2>12, <2>13, <2>14, <2>15, <2>16, <2>17, <2>18, <2>19, <2>20 DEF SimpleInv, SimplePhases
<1>7. QED
  BY <1>5, <1>6

\* When the requests that waited are next, all the others are done.
LEMMA NothingQueued ==
    ASSUME SimpleInv, position = "waiting", faults = 0
    PROVE  queued = <<>>
<1>1. Booked /\ StagesSound /\ VideoPhases /\ LeftOver
  BY DEF SimpleInv, SimplePhases
<1>2. Simple!Stage = "waiting"
  BY DEF Simple!Stage
<1>3. conversionQueue = <<>>
  BY <1>1, <1>2 DEF StagesSound, VideoPhases
<1>4. ToConvert = {}
  BY <1>3 DEF ToConvert
<1>5. SUFFICES ASSUME queued # <<>> PROVE FALSE
  OBVIOUS
<1>6. Head(queued) \in ToSet(queued)
  BY <1>1, <1>5, HeadInToSet DEF Booked, SimpleQueues
<1>7. req[Head(queued)].status = "Pending"
  BY <1>1, <1>5 DEF Booked, SimpleHeadWorks
<1>8. QED
  BY <1>1, <1>2, <1>4, <1>6, <1>7 DEF LeftOver

\* The end of stop().
LEMMA StopWaitingInv ==
    ASSUME SimpleInv, Simple!StopWaiting, fatal' = "none"
    PROVE  SimpleInv'
<1>1. /\ SimpleType /\ Booked /\ PiecesSound /\ MetadataComes /\ StagesSound /\ SwIspSound /\ M2mPhases /\ SwIspPhases /\ VideoPhases
      /\ VideoSound /\ M2mSound /\ ConversionSound /\ LeftOver
  BY DEF SimpleInv, SimplePhases
<1>2. /\ UNCHANGED <<config, active, waiting, frameInfo, conversionQueue, video, m2m, swIsp, faults>> /\ position = "waiting"
  BY DEF Simple!StopWaiting, Simple!convVars
<1>3. Simple!Stage = "waiting"
  BY <1>2 DEF Simple!Stage
<1>4. /\ ~active /\ waiting = <<>> /\ DOMAIN frameInfo = {}
  BY <1>1, <1>3 DEF StagesSound, VideoPhases
<1>5. /\ ConversionSound' /\ VideoSound' /\ M2mSound' /\ ToConvert' = ToConvert /\ StatsWork' = StatsWork
      /\ \A q \in Request, t \in AllStreams : Held(q, t)' <=> Held(q, t)
  BY <1>2, <1>4, PlacesKept
<1>6. MetadataComes'
  BY <1>2, <1>4 DEF MetadataComes
<1>7. CASE stopped = <<>>
  <2>1. queued = <<>> /\ sequence' = 0 /\ position' = "loop" /\ UNCHANGED <<ret, req, queued, stopped>>
    BY <1>7 DEF Simple!StopWaiting
  <2>2. Simple!Stage' = "loop"
    BY <2>1 DEF Simple!Stage
  <2>3. SimpleType'
    BY <1>1, <1>2, <2>1 DEF SimpleType, SimpleStages
  <2>4. Booked'
    <3>1. SimpleQueues'
      BY <1>1, <1>2, <2>1 DEF Booked, SimpleQueues, Simple!Streams, Simple!Outs
    <3>2. ToSet(queued') = {}
      BY <2>1, ToSetOfEmpty
    <3>3. SimpleFrames' /\ Missing' /\ SimpleHeadWorks'
      BY <1>2, <1>4, <2>1, <2>2, <3>2 DEF SimpleFrames, Missing, SimpleHeadWorks
    <3>4. QED
      BY <3>1, <3>3 DEF Booked
  <2>5. PiecesSound'
    <3>1. \A q \in Request, t \in AllStreams : Owes(q, t)' <=> Owes(q, t)
      BY <1>2, <2>1 DEF Owes, Live
    <3>2. QED
      BY <1>1, <1>5, <3>1 DEF PiecesSound
  <2>6. LeftOver'
    BY <2>2 DEF LeftOver
  <2>7. StagesSound'
    BY <1>2, <1>4, <1>7, <2>1, <2>2 DEF StagesSound
  <2>8. M2mPhases' /\ SwIspPhases' /\ VideoPhases'
    BY <1>1, <1>2, <1>4, <2>2 DEF M2mPhases, NoM2mWork, SwIspPhases, Simple!NoSwIsp, VideoPhases
  <2>9. SwIspSound'
    BY <1>1, <1>2, <1>3, SwIspKept DEF Coverage
  <2>10. QED
    BY <1>5, <1>6, <2>3, <2>4, <2>5, <2>6, <2>7, <2>8, <2>9 DEF SimpleInv, SimplePhases
<1>8. CASE stopped # <<>>
  <2>1. PICK r : r = Head(stopped)
    OBVIOUS
  <2>2. /\ stopped' = Tail(stopped) /\ queued' = Append(queued, r) /\ position' = "complete" /\ ret' = "waiting" /\ sequence' = sequence
        /\ req' = [req EXCEPT ![r].status = "Cancelled", ![r].pending = {}]
    BY <1>8, <2>1 DEF Simple!StopWaiting
  <2>3. Simple!Stage' = "waiting"
    BY <2>2 DEF Simple!Stage
  <2>4. /\ queued \in Seq(Request) /\ stopped \in Seq(Request) /\ IsInjective(queued) /\ IsInjective(stopped)
        /\ ToSet(queued) \cap ToSet(stopped) = {}
    BY <1>1 DEF Booked, SimpleQueues
  <2>5. /\ Tail(stopped) \in Seq(Request) /\ IsInjective(Tail(stopped)) /\ ToSet(Tail(stopped)) = ToSet(stopped) \ {r}
        /\ r \in Request /\ r \in ToSet(stopped)
    BY <1>8, <2>1, <2>4, PoppedQueue
  <2>6. r \notin ToSet(queued)
    BY <2>4, <2>5
  <2>7. /\ Append(queued, r) \in Seq(Request) /\ IsInjective(Append(queued, r)) /\ ToSet(Append(queued, r)) = ToSet(queued) \cup {r}
    BY <2>4, <2>5, <2>6, PushedQueue
  <2>8. /\ req' \in [Request -> SimpleRequest] /\ (\A q \in Request : q # r => req'[q] = req[q]) /\ req'[r].status = "Cancelled"
    BY <1>1, <2>2, <2>5, RequestCancelled DEF SimpleType
  <2>9. SimpleType'
    BY <1>1, <1>2, <2>2, <2>8 DEF SimpleType, SimpleStages
  <2>10. \A q \in ToSet(queued) \cup ToSet(stopped) : q \in Request
    BY <2>4, QueueOf
  <2>11. ToSet(waiting) = {}
    BY <1>4, ToSetOfEmpty
  <2>12. Booked'
    <3>1. \A q \in ToSet(queued') \cup ToSet(stopped') \cup ToSet(waiting') : req'[q].status # "Free"
      BY <1>1, <1>2, <2>2, <2>5, <2>7, <2>8, <2>10, <2>11 DEF Booked, SimpleQueues
    <3>2. ToSet(queued') \cap ToSet(stopped') = {}
      BY <2>2, <2>4, <2>5, <2>7
    <3>3. SimpleQueues'
      BY <1>1, <1>2, <2>2, <2>5, <2>7, <2>11, <3>1, <3>2 DEF Booked, SimpleQueues
    <3>4. SimpleFrames' /\ Missing' /\ SimpleHeadWorks'
      BY <1>2, <1>4, <2>2, <2>3 DEF SimpleFrames, Missing, SimpleHeadWorks
    <3>5. QED
      BY <3>3, <3>4 DEF Booked
  <2>13. PiecesSound'
    <3>1. \A q \in Request, t \in AllStreams : Owes(q, t)' <=> Owes(q, t)
      BY <2>2, <2>6, <2>7, <2>8 DEF Owes, Live
    <3>2. QED
      BY <1>1, <1>5, <3>1 DEF PiecesSound
  <2>14. LeftOver'
    BY <1>1, <1>2, <1>3, <1>5, <2>2, <2>7, <2>8, <2>10 DEF LeftOver
  <2>15. StagesSound'
    BY <1>2, <1>4, <2>2, <2>3 DEF StagesSound
  <2>16. M2mPhases' /\ SwIspPhases' /\ VideoPhases'
    BY <1>1, <1>2, <1>4, <2>3 DEF M2mPhases, NoM2mWork, SwIspPhases, Simple!NoSwIsp, VideoPhases
  <2>17. SwIspSound'
    BY <1>1, <1>2, <1>3, SwIspKept DEF Coverage
  <2>18. QED
    BY <1>5, <1>6, <2>9, <2>12, <2>13, <2>14, <2>15, <2>16, <2>17 DEF SimpleInv, SimplePhases
<1>9. QED
  BY <1>7, <1>8

\* PipelineHandler::completeRequest() gives back what is done, from the front.
LEMMA CompleteRequestInv ==
    ASSUME SimpleInv, Simple!CompleteRequest
    PROVE  SimpleInv'
<1>1. /\ SimpleType /\ Booked /\ PiecesSound /\ MetadataComes /\ StagesSound /\ SwIspSound /\ M2mPhases /\ SwIspPhases /\ VideoPhases
      /\ VideoSound /\ M2mSound /\ ConversionSound /\ LeftOver
  BY DEF SimpleInv, SimplePhases
<1>2. /\ UNCHANGED <<config, active, ret, waiting, stopped, sequence, frameInfo, conversionQueue, video, m2m, swIsp, faults>>
      /\ position = "complete" /\ position' \in {"complete", "doQueue"}
  BY DEF Simple!CompleteRequest, Simple!convVars
<1>3. Simple!Stage' = Simple!Stage
  BY <1>2 DEF Simple!Stage
<1>4. /\ ConversionSound' /\ VideoSound' /\ M2mSound' /\ ToConvert' = ToConvert /\ StatsWork' = StatsWork
      /\ \A q \in Request, t \in AllStreams : Held(q, t)' <=> Held(q, t)
  BY <1>2, <1>3, PlacesKept
<1>5. MetadataComes'
  BY <1>1, <1>2, <1>4 DEF MetadataComes, Wanted, Coming
<1>6. M2mPhases' /\ SwIspPhases' /\ VideoPhases' /\ SwIspSound'
  <2>1. SwIspSound'
    BY <1>1, <1>2, <1>3, SwIspKept DEF Coverage
  <2>2. QED
    BY <1>1, <1>2, <1>3, <2>1 DEF M2mPhases, NoM2mWork, SwIspPhases, Simple!NoSwIsp, VideoPhases
<1>7. CASE queued # <<>> /\ req[Head(queued)].status # "Pending"
  <2>1. PICK h : h = Head(queued)
    OBVIOUS
  <2>2. req' = [req EXCEPT ![h] = Simple!FreeRequest] /\ queued' = Tail(queued) /\ position' = position
    BY <1>7, <2>1 DEF Simple!CompleteRequest
  <2>3. /\ queued \in Seq(Request) /\ IsInjective(queued) /\ ToSet(queued) \cap ToSet(stopped) = {}
        /\ ToSet(queued) \cap ToSet(waiting) = {}
    BY <1>1 DEF Booked, SimpleQueues
  <2>4. /\ Tail(queued) \in Seq(Request) /\ IsInjective(Tail(queued)) /\ ToSet(Tail(queued)) = ToSet(queued) \ {h}
        /\ h \in Request /\ h \in ToSet(queued)
    BY <1>7, <2>1, <2>3, PoppedQueue
  <2>5. req' \in [Request -> SimpleRequest] /\ (\A q \in Request : q # h => req'[q] = req[q])
    <3>1. Simple!FreeRequest \in SimpleRequest
      BY DEF Simple!FreeRequest, SimpleRequest
    <3>2. QED
      BY <1>1, <2>2, <3>1 DEF SimpleType
  <2>6. SimpleType'
    BY <1>1, <1>2, <2>5 DEF SimpleType
  <2>7. \A q \in ToSet(queued) \cup ToSet(stopped) \cup ToSet(waiting) : q \in Request
    BY <1>1, QueueOf DEF Booked, SimpleQueues
  <2>8. \A q \in Request : Live(q)' <=> Live(q)
    BY <1>7, <2>1, <2>2, <2>4, <2>5 DEF Live
  <2>9. \A q \in Request : Live(q) => req'[q] = req[q]
    BY <1>7, <2>1, <2>5 DEF Live
  <2>10. Booked'
    <3>1. SimpleQueues'
      <4>1. \A q \in ToSet(queued') \cup ToSet(stopped') \cup ToSet(waiting') : q \in Request /\ q # h /\ req'[q] = req[q]
        BY <1>2, <2>2, <2>3, <2>4, <2>5, <2>7
      <4>2. ToSet(queued') \subseteq ToSet(queued)
        BY <2>2, <2>4
      <4>3. Simple!Streams(config') = Simple!Streams(config)
        BY <1>2
      <4>4. QED
        BY <1>1, <1>2, <2>2, <2>4, <4>1, <4>2, <4>3 DEF Booked, SimpleQueues
    <3>2. SimpleFrames' /\ Missing'
      <4>1. \A f \in DOMAIN frameInfo : frameInfo[f].request \in Request
        BY <1>1 DEF SimpleType, FrameEntry
      <4>2. \A f \in DOMAIN frameInfo : Live(frameInfo[f].request)' /\ req'[frameInfo[f].request] = req[frameInfo[f].request]
        BY <1>1, <1>2, <2>8, <2>9, <4>1 DEF Booked, SimpleFrames
      <4>3. SimpleFrames'
        <5>1. \A f \in DOMAIN frameInfo' : f < sequence' /\ Live(frameInfo[f].request)' /\ req'[frameInfo'[f].request].sequence = f
          BY <1>1, <1>2, <4>2 DEF Booked, SimpleFrames
        <5>2. Simple!Stage' \notin {"clear", "waiting"} => \A q \in ToSet(queued') : req'[q].status = "Pending" =>
                  req'[q].sequence \in DOMAIN frameInfo' /\ frameInfo'[req'[q].sequence].request = q
          <6>1. \A q \in ToSet(queued') : q \in ToSet(queued) /\ req'[q] = req[q]
            BY <2>2, <2>4, <2>5, <2>7
          <6>2. QED
            BY <1>1, <1>2, <1>3, <6>1 DEF Booked, SimpleFrames
        <5>3. QED
          BY <5>1, <5>2 DEF SimpleFrames
      <4>4. Missing'
        BY <1>1, <1>2, <4>2 DEF Booked, Missing
      <4>5. QED
        BY <4>3, <4>4
    <3>3. SimpleHeadWorks'
      BY <1>2, <2>2 DEF SimpleHeadWorks
    <3>4. QED
      BY <3>1, <3>2, <3>3 DEF Booked
  <2>11. PiecesSound'
    <3>1. \A q \in Request, t \in AllStreams : Owes(q, t)' <=> Owes(q, t)
      BY <2>8, <2>9 DEF Owes
    <3>2. QED
      BY <1>1, <1>4, <3>1 DEF PiecesSound
  <2>12. LeftOver'
    <3>1. \A q \in ToSet(queued') : q \in ToSet(queued) /\ req'[q] = req[q]
      BY <2>2, <2>4, <2>5, <2>7
    <3>2. QED
      BY <1>1, <1>2, <1>3, <1>4, <3>1 DEF LeftOver
  <2>13. StagesSound'
    <3>1. queued # <<>>
      BY <1>7
    <3>2. QED
      BY <1>1, <1>2, <1>3, <3>1 DEF StagesSound
  <2>14. QED
    BY <1>4, <1>5, <1>6, <2>6, <2>10, <2>11, <2>12, <2>13 DEF SimpleInv, SimplePhases
<1>8. CASE ~(queued # <<>> /\ req[Head(queued)].status # "Pending")
  <2>1. position' = "doQueue" /\ req' = req /\ queued' = queued
    BY <1>8 DEF Simple!CompleteRequest
  <2>2. SimpleType'
    BY <1>1, <1>2, <2>1 DEF SimpleType
  <2>3. Booked'
    <3>1. SimpleHeadWorks'
      BY <1>8, <2>1 DEF SimpleHeadWorks
    <3>2. QED
      BY <1>1, <1>2, <1>3, <2>1, <3>1 DEF Booked, SimpleQueues, SimpleFrames, Live, Missing, Simple!Streams, Simple!Outs
  <2>4. PiecesSound'
    <3>1. \A q \in Request, t \in AllStreams : Owes(q, t)' <=> Owes(q, t)
      BY <2>1 DEF Owes, Live
    <3>2. QED
      BY <1>1, <1>4, <3>1 DEF PiecesSound
  <2>5. LeftOver' /\ StagesSound'
    BY <1>1, <1>2, <1>3, <1>4, <2>1 DEF LeftOver, StagesSound
  <2>6. QED
    BY <1>4, <1>5, <1>6, <2>2, <2>3, <2>4, <2>5 DEF SimpleInv, SimplePhases
<1>9. QED
  BY <1>7, <1>8

\* A request of the application, with a buffer for every stream.
LEMMA QueueRequestInv ==
    ASSUME SimpleInv, NEW r \in Request, Simple!QueueRequest(r, Simple!Streams(config))
    PROVE  SimpleInv'
<1>1. /\ SimpleType /\ Booked /\ PiecesSound /\ MetadataComes /\ StagesSound /\ SwIspSound /\ M2mPhases /\ SwIspPhases /\ VideoPhases
      /\ VideoSound /\ M2mSound /\ ConversionSound /\ LeftOver
  BY DEF SimpleInv, SimplePhases
<1>2. PICK e : e = [status |-> "Pending", pending |-> Simple!Streams(config), sequence |-> 0]
  OBVIOUS
<1>3. /\ UNCHANGED <<config, active, queued, stopped, sequence, frameInfo, conversionQueue, video, m2m, swIsp, faults>>
      /\ active /\ position = "loop" /\ position' = "doQueue" /\ ret' = "loop" /\ req[r].status = "Free"
      /\ waiting' = Append(waiting, r) /\ req' = [req EXCEPT ![r] = e]
  BY <1>2 DEF Simple!QueueRequest, Simple!convVars
<1>4. Simple!Stage = "loop" /\ Simple!Stage' = "loop"
  BY <1>3 DEF Simple!Stage
<1>5. /\ ConversionSound' /\ VideoSound' /\ M2mSound' /\ ToConvert' = ToConvert /\ StatsWork' = StatsWork
      /\ \A q \in Request, t \in AllStreams : Held(q, t)' <=> Held(q, t)
  BY <1>3, <1>4, PlacesKept
<1>6. e \in SimpleRequest /\ e.status = "Pending" /\ e.pending = Simple!Streams(config)
  <2>1. Simple!Streams(config) \subseteq AllStreams
    BY DEF Simple!Streams, Simple!Outs, AllStreams
  <2>2. QED
    BY <1>2, <2>1 DEF SimpleRequest
<1>7. req' \in [Request -> SimpleRequest] /\ req'[r] = e /\ (\A q \in Request : q # r => req'[q] = req[q])
  BY <1>1, <1>3, <1>6 DEF SimpleType
<1>8. r \notin ToSet(queued) /\ r \notin ToSet(stopped) /\ r \notin ToSet(waiting)
  BY <1>1, <1>3 DEF Booked, SimpleQueues
<1>9. waiting' \in Seq(Request) /\ IsInjective(waiting') /\ ToSet(waiting') = ToSet(waiting) \cup {r}
  BY <1>1, <1>3, <1>8, PushedQueue DEF Booked, SimpleQueues
<1>10. SimpleType'
  BY <1>1, <1>3, <1>7 DEF SimpleType, SimpleStages
<1>11. \A q \in ToSet(queued) \cup ToSet(stopped) \cup ToSet(waiting) : q \in Request /\ q # r /\ req'[q] = req[q]
  <2>1. \A q \in ToSet(queued) \cup ToSet(stopped) \cup ToSet(waiting) : q \in Request
    BY <1>1, QueueOf DEF Booked, SimpleQueues
  <2>2. QED
    BY <1>7, <1>8, <2>1
<1>12. Booked'
  <2>1. SimpleQueues'
    <3>1. \A q \in ToSet(waiting') : req'[q].status = "Pending" /\ req'[q].pending = Simple!Streams(config')
      BY <1>1, <1>3, <1>6, <1>7, <1>9, <1>11 DEF Booked, SimpleQueues
    <3>2. \A q \in ToSet(queued') \cup ToSet(stopped') \cup ToSet(waiting') : req'[q].status # "Free"
      BY <1>1, <1>3, <1>11, <3>1 DEF Booked, SimpleQueues
    <3>3. ToSet(queued') \cap ToSet(waiting') = {} /\ ToSet(stopped') \cap ToSet(waiting') = {}
      BY <1>1, <1>3, <1>8, <1>9 DEF Booked, SimpleQueues
    <3>4. QED
      BY <1>1, <1>3, <1>9, <3>1, <3>2, <3>3 DEF Booked, SimpleQueues
  <2>2. SimpleFrames' /\ Missing'
    <3>1. \A f \in DOMAIN frameInfo : frameInfo[f].request \in ToSet(queued)
      BY <1>1 DEF Booked, SimpleFrames, Live
    <3>2. SimpleFrames'
      BY <1>1, <1>3, <1>4, <1>11, <3>1 DEF Booked, SimpleFrames, Live
    <3>3. Missing'
      BY <1>1, <1>3, <1>11, <3>1 DEF Booked, Missing
    <3>4. QED
      BY <3>2, <3>3
  <2>3. SimpleHeadWorks'
    <3>1. queued # <<>> => Head(queued) \in ToSet(queued)
      BY <1>1, HeadInToSet DEF Booked, SimpleQueues
    <3>2. QED
      BY <1>1, <1>3, <1>11, <3>1 DEF Booked, SimpleHeadWorks
  <2>4. QED
    BY <2>1, <2>2, <2>3 DEF Booked
<1>13. PiecesSound'
  <2>1. \A q \in Request, t \in AllStreams : Owes(q, t)' <=> Owes(q, t)
    BY <1>3, <1>11 DEF Owes, Live
  <2>2. QED
    BY <1>1, <1>5, <2>1 DEF PiecesSound
<1>14. MetadataComes' /\ LeftOver'
  BY <1>1, <1>3, <1>4, <1>5 DEF MetadataComes, Wanted, Coming, LeftOver
<1>15. StagesSound'
  BY <1>1, <1>3, <1>4 DEF StagesSound
<1>16. M2mPhases' /\ SwIspPhases' /\ VideoPhases' /\ SwIspSound'
  <2>1. SwIspSound'
    BY <1>1, <1>3, <1>4, SwIspKept DEF Coverage
  <2>2. QED
    BY <1>1, <1>3, <1>4, <2>1 DEF M2mPhases, NoM2mWork, SwIspPhases, Simple!NoSwIsp, VideoPhases
<1>17. QED
  BY <1>5, <1>10, <1>12, <1>13, <1>14, <1>15, <1>16 DEF SimpleInv, SimplePhases
LEMMA ConversionPushed ==
    ASSUME ConversionSound, config' = config, NEW r \in Request, r \notin ToConvert,
           conversionQueue' = Append(conversionQueue, [request |-> r, outputs |-> Simple!Outs(config)])
    PROVE  /\ ToConvert' = ToConvert \cup {r}
           /\ conversionQueue' \in Seq([request : Request, outputs : SUBSET AllStreams])
           /\ \A i, j \in DOMAIN conversionQueue' : conversionQueue'[i].request = conversionQueue'[j].request => i = j
           /\ \A i \in DOMAIN conversionQueue' : conversionQueue'[i].outputs = Simple!Outs(config')
           /\ Len(conversionQueue') = Len(conversionQueue) + 1 /\ Len(conversionQueue) \in Nat
<1> DEFINE Q == [request : Request, outputs : SUBSET AllStreams]
<1>1. conversionQueue \in Seq(Q)
  BY DEF ConversionSound
<1>2. PICK x \in Q : x = [request |-> r, outputs |-> Simple!Outs(config)] /\ x.request = r /\ x.outputs = Simple!Outs(config)
  <2>1. [request |-> r, outputs |-> Simple!Outs(config)] \in Q
    BY DEF Simple!Outs, AllStreams
  <2>2. PICK x \in Q : x = [request |-> r, outputs |-> Simple!Outs(config)]
    BY <2>1
  <2>3. x.request = r /\ x.outputs = Simple!Outs(config)
    BY <2>2
  <2>4. QED
    BY <2>2, <2>3
<1> HIDE DEF Q
<1>3. PICK q \in Seq(Q), n \in Nat : q = conversionQueue /\ n = Len(q)
  <2>1. Len(conversionQueue) \in Nat
    BY <1>1
  <2>2. QED
    BY <1>1, <2>1
<1>a. /\ Append(q, x) \in Seq(Q) /\ Len(Append(q, x)) = Len(q) + 1 /\ DOMAIN Append(q, x) = 1 .. Len(q) + 1 /\ DOMAIN q = 1 .. Len(q) /\ Append(q, x)[Len(q) + 1] = x
      /\ \A i \in 1 .. Len(q) : Append(q, x)[i] = q[i]
  OBVIOUS
<1>4. PICK t \in Seq(Q) : t = Append(q, x) /\ DOMAIN t = 1 .. n + 1 /\ DOMAIN q = 1 .. n /\ t[n + 1] = x /\ Len(t) = n + 1 /\ \A i \in 1 .. n : t[i] = q[i]
  BY <1>3, <1>a
<1>5. conversionQueue' = t
  BY <1>2, <1>3, <1>4
<1>6. \A i \in 1 .. n : t[i].request # r
  BY <1>3, <1>4 DEF ToConvert
<1>7. \A i \in 1 .. n + 1 : i \in 1 .. n \/ i = n + 1
  OBVIOUS
<1>8. \A i \in 1 .. n : i \in 1 .. n + 1
  OBVIOUS
<1>9. n + 1 \in 1 .. n + 1
  OBVIOUS
<1>10. ToConvert' = ToConvert \cup {r}
  <2>1. ToConvert' = {t[i].request : i \in 1 .. n + 1} /\ ToConvert = {q[i].request : i \in 1 .. n}
    <3>1. DOMAIN conversionQueue = 1 .. n /\ conversionQueue = q /\ DOMAIN conversionQueue' = 1 .. n + 1
      BY <1>3, <1>4, <1>5
    <3>2. QED
      BY <1>5, <3>1 DEF ToConvert
  <2>2. ASSUME NEW y \in ToConvert' PROVE y \in ToConvert \cup {r}
    <3>1. PICK i \in 1 .. n + 1 : y = t[i].request
      BY <2>1
    <3>2. QED
      BY <1>2, <1>4, <1>7, <2>1, <3>1
  <2>3. \A i \in 1 .. n : q[i].request \in ToConvert'
    BY <1>4, <1>8, <2>1
  <2>4. r \in ToConvert'
    BY <1>2, <1>4, <1>9, <2>1
  <2>5. QED
    BY <2>1, <2>2, <2>3, <2>4
<1>11. \A i, j \in 1 .. n + 1 : t[i].request = t[j].request => i = j
  <2>1. \A i, j \in 1 .. n : t[i].request = t[j].request => i = j
    BY <1>3, <1>4 DEF ConversionSound
  <2>2. QED
    BY <1>2, <1>4, <1>6, <1>7, <2>1
<1>12. \A i \in 1 .. n + 1 : t[i].outputs = Simple!Outs(config')
  <2>1. \A i \in 1 .. n : t[i].outputs = Simple!Outs(config)
    BY <1>3, <1>4 DEF ConversionSound
  <2>2. QED
    BY <1>2, <1>4, <1>7, <2>1
<1>13. t \in Seq([request : Request, outputs : SUBSET AllStreams])
  BY DEF Q
<1>14. QED
  BY <1>3, <1>4, <1>5, <1>10, <1>11, <1>12, <1>13

\* A request that is not queued yet has nothing anywhere.
LEMMA NothingHeld ==
    ASSUME SimpleInv, NEW r \in Request, r \notin ToSet(queued)
    PROVE  /\ ~Simple!Internal => Simple!RequestBuffer(r) \notin ToSet(video) \cup Inputs
           /\ r \notin ToConvert /\ \A s \in AllStreams : r \notin OutputsOf(s)
<1>1. \A s \in AllStreams : ~Held(r, s)
  BY DEF SimpleInv, PiecesSound, Owes, Live
<1>2. ~Simple!Internal => Simple!RequestBuffer(r) \notin ToSet(video) \cup Inputs
  BY <1>1, StreamSets DEF Held
<1>3. config.conv # "none" => "a" \in Converted /\ r \notin ToConvert
  <2>1. config.conv # "none" => "a" \in Converted /\ "a" \in AllStreams
    BY StreamSets DEF AllStreams
  <2>2. QED
    BY <1>1, <2>1 DEF Held
<1>4. config.conv = "none" => ToConvert = {}
  BY DEF SimpleInv, SimplePhases, VideoPhases, ToConvert
<1>5. \A s \in AllStreams : s \in Converted \/ OutputsOf(s) = {}
  <2>1. M2mPhases /\ SwIspPhases
    BY DEF SimpleInv, SimplePhases
  <2>2. config.conv # "m2m" => m2m.out["a"] = <<>> /\ m2m.out["b"] = <<>>
    BY <2>1 DEF M2mPhases, NoM2mWork
  <2>3. config.conv # "soft" => swIsp.out = <<>>
    BY <2>1 DEF SwIspPhases, Simple!NoSwIsp
  <2>4. /\ (config.conv = "m2m" => Converted = {"a", "b"}) /\ (config.conv = "soft" => Converted = {"a"})
        /\ config.conv \in {"none", "m2m", "soft"}
    BY StreamSets
  <2>5. ToSet(<<>>) = {}
    BY ToSetOfEmpty
  <2>6. CASE config.conv = "m2m"
    BY <2>4, <2>6 DEF OutputsOf
  <2>7. CASE config.conv = "soft"
    BY <2>2, <2>4, <2>5, <2>7 DEF OutputsOf
  <2>8. CASE config.conv = "none"
    BY <2>2, <2>3, <2>5, <2>8 DEF OutputsOf
  <2>9. QED
    BY <2>4, <2>6, <2>7, <2>8
<1>6. QED
  BY <1>1, <1>2, <1>3, <1>4, <1>5 DEF Held

\* doQueueRequests() gives a request to the device.
LEMMA QueuedToDevice ==
    ASSUME SimpleInv, Simple!DoQueueRequests, waiting # <<>>, Len(queued) # MaxQueued
    PROVE  SimpleInv' /\ fatal' = fatal
<1>1. /\ SimpleType /\ Booked /\ PiecesSound /\ MetadataComes /\ StagesSound /\ SwIspSound /\ M2mPhases /\ SwIspPhases /\ VideoPhases
      /\ VideoSound /\ M2mSound /\ ConversionSound /\ LeftOver
  BY DEF SimpleInv, SimplePhases
<1>2. PICK h : h = Head(waiting)
  OBVIOUS
<1>3. /\ UNCHANGED <<config, active, ret, stopped, m2m, swIsp, faults, position>> /\ position = "doQueue"
      /\ waiting' = Tail(waiting) /\ queued' = Append(queued, h) /\ req' = [req EXCEPT ![h].sequence = sequence] /\ sequence' = sequence + 1
      /\ Simple!queueRequestDevice(h)
  BY <1>2 DEF Simple!DoQueueRequests, Simple!convVars
<1>4. Simple!Stage' = Simple!Stage /\ Simple!Stage = "loop" /\ active /\ ret = "loop"
  BY <1>1, <1>3 DEF Simple!Stage, StagesSound
<1>5. /\ Captured' = Captured /\ Converted' = Converted /\ (Simple!Internal' <=> Simple!Internal)
      /\ Simple!Outs(config') = Simple!Outs(config) /\ Simple!Streams(config') = Simple!Streams(config)
  BY <1>3, SameConfig
<1>6. /\ queued \in Seq(Request) /\ waiting \in Seq(Request) /\ IsInjective(queued) /\ IsInjective(waiting)
      /\ ToSet(queued) \cap ToSet(waiting) = {} /\ ToSet(stopped) \cap ToSet(waiting) = {}
  BY <1>1 DEF Booked, SimpleQueues
<1>7. /\ Tail(waiting) \in Seq(Request) /\ IsInjective(Tail(waiting)) /\ ToSet(Tail(waiting)) = ToSet(waiting) \ {h}
      /\ h \in Request /\ h \in ToSet(waiting)
  BY <1>2, <1>6, PoppedQueue
<1>8. h \notin ToSet(queued) /\ h \notin ToSet(stopped)
  BY <1>6, <1>7
<1>9. /\ Append(queued, h) \in Seq(Request) /\ IsInjective(Append(queued, h)) /\ ToSet(Append(queued, h)) = ToSet(queued) \cup {h}
  BY <1>6, <1>7, <1>8, PushedQueue
<1>10. req[h].status = "Pending" /\ req[h].pending = Simple!Streams(config)
  BY <1>1, <1>7 DEF Booked, SimpleQueues
<1>11. sequence \in Nat /\ sequence' \in Nat /\ sequence' = sequence + 1
  BY <1>1, <1>3 DEF SimpleType
<1>12. /\ req' \in [Request -> SimpleRequest] /\ (\A q \in Request : q # h => req'[q] = req[q])
       /\ req'[h].status = "Pending" /\ req'[h].pending = Simple!Streams(config) /\ req'[h].sequence = sequence
  <2>1. req \in [Request -> SimpleRequest] /\ req[h] \in SimpleRequest
    BY <1>1, <1>7 DEF SimpleType
  <2>2. PICK e : e = [req[h] EXCEPT !.sequence = sequence]
    OBVIOUS
  <2>3. e \in SimpleRequest /\ e.status = "Pending" /\ e.pending = Simple!Streams(config) /\ e.sequence = sequence
    BY <1>10, <1>11, <2>1, <2>2 DEF SimpleRequest
  <2>4. req' = [req EXCEPT ![h] = e]
    BY <1>3, <2>2
  <2>5. QED
    BY <1>7, <2>1, <2>3, <2>4
<1>13. sequence \notin DOMAIN frameInfo
  <2>1. \A f \in DOMAIN frameInfo : f < sequence
    BY <1>1 DEF Booked, SimpleFrames
  <2>2. QED
    BY <1>11, <2>1
<1>14. PICK outputs : outputs = IF Simple!useConversion THEN req[h].pending \ {"raw"} ELSE {}
  OBVIOUS
<1>15. /\ (Simple!useConversion => outputs = Simple!Outs(config)) /\ (~Simple!useConversion => outputs = {})
       /\ (req[h].pending # outputs <=> ~Simple!Internal) /\ Simple!Streams(config) = Captured \cup Converted /\ Simple!Streams(config) # {}
       /\ Simple!Streams(config) \subseteq AllStreams
  <2>1. config.conv \in {"none", "m2m", "soft"} /\ config.raw \in BOOLEAN /\ (config.conv = "none" => ~config.raw)
    BY StreamSets
  <2>2. Simple!Streams(config) = Simple!Outs(config) \cup IF config.raw THEN {"raw"} ELSE {}
    BY DEF Simple!Streams
  <2>3. Simple!Outs(config) = IF config.conv = "m2m" THEN {"a", "b"} ELSE {"a"}
    BY DEF Simple!Outs
  <2>4. Simple!useConversion <=> config.conv # "none"
    BY DEF Simple!useConversion
  <2>5. Simple!CapturedStream = IF config.raw THEN "raw" ELSE "a"
    BY DEF Simple!CapturedStream
  <2>6. CASE config.raw
    BY <1>10, <1>14, <2>1, <2>2, <2>3, <2>4, <2>5, <2>6 DEF Captured, Converted, Simple!Internal, AllStreams
  <2>7. CASE ~config.raw
    BY <1>10, <1>14, <2>1, <2>2, <2>3, <2>4, <2>5, <2>7 DEF Captured, Converted, Simple!Internal, AllStreams
  <2>8. QED
    BY <2>6, <2>7
<1>16. /\ video' = IF ~Simple!Internal THEN Append(video, Simple!RequestBuffer(h)) ELSE video
       /\ conversionQueue' = IF Simple!useConversion THEN Append(conversionQueue, [request |-> h, outputs |-> Simple!Outs(config)])
                             ELSE conversionQueue
       /\ fatal' = fatal
       /\ frameInfo' = [f \in DOMAIN frameInfo \cup {sequence} |->
              IF f \in DOMAIN frameInfo THEN frameInfo[f]
              ELSE [request |-> h, required |-> outputs # {} /\ config.conv = "soft", processed |-> FALSE]]
  BY <1>3, <1>13, <1>14, <1>15 DEF Simple!queueRequestDevice
<1>17. PICK x : x = [request |-> h, required |-> outputs # {} /\ config.conv = "soft", processed |-> FALSE]
  OBVIOUS
<1>18. x \in FrameEntry /\ x.request = h /\ (x.required => config.conv = "soft")
  BY <1>7, <1>17 DEF FrameEntry
<1>19. /\ DOMAIN frameInfo' = DOMAIN frameInfo \cup {sequence} /\ (\A f \in DOMAIN frameInfo : frameInfo'[f] = frameInfo[f])
       /\ frameInfo'[sequence] = x
  BY <1>13, <1>16, <1>17
<1>20. /\ ~Simple!Internal => Simple!RequestBuffer(h) \notin ToSet(video) \cup Inputs
       /\ h \notin ToConvert /\ \A s \in AllStreams : h \notin OutputsOf(s)
  BY <1>7, <1>8, NothingHeld
<1>21. Inputs' = Inputs /\ (\A s : OutputsOf(s)' = OutputsOf(s)) /\ StatsWork' = StatsWork
  BY <1>3 DEF Inputs, OutputsOf, StatsWork
<1>22. /\ ToConvert' = ToConvert \cup (IF Simple!useConversion THEN {h} ELSE {}) /\ ConversionSound'
       /\ Len(conversionQueue') = Len(conversionQueue) + (IF Simple!useConversion THEN 1 ELSE 0) /\ Len(conversionQueue) \in Nat
  <2>1. CASE Simple!useConversion
    <3>1. /\ ToConvert' = ToConvert \cup {h}
          /\ conversionQueue' \in Seq([request : Request, outputs : SUBSET AllStreams])
          /\ \A i, j \in DOMAIN conversionQueue' : conversionQueue'[i].request = conversionQueue'[j].request => i = j
          /\ \A i \in DOMAIN conversionQueue' : conversionQueue'[i].outputs = Simple!Outs(config')
          /\ Len(conversionQueue') = Len(conversionQueue) + 1 /\ Len(conversionQueue) \in Nat
      BY <1>1, <1>3, <1>7, <1>16, <1>20, <2>1, ConversionPushed
    <3>2. ConversionSound'
      BY <1>1, <1>20, <1>21, <3>1 DEF ConversionSound
    <3>3. QED
      BY <2>1, <3>1, <3>2
  <2>2. CASE ~Simple!useConversion
    <3>1. ToConvert' = ToConvert /\ conversionQueue' = conversionQueue
      BY <1>16, <2>2 DEF ToConvert
    <3>2. ConversionSound' /\ Len(conversionQueue) \in Nat
      BY <1>1, <1>5, <1>21, <3>1 DEF ConversionSound
    <3>3. QED
      BY <2>2, <3>1, <3>2
  <2>3. QED
    BY <2>1, <2>2
<1>23. /\ ToSet(video') = ToSet(video) \cup (IF Simple!Internal THEN {} ELSE {Simple!RequestBuffer(h)}) /\ VideoSound'
  <2>1. CASE Simple!Internal
    <3>1. video' = video /\ config.raw = FALSE
      BY <1>16, <2>1, StreamSets DEF Simple!Internal
    <3>2. VideoSound'
      BY <1>1, <1>3, <1>4, <1>5, <1>21, <2>1, <3>1 DEF VideoSound
    <3>3. QED
      BY <2>1, <3>1, <3>2
  <2>2. CASE ~Simple!Internal
    <3>1. PICK b : b = Simple!RequestBuffer(h)
      OBVIOUS
    <3>2. b \in RequestBuffers /\ b \in CaptureBuffers /\ b \notin ToSet(video) /\ b \notin Inputs
      BY <1>7, <1>20, <2>2, <3>1 DEF RequestBuffers, CaptureBuffers
    <3>3. video \in Seq(CaptureBuffers) /\ IsInjective(video)
      BY <1>1 DEF VideoSound
    <3>4. /\ Append(video, b) \in Seq(CaptureBuffers) /\ IsInjective(Append(video, b)) /\ ToSet(Append(video, b)) = ToSet(video) \cup {b}
          /\ Len(Append(video, b)) = Len(video) + 1 /\ Len(video) \in Nat
      BY <3>2, <3>3, PushedQueue
    <3>5. video' = Append(video, b)
      BY <1>16, <2>2, <3>1
    <3>6. config'.raw => Len(video') <= Len(conversionQueue')
      <4>1. config.raw => Simple!useConversion
        BY StreamSets
      <4>2. QED
        BY <1>1, <1>3, <1>22, <3>4, <3>5, <4>1 DEF VideoSound
    <3>7. VideoSound'
      BY <1>1, <1>5, <1>21, <2>2, <3>2, <3>4, <3>5, <3>6 DEF VideoSound
    <3>8. QED
      BY <2>2, <3>1, <3>4, <3>5, <3>7
  <2>3. QED
    BY <2>1, <2>2
<1>24. SimpleType'
  BY <1>1, <1>3, <1>11, <1>12, <1>18, <1>19 DEF SimpleType
<1>25. \A q \in ToSet(queued) \cup ToSet(stopped) \cup ToSet(waiting) : q \in Request /\ (q # h => req'[q] = req[q])
  <2>1. \A q \in ToSet(queued) \cup ToSet(stopped) \cup ToSet(waiting) : q \in Request
    BY <1>1, QueueOf DEF Booked, SimpleQueues
  <2>2. QED
    BY <1>12, <2>1
<1>26. Booked'
  <2>1. SimpleQueues'
    <3>1. /\ ToSet(queued') \cap ToSet(stopped') = {} /\ ToSet(queued') \cap ToSet(waiting') = {}
          /\ ToSet(stopped') \cap ToSet(waiting') = {}
      BY <1>1, <1>3, <1>6, <1>7, <1>8, <1>9 DEF Booked, SimpleQueues
    <3>2. \A q \in ToSet(queued') \cup ToSet(stopped') \cup ToSet(waiting') : req'[q].status # "Free"
      BY <1>1, <1>3, <1>7, <1>9, <1>12, <1>25 DEF Booked, SimpleQueues
    <3>3. \A q \in ToSet(waiting') : req'[q].status = "Pending" /\ req'[q].pending = Simple!Streams(config')
      BY <1>1, <1>3, <1>5, <1>7, <1>25 DEF Booked, SimpleQueues
    <3>4. QED
      BY <1>1, <1>3, <1>7, <1>9, <3>1, <3>2, <3>3 DEF Booked, SimpleQueues
  <2>2. \A f \in DOMAIN frameInfo : frameInfo[f].request \in ToSet(queued) /\ frameInfo[f].request # h /\ f < sequence
    BY <1>1, <1>8 DEF Booked, SimpleFrames, Live
  <2>3. SimpleFrames'
    <3>1. ASSUME NEW f \in DOMAIN frameInfo'
          PROVE  f < sequence' /\ frameInfo'[f].request \in ToSet(queued') /\ req'[frameInfo'[f].request].status = "Pending"
                 /\ req'[frameInfo'[f].request].sequence = f
      <4>1. CASE f \in DOMAIN frameInfo
        <5>1. f < sequence' /\ frameInfo'[f] = frameInfo[f] /\ req'[frameInfo[f].request] = req[frameInfo[f].request]
          <6>1. f \in Nat /\ f < sequence
            BY <1>1, <2>2, <4>1 DEF SimpleType
          <6>2. QED
            BY <1>11, <1>19, <1>25, <2>2, <4>1, <6>1
        <5>2. QED
          BY <1>1, <1>3, <1>9, <2>2, <4>1, <5>1 DEF Booked, SimpleFrames, Live
      <4>2. CASE f = sequence
        BY <1>3, <1>9, <1>11, <1>12, <1>18, <1>19, <4>2
      <4>3. QED
        BY <1>19, <4>1, <4>2
    <3>2. ASSUME NEW q \in ToSet(queued'), req'[q].status = "Pending"
          PROVE  req'[q].sequence \in DOMAIN frameInfo' /\ frameInfo'[req'[q].sequence].request = q
      <4>1. CASE q = h
        BY <1>12, <1>18, <1>19, <4>1
      <4>2. CASE q # h
        <5>1. q \in ToSet(queued) /\ req'[q] = req[q]
          BY <1>3, <1>9, <1>25, <3>2, <4>2
        <5>2. req[q].sequence \in DOMAIN frameInfo /\ frameInfo[req[q].sequence].request = q
          BY <1>1, <1>4, <3>2, <5>1 DEF Booked, SimpleFrames
        <5>3. QED
          BY <1>19, <5>1, <5>2
      <4>3. QED
        BY <4>1, <4>2
    <3>3. QED
      BY <3>1, <3>2 DEF SimpleFrames, Live
  <2>4. Missing'
    <3>1. ASSUME NEW f \in DOMAIN frameInfo'
          PROVE  req'[frameInfo'[f].request].pending # {} \/ (frameInfo'[f].required /\ ~frameInfo'[f].processed)
      <4>1. CASE f \in DOMAIN frameInfo
        <5>1. frameInfo'[f] = frameInfo[f] /\ req'[frameInfo[f].request] = req[frameInfo[f].request]
          BY <1>19, <1>25, <2>2, <4>1
        <5>2. QED
          BY <1>1, <4>1, <5>1 DEF Booked, Missing
      <4>2. CASE f = sequence
        BY <1>12, <1>15, <1>18, <1>19, <4>2
      <4>3. QED
        BY <1>19, <4>1, <4>2
    <3>2. QED
      BY <3>1 DEF Missing
  <2>5. SimpleHeadWorks'
    <3>1. CASE queued = <<>>
      <4>1. Head(queued') = h
        BY <1>3, <1>7, <3>1
      <4>2. QED
        BY <1>12, <4>1 DEF SimpleHeadWorks
    <3>2. CASE queued # <<>>
      <4>1. Head(queued') = Head(queued) /\ Head(queued) \in ToSet(queued)
        <5>1. Head(Append(queued, h)) = Head(queued)
          BY <1>6, <1>7, <3>2
        <5>2. QED
          BY <1>3, <1>6, <3>2, <5>1, HeadInToSet
      <4>2. req[Head(queued)].status = "Pending"
        BY <1>1, <1>3, <3>2 DEF Booked, SimpleHeadWorks
      <4>3. QED
        BY <1>8, <1>25, <4>1, <4>2 DEF SimpleHeadWorks
    <3>3. QED
      BY <3>1, <3>2
  <2>6. QED
    BY <2>1, <2>3, <2>4, <2>5 DEF Booked
<1>27. PiecesSound'
  <2> SUFFICES ASSUME NEW q \in Request, NEW t \in AllStreams PROVE Owes(q, t)' <=> Held(q, t)'
    BY DEF PiecesSound
  <2>1. Owes(q, t) <=> Held(q, t)
    BY <1>1 DEF PiecesSound
  <2>2. CASE q = h
    <3>1. Owes(q, t)' <=> t \in Captured \cup Converted
      BY <1>3, <1>9, <1>12, <1>15, <2>2 DEF Owes, Live
    <3>2. t \in Captured => ~Simple!Internal
      BY DEF Captured
    <3>3. t \in Converted => Simple!useConversion
      BY DEF Converted
    <3>4. Held(q, t)' <=> t \in Captured \cup Converted
      BY <1>5, <1>22, <1>23, <2>2, <3>2, <3>3 DEF Held
    <3>5. QED
      BY <3>1, <3>4
  <2>3. CASE q # h
    <3>1. Owes(q, t)' <=> Owes(q, t)
      BY <1>3, <1>9, <1>12, <2>3 DEF Owes, Live
    <3>2. Simple!RequestBuffer(q) # Simple!RequestBuffer(h)
      BY <2>3 DEF Simple!RequestBuffer
    <3>3. Held(q, t)' <=> Held(q, t)
      BY <1>5, <1>21, <1>22, <1>23, <2>3, <3>2 DEF Held
    <3>4. QED
      BY <2>1, <3>1, <3>3
  <2>4. QED
    BY <2>2, <2>3
<1>28. MetadataComes'
  <2>1. ASSUME NEW f \in DOMAIN frameInfo' PROVE frameInfo'[f].required => config'.conv = "soft"
    <3>1. CASE f \in DOMAIN frameInfo
      BY <1>1, <1>3, <1>19, <3>1 DEF MetadataComes
    <3>2. CASE f = sequence
      BY <1>3, <1>18, <1>19, <3>2
    <3>3. QED
      BY <1>19, <3>1, <3>2
  <2>2. ASSUME faults' = 0, NEW f \in DOMAIN frameInfo', Wanted(f)' PROVE Coming(frameInfo[f].request, f)'
    <3>1. CASE f \in DOMAIN frameInfo
      <4>1. Wanted(f) /\ faults = 0 /\ frameInfo'[f] = frameInfo[f]
        BY <1>3, <1>19, <2>2, <3>1 DEF Wanted
      <4>2. Coming(frameInfo[f].request, f)
        BY <1>1, <3>1, <4>1 DEF MetadataComes
      <4>3. QED
        BY <1>21, <1>22, <4>1, <4>2 DEF Coming
    <3>2. CASE f = sequence
      <4>1. config.conv = "soft" /\ frameInfo'[f].request = h
        BY <1>18, <1>19, <2>2, <3>2 DEF Wanted
      <4>2. h \in ToConvert'
        BY <1>22, <4>1 DEF Simple!useConversion
      <4>3. QED
        BY <4>1, <4>2 DEF Coming
    <3>3. QED
      BY <1>19, <3>1, <3>2
  <2>3. QED
    BY <2>1, <2>2 DEF MetadataComes
<1>29. LeftOver' /\ StagesSound'
  <2>1. LeftOver'
    BY <1>4 DEF LeftOver
  <2>2. StagesSound'
    BY <1>1, <1>3, <1>4 DEF StagesSound
  <2>3. QED
    BY <2>1, <2>2
<1>30. M2mPhases' /\ SwIspPhases' /\ VideoPhases' /\ SwIspSound' /\ M2mSound'
  <2>1. SwIspSound' /\ M2mSound'
    BY <1>1, <1>3, <1>4, SwIspKept, M2mKept DEF Coverage
  <2>2. M2mPhases' /\ SwIspPhases'
    BY <1>1, <1>3, <1>4 DEF M2mPhases, NoM2mWork, SwIspPhases, Simple!NoSwIsp
  <2>3. VideoPhases'
    <3>1. config.conv = "none" => conversionQueue' = conversionQueue
      BY <1>16 DEF Simple!useConversion
    <3>2. QED
      BY <1>1, <1>3, <1>4, <3>1 DEF VideoPhases
  <2>4. QED
    BY <2>1, <2>2, <2>3
<1>31. QED
  BY <1>16, <1>22, <1>23, <1>24, <1>26, <1>27, <1>28, <1>29, <1>30 DEF SimpleInv, SimplePhases

LEMMA DoQueueInv ==
    ASSUME SimpleInv, Simple!DoQueueRequests
    PROVE  SimpleInv' /\ fatal' = fatal
<1>1. CASE waiting # <<>> /\ Len(queued) # MaxQueued
  BY <1>1, QueuedToDevice
<1>2. CASE ~(waiting # <<>> /\ Len(queued) # MaxQueued)
  <2>1. /\ SimpleType /\ Booked /\ PiecesSound /\ MetadataComes /\ StagesSound /\ SwIspSound /\ M2mPhases /\ SwIspPhases /\ VideoPhases
        /\ LeftOver
    BY DEF SimpleInv, SimplePhases
  <2>2. /\ UNCHANGED <<config, active, ret, stopped, m2m, swIsp, faults, waiting, queued, req, sequence, video, fatal, frameInfo, conversionQueue>>
        /\ position = "doQueue" /\ position' = ret
    BY <1>2 DEF Simple!DoQueueRequests, Simple!convVars
  <2>3. ret \in SimpleStages /\ ret \notin {"complete", "doQueue"}
    BY <2>1 DEF SimpleType, SimpleStages
  <2>4. Simple!Stage' = Simple!Stage
    BY <2>2, <2>3 DEF Simple!Stage
  <2>5. /\ ConversionSound' /\ VideoSound' /\ M2mSound' /\ ToConvert' = ToConvert /\ StatsWork' = StatsWork
        /\ \A q \in Request, t \in AllStreams : Held(q, t)' <=> Held(q, t)
    BY <2>2, <2>4, PlacesKept
  <2>6. SimpleType'
    BY <2>1, <2>2, <2>3 DEF SimpleType
  <2>7. Booked'
    BY <2>1, <2>2, <2>3, <2>4 DEF Booked, SimpleQueues, SimpleFrames, Live, Missing, SimpleHeadWorks, Simple!Streams, Simple!Outs
  <2>8. PiecesSound'
    <3>1. \A q \in Request, t \in AllStreams : Owes(q, t)' <=> Owes(q, t)
      BY <2>2 DEF Owes, Live
    <3>2. QED
      BY <2>1, <2>5, <3>1 DEF PiecesSound
  <2>9. MetadataComes' /\ LeftOver' /\ StagesSound'
    BY <2>1, <2>2, <2>4, <2>5 DEF MetadataComes, Wanted, Coming, LeftOver, StagesSound
  <2>10. M2mPhases' /\ SwIspPhases' /\ VideoPhases' /\ SwIspSound'
    <3>1. SwIspSound'
      BY <2>1, <2>2, <2>4, SwIspKept DEF Coverage
    <3>2. QED
      BY <2>1, <2>2, <2>4, <3>1 DEF M2mPhases, NoM2mWork, SwIspPhases, Simple!NoSwIsp, VideoPhases
  <2>11. QED
    BY <2>2, <2>5, <2>6, <2>7, <2>8, <2>9, <2>10 DEF SimpleInv, SimplePhases
<1>3. QED
  BY <1>1, <1>2

\* The capture device refuses the buffer of a request, which is cancelled.
LEMMA QueueRefusedInv ==
    ASSUME SimpleInv, Simple!QueueRefused
    PROVE  SimpleInv' /\ fatal' = fatal
<1>1. /\ SimpleType /\ Booked /\ PiecesSound /\ MetadataComes /\ StagesSound /\ SwIspSound /\ M2mPhases /\ SwIspPhases /\ VideoPhases
      /\ LeftOver
  BY DEF SimpleInv, SimplePhases
<1>2. PICK r : r = Head(waiting)
  OBVIOUS
<1>3. /\ UNCHANGED <<config, active, ret, stopped, frameInfo, conversionQueue, video, m2m, swIsp, faults, fatal>>
      /\ position = "doQueue" /\ position' = "complete" /\ waiting # <<>> /\ waiting' = Tail(waiting)
      /\ queued' = Append(queued, r) /\ sequence' = sequence + 1
      /\ req' = [req EXCEPT ![r] = [status |-> "Cancelled", pending |-> {}, sequence |-> sequence]]
  BY <1>2 DEF Simple!QueueRefused, Simple!convVars
<1>4. Simple!Stage' = Simple!Stage /\ Simple!Stage = "loop" /\ active
  BY <1>1, <1>3 DEF Simple!Stage, StagesSound
<1>5. /\ ConversionSound' /\ VideoSound' /\ M2mSound' /\ ToConvert' = ToConvert /\ StatsWork' = StatsWork
      /\ \A q \in Request, t \in AllStreams : Held(q, t)' <=> Held(q, t)
  BY <1>3, <1>4, PlacesKept
<1>6. /\ queued \in Seq(Request) /\ waiting \in Seq(Request) /\ stopped \in Seq(Request) /\ IsInjective(queued) /\ IsInjective(waiting)
      /\ ToSet(queued) \cap ToSet(waiting) = {} /\ ToSet(stopped) \cap ToSet(waiting) = {}
  BY <1>1 DEF Booked, SimpleQueues
<1>7. /\ Tail(waiting) \in Seq(Request) /\ IsInjective(Tail(waiting)) /\ ToSet(Tail(waiting)) = ToSet(waiting) \ {r}
      /\ r \in Request /\ r \in ToSet(waiting)
  BY <1>2, <1>3, <1>6, PoppedQueue
<1>8. r \notin ToSet(queued) /\ r \notin ToSet(stopped)
  BY <1>6, <1>7
<1>9. /\ Append(queued, r) \in Seq(Request) /\ IsInjective(Append(queued, r)) /\ ToSet(Append(queued, r)) = ToSet(queued) \cup {r}
  BY <1>6, <1>7, <1>8, PushedQueue
<1>10. /\ req' \in [Request -> SimpleRequest] /\ (\A q \in Request : q # r => req'[q] = req[q]) /\ req'[r].status = "Cancelled"
  <2>a. PICK n \in Nat : n = sequence
    BY <1>1 DEF SimpleType
  <2>b. [status |-> "Cancelled", pending |-> {}, sequence |-> n] \in SimpleRequest
    BY DEF SimpleRequest
  <2>1. PICK e \in SimpleRequest : e = [status |-> "Cancelled", pending |-> {}, sequence |-> sequence] /\ e.status = "Cancelled"
    BY <2>a, <2>b
  <2>2. req' = [req EXCEPT ![r] = e] /\ req \in [Request -> SimpleRequest]
    BY <1>1, <1>3, <2>1 DEF SimpleType
  <2>3. QED
    BY <1>7, <2>1, <2>2
<1>11. SimpleType'
  BY <1>1, <1>3, <1>10 DEF SimpleType
<1>12. \A q \in ToSet(queued) \cup ToSet(stopped) \cup ToSet(waiting) : q \in Request
  BY <1>6, QueueOf
<1>13. SimpleQueues'
  <2>1. \A q \in ToSet(queued') \cup ToSet(stopped') \cup ToSet(waiting') : req'[q].status # "Free"
    BY <1>1, <1>3, <1>7, <1>9, <1>10, <1>12 DEF Booked, SimpleQueues
  <2>2. \A q \in ToSet(waiting') : req'[q].status = "Pending" /\ req'[q].pending = Simple!Streams(config)
    BY <1>1, <1>3, <1>7, <1>10, <1>12 DEF Booked, SimpleQueues
  <2>3. Simple!Streams(config)' = Simple!Streams(config)
    BY <1>3 DEF Simple!Streams, Simple!Outs
  <2>4. /\ ToSet(queued') \cap ToSet(stopped') = {} /\ ToSet(queued') \cap ToSet(waiting') = {}
        /\ ToSet(stopped') \cap ToSet(waiting') = {}
    BY <1>1, <1>3, <1>6, <1>7, <1>8, <1>9 DEF Booked, SimpleQueues
  <2>5. /\ queued' \in Seq(Request) /\ stopped' \in Seq(Request) /\ waiting' \in Seq(Request)
        /\ IsInjective(queued') /\ IsInjective(stopped') /\ IsInjective(waiting')
    BY <1>1, <1>3, <1>6, <1>7, <1>9 DEF Booked, SimpleQueues
  <2>6. QED
    BY <2>1, <2>2, <2>3, <2>4, <2>5 DEF SimpleQueues
<1>14. \A q \in Request : (Live(q)' <=> Live(q)) /\ (Live(q) => req'[q] = req[q])
  BY <1>3, <1>8, <1>9, <1>10 DEF Live
<1>15. Booked'
  <2>1. sequence \in Nat /\ DOMAIN frameInfo \subseteq Nat /\ \A f \in DOMAIN frameInfo : frameInfo[f].request \in Request
    BY <1>1 DEF SimpleType, FrameEntry
  <2>2. \A f \in DOMAIN frameInfo : f < sequence /\ Live(frameInfo[f].request) /\ req[frameInfo[f].request].sequence = f
    BY <1>1 DEF Booked, SimpleFrames
  <2>3. \A f \in DOMAIN frameInfo : f < sequence'
    BY <1>3, <2>1, <2>2
  <2>4. \A q \in ToSet(queued) : req[q].status = "Pending" =>
            req[q].sequence \in DOMAIN frameInfo /\ frameInfo[req[q].sequence].request = q
    BY <1>1, <1>4 DEF Booked, SimpleFrames
  <2>5. \A q \in ToSet(queued') : req'[q].status = "Pending" => q \in ToSet(queued) /\ req'[q] = req[q]
    BY <1>3, <1>9, <1>10, <1>12
  <2>6. SimpleFrames'
    BY <1>3, <1>14, <2>1, <2>2, <2>3, <2>4, <2>5 DEF SimpleFrames
  <2>7. Missing' /\ SimpleHeadWorks'
    BY <1>1, <1>3, <1>14, <2>1, <2>2 DEF Booked, Missing, SimpleHeadWorks
  <2>8. QED
    BY <1>13, <2>6, <2>7 DEF Booked
<1>16. PiecesSound'
  <2>1. \A q \in Request, t \in AllStreams : Owes(q, t)' <=> Owes(q, t)
    BY <1>14 DEF Owes
  <2>2. QED
    BY <1>1, <1>5, <2>1 DEF PiecesSound
<1>17. MetadataComes' /\ LeftOver' /\ StagesSound'
  BY <1>1, <1>3, <1>4, <1>5 DEF MetadataComes, Wanted, Coming, LeftOver, StagesSound
<1>18. SwIspSound'
  BY <1>1, <1>3, <1>4, SwIspKept DEF Coverage
<1>19. M2mPhases' /\ SwIspPhases' /\ VideoPhases'
  BY <1>1, <1>3, <1>4 DEF M2mPhases, NoM2mWork, SwIspPhases, Simple!NoSwIsp, VideoPhases
<1>20. QED
  BY <1>3, <1>5, <1>11, <1>15, <1>16, <1>17, <1>18, <1>19 DEF SimpleInv, SimplePhases

\* stop() takes the requests that wait, and stops the first thread.
LEMMA StopInv ==
    ASSUME SimpleInv, Simple!Stop
    PROVE  SimpleInv'
<1>1. /\ SimpleType /\ Booked /\ PiecesSound /\ MetadataComes /\ StagesSound /\ SwIspSound /\ M2mPhases /\ SwIspPhases /\ VideoPhases
  BY DEF SimpleInv, SimplePhases
<1>2. /\ UNCHANGED <<config, active, ret, queued, m2m, swIsp, faults, req, sequence, video, frameInfo, conversionQueue>>
      /\ active /\ position = "loop" /\ stopped' = waiting /\ waiting' = <<>>
      /\ position' = CASE config.conv = "m2m" -> "m2m" [] config.conv = "soft" -> "debayer" [] OTHER -> "video"
  BY DEF Simple!Stop, Simple!convVars
<1>3. /\ Simple!Stage = "loop" /\ Simple!Stage' = position' /\ position' \in SimpleStages
      /\ position' \in {"m2m", "debayer", "video"} /\ (position' = "m2m" <=> config.conv = "m2m") /\ (position' = "debayer" <=> config.conv = "soft")
  BY <1>2 DEF Simple!Stage, SimpleStages
<1>4. stopped = <<>>
  BY <1>1, <1>3 DEF StagesSound
<1>5. /\ ConversionSound' /\ VideoSound' /\ M2mSound' /\ ToConvert' = ToConvert /\ StatsWork' = StatsWork
      /\ \A q \in Request, t \in AllStreams : Held(q, t)' <=> Held(q, t)
  BY <1>2, <1>3, PlacesKept
<1>6. SimpleType'
  BY <1>1, <1>2, <1>3 DEF SimpleType
<1>7. Booked'
  <2>1. SimpleQueues'
    <3>1. ToSet(waiting') = {} /\ IsInjective(waiting') /\ waiting' \in Seq(Request)
      BY <1>2, ToSetOfEmpty
    <3>2. QED
      BY <1>1, <1>2, <3>1 DEF Booked, SimpleQueues
  <2>2. SimpleFrames' /\ Missing' /\ SimpleHeadWorks'
    BY <1>1, <1>2, <1>3 DEF Booked, SimpleFrames, Live, Missing, SimpleHeadWorks
  <2>3. QED
    BY <2>1, <2>2 DEF Booked
<1>8. PiecesSound'
  <2>1. \A q \in Request, t \in AllStreams : Owes(q, t)' <=> Owes(q, t)
    BY <1>2 DEF Owes, Live
  <2>2. QED
    BY <1>1, <1>5, <2>1 DEF PiecesSound
<1>9. MetadataComes' /\ LeftOver'
  BY <1>1, <1>2, <1>3, <1>5 DEF MetadataComes, Wanted, Coming, LeftOver
<1>10. StagesSound'
  BY <1>1, <1>2, <1>3 DEF StagesSound
<1>11. M2mPhases' /\ SwIspPhases' /\ VideoPhases' /\ SwIspSound'
  <2>1. SwIspSound'
    BY <1>1, <1>2, <1>3, SwIspKept DEF Coverage
  <2>2. M2mPhases' /\ VideoPhases'
    BY <1>1, <1>2, <1>3 DEF M2mPhases, NoM2mWork, VideoPhases
  <2>3. SwIspPhases'
    BY <1>1, <1>2, <1>3 DEF SwIspPhases, Simple!NoSwIsp
  <2>4. QED
    BY <2>1, <2>2, <2>3
<1>12. QED
  BY <1>5, <1>6, <1>7, <1>8, <1>9, <1>10, <1>11 DEF SimpleInv, SimplePhases

\* The camera is not in use, or start() has just returned.
Idle ==
    /\ config \in Simple!Configuration /\ active \in BOOLEAN /\ position = "loop" /\ ret \in SimpleStages
    /\ req \in [Request -> SimpleRequest] /\ sequence \in Nat /\ faults \in Nat
    /\ queued = <<>> /\ stopped = <<>> /\ waiting = <<>> /\ conversionQueue = <<>> /\ DOMAIN frameInfo = {}
    /\ M2mSound /\ NoM2mWork /\ swIsp = Simple!NoSwIsp
    /\ video \in Seq(InternalBuffers) /\ IsInjective(video)
    /\ ToSet(video) = IF active /\ Simple!Internal THEN InternalBuffers ELSE {}

LEMMA NothingIn ==
    ASSUME NEW S, NEW q \in Seq(S), ToSet(q) = {}
    PROVE  q = <<>>
<1>1. Len(q) \in Nat /\ DOMAIN q = 1 .. Len(q) /\ (Len(q) = 0 => q = <<>>)
  OBVIOUS
<1>2. Len(q) > 0 => q[1] \in ToSet(q)
  BY <1>1 DEF ToSet
<1>3. QED
  BY <1>1, <1>2

LEMMA IdleInv == Idle => SimpleInv
<1> SUFFICES ASSUME Idle PROVE SimpleInv
  OBVIOUS
<1>1. Simple!Stage = "loop" /\ "loop" \in SimpleStages
  BY DEF Idle, Simple!Stage, SimpleStages
<1>2. ToSet(queued) = {} /\ ToSet(stopped) = {} /\ ToSet(waiting) = {} /\ ToConvert = {} /\ DOMAIN conversionQueue = {}
  BY ToSetOfEmpty DEF Idle, ToConvert
<1>3. IsInjective(queued) /\ IsInjective(stopped) /\ IsInjective(waiting)
  BY ToSetOfEmpty DEF Idle
<1>4. Inputs = {} /\ (\A s \in AllStreams : OutputsOf(s) = {}) /\ StatsWork = {}
  BY ConvertersEmpty DEF Idle
<1>5. SimpleType
  BY <1>1 DEF Idle, SimpleType
<1>6. Booked
  BY <1>2, <1>3 DEF Idle, Booked, SimpleQueues, SimpleFrames, Missing, SimpleHeadWorks
<1>7. ~Simple!Internal => video = <<>>
  BY NothingIn DEF Idle
<1>8. PiecesSound
  <2> SUFFICES ASSUME NEW r \in Request, NEW s \in AllStreams PROVE ~Owes(r, s) /\ ~Held(r, s)
    BY DEF PiecesSound
  <2>1. ~Owes(r, s)
    BY <1>2 DEF Owes, Live
  <2>2. s \in Captured => Simple!RequestBuffer(r) \notin ToSet(video)
    BY <1>7, ToSetOfEmpty DEF Captured
  <2>3. QED
    BY <1>2, <1>4, <2>1, <2>2 DEF Held
<1>9. ConversionSound
  BY <1>2 DEF Idle, ConversionSound
<1>10. VideoSound
  <2>1. video \in Seq(CaptureBuffers)
    BY DEF Idle, CaptureBuffers
  <2>2. config.raw => video = <<>>
    BY <1>7 DEF Simple!Internal
  <2>3. config.raw => Len(video) <= Len(conversionQueue)
    BY <2>2 DEF Idle
  <2>4. QED
    BY <1>4, <2>1, <2>3 DEF Idle, VideoSound
<1>11. SwIspSound
  <2>1. swIsp \in SwIspState
    BY DEF Idle, SwIspState, Simple!NoSwIsp
  <2>2. swIsp.events = <<>> /\ swIsp.debayer = <<>> /\ swIsp.in = <<>> /\ swIsp.out = <<>>
    BY DEF Idle, Simple!NoSwIsp
  <2>3. DOMAIN InWork(<<>>, <<>>) = {} /\ DOMAIN OutWork(<<>>, <<>>) = {}
    BY DEF InWork, OutWork
  <2>4. QED
    BY <2>1, <2>2, <2>3, ToSetOfEmpty DEF SwIspSound, Follows, Covers
<1>12. MetadataComes /\ LeftOver
  BY <1>1 DEF Idle, MetadataComes, LeftOver
<1>13. SimplePhases
  <2>1. StagesSound
    BY <1>1 DEF Idle, StagesSound
  <2>2. M2mPhases
    BY DEF Idle, M2mPhases
  <2>3. SwIspPhases
    BY <1>1 DEF Idle, SwIspPhases
  <2>4. ~active => video = <<>>
    BY NothingIn DEF Idle
  <2>5. VideoPhases
    BY <1>1, <2>4 DEF Idle, VideoPhases
  <2>6. QED
    BY <2>1, <2>2, <2>3, <2>5 DEF SimplePhases
<1>14. QED
  BY <1>5, <1>6, <1>8, <1>9, <1>10, <1>11, <1>12, <1>13 DEF SimpleInv, Idle

LEMMA IdleNext == (Idle => SimpleInv)'
BY IdleInv, PTL

\* The initial state: nothing anywhere.
LEMMA SimpleInitInv ==
    ASSUME SimpleConstants, Simple!Init
    PROVE  SimpleInv
<1>1. /\ queued = <<>> /\ stopped = <<>> /\ waiting = <<>> /\ conversionQueue = <<>> /\ DOMAIN frameInfo = {} /\ video = <<>>
      /\ config \in Simple!Configuration /\ active = FALSE /\ position = "loop" /\ ret \in SimpleStages /\ sequence \in Nat /\ faults \in Nat
      /\ swIsp = Simple!NoSwIsp /\ m2m = Simple!NoM2m
  BY DEF Simple!Init, SimpleConstants, SimpleStages
<1>2. req \in [Request -> SimpleRequest]
  BY DEF Simple!Init, Simple!FreeRequest, SimpleRequest
<1>3. M2mSound /\ NoM2mWork
  <2>1. m2m.queue = <<>> /\ m2m.in \in [{"a", "b"} -> {<<>>}] /\ m2m.out \in [{"a", "b"} -> {<<>>}]
        /\ m2m = [in |-> m2m.in, out |-> m2m.out, queue |-> m2m.queue]
    BY <1>1 DEF Simple!NoM2m
  <2>2. m2m.queue \in [{} -> {1, 2}]
    BY <2>1
  <2>3. m2m.queue \in References
    BY <2>2 DEF References
  <2>4. m2m \in [in : [{"a", "b"} -> Seq(CaptureBuffers)], out : [{"a", "b"} -> Seq(Request)], queue : References]
    <3>1. <<>> \in Seq(CaptureBuffers) /\ <<>> \in Seq(Request)
      OBVIOUS
    <3>2. m2m.in \in [{"a", "b"} -> Seq(CaptureBuffers)] /\ m2m.out \in [{"a", "b"} -> Seq(Request)]
      BY <2>1, <3>1
    <3>3. QED
      BY <2>1, <2>3, <3>2
  <2>5. \A s \in {"a", "b"} : m2m.in[s] = <<>> /\ m2m.out[s] = <<>>
    BY <2>1
  <2>6. QED
    BY <2>1, <2>4, <2>5, ToSetOfEmpty DEF M2mSound, NoM2mWork
<1>4. video \in Seq(InternalBuffers) /\ IsInjective(video) /\ ToSet(video) = {}
  BY <1>1, ToSetOfEmpty
<1> HIDE DEF InternalBuffers, SimpleRequest, M2mSound, NoM2mWork
<1>5. Idle
  BY <1>1, <1>2, <1>3, <1>4 DEF Idle
<1>6. QED
  BY <1>5, IdleInv

\* configure() and start(), with the camera stopped.
LEMMA AtRest ==
    ASSUME SimpleInv, ~active, position = "loop"
    PROVE  /\ config \in Simple!Configuration /\ active \in BOOLEAN /\ ret \in SimpleStages
           /\ req \in [Request -> SimpleRequest] /\ sequence \in Nat /\ faults \in Nat
           /\ queued = <<>> /\ stopped = <<>> /\ waiting = <<>> /\ conversionQueue = <<>> /\ DOMAIN frameInfo = {} /\ video = <<>>
           /\ M2mSound /\ NoM2mWork /\ swIsp = Simple!NoSwIsp
<1>1. Simple!Stage = "loop"
  BY DEF Simple!Stage
<1>2. SimpleType /\ StagesSound /\ M2mPhases /\ SwIspPhases /\ VideoPhases /\ M2mSound
  BY DEF SimpleInv, SimplePhases
<1>3. queued = <<>> /\ stopped = <<>> /\ waiting = <<>>
  BY <1>1, <1>2 DEF StagesSound
<1>4. NoM2mWork /\ swIsp = Simple!NoSwIsp
  BY <1>2 DEF M2mPhases, SwIspPhases
<1>5. QED
  BY <1>2, <1>3, <1>4 DEF SimpleType, VideoPhases

LEMMA ConfigureInv ==
    ASSUME SimpleInv, SimpleConstants, NEW c \in Configs, Simple!Configure(c)
    PROVE  SimpleInv'
<1>1. /\ ~active /\ position = "loop" /\ config' = c /\ c \in Simple!Configuration
      /\ UNCHANGED <<active, position, ret, queued, stopped, waiting, req, sequence, frameInfo, conversionQueue, video, m2m, swIsp, faults>>
  BY DEF Simple!Configure, Simple!queueVars, Simple!convVars, SimpleConstants
<1>2. M2mSound' /\ NoM2mWork'
  BY <1>1, AtRest, M2mKept DEF NoM2mWork
<1>3. video' \in Seq(InternalBuffers') /\ IsInjective(video') /\ ToSet(video') = {}
  BY <1>1, AtRest, ToSetOfEmpty
<1>4. Idle'
  BY <1>1, <1>2, <1>3, AtRest DEF Idle, Simple!NoSwIsp
<1>5. QED
  BY <1>4, IdleNext

LEMMA StartInv ==
    ASSUME SimpleInv, SimpleConstants, Simple!Start
    PROVE  SimpleInv'
<1>1. /\ ~active /\ position = "loop" /\ active' = TRUE
      /\ video' = IF Simple!Internal THEN [i \in 1 .. MaxQueued |-> Simple!InternalBuffer(i)] ELSE <<>>
      /\ UNCHANGED <<config, position, ret, queued, stopped, waiting, req, sequence, frameInfo, conversionQueue, m2m, swIsp, faults>>
  BY DEF Simple!Start, Simple!queueVars, Simple!convVars
<1>2. M2mSound' /\ NoM2mWork'
  BY <1>1, AtRest, M2mKept DEF NoM2mWork
<1>3. Simple!Internal' <=> Simple!Internal
  BY <1>1, SameConfig
<1>4. InternalBuffers' = InternalBuffers
  BY DEF InternalBuffers, Simple!InternalBuffer
<1>5. video' \in Seq(InternalBuffers) /\ IsInjective(video') /\ ToSet(video') = IF Simple!Internal THEN InternalBuffers ELSE {}
  <2>1. CASE Simple!Internal
    <3> DEFINE v == [i \in 1 .. MaxQueued |-> Simple!InternalBuffer(i)]
    <3>1. MaxQueued \in Nat
      BY DEF SimpleConstants
    <3>2. \A i \in 1 .. MaxQueued : v[i] \in InternalBuffers /\ v[i] = Simple!InternalBuffer(i)
      BY DEF InternalBuffers
    <3>3. v \in Seq(InternalBuffers) /\ DOMAIN v = 1 .. MaxQueued
      BY <3>1, <3>2
    <3>4. IsInjective(v)
      BY <3>2, <3>3 DEF IsInjective, Simple!InternalBuffer
    <3>5. ToSet(v) = InternalBuffers
      BY <3>2, <3>3 DEF ToSet, InternalBuffers
    <3>6. QED
      BY <1>1, <2>1, <3>3, <3>4, <3>5
  <2>2. CASE ~Simple!Internal
    BY <1>1, <2>2, ToSetOfEmpty
  <2>3. QED
    BY <2>1, <2>2
<1>6. Idle'
  BY <1>1, <1>2, <1>3, <1>4, <1>5, AtRest DEF Idle, Simple!NoSwIsp
<1>7. QED
  BY <1>6, IdleNext

\* imageBufferReady(), for each status.
LEMMA ImageInv ==
    ASSUME SimpleInv, NEW status, Simple!imageBufferReady(status),
           \/ active /\ position = "loop" /\ status \in {"Success", "Error"}
           \/ position = "video" /\ status = "Cancelled"
    PROVE  SimpleInv'
<1>1. video # <<>> /\ UNCHANGED Bookkeeping /\ faults' = faults
  BY DEF Simple!imageBufferReady, Bookkeeping, Simple!queueVars
<1>2. position \in {"loop", "video"} /\ status \in {"Success", "Error", "Cancelled"}
  OBVIOUS
<1>3. CASE status # "Success" /\ ~Simple!Internal
  <2>1. Simple!ImageFailed(Head(video))
    BY <1>3 DEF Simple!imageBufferReady
  <2> DEFINE r == Head(video).request[1]
  <2>2. /\ video' = Tail(video) /\ UNCHANGED <<conversionQueue, m2m, swIsp, faults>>
        /\ Simple!tryCompleteRequest(r, Simple!completeBuffers(r, {Simple!CapturedStream}), Simple!NoMetadata(r))
    BY <1>1, <2>1 DEF Simple!ImageFailed, Simple!convVars
  <2>3. QED
    BY <1>1, <1>2, <1>3, <2>2, CapturedInv
<1>4. CASE status # "Success" /\ Simple!Internal
  <2>1. Simple!InternalFailed(Head(video), status)
    BY <1>4 DEF Simple!imageBufferReady
  <2>2. status \in {"Error", "Cancelled"} /\ (status = "Error" => position = "loop") /\ (status = "Cancelled" => position = "video")
    BY <1>2, <1>4
  <2>3. QED
    BY <1>1, <1>4, <2>1, <2>2, InternalFailedInv
<1>5. CASE status = "Success" /\ Simple!useConversion
  <2>1. Simple!Convert(Head(video)) /\ active /\ position = "loop"
    BY <1>5 DEF Simple!imageBufferReady
  <2>2. QED
    BY <1>1, <1>5, <2>1, ConvertInv
<1>6. CASE status = "Success" /\ ~Simple!useConversion
  <2>1. Simple!ImageDone(Head(video)) /\ ~Simple!Internal
    BY <1>6 DEF Simple!imageBufferReady, Simple!Internal
  <2> DEFINE r == Head(video).request[1]
  <2>2. /\ video' = Tail(video) /\ UNCHANGED <<conversionQueue, m2m, swIsp, faults>>
        /\ Simple!tryCompleteRequest(r, Simple!completeBuffers(r, {Simple!CapturedStream}), frameInfo)
    BY <1>1, <2>1 DEF Simple!ImageDone, Simple!convVars
  <2>3. QED
    BY <1>1, <1>2, <2>1, <2>2, CapturedInv
<1>7. QED
  BY <1>3, <1>4, <1>5, <1>6

LEMMA StopVideoInv ==
    ASSUME SimpleInv, Simple!StopVideo
    PROVE  SimpleInv' /\ fatal' = fatal
<1>1. CASE video # <<>>
  <2>1. position = "video" /\ Simple!imageBufferReady("Cancelled")
    BY <1>1 DEF Simple!StopVideo
  <2>2. fatal' = fatal
    BY <2>1 DEF Simple!imageBufferReady
  <2>3. QED
    BY <2>1, <2>2, ImageInv
<1>2. CASE video = <<>>
  <2>1. /\ position = "video" /\ frameInfo' = <<>> /\ position' = "clear"
        /\ UNCHANGED <<config, active, ret, queued, stopped, waiting, req, sequence, conversionQueue, video, m2m, swIsp, faults, fatal>>
    BY <1>2 DEF Simple!StopVideo, Simple!queueVars, Simple!convVars
  <2>2. QED
    BY <1>2, <2>1, StreamedOffInv
<1>3. QED
  BY <1>1, <1>2

LEMMA M2mInv ==
    ASSUME SimpleInv, Simple!StopM2m \/ Simple!M2m
    PROVE  SimpleInv' /\ fatal' = fatal
<1>1. PICK s \in {"a", "b"} : Simple!M2mOutput(s) \/ Simple!M2mInput(s)
  BY DEF Simple!StopM2m, Simple!M2m
<1>2. position \in SimpleStages
  BY DEF Simple!StopM2m, Simple!M2m, SimpleStages
<1>3. fatal' = fatal
  BY <1>1 DEF Simple!M2mOutput, Simple!M2mInput
<1>4. QED
  BY <1>1, <1>2, <1>3, M2mOutputInv, M2mInputInv

\* The assertions: each can only fail after the debayer lost a frame.
LEMMA EventAlive ==
    ASSUME SimpleInv, Simple!SwIspEvent, fatal = "none", faults = 0
    PROVE  fatal' = "none"
<1> DEFINE e == Head(swIsp.events)
<1>1. SwIspSound /\ swIsp.events # <<>> /\ position \in {"loop", "drain"}
  BY DEF SimpleInv, Simple!SwIspEvent
<1>2. Coverage
  BY <1>1 DEF Coverage, Simple!Stage
<1>3. /\ e \in DebayerEvent
      /\ e.name = "output" => Head(swIsp.out) = e.out
      /\ e.name = "input" => Head(swIsp.in) = e.in
  BY <1>1, <1>2, EventMatches
<1>4. e.name \in {"stats", "output", "input"}
  BY <1>3 DEF DebayerEvent
<1>5. CASE e.name = "stats"
  BY <1>5 DEF Simple!SwIspEvent
<1>6. CASE e.name = "output"
  BY <1>3, <1>6 DEF Simple!SwIspEvent
<1>7. CASE e.name = "input"
  BY <1>3, <1>7 DEF Simple!SwIspEvent
<1>8. QED
  BY <1>4, <1>5, <1>6, <1>7

LEMMA ClearAlive ==
    ASSUME SimpleInv, Simple!ClearIncompleteRequests
    PROVE  fatal' = fatal
<1>1. CASE conversionQueue = <<>>
  BY <1>1 DEF Simple!ClearIncompleteRequests
<1>2. CASE conversionQueue # <<>>
  <2> DEFINE r == Head(conversionQueue).request
  <2>1. ConversionSound /\ VideoPhases /\ conversionQueue' = Tail(conversionQueue) /\ config' = config
    BY <1>2 DEF SimpleInv, SimplePhases, Simple!ClearIncompleteRequests
  <2>2. r \in Request /\ r \in ToConvert
    BY <1>2, <2>1, ConversionPopped
  <2>3. Simple!useConversion
    BY <1>2, <2>1 DEF VideoPhases, Simple!useConversion
  <2>4. "a" \in Converted /\ "a" \in AllStreams
    BY <2>3 DEF Converted, Simple!Outs, AllStreams
  <2>5. Held(r, "a")
    BY <2>2, <2>4 DEF Held
  <2>6. Live(r)
    BY <2>2, <2>4, <2>5, Owing
  <2>7. fatal' = IF req[r].status = "Pending" THEN fatal ELSE "cancel: status() == RequestPending"
    BY <1>2 DEF Simple!ClearIncompleteRequests
  <2>8. QED
    BY <2>6, <2>7 DEF Live
<1>3. QED
  BY <1>1, <1>2

\* What a step of Next is.
SimpleStep ==
    \/ Simple!CompleteRequest \/ Simple!DoQueueRequests \/ Simple!QueueRefused \/ Simple!SwIspEvent \/ Simple!IpaEvent
    \/ Simple!StopM2m \/ Simple!M2m \/ Simple!StopSwIspOutput \/ Simple!StopSwIspInput \/ Simple!StopStep \/ Simple!StopVideo
    \/ Simple!ClearIncompleteRequests \/ Simple!StopWaiting
    \/ Simple!Debayer \/ Simple!IpaThread \/ Simple!ImageBufferReady
    \/ (\E c \in Configs : Simple!Configure(c)) \/ Simple!Start \/ Simple!Stop
    \/ \E r \in Request : Simple!QueueRequest(r, Simple!Streams(config))

LEMMA StepOfNext ==
    ASSUME SimpleConstants, Simple!Next, dropped = 0, dropped' = 0
    PROVE  fatal = "none" /\ SimpleStep
<1>1. CASE \E r \in Request, streams \in SUBSET {"a", "b", "raw"} :
              /\ IF Partial THEN streams # {} /\ streams \subseteq Simple!Streams(config) ELSE streams = Simple!Streams(config)
              /\ Simple!QueueRequest(r, streams)
  BY <1>1 DEF SimpleConstants, Simple!Next, SimpleStep
<1>2. CASE Simple!PipelineThread
  BY <1>2 DEF Simple!Next, Simple!PipelineThread, SimpleStep
<1>3. ~ \E accepted \in 0 .. 3 : Simple!ConvertFails(accepted)
  BY DEF Simple!ConvertFails
<1>4. QED
  BY <1>1, <1>2, <1>3 DEF Simple!Next, SimpleStep

LEMMA SimpleNextInv ==
    ASSUME SimpleConstants, SimpleInv, Simple!Next, dropped = 0, dropped' = 0
    PROVE  /\ fatal' = "none" => SimpleInv'
           /\ faults' \in Nat /\ faults' >= faults
           /\ faults' = 0 => fatal' = "none"
<1>1. fatal = "none" /\ SimpleStep
  BY StepOfNext
<1>2. faults \in Nat
  BY DEF SimpleInv, SimpleType
<1> DEFINE Goal == /\ fatal' = "none" => SimpleInv'
                   /\ faults' \in Nat /\ faults' >= faults
                   /\ faults' = 0 => fatal' = "none"
<1>3. CASE Simple!CompleteRequest
  <2>1. fatal' = fatal /\ faults' = faults
    BY <1>3 DEF Simple!CompleteRequest
  <2>2. QED
    BY <1>1, <1>2, <1>3, <2>1, CompleteRequestInv
<1>4. CASE Simple!DoQueueRequests
  <2>1. faults' = faults
    BY <1>4 DEF Simple!DoQueueRequests
  <2>2. QED
    BY <1>1, <1>2, <1>4, <2>1, DoQueueInv
<1>a. CASE Simple!QueueRefused
  <2>1. faults' = faults
    BY <1>a DEF Simple!QueueRefused
  <2>2. QED
    BY <1>1, <1>2, <1>a, <2>1, QueueRefusedInv
<1>5. CASE Simple!SwIspEvent
  <2>1. faults' = faults
    BY <1>5 DEF Simple!SwIspEvent
  <2>2. QED
    BY <1>1, <1>2, <1>5, <2>1, SwIspEventInv, EventAlive
<1>6. CASE Simple!IpaEvent
  <2>1. fatal' = fatal /\ faults' = faults
    BY <1>6 DEF Simple!IpaEvent
  <2>2. QED
    BY <1>1, <1>2, <1>6, <2>1, IpaEventInv
<1>7. CASE Simple!StopM2m \/ Simple!M2m
  <2>1. faults' = faults
    BY <1>7 DEF Simple!StopM2m, Simple!M2m, Simple!M2mOutput, Simple!M2mInput
  <2>2. QED
    BY <1>1, <1>2, <1>7, <2>1, M2mInv
<1>8. CASE Simple!StopSwIspOutput \/ Simple!StopSwIspInput
  <2>1. fatal' = fatal /\ faults' = faults
    BY <1>8 DEF Simple!StopSwIspOutput, Simple!StopSwIspInput
  <2>2. QED
    BY <1>1, <1>2, <1>8, <2>1, StopSwIspInv
<1>9. CASE Simple!StopStep
  <2>1. fatal' = fatal /\ faults' = faults
    BY <1>9 DEF Simple!StopStep
  <2>2. QED
    BY <1>1, <1>2, <1>9, <2>1, StopStepInv
<1>10. CASE Simple!StopVideo
  <2>1. faults' = faults
    BY <1>10 DEF Simple!StopVideo, Simple!imageBufferReady
  <2>2. QED
    BY <1>1, <1>2, <1>10, <2>1, StopVideoInv
<1>11. CASE Simple!ClearIncompleteRequests
  <2>1. faults' = faults
    BY <1>11 DEF Simple!ClearIncompleteRequests
  <2>2. QED
    BY <1>1, <1>2, <1>11, <2>1, ClearInv, ClearAlive
<1>12. CASE Simple!StopWaiting
  <2>1. faults' = faults /\ position = "waiting"
    BY <1>12 DEF Simple!StopWaiting
  <2>2. faults = 0 => queued = <<>>
    BY <2>1, NothingQueued
  <2>3. faults = 0 => fatal' = "none"
    BY <1>1, <1>12, <2>2 DEF Simple!StopWaiting
  <2>4. QED
    BY <1>1, <1>2, <1>12, <2>1, <2>3, StopWaitingInv
<1>13. CASE Simple!Debayer
  <2>1. fatal' = fatal /\ (faults' = faults \/ faults' = faults + 1)
    BY <1>13 DEF Simple!Debayer
  <2>2. MaxFaults \in Nat
    BY DEF SimpleConstants
  <2>3. QED
    BY <1>1, <1>2, <1>13, <2>1, <2>2, DebayerInv
<1>14. CASE Simple!IpaThread
  <2>1. fatal' = fatal /\ faults' = faults
    BY <1>14 DEF Simple!IpaThread
  <2>2. QED
    BY <1>1, <1>2, <1>14, <2>1, IpaThreadInv
<1>15. CASE Simple!ImageBufferReady
  <2>1. PICK status \in {"Success", "Error"} : active /\ position = "loop" /\ Simple!imageBufferReady(status)
    BY <1>15 DEF Simple!ImageBufferReady
  <2>2. fatal' = fatal /\ faults' = faults
    BY <2>1 DEF Simple!imageBufferReady
  <2>3. SimpleInv'
    BY <2>1, ImageInv
  <2>4. QED
    BY <1>1, <1>2, <2>2, <2>3
<1>16. CASE \E c \in Configs : Simple!Configure(c)
  <2>1. PICK c \in Configs : Simple!Configure(c)
    BY <1>16
  <2>2. fatal' = fatal /\ faults' = faults
    BY <2>1 DEF Simple!Configure
  <2>3. QED
    BY <1>1, <1>2, <2>1, <2>2, ConfigureInv
<1>17. CASE Simple!Start
  <2>1. fatal' = fatal /\ faults' = faults
    BY <1>17 DEF Simple!Start
  <2>2. QED
    BY <1>1, <1>2, <1>17, <2>1, StartInv
<1>18. CASE Simple!Stop
  <2>1. fatal' = fatal /\ faults' = faults
    BY <1>18 DEF Simple!Stop
  <2>2. QED
    BY <1>1, <1>2, <1>18, <2>1, StopInv
<1>19. CASE \E r \in Request : Simple!QueueRequest(r, Simple!Streams(config))
  <2>1. PICK r \in Request : Simple!QueueRequest(r, Simple!Streams(config))
    BY <1>19
  <2>2. fatal' = fatal /\ faults' = faults
    BY <2>1 DEF Simple!QueueRequest
  <2>3. QED
    BY <1>1, <1>2, <2>1, <2>2, QueueRequestInv
<1>20. QED
  BY <1>1, <1>3, <1>4, <1>a, <1>5, <1>6, <1>7, <1>8, <1>9, <1>10, <1>11, <1>12, <1>13, <1>14, <1>15, <1>16, <1>17, <1>18, <1>19
     DEF SimpleStep

LEMMA SimpleUnchanged ==
    ASSUME SimpleInv, UNCHANGED Simple!vars
    PROVE  SimpleInv'
<1>1. UNCHANGED <<config, active, position, ret, waiting, queued, stopped, req, sequence, frameInfo, conversionQueue, video,
                  m2m, swIsp, faults>>
  BY DEF Simple!vars, Simple!queueVars, Simple!convVars
<1>2. /\ SimpleType /\ Booked /\ PiecesSound /\ MetadataComes /\ StagesSound /\ SwIspSound /\ M2mPhases /\ SwIspPhases /\ VideoPhases
      /\ LeftOver
  BY DEF SimpleInv, SimplePhases
<1>3. Simple!Stage' = Simple!Stage
  BY <1>1 DEF Simple!Stage
<1>4. /\ ConversionSound' /\ VideoSound' /\ M2mSound' /\ ToConvert' = ToConvert /\ StatsWork' = StatsWork
      /\ \A q \in Request, t \in AllStreams : Held(q, t)' <=> Held(q, t)
  BY <1>1, <1>3, PlacesKept
<1>5. SimpleType' /\ Booked'
  BY <1>1, <1>2, <1>3
     DEF SimpleType, Booked, SimpleQueues, SimpleFrames, Live, Missing, SimpleHeadWorks, Simple!Streams, Simple!Outs
<1>6. PiecesSound'
  <2>1. \A q \in Request, t \in AllStreams : Owes(q, t)' <=> Owes(q, t)
    BY <1>1 DEF Owes, Live
  <2>2. QED
    BY <1>2, <1>4, <2>1 DEF PiecesSound
<1>7. MetadataComes' /\ LeftOver' /\ StagesSound'
  BY <1>1, <1>2, <1>3, <1>4 DEF MetadataComes, Wanted, Coming, LeftOver, StagesSound
<1>8. SwIspSound'
  BY <1>1, <1>2, <1>3, SwIspKept DEF Coverage
<1>9. M2mPhases' /\ SwIspPhases' /\ VideoPhases'
  BY <1>1, <1>2, <1>3 DEF M2mPhases, NoM2mWork, SwIspPhases, Simple!NoSwIsp, VideoPhases
<1>10. QED
  BY <1>4, <1>5, <1>6, <1>7, <1>8, <1>9 DEF SimpleInv, SimplePhases

\* As long as the process lives and the converter queues every frame the invariant
\* holds, and it lives if the debayer lost nothing.
SimpleSafe ==
    /\ dropped \in Nat
    /\ dropped = 0 => /\ fatal = "none" => SimpleInv
                      /\ faults \in Nat /\ (faults = 0 => fatal = "none")

\* Only a frame that the converter fails to queue counts as dropped.
LEMMA DroppedGrows ==
    ASSUME Simple!Next, dropped \in Nat
    PROVE  dropped' \in Nat /\ (dropped' = 0 => dropped = 0)
<1>1. CASE Simple!PipelineThread
  <2>1. CASE Simple!StopM2m
    BY <2>1 DEF Simple!StopM2m, Simple!M2mOutput, Simple!M2mInput
  <2>2. CASE Simple!StopVideo
    BY <2>2 DEF Simple!StopVideo, Simple!imageBufferReady
  <2>3. QED
    BY <1>1, <2>1, <2>2
       DEF Simple!PipelineThread, Simple!CompleteRequest, Simple!DoQueueRequests, Simple!QueueRefused,
           Simple!SwIspEvent, Simple!IpaEvent, Simple!StopSwIspOutput, Simple!StopSwIspInput,
           Simple!StopStep, Simple!ClearIncompleteRequests, Simple!StopWaiting
<1>2. CASE \E accepted \in 0 .. 3 : Simple!ConvertFails(accepted)
  BY <1>2 DEF Simple!ConvertFails
<1>3. CASE Simple!ImageBufferReady \/ Simple!M2m
  BY <1>3 DEF Simple!ImageBufferReady, Simple!imageBufferReady, Simple!M2m, Simple!M2mOutput, Simple!M2mInput
<1>4. QED
  BY <1>1, <1>2, <1>3
     DEF Simple!Next, Simple!Debayer, Simple!IpaThread, Simple!Configure, Simple!Start, Simple!Stop,
         Simple!QueueRequest

LEMMA SimpleSafeNext ==
    ASSUME SimpleConstants, SimpleSafe, [Simple!Next]_(Simple!vars)
    PROVE  SimpleSafe'
<1>1. CASE Simple!Next
  <2>1. dropped' \in Nat /\ (dropped' = 0 => dropped = 0)
    BY <1>1, DroppedGrows DEF SimpleSafe
  <2>2. ASSUME dropped' = 0
        PROVE  /\ fatal' = "none" => SimpleInv'
               /\ faults' \in Nat
               /\ faults' = 0 => fatal' = "none"
    <3>1. SimpleInv
      BY <1>1, <2>1, <2>2 DEF SimpleSafe, Simple!Next
    <3>2. QED
      BY <1>1, <2>1, <2>2, <3>1, SimpleNextInv
  <2>3. QED
    BY <2>1, <2>2 DEF SimpleSafe
<1>2. CASE UNCHANGED Simple!vars
  <2>1. fatal' = fatal /\ faults' = faults /\ dropped' = dropped
    BY <1>2 DEF Simple!vars
  <2>2. SimpleInv => SimpleInv'
    BY <1>2, SimpleUnchanged
  <2>3. QED
    BY <2>1, <2>2 DEF SimpleSafe
<1>3. QED
  BY <1>1, <1>2

LEMMA SimpleAlwaysSafe ==
    ASSUME SimpleConstants
    PROVE  Simple!Spec => []SimpleSafe
<1>1. Simple!Init => SimpleSafe
  <2>1. ASSUME Simple!Init PROVE SimpleSafe
    <3>1. SimpleInv
      BY <2>1, SimpleInitInv
    <3>2. faults = 0 /\ dropped = 0 /\ fatal = "none"
      BY <2>1 DEF Simple!Init
    <3>3. QED
      BY <3>1, <3>2 DEF SimpleSafe
  <2>2. QED
    BY <2>1
<1>2. SimpleSafe /\ [Simple!Next]_(Simple!vars) => SimpleSafe'
  BY SimpleSafeNext
<1>3. QED
  BY <1>1, <1>2, PTL DEF Simple!Spec

\* The Cardinality that SimplePipeline extends.
LEMMA SameCardinality ==
    ASSUME NEW S
    PROVE  Simple!Cardinality(S) = Cardinality(S)
BY DEF Simple!Cardinality, Cardinality

LEMMA OneAt ==
    ASSUME NEW S, NEW q \in Seq(S), IsInjective(q), NEW b
    PROVE  Cardinality({k \in DOMAIN q : q[k] = b}) = IF b \in ToSet(q) THEN 1 ELSE 0
<1> DEFINE At == {k \in DOMAIN q : q[k] = b}
<1>1. CASE b \in ToSet(q)
  <2>1. PICK k \in DOMAIN q : q[k] = b
    BY <1>1 DEF ToSet
  <2>2. At = {k}
    BY <2>1 DEF IsInjective
  <2>3. QED
    BY <1>1, <2>2, FS_Singleton
<1>2. CASE b \notin ToSet(q)
  <2>1. At = {}
    BY <1>2 DEF ToSet
  <2>2. QED
    BY <1>2, <2>1, FS_EmptySet
<1>3. QED
  BY <1>1, <1>2

LEMMA ContainsToSet ==
    ASSUME NEW S, NEW q \in Seq(S), NEW b
    PROVE  Simple!Contains(q, b) <=> b \in ToSet(q)
BY DEF Simple!Contains, ToSet

LEMMA SimpleCirculates ==
    ASSUME SimpleSafe
    PROVE  SimpleBuffersCirculate
<1> DEFINE buffer(i) == Simple!InternalBuffer(i)
           entered(i) == IF config.conv = "m2m" THEN buffer(i) \in DOMAIN m2m.queue ELSE Simple!Contains(swIsp.in, buffer(i))
           inPlace(i) == /\ Simple!Cardinality({k \in DOMAIN video : video[k] = buffer(i)}) + (IF entered(i) THEN 1 ELSE 0) = 1
                         /\ config.conv = "m2m" /\ ~entered(i) => \A s \in {"a", "b"} : ~Simple!Contains(m2m.in[s], buffer(i))
<1> SUFFICES ASSUME dropped = 0, active, Simple!Internal, Simple!Stage \notin {"video", "clear"}, fatal = "none", NEW i \in 1 .. MaxQueued
             PROVE  inPlace(i)
  BY Zenon DEF SimpleBuffersCirculate, Simple!InternalBuffersCirculate
<1> DEFINE b == buffer(i)
           converting == entered(i)
<1>1. SimpleInv
  BY DEF SimpleSafe
<1>2. VideoSound /\ M2mSound /\ SwIspSound /\ M2mPhases /\ SwIspPhases
  BY <1>1 DEF SimpleInv, SimplePhases
<1>3. /\ swIsp.in \in Seq(CaptureBuffers) /\ m2m.in["a"] \in Seq(CaptureBuffers) /\ m2m.in["b"] \in Seq(CaptureBuffers)
  BY <1>2 DEF SwIspSound, SwIspState, M2mSound
<1>4. Simple!Contains(swIsp.in, b) <=> b \in ToSet(swIsp.in)
  BY <1>3, ContainsToSet
<1>5. \A s \in {"a", "b"} : Simple!Contains(m2m.in[s], b) <=> b \in ToSet(m2m.in[s])
  BY <1>3, ContainsToSet
<1>6. config.conv \in {"m2m", "soft"}
  BY <1>1, StreamSets DEF Simple!Internal
<1>7. converting <=> b \in Inputs
  <2>1. CASE config.conv = "m2m"
    <3>1. ToSet(swIsp.in) = {}
      BY <1>2, <2>1, ToSetOfEmpty DEF SwIspPhases, Simple!NoSwIsp
    <3>2. QED
      BY <1>2, <2>1, <3>1 DEF M2mSound, Inputs
  <2>2. CASE config.conv = "soft"
    <3>1. ToSet(m2m.in["a"]) = {} /\ ToSet(m2m.in["b"]) = {}
      BY <1>2, <2>2, ToSetOfEmpty DEF M2mPhases, NoM2mWork
    <3>2. QED
      BY <1>4, <2>2, <3>1 DEF Inputs
  <2>3. QED
    BY <1>6, <2>1, <2>2
<1>8. (b \in ToSet(video)) <=> ~converting
  <2>1. b \in InternalBuffers
    BY DEF InternalBuffers
  <2>2. QED
    BY <1>2, <1>7, <2>1 DEF VideoSound
<1>9. Cardinality({k \in DOMAIN video : video[k] = b}) = IF b \in ToSet(video) THEN 1 ELSE 0
  BY <1>2, OneAt DEF VideoSound
<1>10. config.conv = "m2m" /\ ~converting => \A s \in {"a", "b"} : ~Simple!Contains(m2m.in[s], b)
  BY <1>5, <1>7 DEF Inputs
<1>11. QED
  BY <1>8, <1>9, <1>10, SameCardinality

\* SimpleBuffersStay: every internal buffer of the simple pipeline handler is in the
\* capture device or in the converter while the camera runs, and in one of them
\* only, whatever the errors of the device, the debayer's faults and the point at
\* which stop() finds them, as long as the memory-to-memory converter queues every
\* frame it is given.
THEOREM SimpleBuffersStay ==
    ASSUME SimpleConstants
    PROVE  Simple!Spec => []SimpleBuffersCirculate
<1>1. SimpleSafe => SimpleBuffersCirculate
  BY SimpleCirculates
<1>2. QED
  BY <1>1, SimpleAlwaysSafe, PTL

\* SimpleNeverAborts: no ASSERT of the simple pipeline handler, of its frame infos or
\* of the software ISP is reached as long as the debayer maps its buffers and the
\* memory-to-memory converter queues them: stop() finds no request left, and the
\* debayer's answers come in the order of its queues.
THEOREM SimpleNeverAborts ==
    ASSUME SimpleConstants
    PROVE  Simple!Spec => []SimpleNoAbort
<1>1. SimpleSafe => SimpleNoAbort
  BY DEF SimpleSafe, SimpleNoAbort, Simple!NoAbort
<1>2. QED
  BY <1>1, SimpleAlwaysSafe, PTL

(***************************************************************************)
(* Submission order: only queueRequest() and completeRequest() change the   *)
(* requests of the three queues in a row, and who has which request.        *)
(***************************************************************************)

SameOwners == \A r \in Request : req'[r].status = "Free" <=> req[r].status = "Free"
SameOrder == queued' \o stopped' \o waiting' = queued \o stopped \o waiting /\ SameOwners
Orderly == [Simple!Fifo!Next]_(Simple!Fifo!vars)

LEMMA OrderKept ==
    ASSUME SameOrder
    PROVE  Orderly
BY DEF SameOrder, SameOwners, Orderly, Simple!Fifo!vars

\* A handler keeps the requests with the pipeline handler.
LEMMA OwnersKept ==
    ASSUME req \in [Request -> SimpleRequest], NEW r \in Request, req[r].status # "Free", NEW S, NEW q, NEW info,
           q \in {req, Simple!completeBuffers(r, S)}, Simple!tryCompleteRequest(r, q, info)
    PROVE  SameOwners
<1>1. \A x \in Request : q[x].status = req[x].status
  BY DEF Simple!completeBuffers, SimpleRequest
<1>2. DOMAIN q = Request
  BY DEF Simple!completeBuffers
<1>3. req' = q \/ req' = [q EXCEPT ![r].status = "Complete"]
  BY DEF Simple!tryCompleteRequest
<1>4. \A x \in Request : x # r => req'[x].status = req[x].status
  BY <1>1, <1>2, <1>3
<1>5. req'[r].status # "Free"
  <2>1. CASE req' = q
    BY <1>1, <2>1
  <2>2. CASE req' = [q EXCEPT ![r].status = "Complete"]
    <3>1. q[r] \in SimpleRequest
      BY DEF Simple!completeBuffers, SimpleRequest, AllStreams
    <3>2. QED
      BY <1>2, <2>2, <3>1 DEF SimpleRequest
  <2>3. QED
    BY <1>3, <2>1, <2>2
<1>6. QED
  BY <1>4, <1>5 DEF SameOwners

\* A request that waits for something is not free.
LEMMA WaitsFor ==
    ASSUME SimpleInv, NEW r \in Request
    PROVE  /\ r \in ToConvert => req[r].status # "Free"
           /\ \A s \in AllStreams : r \in OutputsOf(s) => req[r].status # "Free"
           /\ ~Simple!Internal /\ Simple!RequestBuffer(r) \in ToSet(video) \cup Inputs => req[r].status # "Free"
<1>1. ASSUME NEW s \in AllStreams, Held(r, s) PROVE req[r].status # "Free"
  BY <1>1, Owing DEF Live
<1>2. /\ SimpleInv /\ VideoPhases /\ M2mPhases /\ SwIspPhases
  BY DEF SimpleInv, SimplePhases
<1>3. ASSUME r \in ToConvert PROVE req[r].status # "Free"
  <2>1. conversionQueue # <<>>
    BY <1>3 DEF ToConvert
  <2>2. Simple!useConversion
    BY <1>2, <2>1 DEF VideoPhases, Simple!useConversion
  <2>3. "a" \in Converted /\ "a" \in AllStreams
    BY <2>2 DEF Converted, Simple!Outs, AllStreams
  <2>4. QED
    BY <1>1, <1>3, <2>3 DEF Held
<1>4. ASSUME NEW s \in AllStreams, r \in OutputsOf(s) PROVE req[r].status # "Free"
  <2>1. s \in {"a", "b"} /\ (r \in ToSet(m2m.out[s]) \/ (s = "a" /\ r \in ToSet(swIsp.out)))
    BY <1>4 DEF OutputsOf
  <2>2. CASE r \in ToSet(m2m.out[s])
    <3>1. m2m.out[s] # <<>>
      BY <2>2 DEF ToSet
    <3>2. config.conv = "m2m"
      BY <2>1, <3>1, M2mInUse
    <3>3. s \in Converted
      BY <2>1, <3>2, StreamSets
    <3>4. QED
      BY <1>1, <1>4, <3>3 DEF Held
  <2>3. CASE s = "a" /\ r \in ToSet(swIsp.out)
    <3>1. swIsp # Simple!NoSwIsp
      BY <2>3 DEF ToSet, Simple!NoSwIsp
    <3>2. config.conv = "soft"
      BY <3>1, SwIspInUse
    <3>3. s \in Converted
      BY <2>3, <3>2, StreamSets
    <3>4. QED
      BY <1>1, <1>4, <3>3 DEF Held
  <2>4. QED
    BY <2>1, <2>2, <2>3
<1>5. ASSUME ~Simple!Internal, Simple!RequestBuffer(r) \in ToSet(video) \cup Inputs PROVE req[r].status # "Free"
  <2>1. Simple!CapturedStream \in AllStreams /\ Simple!CapturedStream \in Captured
    BY <1>5 DEF Simple!CapturedStream, AllStreams, Captured
  <2>2. QED
    BY <1>1, <1>5, <2>1 DEF Held
<1>6. QED
  BY <1>3, <1>4, <1>5

LEMMA InputOrder ==
    ASSUME SimpleInv, NEW b \in Inputs, Simple!conversionInputDone(b)
    PROVE  SameOwners
<1>1. req \in [Request -> SimpleRequest] /\ VideoSound
  BY DEF SimpleInv, SimpleType
<1>2. CASE config.raw
  <2>1. ~Simple!Internal
    BY <1>2 DEF Simple!Internal
  <2>2. b \in RequestBuffers
    BY <1>1, <2>1 DEF VideoSound
  <2> DEFINE r == b.request[1]
  <2>3. r \in Request /\ b = Simple!RequestBuffer(r)
    BY <2>2, RequestBufferOf
  <2>4. req[r].status # "Free"
    BY <2>1, <2>3, WaitsFor
  <2>5. Simple!tryCompleteRequest(r, Simple!completeBuffers(r, {"raw"}), frameInfo)
    BY <1>2 DEF Simple!conversionInputDone
  <2>6. QED
    BY <1>1, <2>3, <2>4, <2>5, OwnersKept
<1>3. CASE ~config.raw
  BY <1>3 DEF Simple!conversionInputDone, SameOwners
<1>4. QED
  BY <1>2, <1>3

LEMMA OutputOrder ==
    ASSUME SimpleInv, NEW s \in AllStreams, NEW r \in OutputsOf(s), r \in Request, Simple!conversionOutputDone(r, s)
    PROVE  SameOwners
<1>1. req \in [Request -> SimpleRequest]
  BY DEF SimpleInv, SimpleType
<1>2. req[r].status # "Free"
  BY WaitsFor
<1>3. Simple!tryCompleteRequest(r, Simple!completeBuffers(r, {s}), frameInfo)
  BY DEF Simple!conversionOutputDone
<1>4. QED
  BY <1>1, <1>2, <1>3, OwnersKept

LEMMA M2mOrder ==
    ASSUME SimpleInv, NEW s \in {"a", "b"}, Simple!M2mOutput(s) \/ Simple!M2mInput(s)
    PROVE  SameOrder
<1>1. UNCHANGED <<queued, stopped, waiting>>
  BY DEF Simple!M2mOutput, Simple!M2mInput, Simple!queueVars
<1>2. m2m.in[s] \in Seq(CaptureBuffers) /\ m2m.out[s] \in Seq(Request)
  BY DEF SimpleInv, M2mSound
<1>3. CASE Simple!M2mOutput(s)
  <2>1. m2m.out[s] # <<>> /\ Simple!conversionOutputDone(Head(m2m.out[s]), s)
    BY <1>3 DEF Simple!M2mOutput
  <2>2. Head(m2m.out[s]) \in Request /\ Head(m2m.out[s]) \in ToSet(m2m.out[s])
    BY <1>2, <2>1, HeadInToSet
  <2>3. Head(m2m.out[s]) \in OutputsOf(s) /\ s \in AllStreams
    BY <2>2 DEF OutputsOf, AllStreams
  <2>4. QED
    BY <1>1, <2>1, <2>2, <2>3, OutputOrder DEF SameOrder
<1>4. CASE Simple!M2mInput(s)
  <2>1. m2m.in[s] # <<>> /\ (Simple!conversionInputDone(Head(m2m.in[s])) \/ req' = req)
    BY <1>4 DEF Simple!M2mInput
  <2>2. Head(m2m.in[s]) \in Inputs
    BY <1>2, <2>1, HeadInToSet DEF Inputs
  <2>3. req' = req => SameOwners
    BY DEF SameOwners
  <2>4. QED
    BY <1>1, <2>1, <2>2, <2>3, InputOrder DEF SameOrder
<1>5. QED
  BY <1>3, <1>4

LEMMA SwIspOrder ==
    ASSUME SimpleInv, Simple!SwIspEvent \/ Simple!StopSwIspOutput \/ Simple!StopSwIspInput
    PROVE  SameOrder
<1>1. UNCHANGED <<queued, stopped, waiting>>
  BY DEF Simple!SwIspEvent, Simple!StopSwIspOutput, Simple!StopSwIspInput, Simple!queueVars
<1>2. SwIspSound /\ swIsp.in \in Seq(CaptureBuffers) /\ swIsp.out \in Seq(Request)
  BY DEF SimpleInv, SwIspSound, SwIspState
<1>3. ASSUME NEW r \in ToSet(swIsp.out), Simple!conversionOutputDone(r, "a") PROVE SameOwners
  <2>1. r \in OutputsOf("a") /\ r \in Request /\ "a" \in AllStreams
    BY <1>2, <1>3, QueueOf DEF OutputsOf, AllStreams
  <2>2. QED
    BY <1>3, <2>1, OutputOrder
<1>4. ASSUME NEW b \in ToSet(swIsp.in), Simple!conversionInputDone(b) PROVE SameOwners
  BY <1>4, InputOrder DEF Inputs
<1>5. CASE Simple!SwIspEvent
  <2> DEFINE e == Head(swIsp.events)
  <2>1. /\ swIsp.events # <<>>
        /\ \/ e.name = "stats" /\ req' = req
           \/ e.name = "output" /\ Simple!conversionOutputDone(e.out, "a")
           \/ e.name \notin {"stats", "output"} /\ Simple!conversionInputDone(e.in)
    BY <1>5 DEF Simple!SwIspEvent
  <2>2. /\ e \in DebayerEvent
        /\ e.name = "output" => e.out \in ToSet(swIsp.out)
        /\ e.name = "input" => e.in \in ToSet(swIsp.in)
    BY <1>2, <2>1, EventMatches
  <2>3. e.name \in {"stats", "output", "input"}
    BY <2>2 DEF DebayerEvent
  <2>4. req' = req => SameOwners
    BY DEF SameOwners
  <2>5. SameOwners
    BY <1>3, <1>4, <2>1, <2>2, <2>3, <2>4
  <2>6. QED
    BY <1>1, <2>5 DEF SameOrder
<1>6. CASE Simple!StopSwIspOutput
  <2>1. swIsp.out # <<>> /\ Simple!conversionOutputDone(Head(swIsp.out), "a")
    BY <1>6 DEF Simple!StopSwIspOutput
  <2>2. QED
    BY <1>1, <1>2, <1>3, <2>1, HeadInToSet DEF SameOrder
<1>7. CASE Simple!StopSwIspInput
  <2>1. swIsp.in # <<>> /\ Simple!conversionInputDone(Head(swIsp.in))
    BY <1>7 DEF Simple!StopSwIspInput
  <2>2. QED
    BY <1>1, <1>2, <1>4, <2>1, HeadInToSet DEF SameOrder
<1>8. QED
  BY <1>5, <1>6, <1>7

LEMMA IpaOrder ==
    ASSUME SimpleInv, Simple!IpaEvent
    PROVE  SameOrder
<1>1. UNCHANGED <<queued, stopped, waiting>>
  BY DEF Simple!IpaEvent, Simple!queueVars
<1>2. SimpleType /\ SimpleFrames
  BY DEF SimpleInv, Booked
<1> DEFINE f == Head(swIsp.metadata)
<1>3. CASE f \in DOMAIN frameInfo
  <2> DEFINE r == frameInfo[f].request
             info == [frameInfo EXCEPT ![f].processed = TRUE]
  <2>1. r \in Request /\ req[r].status # "Free" /\ req \in [Request -> SimpleRequest]
    BY <1>2, <1>3 DEF SimpleType, FrameEntry, SimpleFrames, Live
  <2>2. Simple!tryCompleteRequest(r, req, info)
    BY <1>3 DEF Simple!IpaEvent
  <2>3. req \in {req, Simple!completeBuffers(r, {})}
    OBVIOUS
  <2> HIDE DEF r, info
  <2>4. SameOwners
    BY <2>1, <2>2, <2>3, OwnersKept
  <2>5. QED
    BY <1>1, <2>4 DEF SameOrder
<1>4. CASE f \notin DOMAIN frameInfo
  <2>1. req' = req
    BY <1>4 DEF Simple!IpaEvent
  <2>2. QED
    BY <1>1, <2>1 DEF SameOrder, SameOwners
<1>5. QED
  BY <1>3, <1>4

LEMMA ImageOrder ==
    ASSUME SimpleInv, NEW status, Simple!imageBufferReady(status)
    PROVE  SameOrder
<1>1. UNCHANGED <<queued, stopped, waiting>> /\ video # <<>>
  BY DEF Simple!imageBufferReady, Simple!queueVars
<1>2. req \in [Request -> SimpleRequest] /\ VideoSound /\ ConversionSound
  BY DEF SimpleInv, SimpleType
<1>3. Head(video) \in ToSet(video)
  BY <1>1, <1>2, HeadInToSet DEF VideoSound
<1>4. CASE (Simple!ImageFailed(Head(video)) \/ Simple!ImageDone(Head(video))) /\ ~Simple!Internal
  <2> DEFINE r == Head(video).request[1]
  <2>1. Head(video) \in RequestBuffers
    BY <1>2, <1>3, <1>4 DEF VideoSound
  <2>2. r \in Request /\ Head(video) = Simple!RequestBuffer(r)
    BY <2>1, RequestBufferOf
  <2>3. req[r].status # "Free"
    BY <1>3, <1>4, <2>2, WaitsFor
  <2>4. \E info : Simple!tryCompleteRequest(r, Simple!completeBuffers(r, {Simple!CapturedStream}), info)
    BY <1>4 DEF Simple!ImageFailed, Simple!ImageDone
  <2>5. QED
    BY <1>1, <1>2, <2>2, <2>3, <2>4, OwnersKept DEF SameOrder
<1>5. CASE Simple!InternalFailed(Head(video), status)
  <2>1. CASE conversionQueue = <<>>
    <3>1. req' = req
      BY <1>5, <2>1 DEF Simple!InternalFailed
    <3>2. QED
      BY <1>1, <3>1 DEF SameOrder, SameOwners
  <2>2. CASE conversionQueue # <<>>
    <3> DEFINE r == Head(conversionQueue).request
               S == Head(conversionQueue).outputs
    <3>1. /\ conversionQueue' = Tail(conversionQueue) /\ config' = config
          /\ Simple!tryCompleteRequest(r, Simple!completeBuffers(r, S), Simple!NoMetadata(r))
      BY <1>5, <2>2 DEF Simple!InternalFailed, Simple!imageBufferReady
    <3>2. r \in Request /\ r \in ToConvert
      BY <1>2, <2>2, <3>1, ConversionPopped
    <3>3. req[r].status # "Free"
      BY <3>2, WaitsFor
    <3>4. QED
      BY <1>1, <1>2, <3>1, <3>2, <3>3, OwnersKept DEF SameOrder
  <2>3. QED
    BY <2>1, <2>2
<1>6. CASE Simple!Convert(Head(video))
  <2>1. req' = req
    BY <1>6 DEF Simple!Convert
  <2>2. QED
    BY <1>1, <2>1 DEF SameOrder, SameOwners
<1>7. \/ (Simple!ImageFailed(Head(video)) \/ Simple!ImageDone(Head(video))) /\ ~Simple!Internal
      \/ Simple!InternalFailed(Head(video), status) \/ Simple!Convert(Head(video))
  <2>1. CASE status # "Success" /\ ~Simple!Internal
    BY <2>1 DEF Simple!imageBufferReady
  <2>2. CASE status # "Success" /\ Simple!Internal
    BY <2>2 DEF Simple!imageBufferReady
  <2>3. CASE status = "Success" /\ Simple!useConversion
    BY <2>3 DEF Simple!imageBufferReady
  <2>4. CASE status = "Success" /\ ~Simple!useConversion
    BY <2>4 DEF Simple!imageBufferReady, Simple!Internal
  <2>5. QED
    BY <2>1, <2>2, <2>3, <2>4
<1>8. QED
  BY <1>4, <1>5, <1>6, <1>7

LEMMA CompleteOrder ==
    ASSUME SimpleInv, Simple!CompleteRequest
    PROVE  Orderly
<1>1. /\ req \in [Request -> SimpleRequest] /\ queued \in Seq(Request) /\ stopped \in Seq(Request) /\ waiting \in Seq(Request)
  BY DEF SimpleInv, SimpleType, Booked, SimpleQueues
<1>2. stopped' = stopped /\ waiting' = waiting
  BY DEF Simple!CompleteRequest
<1>3. CASE queued # <<>> /\ req[Head(queued)].status # "Pending"
  <2> DEFINE h == Head(queued)
             rest == stopped \o waiting
  <2>1. queued' = Tail(queued) /\ req' = [req EXCEPT ![h] = Simple!FreeRequest]
    BY <1>3 DEF Simple!CompleteRequest
  <2>2. h \in Request /\ Tail(queued) \in Seq(Request) /\ rest \in Seq(Request)
    BY <1>1, <1>3
  <2>3. queued \o stopped \o waiting = queued \o rest /\ Tail(queued) \o stopped \o waiting = Tail(queued) \o rest
    <3>1. \A s, t, u \in Seq(Request) : (s \o t) \o u = s \o (t \o u)
      BY ConcatAssociative
    <3>2. ASSUME NEW s \in Seq(Request) PROVE s \o stopped \o waiting = s \o rest
      BY <1>1, <3>1, SMTT(30)
    <3>3. QED
      BY <1>1, <2>2, <3>2
  <2>4. queued \o rest # <<>> /\ Head(queued \o rest) = h /\ Tail(queued) \o rest = Tail(queued \o rest)
    BY <1>1, <1>3, <2>2, ConcatPop
  <2>5. {r \in Request : req'[r].status = "Free"} = {r \in Request : req[r].status = "Free"} \cup {h}
    BY <1>1, <2>1, <2>2 DEF Simple!FreeRequest
  <2>6. Simple!Fifo!Complete
    BY <1>2, <2>1, <2>3, <2>4, <2>5 DEF Simple!Fifo!Complete
  <2>7. QED
    BY <2>6 DEF Orderly, Simple!Fifo!Next
<1>4. CASE ~(queued # <<>> /\ req[Head(queued)].status # "Pending")
  <2>1. queued' = queued /\ req' = req
    BY <1>4 DEF Simple!CompleteRequest
  <2>2. QED
    BY <1>2, <2>1, OrderKept DEF SameOrder, SameOwners
<1>5. QED
  BY <1>3, <1>4

LEMMA QueueOrder ==
    ASSUME SimpleInv, NEW r \in Request, NEW streams, Simple!QueueRequest(r, streams)
    PROVE  Orderly
<1>1. /\ req \in [Request -> SimpleRequest] /\ queued \in Seq(Request) /\ stopped \in Seq(Request) /\ waiting \in Seq(Request)
  BY DEF SimpleInv, SimpleType, Booked, SimpleQueues
<1>2. /\ stopped' = stopped /\ queued' = queued /\ waiting' = Append(waiting, r) /\ req[r].status = "Free"
      /\ req' = [req EXCEPT ![r] = [status |-> "Pending", pending |-> streams, sequence |-> 0]]
  BY DEF Simple!QueueRequest
<1>3. queued \o stopped \in Seq(Request)
  BY <1>1
<1>4. queued' \o stopped' \o waiting' = Append(queued \o stopped \o waiting, r)
  BY <1>1, <1>2, <1>3, ConcatAppend
<1>5. {x \in Request : req'[x].status = "Free"} = {x \in Request : req[x].status = "Free"} \ {r}
  BY <1>1, <1>2
<1>6. Simple!Fifo!Queue(r)
  BY <1>2, <1>4, <1>5 DEF Simple!Fifo!Queue
<1>7. QED
  BY <1>6 DEF Orderly, Simple!Fifo!Next

LEMMA DoQueueOrder ==
    ASSUME SimpleInv, Simple!DoQueueRequests
    PROVE  SameOrder
<1>1. /\ req \in [Request -> SimpleRequest] /\ queued \in Seq(Request) /\ stopped \in Seq(Request) /\ waiting \in Seq(Request)
      /\ StagesSound
  BY DEF SimpleInv, SimpleType, Booked, SimpleQueues, SimplePhases
<1>2. stopped' = stopped
  BY DEF Simple!DoQueueRequests
<1>3. CASE waiting # <<>> /\ Len(queued) # MaxQueued
  <2> DEFINE h == Head(waiting)
  <2>1. queued' = Append(queued, h) /\ waiting' = Tail(waiting) /\ req' = [req EXCEPT ![h].sequence = sequence]
    BY <1>3 DEF Simple!DoQueueRequests
  <2>2. stopped = <<>>
    BY <1>1, <1>3 DEF StagesSound
  <2>3. h \in Request /\ Append(queued, h) \in Seq(Request) /\ Append(queued, h) \o <<>> = Append(queued, h) /\ queued \o <<>> = queued
    BY <1>1, <1>3, ConcatEmptySeq
  <2>4. queued' \o stopped' \o waiting' = queued \o stopped \o waiting
    BY <1>1, <1>2, <1>3, <2>1, <2>2, <2>3, ConcatShift
  <2>5. SameOwners
    BY <1>1, <2>1, <2>3 DEF SameOwners, SimpleRequest
  <2>6. QED
    BY <2>4, <2>5 DEF SameOrder
<1>4. CASE ~(waiting # <<>> /\ Len(queued) # MaxQueued)
  <2>1. UNCHANGED <<queued, waiting, req>>
    BY <1>4 DEF Simple!DoQueueRequests
  <2>2. QED
    BY <1>2, <2>1 DEF SameOrder, SameOwners
<1>5. QED
  BY <1>3, <1>4

LEMMA StopOrder ==
    ASSUME SimpleInv, Simple!Stop
    PROVE  SameOrder
<1>1. /\ queued \in Seq(Request) /\ waiting \in Seq(Request) /\ StagesSound
  BY DEF SimpleInv, Booked, SimpleQueues, SimplePhases
<1>2. position = "loop" /\ stopped' = waiting /\ waiting' = <<>> /\ queued' = queued /\ req' = req
  BY DEF Simple!Stop
<1>3. stopped = <<>>
  BY <1>1, <1>2 DEF StagesSound, Simple!Stage
<1>4. queued \o <<>> = queued /\ queued \o waiting \in Seq(Request)
  BY <1>1, ConcatEmptySeq
<1>5. (queued \o waiting) \o <<>> = queued \o waiting
  BY <1>4, ConcatEmptySeq
<1>6. QED
  BY <1>2, <1>3, <1>4, <1>5 DEF SameOrder, SameOwners

LEMMA CancelOrder ==
    ASSUME SimpleInv, Simple!ClearIncompleteRequests \/ Simple!StopWaiting
    PROVE  SameOrder
<1>1. /\ req \in [Request -> SimpleRequest] /\ queued \in Seq(Request) /\ stopped \in Seq(Request) /\ waiting \in Seq(Request)
      /\ SimpleQueues /\ ConversionSound
  BY DEF SimpleInv, SimpleType, Booked, SimpleQueues
<1>2. ASSUME NEW r \in Request, req[r].status # "Free", req' = [req EXCEPT ![r].status = "Cancelled", ![r].pending = {}]
      PROVE  SameOwners
  BY <1>1, <1>2, RequestCancelled DEF SameOwners
<1>3. req' = req => SameOwners
  BY DEF SameOwners
<1>4. CASE Simple!ClearIncompleteRequests
  <2>1. UNCHANGED <<queued, stopped, waiting, config>>
    BY <1>4 DEF Simple!ClearIncompleteRequests, Simple!queueVars
  <2>2. CASE conversionQueue = <<>>
    <3>1. req' = req
      BY <1>4, <2>2 DEF Simple!ClearIncompleteRequests
    <3>2. QED
      BY <1>3, <2>1, <3>1 DEF SameOrder
  <2>3. CASE conversionQueue # <<>>
    <3> DEFINE r == Head(conversionQueue).request
    <3>1. conversionQueue' = Tail(conversionQueue) /\ req' = [req EXCEPT ![r].status = "Cancelled", ![r].pending = {}]
      BY <1>4, <2>3 DEF Simple!ClearIncompleteRequests
    <3>2. r \in Request /\ r \in ToConvert
      BY <1>1, <2>1, <2>3, <3>1, ConversionPopped
    <3>3. req[r].status # "Free"
      BY <3>2, WaitsFor
    <3>4. QED
      BY <1>2, <2>1, <3>1, <3>2, <3>3 DEF SameOrder
  <2>4. QED
    BY <2>2, <2>3
<1>5. CASE Simple!StopWaiting
  <2>1. waiting' = waiting
    BY <1>5 DEF Simple!StopWaiting
  <2>2. CASE stopped = <<>>
    <3>1. UNCHANGED <<req, queued, stopped>>
      BY <1>5, <2>2 DEF Simple!StopWaiting
    <3>2. QED
      BY <1>3, <2>1, <3>1 DEF SameOrder
  <2>3. CASE stopped # <<>>
    <3> DEFINE h == Head(stopped)
    <3>1. /\ stopped' = Tail(stopped) /\ queued' = Append(queued, h)
          /\ req' = [req EXCEPT ![h].status = "Cancelled", ![h].pending = {}]
      BY <1>5, <2>3 DEF Simple!StopWaiting
    <3>2. h \in Request /\ h \in ToSet(stopped)
      BY <1>1, <2>3, HeadInToSet
    <3>3. req[h].status # "Free"
      BY <1>1, <3>2 DEF SimpleQueues
    <3>4. queued' \o stopped' = queued \o stopped
      BY <1>1, <2>3, <3>1, ConcatShift
    <3>5. QED
      BY <1>2, <2>1, <3>1, <3>2, <3>3, <3>4 DEF SameOrder
  <2>4. QED
    BY <2>2, <2>3
<1>6. QED
  BY <1>4, <1>5

LEMMA QueueRefusedOrder ==
    ASSUME SimpleInv, Simple!QueueRefused
    PROVE  SameOrder
<1>1. /\ req \in [Request -> SimpleRequest] /\ queued \in Seq(Request) /\ waiting \in Seq(Request)
      /\ SimpleQueues /\ StagesSound
  BY DEF SimpleInv, SimpleType, Booked, SimpleQueues, SimplePhases
<1> DEFINE h == Head(waiting)
<1>2. /\ waiting # <<>> /\ queued' = Append(queued, h) /\ waiting' = Tail(waiting) /\ stopped' = stopped
      /\ req' = [req EXCEPT ![h] = [status |-> "Cancelled", pending |-> {}, sequence |-> sequence]]
  BY DEF Simple!QueueRefused
<1>3. stopped = <<>>
  BY <1>1, <1>2 DEF StagesSound
<1>4. h \in Request /\ Append(queued, h) \in Seq(Request) /\ Append(queued, h) \o <<>> = Append(queued, h) /\ queued \o <<>> = queued
  BY <1>1, <1>2, ConcatEmptySeq
<1>5. queued' \o stopped' \o waiting' = queued \o stopped \o waiting
  BY <1>1, <1>2, <1>3, <1>4, ConcatShift
<1>6. h \in ToSet(waiting)
  BY <1>1, <1>2, HeadInToSet
<1>7. SameOwners
  BY <1>1, <1>2, <1>4, <1>6 DEF SameOwners, SimpleQueues
<1>8. QED
  BY <1>5, <1>7 DEF SameOrder

LEMMA SimpleOrder ==
    ASSUME SimpleConstants, SimpleSafe, dropped = 0, dropped' = 0, [Simple!Next]_(Simple!vars)
    PROVE  Orderly
<1>1. CASE UNCHANGED Simple!vars
  BY <1>1, OrderKept DEF Simple!vars, Simple!queueVars, SameOrder, SameOwners
<1>2. CASE Simple!Next
  <2>1. SimpleInv /\ SimpleStep
    BY <1>2, StepOfNext DEF SimpleSafe
  <2>2. CASE Simple!CompleteRequest
    BY <2>1, <2>2, CompleteOrder
  <2>3. CASE \E r \in Request : Simple!QueueRequest(r, Simple!Streams(config))
    BY <2>1, <2>3, QueueOrder
  <2>4. CASE Simple!DoQueueRequests \/ Simple!QueueRefused \/ Simple!Stop \/ Simple!ClearIncompleteRequests \/ Simple!StopWaiting
    BY <2>1, <2>4, DoQueueOrder, QueueRefusedOrder, StopOrder, CancelOrder, OrderKept
  <2>5. CASE Simple!SwIspEvent \/ Simple!StopSwIspOutput \/ Simple!StopSwIspInput \/ Simple!IpaEvent
    BY <2>1, <2>5, SwIspOrder, IpaOrder, OrderKept
  <2>6. CASE Simple!StopM2m \/ Simple!M2m
    <3>1. PICK s \in {"a", "b"} : Simple!M2mOutput(s) \/ Simple!M2mInput(s)
      BY <2>6 DEF Simple!StopM2m, Simple!M2m
    <3>2. QED
      BY <2>1, <3>1, M2mOrder, OrderKept
  <2>7. CASE Simple!StopVideo \/ Simple!ImageBufferReady
    <3>1. (\E status : Simple!imageBufferReady(status)) \/ UNCHANGED <<queued, stopped, waiting, req>>
      BY <2>7 DEF Simple!StopVideo, Simple!ImageBufferReady, Simple!queueVars
    <3>2. CASE UNCHANGED <<queued, stopped, waiting, req>>
      BY <3>2, OrderKept DEF SameOrder, SameOwners
    <3>3. QED
      BY <2>1, <3>1, <3>2, ImageOrder, OrderKept
  <2>8. CASE Simple!StopStep \/ Simple!Debayer \/ Simple!IpaThread \/ (\E c \in Configs : Simple!Configure(c)) \/ Simple!Start
    <3>1. UNCHANGED <<queued, stopped, waiting, req>>
      BY <2>8 DEF Simple!StopStep, Simple!Debayer, Simple!IpaThread, Simple!Configure, Simple!Start, Simple!queueVars
    <3>2. QED
      BY <3>1, OrderKept DEF SameOrder, SameOwners
  <2>9. QED
    BY <2>1, <2>2, <2>3, <2>4, <2>5, <2>6, <2>7, <2>8 DEF SimpleStep
<1>3. QED
  BY <1>1, <1>2

\* SimpleInOrder: the simple pipeline handler returns requests once and in the order
\* they were queued, whichever of capture, converter, debayer and IPA is late, and
\* stop() returns what they still had before what never left the queue (the half of
\* SimpleServes that does not depend on fairness), as long as the memory-to-memory
\* converter queues every frame it is given.
THEOREM SimpleInOrder ==
    ASSUME SimpleConstants
    PROVE  Simple!Spec /\ [](dropped = 0) => Simple!InOrder
<1>1. Simple!Init => Simple!Fifo!Init
  <2>1. ASSUME Simple!Init PROVE Simple!Fifo!Init
    <3>1. queued = <<>> /\ stopped = <<>> /\ waiting = <<>> /\ req = [r \in Request |-> Simple!FreeRequest]
      BY <2>1 DEF Simple!Init
    <3>2. queued \o stopped \o waiting = <<>>
      BY <3>1, ConcatEmptySeq
    <3>3. {r \in Request : req[r].status = "Free"} = Request
      BY <3>1 DEF Simple!FreeRequest
    <3>4. QED
      BY <3>2, <3>3 DEF Simple!Fifo!Init
  <2>2. QED
    BY <2>1
<1>2. SimpleSafe /\ dropped = 0 /\ (dropped = 0)' /\ [Simple!Next]_(Simple!vars) => [Simple!Fifo!Next]_(Simple!Fifo!vars)
  BY SimpleOrder DEF Orderly
<1>3. QED
  BY <1>1, <1>2, SimpleAlwaysSafe, PTL DEF Simple!Spec, Simple!InOrder, Simple!Fifo!Spec
=============================================================================
