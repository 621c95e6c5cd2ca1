------------------------- MODULE RpiPipelineProofs -------------------------
(***************************************************************************)
(* The theorems about the Raspberry Pi pipeline handler, for any number of  *)
(* requests, frames, timeouts and lost embedded data, as long as no request *)
(* waits for room in the device: in a session in which no device refuses a  *)
(* buffer, no ASSERT is reached (RpiNoAbort) and, when start() has found no *)
(* buffer still to queue, no buffer is lost or doubled (RpiBuffersInPlace)  *)
(* and the state machine never waits for what cannot come (RpiNoStall).     *)
(* AnySession is what holds in the other sessions too: it shows that stop() *)
(* leaves nothing of a refused buffer to the next session.                  *)
(*                                                                          *)
(* The invariant RpiInv follows the stack of functions in progress: what    *)
(* requestQueue_, queuedRequests_ and state_ have in common at each call    *)
(* (InStep, StatesSound), that the handler of the next event finds the      *)
(* request it is about at the head of the queue (OneJob), and that a        *)
(* request is given to the IPA once (FilledSound).                          *)
(*                                                                          *)
(* PlaceInv adds the buffers: an internal one is in one place (Conserved),  *)
(* one for each request is in line, in the order of the requests (InOrder), *)
(* the ones of the first request are in work once its turn has come         *)
(* (Owned), and tryRunPipeline() and checkRequestCompleted() leave nothing  *)
(* undone that they could do (Exhausted).                                   *)
(***************************************************************************)
EXTENDS MCHandlers, QueueLemmas, FiniteSetTheorems

\* Finitely many requests, none of which waits for room in the device.
RpiConstants == IsFiniteSet(Pair) /\ MaxQueued \in Nat /\ Cardinality(Pair) <= MaxQueued

RpiStates == {"Stopped", "Idle", "Busy", "IpaComplete", "Error"}
RpiRequest ==
    [status : {"Free", "Pending", "Complete", "Cancelled"}, streams : SUBSET Rpi!Stream, pending : SUBSET Rpi!Stream,
     filled : BOOLEAN]
DoneStreams == {"image", "embedded", "input", "output", "stats"}

\* The functions that may be in progress.  As no request waits for room in the device,
\* completeRequest() does not run handleState() within itself.
Base == {<<>>, <<"doQueue">>}
Handling == {<<"handleState">>, <<"handleState", "doQueue">>}
Trying == {<<"tryRun">>, <<"tryRun", "doQueue">>}
Checking == {<<"checkRequest", "tryRun">>, <<"checkRequest", "tryRun", "doQueue">>}
Finishing == {<<"complete", "completed", "tryRun">>, <<"complete", "completed", "tryRun", "doQueue">>}
FinishQueue == {<<"doQueue", "completed", "tryRun">>, <<"doQueue", "completed", "tryRun", "doQueue">>}
Finished == {<<"completed", "tryRun">>, <<"completed", "tryRun", "doQueue">>}
Clearing == {<<"clear">>, <<"clear", "stopIpa", "waiting">>}
Giving == {<<"complete", "pop", "clear">>, <<"complete", "pop", "clear", "stopIpa", "waiting">>}
GiveQueue == {<<"doQueue", "pop", "clear">>, <<"doQueue", "pop", "clear", "stopIpa", "waiting">>}
Given == {<<"pop", "clear">>, <<"pop", "clear", "stopIpa", "waiting">>}
Refusing == {<<"complete", "doQueue">>}
RefuseQueue == {<<"doQueue", "doQueue">>}
IpaStopping == {<<"stopIpa", "waiting">>}
Ending == {<<"waiting">>}

\* Those of stop().
Stopping ==
    {<<"clear", "stopIpa", "waiting">>, <<"complete", "pop", "clear", "stopIpa", "waiting">>,
     <<"doQueue", "pop", "clear", "stopIpa", "waiting">>, <<"pop", "clear", "stopIpa", "waiting">>}

RunningStacks == Handling \cup Trying
CheckedStacks == Checking \cup Finishing \cup FinishQueue \cup Finished
ClearStacks == Clearing \cup Giving \cup GiveQueue \cup Given
RefuseStacks == Refusing \cup RefuseQueue
EndStacks == IpaStopping \cup Ending
RpiStacks == Base \cup RunningStacks \cup CheckedStacks \cup ClearStacks \cup RefuseStacks \cup EndStacks

RpiType ==
    /\ active \in BOOLEAN /\ state \in RpiStates /\ stack \in RpiStacks
    /\ req \in [Pair -> RpiRequest]
    /\ queued \in Seq(Pair) /\ requestQueue \in Seq(Pair) /\ IsInjective(requestQueue)
    /\ DOMAIN done = DoneStreams

\* No request waits longer than doQueueRequests() runs.
NewRequest(r) ==
    waiting = <<r>> /\ r \notin ToSet(requestQueue) /\ req[r].status = "Pending" /\ ~req[r].filled
NoneWaits ==
    /\ stopped = <<>>
    /\ waiting = <<>> \/ (stack = <<"doQueue">> /\ \E r \in Pair : NewRequest(r))

AllPending(q) == \A r \in ToSet(q) : req[r].status = "Pending"

\* The handler's requestQueue_ and the base class's queuedRequests_ have the same
\* requests, but for the one that is being completed.
InStep ==
    /\ stack \in Base \cup RunningStacks \cup Checking \cup Clearing \cup EndStacks =>
        queued = requestQueue /\ AllPending(requestQueue)
    /\ stack \in Finishing \cup Giving =>
        /\ requestQueue # <<>> /\ AllPending(Tail(requestQueue))
        /\ queued = Tail(requestQueue) \/ (queued = requestQueue /\ req[Head(requestQueue)].status # "Pending")
    /\ stack \in FinishQueue \cup Finished \cup GiveQueue \cup Given =>
        requestQueue # <<>> /\ AllPending(Tail(requestQueue)) /\ queued = Tail(requestQueue)
    /\ stack \in RefuseStacks \cup EndStacks => requestQueue = <<>>
    /\ stack \in Refusing => queued = <<>> \/ \E r \in Pair : queued = <<r>> /\ req[r].status # "Pending"
    /\ stack \in RefuseQueue => queued = <<>>

\* What the functions in progress say of state_.
StatesSound ==
    /\ stack \in RunningStacks => Rpi!isRunning
    /\ stack \in CheckedStacks => state = "IpaComplete"
    /\ stack \in ClearStacks => state = IF stack \in Stopping THEN "Stopped" ELSE "Error"
    /\ stack \in RefuseStacks => state = "Error"
    /\ stack \in EndStacks => state = "Stopped"
    /\ ~Rpi!isRunning /\ stack \in Base => requestQueue = <<>>
    /\ state \in {"Busy", "IpaComplete"} => requestQueue # <<>>
    /\ ~active => state = "Stopped" /\ stack = <<>>
    /\ state = "Stopped" /\ stack \in Base => ~active
    /\ ~active \/ stack \in Ending => calls = <<>> /\ events = <<>>
    /\ ~Rpi!isRunning => input = <<>> /\ done = Rpi!NotDone

\* Only the request that the pipeline works on has metadata.
FilledSound ==
    Rpi!isRunning => \A r \in ToSet(requestQueue) : req[r].filled => state # "Idle" /\ r = Head(requestQueue)

\* The pipeline works on one request: a call of the IPA, an event, an image in the ISP or
\* its statistics.
NoWork == calls = <<>> /\ events = <<>> /\ input = <<>> /\ done["stats"] = <<>>
CallIs(op) == /\ \E c : calls = <<c>> /\ "op" \in DOMAIN c /\ c.op = op
              /\ events = <<>> /\ input = <<>> /\ done["stats"] = <<>>
EventIs(op) == /\ \E e : events = <<e>> /\ e.op = op
               /\ calls = <<>> /\ input = <<>> /\ done["stats"] = <<>>
InIsp == calls = <<>> /\ events = <<>> /\ \E b : input = <<b>> /\ done["stats"] = <<>>
FromIsp == calls = <<>> /\ events = <<>> /\ input = <<>> /\ \E b : done["stats"] = <<b>>
Answered == /\ \E m, e : events = <<m, e>> /\ m.op = "metadataReady" /\ e.op = "processStatsComplete"
            /\ calls = <<>> /\ input = <<>> /\ done["stats"] = <<>>
Work == \/ CallIs("prepareIsp") \/ EventIs("prepareIspComplete") \/ InIsp \/ FromIsp
        \/ CallIs("processStats") \/ Answered \/ EventIs("processStatsComplete")
OneJob == Rpi!isRunning => IF state = "Busy" THEN Work ELSE NoWork

RpiInv == RpiType /\ NoneWaits /\ InStep /\ StatesSound /\ FilledSound /\ OneJob /\ fatal = "none"

(***************************************************************************)
(* The stack                                                               *)
(***************************************************************************)

\* A call of one function, or of two.
LEMMA PushOnOne ==
    ASSUME NEW l, NEW a
    PROVE  <<l>> \o <<a>> = <<l, a>>
<1> DEFINE q == <<l>> \o <<a>>
<1>1. q \in Seq({l, a}) /\ Len(q) = 2 /\ q[1] = l /\ q[2] = a
  OBVIOUS
<1> HIDE DEF q
<1>2. q = <<l, a>>
  BY <1>1
<1>3. QED
  BY <1>2 DEF q

LEMMA PushOnTwo ==
    ASSUME NEW l, NEW a, NEW b
    PROVE  <<l>> \o <<a, b>> = <<l, a, b>>
<1> DEFINE q == <<l>> \o <<a, b>>
<1>1. q \in Seq({l, a, b}) /\ Len(q) = 3 /\ q[1] = l /\ q[2] = a /\ q[3] = b
  OBVIOUS
<1> HIDE DEF q
<1>2. q = <<l, a, b>>
  BY <1>1
<1>3. QED
  BY <1>2 DEF q

LEMMA PushOnThree ==
    ASSUME NEW l, NEW a, NEW b, NEW c
    PROVE  <<l>> \o <<a, b, c>> = <<l, a, b, c>>
<1> DEFINE q == <<l>> \o <<a, b, c>>
<1>1. q \in Seq({l, a, b, c}) /\ Len(q) = 4 /\ q[1] = l /\ q[2] = a /\ q[3] = b /\ q[4] = c
  OBVIOUS
<1> HIDE DEF q
<1>2. q = <<l, a, b, c>>
  BY <1>1
<1>3. QED
  BY <1>2 DEF q

LEMMA PushOnFour ==
    ASSUME NEW l, NEW a, NEW b, NEW c, NEW d
    PROVE  <<l>> \o <<a, b, c, d>> = <<l, a, b, c, d>>
<1> DEFINE q == <<l>> \o <<a, b, c, d>>
<1>1. q \in Seq({l, a, b, c, d}) /\ Len(q) = 5 /\ q[1] = l /\ q[2] = a /\ q[3] = b /\ q[4] = c /\ q[5] = d
  OBVIOUS
<1> HIDE DEF q
<1>2. q = <<l, a, b, c, d>>
  BY <1>1
<1>3. QED
  BY <1>2 DEF q

LEMMA PushTwoOnOne ==
    ASSUME NEW k, NEW l, NEW a
    PROVE  <<k, l>> \o <<a>> = <<k, l, a>>
<1> DEFINE q == <<k, l>> \o <<a>>
<1>1. q \in Seq({k, l, a}) /\ Len(q) = 3 /\ q[1] = k /\ q[2] = l /\ q[3] = a
  OBVIOUS
<1> HIDE DEF q
<1>2. q = <<k, l, a>>
  BY <1>1
<1>3. QED
  BY <1>2 DEF q

LEMMA PushTwoOnTwo ==
    ASSUME NEW k, NEW l, NEW a, NEW b
    PROVE  <<k, l>> \o <<a, b>> = <<k, l, a, b>>
<1> DEFINE q == <<k, l>> \o <<a, b>>
<1>1. q \in Seq({k, l, a, b}) /\ Len(q) = 4 /\ q[1] = k /\ q[2] = l /\ q[3] = a /\ q[4] = b
  OBVIOUS
<1> HIDE DEF q
<1>2. q = <<k, l, a, b>>
  BY <1>1
<1>3. QED
  BY <1>2 DEF q

LEMMA PushTwoOnThree ==
    ASSUME NEW k, NEW l, NEW a, NEW b, NEW c
    PROVE  <<k, l>> \o <<a, b, c>> = <<k, l, a, b, c>>
<1> DEFINE q == <<k, l>> \o <<a, b, c>>
<1>1. q \in Seq({k, l, a, b, c}) /\ Len(q) = 5 /\ q[1] = k /\ q[2] = l /\ q[3] = a /\ q[4] = b /\ q[5] = c
  OBVIOUS
<1> HIDE DEF q
<1>2. q = <<k, l, a, b, c>>
  BY <1>1
<1>3. QED
  BY <1>2 DEF q

LEMMA Pushes ==
    /\ <<"checkRequest", "tryRun">> \o <<>> = <<"checkRequest", "tryRun">>
    /\ <<"checkRequest", "tryRun">> \o <<"doQueue">> = <<"checkRequest", "tryRun", "doQueue">>
    /\ <<"tryRun">> \o <<>> = <<"tryRun">>
    /\ <<"tryRun">> \o <<"doQueue">> = <<"tryRun", "doQueue">>
    /\ <<>> \o <<>> = <<>>
    /\ <<>> \o <<"doQueue">> = <<"doQueue">>
    /\ <<"complete", "completed">> \o <<"tryRun">> = <<"complete", "completed", "tryRun">>
    /\ <<"complete", "completed">> \o <<"tryRun", "doQueue">> = <<"complete", "completed", "tryRun", "doQueue">>
    /\ <<"doQueue">> \o <<"completed", "tryRun">> = <<"doQueue", "completed", "tryRun">>
    /\ <<"doQueue">> \o <<"completed", "tryRun", "doQueue">> = <<"doQueue", "completed", "tryRun", "doQueue">>
    /\ <<"complete", "pop">> \o <<"clear">> = <<"complete", "pop", "clear">>
    /\ <<"complete", "pop">> \o <<"clear", "stopIpa", "waiting">> = <<"complete", "pop", "clear", "stopIpa", "waiting">>
    /\ <<"doQueue">> \o <<"pop", "clear">> = <<"doQueue", "pop", "clear">>
    /\ <<"doQueue">> \o <<"pop", "clear", "stopIpa", "waiting">> = <<"doQueue", "pop", "clear", "stopIpa", "waiting">>
    /\ <<"handleState">> \o <<>> = <<"handleState">>
    /\ <<"handleState">> \o <<"doQueue">> = <<"handleState", "doQueue">>
    /\ <<"complete">> \o <<"doQueue">> = <<"complete", "doQueue">>
    /\ <<"doQueue">> \o <<"doQueue">> = <<"doQueue", "doQueue">>
<1>1. <<"checkRequest", "tryRun">> \o <<>> = <<"checkRequest", "tryRun">>
  OBVIOUS
<1>2. <<"checkRequest", "tryRun">> \o <<"doQueue">> = <<"checkRequest", "tryRun", "doQueue">>
  BY PushTwoOnOne
<1>3. <<"tryRun">> \o <<>> = <<"tryRun">>
  OBVIOUS
<1>4. <<"tryRun">> \o <<"doQueue">> = <<"tryRun", "doQueue">>
  BY PushOnOne
<1>5. <<>> \o <<>> = <<>>
  OBVIOUS
<1>6. <<>> \o <<"doQueue">> = <<"doQueue">>
  OBVIOUS
<1>7. <<"complete", "completed">> \o <<"tryRun">> = <<"complete", "completed", "tryRun">>
  BY PushTwoOnOne
<1>8. <<"complete", "completed">> \o <<"tryRun", "doQueue">> = <<"complete", "completed", "tryRun", "doQueue">>
  BY PushTwoOnTwo
<1>9. <<"doQueue">> \o <<"completed", "tryRun">> = <<"doQueue", "completed", "tryRun">>
  BY PushOnTwo
<1>10. <<"doQueue">> \o <<"completed", "tryRun", "doQueue">> = <<"doQueue", "completed", "tryRun", "doQueue">>
  BY PushOnThree
<1>11. <<"complete", "pop">> \o <<"clear">> = <<"complete", "pop", "clear">>
  BY PushTwoOnOne
<1>12. <<"complete", "pop">> \o <<"clear", "stopIpa", "waiting">> = <<"complete", "pop", "clear", "stopIpa", "waiting">>
  BY PushTwoOnThree
<1>13. <<"doQueue">> \o <<"pop", "clear">> = <<"doQueue", "pop", "clear">>
  BY PushOnTwo
<1>14. <<"doQueue">> \o <<"pop", "clear", "stopIpa", "waiting">> = <<"doQueue", "pop", "clear", "stopIpa", "waiting">>
  BY PushOnFour
<1>15. <<"handleState">> \o <<>> = <<"handleState">>
  OBVIOUS
<1>16. <<"handleState">> \o <<"doQueue">> = <<"handleState", "doQueue">>
  BY PushOnOne
<1>17. <<"complete">> \o <<"doQueue">> = <<"complete", "doQueue">>
  BY PushOnOne
<1>18. <<"doQueue">> \o <<"doQueue">> = <<"doQueue", "doQueue">>
  BY PushOnOne
<1>19. QED
  BY <1>1, <1>2, <1>3, <1>4, <1>5, <1>6, <1>7, <1>8, <1>9, <1>10, <1>11, <1>12, <1>13, <1>14, <1>15, <1>16, <1>17, <1>18

\* The return of a function.
LEMMA Pops ==
    /\ Tail(<<"doQueue">>) = <<>>
    /\ Tail(<<"handleState">>) = <<>>
    /\ Tail(<<"handleState", "doQueue">>) = <<"doQueue">>
    /\ Tail(<<"tryRun">>) = <<>>
    /\ Tail(<<"tryRun", "doQueue">>) = <<"doQueue">>
    /\ Tail(<<"checkRequest", "tryRun">>) = <<"tryRun">>
    /\ Tail(<<"checkRequest", "tryRun", "doQueue">>) = <<"tryRun", "doQueue">>
    /\ Tail(<<"complete", "completed", "tryRun">>) = <<"completed", "tryRun">>
    /\ Tail(<<"complete", "completed", "tryRun", "doQueue">>) = <<"completed", "tryRun", "doQueue">>
    /\ Tail(<<"doQueue", "completed", "tryRun">>) = <<"completed", "tryRun">>
    /\ Tail(<<"doQueue", "completed", "tryRun", "doQueue">>) = <<"completed", "tryRun", "doQueue">>
    /\ Tail(<<"completed", "tryRun">>) = <<"tryRun">>
    /\ Tail(<<"completed", "tryRun", "doQueue">>) = <<"tryRun", "doQueue">>
    /\ Tail(<<"clear">>) = <<>>
    /\ Tail(<<"clear", "stopIpa", "waiting">>) = <<"stopIpa", "waiting">>
    /\ Tail(<<"complete", "pop", "clear">>) = <<"pop", "clear">>
    /\ Tail(<<"complete", "pop", "clear", "stopIpa", "waiting">>) = <<"pop", "clear", "stopIpa", "waiting">>
    /\ Tail(<<"doQueue", "pop", "clear">>) = <<"pop", "clear">>
    /\ Tail(<<"doQueue", "pop", "clear", "stopIpa", "waiting">>) = <<"pop", "clear", "stopIpa", "waiting">>
    /\ Tail(<<"pop", "clear">>) = <<"clear">>
    /\ Tail(<<"pop", "clear", "stopIpa", "waiting">>) = <<"clear", "stopIpa", "waiting">>
    /\ Tail(<<"complete", "doQueue">>) = <<"doQueue">>
    /\ Tail(<<"doQueue", "doQueue">>) = <<"doQueue">>
    /\ Tail(<<"stopIpa", "waiting">>) = <<"waiting">>
    /\ Tail(<<"waiting">>) = <<>>
  OBVIOUS

\* The classes of stacks are disjoint.
LEMMA StacksDiffer ==
    ASSUME NEW s
    PROVE  /\ s \in Base => s \notin Handling \cup Trying \cup Checking \cup Finishing \cup FinishQueue \cup Finished
                  \cup Clearing \cup Giving \cup GiveQueue \cup Given \cup Refusing \cup RefuseQueue
                  \cup IpaStopping \cup Ending
           /\ s \in Handling => s \notin Trying \cup Checking \cup Finishing \cup FinishQueue \cup Finished \cup Clearing
                  \cup Giving \cup GiveQueue \cup Given \cup Refusing \cup RefuseQueue \cup IpaStopping
                  \cup Ending
           /\ s \in Trying => s \notin Checking \cup Finishing \cup FinishQueue \cup Finished \cup Clearing \cup Giving
                  \cup GiveQueue \cup Given \cup Refusing \cup RefuseQueue \cup IpaStopping \cup Ending
           /\ s \in Checking => s \notin Finishing \cup FinishQueue \cup Finished \cup Clearing \cup Giving \cup GiveQueue
                  \cup Given \cup Refusing \cup RefuseQueue \cup IpaStopping \cup Ending
           /\ s \in Finishing => s \notin FinishQueue \cup Finished \cup Clearing \cup Giving \cup GiveQueue \cup Given
                  \cup Refusing \cup RefuseQueue \cup IpaStopping \cup Ending
           /\ s \in FinishQueue => s \notin Finished \cup Clearing \cup Giving \cup GiveQueue \cup Given \cup Refusing
                  \cup RefuseQueue \cup IpaStopping \cup Ending
           /\ s \in Finished => s \notin Clearing \cup Giving \cup GiveQueue \cup Given \cup Refusing \cup RefuseQueue
                  \cup IpaStopping \cup Ending
           /\ s \in Clearing => s \notin Giving \cup GiveQueue \cup Given \cup Refusing \cup RefuseQueue \cup IpaStopping
                  \cup Ending
           /\ s \in Giving => s \notin GiveQueue \cup Given \cup Refusing \cup RefuseQueue \cup IpaStopping \cup Ending
           /\ s \in GiveQueue => s \notin Given \cup Refusing \cup RefuseQueue \cup IpaStopping \cup Ending
           /\ s \in Given => s \notin Refusing \cup RefuseQueue \cup IpaStopping \cup Ending
           /\ s \in Refusing => s \notin RefuseQueue \cup IpaStopping \cup Ending
           /\ s \in RefuseQueue => s \notin IpaStopping \cup Ending
           /\ s \in IpaStopping => s \notin Ending
  BY DEF Base, Handling, Trying, Checking, Finishing, FinishQueue, Finished, Clearing, Giving, GiveQueue, Given,
         Refusing, RefuseQueue, IpaStopping, Ending

\* The functions that may run, by the one on top of the stack ...
LEMMA OnTop ==
    ASSUME stack \in RpiStacks
    PROVE  /\ Rpi!Loop => stack \in Base
           /\ Rpi!At("doQueue") => stack = <<"doQueue">> \/ stack \in FinishQueue \cup GiveQueue \cup RefuseQueue
           /\ Rpi!At("complete") => stack \in Finishing \cup Giving \cup Refusing
           /\ Rpi!At("handleState") => stack \in Handling
           /\ Rpi!At("tryRun") => stack \in Trying
           /\ Rpi!At("checkRequest") => stack \in Checking
           /\ Rpi!At("completed") => stack \in Finished
           /\ Rpi!At("clear") => stack \in Clearing
           /\ Rpi!At("pop") => stack \in Given
           /\ Rpi!At("stopIpa") => stack \in IpaStopping
           /\ Rpi!At("waiting") => stack \in Ending
<1> USE DEF RpiStacks, RunningStacks, CheckedStacks, ClearStacks, RefuseStacks, EndStacks
<1>1. stack # <<>> => Head(stack) = stack[1]
  BY DEF Base, Handling, Trying, Checking, Finishing, FinishQueue, Finished, Clearing, Giving, GiveQueue, Given,
         Refusing, RefuseQueue, IpaStopping, Ending
<1>2. /\ stack = <<>> => stack \in Base
      /\ stack \in Base => stack = <<>> \/ stack = <<"doQueue">>
      /\ stack \in Base \ {<<>>} => stack[1] = "doQueue"
      /\ stack \in Handling => stack[1] = "handleState"
      /\ stack \in Trying => stack[1] = "tryRun"
      /\ stack \in Checking => stack[1] = "checkRequest"
      /\ stack \in Finishing \cup Giving \cup Refusing => stack[1] = "complete"
      /\ stack \in FinishQueue \cup GiveQueue \cup RefuseQueue => stack[1] = "doQueue"
      /\ stack \in Finished => stack[1] = "completed"
      /\ stack \in Clearing => stack[1] = "clear"
      /\ stack \in Given => stack[1] = "pop"
      /\ stack \in IpaStopping => stack[1] = "stopIpa"
      /\ stack \in Ending => stack[1] = "waiting"
  BY DEF Base, Handling, Trying, Checking, Finishing, FinishQueue, Finished, Clearing, Giving, GiveQueue, Given,
         Refusing, RefuseQueue, IpaStopping, Ending
<1>3. QED
  BY <1>1, <1>2 DEF Rpi!Loop, Rpi!At

\* ... and where they lead.
LEMMA RunningMoves ==
    ASSUME NEW s
    PROVE  /\ s \in Handling => /\ <<"checkRequest", "tryRun">> \o Tail(s) \in Checking
                                /\ <<"tryRun">> \o Tail(s) \in Trying
                                /\ <<>> \o Tail(s) \in Base
           /\ s \in Trying => Tail(s) \in Base
           /\ s \in Checking => Tail(s) \in Trying /\ <<"complete", "completed">> \o Tail(s) \in Finishing
           /\ s \in Finishing => <<"doQueue">> \o Tail(s) \in FinishQueue
           /\ s \in FinishQueue => Tail(s) \in Finished
           /\ s \in Finished => Tail(s) \in Trying
<1>1. s \in Handling => Tail(s) = <<>> \/ Tail(s) = <<"doQueue">>
  BY Pops, Zenon DEF Handling
<1>2. s \in Handling => /\ <<"checkRequest", "tryRun">> \o Tail(s) \in Checking
                        /\ <<"tryRun">> \o Tail(s) \in Trying
                        /\ <<>> \o Tail(s) \in Base
  <2>1. /\ <<"checkRequest", "tryRun">> \o <<>> = <<"checkRequest", "tryRun">>
        /\ <<"checkRequest", "tryRun">> \o <<"doQueue">> = <<"checkRequest", "tryRun", "doQueue">>
        /\ <<"tryRun">> \o <<>> = <<"tryRun">> /\ <<"tryRun">> \o <<"doQueue">> = <<"tryRun", "doQueue">>
    BY Pushes, Zenon
  <2>2. <<>> \o <<>> = <<>> /\ <<>> \o <<"doQueue">> = <<"doQueue">>
    OBVIOUS
  <2>3. QED
    BY <1>1, <2>1, <2>2, Zenon DEF Checking, Trying, Base
<1>3. s \in Trying => Tail(s) \in Base
  BY Pops, Zenon DEF Trying, Base
<1>4. s \in Checking => Tail(s) \in Trying /\ (Tail(s) = <<"tryRun">> \/ Tail(s) = <<"tryRun", "doQueue">>)
  BY Pops, Zenon DEF Checking, Trying
<1>5. s \in Checking => <<"complete", "completed">> \o Tail(s) \in Finishing
  <2>1. /\ <<"complete", "completed">> \o <<"tryRun">> = <<"complete", "completed", "tryRun">>
        /\ <<"complete", "completed">> \o <<"tryRun", "doQueue">> = <<"complete", "completed", "tryRun", "doQueue">>
    BY Pushes, Zenon
  <2>2. QED
    BY <1>4, <2>1, Zenon DEF Finishing
<1>6. s \in Finishing => Tail(s) = <<"completed", "tryRun">> \/ Tail(s) = <<"completed", "tryRun", "doQueue">>
  BY Pops, Zenon DEF Finishing
<1>7. s \in Finishing => <<"doQueue">> \o Tail(s) \in FinishQueue
  <2>1. /\ <<"doQueue">> \o <<"completed", "tryRun">> = <<"doQueue", "completed", "tryRun">>
        /\ <<"doQueue">> \o <<"completed", "tryRun", "doQueue">> = <<"doQueue", "completed", "tryRun", "doQueue">>
    BY Pushes, Zenon
  <2>2. QED
    BY <1>6, <2>1, Zenon DEF FinishQueue
<1>8. s \in FinishQueue => Tail(s) \in Finished
  BY Pops, Zenon DEF FinishQueue, Finished
<1>9. s \in Finished => Tail(s) \in Trying
  BY Pops, Zenon DEF Finished, Trying
<1>10. QED
  BY <1>2, <1>3, <1>4, <1>5, <1>7, <1>8, <1>9

LEMMA ClearingMoves ==
    ASSUME NEW s
    PROVE  /\ s \in Clearing =>
               /\ <<"complete", "pop">> \o s \in Giving
               /\ <<"complete", "pop">> \o s \in Stopping <=> s \in Stopping
               /\ IF s \in Stopping THEN Tail(s) \in IpaStopping ELSE Tail(s) = <<>>
           /\ s \in Giving =>
               /\ <<"doQueue">> \o Tail(s) \in GiveQueue
               /\ <<"doQueue">> \o Tail(s) \in Stopping <=> s \in Stopping
           /\ s \in GiveQueue => Tail(s) \in Given /\ (Tail(s) \in Stopping <=> s \in Stopping)
           /\ s \in Given => Tail(s) \in Clearing /\ (Tail(s) \in Stopping <=> s \in Stopping)
<1>1. ASSUME s \in Clearing
      PROVE  /\ <<"complete", "pop">> \o s \in Giving
             /\ <<"complete", "pop">> \o s \in Stopping <=> s \in Stopping
             /\ IF s \in Stopping THEN Tail(s) \in IpaStopping ELSE Tail(s) = <<>>
  <2>1. CASE s = <<"clear">>
    <3>1. <<"complete", "pop">> \o s = <<"complete", "pop", "clear">>
      BY <2>1, Pushes, Zenon
    <3>2. Tail(s) = <<>> /\ s \notin Stopping /\ <<"complete", "pop", "clear">> \notin Stopping
      BY <2>1 DEF Stopping
    <3>3. QED
      BY <3>1, <3>2 DEF Giving
  <2>2. CASE s = <<"clear", "stopIpa", "waiting">>
    <3>1. <<"complete", "pop">> \o s = <<"complete", "pop", "clear", "stopIpa", "waiting">>
      BY <2>2, Pushes, Zenon
    <3>2. Tail(s) \in IpaStopping
      BY <2>2 DEF IpaStopping
    <3>3. s \in Stopping /\ <<"complete", "pop", "clear", "stopIpa", "waiting">> \in Stopping
      BY <2>2 DEF Stopping
    <3>4. QED
      BY <3>1, <3>2, <3>3 DEF Giving
  <2>3. QED
    BY <1>1, <2>1, <2>2 DEF Clearing
<1>2. ASSUME s \in Giving
      PROVE  /\ <<"doQueue">> \o Tail(s) \in GiveQueue
             /\ <<"doQueue">> \o Tail(s) \in Stopping <=> s \in Stopping
  <2>1. CASE s = <<"complete", "pop", "clear">>
    <3>1. Tail(s) = <<"pop", "clear">>
      BY <2>1
    <3>2. <<"doQueue">> \o Tail(s) = <<"doQueue", "pop", "clear">>
      BY <3>1, Pushes, Zenon
    <3>3. s \notin Stopping /\ <<"doQueue", "pop", "clear">> \notin Stopping
      BY <2>1 DEF Stopping
    <3>4. QED
      BY <3>2, <3>3 DEF GiveQueue
  <2>2. CASE s = <<"complete", "pop", "clear", "stopIpa", "waiting">>
    <3>1. Tail(s) = <<"pop", "clear", "stopIpa", "waiting">>
      BY <2>2
    <3>2. <<"doQueue">> \o Tail(s) = <<"doQueue", "pop", "clear", "stopIpa", "waiting">>
      BY <3>1, Pushes, Zenon
    <3>3. s \in Stopping /\ <<"doQueue", "pop", "clear", "stopIpa", "waiting">> \in Stopping
      BY <2>2 DEF Stopping
    <3>4. QED
      BY <3>2, <3>3 DEF GiveQueue
  <2>3. QED
    BY <1>2, <2>1, <2>2 DEF Giving
<1>3. /\ <<"clear">> \notin Stopping /\ <<"pop", "clear">> \notin Stopping
      /\ <<"doQueue", "pop", "clear">> \notin Stopping
      /\ <<"clear", "stopIpa", "waiting">> \in Stopping /\ <<"pop", "clear", "stopIpa", "waiting">> \in Stopping
      /\ <<"doQueue", "pop", "clear", "stopIpa", "waiting">> \in Stopping
  BY DEF Stopping
<1>4. /\ s \in GiveQueue => Tail(s) \in Given /\ (Tail(s) \in Stopping <=> s \in Stopping)
      /\ s \in Given => Tail(s) \in Clearing /\ (Tail(s) \in Stopping <=> s \in Stopping)
  BY <1>3, Pops, Zenon DEF GiveQueue, Given, Clearing
<1>5. QED
  BY <1>1, <1>2, <1>4

LEMMA OtherMoves ==
    ASSUME NEW s
    PROVE  /\ s \in Refusing => <<"doQueue">> \o Tail(s) \in RefuseQueue
           /\ s \in RefuseQueue => Tail(s) = <<"doQueue">>
           /\ s \in IpaStopping => Tail(s) \in Ending
           /\ s \in Ending => Tail(s) = <<>>
           /\ <<>> \in Base /\ <<"doQueue">> \in Base /\ <<>> # <<"doQueue">>
           /\ Tail(<<"doQueue">>) = <<>>
           /\ <<"handleState">> \o <<>> \in Handling
           /\ <<"handleState">> \o <<"doQueue">> \in Handling
           /\ <<"complete">> \o <<"doQueue">> \in Refusing
<1>1. /\ <<"handleState">> \o <<>> = <<"handleState">>
      /\ <<"handleState">> \o <<"doQueue">> = <<"handleState", "doQueue">>
      /\ <<"complete">> \o <<"doQueue">> = <<"complete", "doQueue">>
      /\ <<"doQueue">> \o <<"doQueue">> = <<"doQueue", "doQueue">>
  BY Pushes, Zenon
<1>2. s \in Refusing => Tail(s) = <<"doQueue">>
  BY Pops, Zenon DEF Refusing
<1>3. /\ s \in Refusing => <<"doQueue">> \o Tail(s) \in RefuseQueue
      /\ <<"handleState">> \o <<>> \in Handling
      /\ <<"handleState">> \o <<"doQueue">> \in Handling
      /\ <<"complete">> \o <<"doQueue">> \in Refusing
  BY <1>1, <1>2, Zenon DEF RefuseQueue, Handling, Refusing
<1>4. /\ s \in RefuseQueue => Tail(s) = <<"doQueue">>
      /\ s \in IpaStopping => Tail(s) \in Ending
      /\ s \in Ending => Tail(s) = <<>>
      /\ <<>> \in Base /\ <<"doQueue">> \in Base /\ <<>> # <<"doQueue">>
      /\ Tail(<<"doQueue">>) = <<>>
  BY Pops, Zenon DEF RefuseQueue, IpaStopping, Ending, Base
<1>5. QED
  BY <1>3, <1>4

(***************************************************************************)
(* Steps that leave a part of the invariant alone                          *)
(***************************************************************************)

LEMMA KeepsJob ==
    ASSUME OneJob, UNCHANGED <<state, calls, events, input, done>>
    PROVE  OneJob'
  BY DEF OneJob, Work, NoWork, CallIs, EventIs, InIsp, FromIsp, Answered, Rpi!isRunning

LEMMA KeepsFilled ==
    ASSUME FilledSound, UNCHANGED <<state, req, requestQueue>>
    PROVE  FilledSound'
  BY DEF FilledSound, Rpi!isRunning

\* Only doQueueRequests() at its start sees a request that waits.
LEMMA QuietStack ==
    ASSUME RpiType, NoneWaits, stack # <<"doQueue">>
    PROVE  waiting = <<>> /\ stopped = <<>>
  BY DEF NoneWaits

LEMMA StaysQuiet ==
    ASSUME NoneWaits, waiting = <<>>, UNCHANGED <<waiting, stopped>>
    PROVE  NoneWaits'
  BY DEF NoneWaits

LEMMA MembersIn ==
    ASSUME NEW S, NEW q \in Seq(S)
    PROVE  ToSet(q) \subseteq S
  BY DEF ToSet

\* handleState()
LEMMA HandleStateSound ==
    ASSUME RpiInv, Rpi!HandleState
    PROVE  RpiInv'
<1>1. /\ stack \in Handling
      /\ stack' = (CASE state = "IpaComplete" -> <<"checkRequest", "tryRun">>
                     [] state = "Idle" -> <<"tryRun">>
                     [] OTHER -> <<>>) \o Tail(stack)
      /\ UNCHANGED <<active, state, waiting, queued, stopped, req, requestQueue, input, done, calls, events, fatal>>
  BY OnTop DEF RpiInv, RpiType, Rpi!HandleState, Rpi!queueVars, Rpi!deviceVars, Rpi!ipaVars
<1>2. stack # <<"doQueue">>
  BY <1>1, StacksDiffer, OtherMoves
<1>3. waiting = <<>>
  BY <1>2, QuietStack DEF RpiInv
<1>4. /\ state = "IpaComplete" => stack' \in Checking
      /\ state = "Idle" => stack' \in Trying
      /\ state \notin {"IpaComplete", "Idle"} => stack' \in Base
  BY <1>1, RunningMoves
<1>5. Rpi!isRunning /\ queued = requestQueue /\ AllPending(requestQueue) /\ active
  BY <1>1, <1>2, StacksDiffer, OtherMoves DEF RpiInv, InStep, StatesSound, RunningStacks, RpiType
<1>6. RpiType'
  BY <1>1, <1>4 DEF RpiInv, RpiType, RpiStacks, RunningStacks, CheckedStacks
<1>7. InStep'
  BY <1>1, <1>4, <1>5, StacksDiffer DEF InStep, AllPending, RunningStacks, RefuseStacks, EndStacks
<1>8. StatesSound'
  BY <1>1, <1>4, <1>5, StacksDiffer
     DEF RpiInv, RpiType, RpiStates, StatesSound, CheckedStacks, RunningStacks, RefuseStacks, EndStacks, ClearStacks, Rpi!isRunning
<1>9. NoneWaits' /\ FilledSound' /\ OneJob' /\ fatal' = "none"
  BY <1>1, <1>3, KeepsJob, KeepsFilled, StaysQuiet DEF RpiInv
<1>10. QED
  BY <1>6, <1>7, <1>8, <1>9 DEF RpiInv

\* checkRequestCompleted(): the first request is pending until it is completed here.
LEMMA CheckSound ==
    ASSUME RpiInv, Rpi!CheckRequestCompleted
    PROVE  RpiInv'
<1> DEFINE r == Head(requestQueue)
<1>1. /\ stack \in Checking
      /\ UNCHANGED <<active, state, waiting, queued, stopped, requestQueue, input, done, calls, events>>
  BY OnTop DEF RpiInv, RpiType, Rpi!CheckRequestCompleted, Rpi!queueVars, Rpi!deviceVars, Rpi!ipaVars
<1>2. stack # <<"doQueue">> /\ stack # <<>>
  BY <1>1, StacksDiffer, OtherMoves
<1>3. waiting = <<>>
  BY <1>2, QuietStack DEF RpiInv
<1>4. state = "IpaComplete" /\ queued = requestQueue /\ AllPending(requestQueue) /\ requestQueue # <<>> /\ active
  BY <1>1, <1>2 DEF RpiInv, InStep, StatesSound, CheckedStacks, RpiType
<1>5. r \in Pair /\ req[r].status = "Pending"
  BY <1>4, HeadInToSet DEF RpiInv, RpiType, AllPending
<1>6. CASE stack' = Tail(stack) /\ UNCHANGED <<req, fatal>>
  <2>1. stack' \in Trying
    BY <1>1, <1>6, RunningMoves
  <2>2. RpiType'
    BY <1>1, <1>6, <2>1 DEF RpiInv, RpiType, RpiStacks, RunningStacks
  <2>3. InStep'
    BY <1>1, <1>4, <1>6, <2>1, StacksDiffer DEF InStep, AllPending, RunningStacks, RefuseStacks, EndStacks
  <2>4. StatesSound'
    BY <1>1, <1>4, <2>1, StacksDiffer
       DEF StatesSound, CheckedStacks, RunningStacks, RefuseStacks, EndStacks, ClearStacks, Rpi!isRunning
  <2>5. NoneWaits' /\ FilledSound' /\ OneJob' /\ fatal' = "none"
    BY <1>1, <1>3, <1>6, KeepsJob, KeepsFilled, StaysQuiet DEF RpiInv
  <2>6. QED
    BY <2>2, <2>3, <2>4, <2>5 DEF RpiInv
<1>7. CASE /\ req' = [req EXCEPT ![r].status = "Complete"]
           /\ stack' = <<"complete", "completed">> \o Tail(stack)
           /\ fatal' = IF req[r].status = "Pending" THEN fatal ELSE "complete: status() == RequestPending"
  <2>1. stack' \in Finishing
    BY <1>1, <1>7, RunningMoves
  <2>2. /\ req' \in [Pair -> RpiRequest] /\ req'[r].status = "Complete"
        /\ \A x \in Pair \ {r} : req'[x] = req[x]
        /\ \A x \in Pair : req'[x].filled = req[x].filled
    BY <1>5, <1>7 DEF RpiInv, RpiType, RpiRequest
  <2>3. RpiType'
    BY <1>1, <2>1, <2>2 DEF RpiInv, RpiType, RpiStacks, CheckedStacks
  <2>4. AllPending(Tail(requestQueue))'
    <3>1. ToSet(Tail(requestQueue)) \subseteq Pair \ {r} /\ ToSet(Tail(requestQueue)) \subseteq ToSet(requestQueue)
      BY <1>4, ToSetOfTail, MembersIn DEF RpiInv, RpiType
    <3>2. QED
      BY <1>1, <1>4, <2>2, <3>1 DEF AllPending
  <2>5. InStep'
    BY <1>1, <1>4, <2>1, <2>2, <2>4, StacksDiffer DEF InStep, RunningStacks, RefuseStacks, EndStacks
  <2>6. StatesSound'
    BY <1>1, <1>4, <2>1, StacksDiffer
       DEF StatesSound, CheckedStacks, RunningStacks, RefuseStacks, EndStacks, ClearStacks, Rpi!isRunning
  <2>7. FilledSound'
    <3>1. ToSet(requestQueue) \subseteq Pair
      BY MembersIn DEF RpiInv, RpiType
    <3>2. QED
      BY <1>1, <2>2, <3>1 DEF RpiInv, FilledSound, Rpi!isRunning
  <2>8. NoneWaits' /\ OneJob' /\ fatal' = "none"
    BY <1>1, <1>3, <1>5, <1>7, KeepsJob, StaysQuiet DEF RpiInv
  <2>9. QED
    BY <2>3, <2>5, <2>6, <2>7, <2>8 DEF RpiInv
<1>8. QED
  BY <1>6, <1>7 DEF Rpi!CheckRequestCompleted, Rpi!Return

LEMMA RequestCompletedSound ==
    ASSUME RpiInv, Rpi!RequestCompleted
    PROVE  RpiInv'
<1>1. /\ stack \in Finished /\ stack' = Tail(stack)
      /\ requestQueue' = Tail(requestQueue) /\ state' = "Idle"
      /\ UNCHANGED <<active, waiting, queued, stopped, req, input, done, calls, events, fatal>>
  BY OnTop DEF RpiInv, RpiType, Rpi!RequestCompleted, Rpi!queueVars, Rpi!deviceVars, Rpi!ipaVars, Rpi!Return
<1>2. stack # <<"doQueue">> /\ stack # <<>>
  BY <1>1, StacksDiffer, OtherMoves
<1>3. waiting = <<>>
  BY <1>2, QuietStack DEF RpiInv
<1>4. /\ state = "IpaComplete" /\ queued = Tail(requestQueue) /\ AllPending(Tail(requestQueue))
      /\ requestQueue # <<>> /\ active
  BY <1>1, <1>2 DEF RpiInv, InStep, StatesSound, CheckedStacks, RpiType
<1>5. stack' \in Trying
  BY <1>1, RunningMoves
<1>6. /\ ToSet(Tail(requestQueue)) = ToSet(requestQueue) \ {Head(requestQueue)}
      /\ Tail(requestQueue) \in Seq(Pair) /\ IsInjective(Tail(requestQueue))
  BY <1>4, ToSetOfTail, HeadInToSet DEF RpiInv, RpiType
<1>7. RpiType'
  BY <1>1, <1>5, <1>6 DEF RpiInv, RpiType, RpiStacks, RunningStacks, RpiStates
<1>8. InStep'
  BY <1>1, <1>4, <1>5, StacksDiffer DEF InStep, AllPending, RunningStacks, RefuseStacks, EndStacks
<1>9. StatesSound'
  BY <1>1, <1>4, <1>5, StacksDiffer
     DEF StatesSound, CheckedStacks, RunningStacks, RefuseStacks, EndStacks, ClearStacks, Rpi!isRunning
<1>10. FilledSound'
  BY <1>1, <1>4, <1>6 DEF RpiInv, FilledSound, Rpi!isRunning
<1>11. OneJob'
  BY <1>1, <1>4 DEF RpiInv, OneJob, NoWork, Rpi!isRunning
<1>12. NoneWaits' /\ fatal' = "none"
  BY <1>1, <1>3, StaysQuiet DEF RpiInv
<1>13. QED
  BY <1>7, <1>8, <1>9, <1>10, <1>11, <1>12 DEF RpiInv

\* The steps in which a device refuses a buffer.
LEMMA NoRefusal ==
    ASSUME session' # "refused"
    PROVE  /\ \A s : ~Rpi!QueueRefused(s)
           /\ ~Rpi!IspRefuses
           /\ \A s, st : Rpi!Returned(s, st) => streams' = [streams EXCEPT ![s] = st]
<1>1. ~Rpi!Fault("refused")
  BY DEF Rpi!Fault
<1>2. QED
  BY <1>1, Zenon DEF Rpi!QueueRefused, Rpi!IspRefuses, Rpi!Returned

\* tryRunPipeline() does nothing, or starts the first request.
LEMMA TryRunCases ==
    ASSUME Rpi!TryRunPipeline
    PROVE  /\ UNCHANGED <<active, waiting, queued, stopped, requestQueue, input, done, events>>
           /\ Rpi!At("tryRun") /\ stack' = Tail(stack)
           /\ \/ UNCHANGED <<state, req, calls, fatal>>
              \/ /\ state = "Idle" /\ requestQueue # <<>>
                 /\ \E b, e : Rpi!RunPipeline(Head(requestQueue), b, e)
<1>1. CASE state # "Idle" \/ requestQueue = <<>> \/ bayerQueue = <<>> \/ (config.embedded /\ embeddedQueue = <<>>)
  BY <1>1 DEF Rpi!TryRunPipeline, Rpi!queueVars, Rpi!Return
<1>2. CASE ~(state # "Idle" \/ requestQueue = <<>> \/ bayerQueue = <<>> \/ (config.embedded /\ embeddedQueue = <<>>))
  BY <1>2 DEF Rpi!TryRunPipeline, Rpi!queueVars, Rpi!Return
<1>3. QED
  BY <1>1, <1>2

LEMMA TryRunSound ==
    ASSUME RpiInv, Rpi!TryRunPipeline
    PROVE  RpiInv'
<1> DEFINE r == Head(requestQueue)
<1>1. /\ stack \in Trying /\ stack' = Tail(stack)
      /\ UNCHANGED <<active, waiting, queued, stopped, requestQueue, input, done, events>>
  BY OnTop, TryRunCases DEF RpiInv, RpiType
<1>2. stack # <<"doQueue">> /\ stack # <<>>
  BY <1>1, StacksDiffer, OtherMoves
<1>3. waiting = <<>>
  BY <1>2, QuietStack DEF RpiInv
<1>4. Rpi!isRunning /\ queued = requestQueue /\ AllPending(requestQueue) /\ active
  BY <1>1, <1>2 DEF RpiInv, InStep, StatesSound, RunningStacks, RpiType
<1>5. stack' \in Base
  BY <1>1, RunningMoves
<1>6. CASE UNCHANGED <<state, req, calls, fatal>>
  <2>1. RpiType'
    BY <1>1, <1>5, <1>6 DEF RpiInv, RpiType, RpiStacks
  <2>2. InStep'
    BY <1>1, <1>4, <1>5, <1>6, StacksDiffer DEF InStep, AllPending, RunningStacks, RefuseStacks, EndStacks
  <2>3. StatesSound'
    BY <1>1, <1>4, <1>5, <1>6, StacksDiffer
       DEF RpiInv, StatesSound, CheckedStacks, RunningStacks, RefuseStacks, EndStacks, ClearStacks,
           Rpi!isRunning
  <2>4. NoneWaits' /\ FilledSound' /\ OneJob' /\ fatal' = "none"
    BY <1>1, <1>3, <1>6, KeepsJob, KeepsFilled, StaysQuiet DEF RpiInv
  <2>5. QED
    BY <2>1, <2>2, <2>3, <2>4 DEF RpiInv
<1>7. ASSUME state = "Idle", requestQueue # <<>>, NEW b, NEW e, Rpi!RunPipeline(r, b, e)
      PROVE  RpiInv'
  <2>1. /\ r \in Pair /\ r \in ToSet(requestQueue)
        /\ ToSet(requestQueue) \subseteq Pair
    BY <1>7, HeadInToSet, MembersIn DEF RpiInv, RpiType
  <2>2. ~req[r].filled /\ \A x \in ToSet(requestQueue) : ~req[x].filled
    BY <1>4, <1>7, <2>1 DEF RpiInv, FilledSound
  <2>3. /\ fatal' = "none" /\ state' = "Busy"
        /\ req' = [req EXCEPT ![r].filled = TRUE]
        /\ calls' = Append(calls, [op |-> "prepareIsp", bayer |-> b, embedded |-> e])
    BY <1>7, <2>2 DEF RpiInv, Rpi!RunPipeline
  <2>4. /\ req' \in [Pair -> RpiRequest]
        /\ \A x \in Pair : req'[x].status = req[x].status
        /\ \A x \in Pair \ {r} : req'[x] = req[x]
    BY <2>1, <2>3 DEF RpiInv, RpiType, RpiRequest
  <2>5. RpiType'
    BY <1>1, <1>5, <2>3, <2>4 DEF RpiInv, RpiType, RpiStacks, RpiStates
  <2>6. InStep'
    BY <1>1, <1>4, <1>5, <2>1, <2>4, StacksDiffer DEF InStep, AllPending, RunningStacks, RefuseStacks, EndStacks
  <2>7. StatesSound'
    BY <1>1, <1>4, <1>5, <1>7, <2>3, StacksDiffer
       DEF StatesSound, CheckedStacks, RunningStacks, RefuseStacks, EndStacks, ClearStacks, Rpi!isRunning
  <2>8. FilledSound'
    BY <1>1, <2>1, <2>2, <2>3, <2>4 DEF FilledSound
  <2>9. OneJob'
    <3> DEFINE c == [op |-> "prepareIsp", bayer |-> b, embedded |-> e]
    <3>1. NoWork
      BY <1>7 DEF RpiInv, OneJob, Rpi!isRunning
    <3>2. calls' = <<c>> /\ "op" \in DOMAIN c /\ c.op = "prepareIsp"
      BY <2>3, <3>1 DEF NoWork
    <3> HIDE DEF c
    <3>3. CallIs("prepareIsp")'
      BY <1>1, <3>1, <3>2 DEF NoWork, CallIs
    <3>4. QED
      BY <2>3, <3>3 DEF OneJob, Work
  <2>10. NoneWaits'
    BY <1>1, <1>3, StaysQuiet DEF RpiInv
  <2>11. QED
    BY <2>3, <2>5, <2>6, <2>7, <2>8, <2>9, <2>10 DEF RpiInv
<1>8. QED
  BY <1>6, <1>7, TryRunCases

\* The rest of completeRequest(): at most the request that is being completed leaves.
LEMMA CompleteSound ==
    ASSUME RpiInv, Rpi!CompleteRequest
    PROVE  RpiInv'
<1> DEFINE h == Head(queued)
           leaves == queued # <<>> /\ req[h].status # "Pending"
<1>1. /\ stack \in Finishing \cup Giving \cup Refusing
      /\ UNCHANGED <<active, state, waiting, stopped, requestQueue, input, done, calls, events, fatal>>
  BY OnTop DEF RpiInv, RpiType, Rpi!CompleteRequest, Rpi!deviceVars, Rpi!ipaVars
<1>2. stack # <<"doQueue">> /\ stack # <<>>
  BY <1>1, StacksDiffer, OtherMoves
<1>3. waiting = <<>>
  BY <1>2, QuietStack DEF RpiInv
<1>4. NoneWaits' /\ OneJob' /\ fatal' = "none" /\ active
  BY <1>1, <1>2, <1>3, KeepsJob, StaysQuiet DEF RpiInv, StatesSound, RpiType
<1>5. stack \in Finishing \cup Giving =>
          /\ requestQueue # <<>> /\ Head(requestQueue) \in Pair /\ Tail(requestQueue) \in Seq(Pair)
          /\ ToSet(Tail(requestQueue)) = ToSet(requestQueue) \ {Head(requestQueue)}
          /\ AllPending(Tail(requestQueue))
          /\ queued = Tail(requestQueue) \/ (queued = requestQueue /\ req[h].status # "Pending")
  BY ToSetOfTail, HeadInToSet DEF RpiInv, RpiType, InStep
<1>6. stack \in Refusing =>
          requestQueue = <<>> /\ (queued = <<>> \/ \E r \in Pair : queued = <<r>> /\ req[r].status # "Pending")
  BY DEF RpiInv, InStep, RefuseStacks
<1>7. ToSet(requestQueue) \subseteq Pair
  BY MembersIn DEF RpiInv, RpiType
<1>8. CASE leaves
  <2>1. req' = [req EXCEPT ![h] = Rpi!FreeRequest] /\ queued' = Tail(queued) /\ stack' = stack
    BY <1>8 DEF Rpi!CompleteRequest
  <2>2. h \in Pair /\ queued' \in Seq(Pair)
    BY <1>8, <2>1, HeadInToSet DEF RpiInv, RpiType
  <2>3. /\ req' \in [Pair -> RpiRequest] /\ ~req'[h].filled
        /\ \A x \in Pair \ {h} : req'[x] = req[x]
    BY <2>1, <2>2 DEF RpiInv, RpiType, RpiRequest, Rpi!FreeRequest
  <2>4. stack \in Finishing \cup Giving => queued = requestQueue
    <3>1. ASSUME stack \in Finishing \cup Giving, queued = Tail(requestQueue)
          PROVE  FALSE
      <4>1. h \in ToSet(queued)
        BY <1>8, HeadInToSet DEF RpiInv, RpiType
      <4>2. QED
        BY <1>5, <1>8, <3>1, <4>1 DEF AllPending
    <3>2. QED
      BY <1>5, <3>1
  <2>5. RpiType'
    BY <1>1, <2>1, <2>2, <2>3 DEF RpiInv, RpiType
  <2>6. InStep'
    <3>1. CASE stack \in Finishing \cup Giving
      <4>1. AllPending(Tail(requestQueue))'
        BY <1>1, <1>5, <1>7, <2>3, <2>4, <3>1 DEF AllPending
      <4>2. QED
        BY <1>1, <1>5, <2>1, <2>4, <3>1, <4>1, StacksDiffer DEF InStep, RunningStacks, RefuseStacks, EndStacks
    <3>2. CASE stack \in Refusing
      <4>1. PICK r \in Pair : queued = <<r>>
        BY <1>6, <1>8, <3>2
      <4>2. Tail(<<r>>) = <<>>
        OBVIOUS
      <4>3. queued' = <<>>
        BY <2>1, <4>1, <4>2
      <4>4. QED
        BY <1>1, <1>6, <2>1, <3>2, <4>3, StacksDiffer DEF InStep, RunningStacks, RefuseStacks, EndStacks
    <3>3. QED
      BY <1>1, <3>1, <3>2
  <2>7. StatesSound'
    BY <1>1, <2>1 DEF RpiInv, StatesSound, Rpi!isRunning
  <2>8. FilledSound'
    BY <1>1, <1>7, <2>3 DEF RpiInv, FilledSound, Rpi!isRunning
  <2>9. QED
    BY <1>4, <2>5, <2>6, <2>7, <2>8 DEF RpiInv
<1>9. CASE ~leaves
  <2>1. stack' = <<"doQueue">> \o Tail(stack) /\ UNCHANGED <<req, queued>>
    BY <1>9 DEF Rpi!CompleteRequest
  <2>2. /\ stack \in Finishing => stack' \in FinishQueue
        /\ stack \in Giving => stack' \in GiveQueue /\ (stack' \in Stopping <=> stack \in Stopping)
        /\ stack \in Refusing => stack' \in RefuseQueue
    BY <2>1, RunningMoves, ClearingMoves, OtherMoves
  <2>3. stack \in Finishing \cup Giving => queued = Tail(requestQueue)
    BY <1>5, <1>9
  <2>4. stack \in Refusing => queued = <<>>
    BY <1>6, <1>9
  <2>5. RpiType'
    BY <1>1, <2>1, <2>2 DEF RpiInv, RpiType, RpiStacks, CheckedStacks, ClearStacks, RefuseStacks
  <2>6. AllPending(Tail(requestQueue)) => AllPending(Tail(requestQueue))'
    BY <1>1, <2>1 DEF AllPending
  <2>7. InStep'
    BY <1>1, <1>5, <1>6, <2>1, <2>2, <2>3, <2>4, <2>6, StacksDiffer
       DEF InStep, RunningStacks, RefuseStacks, EndStacks
  <2>8. StatesSound'
    <3>1. CASE stack \in Finishing
      BY <1>1, <1>4, <1>5, <2>2, <3>1, StacksDiffer
         DEF RpiInv, StatesSound, CheckedStacks, RunningStacks, RefuseStacks, EndStacks, ClearStacks,
             Rpi!isRunning
    <3>2. CASE stack \in Giving
      BY <1>1, <1>4, <1>5, <2>2, <3>2, StacksDiffer
         DEF RpiInv, StatesSound, CheckedStacks, RunningStacks, RefuseStacks, EndStacks, ClearStacks,
             Rpi!isRunning
    <3>3. CASE stack \in Refusing
      BY <1>1, <1>4, <2>2, <3>3, StacksDiffer
         DEF RpiInv, StatesSound, CheckedStacks, RunningStacks, RefuseStacks, EndStacks, ClearStacks,
             Rpi!isRunning
    <3>4. QED
      BY <1>1, <3>1, <3>2, <3>3
  <2>9. FilledSound'
    BY <1>1, <2>1, KeepsFilled DEF RpiInv
  <2>10. QED
    BY <1>4, <2>5, <2>7, <2>8, <2>9 DEF RpiInv
<1>10. QED
  BY <1>8, <1>9

\* doQueueRequests() with no request that waits.
LEMMA NothingQueued ==
    ASSUME RpiInv, Rpi!DoQueueRequests, waiting = <<>>
    PROVE  RpiInv'
<1>1. /\ stack = <<"doQueue">> \/ stack \in FinishQueue \cup GiveQueue \cup RefuseQueue
      /\ stack' = Tail(stack)
      /\ UNCHANGED <<active, state, waiting, queued, stopped, req, requestQueue, input, done, calls, events, fatal>>
  BY OnTop DEF RpiInv, RpiType, Rpi!DoQueueRequests, Rpi!ipaVars, Rpi!Return
<1>2. stack # <<>>
  BY <1>1, StacksDiffer, OtherMoves
<1>3. active
  BY <1>2 DEF RpiInv, RpiType, StatesSound
<1>4. /\ stack = <<"doQueue">> => stack' \in Base /\ stack \in Base
      /\ stack \in FinishQueue => stack' \in Finished
      /\ stack \in GiveQueue => stack' \in Given /\ (stack' \in Stopping <=> stack \in Stopping)
      /\ stack \in RefuseQueue => stack' \in Base
  <2>1. /\ Tail(<<"doQueue">>) = <<>> /\ <<>> \in Base /\ <<"doQueue">> \in Base
        /\ stack \in RefuseQueue => Tail(stack) = <<"doQueue">>
    BY OtherMoves
  <2>2. /\ stack \in FinishQueue => stack' \in Finished
        /\ stack \in GiveQueue => stack' \in Given /\ (stack' \in Stopping <=> stack \in Stopping)
    BY <1>1, RunningMoves, ClearingMoves
  <2>3. QED
    BY <1>1, <2>1, <2>2, Zenon
<1>5. NoneWaits' /\ FilledSound' /\ OneJob' /\ fatal' = "none"
  BY <1>1, KeepsJob, KeepsFilled, StaysQuiet DEF RpiInv
<1>6. RpiType'
  BY <1>1, <1>4 DEF RpiInv, RpiType, RpiStacks, CheckedStacks, ClearStacks
<1>7. /\ AllPending(requestQueue) => AllPending(requestQueue)'
      /\ AllPending(Tail(requestQueue)) => AllPending(Tail(requestQueue))'
  BY <1>1 DEF AllPending
<1>8. CASE stack = <<"doQueue">>
  <2>1. InStep'
    BY <1>1, <1>4, <1>7, <1>8, StacksDiffer DEF RpiInv, InStep, RunningStacks, RefuseStacks, EndStacks
  <2>2. StatesSound'
    BY <1>1, <1>3, <1>4, <1>8, StacksDiffer
       DEF RpiInv, StatesSound, CheckedStacks, RunningStacks, RefuseStacks, EndStacks, ClearStacks,
           Rpi!isRunning
  <2>3. QED
    BY <1>5, <1>6, <2>1, <2>2 DEF RpiInv
<1>9. CASE stack \in FinishQueue
  <2>1. InStep'
    BY <1>1, <1>4, <1>7, <1>9, StacksDiffer DEF RpiInv, InStep, RunningStacks, RefuseStacks, EndStacks
  <2>2. StatesSound'
    BY <1>1, <1>3, <1>4, <1>9, StacksDiffer
       DEF RpiInv, StatesSound, CheckedStacks, RunningStacks, RefuseStacks, EndStacks, ClearStacks,
           Rpi!isRunning
  <2>3. QED
    BY <1>5, <1>6, <2>1, <2>2 DEF RpiInv
<1>10. CASE stack \in GiveQueue
  <2>1. InStep'
    BY <1>1, <1>4, <1>7, <1>10, StacksDiffer DEF RpiInv, InStep, RunningStacks, RefuseStacks, EndStacks
  <2>2. StatesSound'
    BY <1>1, <1>3, <1>4, <1>10, StacksDiffer
       DEF RpiInv, StatesSound, CheckedStacks, RunningStacks, RefuseStacks, EndStacks, ClearStacks,
           Rpi!isRunning
  <2>3. QED
    BY <1>5, <1>6, <2>1, <2>2 DEF RpiInv
<1>11. CASE stack \in RefuseQueue
  <2>1. requestQueue = <<>> /\ queued = <<>> /\ state = "Error"
    BY <1>11 DEF RpiInv, InStep, StatesSound, RefuseStacks
  <2>2. AllPending(requestQueue)'
    BY <1>1, <2>1, ToSetOfEmpty DEF AllPending
  <2>3. InStep'
    BY <1>1, <1>4, <1>11, <2>1, <2>2, StacksDiffer DEF InStep, RunningStacks, RefuseStacks, EndStacks
  <2>4. StatesSound'
    BY <1>1, <1>3, <1>4, <1>11, <2>1, StacksDiffer
       DEF RpiInv, StatesSound, CheckedStacks, RunningStacks, RefuseStacks, EndStacks, ClearStacks,
           Rpi!isRunning
  <2>5. QED
    BY <1>5, <1>6, <2>3, <2>4 DEF RpiInv
<1>12. QED
  BY <1>1, <1>8, <1>9, <1>10, <1>11

\* A queue that has each request once, and not all of them, is shorter than their number.
LEMMA RoomInQueue ==
    ASSUME RpiConstants, NEW q \in Seq(Pair), IsInjective(q), NEW r \in Pair, r \notin ToSet(q)
    PROVE  Len(q) # MaxQueued
<1>1. Cardinality(1 .. Len(q)) = Len(q) /\ IsFiniteSet(1 .. Len(q)) /\ Len(q) \in Nat
  <2>1. Len(q) \in Nat
    OBVIOUS
  <2>2. 1 \in Int /\ Len(q) \in Int
    BY <2>1
  <2>3. IsFiniteSet(1 .. Len(q)) /\ Cardinality(1 .. Len(q)) = IF 1 > Len(q) THEN 0 ELSE Len(q) - 1 + 1
    BY <2>2, FS_Interval
  <2>4. QED
    BY <2>1, <2>3
<1>2. ToSet(q) \subseteq Pair /\ q \in [1 .. Len(q) -> ToSet(q)]
  BY DEF ToSet
<1>3. IsFiniteSet(ToSet(q)) /\ IsFiniteSet(Pair)
  BY <1>2, FS_Subset DEF RpiConstants
<1>4. ASSUME Len(q) > Cardinality(ToSet(q))
      PROVE  FALSE
  <2>1. \E i, j \in 1 .. Len(q) : i # j /\ q[i] = q[j]
    BY <1>1, <1>2, <1>3, <1>4, FS_PigeonHole
  <2>2. QED
    BY <2>1 DEF IsInjective
<1>5. Cardinality(ToSet(q)) < Cardinality(Pair)
  <2>1. Cardinality(ToSet(q)) \in Nat /\ Cardinality(Pair) \in Nat
    BY <1>3, FS_CardinalityType
  <2>2. Cardinality(ToSet(q)) <= Cardinality(Pair) /\ (Cardinality(Pair) = Cardinality(ToSet(q)) => Pair = ToSet(q))
    BY <1>2, <1>3, FS_Subset
  <2>3. QED
    BY <2>1, <2>2
<1>6. QED
  BY <1>1, <1>3, <1>4, <1>5, FS_CardinalityType DEF RpiConstants

\* doQueueRequests() with a request: queueRequestDevice(), or cancelRequest() after an error.
LEMMA OneQueued ==
    ASSUME RpiConstants, RpiInv, Rpi!DoQueueRequests, waiting # <<>>
    PROVE  RpiInv'
<1>1. PICK r \in Pair : NewRequest(r)
  BY DEF RpiInv, NoneWaits
<1>2. /\ stack = <<"doQueue">> /\ stack \in Base /\ stack # <<>> /\ stopped = <<>>
      /\ waiting = <<r>> /\ r \notin ToSet(requestQueue) /\ req[r].status = "Pending" /\ ~req[r].filled
  BY <1>1, OtherMoves DEF RpiInv, NoneWaits, NewRequest
<1>3. /\ queued = requestQueue /\ AllPending(requestQueue) /\ active
      /\ queued \in Seq(Pair) /\ IsInjective(requestQueue) /\ ToSet(requestQueue) \subseteq Pair
  BY <1>2, MembersIn DEF RpiInv, RpiType, InStep, StatesSound
<1>4. Len(queued) # MaxQueued
  BY <1>2, <1>3, RoomInQueue
<1>5. Head(waiting) = r /\ Tail(waiting) = <<>>
  BY <1>2
<1>6. /\ waiting' = <<>> /\ queued' = Append(queued, r)
      /\ UNCHANGED <<active, state, stopped, input, done, calls, events, fatal>>
  BY <1>4, <1>5 DEF Rpi!DoQueueRequests, Rpi!ipaVars
<1>7. NoneWaits' /\ OneJob' /\ fatal' = "none"
  BY <1>2, <1>6, KeepsJob DEF RpiInv, NoneWaits
<1>8. CASE Rpi!isRunning
  <2>1. /\ requestQueue' = Append(requestQueue, r) /\ req' = req
        /\ stack' = <<"handleState">> \o stack
    BY <1>4, <1>5, <1>8 DEF Rpi!DoQueueRequests, Rpi!Call
  <2>2. stack' \in Handling
    BY <1>2, <2>1, OtherMoves
  <2>3. /\ requestQueue' \in Seq(Pair) /\ IsInjective(requestQueue') /\ requestQueue' # <<>>
        /\ ToSet(requestQueue') = ToSet(requestQueue) \cup {r}
    <3>1. ToSet(requestQueue') = ToSet(requestQueue) \cup {r} /\ IsInjective(requestQueue')
      BY <1>2, <1>3, <2>1, ToSetOfAppend, InjectiveAppend
    <3>2. requestQueue' \in Seq(Pair) /\ requestQueue' # <<>>
      BY <1>3, <2>1
    <3>3. QED
      BY <3>1, <3>2
  <2>4. RpiType'
    BY <1>6, <2>1, <2>2, <2>3, <1>3 DEF RpiInv, RpiType, RpiStacks, RunningStacks
  <2>5. AllPending(requestQueue)'
    BY <1>2, <1>3, <2>1, <2>3 DEF AllPending
  <2>6. InStep'
    BY <1>3, <1>6, <2>1, <2>2, <2>5, StacksDiffer DEF InStep, RunningStacks, RefuseStacks, EndStacks
  <2>7. StatesSound'
    BY <1>3, <1>6, <1>8, <2>2, <2>3, StacksDiffer
       DEF StatesSound, CheckedStacks, RunningStacks, RefuseStacks, EndStacks, ClearStacks, Rpi!isRunning
  <2>8. FilledSound'
    <3>1. requestQueue # <<>> => Head(requestQueue') = Head(requestQueue)
      BY <1>3, <2>1
    <3>2. requestQueue = <<>> => ToSet(requestQueue') = {r}
      BY <2>3, ToSetOfEmpty
    <3>3. QED
      BY <1>2, <1>6, <1>8, <2>1, <2>3, <3>1, <3>2 DEF RpiInv, FilledSound, Rpi!isRunning
  <2>9. QED
    BY <1>7, <2>4, <2>6, <2>7, <2>8 DEF RpiInv
<1>9. CASE ~Rpi!isRunning
  <2>1. /\ req' = [req EXCEPT ![r].status = "Cancelled", ![r].pending = {}] /\ requestQueue' = requestQueue
        /\ stack' = <<"complete">> \o stack
    BY <1>4, <1>5, <1>9 DEF Rpi!DoQueueRequests, Rpi!Call
  <2>2. stack' \in Refusing
    BY <1>2, <2>1, OtherMoves
  <2>3. requestQueue = <<>> /\ queued = <<>> /\ state = "Error" /\ input = <<>> /\ done = Rpi!NotDone
    BY <1>2, <1>3, <1>9 DEF RpiInv, StatesSound, Rpi!isRunning, RpiType
  <2>4. queued' = <<r>>
    BY <1>6, <2>3
  <2>5. req' \in [Pair -> RpiRequest] /\ req'[r].status # "Pending"
    BY <2>1 DEF RpiInv, RpiType, RpiRequest
  <2>6. RpiType'
    BY <1>6, <2>1, <2>2, <2>4, <2>5 DEF RpiInv, RpiType, RpiStacks, RefuseStacks
  <2>7. InStep'
    BY <2>1, <2>2, <2>3, <2>4, <2>5, StacksDiffer DEF InStep, RunningStacks, RefuseStacks, EndStacks
  <2>8. StatesSound'
    BY <1>3, <1>6, <2>1, <2>2, <2>3, StacksDiffer
       DEF StatesSound, CheckedStacks, RunningStacks, RefuseStacks, EndStacks, ClearStacks, Rpi!isRunning
  <2>9. FilledSound'
    BY <1>6, <1>9 DEF FilledSound, Rpi!isRunning
  <2>10. QED
    BY <1>7, <2>6, <2>7, <2>8, <2>9 DEF RpiInv
<1>10. QED
  BY <1>8, <1>9

LEMMA QueueRequestSound ==
    ASSUME RpiInv, NEW r \in Pair, NEW ss \in SUBSET {"image", "output"}, Rpi!QueueRequest(r, ss)
    PROVE  RpiInv'
<1>1. /\ active /\ stack = <<>> /\ req[r].status = "Free"
      /\ req' = [req EXCEPT ![r] = [status |-> "Pending", streams |-> ss, pending |-> ss, filled |-> FALSE]]
      /\ waiting' = Append(waiting, r) /\ stack' = <<"doQueue">>
      /\ UNCHANGED <<active, state, queued, stopped, requestQueue, input, done, calls, events, fatal>>
  BY DEF Rpi!QueueRequest, Rpi!Loop, Rpi!deviceVars, Rpi!ipaVars
<1>2. stack \in Base /\ stack' \in Base /\ stack # <<"doQueue">>
  BY <1>1, OtherMoves
<1>3. waiting = <<>> /\ stopped = <<>>
  BY <1>2, QuietStack DEF RpiInv
<1>4. queued = requestQueue /\ AllPending(requestQueue) /\ ToSet(requestQueue) \subseteq Pair
  BY <1>2, MembersIn DEF RpiInv, RpiType, InStep
<1>5. r \notin ToSet(requestQueue)
  BY <1>1, <1>4 DEF AllPending
<1>6. /\ req' \in [Pair -> RpiRequest] /\ req'[r].status = "Pending" /\ ~req'[r].filled
      /\ \A x \in Pair \ {r} : req'[x] = req[x]
  BY <1>1 DEF RpiInv, RpiType, RpiRequest, Rpi!Stream
<1>7. RpiType'
  BY <1>1, <1>2, <1>6 DEF RpiInv, RpiType, RpiStacks
<1>8. NoneWaits'
  <2>1. waiting' = <<r>>
    BY <1>1, <1>3
  <2>2. NewRequest(r)'
    BY <1>1, <1>5, <1>6, <2>1 DEF NewRequest
  <2>3. QED
    BY <1>1, <1>3, <2>2 DEF NoneWaits
<1>9. AllPending(requestQueue)'
  BY <1>1, <1>4, <1>5, <1>6 DEF AllPending
<1>10. InStep'
  BY <1>1, <1>2, <1>4, <1>9, StacksDiffer DEF InStep, RunningStacks, RefuseStacks, EndStacks
<1>11. StatesSound'
  BY <1>1, <1>2, StacksDiffer
     DEF RpiInv, StatesSound, CheckedStacks, RunningStacks, RefuseStacks, EndStacks, ClearStacks,
         Rpi!isRunning
<1>12. FilledSound'
  BY <1>1, <1>4, <1>5, <1>6 DEF RpiInv, FilledSound, Rpi!isRunning
<1>13. OneJob' /\ fatal' = "none"
  BY <1>1, KeepsJob DEF RpiInv
<1>14. QED
  BY <1>7, <1>8, <1>10, <1>11, <1>12, <1>13 DEF RpiInv

(***************************************************************************)
(* The devices and the IPA                                                 *)
(***************************************************************************)

\* A step that completes no request.
SameProgress ==
    /\ req' \in [Pair -> RpiRequest]
    /\ \A r \in Pair : req'[r].status = req[r].status /\ req'[r].filled = req[r].filled

LEMMA StreamBufferProgress ==
    ASSUME RpiType, NEW s, NEW b, Rpi!handleStreamBuffer(s, b)
    PROVE  SameProgress
<1>1. CASE requestQueue # <<>> /\ b = Rpi!OfRequest(Head(requestQueue))
  <2>1. Head(requestQueue) \in Pair
    BY <1>1, HeadInToSet DEF RpiType
  <2>2. req' = [req EXCEPT ![Head(requestQueue)].pending = @ \ {s}]
    BY <1>1 DEF Rpi!handleStreamBuffer
  <2>3. QED
    BY <2>1, <2>2 DEF SameProgress, RpiType, RpiRequest
<1>2. CASE ~(requestQueue # <<>> /\ b = Rpi!OfRequest(Head(requestQueue)))
  <2>1. req' = req
    BY <1>2 DEF Rpi!handleStreamBuffer
  <2>2. QED
    BY <2>1 DEF SameProgress, RpiType
<1>3. QED
  BY <1>1, <1>2

\* A handler runs handleState() at its end, in a camera that runs.
LEMMA HandlerSound ==
    ASSUME RpiInv, SameProgress, Rpi!isRunning, (Rpi!isRunning)', stack = <<>>, stack' = <<"handleState">> \o stack,
           state' = state \/ (state = "Busy" /\ state' = "IpaComplete"),
           UNCHANGED <<active, waiting, queued, stopped, requestQueue>>, DOMAIN done' = DoneStreams
    PROVE  RpiType' /\ NoneWaits' /\ InStep' /\ StatesSound' /\ FilledSound'
<1>1. stack \in Base /\ stack # <<"doQueue">> /\ stack' \in Handling
  BY OtherMoves
<1>2. waiting = <<>>
  BY <1>1, QuietStack DEF RpiInv
<1>3. /\ queued = requestQueue /\ AllPending(requestQueue) /\ active /\ ToSet(requestQueue) \subseteq Pair
      /\ state \in {"Busy", "IpaComplete"} => requestQueue # <<>>
  BY <1>1, MembersIn DEF RpiInv, RpiType, InStep, StatesSound, Rpi!isRunning
<1>4. RpiType'
  BY <1>1 DEF RpiInv, RpiType, RpiStacks, RunningStacks, SameProgress, RpiStates
<1>5. AllPending(requestQueue)'
  BY <1>3 DEF AllPending, SameProgress
<1>6. InStep'
  BY <1>1, <1>3, <1>5, StacksDiffer DEF InStep, RunningStacks, RefuseStacks, EndStacks
<1>7. StatesSound'
  BY <1>1, <1>3, StacksDiffer
     DEF StatesSound, CheckedStacks, RunningStacks, RefuseStacks, EndStacks, ClearStacks, Rpi!isRunning
<1>8. FilledSound'
  BY <1>3 DEF RpiInv, FilledSound, SameProgress, Rpi!isRunning
<1>9. QED
  BY <1>2, <1>4, <1>6, <1>7, <1>8, StaysQuiet DEF RpiInv

LEMMA DequeueRuns ==
    ASSUME RpiInv, NEW s \in DoneStreams, Rpi!Dequeue(s)
    PROVE  /\ Rpi!isRunning /\ (Rpi!isRunning)' /\ stack = <<>> /\ stack' = <<"handleState">> \o stack
           /\ UNCHANGED <<active, state, waiting, queued, stopped, requestQueue, input>>
           /\ done' = [done EXCEPT ![s] = Tail(@)] /\ DOMAIN done' = DoneStreams /\ done[s] # <<>>
<1>1. /\ stack = <<>> /\ done[s] # <<>> /\ stack' = <<"handleState">> \o stack
      /\ UNCHANGED <<active, state, waiting, queued, stopped, requestQueue, input>>
      /\ done' = [done EXCEPT ![s] = Tail(@)]
  BY DEF Rpi!Dequeue, Rpi!Loop, Rpi!Call, Rpi!queueVars
<1>2. Rpi!NotDone[s] = <<>>
  BY DEF Rpi!NotDone, DoneStreams
<1>3. Rpi!isRunning
  BY <1>1, <1>2 DEF RpiInv, StatesSound
<1>4. DOMAIN done' = DoneStreams
  BY <1>1 DEF RpiInv, RpiType
<1>5. QED
  BY <1>1, <1>3, <1>4 DEF Rpi!isRunning

LEMMA OtherDequeueSound ==
    ASSUME RpiInv, Rpi!UnicamImageDequeue \/ Rpi!UnicamEmbeddedDequeue \/ Rpi!IspInputDequeue \/ Rpi!IspOutputDequeue
    PROVE  RpiInv'
<1>1. PICK s \in {"image", "embedded", "input", "output"} :
          Rpi!Dequeue(s) /\ SameProgress /\ UNCHANGED <<calls, events, fatal>>
  <2>1. CASE Rpi!UnicamImageDequeue
    BY <2>1 DEF Rpi!UnicamImageDequeue, RpiInv, RpiType, SameProgress, Rpi!ipaVars
  <2>2. CASE Rpi!UnicamEmbeddedDequeue
    BY <2>2 DEF Rpi!UnicamEmbeddedDequeue, RpiInv, RpiType, SameProgress, Rpi!ipaVars
  <2>3. CASE Rpi!IspInputDequeue
    BY <2>3, StreamBufferProgress DEF Rpi!IspInputDequeue, RpiInv, Rpi!ipaVars
  <2>4. CASE Rpi!IspOutputDequeue
    BY <2>4, StreamBufferProgress DEF Rpi!IspOutputDequeue, RpiInv, Rpi!ipaVars
  <2>5. QED
    BY <2>1, <2>2, <2>3, <2>4
<1>2. s \in DoneStreams
  BY DEF DoneStreams
<1>3. /\ Rpi!isRunning /\ (Rpi!isRunning)' /\ stack = <<>> /\ stack' = <<"handleState">> \o stack
      /\ UNCHANGED <<active, state, waiting, queued, stopped, requestQueue, input>>
      /\ done' = [done EXCEPT ![s] = Tail(@)] /\ DOMAIN done' = DoneStreams
  BY <1>1, <1>2, DequeueRuns
<1>4. RpiType' /\ NoneWaits' /\ InStep' /\ StatesSound' /\ FilledSound'
  BY <1>1, <1>3, HandlerSound
<1>5. done'["stats"] = done["stats"]
  BY <1>3 DEF RpiInv, RpiType
<1>6. OneJob'
  BY <1>1, <1>3, <1>5 DEF RpiInv, OneJob, Work, NoWork, CallIs, EventIs, InIsp, FromIsp, Answered, Rpi!isRunning
<1>7. QED
  BY <1>1, <1>4, <1>6 DEF RpiInv

\* The statistics of the request that the pipeline works on.
LEMMA StatsDequeueSound ==
    ASSUME RpiInv, Rpi!IspStatsDequeue
    PROVE  RpiInv'
<1> DEFINE c == [op |-> "processStats", stats |-> Head(done["stats"]).buffer]
<1>1. /\ Rpi!Dequeue("stats") /\ "stats" \in DoneStreams /\ SameProgress
      /\ calls' = Append(calls, c) /\ events' = events
      /\ fatal' = IF requestQueue = <<>> THEN "ispOutputDequeue: no request" ELSE fatal
  BY DEF Rpi!IspStatsDequeue, DoneStreams, SameProgress, RpiInv, RpiType
<1>2. /\ Rpi!isRunning /\ (Rpi!isRunning)' /\ stack = <<>> /\ stack' = <<"handleState">> \o stack
      /\ UNCHANGED <<active, state, waiting, queued, stopped, requestQueue, input>>
      /\ done' = [done EXCEPT !["stats"] = Tail(@)] /\ DOMAIN done' = DoneStreams /\ done["stats"] # <<>>
  BY <1>1, DequeueRuns
<1>3. RpiType' /\ NoneWaits' /\ InStep' /\ StatesSound' /\ FilledSound'
  BY <1>1, <1>2, HandlerSound
<1>4. state = "Busy" /\ FromIsp
  BY <1>2 DEF RpiInv, OneJob, Work, NoWork, CallIs, EventIs, InIsp, Answered
<1>5. requestQueue # <<>>
  BY <1>4 DEF RpiInv, StatesSound
<1>6. PICK b : done["stats"] = <<b>>
  BY <1>4 DEF FromIsp
<1>7. Tail(<<b>>) = <<>>
  OBVIOUS
<1>8. done'["stats"] = <<>>
  BY <1>1, <1>2, <1>6, <1>7 DEF RpiInv, RpiType
<1>9. "op" \in DOMAIN c /\ c.op = "processStats"
  OBVIOUS
<1> HIDE DEF c
<1>10. calls' = <<c>>
  <2>1. Append(<<>>, c) = <<c>>
    OBVIOUS
  <2>2. calls = <<>>
    BY <1>4 DEF FromIsp
  <2>3. QED
    BY <1>1, <2>1, <2>2, Zenon
<1>11. CallIs("processStats")'
  BY <1>1, <1>2, <1>4, <1>8, <1>9, <1>10 DEF CallIs, FromIsp
<1>12. OneJob'
  BY <1>2, <1>4, <1>11 DEF OneJob, Work
<1>13. QED
  BY <1>1, <1>3, <1>5, <1>12 DEF RpiInv

\* The parts of the invariant that the devices and the thread of the IPA leave alone.
LEMMA DeviceKeeps ==
    ASSUME RpiInv, DOMAIN done' = DoneStreams,
           UNCHANGED <<active, state, stack, waiting, queued, stopped, req, requestQueue, fatal>>,
           (active /\ stack \notin Ending) \/ (calls' = calls /\ events' = events),
           Rpi!isRunning \/ (input' = input /\ done' = done)
    PROVE  RpiType' /\ NoneWaits' /\ InStep' /\ StatesSound' /\ FilledSound' /\ fatal' = "none"
<1>1. RpiType'
  BY DEF RpiInv, RpiType
<1>2. NoneWaits'
  BY DEF RpiInv, NoneWaits, NewRequest
<1>3. InStep'
  BY DEF RpiInv, InStep, AllPending
<1>4. StatesSound'
  BY DEF RpiInv, StatesSound, Rpi!isRunning
<1>5. FilledSound' /\ fatal' = "none"
  BY KeepsFilled DEF RpiInv
<1>6. QED
  BY <1>1, <1>2, <1>3, <1>4, <1>5

LEMMA CaptureSound ==
    ASSUME RpiInv, Rpi!CaptureFrame \/ Rpi!CaptureLost
    PROVE  RpiInv'
<1>1. PICK got \in SUBSET {"image", "embedded"} : Rpi!Capture(got)
  <2>1. CASE Rpi!CaptureFrame
    BY <2>1 DEF Rpi!CaptureFrame
  <2>2. CASE Rpi!CaptureLost
    BY <2>2 DEF Rpi!CaptureLost
  <2>3. QED
    BY <2>1, <2>2
<1>2. /\ Rpi!isRunning
      /\ UNCHANGED <<active, state, stack, waiting, queued, stopped, req, requestQueue, input, calls, events, fatal>>
  BY <1>1 DEF Rpi!Capture, Rpi!queueVars, Rpi!ipaVars
<1>3. DOMAIN done' = DOMAIN done /\ \A s \in DOMAIN done \ got : done'[s] = done[s]
  <2> DEFINE full == {s \in got : streams[s].device # <<>>}
             Received(s) == Append(done[s], [buffer |-> Head(streams[s].device), ts |-> frameNumber + 1])
  <2>1. done' = [s \in DOMAIN done |-> IF s \in full THEN Received(s) ELSE done[s]]
    BY <1>1 DEF Rpi!Capture
  <2>2. full \subseteq got
    OBVIOUS
  <2> HIDE DEF full, Received
  <2>3. QED
    BY <2>1, <2>2
<1>4. DOMAIN done' = DoneStreams /\ done'["stats"] = done["stats"]
  BY <1>3 DEF RpiInv, RpiType, DoneStreams
<1>5. RpiType' /\ NoneWaits' /\ InStep' /\ StatesSound' /\ FilledSound' /\ fatal' = "none"
  BY <1>2, <1>4, DeviceKeeps
<1>6. OneJob'
  BY <1>2, <1>4 DEF RpiInv, OneJob, Work, NoWork, CallIs, EventIs, InIsp, FromIsp, Answered, Rpi!isRunning
<1>7. QED
  BY <1>5, <1>6 DEF RpiInv

LEMMA IspRunSound ==
    ASSUME RpiInv, Rpi!IspRun
    PROVE  RpiInv'
<1>1. /\ Rpi!isRunning /\ input # <<>> /\ input' = Tail(input)
      /\ UNCHANGED <<active, state, stack, waiting, queued, stopped, req, requestQueue, calls, events, fatal>>
  BY DEF Rpi!IspRun, Rpi!queueVars, Rpi!ipaVars
<1>2. state = "Busy" /\ InIsp
  BY <1>1 DEF RpiInv, OneJob, Work, NoWork, CallIs, EventIs, FromIsp, Answered
<1>3. PICK b : input = <<b>> /\ done["stats"] = <<>>
  BY <1>2 DEF InIsp
<1>4. Tail(<<b>>) = <<>>
  OBVIOUS
<1>5. DOMAIN done' = DoneStreams /\ \E x : done'["stats"] = Append(done["stats"], x)
  BY DEF Rpi!IspRun, RpiInv, RpiType, DoneStreams
<1>6. PICK x : done'["stats"] = <<x>>
  BY <1>3, <1>5
<1>7. RpiType' /\ NoneWaits' /\ InStep' /\ StatesSound' /\ FilledSound' /\ fatal' = "none"
  BY <1>1, <1>5, DeviceKeeps
<1>8. FromIsp'
  BY <1>1, <1>2, <1>3, <1>4, <1>6 DEF InIsp, FromIsp
<1>9. OneJob'
  BY <1>1, <1>2, <1>8 DEF OneJob, Work
<1>10. QED
  BY <1>7, <1>9 DEF RpiInv

LEMMA IpaThreadSound ==
    ASSUME RpiInv, Rpi!IpaThread
    PROVE  RpiInv'
<1>1. /\ calls # <<>> /\ calls' = Tail(calls)
      /\ UNCHANGED <<active, state, stack, waiting, queued, stopped, req, requestQueue, input, done, fatal>>
      /\ LET c == Head(calls) IN
         events' = events \o
             IF c.op = "prepareIsp" THEN <<[c EXCEPT !.op = "prepareIspComplete"]>>
             ELSE <<[op |-> "metadataReady"], [c EXCEPT !.op = "processStatsComplete"]>>
  BY DEF Rpi!IpaThread, Rpi!queueVars, Rpi!deviceVars
<1>2. active /\ stack \notin Ending /\ DOMAIN done' = DoneStreams
  BY <1>1 DEF RpiInv, RpiType, StatesSound
<1>3. RpiType' /\ NoneWaits' /\ InStep' /\ StatesSound' /\ FilledSound' /\ fatal' = "none"
  BY <1>1, <1>2, DeviceKeeps
<1>4. ASSUME Rpi!isRunning
      PROVE  state = "Busy" /\ (CallIs("prepareIsp") \/ CallIs("processStats"))
  BY <1>1, <1>4 DEF RpiInv, OneJob, Work, NoWork, EventIs, InIsp, FromIsp, Answered
<1>5. ASSUME NEW c, calls = <<c>>
      PROVE  Head(calls) = c /\ calls' = <<>>
  <2>1. Head(<<c>>) = c /\ Tail(<<c>>) = <<>>
    OBVIOUS
  <2>2. QED
    BY <1>1, <1>5, <2>1, Zenon
<1>6. ASSUME Rpi!isRunning, CallIs("prepareIsp")
      PROVE  EventIs("prepareIspComplete")'
  <2>1. PICK c : calls = <<c>> /\ "op" \in DOMAIN c /\ c.op = "prepareIsp"
    BY <1>6 DEF CallIs
  <2> DEFINE e == [c EXCEPT !.op = "prepareIspComplete"]
  <2>2. e.op = "prepareIspComplete"
    BY <2>1
  <2>3. Head(calls) = c /\ calls' = <<>> /\ events = <<>>
    BY <1>5, <1>6, <2>1 DEF CallIs
  <2>4. events' = <<>> \o <<e>>
    BY <1>1, <2>1, <2>3
  <2> HIDE DEF e
  <2>5. <<>> \o <<e>> = <<e>>
    OBVIOUS
  <2>6. QED
    BY <1>1, <1>6, <2>2, <2>3, <2>4, <2>5 DEF CallIs, EventIs
<1>7. ASSUME Rpi!isRunning, CallIs("processStats")
      PROVE  Answered'
  <2>1. PICK c : calls = <<c>> /\ "op" \in DOMAIN c /\ c.op = "processStats"
    BY <1>7 DEF CallIs
  <2> DEFINE m == [op |-> "metadataReady"]
             e == [c EXCEPT !.op = "processStatsComplete"]
  <2>2. m.op = "metadataReady" /\ e.op = "processStatsComplete"
    BY <2>1
  <2>3. Head(calls) = c /\ calls' = <<>> /\ events = <<>>
    BY <1>5, <1>7, <2>1 DEF CallIs
  <2>4. events' = <<>> \o <<m, e>>
    BY <1>1, <2>1, <2>3
  <2> HIDE DEF m, e
  <2>5. <<>> \o <<m, e>> = <<m, e>>
    OBVIOUS
  <2>6. QED
    BY <1>1, <1>7, <2>2, <2>3, <2>4, <2>5 DEF CallIs, Answered
<1>8. OneJob'
  BY <1>1, <1>4, <1>6, <1>7 DEF OneJob, Work, Rpi!isRunning
<1>9. QED
  BY <1>3, <1>8 DEF RpiInv

\* An event that comes when the camera does not run ...
LEMMA LateEventSound ==
    ASSUME RpiInv, Rpi!IpaEvent, ~Rpi!isRunning
    PROVE  RpiInv'
<1>1. /\ stack = <<>> /\ events # <<>>
      /\ UNCHANGED <<active, state, stack, waiting, queued, stopped, req, requestQueue, input, done, calls, fatal>>
  BY DEF Rpi!IpaEvent, Rpi!Loop, Rpi!queueVars
<1>2. active /\ stack \notin Ending /\ DOMAIN done' = DoneStreams
  BY <1>1 DEF RpiInv, RpiType, StatesSound
<1>3. RpiType' /\ NoneWaits' /\ InStep' /\ StatesSound' /\ FilledSound' /\ fatal' = "none"
  BY <1>1, <1>2, DeviceKeeps
<1>4. OneJob'
  BY <1>1 DEF OneJob, Rpi!isRunning
<1>5. QED
  BY <1>3, <1>4 DEF RpiInv

\* ... and the events of the request that the pipeline works on.
LEMMA EventSound ==
    ASSUME RpiInv, Rpi!IpaEvent, Rpi!isRunning
    PROVE  RpiInv'
<1> DEFINE h == Head(events)
<1>1. /\ stack = <<>> /\ events # <<>> /\ events' = Tail(events)
      /\ UNCHANGED <<active, waiting, queued, stopped, requestQueue, done, calls>>
  BY DEF Rpi!IpaEvent, Rpi!Loop, Rpi!queueVars
<1>2. state = "Busy" /\ (EventIs("prepareIspComplete") \/ Answered \/ EventIs("processStatsComplete"))
  BY <1>1 DEF RpiInv, OneJob, Work, NoWork, CallIs, InIsp, FromIsp
<1>3. active /\ requestQueue # <<>> /\ DOMAIN done' = DoneStreams
  BY <1>1, <1>2 DEF RpiInv, RpiType, StatesSound
<1>4. calls = <<>> /\ input = <<>> /\ done["stats"] = <<>>
  BY <1>2 DEF EventIs, Answered
<1>5. CASE EventIs("prepareIspComplete")
  <2>1. PICK e : events = <<e>> /\ e.op = "prepareIspComplete"
    BY <1>5 DEF EventIs
  <2>2. Head(<<e>>) = e /\ Tail(<<e>>) = <<>>
    OBVIOUS
  <2>3. h = e /\ events' = <<>>
    BY <1>1, <2>1, <2>2, Zenon
  <2>4. /\ input' = Append(input, h.bayer) /\ stack' = <<"handleState">> \o stack
        /\ UNCHANGED <<state, fatal>>
        /\ req' = req \/ Rpi!handleStreamBuffer("embedded", h.embedded)
    BY <2>1, <2>3 DEF Rpi!IpaEvent, Rpi!Call
  <2>5. SameProgress
    <3>1. CASE req' = req
      BY <3>1 DEF SameProgress, RpiInv, RpiType
    <3>2. CASE Rpi!handleStreamBuffer("embedded", h.embedded)
      BY <3>2, StreamBufferProgress DEF RpiInv
    <3>3. QED
      BY <2>4, <3>1, <3>2
  <2>6. RpiType' /\ NoneWaits' /\ InStep' /\ StatesSound' /\ FilledSound'
    <3>1. (Rpi!isRunning)'
      BY <2>4 DEF Rpi!isRunning
    <3>2. QED
      BY <1>1, <1>3, <2>4, <2>5, <3>1, HandlerSound
  <2>7. input' = <<h.bayer>>
    <3>1. Append(<<>>, h.bayer) = <<h.bayer>>
      OBVIOUS
    <3>2. QED
      BY <1>4, <2>4, <3>1, Zenon
  <2>8. InIsp'
    BY <1>1, <1>4, <2>3, <2>7 DEF InIsp
  <2>9. OneJob' /\ fatal' = "none"
    BY <1>2, <2>4, <2>8 DEF OneJob, Work, RpiInv
  <2>10. QED
    BY <2>6, <2>9 DEF RpiInv
<1>6. CASE Answered
  <2>1. PICK m, e : events = <<m, e>> /\ m.op = "metadataReady" /\ e.op = "processStatsComplete"
    BY <1>6 DEF Answered
  <2>2. Head(<<m, e>>) = m /\ Tail(<<m, e>>) = <<e>>
    OBVIOUS
  <2>3. h = m /\ events' = <<e>>
    BY <1>1, <2>1, <2>2, Zenon
  <2>4. UNCHANGED <<state, stack, req, streams, input>> /\ fatal' = fatal
    BY <1>3, <2>1, <2>3 DEF Rpi!IpaEvent
  <2>5. stack \notin Ending
    BY <1>1, StacksDiffer, OtherMoves
  <2>6. RpiType' /\ NoneWaits' /\ InStep' /\ StatesSound' /\ FilledSound' /\ fatal' = "none"
    BY <1>1, <1>3, <2>4, <2>5, DeviceKeeps
  <2>7. EventIs("processStatsComplete")'
    BY <1>1, <1>4, <2>1, <2>3, <2>4 DEF EventIs
  <2>8. OneJob'
    BY <1>2, <2>4, <2>7 DEF OneJob, Work
  <2>9. QED
    BY <2>6, <2>8 DEF RpiInv
<1>7. CASE EventIs("processStatsComplete")
  <2>1. PICK e : events = <<e>> /\ e.op = "processStatsComplete"
    BY <1>7 DEF EventIs
  <2>2. Head(<<e>>) = e /\ Tail(<<e>>) = <<>>
    OBVIOUS
  <2>3. h = e /\ events' = <<>>
    BY <1>1, <2>1, <2>2, Zenon
  <2>4. /\ Rpi!handleStreamBuffer("stats", h.stats) /\ state' = "IpaComplete"
        /\ stack' = <<"handleState">> \o stack /\ UNCHANGED <<input, fatal>>
    BY <2>1, <2>3 DEF Rpi!IpaEvent, Rpi!Call
  <2>5. SameProgress
    BY <2>4, StreamBufferProgress DEF RpiInv
  <2>6. RpiType' /\ NoneWaits' /\ InStep' /\ StatesSound' /\ FilledSound'
    <3>1. (Rpi!isRunning)'
      BY <2>4 DEF Rpi!isRunning
    <3>2. QED
      BY <1>1, <1>2, <1>3, <2>4, <2>5, <3>1, HandlerSound
  <2>7. NoWork'
    BY <1>1, <1>4, <2>3, <2>4 DEF NoWork
  <2>8. OneJob' /\ fatal' = "none"
    BY <2>4, <2>7 DEF OneJob, RpiInv
  <2>9. QED
    BY <2>6, <2>8 DEF RpiInv
<1>8. QED
  BY <1>2, <1>5, <1>6, <1>7

(***************************************************************************)
(* start(), stop() and the timeout                                         *)
(***************************************************************************)

LEMMA ConfigureSound ==
    ASSUME RpiInv, NEW c, Rpi!Configure(c)
    PROVE  RpiInv'
<1>1. UNCHANGED <<active, state, stack, waiting, queued, stopped, req, requestQueue, input, done, calls, events, fatal>>
  BY DEF Rpi!Configure, Rpi!queueVars, Rpi!ipaVars
<1>2. DOMAIN done' = DoneStreams
  BY <1>1 DEF RpiInv, RpiType
<1>3. QED
  BY <1>1, <1>2, DeviceKeeps, KeepsJob DEF RpiInv

LEMMA StartFailsSound ==
    ASSUME RpiInv, Rpi!StartFails
    PROVE  RpiInv'
<1>1. UNCHANGED <<active, state, stack, waiting, queued, stopped, req, requestQueue, input, done, calls, events, fatal>>
  BY DEF Rpi!StartFails, Rpi!queueVars, Rpi!ipaVars
<1>2. DOMAIN done' = DoneStreams
  BY <1>1 DEF RpiInv, RpiType
<1>3. QED
  BY <1>1, <1>2, DeviceKeeps, KeepsJob DEF RpiInv

LEMMA StartSound ==
    ASSUME RpiInv, Rpi!Start
    PROVE  RpiInv'
<1>1. /\ ~active /\ stack = <<>> /\ active' = TRUE /\ state' = "Idle"
      /\ UNCHANGED <<stack, waiting, queued, stopped, req, requestQueue, input, done, calls, events, fatal>>
  BY DEF Rpi!Start, Rpi!Loop, Rpi!queueVars, Rpi!ipaVars
<1>2. stack \in Base /\ stack # <<"doQueue">>
  BY <1>1, OtherMoves
<1>3. waiting = <<>>
  BY <1>2, QuietStack DEF RpiInv
<1>4. /\ state = "Stopped" /\ calls = <<>> /\ events = <<>> /\ input = <<>> /\ done = Rpi!NotDone
      /\ requestQueue = <<>> /\ queued = <<>>
  BY <1>1, <1>2 DEF RpiInv, StatesSound, InStep, Rpi!isRunning
<1>5. RpiType'
  BY <1>1 DEF RpiInv, RpiType, RpiStates
<1>6. InStep'
  BY <1>1 DEF RpiInv, InStep, AllPending
<1>7. StatesSound'
  BY <1>1, <1>2, <1>4, StacksDiffer
     DEF StatesSound, CheckedStacks, RunningStacks, RefuseStacks, EndStacks, ClearStacks, Rpi!isRunning
<1>8. FilledSound'
  BY <1>1, <1>4, ToSetOfEmpty DEF FilledSound
<1>9. OneJob'
  BY <1>1, <1>4 DEF OneJob, NoWork, Rpi!NotDone
<1>10. NoneWaits' /\ fatal' = "none"
  BY <1>1, <1>3, StaysQuiet DEF RpiInv
<1>11. QED
  BY <1>5, <1>6, <1>7, <1>8, <1>9, <1>10 DEF RpiInv

LEMMA NotDoneDomain == DOMAIN Rpi!NotDone = DoneStreams
  BY DEF Rpi!NotDone, DoneStreams

\* stop() and cameraTimeout() set out to give the requests back.
LEMMA HaltSound ==
    ASSUME RpiInv, Rpi!Stop \/ Rpi!CameraTimeout
    PROVE  RpiInv'
<1>1. /\ active /\ stack = <<>> /\ input' = <<>> /\ done' = Rpi!NotDone
      /\ UNCHANGED <<active, queued, req, requestQueue, calls, events, fatal>>
      /\ \/ state' = "Stopped" /\ stack' = <<"clear", "stopIpa", "waiting">>
         \/ state' = "Error" /\ stack' = <<"clear">>
      /\ stopped' \in {stopped, waiting} /\ waiting' \in {waiting, <<>>}
  <2>1. CASE Rpi!Stop
    BY <2>1 DEF Rpi!Stop, Rpi!StreamOff, Rpi!Loop, Rpi!ipaVars
  <2>2. CASE Rpi!CameraTimeout
    <3>1. /\ stack = <<>> /\ input' = <<>> /\ done' = Rpi!NotDone /\ Rpi!isRunning
          /\ UNCHANGED <<active, queued, req, requestQueue, calls, events, fatal, stopped, waiting>>
          /\ state' = "Error" /\ stack' = <<"clear">>
      BY <2>2 DEF Rpi!CameraTimeout, Rpi!StreamOff, Rpi!Loop, Rpi!ipaVars, Rpi!queueVars
    <3>2. active
      BY <3>1 DEF RpiInv, RpiType, StatesSound, Rpi!isRunning
    <3>3. QED
      BY <3>1, <3>2
  <2>3. QED
    BY <2>1, <2>2
<1>2. stack \in Base /\ stack # <<"doQueue">>
  BY <1>1, OtherMoves
<1>3. waiting = <<>> /\ stopped = <<>>
  BY <1>2, QuietStack DEF RpiInv
<1>4. stack' \in Clearing /\ (stack' \in Stopping <=> state' = "Stopped") /\ state' \in {"Stopped", "Error"}
  BY <1>1 DEF Clearing, Stopping
<1>5. queued = requestQueue /\ AllPending(requestQueue)
  BY <1>2 DEF RpiInv, InStep
<1>6. RpiType'
  BY <1>1, <1>4, NotDoneDomain DEF RpiInv, RpiType, RpiStacks, ClearStacks, RpiStates
<1>7. AllPending(requestQueue)'
  BY <1>1, <1>5 DEF AllPending
<1>8. InStep'
  BY <1>1, <1>4, <1>5, <1>7, StacksDiffer DEF InStep, RunningStacks, RefuseStacks, EndStacks
<1>9. StatesSound'
  BY <1>1, <1>4, StacksDiffer
     DEF StatesSound, CheckedStacks, RunningStacks, RefuseStacks, EndStacks, ClearStacks, Rpi!isRunning
<1>10. FilledSound' /\ OneJob'
  BY <1>4 DEF FilledSound, OneJob, Rpi!isRunning
<1>11. NoneWaits' /\ fatal' = "none"
  BY <1>1, <1>3 DEF RpiInv, NoneWaits
<1>12. QED
  BY <1>6, <1>8, <1>9, <1>10, <1>11 DEF RpiInv

LEMMA ClearSound ==
    ASSUME RpiInv, Rpi!ClearIncompleteRequests
    PROVE  RpiInv'
<1> DEFINE r == Head(requestQueue)
<1>1. /\ stack \in Clearing
      /\ UNCHANGED <<active, state, waiting, queued, stopped, requestQueue, input, done, calls, events>>
  BY OnTop DEF RpiInv, RpiType, Rpi!ClearIncompleteRequests, Rpi!queueVars, Rpi!deviceVars, Rpi!ipaVars
<1>2. stack # <<"doQueue">> /\ stack # <<>>
  BY <1>1, StacksDiffer, OtherMoves
<1>3. waiting = <<>>
  BY <1>2, QuietStack DEF RpiInv
<1>4. /\ queued = requestQueue /\ AllPending(requestQueue) /\ active
      /\ state = IF stack \in Stopping THEN "Stopped" ELSE "Error"
  BY <1>1, <1>2 DEF RpiInv, InStep, StatesSound, ClearStacks, RpiType
<1>5. ~Rpi!isRunning /\ input = <<>> /\ done = Rpi!NotDone
  BY <1>4 DEF RpiInv, StatesSound, Rpi!isRunning
<1>6. NoneWaits' /\ FilledSound' /\ OneJob'
  BY <1>1, <1>3, <1>5, StaysQuiet DEF RpiInv, FilledSound, OneJob, Rpi!isRunning
<1>7. CASE requestQueue = <<>>
  <2>1. stack' = Tail(stack) /\ UNCHANGED <<req, fatal>>
    BY <1>7 DEF Rpi!ClearIncompleteRequests, Rpi!Return
  <2>2. IF stack \in Stopping THEN stack' \in IpaStopping ELSE stack' \in Base /\ stack' = <<>>
    <3>1. IF stack \in Stopping THEN Tail(stack) \in IpaStopping ELSE Tail(stack) = <<>>
      BY <1>1, ClearingMoves
    <3>2. <<>> \in Base
      BY OtherMoves
    <3>3. QED
      BY <2>1, <3>1, <3>2, Zenon
  <2>3. RpiType'
    BY <1>1, <2>1, <2>2 DEF RpiInv, RpiType, RpiStacks, EndStacks
  <2>4. AllPending(requestQueue)'
    BY <1>1, <1>4, <2>1 DEF AllPending
  <2>5. InStep'
    BY <1>1, <1>4, <1>7, <2>2, <2>4, StacksDiffer DEF InStep, RunningStacks, RefuseStacks, EndStacks
  <2>6. StatesSound'
    <3>1. CASE stack \in Stopping
      BY <1>1, <1>4, <1>5, <1>7, <2>2, <3>1, StacksDiffer
         DEF StatesSound, CheckedStacks, RunningStacks, RefuseStacks, EndStacks, ClearStacks, Rpi!isRunning
    <3>2. CASE stack \notin Stopping
      BY <1>1, <1>4, <1>5, <1>7, <2>2, <3>2, StacksDiffer
         DEF StatesSound, CheckedStacks, RunningStacks, RefuseStacks, EndStacks, ClearStacks, Rpi!isRunning
    <3>3. QED
      BY <3>1, <3>2
  <2>7. QED
    BY <1>6, <2>1, <2>3, <2>5, <2>6 DEF RpiInv
<1>8. CASE requestQueue # <<>>
  <2>1. r \in Pair /\ req[r].status = "Pending"
    BY <1>4, <1>8, HeadInToSet DEF RpiInv, RpiType, AllPending
  <2>2. /\ req' = [req EXCEPT ![r].status = "Cancelled", ![r].pending = {}]
        /\ stack' = <<"complete", "pop">> \o stack /\ fatal' = "none"
    BY <1>8, <2>1 DEF RpiInv, Rpi!ClearIncompleteRequests
  <2>3. stack' \in Giving /\ (stack' \in Stopping <=> stack \in Stopping)
    BY <1>1, <2>2, ClearingMoves
  <2>4. /\ req' \in [Pair -> RpiRequest] /\ req'[r].status # "Pending"
        /\ \A x \in Pair \ {r} : req'[x] = req[x]
    BY <2>1, <2>2 DEF RpiInv, RpiType, RpiRequest
  <2>5. RpiType'
    BY <1>1, <2>3, <2>4 DEF RpiInv, RpiType, RpiStacks, ClearStacks
  <2>6. AllPending(Tail(requestQueue))'
    <3>1. ToSet(Tail(requestQueue)) \subseteq Pair \ {r} /\ ToSet(Tail(requestQueue)) \subseteq ToSet(requestQueue)
      BY <1>8, ToSetOfTail, MembersIn DEF RpiInv, RpiType
    <3>2. QED
      BY <1>1, <1>4, <2>4, <3>1 DEF AllPending
  <2>7. InStep'
    BY <1>1, <1>4, <1>8, <2>3, <2>4, <2>6, StacksDiffer DEF InStep, RunningStacks, RefuseStacks, EndStacks
  <2>8. StatesSound'
    BY <1>1, <1>4, <1>5, <2>3, StacksDiffer
       DEF StatesSound, CheckedStacks, RunningStacks, RefuseStacks, EndStacks, ClearStacks, Rpi!isRunning
  <2>9. QED
    BY <1>6, <2>2, <2>5, <2>7, <2>8 DEF RpiInv
<1>9. QED
  BY <1>7, <1>8

LEMMA PopSound ==
    ASSUME RpiInv, Rpi!PopIncomplete
    PROVE  RpiInv'
<1>1. /\ stack \in Given /\ stack' = Tail(stack) /\ requestQueue' = Tail(requestQueue)
      /\ UNCHANGED <<active, state, waiting, queued, stopped, req, input, done, calls, events, fatal>>
  BY OnTop DEF RpiInv, RpiType, Rpi!PopIncomplete, Rpi!queueVars, Rpi!deviceVars, Rpi!ipaVars, Rpi!Return
<1>2. stack # <<"doQueue">> /\ stack # <<>>
  BY <1>1, StacksDiffer, OtherMoves
<1>3. waiting = <<>>
  BY <1>2, QuietStack DEF RpiInv
<1>4. /\ requestQueue # <<>> /\ AllPending(Tail(requestQueue)) /\ queued = Tail(requestQueue) /\ active
      /\ state = IF stack \in Stopping THEN "Stopped" ELSE "Error"
  BY <1>1, <1>2 DEF RpiInv, InStep, StatesSound, ClearStacks, RpiType
<1>5. ~Rpi!isRunning /\ input = <<>> /\ done = Rpi!NotDone
  BY <1>4 DEF RpiInv, StatesSound, Rpi!isRunning
<1>6. stack' \in Clearing /\ (stack' \in Stopping <=> stack \in Stopping)
  BY <1>1, ClearingMoves
<1>7. Tail(requestQueue) \in Seq(Pair) /\ IsInjective(Tail(requestQueue))
  BY <1>4, ToSetOfTail, HeadInToSet DEF RpiInv, RpiType
<1>8. RpiType'
  BY <1>1, <1>6, <1>7 DEF RpiInv, RpiType, RpiStacks, ClearStacks
<1>9. AllPending(requestQueue)'
  BY <1>1, <1>4 DEF AllPending
<1>10. InStep'
  BY <1>1, <1>4, <1>6, <1>9, StacksDiffer DEF InStep, RunningStacks, RefuseStacks, EndStacks
<1>11. StatesSound'
  BY <1>1, <1>4, <1>5, <1>6, StacksDiffer
     DEF StatesSound, CheckedStacks, RunningStacks, RefuseStacks, EndStacks, ClearStacks, Rpi!isRunning
<1>12. NoneWaits' /\ FilledSound' /\ OneJob' /\ fatal' = "none"
  BY <1>1, <1>3, <1>5, StaysQuiet DEF RpiInv, FilledSound, OneJob, Rpi!isRunning
<1>13. QED
  BY <1>8, <1>10, <1>11, <1>12 DEF RpiInv

LEMMA StopIpaSound ==
    ASSUME RpiInv, Rpi!StopIpa
    PROVE  RpiInv'
<1>1. /\ stack \in IpaStopping /\ stack' = Tail(stack) /\ calls = <<>> /\ events' = <<>>
      /\ UNCHANGED <<active, state, waiting, queued, stopped, req, requestQueue, input, done, calls, fatal>>
  BY OnTop DEF RpiInv, RpiType, Rpi!StopIpa, Rpi!queueVars, Rpi!deviceVars, Rpi!Return
<1>2. stack # <<"doQueue">> /\ stack # <<>>
  BY <1>1, StacksDiffer, OtherMoves
<1>3. waiting = <<>>
  BY <1>2, QuietStack DEF RpiInv
<1>4. /\ requestQueue = <<>> /\ queued = requestQueue /\ AllPending(requestQueue) /\ active /\ state = "Stopped"
      /\ input = <<>> /\ done = Rpi!NotDone
  BY <1>1, <1>2 DEF RpiInv, InStep, StatesSound, EndStacks, RpiType, Rpi!isRunning
<1>5. stack' \in Ending
  BY <1>1, OtherMoves
<1>6. RpiType'
  BY <1>1, <1>5 DEF RpiInv, RpiType, RpiStacks, EndStacks
<1>7. AllPending(requestQueue)'
  BY <1>1, <1>4 DEF AllPending
<1>8. InStep'
  BY <1>1, <1>4, <1>5, <1>7, StacksDiffer DEF InStep, RunningStacks, RefuseStacks, EndStacks
<1>9. StatesSound'
  BY <1>1, <1>4, <1>5, StacksDiffer
     DEF StatesSound, CheckedStacks, RunningStacks, RefuseStacks, EndStacks, ClearStacks, Rpi!isRunning
<1>10. NoneWaits' /\ FilledSound' /\ OneJob' /\ fatal' = "none"
  BY <1>1, <1>3, <1>4, StaysQuiet DEF RpiInv, FilledSound, OneJob, Rpi!isRunning
<1>11. QED
  BY <1>6, <1>8, <1>9, <1>10 DEF RpiInv

\* The end of stop(): queuedRequests_ is empty.
LEMMA StopWaitingSound ==
    ASSUME RpiInv, Rpi!StopWaiting
    PROVE  RpiInv'
<1>1. stack \in Ending
  BY OnTop DEF RpiInv, RpiType, Rpi!StopWaiting
<1>2. stack # <<"doQueue">> /\ stack # <<>>
  BY <1>1, StacksDiffer, OtherMoves
<1>3. waiting = <<>> /\ stopped = <<>>
  BY <1>2, QuietStack DEF RpiInv
<1>4. /\ requestQueue = <<>> /\ queued = requestQueue /\ AllPending(requestQueue) /\ state = "Stopped"
      /\ calls = <<>> /\ events = <<>> /\ input = <<>> /\ done = Rpi!NotDone
  BY <1>1 DEF RpiInv, InStep, StatesSound, EndStacks, RpiType, Rpi!isRunning
<1>5. /\ stack' = Tail(stack) /\ active' = FALSE /\ fatal' = "none"
      /\ UNCHANGED <<state, waiting, queued, stopped, req, requestQueue, input, done, calls, events>>
  BY <1>3, <1>4 DEF RpiInv, Rpi!StopWaiting, Rpi!deviceVars, Rpi!ipaVars, Rpi!Return
<1>6. stack' = <<>> /\ stack' \in Base
  BY <1>1, <1>5, OtherMoves
<1>7. RpiType'
  BY <1>5, <1>6 DEF RpiInv, RpiType, RpiStacks
<1>8. AllPending(requestQueue)'
  BY <1>4, <1>5 DEF AllPending
<1>9. InStep'
  BY <1>4, <1>5, <1>6, <1>8, StacksDiffer DEF InStep, RunningStacks, RefuseStacks, EndStacks
<1>10. StatesSound'
  BY <1>4, <1>5, <1>6, StacksDiffer
     DEF StatesSound, CheckedStacks, RunningStacks, RefuseStacks, EndStacks, ClearStacks, Rpi!isRunning
<1>11. NoneWaits' /\ FilledSound' /\ OneJob'
  BY <1>3, <1>4, <1>5, StaysQuiet DEF RpiInv, FilledSound, OneJob, Rpi!isRunning
<1>12. QED
  BY <1>5, <1>7, <1>9, <1>10, <1>11 DEF RpiInv

LEMMA RpiInitSound ==
    ASSUME Rpi!Init
    PROVE  RpiInv
<1>1. /\ active = FALSE /\ state = "Stopped" /\ stack = <<>> /\ waiting = <<>> /\ queued = <<>> /\ stopped = <<>>
      /\ req = [r \in Pair |-> Rpi!FreeRequest] /\ requestQueue = <<>> /\ input = <<>> /\ done = Rpi!NotDone
      /\ calls = <<>> /\ events = <<>> /\ fatal = "none"
  BY DEF Rpi!Init
<1>2. stack \in Base
  BY <1>1, OtherMoves
<1>3. RpiType
  <2>1. req \in [Pair -> RpiRequest]
    BY <1>1 DEF RpiRequest, Rpi!FreeRequest
  <2>2. requestQueue \in Seq(Pair) /\ queued \in Seq(Pair)
    BY <1>1
  <2>3. QED
    BY <1>1, <1>2, <2>1, <2>2, ToSetOfEmpty, NotDoneDomain DEF RpiType, RpiStates, RpiStacks
<1>4. InStep
  BY <1>1, <1>2, StacksDiffer, ToSetOfEmpty DEF InStep, AllPending, RunningStacks, RefuseStacks, EndStacks
<1>5. StatesSound
  BY <1>1, <1>2, StacksDiffer
     DEF StatesSound, CheckedStacks, RunningStacks, RefuseStacks, EndStacks, ClearStacks, Rpi!isRunning
<1>6. NoneWaits /\ FilledSound /\ OneJob
  BY <1>1 DEF NoneWaits, FilledSound, OneJob, Rpi!isRunning
<1>7. QED
  BY <1>1, <1>3, <1>4, <1>5, <1>6 DEF RpiInv

\* A step after which no device has refused a buffer in this session.
LEMMA RpiStep ==
    ASSUME RpiConstants, RpiInv, [Rpi!Next]_Rpi!vars, session' # "refused"
    PROVE  RpiInv'
<1>1. CASE UNCHANGED Rpi!vars
  <2>1. UNCHANGED <<active, state, stack, waiting, queued, stopped, req, requestQueue, input, done, calls, events, fatal>>
    BY <1>1 DEF Rpi!vars, Rpi!queueVars, Rpi!deviceVars, Rpi!ipaVars
  <2>2. DOMAIN done' = DoneStreams
    BY <2>1 DEF RpiInv, RpiType
  <2>3. QED
    BY <2>1, <2>2, DeviceKeeps, KeepsJob DEF RpiInv
<1>2. CASE Rpi!PipelineThread
  <2>1. CASE Rpi!DoQueueRequests
    BY <2>1, NothingQueued, OneQueued
  <2>2. CASE Rpi!CompleteRequest \/ Rpi!HandleState \/ Rpi!CheckRequestCompleted
    BY <2>2, CompleteSound, HandleStateSound, CheckSound
  <2>3. CASE Rpi!RequestCompleted \/ Rpi!TryRunPipeline
    BY <2>3, RequestCompletedSound, TryRunSound
  <2>4. CASE Rpi!UnicamImageDequeue \/ Rpi!UnicamEmbeddedDequeue \/ Rpi!IspInputDequeue \/ Rpi!IspOutputDequeue
    BY <2>4, OtherDequeueSound
  <2>5. CASE Rpi!IspStatsDequeue \/ Rpi!IpaEvent
    BY <2>5, StatsDequeueSound, LateEventSound, EventSound
  <2>6. CASE Rpi!ClearIncompleteRequests \/ Rpi!PopIncomplete \/ Rpi!StopIpa \/ Rpi!StopWaiting
    BY <2>6, ClearSound, PopSound, StopIpaSound, StopWaitingSound
  <2>7. QED
    BY <1>2, <2>1, <2>2, <2>3, <2>4, <2>5, <2>6, NoRefusal DEF Rpi!PipelineThread
<1>3. CASE Rpi!IpaThread \/ Rpi!CaptureFrame \/ Rpi!CaptureLost \/ Rpi!IspRun
  BY <1>3, IpaThreadSound, CaptureSound, IspRunSound
<1>4. ASSUME NEW r \in Pair, NEW ss \in (SUBSET {"image", "output"}) \ {{}}, Rpi!QueueRequest(r, ss)
      PROVE  RpiInv'
  BY <1>4, QueueRequestSound
<1>5. ASSUME NEW c \in Rpi!Configuration, Rpi!Configure(c)
      PROVE  RpiInv'
  BY <1>5, ConfigureSound
<1>6. CASE Rpi!Start \/ Rpi!StartFails \/ Rpi!Stop \/ Rpi!CameraTimeout
  BY <1>6, StartSound, StartFailsSound, HaltSound
<1>7. QED
  BY <1>1, <1>2, <1>3, <1>4, <1>5, <1>6 DEF Rpi!Next

\* The Cardinality that RpiPipeline extends.
LEMMA RpiCardinality ==
    ASSUME NEW S
    PROVE  Rpi!Cardinality(S) = Cardinality(S)
  BY DEF Rpi!Cardinality, Cardinality

(***************************************************************************)
(* Sessions in which a device refuses a buffer                             *)
(***************************************************************************)

\* What holds in any session, whatever the devices refuse in it: enough to show that
\* stop() leaves nothing to the next one.
AnyTypes ==
    /\ active \in BOOLEAN /\ state \in RpiStates /\ stack \in RpiStacks /\ config \in Rpi!Configuration
    /\ req \in [Pair -> RpiRequest] /\ queued \in Seq(Pair) /\ IsInjective(queued) /\ DOMAIN done = DoneStreams
InUse(r) == req[r].status # "Free"
AnyQueues ==
    /\ \A r \in ToSet(queued) : InUse(r)
    /\ stopped = <<>>
    /\ waiting = <<>> \/ (stack = <<"doQueue">> /\ \E r \in Pair : waiting = <<r>> /\ r \notin ToSet(queued) /\ InUse(r))
AnyStates ==
    /\ stack \in ClearStacks => state = IF stack \in Stopping THEN "Stopped" ELSE "Error"
    /\ stack \in EndStacks => state = "Stopped" /\ requestQueue = <<>>
    /\ ~active => state = "Stopped" /\ stack = <<>> /\ requestQueue = <<>> /\ queued = <<>>
    /\ ~active \/ stack \in Ending => calls = <<>> /\ events = <<>>
    /\ ~Rpi!isRunning => input = <<>> /\ done = Rpi!NotDone /\ bayerQueue = <<>> /\ embeddedQueue = <<>>
AnySession == AnyTypes /\ AnyQueues /\ AnyStates

\* The requests in use stay in use.
KeepsUse == req' \in [Pair -> RpiRequest] /\ \A r \in Pair : InUse(r) => InUse(r)'

\* A request that ends is still in use.
LEMMA EndedInUse ==
    ASSUME req \in [Pair -> RpiRequest], NEW r,
           \/ req' = req
           \/ req' = [req EXCEPT ![r].status = "Cancelled", ![r].pending = {}]
           \/ req' = [req EXCEPT ![r].status = "Complete"]
    PROVE  KeepsUse
<1>1. CASE req' = req
  BY <1>1 DEF KeepsUse, InUse
<1>2. CASE req' = [req EXCEPT ![r].status = "Cancelled", ![r].pending = {}]
  <2>1. DOMAIN req' = Pair /\ req' = [q \in Pair |-> req'[q]]
    BY <1>2
  <2>2. ASSUME NEW q \in Pair
        PROVE  req'[q] \in RpiRequest /\ (InUse(q) => InUse(q)')
    <3>1. CASE q # r
      BY <1>2, <3>1 DEF InUse
    <3>2. CASE q = r
      <4>1. req'[q] = [req[q] EXCEPT !.status = "Cancelled", !.pending = {}]
        BY <1>2, <3>2
      <4>2. req[q] \in RpiRequest
        OBVIOUS
      <4>3. QED
        BY <4>1, <4>2 DEF InUse, RpiRequest
    <3>3. QED
      BY <3>1, <3>2
  <2>3. req' \in [Pair -> RpiRequest]
    BY <2>1, <2>2
  <2>4. QED
    BY <2>2, <2>3 DEF KeepsUse
<1>3. CASE req' = [req EXCEPT ![r].status = "Complete"]
  BY <1>3 DEF KeepsUse, InUse, RpiRequest
<1>4. QED
  BY <1>1, <1>2, <1>3

LEMMA AnyKeeps ==
    ASSUME AnySession, KeepsUse, UNCHANGED <<active, waiting, queued, stopped>>, config' \in Rpi!Configuration,
           state' \in RpiStates, stack' \in RpiStacks, DOMAIN done' = DoneStreams, waiting = <<>> \/ stack' = stack
    PROVE  AnyTypes' /\ AnyQueues'
<1>1. ToSet(queued) \subseteq Pair
  BY MembersIn DEF AnySession, AnyTypes
<1>2. AnyTypes'
  BY DEF AnySession, AnyTypes, KeepsUse
<1>3. AnyQueues'
  BY <1>1 DEF AnySession, AnyQueues, KeepsUse
<1>4. QED
  BY <1>2, <1>3

\* A step of a session that is not stopping ...
LEMMA AnyRuns ==
    ASSUME AnySession, active, active' = active, stack' \in Base \cup RunningStacks \cup CheckedStacks \cup RefuseStacks,
           (Rpi!isRunning)' \/ UNCHANGED <<state, input, done, bayerQueue, embeddedQueue>>
    PROVE  AnyStates'
<1>1. stack' \notin ClearStacks /\ stack' \notin EndStacks /\ stack' \notin Ending
  BY StacksDiffer DEF RunningStacks, CheckedStacks, RefuseStacks, ClearStacks, EndStacks
<1>2. QED
  BY <1>1 DEF AnySession, AnyStates, Rpi!isRunning

\* ... and of one that is, or of a device.
LEMMA AnyRests ==
    ASSUME AnySession, UNCHANGED <<active, state, input, done, bayerQueue, embeddedQueue>>,
           stack' \in ClearStacks => stack \in ClearStacks /\ (stack' \in Stopping <=> stack \in Stopping),
           stack' \in EndStacks => state = "Stopped" /\ requestQueue' = <<>>,
           active \/ (UNCHANGED <<stack, requestQueue, queued, calls, events>>),
           stack' \in Ending => calls' = <<>> /\ events' = <<>>
    PROVE  AnyStates'
  BY DEF AnySession, AnyStates, Rpi!isRunning

\* A function in progress, with no request that waits.
LEMMA AnyActive ==
    ASSUME AnySession, stack # <<>>
    PROVE  active /\ (stack # <<"doQueue">> => waiting = <<>>)
  BY DEF AnySession, AnyTypes, AnyQueues, AnyStates

LEMMA AnyNothingQueued ==
    ASSUME AnySession, Rpi!DoQueueRequests, waiting = <<>>
    PROVE  AnySession'
<1>1. /\ stack = <<"doQueue">> \/ stack \in FinishQueue \cup GiveQueue \cup RefuseQueue
      /\ stack' = Tail(stack) /\ stack # <<>>
      /\ UNCHANGED <<config, active, state, waiting, queued, stopped, req, requestQueue, input, done, calls, events,
                     bayerQueue, embeddedQueue>>
  BY OnTop DEF AnySession, AnyTypes, Rpi!DoQueueRequests, Rpi!ipaVars, Rpi!frameVars, Rpi!Return, Rpi!At
<1>2. active
  BY <1>1, AnyActive
<1>3. /\ stack = <<"doQueue">> => stack' \in Base
      /\ stack \in FinishQueue => stack' \in Finished
      /\ stack \in GiveQueue => stack' \in Given /\ (stack' \in Stopping <=> stack \in Stopping)
      /\ stack \in RefuseQueue => stack' \in Base
  <2>1. /\ Tail(<<"doQueue">>) = <<>> /\ <<>> \in Base /\ <<"doQueue">> \in Base
        /\ stack \in RefuseQueue => Tail(stack) = <<"doQueue">>
    BY OtherMoves
  <2>2. /\ stack \in FinishQueue => stack' \in Finished
        /\ stack \in GiveQueue => stack' \in Given /\ (stack' \in Stopping <=> stack \in Stopping)
    BY <1>1, RunningMoves, ClearingMoves
  <2>3. QED
    BY <1>1, <2>1, <2>2, Zenon
<1>4. AnyTypes' /\ AnyQueues'
  <2>1. stack' \in RpiStacks
    BY <1>1, <1>3 DEF RpiStacks, CheckedStacks, ClearStacks
  <2>2. KeepsUse
    BY <1>1 DEF KeepsUse, InUse, AnySession, AnyTypes
  <2>3. QED
    BY <1>1, <2>1, <2>2, AnyKeeps DEF AnySession, AnyTypes
<1>5. CASE stack \in GiveQueue
  <2>1. stack' \notin EndStacks /\ stack \in ClearStacks
    BY <1>3, <1>5, StacksDiffer DEF EndStacks, ClearStacks
  <2>2. AnyStates'
    BY <1>1, <1>2, <1>3, <1>5, <2>1, AnyRests DEF EndStacks
  <2>3. QED
    BY <1>4, <2>2 DEF AnySession
<1>6. CASE stack \notin GiveQueue
  <2>1. AnyStates'
    BY <1>1, <1>2, <1>3, <1>6, AnyRuns DEF CheckedStacks
  <2>2. QED
    BY <1>4, <2>1 DEF AnySession
<1>7. QED
  BY <1>5, <1>6

\* doQueueRequests() with a request, which may be refused.
LEMMA AnyOneQueued ==
    ASSUME RpiConstants, AnySession, waiting # <<>>, Rpi!DoQueueRequests \/ \E s : Rpi!QueueRefused(s)
    PROVE  AnySession'
<1>1. PICK r \in Pair : waiting = <<r>> /\ r \notin ToSet(queued) /\ InUse(r)
  BY DEF AnySession, AnyQueues
<1>2. stack = <<"doQueue">> /\ stack \in Base /\ stack # <<>> /\ stopped = <<>>
  BY OtherMoves DEF AnySession, AnyQueues
<1>3. active /\ queued \in Seq(Pair) /\ IsInjective(queued) /\ ToSet(queued) \subseteq Pair
  BY <1>2, AnyActive, MembersIn DEF AnySession, AnyTypes
<1>4. Len(queued) # MaxQueued
  BY <1>1, <1>3, RoomInQueue
<1>5. Head(waiting) = r /\ Tail(waiting) = <<>>
  BY <1>1
<1>6. /\ waiting' = <<>> /\ queued' = Append(queued, r)
      /\ UNCHANGED <<config, active, state, stopped, input, done, bayerQueue, embeddedQueue>>
      /\ req' = req \/ req' = [req EXCEPT ![r].status = "Cancelled", ![r].pending = {}]
      /\ stack' = <<"handleState">> \o stack \/ stack' = <<"complete">> \o stack
  <2>1. CASE Rpi!DoQueueRequests
    BY <1>4, <1>5, <2>1 DEF Rpi!DoQueueRequests, Rpi!Call, Rpi!frameVars
  <2>2. ASSUME NEW s, Rpi!QueueRefused(s)
        PROVE  /\ waiting' = <<>> /\ queued' = Append(queued, r)
               /\ UNCHANGED <<config, active, state, stopped, input, done, bayerQueue, embeddedQueue>>
               /\ req' = [req EXCEPT ![r].status = "Cancelled", ![r].pending = {}]
               /\ stack' = <<"complete">> \o stack
    BY <1>5, <2>2 DEF Rpi!QueueRefused, Rpi!Call, Rpi!frameVars
  <2>3. QED
    BY <2>1, <2>2
<1>7. stack' \in Handling \cup Refusing
  BY <1>2, <1>6, OtherMoves
<1>8. KeepsUse /\ InUse(r)'
  <2>1. KeepsUse
    BY <1>6, EndedInUse DEF AnySession, AnyTypes
  <2>2. QED
    BY <1>1, <2>1 DEF KeepsUse
<1>9. queued' \in Seq(Pair) /\ IsInjective(queued') /\ ToSet(queued') = ToSet(queued) \cup {r}
  <2>1. ToSet(queued') = ToSet(queued) \cup {r} /\ IsInjective(queued')
    BY <1>1, <1>3, <1>6, ToSetOfAppend, InjectiveAppend
  <2>2. queued' \in Seq(Pair)
    BY <1>3, <1>6
  <2>3. QED
    BY <2>1, <2>2
<1>10. AnyTypes'
  BY <1>6, <1>7, <1>8, <1>9 DEF AnySession, AnyTypes, KeepsUse, RpiStacks, RunningStacks, RefuseStacks
<1>11. AnyQueues'
  BY <1>2, <1>3, <1>6, <1>8, <1>9 DEF AnySession, AnyQueues, KeepsUse
<1>12. AnyStates'
  BY <1>3, <1>6, <1>7, AnyRuns DEF RunningStacks, RefuseStacks
<1>13. QED
  BY <1>10, <1>11, <1>12 DEF AnySession

LEMMA AnyComplete ==
    ASSUME AnySession, Rpi!CompleteRequest
    PROVE  AnySession'
<1>1. /\ stack \in Finishing \cup Giving \cup Refusing /\ stack # <<>>
      /\ UNCHANGED <<config, active, state, waiting, stopped, requestQueue, input, done, calls, events,
                     bayerQueue, embeddedQueue>>
  BY OnTop DEF AnySession, AnyTypes, Rpi!CompleteRequest, Rpi!ipaVars, Rpi!deviceVars, Rpi!frameVars, Rpi!At
<1>2. stack # <<"doQueue">>
  BY <1>1, StacksDiffer, OtherMoves
<1>3. active /\ waiting = <<>>
  BY <1>1, <1>2, AnyActive
<1>4. CASE queued # <<>> /\ req[Head(queued)].status # "Pending"
  <2>1. PICK h : h = Head(queued)
    OBVIOUS
  <2>2. queued' = Tail(queued) /\ stack' = stack /\ req' = [req EXCEPT ![h] = Rpi!FreeRequest]
    BY <1>4, <2>1 DEF Rpi!CompleteRequest
  <2>3. /\ queued' \in Seq(Pair) /\ IsInjective(queued') /\ ToSet(queued') = ToSet(queued) \ {h}
    BY <1>4, <2>1, <2>2, ToSetOfTail, HeadInToSet DEF AnySession, AnyTypes
  <2>4. ToSet(queued) \subseteq Pair
    BY MembersIn DEF AnySession, AnyTypes
  <2>5. req' \in [Pair -> RpiRequest] /\ \A r \in Pair \ {h} : req'[r] = req[r]
    BY <2>2 DEF AnySession, AnyTypes, RpiRequest, Rpi!FreeRequest
  <2>6. AnyTypes'
    BY <1>1, <2>2, <2>3, <2>5 DEF AnySession, AnyTypes
  <2>7. AnyQueues'
    BY <1>1, <1>3, <2>3, <2>4, <2>5 DEF AnySession, AnyQueues, InUse
  <2>8. AnyStates'
    <3>1. stack' \notin EndStacks
      BY <1>1, <2>2, StacksDiffer DEF EndStacks
    <3>2. QED
      BY <1>1, <1>3, <2>2, <3>1, AnyRests DEF EndStacks
  <2>9. QED
    BY <2>6, <2>7, <2>8 DEF AnySession
<1>5. CASE ~(queued # <<>> /\ req[Head(queued)].status # "Pending")
  <2>1. stack' = <<"doQueue">> \o Tail(stack) /\ UNCHANGED <<req, queued>>
    BY <1>5 DEF Rpi!CompleteRequest
  <2>2. /\ stack \in Finishing => stack' \in FinishQueue
        /\ stack \in Giving => stack' \in GiveQueue /\ (stack' \in Stopping <=> stack \in Stopping)
        /\ stack \in Refusing => stack' \in RefuseQueue
    BY <2>1, RunningMoves, ClearingMoves, OtherMoves
  <2>3. AnyTypes' /\ AnyQueues'
    <3>1. stack' \in RpiStacks
      BY <1>1, <2>2 DEF RpiStacks, CheckedStacks, ClearStacks, RefuseStacks
    <3>2. KeepsUse
      BY <2>1 DEF KeepsUse, InUse, AnySession, AnyTypes
    <3>3. QED
      BY <1>1, <1>3, <2>1, <3>1, <3>2, AnyKeeps DEF AnySession, AnyTypes
  <2>4. CASE stack \in Giving
    <3>1. stack' \notin EndStacks /\ stack \in ClearStacks
      BY <2>2, <2>4, StacksDiffer DEF EndStacks, ClearStacks
    <3>2. AnyStates'
      BY <1>1, <1>3, <2>2, <2>4, <3>1, AnyRests DEF EndStacks
    <3>3. QED
      BY <2>3, <3>2 DEF AnySession
  <2>5. CASE stack \notin Giving
    <3>1. AnyStates'
      BY <1>1, <1>3, <2>2, <2>5, AnyRuns DEF CheckedStacks, RefuseStacks
    <3>2. QED
      BY <2>3, <3>1 DEF AnySession
  <2>6. QED
    BY <2>4, <2>5
<1>6. QED
  BY <1>4, <1>5

\* handleState(), checkRequestCompleted() and tryRunPipeline()
LEMMA AnyHandles ==
    ASSUME AnySession,
           Rpi!HandleState \/ Rpi!CheckRequestCompleted \/ Rpi!RequestCompleted \/ Rpi!TryRunPipeline
    PROVE  AnySession'
<1>1. /\ stack \in Handling \cup Checking \cup Finished \cup Trying /\ stack # <<>>
      /\ stack' \in Base \cup RunningStacks \cup CheckedStacks
      /\ UNCHANGED <<config, active, waiting, queued, stopped, done, input>>
  <2>1. stack \in RpiStacks
    BY DEF AnySession, AnyTypes
  <2>2. CASE Rpi!HandleState
    <3>1. /\ stack \in Handling /\ stack # <<>>
          /\ stack' = (CASE state = "IpaComplete" -> <<"checkRequest", "tryRun">>
                         [] state = "Idle" -> <<"tryRun">>
                         [] OTHER -> <<>>) \o Tail(stack)
          /\ UNCHANGED <<config, active, waiting, queued, stopped, done, input>>
      BY <2>1, <2>2, OnTop DEF Rpi!HandleState, Rpi!queueVars, Rpi!deviceVars, Rpi!At
    <3>2. /\ state = "IpaComplete" => stack' \in Checking
          /\ state = "Idle" => stack' \in Trying
          /\ state \notin {"IpaComplete", "Idle"} => stack' \in Base
      BY <3>1, RunningMoves
    <3>3. QED
      BY <3>1, <3>2 DEF RunningStacks, CheckedStacks
  <2>3. CASE Rpi!CheckRequestCompleted
    <3>1. /\ stack \in Checking /\ stack # <<>>
          /\ stack' = Tail(stack) \/ stack' = <<"complete", "completed">> \o Tail(stack)
          /\ UNCHANGED <<config, active, waiting, queued, stopped, done, input>>
      BY <2>1, <2>3, OnTop DEF Rpi!CheckRequestCompleted, Rpi!queueVars, Rpi!deviceVars, Rpi!At, Rpi!Return
    <3>2. stack' \in Trying \cup Finishing
      BY <3>1, RunningMoves
    <3>3. QED
      BY <3>1, <3>2 DEF RunningStacks, CheckedStacks
  <2>4. CASE Rpi!RequestCompleted
    <3>1. /\ stack \in Finished /\ stack # <<>> /\ stack' = Tail(stack)
          /\ UNCHANGED <<config, active, waiting, queued, stopped, done, input>>
      BY <2>1, <2>4, OnTop DEF Rpi!RequestCompleted, Rpi!queueVars, Rpi!deviceVars, Rpi!At, Rpi!Return
    <3>2. stack' \in Trying
      BY <3>1, RunningMoves
    <3>3. QED
      BY <3>1, <3>2 DEF RunningStacks
  <2>5. CASE Rpi!TryRunPipeline
    <3>1. /\ stack \in Trying /\ stack # <<>> /\ stack' = Tail(stack)
          /\ UNCHANGED <<config, active, waiting, queued, stopped, done, input>>
      BY <2>1, <2>5, OnTop DEF Rpi!TryRunPipeline, Rpi!queueVars, Rpi!At, Rpi!Return
    <3>2. stack' \in Base
      BY <3>1, RunningMoves
    <3>3. QED
      BY <3>1, <3>2
  <2>6. QED
    BY <2>2, <2>3, <2>4, <2>5
<1>2. stack # <<"doQueue">>
  BY <1>1, StacksDiffer, OtherMoves
<1>3. active /\ waiting = <<>>
  BY <1>1, <1>2, AnyActive
<1>4. /\ KeepsUse /\ state' \in RpiStates
      /\ (Rpi!isRunning)' \/ UNCHANGED <<state, bayerQueue, embeddedQueue>>
  <2>1. CASE Rpi!HandleState
    BY <2>1 DEF Rpi!HandleState, Rpi!frameVars, KeepsUse, InUse, AnySession, AnyTypes
  <2>2. CASE Rpi!CheckRequestCompleted
    <3>1. UNCHANGED <<state, bayerQueue, embeddedQueue>>
      BY <2>2 DEF Rpi!CheckRequestCompleted, Rpi!frameVars
    <3>2. req' = req \/ \E r : req' = [req EXCEPT ![r].status = "Complete"]
      BY <2>2 DEF Rpi!CheckRequestCompleted
    <3>3. KeepsUse
      BY <3>2, EndedInUse DEF AnySession, AnyTypes
    <3>4. QED
      BY <3>1, <3>3 DEF AnySession, AnyTypes
  <2>3. CASE Rpi!RequestCompleted
    BY <2>3 DEF Rpi!RequestCompleted, Rpi!isRunning, RpiStates, KeepsUse, InUse, AnySession, AnyTypes
  <2>4. CASE Rpi!TryRunPipeline
    <3>1. CASE UNCHANGED <<state, req, bayerQueue, embeddedQueue>>
      BY <3>1 DEF KeepsUse, InUse, AnySession, AnyTypes
    <3>2. CASE state = "Idle" /\ state' = state /\ req' = req
      BY <3>2 DEF KeepsUse, InUse, AnySession, AnyTypes, Rpi!isRunning
    <3>3. ASSUME NEW r, NEW b, NEW e, Rpi!RunPipeline(r, b, e)
          PROVE  KeepsUse /\ state' \in RpiStates /\ (Rpi!isRunning)'
      <4>1. state' = "Busy" /\ req' = [req EXCEPT ![r].filled = TRUE]
        BY <3>3 DEF Rpi!RunPipeline
      <4>2. KeepsUse
        BY <4>1 DEF KeepsUse, InUse, AnySession, AnyTypes, RpiRequest
      <4>3. QED
        BY <4>1, <4>2 DEF RpiStates, Rpi!isRunning
    <3>4. \/ UNCHANGED <<state, req, bayerQueue, embeddedQueue>>
          \/ state = "Idle" /\ state' = state /\ req' = req
          \/ \E r, b, e : Rpi!RunPipeline(r, b, e)
      <4>1. CASE state # "Idle" \/ requestQueue = <<>> \/ bayerQueue = <<>> \/ (config.embedded /\ embeddedQueue = <<>>)
        BY <2>4, <4>1 DEF Rpi!TryRunPipeline
      <4>2. CASE ~(state # "Idle" \/ requestQueue = <<>> \/ bayerQueue = <<>> \/ (config.embedded /\ embeddedQueue = <<>>))
        BY <2>4, <4>2, Zenon DEF Rpi!TryRunPipeline
      <4>3. QED
        BY <4>1, <4>2
    <3>5. QED
      BY <3>1, <3>2, <3>3, <3>4
  <2>5. QED
    BY <2>1, <2>2, <2>3, <2>4
<1>5. stack' \in RpiStacks
  BY <1>1 DEF RpiStacks
<1>6. AnyTypes' /\ AnyQueues'
  BY <1>1, <1>3, <1>4, <1>5, AnyKeeps DEF AnySession, AnyTypes
<1>7. AnyStates'
  BY <1>1, <1>3, <1>4, AnyRuns
<1>8. QED
  BY <1>6, <1>7 DEF AnySession

\* handleStreamBuffer()
LEMMA StreamBufferKeepsUse ==
    ASSUME AnySession, NEW s, NEW b, Rpi!handleStreamBuffer(s, b)
    PROVE  KeepsUse
<1>1. req' = req \/ \E r : req' = [req EXCEPT ![r].pending = @ \ {s}]
  BY DEF Rpi!handleStreamBuffer
<1>2. QED
  BY <1>1 DEF KeepsUse, InUse, AnySession, AnyTypes, RpiRequest

\* The handlers of the devices' buffers and of the IPA's signals.
LEMMA AnyEvents ==
    ASSUME AnySession,
           \/ Rpi!UnicamImageDequeue \/ Rpi!UnicamEmbeddedDequeue \/ Rpi!IspInputDequeue \/ Rpi!IspOutputDequeue
           \/ Rpi!IspStatsDequeue \/ Rpi!IpaEvent \/ Rpi!IspRefuses
    PROVE  AnySession'
<1>1. stack \in RpiStacks /\ KeepsUse = KeepsUse
  BY DEF AnySession, AnyTypes
<1>2. ASSUME NEW s \in DoneStreams, Rpi!Dequeue(s)
      PROVE  /\ stack = <<>> /\ stack' = <<"handleState">> \o stack /\ Rpi!isRunning /\ DOMAIN done' = DoneStreams
             /\ UNCHANGED <<config, active, state, waiting, queued, stopped>>
  <2>1. /\ stack = <<>> /\ stack' = <<"handleState">> \o stack /\ done[s] # <<>> /\ done' = [done EXCEPT ![s] = Tail(@)]
        /\ UNCHANGED <<config, active, state, waiting, queued, stopped>>
    BY <1>2 DEF Rpi!Dequeue, Rpi!Loop, Rpi!Call, Rpi!queueVars
  <2>2. Rpi!NotDone[s] = <<>>
    BY DEF Rpi!NotDone, DoneStreams
  <2>3. QED
    BY <2>1, <2>2 DEF AnySession, AnyTypes, AnyStates
<1>3. "image" \in DoneStreams /\ "embedded" \in DoneStreams /\ "input" \in DoneStreams /\ "output" \in DoneStreams /\ "stats" \in DoneStreams
  BY DEF DoneStreams
<1>4. req' = req => KeepsUse
  BY DEF KeepsUse, InUse, AnySession, AnyTypes
<1>5. /\ stack = <<>> /\ stack' \in {<<>>, <<"handleState">> \o stack} /\ DOMAIN done' = DoneStreams /\ KeepsUse /\ active
      /\ UNCHANGED <<config, active, waiting, queued, stopped>>
      /\ state' = state \/ state' = "IpaComplete"
      /\ Rpi!isRunning \/ UNCHANGED <<state, input, done, bayerQueue, embeddedQueue>>
  <2>1. CASE Rpi!UnicamImageDequeue
    <3>1. Rpi!Dequeue("image") /\ req' = req
      BY <2>1 DEF Rpi!UnicamImageDequeue
    <3>2. QED
      BY <1>2, <1>3, <1>4, <3>1 DEF AnySession, AnyTypes, AnyStates, Rpi!isRunning
  <2>2. CASE Rpi!UnicamEmbeddedDequeue
    <3>1. Rpi!Dequeue("embedded") /\ req' = req
      BY <2>2 DEF Rpi!UnicamEmbeddedDequeue
    <3>2. QED
      BY <1>2, <1>3, <1>4, <3>1 DEF AnySession, AnyTypes, AnyStates, Rpi!isRunning
  <2>3. CASE Rpi!IspInputDequeue
    <3>1. Rpi!Dequeue("input") /\ KeepsUse
      BY <2>3, StreamBufferKeepsUse DEF Rpi!IspInputDequeue
    <3>2. QED
      BY <1>2, <1>3, <3>1 DEF AnySession, AnyTypes, AnyStates, Rpi!isRunning
  <2>4. CASE Rpi!IspOutputDequeue
    <3>1. Rpi!Dequeue("output") /\ KeepsUse
      BY <2>4, StreamBufferKeepsUse DEF Rpi!IspOutputDequeue
    <3>2. QED
      BY <1>2, <1>3, <3>1 DEF AnySession, AnyTypes, AnyStates, Rpi!isRunning
  <2>5. CASE Rpi!IspStatsDequeue
    <3>1. Rpi!Dequeue("stats") /\ req' = req
      BY <2>5 DEF Rpi!IspStatsDequeue
    <3>2. QED
      BY <1>2, <1>3, <1>4, <3>1 DEF AnySession, AnyTypes, AnyStates, Rpi!isRunning
  <2>6. CASE Rpi!IpaEvent
    <3>1. /\ stack = <<>> /\ events # <<>>
          /\ UNCHANGED <<config, active, waiting, queued, stopped, done, bayerQueue, embeddedQueue>>
      BY <2>6 DEF Rpi!IpaEvent, Rpi!Loop, Rpi!queueVars, Rpi!frameVars
    <3>2. active /\ DOMAIN done' = DoneStreams
      BY <3>1 DEF AnySession, AnyTypes, AnyStates
    <3>3. CASE ~Rpi!isRunning
      <4>1. UNCHANGED <<state, stack, req, input>>
        BY <2>6, <3>3 DEF Rpi!IpaEvent
      <4>2. QED
        BY <1>4, <3>1, <3>2, <4>1
    <3>4. CASE Rpi!isRunning
      <4>1. /\ stack' = stack \/ stack' = <<"handleState">> \o stack
            /\ state' = state \/ state' = "IpaComplete"
            /\ req' = req \/ \E s, b : Rpi!handleStreamBuffer(s, b)
        BY <2>6, <3>4, Zenon DEF Rpi!IpaEvent, Rpi!Call
      <4>2. KeepsUse
        BY <1>4, <4>1, StreamBufferKeepsUse
      <4>3. QED
        BY <3>1, <3>2, <3>4, <4>1, <4>2
    <3>5. QED
      BY <3>3, <3>4
  <2>7. CASE Rpi!IspRefuses
    <3>1. /\ stack = <<>> /\ stack' = <<"handleState">> \o stack /\ Rpi!isRunning
          /\ UNCHANGED <<config, active, state, waiting, queued, stopped, done, req>>
      BY <2>7 DEF Rpi!IspRefuses, Rpi!Loop, Rpi!queueVars, Rpi!Call
    <3>2. active /\ DOMAIN done' = DoneStreams
      BY <3>1 DEF AnySession, AnyTypes, AnyStates, Rpi!isRunning
    <3>3. QED
      BY <1>4, <3>1, <3>2
  <2>8. QED
    BY <2>1, <2>2, <2>3, <2>4, <2>5, <2>6, <2>7
<1>6. stack # <<"doQueue">> /\ stack' \in Base \cup RunningStacks
  BY <1>5, OtherMoves DEF RunningStacks
<1>7. waiting = <<>>
  BY <1>6 DEF AnySession, AnyQueues
<1>8. stack' \in RpiStacks /\ state' \in RpiStates /\ config' \in Rpi!Configuration
  BY <1>5, <1>6 DEF RpiStacks, RpiStates, AnySession, AnyTypes
<1>9. AnyTypes' /\ AnyQueues'
  BY <1>5, <1>7, <1>8, AnyKeeps
<1>10. (Rpi!isRunning)' \/ UNCHANGED <<state, input, done, bayerQueue, embeddedQueue>>
  BY <1>5 DEF Rpi!isRunning
<1>11. AnyStates'
  BY <1>5, <1>6, <1>10, AnyRuns
<1>12. QED
  BY <1>9, <1>11 DEF AnySession

\* The devices and the thread of the IPA.
LEMMA AnyDevices ==
    ASSUME AnySession, Rpi!IpaThread \/ Rpi!CaptureFrame \/ Rpi!CaptureLost \/ Rpi!IspRun
    PROVE  AnySession'
<1>1. /\ UNCHANGED <<config, active, state, stack, waiting, queued, stopped, req, requestQueue, bayerQueue, embeddedQueue>>
      /\ DOMAIN done' = DoneStreams
      /\ UNCHANGED <<input, done>> \/ Rpi!isRunning
      /\ UNCHANGED <<calls, events>> \/ calls # <<>>
  <2>1. CASE Rpi!IpaThread
    BY <2>1 DEF Rpi!IpaThread, Rpi!queueVars, Rpi!frameVars, Rpi!deviceVars, AnySession, AnyTypes
  <2>2. CASE Rpi!CaptureFrame \/ Rpi!CaptureLost
    BY <2>2 DEF Rpi!CaptureFrame, Rpi!CaptureLost, Rpi!Capture, Rpi!queueVars, Rpi!frameVars, Rpi!ipaVars, AnySession, AnyTypes
  <2>3. CASE Rpi!IspRun
    BY <2>3 DEF Rpi!IspRun, Rpi!queueVars, Rpi!frameVars, Rpi!ipaVars, AnySession, AnyTypes
  <2>4. QED
    BY <2>1, <2>2, <2>3
<1>2. KeepsUse
  BY <1>1 DEF KeepsUse, InUse, AnySession, AnyTypes
<1>3. AnyTypes' /\ AnyQueues'
  BY <1>1, <1>2, AnyKeeps DEF AnySession, AnyTypes
<1>4. AnyStates'
  BY <1>1 DEF AnySession, AnyStates, Rpi!isRunning
<1>5. QED
  BY <1>3, <1>4 DEF AnySession

\* stop() gives the requests back, and leaves an IPA without calls ...
LEMMA AnyClear ==
    ASSUME AnySession, Rpi!ClearIncompleteRequests \/ Rpi!PopIncomplete \/ Rpi!StopIpa
    PROVE  AnySession'
<1>1. stack \in RpiStacks
  BY DEF AnySession, AnyTypes
<1>2. CASE Rpi!ClearIncompleteRequests
  <2>1. /\ stack \in Clearing /\ stack # <<>>
        /\ UNCHANGED <<config, active, state, waiting, queued, stopped, requestQueue, input, done, calls, events,
                       bayerQueue, embeddedQueue>>
    BY <1>1, <1>2, OnTop DEF Rpi!ClearIncompleteRequests, Rpi!queueVars, Rpi!frameVars, Rpi!deviceVars, Rpi!ipaVars, Rpi!At
  <2>2. /\ \/ requestQueue = <<>> /\ stack' = Tail(stack) /\ req' = req
           \/ /\ stack' = <<"complete", "pop">> \o stack
              /\ \E r : req' = [req EXCEPT ![r].status = "Cancelled", ![r].pending = {}]
    BY <1>2 DEF Rpi!ClearIncompleteRequests, Rpi!Return
  <2>3. KeepsUse
    BY <2>2 DEF KeepsUse, InUse, AnySession, AnyTypes, RpiRequest
  <2>4. /\ stack' = Tail(stack) => IF stack \in Stopping THEN stack' \in IpaStopping ELSE stack' \in Base
        /\ stack' = <<"complete", "pop">> \o stack => stack' \in Giving /\ (stack' \in Stopping <=> stack \in Stopping)
    <3>1. <<>> \in Base
      BY OtherMoves
    <3>2. stack' = Tail(stack) => IF stack \in Stopping THEN stack' \in IpaStopping ELSE stack' \in Base
      BY <2>1, <3>1, ClearingMoves, Zenon
    <3>3. stack' = <<"complete", "pop">> \o stack => stack' \in Giving /\ (stack' \in Stopping <=> stack \in Stopping)
      BY <2>1, ClearingMoves, Zenon
    <3>4. QED
      BY <3>2, <3>3
  <2>5. stack # <<"doQueue">> /\ stack \in ClearStacks
    BY <2>1, StacksDiffer, OtherMoves DEF ClearStacks
  <2>6. active /\ waiting = <<>> /\ state = IF stack \in Stopping THEN "Stopped" ELSE "Error"
    BY <2>1, <2>5, AnyActive DEF AnySession, AnyStates
  <2>7. AnyTypes' /\ AnyQueues'
    <3>1. stack' \in RpiStacks
      BY <2>2, <2>4 DEF RpiStacks, EndStacks, ClearStacks
    <3>2. QED
      BY <2>1, <2>3, <2>6, <3>1, AnyKeeps DEF AnySession, AnyTypes
  <2>8. AnyStates'
    <3>1. stack' \notin Ending
      BY <2>2, <2>4, StacksDiffer
    <3>2. stack' \in EndStacks => state = "Stopped" /\ requestQueue' = <<>>
      <4>1. stack' \in Base \cup Giving => stack' \notin EndStacks
        BY StacksDiffer DEF EndStacks
      <4>2. QED
        BY <2>1, <2>2, <2>4, <2>6, <4>1
    <3>3. stack' \in ClearStacks => stack \in ClearStacks /\ (stack' \in Stopping <=> stack \in Stopping)
      <4>1. stack' \in Base \cup IpaStopping => stack' \notin ClearStacks
        BY StacksDiffer DEF ClearStacks
      <4>2. QED
        BY <2>2, <2>4, <2>5, <4>1
    <3>4. QED
      BY <2>1, <2>6, <3>1, <3>2, <3>3, AnyRests
  <2>9. QED
    BY <2>7, <2>8 DEF AnySession
<1>3. CASE Rpi!PopIncomplete
  <2>1. /\ stack \in Given /\ stack # <<>> /\ stack' = Tail(stack)
        /\ UNCHANGED <<config, active, state, waiting, queued, stopped, req, input, done, calls, events,
                       bayerQueue, embeddedQueue>>
    BY <1>1, <1>3, OnTop DEF Rpi!PopIncomplete, Rpi!queueVars, Rpi!frameVars, Rpi!deviceVars, Rpi!ipaVars, Rpi!At, Rpi!Return
  <2>2. stack' \in Clearing /\ (stack' \in Stopping <=> stack \in Stopping) /\ stack \in ClearStacks
    BY <2>1, ClearingMoves DEF ClearStacks
  <2>3. stack # <<"doQueue">> /\ stack' \notin EndStacks
    BY <2>1, <2>2, StacksDiffer, OtherMoves DEF EndStacks
  <2>4. active /\ waiting = <<>>
    BY <2>1, <2>3, AnyActive
  <2>5. KeepsUse /\ stack' \in RpiStacks
    BY <2>1, <2>2 DEF KeepsUse, InUse, AnySession, AnyTypes, RpiStacks, ClearStacks
  <2>6. AnyTypes' /\ AnyQueues'
    BY <2>1, <2>4, <2>5, AnyKeeps DEF AnySession, AnyTypes
  <2>7. AnyStates'
    BY <2>1, <2>2, <2>3, <2>4, AnyRests DEF EndStacks
  <2>8. QED
    BY <2>6, <2>7 DEF AnySession
<1>4. CASE Rpi!StopIpa
  <2>1. /\ stack \in IpaStopping /\ stack # <<>> /\ stack' = Tail(stack) /\ calls = <<>> /\ events' = <<>>
        /\ UNCHANGED <<config, active, state, waiting, queued, stopped, req, requestQueue, input, done, calls,
                       bayerQueue, embeddedQueue>>
    BY <1>1, <1>4, OnTop DEF Rpi!StopIpa, Rpi!queueVars, Rpi!frameVars, Rpi!deviceVars, Rpi!At, Rpi!Return
  <2>2. stack' \in Ending
    BY <2>1, OtherMoves
  <2>3. stack # <<"doQueue">> /\ stack' \notin ClearStacks
    BY <2>1, <2>2, StacksDiffer, OtherMoves DEF ClearStacks
  <2>4. active /\ waiting = <<>>
    BY <2>1, <2>3, AnyActive
  <2>5. KeepsUse /\ stack' \in RpiStacks
    BY <2>1, <2>2 DEF KeepsUse, InUse, AnySession, AnyTypes, RpiStacks, EndStacks
  <2>6. AnyTypes' /\ AnyQueues'
    BY <2>1, <2>4, <2>5, AnyKeeps DEF AnySession, AnyTypes
  <2>7. state = "Stopped" /\ requestQueue = <<>>
    BY <2>1 DEF AnySession, AnyStates, EndStacks
  <2>8. AnyStates'
    BY <2>1, <2>2, <2>3, <2>4, <2>7, AnyRests
  <2>9. QED
    BY <2>6, <2>8 DEF AnySession
<1>5. QED
  BY <1>2, <1>3, <1>4

\* ... and asserts at its end that no request is left.
LEMMA AnyStopWaiting ==
    ASSUME AnySession, Rpi!StopWaiting, fatal' = "none"
    PROVE  AnySession'
<1>1. stack \in Ending /\ stack # <<>>
  BY OnTop DEF AnySession, AnyTypes, Rpi!StopWaiting, Rpi!At
<1>2. stopped = <<>>
  BY DEF AnySession, AnyQueues
<1>3. /\ active' = FALSE /\ stack' = Tail(stack) /\ queued = <<>>
      /\ UNCHANGED <<config, state, waiting, queued, stopped, req, requestQueue, input, done, calls, events,
                     bayerQueue, embeddedQueue>>
  BY <1>2 DEF Rpi!StopWaiting, Rpi!Return, Rpi!frameVars, Rpi!deviceVars, Rpi!ipaVars
<1>4. stack' = <<>> /\ stack' \in Base /\ stack # <<"doQueue">>
  BY <1>1, <1>3, OtherMoves, StacksDiffer
<1>5. waiting = <<>>
  BY <1>4 DEF AnySession, AnyQueues
<1>6. state = "Stopped" /\ requestQueue = <<>> /\ calls = <<>> /\ events = <<>>
  BY <1>1 DEF AnySession, AnyStates, EndStacks
<1>7. stack' \notin ClearStacks /\ stack' \notin EndStacks
  BY <1>4, StacksDiffer DEF ClearStacks, EndStacks
<1>8. AnyTypes'
  BY <1>3, <1>4 DEF AnySession, AnyTypes, RpiStacks
<1>9. AnyQueues'
  BY <1>3, <1>5 DEF AnySession, AnyQueues, InUse
<1>10. AnyStates'
  BY <1>3, <1>4, <1>6, <1>7 DEF AnySession, AnyStates, Rpi!isRunning
<1>11. QED
  BY <1>8, <1>9, <1>10 DEF AnySession

LEMMA AnyQueueRequest ==
    ASSUME AnySession, NEW r \in Pair, NEW ss \in SUBSET {"image", "output"}, Rpi!QueueRequest(r, ss)
    PROVE  AnySession'
<1>1. /\ active /\ stack = <<>> /\ req[r].status = "Free"
      /\ req' = [req EXCEPT ![r] = [status |-> "Pending", streams |-> ss, pending |-> ss, filled |-> FALSE]]
      /\ waiting' = Append(waiting, r) /\ stack' = <<"doQueue">>
      /\ UNCHANGED <<config, active, state, queued, stopped, input, done, bayerQueue, embeddedQueue>>
  BY DEF Rpi!QueueRequest, Rpi!Loop, Rpi!deviceVars, Rpi!frameVars
<1>2. stack' \in Base /\ stack # <<"doQueue">>
  BY <1>1, OtherMoves
<1>3. waiting = <<>> /\ stopped = <<>>
  BY <1>2 DEF AnySession, AnyQueues
<1>4. waiting' = <<r>>
  BY <1>1, <1>3
<1>5. r \notin ToSet(queued) /\ ToSet(queued) \subseteq Pair
  BY <1>1, MembersIn DEF AnySession, AnyTypes, AnyQueues, InUse
<1>6. KeepsUse /\ InUse(r)'
  BY <1>1 DEF KeepsUse, InUse, AnySession, AnyTypes, RpiRequest, Rpi!Stream
<1>7. AnyTypes'
  BY <1>1, <1>2, <1>6 DEF AnySession, AnyTypes, KeepsUse, RpiStacks
<1>8. AnyQueues'
  BY <1>1, <1>3, <1>4, <1>5, <1>6 DEF AnySession, AnyQueues, KeepsUse
<1>9. AnyStates'
  BY <1>1, <1>2, AnyRuns
<1>10. QED
  BY <1>7, <1>8, <1>9 DEF AnySession

\* configure() and start()
LEMMA AnyStart ==
    ASSUME AnySession, Rpi!Start \/ Rpi!StartFails \/ \E c \in Rpi!Configuration : Rpi!Configure(c)
    PROVE  AnySession'
<1>1. /\ ~active /\ stack = <<>> /\ config' \in Rpi!Configuration
      /\ (active' = TRUE /\ state' = "Idle") \/ UNCHANGED <<active, state>>
      /\ UNCHANGED <<stack, waiting, queued, stopped, req, requestQueue, input, done, calls, events,
                     bayerQueue, embeddedQueue>>
  <2>1. CASE Rpi!Start
    BY <2>1 DEF Rpi!Start, Rpi!Loop, Rpi!queueVars, Rpi!frameVars, Rpi!ipaVars, AnySession, AnyTypes
  <2>2. CASE Rpi!StartFails
    BY <2>2 DEF Rpi!StartFails, Rpi!Loop, Rpi!queueVars, Rpi!frameVars, Rpi!ipaVars, AnySession, AnyTypes
  <2>3. ASSUME NEW c \in Rpi!Configuration, Rpi!Configure(c)
        PROVE  /\ ~active /\ stack = <<>> /\ config' \in Rpi!Configuration
               /\ UNCHANGED <<active, state>>
               /\ UNCHANGED <<stack, waiting, queued, stopped, req, requestQueue, input, done, calls, events,
                              bayerQueue, embeddedQueue>>
    BY <2>3 DEF Rpi!Configure, Rpi!Loop, Rpi!queueVars, Rpi!frameVars, Rpi!ipaVars
  <2>4. QED
    BY <2>1, <2>2, <2>3
<1>2. stack \in Base /\ stack # <<"doQueue">>
  BY <1>1, OtherMoves
<1>3. stack \notin ClearStacks /\ stack \notin EndStacks /\ stack \notin Ending
  BY <1>2, StacksDiffer DEF ClearStacks, EndStacks
<1>4. AnyTypes'
  BY <1>1 DEF AnySession, AnyTypes, RpiStates
<1>5. AnyQueues'
  BY <1>1 DEF AnySession, AnyQueues, InUse
<1>6. AnyStates'
  BY <1>1, <1>3 DEF AnySession, AnyStates, Rpi!isRunning
<1>7. QED
  BY <1>4, <1>5, <1>6 DEF AnySession

\* stop() and cameraTimeout()
LEMMA AnyHalt ==
    ASSUME AnySession, Rpi!Stop \/ Rpi!CameraTimeout
    PROVE  AnySession'
<1>1. /\ stack = <<>> /\ input' = <<>> /\ done' = Rpi!NotDone /\ bayerQueue' = <<>> /\ embeddedQueue' = <<>>
      /\ UNCHANGED <<config, active, queued, req>>
      /\ \/ active /\ state' = "Stopped" /\ stack' = <<"clear", "stopIpa", "waiting">>
         \/ Rpi!isRunning /\ state' = "Error" /\ stack' = <<"clear">>
      /\ stopped' \in {stopped, waiting} /\ waiting' \in {waiting, <<>>}
  <2>1. CASE Rpi!Stop
    BY <2>1 DEF Rpi!Stop, Rpi!StreamOff, Rpi!Loop
  <2>2. CASE Rpi!CameraTimeout
    BY <2>2 DEF Rpi!CameraTimeout, Rpi!StreamOff, Rpi!Loop, Rpi!queueVars
  <2>3. QED
    BY <2>1, <2>2
<1>2. active
  BY <1>1 DEF AnySession, AnyTypes, AnyStates, Rpi!isRunning
<1>3. stack # <<"doQueue">>
  BY <1>1, OtherMoves
<1>4. waiting = <<>> /\ stopped = <<>>
  BY <1>3 DEF AnySession, AnyQueues
<1>5. /\ stack' \in Clearing /\ (stack' \in Stopping <=> state' = "Stopped") /\ state' \in {"Stopped", "Error"}
  BY <1>1 DEF Clearing, Stopping
<1>6. stack' \notin EndStacks
  BY <1>5, StacksDiffer DEF EndStacks
<1>7. AnyTypes'
  BY <1>1, <1>2, <1>5, NotDoneDomain DEF AnySession, AnyTypes, RpiStates, RpiStacks, ClearStacks
<1>8. AnyQueues'
  BY <1>1, <1>4 DEF AnySession, AnyQueues, InUse
<1>9. AnyStates'
  BY <1>1, <1>2, <1>5, <1>6 DEF AnyStates, EndStacks
<1>10. QED
  BY <1>7, <1>8, <1>9 DEF AnySession

LEMMA AnyStep ==
    ASSUME RpiConstants, AnySession, [Rpi!Next]_Rpi!vars, fatal' = "none"
    PROVE  AnySession'
<1>1. CASE UNCHANGED Rpi!vars
  <2>1. UNCHANGED <<config, active, state, stack, waiting, queued, stopped, req, requestQueue, input, done, calls, events,
                    bayerQueue, embeddedQueue>>
    BY <1>1 DEF Rpi!vars, Rpi!queueVars, Rpi!deviceVars, Rpi!ipaVars, Rpi!frameVars
  <2>2. AnyTypes' /\ AnyQueues' /\ AnyStates'
    BY <2>1 DEF AnySession, AnyTypes, AnyQueues, AnyStates, InUse, Rpi!isRunning
  <2>3. QED
    BY <2>2 DEF AnySession
<1>2. CASE Rpi!PipelineThread
  <2>1. CASE Rpi!DoQueueRequests
    BY <2>1, AnyNothingQueued, AnyOneQueued
  <2>2. ASSUME NEW s, Rpi!QueueRefused(s)
        PROVE  AnySession'
    <3>1. waiting # <<>>
      BY <2>2 DEF Rpi!QueueRefused
    <3>2. QED
      BY <2>2, <3>1, AnyOneQueued
  <2>3. CASE Rpi!CompleteRequest
    BY <2>3, AnyComplete
  <2>4. CASE Rpi!HandleState \/ Rpi!CheckRequestCompleted \/ Rpi!RequestCompleted \/ Rpi!TryRunPipeline
    BY <2>4, AnyHandles
  <2>5. CASE \/ Rpi!UnicamImageDequeue \/ Rpi!UnicamEmbeddedDequeue \/ Rpi!IspInputDequeue \/ Rpi!IspOutputDequeue
             \/ Rpi!IspStatsDequeue \/ Rpi!IpaEvent \/ Rpi!IspRefuses
    BY <2>5, AnyEvents
  <2>6. CASE Rpi!ClearIncompleteRequests \/ Rpi!PopIncomplete \/ Rpi!StopIpa
    BY <2>6, AnyClear
  <2>7. CASE Rpi!StopWaiting
    BY <2>7, AnyStopWaiting
  <2>8. QED
    BY <1>2, <2>1, <2>2, <2>3, <2>4, <2>5, <2>6, <2>7 DEF Rpi!PipelineThread
<1>3. CASE Rpi!IpaThread \/ Rpi!CaptureFrame \/ Rpi!CaptureLost \/ Rpi!IspRun
  BY <1>3, AnyDevices
<1>4. ASSUME NEW r \in Pair, NEW ss \in (SUBSET {"image", "output"}) \ {{}}, Rpi!QueueRequest(r, ss)
      PROVE  AnySession'
  BY <1>4, AnyQueueRequest
<1>5. CASE Rpi!Start \/ Rpi!StartFails \/ \E c \in Rpi!Configuration : Rpi!Configure(c)
  BY <1>5, AnyStart
<1>6. CASE Rpi!Stop \/ Rpi!CameraTimeout
  BY <1>6, AnyHalt
<1>7. QED
  BY <1>1, <1>2, <1>3, <1>4, <1>5, <1>6 DEF Rpi!Next

\* A camera that has stopped is as good as new.
LEMMA AtRest ==
    ASSUME AnySession, ~active, fatal = "none"
    PROVE  RpiInv
<1>1. /\ state = "Stopped" /\ stack = <<>> /\ requestQueue = <<>> /\ queued = <<>> /\ calls = <<>> /\ events = <<>>
      /\ ~Rpi!isRunning
  BY DEF AnySession, AnyStates, Rpi!isRunning
<1>2. stack \in Base /\ stack # <<"doQueue">>
  BY <1>1, OtherMoves
<1>3. RpiType
  <2>1. requestQueue \in Seq(Pair) /\ IsInjective(requestQueue)
    BY <1>1, ToSetOfEmpty
  <2>2. QED
    BY <2>1 DEF AnySession, AnyTypes, RpiType
<1>4. NoneWaits
  BY <1>2 DEF AnySession, AnyQueues, NoneWaits
<1>5. InStep
  BY <1>1, <1>2, StacksDiffer, ToSetOfEmpty DEF InStep, AllPending, RunningStacks, RefuseStacks, EndStacks
<1>6. StatesSound
  BY <1>1, <1>2, StacksDiffer
     DEF AnySession, AnyStates, StatesSound, CheckedStacks, RunningStacks, RefuseStacks, EndStacks, ClearStacks,
         Rpi!isRunning
<1>7. FilledSound /\ OneJob
  BY <1>1 DEF FilledSound, OneJob
<1>8. QED
  BY <1>3, <1>4, <1>5, <1>6, <1>7 DEF RpiInv

LEMMA AnyInit ==
    ASSUME Rpi!Init
    PROVE  AnySession
<1>1. /\ active = FALSE /\ state = "Stopped" /\ stack = <<>> /\ waiting = <<>> /\ queued = <<>> /\ stopped = <<>>
      /\ req = [r \in Pair |-> Rpi!FreeRequest] /\ requestQueue = <<>> /\ input = <<>> /\ done = Rpi!NotDone
      /\ calls = <<>> /\ events = <<>> /\ bayerQueue = <<>> /\ embeddedQueue = <<>> /\ config \in Rpi!Configuration
  BY DEF Rpi!Init
<1>2. stack \in Base
  BY <1>1, OtherMoves
<1>3. AnyTypes
  <2>1. req \in [Pair -> RpiRequest]
    BY <1>1 DEF RpiRequest, Rpi!FreeRequest
  <2>2. queued \in Seq(Pair)
    BY <1>1
  <2>3. QED
    BY <1>1, <1>2, <2>1, <2>2, ToSetOfEmpty, NotDoneDomain DEF AnyTypes, RpiStates, RpiStacks
<1>4. AnyQueues
  BY <1>1, ToSetOfEmpty DEF AnyQueues
<1>5. AnyStates
  BY <1>1, <1>2, StacksDiffer DEF AnyStates, ClearStacks, EndStacks
<1>6. QED
  BY <1>3, <1>4, <1>5 DEF AnySession

\* A session ends with the next one, or a device refuses a buffer in it.
LEMMA SessionKept ==
    ASSUME [Rpi!Next]_Rpi!vars, ~Rpi!Start, session' # "refused"
    PROVE  session' = session
<1>1. ~Rpi!Fault("refused")
  BY DEF Rpi!Fault
<1>2. \A s, st : Rpi!Returned(s, st) => session' = session
  BY <1>1, Zenon DEF Rpi!Returned, Rpi!faultVars
<1>3. \A s, b : Rpi!handleStreamBuffer(s, b) => session' = session
  BY <1>2, Zenon DEF Rpi!handleStreamBuffer, Rpi!faultVars
<1>4. CASE UNCHANGED Rpi!vars
  BY <1>4 DEF Rpi!vars, Rpi!faultVars
<1>5. CASE Rpi!PipelineThread
  <2>1. CASE Rpi!DoQueueRequests \/ Rpi!CompleteRequest \/ Rpi!HandleState \/ Rpi!CheckRequestCompleted \/ Rpi!RequestCompleted
    BY <2>1 DEF Rpi!DoQueueRequests, Rpi!CompleteRequest, Rpi!HandleState, Rpi!CheckRequestCompleted,
                Rpi!RequestCompleted, Rpi!faultVars
  <2>2. CASE Rpi!TryRunPipeline
    <3>1. session' = session \/ \E s, st : Rpi!Returned(s, st)
      <4>1. CASE state # "Idle" \/ requestQueue = <<>> \/ bayerQueue = <<>> \/ (config.embedded /\ embeddedQueue = <<>>)
        BY <2>2, <4>1 DEF Rpi!TryRunPipeline, Rpi!faultVars
      <4>2. CASE ~(state # "Idle" \/ requestQueue = <<>> \/ bayerQueue = <<>> \/ (config.embedded /\ embeddedQueue = <<>>))
        BY <2>2, <4>2, Zenon DEF Rpi!TryRunPipeline
      <4>3. QED
        BY <4>1, <4>2
    <3>2. QED
      BY <1>2, <3>1
  <2>3. CASE Rpi!UnicamImageDequeue \/ Rpi!UnicamEmbeddedDequeue \/ Rpi!IspStatsDequeue
    BY <2>3 DEF Rpi!UnicamImageDequeue, Rpi!UnicamEmbeddedDequeue, Rpi!IspStatsDequeue, Rpi!faultVars
  <2>4. CASE Rpi!IspInputDequeue \/ Rpi!IspOutputDequeue
    BY <1>3, <2>4 DEF Rpi!IspInputDequeue, Rpi!IspOutputDequeue
  <2>5. CASE Rpi!IpaEvent
    <3>1. session' = session \/ \E s, b : Rpi!handleStreamBuffer(s, b)
      BY <2>5, Zenon DEF Rpi!IpaEvent, Rpi!faultVars
    <3>2. QED
      BY <1>3, <3>1
  <2>6. CASE Rpi!ClearIncompleteRequests \/ Rpi!PopIncomplete \/ Rpi!StopIpa \/ Rpi!StopWaiting
    BY <2>6 DEF Rpi!ClearIncompleteRequests, Rpi!PopIncomplete, Rpi!StopIpa, Rpi!StopWaiting, Rpi!faultVars
  <2>7. QED
    BY <1>5, <2>1, <2>2, <2>3, <2>4, <2>5, <2>6, NoRefusal DEF Rpi!PipelineThread
<1>6. CASE Rpi!IpaThread \/ Rpi!CaptureFrame \/ Rpi!CaptureLost \/ Rpi!IspRun
  BY <1>6 DEF Rpi!IpaThread, Rpi!CaptureFrame, Rpi!CaptureLost, Rpi!Capture, Rpi!IspRun, Rpi!faultVars
<1>7. ASSUME NEW r, NEW ss, Rpi!QueueRequest(r, ss)
      PROVE  session' = session
  BY <1>7 DEF Rpi!QueueRequest, Rpi!faultVars
<1>8. ASSUME NEW c, Rpi!Configure(c)
      PROVE  session' = session
  BY <1>8 DEF Rpi!Configure, Rpi!faultVars
<1>9. CASE Rpi!StartFails \/ Rpi!Stop \/ Rpi!CameraTimeout
  BY <1>9 DEF Rpi!StartFails, Rpi!Stop, Rpi!CameraTimeout, Rpi!faultVars
<1>10. QED
  BY <1>4, <1>5, <1>6, <1>7, <1>8, <1>9 DEF Rpi!Next

\* In every session AnySession holds, and RpiInv where no device has refused a buffer.
SessionInv ==
    /\ fatal = "none" => AnySession
    /\ session # "refused" => RpiInv

LEMMA NextSession ==
    ASSUME RpiConstants, SessionInv, [Rpi!Next]_Rpi!vars
    PROVE  SessionInv'
<1>1. (fatal = "none")' => AnySession'
  <2>1. CASE UNCHANGED Rpi!vars
    BY <2>1, AnyStep DEF SessionInv, Rpi!vars
  <2>2. CASE Rpi!Next
    BY <2>2, AnyStep DEF SessionInv, Rpi!Next
  <2>3. QED
    BY <2>1, <2>2
<1>2. ASSUME session' # "refused"
      PROVE  RpiInv'
  <2>1. CASE Rpi!Start
    <3>1. ~active
      BY <2>1 DEF Rpi!Start
    <3>2. CASE Rpi!Next
      <4>1. RpiInv
        BY <3>1, <3>2, AtRest DEF SessionInv, Rpi!Next
      <4>2. QED
        BY <2>1, <4>1, StartSound
    <3>3. CASE UNCHANGED Rpi!vars
      <4>1. session # "refused"
        BY <1>2, <3>3 DEF Rpi!vars, Rpi!faultVars
      <4>2. QED
        BY <1>2, <4>1, RpiStep DEF SessionInv
    <3>4. QED
      BY <3>2, <3>3
  <2>2. CASE ~Rpi!Start
    <3>1. session # "refused"
      BY <1>2, <2>2, SessionKept
    <3>2. QED
      BY <1>2, <3>1, RpiStep DEF SessionInv
  <2>3. QED
    BY <2>1, <2>2
<1>3. QED
  BY <1>1, <1>2 DEF SessionInv

LEMMA RpiSafe ==
    ASSUME RpiConstants
    PROVE  Rpi!Spec => []SessionInv
<1>1. Rpi!Init => SessionInv
  BY RpiInitSound, AnyInit DEF SessionInv
<1>2. SessionInv /\ [Rpi!Next]_Rpi!vars => SessionInv'
  BY NextSession
<1>3. QED
  BY <1>1, <1>2, PTL DEF Rpi!Spec

\* The Raspberry Pi pipeline handler reaches no ASSERT and reads no empty queue in a
\* session in which no device has refused a buffer, however many requests there are, as
\* long as none waits for room in the device: whenever it is stopped, whenever its
\* frontend times out, whatever embedded data is lost, and whatever the devices refused in
\* earlier sessions.  The application may queue any streams in each request
\* (RpiPipeline!NoAbort).
THEOREM RpiNeverAborts ==
    ASSUME IsFiniteSet(Pair), MaxQueued \in Nat
    PROVE  Rpi!Spec => [](session # "refused" => RpiNoAbort)
<1>1. CASE Cardinality(Pair) <= MaxQueued
  <2>1. SessionInv => (session # "refused" => RpiNoAbort)
    BY DEF SessionInv, RpiInv, RpiNoAbort, Rpi!NoAbort
  <2>2. Rpi!Spec => []SessionInv
    BY <1>1, RpiSafe DEF RpiConstants
  <2>3. QED
    BY <2>1, <2>2, PTL
<1>2. CASE ~(Cardinality(Pair) <= MaxQueued)
  <2>1. RpiNoAbort
    BY <1>2, RpiCardinality DEF RpiNoAbort, Rpi!NoAbort
  <2>2. QED
    BY <2>1, PTL
<1>3. QED
  BY <1>1, <1>2

(***************************************************************************)
(* Where the buffers are                                                   *)
(***************************************************************************)

One(c) == IF c THEN 1 ELSE 0
Occurs(q, b) == Cardinality({i \in DOMAIN q : q[i] = b})
Buffers(q) == [i \in DOMAIN q |-> q[i].buffer]
Cat(p, q) == p \o q
Put(q, k, x) == [q EXCEPT ![k] = x]

\* The buffers of a stream: internal ones, and those of the requests.
OfRequests == {Rpi!OfRequest(r) : r \in Pair}
Pool(s) == IF s = "embedded" \/ (s = "image" /\ ~config.raw) THEN 1 .. 2 ELSE {1}
FromRequests(s) == IF Rpi!External(s) THEN OfRequests ELSE {}
BuffersOf(s) == {Rpi!Internal(i) : i \in Pool(s)} \cup FromRequests(s)
Tokens(s) == BuffersOf(s) \cup {Rpi!Null}

\* The state of a stream of buffers B, which gets requests of Q.
StreamOf(B, Q) == [available : Seq(B), requests : Seq(Q), device : Seq(B)]
Ready(B) == [buffer : B, ts : Nat]
PrepareCall(o) ==
    [op : {o}, bayer : BuffersOf("image"), embedded : BuffersOf("embedded") \cup {Rpi!Null}]
StatsCall(o) == [op : {o}, stats : BuffersOf("stats")]

StreamType(s) ==
    /\ streams[s] \in StreamOf(BuffersOf(s), FromRequests(s) \cup {Rpi!Null})
    /\ done[s] \in Seq(Ready(BuffersOf(s)))
PlaceTypes ==
    /\ config \in Rpi!Configuration /\ frameNumber \in Nat /\ DOMAIN streams = Rpi!Stream
    /\ \A s \in Rpi!Stream : StreamType(s)
    /\ done["input"] \in Seq(Ready(BuffersOf("image"))) /\ input \in Seq(BuffersOf("image"))
    /\ bayerQueue \in Seq(Ready(BuffersOf("image"))) /\ embeddedQueue \in Seq(Ready(BuffersOf("embedded")))
    /\ calls \in Seq(PrepareCall("prepareIsp") \cup StatsCall("processStats"))
    /\ events \in Seq(PrepareCall("prepareIspComplete") \cup StatsCall("processStatsComplete")
                      \cup {[op |-> "metadataReady"]})

\* The buffers of a stream that wait for their turn, first the ones that come first.
Ahead(s) ==
    CASE s = "image" -> Cat(Buffers(bayerQueue), Buffers(done["image"]))
      [] s = "embedded" -> Cat(Buffers(embeddedQueue), Buffers(done["embedded"]))
      [] OTHER -> <<>>
Behind(s) == Cat(streams[s].device, streams[s].requests)
Line(s) == Cat(Ahead(s), Behind(s))

\* Those that the IPA and the ISP work on, and those they are done with.
ImageIn(q, o, b) == Cardinality({i \in DOMAIN q : q[i].op = o /\ q[i].bayer = b})
EmbeddedIn(q, o, b) == Cardinality({i \in DOMAIN q : q[i].op = o /\ q[i].embedded = b})
StatsIn(q, o, b) == Cardinality({i \in DOMAIN q : q[i].op = o /\ q[i].stats = b})
JobImage(b) == Occurs(input, b) + ImageIn(calls, "prepareIsp", b) + ImageIn(events, "prepareIspComplete", b)
JobEmbedded(b) == EmbeddedIn(calls, "prepareIsp", b) + EmbeddedIn(events, "prepareIspComplete", b)
JobStats(b) ==
    Occurs(Buffers(done["stats"]), b) + StatsIn(calls, "processStats", b) + StatsIn(events, "processStatsComplete", b)
InWork(s, b) ==
    CASE s = "image" -> Occurs(Buffers(done["input"]), b) + JobImage(b)
      [] s = "embedded" -> JobEmbedded(b)
      [] s = "stats" -> JobStats(b)
      [] OTHER -> Occurs(Buffers(done["output"]), b)

\* Whether the first request has got its image, and its output.
IspRan ==
    \/ state = "IpaComplete"
    \/ state = "Busy" /\ (FromIsp \/ CallIs("processStats") \/ Answered \/ EventIs("processStatsComplete"))
Taken(s) == IF s = "image" THEN state # "Idle" ELSE IspRan

\* The requests whose turn a stream's buffers wait for, and those that want one of theirs.
Turns(s) == IF Taken(s) THEN Tail(requestQueue) ELSE requestQueue
Wants(s) == {r \in Pair : s \in req[r].pending}

\* An internal buffer is in one place.
Conserved(s) ==
    \A i \in Pool(s) :
        Occurs(Line(s), Rpi!Internal(i)) + Occurs(streams[s].available, Rpi!Internal(i)) + InWork(s, Rpi!Internal(i)) = 1

\* An internal buffer x is at hand, or requests n wait for it.
AtHand(st, x, n) ==
    /\ st.available \in {<<>>, <<x>>}
    /\ st.requests = <<>> \/ (st.available = <<>> /\ st.requests[1] = n)
PoolSound(s) ==
    IF Rpi!External(s) THEN AtHand(streams[s], Rpi!Internal(1), Rpi!Null)
    ELSE streams[s].available = <<>> /\ streams[s].requests = <<>>

\* One buffer for each request, in their order.
InOrder(q, t, w) ==
    /\ Len(q) = Len(t)
    /\ \A i \in 1 .. Len(t) :
           IF t[i] \in w THEN q[i] = Rpi!OfRequest(t[i]) ELSE q[i] \in {Rpi!Null, Rpi!Internal(1)}

\* The pipeline works on the buffers of the first request.
Owned(s) ==
    \A r \in Pair :
        InWork(s, Rpi!OfRequest(r)) = One(Taken(s) /\ r = Head(requestQueue) /\ s \in req[r].pending)

StreamSound(s) ==
    /\ PoolSound(s) /\ Conserved(s)
    /\ Rpi!External(s) => InOrder(Line(s), Turns(s), Wants(s)) /\ Owned(s)

PendingSound ==
    /\ \A r \in ToSet(requestQueue) \cup ToSet(waiting) : \A s \in req[r].pending : Rpi!External(s)
    /\ \A r \in ToSet(waiting) : req[r].pending = req[r].streams
    /\ stack \in Finishing \cup FinishQueue \cup Finished => req[Head(requestQueue)].pending = {}

\* tryRunPipeline() and checkRequestCompleted() have done what they could.
Exhausted ==
    /\ stack \in Base /\ state = "Idle" /\ requestQueue # <<>> /\ bayerQueue # <<>> =>
        config.embedded /\ embeddedQueue = <<>>
    /\ stack \in Base \cup Trying /\ state = "IpaComplete" => req[Head(requestQueue)].pending # {}

PlaceInv ==
    IF Rpi!isRunning
    THEN PlaceTypes /\ (\A s \in Rpi!Stream : StreamSound(s)) /\ PendingSound /\ Exhausted
    ELSE bayerQueue = <<>> /\ embeddedQueue = <<>> /\ config \in Rpi!Configuration

(***************************************************************************)
(* Counting the places of a buffer                                         *)
(***************************************************************************)

LEMMA OccursFinite ==
    ASSUME NEW S, NEW q \in Seq(S), NEW b
    PROVE  IsFiniteSet({i \in DOMAIN q : q[i] = b}) /\ Occurs(q, b) \in Nat
<1>1. Len(q) \in Nat /\ DOMAIN q = 1 .. Len(q)
  OBVIOUS
<1>2. IsFiniteSet(1 .. Len(q))
  BY <1>1, FS_Interval
<1>3. {i \in DOMAIN q : q[i] = b} \in SUBSET (1 .. Len(q))
  BY <1>1
<1>4. IsFiniteSet({i \in DOMAIN q : q[i] = b})
  BY <1>2, <1>3, FS_Subset
<1>5. QED
  BY <1>4, FS_CardinalityType DEF Occurs

LEMMA OccursEmpty ==
    ASSUME NEW b
    PROVE  Occurs(<<>>, b) = 0
<1>1. {i \in DOMAIN <<>> : <<>>[i] = b} = {}
  OBVIOUS
<1>2. QED
  BY <1>1, FS_EmptySet DEF Occurs

LEMMA OccursOnce ==
    ASSUME NEW x, NEW b
    PROVE  Occurs(<<x>>, b) = One(x = b)
<1> DEFINE A == {i \in DOMAIN <<x>> : <<x>>[i] = b}
<1>1. A = IF x = b THEN {1} ELSE {}
  OBVIOUS
<1>2. Occurs(<<x>>, b) = Cardinality(A)
  BY DEF Occurs
<1> HIDE DEF A
<1>3. QED
  BY <1>1, <1>2, FS_EmptySet, FS_Singleton DEF One

LEMMA OccursAppend ==
    ASSUME NEW S, NEW q \in Seq(S), NEW x \in S, NEW b
    PROVE  Occurs(Append(q, x), b) = Occurs(q, b) + One(x = b)
<1> DEFINE a == Append(q, x)
           A == {i \in DOMAIN q : q[i] = b}
           B == {i \in DOMAIN a : a[i] = b}
<1>1. /\ Len(q) \in Nat /\ DOMAIN q = 1 .. Len(q) /\ DOMAIN a = 1 .. (Len(q) + 1)
      /\ a[Len(q) + 1] = x /\ \A i \in 1 .. Len(q) : a[i] = q[i]
  OBVIOUS
<1>2. B = (IF x = b THEN A \cup {Len(q) + 1} ELSE A) /\ Len(q) + 1 \notin A
  <2> HIDE DEF a
  <2>1. QED
    BY <1>1
<1>3. IsFiniteSet(A) /\ Cardinality(A) \in Nat
  BY OccursFinite DEF Occurs
<1>4. Occurs(a, b) = Cardinality(B) /\ Occurs(q, b) = Cardinality(A)
  BY DEF Occurs
<1> HIDE DEF a, A, B
<1>5. Cardinality(A \cup {Len(q) + 1}) = Cardinality(A) + 1
  BY <1>2, <1>3, FS_AddElement
<1>6. Occurs(a, b) = Occurs(q, b) + One(x = b)
  BY <1>2, <1>3, <1>4, <1>5 DEF One
<1>7. QED
  BY <1>6 DEF a

LEMMA OccursConcat ==
    ASSUME NEW S, NEW p \in Seq(S), NEW q \in Seq(S), NEW b
    PROVE  Occurs(p \o q, b) = Occurs(p, b) + Occurs(q, b)
<1> DEFINE a == p \o q
           A == {i \in DOMAIN p : p[i] = b}
           B == {i \in DOMAIN q : q[i] = b}
           C == {i \in DOMAIN a : a[i] = b}
           D == {i \in (Len(p) + 1) .. (Len(p) + Len(q)) : a[i] = b}
           f == [i \in B |-> i + Len(p)]
<1>1. /\ Len(p) \in Nat /\ DOMAIN p = 1 .. Len(p) /\ Len(q) \in Nat /\ DOMAIN q = 1 .. Len(q)
      /\ DOMAIN a = 1 .. (Len(p) + Len(q))
      /\ \A i \in 1 .. Len(p) : a[i] = p[i]
      /\ \A i \in 1 .. Len(q) : a[i + Len(p)] = q[i]
  OBVIOUS
<1>2. Occurs(a, b) = Cardinality(C) /\ Occurs(p, b) = Cardinality(A) /\ Occurs(q, b) = Cardinality(B)
  BY DEF Occurs
<1>3. IsFiniteSet(A) /\ IsFiniteSet(B) /\ Cardinality(A) \in Nat /\ Cardinality(B) \in Nat
  BY OccursFinite DEF Occurs
<1> HIDE DEF a
<1>4. C = A \cup D /\ A \cap D = {}
  BY <1>1
<1>5. f \in Bijection(B, D)
  <2>1. f \in [B -> D]
    BY <1>1
  <2>2. \A x, y \in B : f[x] = f[y] => x = y
    BY <1>1
  <2>3. \A y \in D : y - Len(p) \in B /\ f[y - Len(p)] = y
    <3>1. SUFFICES ASSUME NEW y \in D PROVE y - Len(p) \in B /\ f[y - Len(p)] = y
      OBVIOUS
    <3>2. y - Len(p) \in 1 .. Len(q) /\ a[y] = b /\ y = (y - Len(p)) + Len(p)
      BY <1>1
    <3>3. QED
      BY <1>1, <3>2
  <2>4. QED
    BY <2>1, <2>2, <2>3 DEF Bijection, Injection, Surjection, IsInjective
<1>6. IsFiniteSet(D) /\ Cardinality(D) = Cardinality(B)
  BY <1>3, <1>5, FS_Bijection DEF ExistsBijection
<1> HIDE DEF A, B, C, D, f
<1>7. Cardinality(A \cup D) = Cardinality(A) + Cardinality(D)
  <2>1. Cardinality(A \cup D) = Cardinality(A) + Cardinality(D) - Cardinality(A \cap D)
    BY <1>3, <1>6, FS_Union
  <2>2. Cardinality(A \cap D) = 0
    BY <1>4, FS_EmptySet
  <2>3. QED
    BY <1>3, <1>6, <2>1, <2>2
<1>8. Occurs(a, b) = Occurs(p, b) + Occurs(q, b)
  BY <1>2, <1>4, <1>6, <1>7
<1>9. QED
  BY <1>8 DEF a

LEMMA OccursTail ==
    ASSUME NEW S, NEW q \in Seq(S), NEW b, q # <<>>
    PROVE  Occurs(q, b) = One(Head(q) = b) + Occurs(Tail(q), b)
<1>1. <<>> \in Seq(S) /\ Append(<<>>, Head(q)) = <<Head(q)>> /\ <<>> \o q = q /\ <<Head(q)>> \in Seq(S) /\ Tail(q) \in Seq(S)
  OBVIOUS
<1>2. <<Head(q)>> \o Tail(q) = q
  BY <1>1, ConcatShift, Zenon
<1>3. Occurs(<<Head(q)>> \o Tail(q), b) = Occurs(<<Head(q)>>, b) + Occurs(Tail(q), b)
  <2>1. PICK h, u : h = <<Head(q)>> /\ u = Tail(q)
    OBVIOUS
  <2>2. h \in Seq(S) /\ u \in Seq(S)
    BY <1>1, <2>1
  <2>3. Occurs(h \o u, b) = Occurs(h, b) + Occurs(u, b)
    BY <2>2, OccursConcat
  <2>4. QED
    BY <2>1, <2>3, Zenon
<1>4. Occurs(<<Head(q)>>, b) = One(Head(q) = b)
  BY OccursOnce
<1>5. QED
  BY <1>2, <1>3, <1>4, Zenon

LEMMA OccursExcept ==
    ASSUME NEW S, NEW q \in Seq(S), NEW k \in 1 .. Len(q), NEW x \in S, NEW b, q[k] # b
    PROVE  Occurs([q EXCEPT ![k] = x], b) = Occurs(q, b) + One(x = b)
<1> DEFINE a == [q EXCEPT ![k] = x]
           A == {i \in DOMAIN q : q[i] = b}
           B == {i \in DOMAIN a : a[i] = b}
<1>1. k \in DOMAIN q /\ DOMAIN a = DOMAIN q /\ a[k] = x /\ \A i \in DOMAIN q \ {k} : a[i] = q[i]
  OBVIOUS
<1>2. B = (IF x = b THEN A \cup {k} ELSE A) /\ k \notin A
  <2> HIDE DEF a
  <2>1. QED
    BY <1>1
<1>3. IsFiniteSet(A) /\ Cardinality(A) \in Nat
  BY OccursFinite DEF Occurs
<1>4. Occurs(a, b) = Cardinality(B) /\ Occurs(q, b) = Cardinality(A)
  BY DEF Occurs
<1> HIDE DEF a, A, B
<1>5. Cardinality(A \cup {k}) = Cardinality(A) + 1
  BY <1>2, <1>3, FS_AddElement
<1>6. Occurs(a, b) = Occurs(q, b) + One(x = b)
  BY <1>2, <1>3, <1>4, <1>5 DEF One
<1>7. QED
  BY <1>6 DEF a

\* A buffer is in a sequence, or it is not.
LEMMA OccursSomewhere ==
    ASSUME NEW S, NEW q \in Seq(S), NEW b, Occurs(q, b) # 0
    PROVE  \E i \in DOMAIN q : q[i] = b
<1> DEFINE A == {i \in DOMAIN q : q[i] = b}
<1>1. Cardinality(A) # 0
  BY DEF Occurs
<1>2. A # {}
  BY <1>1, FS_EmptySet
<1>3. QED
  BY <1>2

LEMMA OccursNowhere ==
    ASSUME NEW S, NEW q \in Seq(S), NEW b, NEW i \in DOMAIN q, q[i] = b
    PROVE  Occurs(q, b) # 0
<1> DEFINE A == {j \in DOMAIN q : q[j] = b}
<1>1. i \in A
  OBVIOUS
<1>2. Occurs(q, b) = Cardinality(A) /\ IsFiniteSet(A)
  BY OccursFinite DEF Occurs
<1> HIDE DEF A
<1>3. QED
  BY <1>1, <1>2, FS_EmptySet

LEMMA OccursUnique ==
    ASSUME NEW S, NEW q \in Seq(S), NEW b, NEW k \in DOMAIN q, \A i \in DOMAIN q : q[i] = b <=> i = k
    PROVE  Occurs(q, b) = 1
<1>1. {i \in DOMAIN q : q[i] = b} = {k}
  OBVIOUS
<1>2. QED
  BY <1>1, FS_Singleton DEF Occurs

\* The buffers of a queue of frames.
LEMMA BuffersOfQueue ==
    ASSUME NEW B, NEW q \in Seq([buffer : B, ts : Nat])
    PROVE  /\ Buffers(q) \in Seq(B) /\ Len(Buffers(q)) = Len(q)
           /\ Buffers(q) = <<>> <=> q = <<>>
           /\ q # <<>> => /\ Tail(q) \in Seq([buffer : B, ts : Nat]) /\ Buffers(Tail(q)) = Tail(Buffers(q))
                          /\ Head(Buffers(q)) = Head(q).buffer /\ Head(q).buffer \in B
<1> DEFINE R == [buffer : B, ts : Nat]
           c == Buffers(q)
<1>1. Len(q) \in Nat /\ DOMAIN q = 1 .. Len(q) /\ \A i \in 1 .. Len(q) : q[i] \in R
  <2> HIDE DEF R
  <2>1. q \in Seq(R)
    BY DEF R
  <2>2. QED
    BY <2>1
<1>2. c = [i \in 1 .. Len(q) |-> q[i].buffer]
  BY <1>1 DEF Buffers
<1>3. c \in Seq(B) /\ Len(c) = Len(q) /\ \A i \in 1 .. Len(q) : c[i] = q[i].buffer
  BY <1>1, <1>2
<1>4. c = <<>> <=> q = <<>>
  <2>1. q = <<>> <=> Len(q) = 0
    OBVIOUS
  <2>2. c = <<>> <=> Len(c) = 0
    BY <1>3
  <2>3. QED
    BY <1>3, <2>1, <2>2
<1>5. ASSUME q # <<>>
      PROVE  /\ Tail(q) \in Seq(R) /\ Buffers(Tail(q)) = Tail(c)
             /\ Head(c) = Head(q).buffer /\ Head(q).buffer \in B
  <2> DEFINE t == Tail(q)
             u == Tail(c)
  <2>1. Len(q) > 0 /\ t \in Seq(R) /\ Len(t) = Len(q) - 1 /\ \A i \in 1 .. Len(t) : t[i] = q[i + 1]
    BY <1>5
  <2>2. c # <<>> /\ u \in Seq(B) /\ Len(u) = Len(q) - 1 /\ \A i \in 1 .. Len(u) : u[i] = c[i + 1]
    <3> HIDE DEF c
    <3>1. c # <<>>
      BY <1>4, <1>5
    <3>2. QED
      BY <1>3, <3>1
  <2>3. Head(c) = c[1] /\ Head(q) = q[1]
    <3> HIDE DEF c
    <3>1. QED
      BY <1>3, <2>1
  <2>4. Buffers(t) = u
    <3> DEFINE v == Buffers(t)
    <3>1. v = [i \in 1 .. Len(t) |-> t[i].buffer]
      BY <2>1 DEF Buffers
    <3> HIDE DEF t, u, c
    <3>2. \A i \in 1 .. Len(t) : t[i] = q[i + 1] /\ u[i] = c[i + 1] /\ i + 1 \in 1 .. Len(q)
      BY <1>1, <2>1, <2>2
    <3>3. v \in Seq(B) /\ Len(v) = Len(u) /\ \A i \in 1 .. Len(v) : v[i] = u[i]
      BY <1>1, <1>3, <2>1, <2>2, <3>1, <3>2
    <3> HIDE DEF v
    <3>4. v = u
      BY <2>2, <3>3
    <3>5. QED
      BY <3>4 DEF v
  <2>5. QED
    BY <1>1, <1>3, <2>1, <2>3, <2>4
<1>6. QED
  BY <1>3, <1>4, <1>5

LEMMA BuffersOfAppend ==
    ASSUME NEW B, NEW q \in Seq([buffer : B, ts : Nat]), NEW x \in [buffer : B, ts : Nat]
    PROVE  Buffers(Append(q, x)) = Append(Buffers(q), x.buffer)
<1> DEFINE R == [buffer : B, ts : Nat]
           a == Append(q, x)
           c == Buffers(q)
           u == Buffers(a)
           v == Append(c, x.buffer)
<1>1. a \in Seq(R) /\ Len(a) = Len(q) + 1 /\ Len(q) \in Nat /\ a[Len(q) + 1] = x /\ \A i \in 1 .. Len(q) : a[i] = q[i]
  OBVIOUS
<1>2. c \in Seq(B) /\ Len(c) = Len(q) /\ u \in Seq(B) /\ Len(u) = Len(q) + 1
  BY <1>1, BuffersOfQueue
<1>3. \A i \in 1 .. Len(q) : c[i] = q[i].buffer
  BY DEF Buffers
<1>4. \A i \in 1 .. Len(q) + 1 : u[i] = a[i].buffer
  BY <1>1 DEF Buffers
<1>5. x.buffer \in B
  OBVIOUS
<1> HIDE DEF a, c, u
<1>6. v \in Seq(B) /\ Len(v) = Len(q) + 1 /\ v[Len(q) + 1] = x.buffer /\ \A i \in 1 .. Len(q) : v[i] = c[i]
  BY <1>2, <1>5
<1> HIDE DEF v
<1>7. \A i \in 1 .. Len(q) + 1 : v[i] = u[i]
  BY <1>1, <1>3, <1>4, <1>6
<1>8. u = v
  BY <1>2, <1>6, <1>7
<1>9. QED
  BY <1>8 DEF u, v, c, a

(***************************************************************************)
(* Lines of buffers: one queue behind another                              *)
(***************************************************************************)

LEMMA ConcatIndexing ==
    ASSUME NEW S, NEW p \in Seq(S), NEW q \in Seq(S)
    PROVE  /\ p \o q \in Seq(S) /\ Len(p \o q) = Len(p) + Len(q) /\ Len(p) \in Nat /\ Len(q) \in Nat
           /\ \A i \in 1 .. Len(p) : (p \o q)[i] = p[i]
           /\ \A i \in 1 .. Len(q) : (p \o q)[Len(p) + i] = q[i]
  OBVIOUS

LEMMA ExceptAfter ==
    ASSUME NEW S, NEW p \in Seq(S), NEW q \in Seq(S), NEW k \in 1 .. Len(q), NEW x \in S
    PROVE  /\ Len(p) + k \in 1 .. Len(Cat(p, q)) /\ Cat(p, q)[Len(p) + k] = q[k]
           /\ Cat(p, Put(q, k, x)) = Put(Cat(p, q), Len(p) + k, x)
<1> DEFINE c == p \o q
           e == Put(q, k, x)
           a == p \o e
           d == Put(c, Len(p) + k, x)
<1>1. /\ c \in Seq(S) /\ Len(c) = Len(p) + Len(q) /\ Len(p) \in Nat /\ Len(q) \in Nat
      /\ \A i \in 1 .. Len(p) : c[i] = p[i]
      /\ \A i \in 1 .. Len(q) : c[Len(p) + i] = q[i]
  OBVIOUS
<1>2. e \in Seq(S) /\ Len(e) = Len(q) /\ \A i \in 1 .. Len(q) : e[i] = IF i = k THEN x ELSE q[i]
  BY DEF Put
<1> HIDE DEF e, c
<1>3. /\ a \in Seq(S) /\ Len(a) = Len(p) + Len(q)
      /\ \A i \in 1 .. Len(p) : a[i] = p[i]
      /\ \A i \in 1 .. Len(q) : a[Len(p) + i] = e[i]
  <2>1. \A w \in Seq(S) : /\ p \o w \in Seq(S) /\ Len(p \o w) = Len(p) + Len(w)
                          /\ \A i \in 1 .. Len(p) : (p \o w)[i] = p[i]
                          /\ \A i \in 1 .. Len(w) : (p \o w)[Len(p) + i] = w[i]
    BY ConcatIndexing
  <2>2. QED
    BY <1>2, <2>1, Zenon
<1>4. d \in Seq(S) /\ Len(d) = Len(c) /\ \A i \in 1 .. Len(c) : d[i] = IF i = Len(p) + k THEN x ELSE c[i]
  BY <1>1 DEF Put
<1> HIDE DEF a, d
<1>5. \A i \in 1 .. Len(a) : a[i] = d[i]
  <2>1. SUFFICES ASSUME NEW i \in 1 .. Len(a) PROVE a[i] = d[i]
    OBVIOUS
  <2>2. CASE i <= Len(p)
    BY <1>1, <1>3, <1>4, <2>2
  <2>3. CASE i > Len(p)
    <3>1. PICK j \in 1 .. Len(q) : i = Len(p) + j
      <4>1. i - Len(p) \in 1 .. Len(q) /\ i = Len(p) + (i - Len(p))
        BY <1>1, <1>3, <2>3
      <4>2. QED
        BY <4>1
    <3>2. a[i] = e[j] /\ c[i] = q[j] /\ i \in 1 .. Len(c)
      BY <1>1, <1>3, <3>1
    <3>3. e[j] = (IF j = k THEN x ELSE q[j]) /\ d[i] = (IF i = Len(p) + k THEN x ELSE c[i])
      BY <1>2, <1>4, <3>1, <3>2
    <3>4. i = Len(p) + k <=> j = k
      <4>1. Len(p) \in Nat /\ j \in Int /\ k \in Int
        BY <1>1
      <4>2. QED
        BY <3>1, <4>1
    <3>5. QED
      BY <3>2, <3>3, <3>4
  <2>4. QED
    BY <1>1, <1>3, <2>2, <2>3
<1>6. a = d
  BY <1>1, <1>3, <1>4, <1>5
<1>7. QED
  BY <1>1, <1>6 DEF a, d, c, e, Cat

LEMMA Reassociate == \A S : \A p, v, w \in Seq(S) : Cat(Cat(p, v), w) = Cat(p, Cat(v, w))
  BY ConcatAssociative DEF Cat

LEMMA CatType ==
    ASSUME NEW S, NEW p \in Seq(S), NEW q \in Seq(S)
    PROVE  /\ Cat(p, q) \in Seq(S) /\ Len(Cat(p, q)) = Len(p) + Len(q)
           /\ Cat(p, <<>>) = p /\ Cat(<<>>, p) = p
           /\ Cat(p, q) = <<>> <=> p = <<>> /\ q = <<>>
  BY DEF Cat

LEMMA CatAppend ==
    ASSUME NEW S, NEW p \in Seq(S), NEW q \in Seq(S), NEW x \in S
    PROVE  Cat(p, Append(q, x)) = Append(Cat(p, q), x)
  BY ConcatAppend DEF Cat

LEMMA CatShift ==
    ASSUME NEW S, NEW p \in Seq(S), NEW q \in Seq(S), q # <<>>
    PROVE  Cat(Append(p, Head(q)), Tail(q)) = Cat(p, q)
  BY ConcatShift DEF Cat

LEMMA CatPop ==
    ASSUME NEW S, NEW p \in Seq(S), NEW q \in Seq(S), p # <<>>
    PROVE  Cat(p, q) # <<>> /\ Head(Cat(p, q)) = Head(p) /\ Cat(Tail(p), q) = Tail(Cat(p, q))
  BY ConcatPop DEF Cat

LEMMA OccursCat ==
    ASSUME NEW S, NEW p \in Seq(S), NEW q \in Seq(S), NEW b
    PROVE  Occurs(Cat(p, q), b) = Occurs(p, b) + Occurs(q, b)
  BY OccursConcat DEF Cat

LEMMA OccursPut ==
    ASSUME NEW S, NEW q \in Seq(S), NEW k \in 1 .. Len(q), NEW x \in S, NEW b, q[k] # b
    PROVE  Occurs(Put(q, k, x), b) = Occurs(q, b) + One(x = b)
  BY OccursExcept DEF Put

LEMMA PutType ==
    ASSUME NEW S, NEW q \in Seq(S), NEW k \in 1 .. Len(q), NEW x \in S
    PROVE  /\ Put(q, k, x) \in Seq(S) /\ Len(Put(q, k, x)) = Len(q)
           /\ \A i \in 1 .. Len(q) : Put(q, k, x)[i] = IF i = k THEN x ELSE q[i]
  BY DEF Put

(***************************************************************************)
(* RPi::Stream                                                             *)
(***************************************************************************)

LEMMA BufferNames ==
    /\ Rpi!Internal(1) # Rpi!Internal(2) /\ Rpi!Null # Rpi!Internal(1) /\ Rpi!Null # Rpi!Internal(2)
    /\ \A r : Rpi!OfRequest(r) # Rpi!Null /\ Rpi!OfRequest(r) # Rpi!Internal(1) /\ Rpi!OfRequest(r) # Rpi!Internal(2)
    /\ \A r, u : Rpi!OfRequest(r) = Rpi!OfRequest(u) => r = u
<1>1. \A i, j : Rpi!Internal(i) = Rpi!Internal(j) => i = j
  <2>1. SUFFICES ASSUME NEW i, NEW j, Rpi!Internal(i) = Rpi!Internal(j) PROVE i = j
    OBVIOUS
  <2>2. Rpi!Internal(i).id = i /\ Rpi!Internal(j).id = j
    BY DEF Rpi!Internal
  <2>3. QED
    BY <2>1, <2>2
<1>2. \A i, r : Rpi!OfRequest(r) # Rpi!Internal(i)
  <2>1. SUFFICES ASSUME NEW i, NEW r, Rpi!OfRequest(r) = Rpi!Internal(i) PROVE FALSE
    OBVIOUS
  <2>2. Rpi!OfRequest(r).request = <<r>> /\ Rpi!Internal(i).request = <<>>
    BY DEF Rpi!OfRequest, Rpi!Internal
  <2>3. QED
    BY <2>1, <2>2
<1>3. \A r, u : Rpi!OfRequest(r) = Rpi!OfRequest(u) => r = u
  <2>1. SUFFICES ASSUME NEW r, NEW u, Rpi!OfRequest(r) = Rpi!OfRequest(u) PROVE r = u
    OBVIOUS
  <2>2. Rpi!OfRequest(r).request = <<r>> /\ Rpi!OfRequest(u).request = <<u>>
    BY DEF Rpi!OfRequest
  <2>3. <<r>> = <<u>>
    BY <2>1, <2>2
  <2>4. QED
    BY <2>3
<1>4. QED
  BY <1>1, <1>2, <1>3 DEF Rpi!Null

LEMMA StreamParts ==
    ASSUME NEW B, NEW n, NEW Q \in SUBSET (B \cup {n}), NEW st \in StreamOf(B, Q)
    PROVE  /\ st.available \in Seq(B) /\ st.requests \in Seq(Q) /\ st.requests \in Seq(B \cup {n}) /\ st.device \in Seq(B)
           /\ st.device \in Seq(B \cup {n}) /\ Cat(st.device, st.requests) \in Seq(B \cup {n})
<1>1. st.available \in Seq(B) /\ st.requests \in Seq(Q) /\ st.device \in Seq(B)
  BY DEF StreamOf
<1>2. Seq(B) \subseteq Seq(B \cup {n}) /\ Seq(Q) \subseteq Seq(B \cup {n})
  OBVIOUS
<1>3. st.device \in Seq(B \cup {n}) /\ st.requests \in Seq(B \cup {n})
  BY <1>1, <1>2
<1>4. Cat(st.device, st.requests) \in Seq(B \cup {n})
  BY <1>1, <1>3 DEF Cat
<1>5. QED
  BY <1>1, <1>3, <1>4

\* queueBuffer() puts one buffer at the end of the line, or a request for one.
LEMMA QueueBufferSound ==
    ASSUME NEW B, NEW x \in B, Rpi!Null \notin B, NEW Q \in SUBSET (B \cup {Rpi!Null}), NEW st \in StreamOf(B, Q),
           AtHand(st, x, Rpi!Null), NEW b \in Q, NEW t, t = Rpi!queueBuffer(st, b)
    PROVE  /\ t \in StreamOf(B, Q) /\ AtHand(t, x, Rpi!Null)
           /\ \/ t.available = st.available /\ Cat(t.device, t.requests) = Append(Cat(st.device, st.requests), b)
              \/ /\ b = Rpi!Null /\ st.available = <<x>> /\ t.available = <<>>
                 /\ Cat(t.device, t.requests) = Append(Cat(st.device, st.requests), x)
<1> DEFINE n == Rpi!Null
<1>0. st \in StreamOf(B, Q) /\ Q \in SUBSET (B \cup {n}) /\ b \in Q
  OBVIOUS
<1> HIDE DEF n
<1>1. /\ st.available \in Seq(B) /\ st.requests \in Seq(B \cup {n}) /\ st.device \in Seq(B)
      /\ st.device \in Seq(B \cup {n}) /\ Cat(st.device, st.requests) \in Seq(B \cup {n}) /\ st.requests \in Seq(Q)
  BY StreamParts DEF n
<1>2. CASE b = n /\ st.available = <<x>>
  <2>1. st.requests = <<>> /\ Tail(<<x>>) = <<>> /\ Head(<<x>>) = x /\ <<x>> # <<>> /\ x # n
    BY <1>2 DEF AtHand, n
  <2> DEFINE u == [st EXCEPT !.available = <<>>]
  <2>2. u \in StreamOf(B, Q) /\ u.available = <<>> /\ u.requests = <<>> /\ u.device = st.device
    <3>1. <<>> \in Seq(B)
      OBVIOUS
    <3>2. QED
      BY <1>0, <2>1, <3>1 DEF StreamOf
  <2>3. t = [u EXCEPT !.device = Append(@, x)]
    BY <1>2, <2>1 DEF Rpi!queueBuffer, n
  <2>4. Append(st.device, x) \in Seq(B)
    BY <1>1
  <2> HIDE DEF u
  <2>5. t \in StreamOf(B, Q) /\ t.available = <<>> /\ t.requests = <<>> /\ t.device = Append(st.device, x)
    BY <2>2, <2>3, <2>4 DEF StreamOf
  <2>6. Cat(t.device, t.requests) = Append(st.device, x) /\ Cat(st.device, st.requests) = st.device
    BY <1>1, <2>1, <2>4, <2>5, CatType
  <2>7. QED
    BY <1>2, <2>5, <2>6 DEF AtHand, n
<1>3. CASE ~(b = n /\ st.available = <<x>>)
  <2>1. b = n => st.available = <<>>
    BY <1>3 DEF AtHand, n
  <2>2. CASE b = n \/ st.requests # <<>>
    <3>1. t = [st EXCEPT !.requests = Append(@, b)]
      BY <2>1, <2>2 DEF Rpi!queueBuffer, n
    <3>2. Append(st.requests, b) \in Seq(Q)
      BY <1>0, <1>1
    <3>3. t \in StreamOf(B, Q) /\ t.available = st.available /\ t.requests = Append(st.requests, b) /\ t.device = st.device
      BY <1>0, <3>1, <3>2 DEF StreamOf
    <3>4. Append(st.requests, b)[1] = (IF st.requests = <<>> THEN b ELSE st.requests[1])
      BY <1>1
    <3>5. t.available = <<>> /\ t.requests[1] = n
      BY <2>1, <2>2, <3>3, <3>4 DEF AtHand, n
    <3>6. Cat(t.device, t.requests) = Append(Cat(st.device, st.requests), b)
      <4> DEFINE S == B \cup {n}
                 d == st.device
                 w == st.requests
      <4>1. d \in Seq(S) /\ w \in Seq(S) /\ b \in S
        BY <1>0, <1>1
      <4> HIDE DEF S, d, w
      <4>2. Cat(d, Append(w, b)) = Append(Cat(d, w), b)
        BY <4>1, CatAppend
      <4>3. QED
        BY <3>3, <4>2, Zenon DEF d, w
    <3>7. QED
      BY <3>3, <3>5, <3>6 DEF AtHand, n
  <2>3. CASE b # n /\ st.requests = <<>>
    <3>1. t = [st EXCEPT !.device = Append(@, b)]
      BY <2>3 DEF Rpi!queueBuffer, n
    <3>2. Append(st.device, b) \in Seq(B)
      BY <1>0, <1>1, <2>3
    <3>3. t \in StreamOf(B, Q) /\ t.available = st.available /\ t.requests = <<>> /\ t.device = Append(st.device, b)
      BY <1>0, <2>3, <3>1, <3>2 DEF StreamOf
    <3>4. Cat(t.device, t.requests) = Append(st.device, b) /\ Cat(st.device, st.requests) = st.device
      BY <1>1, <2>3, <3>2, <3>3, CatType
    <3>5. QED
      BY <3>3, <3>4 DEF AtHand, n
  <2>4. QED
    BY <2>2, <2>3
<1>4. QED
  BY <1>2, <1>3

\* How far the requests are served with one buffer: up to the second that needs one.
Nulls(q, n, k) == Cardinality({i \in 1 .. k : q[i] = n})
Reach(q, n, k) == Nulls(q, n, k) <= 1 /\ (k < Len(q) => Nulls(q, n, k + 1) > 1)

LEMMA ServedSound ==
    ASSUME NEW S, NEW q \in Seq(S), NEW n, q # <<>>, q[1] = n
    PROVE  /\ \E k \in 0 .. Len(q) : Reach(q, n, k)
           /\ \A k \in 0 .. Len(q) : Reach(q, n, k) =>
                  /\ k >= 1 /\ (\A i \in 2 .. k : q[i] # n) /\ (k < Len(q) => q[k + 1] = n)
                  /\ \A i \in 1 .. k : Nulls(q, n, i) = 1
<1> DEFINE A(k) == {i \in 1 .. k : q[i] = n}
<1>1. Len(q) \in Nat \ {0}
  OBVIOUS
<1>2. \A k \in 0 .. Len(q) : IsFiniteSet(A(k)) /\ Cardinality(A(k)) \in Nat /\ Nulls(q, n, k) = Cardinality(A(k))
  <2>1. SUFFICES ASSUME NEW k \in 0 .. Len(q)
                 PROVE  IsFiniteSet(A(k)) /\ Cardinality(A(k)) \in Nat /\ Nulls(q, n, k) = Cardinality(A(k))
    OBVIOUS
  <2>2. IsFiniteSet(1 .. k)
    BY FS_Interval
  <2>3. IsFiniteSet(A(k))
    BY <2>2, FS_Subset
  <2>4. QED
    BY <2>3, FS_CardinalityType DEF Nulls
<1>3. \A k \in 1 .. Len(q) : (\A i \in 2 .. k : q[i] # n) => Nulls(q, n, k) = 1
  <2>1. SUFFICES ASSUME NEW k \in 1 .. Len(q), \A i \in 2 .. k : q[i] # n PROVE Nulls(q, n, k) = 1
    OBVIOUS
  <2>2. A(k) = {1} /\ k \in 0 .. Len(q)
    BY <1>1, <2>1
  <2>3. Nulls(q, n, k) = Cardinality({1})
    BY <2>2 DEF Nulls
  <2>4. QED
    BY <2>3, FS_Singleton
<1>4. \A k \in 1 .. Len(q) : Nulls(q, n, k) <= 1 => \A i \in 2 .. k : q[i] # n
  <2>1. SUFFICES ASSUME NEW k \in 1 .. Len(q), NEW i \in 2 .. k, q[i] = n PROVE ~(Nulls(q, n, k) <= 1)
    OBVIOUS
  <2>2. {1, i} \in SUBSET A(k) /\ 1 # i
    BY <1>1, <2>1
  <2>3. Cardinality({1, i}) = 2
    <3> DEFINE X == {1}
    <3>1. IsFiniteSet(X) /\ Cardinality(X) = 1 /\ {1, i} = X \cup {i} /\ i \notin X
      BY <2>2, FS_Singleton
    <3> HIDE DEF X
    <3>2. Cardinality(X \cup {i}) = Cardinality(X) + 1
      BY <3>1, FS_AddElement
    <3>3. Cardinality(X \cup {i}) = 2
      BY <3>1, <3>2
    <3>4. QED
      BY <3>1, <3>3, Zenon
  <2>4. Cardinality({1, i}) <= Cardinality(A(k))
    BY <1>2, <2>2, FS_Subset
  <2>5. Nulls(q, n, k) = Cardinality(A(k)) /\ Cardinality(A(k)) \in Nat
    <3>1. k \in 0 .. Len(q)
      BY <1>1
    <3>2. QED
      BY <1>2, <3>1
  <2> HIDE DEF A
  <2>6. QED
    BY <2>3, <2>4, <2>5
<1>5. Nulls(q, n, 0) = 0
  <2>1. A(0) = {}
    OBVIOUS
  <2>2. QED
    BY <1>1, <1>2, <2>1, FS_EmptySet
<1> HIDE DEF A
<1>6. \E k \in 0 .. Len(q) : Reach(q, n, k)
  <2> DEFINE T == {i \in 2 .. Len(q) : q[i] = n}
  <2>1. CASE T = {}
    <3>1. Nulls(q, n, Len(q)) = 1
      BY <1>1, <1>3, <2>1
    <3>2. QED
      BY <1>1, <3>1 DEF Reach
  <2>2. CASE T # {}
    <3>1. PICK m \in T : \A y \in T : m <= y
      <4>1. T \in SUBSET Nat
        BY <1>1
      <4> HIDE DEF T
      <4>2. QED
        BY <2>2, <4>1, SmallestMember
    <3>2. m \in 2 .. Len(q) /\ q[m] = n /\ m - 1 \in 1 .. Len(q) /\ (m - 1) + 1 = m
      BY <1>1, <3>1
    <3>3. \A i \in 2 .. m - 1 : q[i] # n
      BY <1>1, <3>1, <3>2
    <3>4. Nulls(q, n, m - 1) = 1
      BY <1>3, <3>2, <3>3
    <3>5. ~(Nulls(q, n, m) <= 1) /\ Nulls(q, n, m) \in Nat
      BY <1>1, <1>2, <1>4, <3>2
    <3>6. QED
      BY <1>1, <3>2, <3>4, <3>5 DEF Reach
  <2>3. QED
    BY <2>1, <2>2
<1>7. ASSUME NEW k \in 0 .. Len(q), Reach(q, n, k)
      PROVE  /\ k >= 1 /\ (\A i \in 2 .. k : q[i] # n) /\ (k < Len(q) => q[k + 1] = n)
             /\ \A i \in 1 .. k : Nulls(q, n, i) = 1
  <2>1. Nulls(q, n, 1) = 1
    BY <1>1, <1>3
  <2>2. k >= 1
    <3>1. k # 0
      BY <1>1, <1>7, <2>1 DEF Reach
    <3>2. QED
      BY <1>1, <3>1
  <2>3. \A i \in 2 .. k : q[i] # n
    BY <1>1, <1>4, <1>7, <2>2 DEF Reach
  <2>4. ASSUME k < Len(q), q[k + 1] # n PROVE FALSE
    <3>1. k + 1 \in 1 .. Len(q) /\ \A i \in 2 .. k + 1 : q[i] # n
      BY <1>1, <2>2, <2>3, <2>4
    <3>2. Nulls(q, n, k + 1) = 1
      BY <1>3, <3>1
    <3>3. QED
      BY <1>7, <2>4, <3>2 DEF Reach
  <2>5. \A i \in 1 .. k : Nulls(q, n, i) = 1
    BY <1>1, <1>3, <2>3
  <2>6. QED
    BY <2>2, <2>3, <2>4, <2>5
<1>8. QED
  BY <1>6, <1>7

LEMMA SplicedLine ==
    ASSUME NEW S, NEW d \in Seq(S), NEW q \in Seq(S), q # <<>>, NEW v \in Seq(S), NEW w \in Seq(S), NEW x \in S,
           Cat(v, w) = Put(q, 1, x)
    PROVE  /\ Len(d) + 1 \in 1 .. Len(Cat(d, q)) /\ Cat(d, q)[Len(d) + 1] = q[1]
           /\ Cat(Cat(d, v), w) = Put(Cat(d, q), Len(d) + 1, x)
<1>1. Cat(Cat(d, v), w) = Cat(d, Cat(v, w))
  BY Reassociate
<1>2. 1 \in 1 .. Len(q)
  OBVIOUS
<1>3. /\ Len(d) + 1 \in 1 .. Len(Cat(d, q)) /\ Cat(d, q)[Len(d) + 1] = q[1]
      /\ Cat(d, Put(q, 1, x)) = Put(Cat(d, q), Len(d) + 1, x)
  BY <1>2, ExceptAfter
<1>4. QED
  BY <1>1, <1>3, Zenon

ReturnExternal(st, x) == Rpi!returnBuffer(st, x, TRUE)

LEMMA ReturnBufferIs ==
    ASSUME NEW st, NEW x, st.available = <<>>
    PROVE  LET q == st.requests
               k == CHOOSE j \in 0 .. Len(q) : Reach(q, Rpi!Null, j)
           IN  ReturnExternal(st, x) =
                   [available |-> SubSeq(<<x>>, Nulls(q, Rpi!Null, k) + 1, 1),
                    requests  |-> SubSeq(q, k + 1, Len(q)),
                    device    |-> st.device \o [i \in 1 .. k |->
                                      IF q[i] = Rpi!Null THEN <<x>>[Nulls(q, Rpi!Null, i)] ELSE q[i]]]
<1>1. Append(st.available, x) = <<x>> /\ Len(<<x>>) = 1
  OBVIOUS
<1>2. \A S : Rpi!Cardinality(S) = Cardinality(S)
  BY DEF Rpi!Cardinality, Cardinality
<1>3. QED
  BY <1>1, <1>2, Zenon DEF ReturnExternal, Rpi!returnBuffer, Reach, Nulls

Served(q, n, x, k) == [i \in 1 .. k |-> IF q[i] = n THEN <<x>>[Nulls(q, n, i)] ELSE q[i]]
Rest(q, k) == SubSeq(q, k + 1, Len(q))

Completes(S, B, n) == B \subseteq S /\ \A y \in S : y # n => y \in B

\* The internal buffer x takes the place of the first request for one, and the requests
\* behind it are served up to the next one.
LEMMA ServeLine ==
    ASSUME NEW B, NEW n, NEW S, Completes(S, B, n), NEW x \in B, NEW d \in Seq(B),
           NEW q \in Seq(S), q # <<>>, q[1] = n, NEW k \in 0 .. Len(q), Reach(q, n, k)
    PROVE  /\ Nulls(q, n, k) = 1 /\ Rest(q, k) \in Seq(S) /\ Cat(d, Served(q, n, x, k)) \in Seq(B)
           /\ Rest(q, k) = <<>> \/ Rest(q, k)[1] = n
           /\ Len(d) + 1 \in 1 .. Len(Cat(d, q)) /\ Cat(d, q)[Len(d) + 1] = n
           /\ Cat(Cat(d, Served(q, n, x, k)), Rest(q, k)) = Put(Cat(d, q), Len(d) + 1, x)
<1> DEFINE served == Served(q, n, x, k)
           rest == Rest(q, k)
<1>1. Len(q) \in Nat /\ x \in S /\ d \in Seq(S)
  BY DEF Completes
<1>2. /\ k >= 1 /\ (\A i \in 2 .. k : q[i] # n) /\ (k < Len(q) => q[k + 1] = n)
      /\ \A i \in 1 .. k : Nulls(q, n, i) = 1
  BY ServedSound
<1>3. k \in 1 .. Len(q)
  BY <1>1, <1>2
<1>4. rest \in Seq(S) /\ Len(rest) = Len(q) - k /\ \A i \in 1 .. Len(rest) : rest[i] = q[k + i]
  BY <1>1, <1>3 DEF Rest
<1>5. \A i \in 1 .. k : /\ (IF q[i] = n THEN <<x>>[Nulls(q, n, i)] ELSE q[i]) = (IF i = 1 THEN x ELSE q[i])
                       /\ (IF i = 1 THEN x ELSE q[i]) \in B
  <2>1. SUFFICES ASSUME NEW i \in 1 .. k
                 PROVE  /\ (IF q[i] = n THEN <<x>>[Nulls(q, n, i)] ELSE q[i]) = (IF i = 1 THEN x ELSE q[i])
                        /\ (IF i = 1 THEN x ELSE q[i]) \in B
    OBVIOUS
  <2>2. CASE i = 1
    BY <1>2, <2>2
  <2>3. CASE i # 1
    <3>1. i \in 2 .. k /\ i \in 1 .. Len(q)
      BY <1>1, <1>3, <2>3
    <3>2. q[i] # n /\ q[i] \in S
      BY <1>2, <3>1
    <3>3. QED
      BY <2>3, <3>2 DEF Completes
  <2>4. QED
    BY <2>2, <2>3
<1>6. served \in Seq(B) /\ Len(served) = k /\ \A i \in 1 .. k : served[i] = IF i = 1 THEN x ELSE q[i]
  <2>1. served = [i \in 1 .. k |-> IF i = 1 THEN x ELSE q[i]]
    BY <1>5 DEF Served
  <2>2. \A i \in 1 .. k : (IF i = 1 THEN x ELSE q[i]) \in B
    BY <1>5
  <2>3. k \in Nat
    BY <1>1
  <2> HIDE DEF served
  <2>4. served \in [1 .. k -> B]
    BY <2>1, <2>2
  <2>5. served \in Seq(B) /\ Len(served) = k
    BY <2>3, <2>4
  <2>6. QED
    BY <2>1, <2>5
<1> HIDE DEF served, rest
<1>7. served \in Seq(S)
  <2>1. \A w \in Seq(B) : w \in Seq(S)
    BY DEF Completes
  <2>2. QED
    BY <1>6, <2>1
<1>8. rest # <<>> => rest[1] = n
  <2>1. SUFFICES ASSUME rest # <<>> PROVE rest[1] = n
    OBVIOUS
  <2>2. Len(rest) >= 1
    BY <1>4, <2>1
  <2>3. k < Len(q) /\ rest[1] = q[k + 1]
    BY <1>1, <1>3, <1>4, <2>2
  <2>4. QED
    BY <1>2, <2>3
<1> DEFINE a == Cat(served, rest)
           e == Put(q, 1, x)
<1>9. /\ a \in Seq(S) /\ Len(a) = k + Len(rest)
      /\ \A i \in 1 .. k : a[i] = served[i]
      /\ \A i \in 1 .. Len(rest) : a[k + i] = rest[i]
  <2>1. \A p, w \in Seq(S) :
            /\ p \o w \in Seq(S) /\ Len(p \o w) = Len(p) + Len(w)
            /\ \A i \in 1 .. Len(p) : (p \o w)[i] = p[i]
            /\ \A i \in 1 .. Len(w) : (p \o w)[Len(p) + i] = w[i]
    BY ConcatIndexing
  <2>2. Len(served) = k
    BY <1>6
  <2>3. rest \in Seq(S)
    BY <1>4
  <2>4. /\ served \o rest \in Seq(S) /\ Len(served \o rest) = Len(served) + Len(rest)
        /\ \A i \in 1 .. Len(served) : (served \o rest)[i] = served[i]
        /\ \A i \in 1 .. Len(rest) : (served \o rest)[Len(served) + i] = rest[i]
    BY <1>7, <2>1, <2>3, Zenon
  <2>5. QED
    BY <2>2, <2>4, Zenon DEF Cat
<1>10. e \in Seq(S) /\ Len(e) = Len(q) /\ \A i \in 1 .. Len(q) : e[i] = IF i = 1 THEN x ELSE q[i]
  BY <1>1 DEF Put
<1> HIDE DEF a, e
<1>11. Len(a) = Len(q)
  BY <1>1, <1>3, <1>4, <1>9
<1>12. \A i \in 1 .. Len(q) : a[i] = e[i]
  <2>1. SUFFICES ASSUME NEW i \in 1 .. Len(q) PROVE a[i] = e[i]
    OBVIOUS
  <2>2. CASE i <= k
    <3>1. i \in 1 .. k
      BY <1>1, <1>3, <2>2
    <3>2. QED
      BY <1>6, <1>9, <1>10, <3>1
  <2>3. CASE i > k
    <3>1. i - k \in 1 .. Len(rest) /\ i = k + (i - k) /\ i # 1
      BY <1>1, <1>3, <1>4, <2>3
    <3>2. a[i] = rest[i - k] /\ rest[i - k] = q[i]
      <4>1. PICK j \in 1 .. Len(rest) : j = i - k /\ i = k + j
        BY <3>1
      <4>2. QED
        BY <1>4, <1>9, <4>1
    <3>3. QED
      BY <1>10, <3>1, <3>2
  <2>4. QED
    BY <1>1, <1>3, <2>2, <2>3
<1>13. a = e
  <2>1. a \in Seq(S) /\ e \in Seq(S) /\ Len(a) = Len(e) /\ \A i \in 1 .. Len(a) : a[i] = e[i]
    BY <1>9, <1>10, <1>11, <1>12
  <2>2. QED
    BY <2>1
<1>14. Cat(d, served) \in Seq(B)
  BY <1>6 DEF Cat
<1>15. Cat(served, rest) = Put(q, 1, x) /\ rest \in Seq(S)
  BY <1>4, <1>13 DEF a, e
<1>16. /\ Len(d) + 1 \in 1 .. Len(Cat(d, q)) /\ Cat(d, q)[Len(d) + 1] = q[1]
       /\ Cat(Cat(d, served), rest) = Put(Cat(d, q), Len(d) + 1, x)
  BY <1>1, <1>7, <1>15, SplicedLine
<1>17. Nulls(q, n, k) = 1
  BY <1>2, <1>3
<1>18. QED
  BY <1>4, <1>8, <1>14, <1>16, <1>17, Zenon DEF served, rest

LEMMA FirstOfOne ==
    ASSUME NEW x
    PROVE  SubSeq(<<x>>, 1, 1) = <<x>>
<1> DEFINE q == SubSeq(<<x>>, 1, 1)
<1>1. q \in Seq({x}) /\ Len(q) = 1 /\ q[1] = x
  OBVIOUS
<1> HIDE DEF q
<1>2. q = <<x>>
  BY <1>1
<1>3. QED
  BY <1>2 DEF q

Drained(st) == st.available = <<>>

\* returnBuffer() puts the internal buffer into the pool, or in the place of the first
\* request for one.
LEMMA ReturnBufferSound ==
    ASSUME NEW B, NEW x \in B, Rpi!Null \notin B, NEW Q \in SUBSET (B \cup {Rpi!Null}), NEW st \in StreamOf(B, Q),
           AtHand(st, x, Rpi!Null), Drained(st), NEW t, t = ReturnExternal(st, x)
    PROVE  /\ t \in StreamOf(B, Q) /\ AtHand(t, x, Rpi!Null)
           /\ \/ t.available = <<x>> /\ Cat(t.device, t.requests) = Cat(st.device, st.requests)
              \/ /\ t.available = <<>> /\ Len(st.device) + 1 \in 1 .. Len(Cat(st.device, st.requests))
                 /\ Cat(st.device, st.requests)[Len(st.device) + 1] = Rpi!Null
                 /\ Cat(t.device, t.requests) = Put(Cat(st.device, st.requests), Len(st.device) + 1, x)
<1> DEFINE n == Rpi!Null
           S == B \cup {n}
           q == st.requests
           d == st.device
           k == CHOOSE j \in 0 .. Len(q) : Reach(q, n, j)
           served == Served(q, n, x, k)
           rest == Rest(q, k)
           a == SubSeq(<<x>>, Nulls(q, n, k) + 1, 1)
           dev == Cat(d, served)
<1>1. st \in StreamOf(B, Q) /\ n \notin B /\ Q \in SUBSET S
  OBVIOUS
<1>2. t = [available |-> a, requests |-> rest, device |-> dev]
  BY ReturnBufferIs DEF Served, Rest, Drained, Cat
<1>3. q \in Seq(S) /\ q \in Seq(Q) /\ d \in Seq(B) /\ d \in Seq(S)
  BY <1>1, StreamParts
<1>4. q # <<>> => q[1] = n
  BY DEF AtHand
<1> HIDE DEF n, S, q, d, k, served, rest, a, dev
<1>5. t.available = a /\ t.requests = rest /\ t.device = dev
  BY <1>2
<1>6. ASSUME a \in Seq(B), rest \in Seq(Q), dev \in Seq(B)
      PROVE  t \in StreamOf(B, Q)
  BY <1>2, <1>6 DEF StreamOf
<1>7. CASE q = <<>>
  <2>1. \A j \in 0 .. Len(q) : j = 0
    BY <1>7
  <2>2. Nulls(q, n, 0) = 0
    <3>1. {i \in 1 .. 0 : q[i] = n} = {}
      OBVIOUS
    <3>2. QED
      BY <3>1, FS_EmptySet DEF Nulls
  <2>3. Reach(q, n, 0) /\ 0 \in 0 .. Len(q)
    BY <1>7, <2>2 DEF Reach
  <2>4. k = 0
    BY <2>1, <2>3 DEF k
  <2>5. rest = <<>> /\ served = <<>>
    BY <1>7, <2>4 DEF rest, served, Rest, Served
  <2>6. a = <<x>>
    <3>1. SubSeq(<<x>>, 1, 1) = <<x>>
      BY FirstOfOne
    <3>2. Nulls(q, n, k) + 1 = 1
      BY <2>2, <2>4
    <3>3. QED
      BY <3>1, <3>2, Zenon DEF a
  <2>7. dev = d
    <3>1. d \o <<>> = d
      BY <1>3
    <3>2. QED
      BY <2>5, <3>1, Zenon DEF dev, Cat
  <2>8. t \in StreamOf(B, Q)
    <3>1. <<x>> \in Seq(B) /\ <<>> \in Seq(Q)
      OBVIOUS
    <3>2. QED
      BY <1>3, <1>6, <2>5, <2>6, <2>7, <3>1, Zenon
  <2>9. t.available = <<x>> /\ t.requests = <<>> /\ t.device = d
    BY <1>5, <2>5, <2>6, <2>7, Zenon
  <2>10. AtHand(t, x, n) /\ Cat(t.device, t.requests) = Cat(d, q)
    BY <1>7, <2>9, Zenon DEF AtHand
  <2>11. QED
    BY <2>8, <2>9, <2>10, Zenon DEF n, d, q
<1>8. CASE q # <<>>
  <2>1. \E j \in 0 .. Len(q) : Reach(q, n, j)
    BY <1>3, <1>4, <1>8, ServedSound
  <2>2. k \in 0 .. Len(q) /\ Reach(q, n, k)
    BY <2>1 DEF k
  <2>3. /\ Nulls(q, n, k) = 1 /\ rest \in Seq(S) /\ dev \in Seq(B) /\ (rest = <<>> \/ rest[1] = n)
        /\ Len(d) + 1 \in 1 .. Len(Cat(d, q)) /\ Cat(d, q)[Len(d) + 1] = n
        /\ Cat(dev, rest) = Put(Cat(d, q), Len(d) + 1, x)
    <3>1. Completes(S, B, n)
      BY DEF S, Completes
    <3>2. q[1] = n
      BY <1>4, <1>8
    <3>3. /\ Nulls(q, n, k) = 1 /\ Rest(q, k) \in Seq(S) /\ Cat(d, Served(q, n, x, k)) \in Seq(B)
          /\ Rest(q, k) = <<>> \/ Rest(q, k)[1] = n
          /\ Len(d) + 1 \in 1 .. Len(Cat(d, q)) /\ Cat(d, q)[Len(d) + 1] = n
          /\ Cat(Cat(d, Served(q, n, x, k)), Rest(q, k)) = Put(Cat(d, q), Len(d) + 1, x)
      BY <1>3, <1>8, <2>2, <3>1, <3>2, ServeLine
    <3>4. QED
      BY <3>3, Zenon DEF served, rest, dev
  <2>4. a = <<>>
    <3>1. SubSeq(<<x>>, 2, 1) = <<>>
      OBVIOUS
    <3>2. Nulls(q, n, k) + 1 = 2
      BY <2>3
    <3>3. QED
      BY <3>1, <3>2, Zenon DEF a
  <2>5. t \in StreamOf(B, Q)
    <3>1. <<>> \in Seq(B)
      OBVIOUS
    <3>2. rest \in Seq(Q)
      BY <1>3, <2>2 DEF rest, Rest
    <3>3. QED
      BY <1>6, <2>3, <2>4, <3>1, <3>2, Zenon
  <2>6. AtHand(t, x, n) /\ t.available = <<>>
    BY <1>5, <2>3, <2>4, Zenon DEF AtHand
  <2>7. Cat(t.device, t.requests) = Put(Cat(d, q), Len(d) + 1, x)
    BY <1>5, <2>3, Zenon
  <2>8. QED
    BY <2>3, <2>5, <2>6, <2>7, Zenon DEF n, d, q
<1>9. QED
  BY <1>7, <1>8

(***************************************************************************)
(* The buffers of a stream                                                 *)
(***************************************************************************)

LEMMA ExternalStreams ==
    /\ ~Rpi!External("embedded") /\ ~Rpi!External("stats") /\ Rpi!External("output")
    /\ Rpi!External("image") <=> config.raw
    /\ \A s \in Rpi!Stream : Rpi!External(s) => s \in {"image", "output"}
  BY DEF Rpi!External, Rpi!Stream

LEMMA BufferSets ==
    ASSUME NEW s \in Rpi!Stream
    PROVE  /\ Rpi!Null \notin BuffersOf(s) /\ Rpi!Internal(1) \in BuffersOf(s)
           /\ 1 \in Pool(s) /\ Pool(s) \subseteq {1, 2} /\ (Rpi!External(s) => Pool(s) = {1})
           /\ \A i \in Pool(s) : Rpi!Internal(i) \in BuffersOf(s) /\ Rpi!Internal(i) # Rpi!Null
           /\ \A i \in Pool(s) : Rpi!Internal(i) \notin FromRequests(s)
           /\ \A x \in BuffersOf(s) : \/ \E i \in Pool(s) : x = Rpi!Internal(i)
                                      \/ Rpi!External(s) /\ \E r \in Pair : x = Rpi!OfRequest(r)
           /\ FromRequests(s) \subseteq BuffersOf(s)
           /\ BuffersOf(s) \subseteq Tokens(s) /\ FromRequests(s) \cup {Rpi!Null} \subseteq Tokens(s)
           /\ Rpi!Null \in Tokens(s)
<1>1. 1 .. 2 = {1, 2}
  OBVIOUS
<1>2. 1 \in Pool(s) /\ Pool(s) \subseteq {1, 2} /\ (Rpi!External(s) => Pool(s) = {1})
  BY <1>1 DEF Pool, Rpi!External, Rpi!Stream
<1>3. \A i \in {1, 2} : Rpi!Internal(i) # Rpi!Null /\ \A r : Rpi!OfRequest(r) # Rpi!Internal(i)
  BY BufferNames
<1>4. QED
  BY <1>2, <1>3, BufferNames DEF BuffersOf, FromRequests, OfRequests, Tokens

LEMMA SequencesOf ==
    ASSUME NEW A, NEW B, A \subseteq B, NEW q \in Seq(A)
    PROVE  q \in Seq(B)
  OBVIOUS

\* Where the queues of a stream are.
LEMMA StreamQueues ==
    ASSUME PlaceTypes, NEW s \in Rpi!Stream
    PROVE  /\ streams[s] \in StreamOf(BuffersOf(s), FromRequests(s) \cup {Rpi!Null})
           /\ streams[s].device \in Seq(BuffersOf(s)) /\ streams[s].available \in Seq(BuffersOf(s))
           /\ streams[s].requests \in Seq(FromRequests(s) \cup {Rpi!Null})
           /\ streams[s].device \in Seq(Tokens(s)) /\ streams[s].requests \in Seq(Tokens(s))
           /\ done[s] \in Seq(Ready(BuffersOf(s)))
<1>1. streams[s] \in StreamOf(BuffersOf(s), FromRequests(s) \cup {Rpi!Null}) /\ done[s] \in Seq(Ready(BuffersOf(s)))
  BY DEF PlaceTypes, StreamType
<1>2. /\ streams[s].device \in Seq(BuffersOf(s)) /\ streams[s].available \in Seq(BuffersOf(s))
      /\ streams[s].requests \in Seq(FromRequests(s) \cup {Rpi!Null})
  BY <1>1 DEF StreamOf
<1>3. BuffersOf(s) \subseteq Tokens(s) /\ FromRequests(s) \cup {Rpi!Null} \subseteq Tokens(s)
  BY BufferSets
<1>4. streams[s].device \in Seq(Tokens(s)) /\ streams[s].requests \in Seq(Tokens(s))
  BY <1>2, <1>3, SequencesOf
<1>5. QED
  BY <1>1, <1>2, <1>4

LEMMA LineType ==
    ASSUME PlaceTypes, NEW s \in Rpi!Stream
    PROVE  Ahead(s) \in Seq(Tokens(s)) /\ Behind(s) \in Seq(Tokens(s)) /\ Line(s) \in Seq(Tokens(s))
<1>1. Behind(s) \in Seq(Tokens(s))
  BY StreamQueues, CatType DEF Behind
<1>2. ASSUME NEW q, NEW d, q \in Seq(Ready(BuffersOf(s))), d \in Seq(Ready(BuffersOf(s)))
      PROVE  Cat(Buffers(q), Buffers(d)) \in Seq(Tokens(s))
  <2>1. Buffers(q) \in Seq(BuffersOf(s)) /\ Buffers(d) \in Seq(BuffersOf(s))
    BY <1>2, BuffersOfQueue DEF Ready
  <2>2. Buffers(q) \in Seq(Tokens(s)) /\ Buffers(d) \in Seq(Tokens(s))
    BY <2>1, BufferSets, SequencesOf
  <2>3. QED
    BY <2>2, CatType
<1>3. Ahead(s) \in Seq(Tokens(s))
  <2>1. CASE s = "image"
    BY <1>2, <2>1, StreamQueues DEF Ahead, PlaceTypes
  <2>2. CASE s = "embedded"
    BY <1>2, <2>2, StreamQueues DEF Ahead, PlaceTypes
  <2>3. CASE s \notin {"image", "embedded"}
    <3>1. Ahead(s) = <<>>
      BY <2>3 DEF Ahead
    <3>2. QED
      BY <3>1
  <2>4. QED
    BY <2>1, <2>2, <2>3
<1>4. QED
  BY <1>1, <1>3, CatType DEF Line

LEMMA PartsOf ==
    ASSUME NEW S, NEW q \in Seq(S), NEW A \in SUBSET DOMAIN q
    PROVE  IsFiniteSet(A) /\ Cardinality(A) \in Nat
<1>1. Len(q) \in Nat /\ DOMAIN q = 1 .. Len(q)
  OBVIOUS
<1>2. IsFiniteSet(1 .. Len(q))
  BY <1>1, FS_Interval
<1>3. IsFiniteSet(A)
  BY <1>1, <1>2, FS_Subset
<1>4. QED
  BY <1>3, FS_CardinalityType

LEMMA WorkType ==
    ASSUME PlaceTypes, NEW b
    PROVE  /\ JobImage(b) \in Nat /\ JobEmbedded(b) \in Nat /\ JobStats(b) \in Nat
           /\ \A s \in Rpi!Stream : InWork(s, b) \in Nat
<1> DEFINE C == PrepareCall("prepareIsp") \cup StatsCall("processStats")
           E == PrepareCall("prepareIspComplete") \cup StatsCall("processStatsComplete") \cup {[op |-> "metadataReady"]}
<1>1. calls \in Seq(C) /\ events \in Seq(E) /\ input \in Seq(BuffersOf("image"))
  BY DEF PlaceTypes
<1> HIDE DEF C, E
<1>2. /\ ImageIn(calls, "prepareIsp", b) \in Nat /\ EmbeddedIn(calls, "prepareIsp", b) \in Nat
      /\ StatsIn(calls, "processStats", b) \in Nat
  <2>1. \A A \in SUBSET DOMAIN calls : Cardinality(A) \in Nat
    BY <1>1, PartsOf
  <2>2. QED
    BY <2>1 DEF ImageIn, EmbeddedIn, StatsIn
<1>3. /\ ImageIn(events, "prepareIspComplete", b) \in Nat /\ EmbeddedIn(events, "prepareIspComplete", b) \in Nat
      /\ StatsIn(events, "processStatsComplete", b) \in Nat
  <2>1. \A A \in SUBSET DOMAIN events : Cardinality(A) \in Nat
    BY <1>1, PartsOf
  <2>2. QED
    BY <2>1 DEF ImageIn, EmbeddedIn, StatsIn
<1>4. Occurs(input, b) \in Nat
  BY <1>1, OccursFinite
<1>5. \A s \in {"output", "stats", "input"} : Occurs(Buffers(done[s]), b) \in Nat
  <2>1. \A B : \A q \in Seq(Ready(B)) : Occurs(Buffers(q), b) \in Nat
    BY BuffersOfQueue, OccursFinite DEF Ready
  <2>2. /\ done["output"] \in Seq(Ready(BuffersOf("output"))) /\ done["stats"] \in Seq(Ready(BuffersOf("stats")))
        /\ done["input"] \in Seq(Ready(BuffersOf("image")))
    BY DEF PlaceTypes, StreamType, Rpi!Stream
  <2>3. QED
    BY <2>1, <2>2
<1>6. JobImage(b) \in Nat /\ JobEmbedded(b) \in Nat /\ JobStats(b) \in Nat
  BY <1>2, <1>3, <1>4, <1>5 DEF JobImage, JobEmbedded, JobStats
<1>7. QED
  BY <1>5, <1>6 DEF InWork

(***************************************************************************)
(* What the pipeline works on                                              *)
(***************************************************************************)

\* An image, embedded data and statistics, where Null stands for none.
WorkOn(i, e, t) ==
    \A b : b # Rpi!Null =>
        JobImage(b) = One(i = b) /\ JobEmbedded(b) = One(e = b) /\ JobStats(b) = One(t = b)

LEMMA NoneIs0 ==
    ASSUME NEW b, b # Rpi!Null
    PROVE  One(Rpi!Null = b) = 0
  BY DEF One

LEMMA PartsOfNone ==
    ASSUME NEW o, NEW b
    PROVE  ImageIn(<<>>, o, b) = 0 /\ EmbeddedIn(<<>>, o, b) = 0 /\ StatsIn(<<>>, o, b) = 0
<1>1. \A A \in SUBSET DOMAIN <<>> : A = {}
  OBVIOUS
<1>2. \A A \in SUBSET DOMAIN <<>> : Cardinality(A) = 0
  BY <1>1, FS_EmptySet
<1>3. QED
  BY <1>2 DEF ImageIn, EmbeddedIn, StatsIn

LEMMA PartsOfOne ==
    ASSUME NEW c, NEW o, NEW b
    PROVE  /\ ImageIn(<<c>>, o, b) = One(c.op = o /\ c.bayer = b)
           /\ EmbeddedIn(<<c>>, o, b) = One(c.op = o /\ c.embedded = b)
           /\ StatsIn(<<c>>, o, b) = One(c.op = o /\ c.stats = b)
<1>1. DOMAIN <<c>> = {1} /\ <<c>>[1] = c
  OBVIOUS
<1>2. \A A \in SUBSET {1} : Cardinality(A) = One(1 \in A)
  <2>1. \A A \in SUBSET {1} : A = IF 1 \in A THEN {1} ELSE {}
    OBVIOUS
  <2>2. Cardinality({1}) = 1 /\ Cardinality({}) = 0
    BY FS_Singleton, FS_EmptySet
  <2>3. QED
    BY <2>1, <2>2 DEF One
<1>3. QED
  BY <1>1, <1>2 DEF ImageIn, EmbeddedIn, StatsIn

LEMMA PartsOfTwo ==
    ASSUME NEW m, NEW e, NEW o, NEW b, m.op # o
    PROVE  /\ ImageIn(<<m, e>>, o, b) = One(e.op = o /\ e.bayer = b)
           /\ EmbeddedIn(<<m, e>>, o, b) = One(e.op = o /\ e.embedded = b)
           /\ StatsIn(<<m, e>>, o, b) = One(e.op = o /\ e.stats = b)
<1>1. DOMAIN <<m, e>> = {1, 2} /\ <<m, e>>[1] = m /\ <<m, e>>[2] = e
  OBVIOUS
<1>2. \A A \in SUBSET {1, 2} : 1 \notin A => Cardinality(A) = One(2 \in A)
  <2>1. \A A \in SUBSET {1, 2} : 1 \notin A => A = IF 2 \in A THEN {2} ELSE {}
    OBVIOUS
  <2>2. Cardinality({2}) = 1 /\ Cardinality({}) = 0
    BY FS_Singleton, FS_EmptySet
  <2>3. QED
    BY <2>1, <2>2 DEF One
<1>3. QED
  BY <1>1, <1>2 DEF ImageIn, EmbeddedIn, StatsIn

LEMMA BuffersOfNone == Buffers(<<>>) = <<>>
  BY DEF Buffers

LEMMA BuffersOfOne ==
    ASSUME NEW d
    PROVE  Buffers(<<d>>) = <<d.buffer>>
<1> DEFINE q == <<d>>
           v == Buffers(q)
<1>1. v = [i \in {1} |-> d.buffer]
  BY DEF Buffers
<1>2. QED
  BY <1>1

\* The job is known from where it is.
LEMMA JobAtRest ==
    ASSUME NoWork
    PROVE  WorkOn(Rpi!Null, Rpi!Null, Rpi!Null)
<1>1. SUFFICES ASSUME NEW b, b # Rpi!Null
               PROVE  JobImage(b) = 0 /\ JobEmbedded(b) = 0 /\ JobStats(b) = 0
  BY NoneIs0 DEF WorkOn
<1>2. calls = <<>> /\ events = <<>> /\ input = <<>> /\ Buffers(done["stats"]) = <<>>
  BY BuffersOfNone DEF NoWork
<1>3. QED
  BY <1>2, PartsOfNone, OccursEmpty DEF JobImage, JobEmbedded, JobStats

LEMMA JobInCall ==
    ASSUME NEW c, calls = <<c>>, events = <<>>, input = <<>>, done["stats"] = <<>>
    PROVE  /\ c.op = "prepareIsp" => WorkOn(c.bayer, c.embedded, Rpi!Null)
           /\ c.op = "processStats" => WorkOn(Rpi!Null, Rpi!Null, c.stats)
<1>1. ASSUME NEW b, b # Rpi!Null
      PROVE  /\ JobImage(b) = One(c.op = "prepareIsp" /\ c.bayer = b)
             /\ JobEmbedded(b) = One(c.op = "prepareIsp" /\ c.embedded = b)
             /\ JobStats(b) = One(c.op = "processStats" /\ c.stats = b)
             /\ One(Rpi!Null = b) = 0
  <2>1. Buffers(done["stats"]) = <<>>
    BY BuffersOfNone
  <2>2. QED
    BY <1>1, <2>1, PartsOfNone, PartsOfOne, OccursEmpty, NoneIs0 DEF JobImage, JobEmbedded, JobStats, One
<1>2. c.op = "prepareIsp" => WorkOn(c.bayer, c.embedded, Rpi!Null)
  <2>1. SUFFICES ASSUME c.op = "prepareIsp", NEW b, b # Rpi!Null
                 PROVE JobImage(b) = One(c.bayer = b) /\ JobEmbedded(b) = One(c.embedded = b) /\ JobStats(b) = One(Rpi!Null = b)
    BY DEF WorkOn
  <2>2. QED
    BY <1>1, <2>1 DEF One
<1>3. c.op = "processStats" => WorkOn(Rpi!Null, Rpi!Null, c.stats)
  <2>1. SUFFICES ASSUME c.op = "processStats", NEW b, b # Rpi!Null
                 PROVE JobImage(b) = One(Rpi!Null = b) /\ JobEmbedded(b) = One(Rpi!Null = b) /\ JobStats(b) = One(c.stats = b)
    BY DEF WorkOn
  <2>2. QED
    BY <1>1, <2>1 DEF One
<1>4. QED
  BY <1>2, <1>3

LEMMA JobInEvent ==
    ASSUME NEW e, events = <<e>>, calls = <<>>, input = <<>>, done["stats"] = <<>>
    PROVE  /\ e.op = "prepareIspComplete" => WorkOn(e.bayer, e.embedded, Rpi!Null)
           /\ e.op = "processStatsComplete" => WorkOn(Rpi!Null, Rpi!Null, e.stats)
<1>1. ASSUME NEW b, b # Rpi!Null
      PROVE  /\ JobImage(b) = One(e.op = "prepareIspComplete" /\ e.bayer = b)
             /\ JobEmbedded(b) = One(e.op = "prepareIspComplete" /\ e.embedded = b)
             /\ JobStats(b) = One(e.op = "processStatsComplete" /\ e.stats = b)
             /\ One(Rpi!Null = b) = 0
  <2>1. Buffers(done["stats"]) = <<>>
    BY BuffersOfNone
  <2>2. QED
    BY <1>1, <2>1, PartsOfNone, PartsOfOne, OccursEmpty, NoneIs0 DEF JobImage, JobEmbedded, JobStats, One
<1>2. e.op = "prepareIspComplete" => WorkOn(e.bayer, e.embedded, Rpi!Null)
  <2>1. SUFFICES ASSUME e.op = "prepareIspComplete", NEW b, b # Rpi!Null
                 PROVE JobImage(b) = One(e.bayer = b) /\ JobEmbedded(b) = One(e.embedded = b) /\ JobStats(b) = One(Rpi!Null = b)
    BY DEF WorkOn
  <2>2. QED
    BY <1>1, <2>1 DEF One
<1>3. e.op = "processStatsComplete" => WorkOn(Rpi!Null, Rpi!Null, e.stats)
  <2>1. SUFFICES ASSUME e.op = "processStatsComplete", NEW b, b # Rpi!Null
                 PROVE JobImage(b) = One(Rpi!Null = b) /\ JobEmbedded(b) = One(Rpi!Null = b) /\ JobStats(b) = One(e.stats = b)
    BY DEF WorkOn
  <2>2. QED
    BY <1>1, <2>1 DEF One
<1>4. QED
  BY <1>2, <1>3

LEMMA ZeroSums == 0 + 0 + 0 = 0 /\ 0 + 0 = 0 /\ \A n \in Nat : 0 + 0 + n = n
  OBVIOUS

LEMMA JobAnswered ==
    ASSUME NEW m, NEW e, events = <<m, e>>, m.op = "metadataReady", e.op = "processStatsComplete",
           calls = <<>>, input = <<>>, done["stats"] = <<>>
    PROVE  WorkOn(Rpi!Null, Rpi!Null, e.stats)
<1>1. ASSUME NEW b
      PROVE  /\ ImageIn(events, "prepareIspComplete", b) = One(FALSE)
             /\ EmbeddedIn(events, "prepareIspComplete", b) = One(FALSE)
             /\ StatsIn(events, "processStatsComplete", b) = One(e.stats = b)
  <2>1. m.op # "prepareIspComplete" /\ m.op # "processStatsComplete" /\ e.op # "prepareIspComplete"
    OBVIOUS
  <2>2. /\ ImageIn(<<m, e>>, "prepareIspComplete", b) = One(e.op = "prepareIspComplete" /\ e.bayer = b)
        /\ EmbeddedIn(<<m, e>>, "prepareIspComplete", b) = One(e.op = "prepareIspComplete" /\ e.embedded = b)
        /\ StatsIn(<<m, e>>, "processStatsComplete", b) = One(e.op = "processStatsComplete" /\ e.stats = b)
    BY <2>1, PartsOfTwo
  <2>3. QED
    BY <2>1, <2>2 DEF One
<1>2. Buffers(done["stats"]) = <<>>
  BY BuffersOfNone
<1>3. ASSUME NEW b, b # Rpi!Null
      PROVE  JobImage(b) = One(Rpi!Null = b) /\ JobEmbedded(b) = One(Rpi!Null = b) /\ JobStats(b) = One(e.stats = b)
  <2>1. ImageIn(calls, "prepareIsp", b) = 0 /\ EmbeddedIn(calls, "prepareIsp", b) = 0 /\ StatsIn(calls, "processStats", b) = 0
    BY PartsOfNone, Zenon
  <2>2. Occurs(input, b) = 0 /\ Occurs(Buffers(done["stats"]), b) = 0
    BY <1>2, OccursEmpty, Zenon
  <2>3. One(FALSE) = 0 /\ One(e.stats = b) \in Nat /\ One(Rpi!Null = b) = 0
    BY <1>3 DEF One
  <2>4. /\ JobImage(b) = 0 + 0 + One(FALSE) /\ JobEmbedded(b) = 0 + One(FALSE)
        /\ JobStats(b) = 0 + 0 + One(e.stats = b)
    BY <1>1, <2>1, <2>2, Zenon DEF JobImage, JobEmbedded, JobStats
  <2>5. QED
    BY <2>3, <2>4, ZeroSums, Zenon
<1>4. QED
  BY <1>3, Zenon DEF WorkOn

LEMMA JobInIsp ==
    ASSUME NEW x, input = <<x>>, calls = <<>>, events = <<>>, done["stats"] = <<>>
    PROVE  WorkOn(x, Rpi!Null, Rpi!Null)
<1>1. SUFFICES ASSUME NEW b, b # Rpi!Null
               PROVE  JobImage(b) = One(x = b) /\ JobEmbedded(b) = 0 /\ JobStats(b) = 0
  BY NoneIs0 DEF WorkOn
<1>2. Buffers(done["stats"]) = <<>>
  BY BuffersOfNone
<1>3. One(x = b) \in Nat
  BY DEF One
<1>4. QED
  BY <1>2, <1>3, PartsOfNone, OccursEmpty, OccursOnce DEF JobImage, JobEmbedded, JobStats

LEMMA JobFromIsp ==
    ASSUME NEW d, done["stats"] = <<d>>, input = <<>>, calls = <<>>, events = <<>>
    PROVE  WorkOn(Rpi!Null, Rpi!Null, d.buffer)
<1>1. SUFFICES ASSUME NEW b, b # Rpi!Null
               PROVE  JobImage(b) = 0 /\ JobEmbedded(b) = 0 /\ JobStats(b) = One(d.buffer = b)
  BY NoneIs0 DEF WorkOn
<1>2. Buffers(done["stats"]) = <<d.buffer>>
  BY BuffersOfOne
<1>3. One(d.buffer = b) \in Nat
  BY DEF One
<1>4. QED
  BY <1>2, <1>3, PartsOfNone, OccursEmpty, OccursOnce DEF JobImage, JobEmbedded, JobStats

\* Before the ISP, the job is not behind it.
LEMMA NotYet ==
    ASSUME state = "Busy", CallIs("prepareIsp") \/ EventIs("prepareIspComplete") \/ InIsp
    PROVE  ~IspRan
<1>1. \A x : <<x>> # <<>>
  OBVIOUS
<1>2. \A x, y, z : <<x, y>> # <<z>> /\ <<x, y>> # <<>>
  OBVIOUS
<1>3. \A x, y : <<x>> = <<y>> => x = y
  OBVIOUS
<1>4. CASE CallIs("prepareIsp")
  BY <1>1, <1>3, <1>4 DEF CallIs, EventIs, FromIsp, Answered, IspRan
<1>5. CASE EventIs("prepareIspComplete")
  BY <1>1, <1>2, <1>3, <1>5 DEF CallIs, EventIs, FromIsp, Answered, IspRan
<1>6. CASE InIsp
  BY <1>1, <1>6 DEF InIsp, CallIs, EventIs, FromIsp, Answered, IspRan
<1>7. QED
  BY <1>4, <1>5, <1>6

LEMMA SameJob ==
    ASSUME UNCHANGED <<state, calls, events, input>>, done'["stats"] = done["stats"]
    PROVE  /\ IspRan' = IspRan
           /\ \A b : JobImage(b)' = JobImage(b) /\ JobEmbedded(b)' = JobEmbedded(b) /\ JobStats(b)' = JobStats(b)
  BY DEF IspRan, FromIsp, CallIs, Answered, EventIs, JobImage, JobEmbedded, JobStats

LEMMA NotYetNext ==
    (state = "Busy" /\ (CallIs("prepareIsp") \/ EventIs("prepareIspComplete") \/ InIsp) => ~IspRan)'
<1>1. state = "Busy" /\ (CallIs("prepareIsp") \/ EventIs("prepareIspComplete") \/ InIsp) => ~IspRan
  BY NotYet
<1>2. QED
  BY <1>1, PTL

\* The same of the next state.
JobsKnown ==
    /\ NoWork => WorkOn(Rpi!Null, Rpi!Null, Rpi!Null)
    /\ \A c : calls = <<c>> /\ events = <<>> /\ input = <<>> /\ done["stats"] = <<>> =>
           /\ c.op = "prepareIsp" => WorkOn(c.bayer, c.embedded, Rpi!Null)
           /\ c.op = "processStats" => WorkOn(Rpi!Null, Rpi!Null, c.stats)
    /\ \A e : events = <<e>> /\ calls = <<>> /\ input = <<>> /\ done["stats"] = <<>> =>
           /\ e.op = "prepareIspComplete" => WorkOn(e.bayer, e.embedded, Rpi!Null)
           /\ e.op = "processStatsComplete" => WorkOn(Rpi!Null, Rpi!Null, e.stats)
    /\ \A m, e : events = <<m, e>> /\ calls = <<>> /\ input = <<>> /\ done["stats"] = <<>> =>
           (m.op = "metadataReady" /\ e.op = "processStatsComplete" => WorkOn(Rpi!Null, Rpi!Null, e.stats))
    /\ \A x : input = <<x>> /\ calls = <<>> /\ events = <<>> /\ done["stats"] = <<>> => WorkOn(x, Rpi!Null, Rpi!Null)
    /\ \A d : done["stats"] = <<d>> /\ calls = <<>> /\ events = <<>> /\ input = <<>> =>
           WorkOn(Rpi!Null, Rpi!Null, d.buffer)

LEMMA JobsAreKnown == JobsKnown
<1>1. NoWork => WorkOn(Rpi!Null, Rpi!Null, Rpi!Null)
  BY JobAtRest
<1>2. \A c : calls = <<c>> /\ events = <<>> /\ input = <<>> /\ done["stats"] = <<>> =>
           /\ c.op = "prepareIsp" => WorkOn(c.bayer, c.embedded, Rpi!Null)
           /\ c.op = "processStats" => WorkOn(Rpi!Null, Rpi!Null, c.stats)
  BY JobInCall
<1>3. \A e : events = <<e>> /\ calls = <<>> /\ input = <<>> /\ done["stats"] = <<>> =>
           /\ e.op = "prepareIspComplete" => WorkOn(e.bayer, e.embedded, Rpi!Null)
           /\ e.op = "processStatsComplete" => WorkOn(Rpi!Null, Rpi!Null, e.stats)
  BY JobInEvent
<1>4. \A m, e : events = <<m, e>> /\ calls = <<>> /\ input = <<>> /\ done["stats"] = <<>> =>
           (m.op = "metadataReady" /\ e.op = "processStatsComplete" => WorkOn(Rpi!Null, Rpi!Null, e.stats))
  BY JobAnswered
<1>5. \A x : input = <<x>> /\ calls = <<>> /\ events = <<>> /\ done["stats"] = <<>> => WorkOn(x, Rpi!Null, Rpi!Null)
  BY JobInIsp
<1>6. \A d : done["stats"] = <<d>> /\ calls = <<>> /\ events = <<>> /\ input = <<>> =>
           WorkOn(Rpi!Null, Rpi!Null, d.buffer)
  BY JobFromIsp
<1>7. QED
  BY <1>1, <1>2, <1>3, <1>4, <1>5, <1>6, Zenon DEF JobsKnown

LEMMA JobsNext == JobsKnown'
  BY JobsAreKnown, PTL

(***************************************************************************)
(* The order of the buffers                                                *)
(***************************************************************************)

LEMMA InOrderKeeps ==
    ASSUME NEW q, NEW t \in Seq(Pair), NEW w, NEW v, InOrder(q, t, w), \A r \in ToSet(t) : r \in w <=> r \in v
    PROVE  InOrder(q, t, v)
<1>1. \A i \in 1 .. Len(t) : t[i] \in ToSet(t)
  BY DEF ToSet
<1>2. QED
  BY <1>1 DEF InOrder

LEMMA InOrderTail ==
    ASSUME NEW S, NEW q \in Seq(S), NEW t \in Seq(Pair), t # <<>>, NEW w, InOrder(q, t, w)
    PROVE  /\ q # <<>> /\ InOrder(Tail(q), Tail(t), w)
           /\ Head(t) \in w => Head(q) = Rpi!OfRequest(Head(t))
           /\ Head(t) \notin w => Head(q) \in {Rpi!Null, Rpi!Internal(1)}
<1> DEFINE p == Tail(q)
           u == Tail(t)
<1>1. Len(t) \in Nat \ {0} /\ Len(q) = Len(t)
  BY DEF InOrder
<1>2. q # <<>> /\ Head(q) = q[1] /\ Head(t) = t[1] /\ 1 \in 1 .. Len(t)
  BY <1>1
<1>3. /\ Len(p) = Len(t) - 1 /\ Len(u) = Len(t) - 1
      /\ \A i \in 1 .. Len(t) - 1 : p[i] = q[i + 1] /\ u[i] = t[i + 1]
  BY <1>1, <1>2
<1> HIDE DEF p, u
<1>4. \A i \in 1 .. Len(t) - 1 : i + 1 \in 1 .. Len(t)
  BY <1>1
<1>5. InOrder(p, u, w)
  BY <1>1, <1>3, <1>4 DEF InOrder
<1>6. QED
  BY <1>2, <1>5 DEF InOrder, p, u

LEMMA InOrderAppend ==
    ASSUME NEW S, NEW q \in Seq(S), NEW x \in S, NEW t \in Seq(Pair), NEW r \in Pair, NEW w, InOrder(q, t, w),
           IF r \in w THEN x = Rpi!OfRequest(r) ELSE x \in {Rpi!Null, Rpi!Internal(1)}
    PROVE  InOrder(Append(q, x), Append(t, r), w)
<1> DEFINE p == Append(q, x)
           u == Append(t, r)
<1>1. Len(t) \in Nat /\ Len(q) = Len(t)
  BY DEF InOrder
<1>2. /\ Len(p) = Len(t) + 1 /\ Len(u) = Len(t) + 1 /\ p[Len(t) + 1] = x /\ u[Len(t) + 1] = r
      /\ \A i \in 1 .. Len(t) : p[i] = q[i] /\ u[i] = t[i]
  BY <1>1
<1> HIDE DEF p, u
<1>3. \A i \in 1 .. Len(t) + 1 : i \in 1 .. Len(t) \/ i = Len(t) + 1
  BY <1>1
<1>4. InOrder(p, u, w)
  BY <1>1, <1>2, <1>3 DEF InOrder
<1>5. QED
  BY <1>4 DEF p, u

LEMMA InOrderPut ==
    ASSUME NEW S, NEW q \in Seq(S), NEW t \in Seq(Pair), NEW w, InOrder(q, t, w), NEW k \in 1 .. Len(q), q[k] = Rpi!Null,
           Rpi!Internal(1) \in S
    PROVE  InOrder(Put(q, k, Rpi!Internal(1)), t, w)
<1> DEFINE p == Put(q, k, Rpi!Internal(1))
<1>1. Len(p) = Len(q) /\ \A i \in 1 .. Len(q) : p[i] = IF i = k THEN Rpi!Internal(1) ELSE q[i]
  BY PutType
<1>2. \A r : Rpi!OfRequest(r) # Rpi!Null
  BY BufferNames
<1> HIDE DEF p
<1>3. InOrder(p, t, w)
  BY <1>1, <1>2 DEF InOrder
<1>4. QED
  BY <1>3 DEF p

LEMMA InOrderCounts ==
    ASSUME NEW S, NEW q \in Seq(S), NEW t \in Seq(Pair), IsInjective(t), NEW w, InOrder(q, t, w), NEW r \in Pair
    PROVE  Occurs(q, Rpi!OfRequest(r)) = One(r \in ToSet(t) /\ r \in w)
<1> DEFINE b == Rpi!OfRequest(r)
<1>1. Len(q) = Len(t) /\ DOMAIN q = 1 .. Len(t) /\ DOMAIN t = 1 .. Len(t)
  BY DEF InOrder
<1>2. \A i \in 1 .. Len(t) : q[i] = b => t[i] = r /\ r \in w
  BY BufferNames DEF InOrder
<1>3. \A i \in 1 .. Len(t) : t[i] = r /\ r \in w => q[i] = b
  BY DEF InOrder
<1>4. CASE r \in ToSet(t) /\ r \in w
  <2>1. PICK k \in 1 .. Len(t) : t[k] = r
    BY <1>1, <1>4 DEF ToSet
  <2>2. \A i \in DOMAIN q : q[i] = b <=> i = k
    BY <1>1, <1>2, <1>3, <1>4, <2>1 DEF IsInjective
  <2>3. Occurs(q, b) = 1
    <3>1. k \in DOMAIN q
      BY <1>1
    <3> HIDE DEF b
    <3>2. QED
      BY <2>2, <3>1, OccursUnique
  <2>4. QED
    BY <1>4, <2>3 DEF One
<1>5. CASE ~(r \in ToSet(t) /\ r \in w)
  <2>1. \A i \in DOMAIN q : q[i] # b
    BY <1>1, <1>2, <1>5 DEF ToSet
  <2>2. Occurs(q, b) = 0
    BY <2>1, OccursSomewhere
  <2>3. QED
    BY <1>5, <2>2 DEF One
<1>6. QED
  BY <1>4, <1>5

(***************************************************************************)
(* Steps that leave a stream alone                                         *)
(***************************************************************************)

LEMMA SameSets ==
    ASSUME UNCHANGED config
    PROVE  /\ \A s : Rpi!External(s)' = Rpi!External(s) /\ Pool(s)' = Pool(s)
           /\ \A s : BuffersOf(s)' = BuffersOf(s) /\ FromRequests(s)' = FromRequests(s)
           /\ \A s : Tokens(s)' = Tokens(s)
           /\ \A o : PrepareCall(o)' = PrepareCall(o) /\ StatsCall(o)' = StatsCall(o)
  BY DEF Rpi!External, Pool, FromRequests, BuffersOf, Tokens, PrepareCall, StatsCall

\* The requests that the buffers wait for.
LEMMA TurnsType ==
    ASSUME RpiInv, Rpi!isRunning, NEW s
    PROVE  /\ Taken(s) => requestQueue # <<>> /\ Head(requestQueue) \in ToSet(requestQueue)
           /\ Turns(s) \in Seq(Pair) /\ IsInjective(Turns(s)) /\ ToSet(Turns(s)) \subseteq ToSet(requestQueue)
           /\ Taken(s) => ToSet(Turns(s)) = ToSet(requestQueue) \ {Head(requestQueue)}
<1>1. requestQueue \in Seq(Pair) /\ IsInjective(requestQueue) /\ (state # "Idle" => requestQueue # <<>>)
  BY DEF RpiInv, RpiType, StatesSound, RpiStates, Rpi!isRunning
<1>2. Taken(s) => requestQueue # <<>>
  BY <1>1 DEF Taken, IspRan
<1>3. CASE Taken(s)
  <2>1. Turns(s) = Tail(requestQueue)
    BY <1>3 DEF Turns
  <2>2. /\ Head(requestQueue) \in ToSet(requestQueue) /\ Tail(requestQueue) \in Seq(Pair)
        /\ ToSet(Tail(requestQueue)) = ToSet(requestQueue) \ {Head(requestQueue)} /\ IsInjective(Tail(requestQueue))
    BY <1>1, <1>2, <1>3, HeadInToSet, ToSetOfTail
  <2>3. QED
    BY <1>2, <2>1, <2>2
<1>4. CASE ~Taken(s)
  <2>1. Turns(s) = requestQueue
    BY <1>4 DEF Turns
  <2>2. QED
    BY <1>1, <1>4, <2>1
<1>5. QED
  BY <1>3, <1>4

\* The buffers of the stream move within the line, if they move at all.
SameBuffers(s) ==
    /\ Line(s)' = Line(s) /\ \A b : b # Rpi!Null => InWork(s, b)' = InWork(s, b)
    /\ streams'[s].available = streams[s].available /\ streams'[s].requests = streams[s].requests
SameWants(s) == \A r \in ToSet(requestQueue) : s \in req'[r].pending <=> s \in req[r].pending

LEMMA SamePool ==
    ASSUME NEW s \in Rpi!Stream, StreamSound(s), UNCHANGED config, SameBuffers(s)
    PROVE  PoolSound(s)' /\ Conserved(s)'
<1>1. Rpi!External(s)' = Rpi!External(s) /\ Pool(s)' = Pool(s)
  BY SameSets
<1>2. PoolSound(s)'
  BY <1>1 DEF StreamSound, PoolSound, AtHand, SameBuffers
<1>3. Conserved(s)'
  <2>1. \A i \in Pool(s) : Rpi!Internal(i) # Rpi!Null
    BY BufferSets
  <2>2. QED
    BY <1>1, <2>1 DEF StreamSound, Conserved, SameBuffers
<1>4. QED
  BY <1>2, <1>3

LEMMA SameOrder ==
    ASSUME RpiInv, Rpi!isRunning, NEW s \in Rpi!Stream, InOrder(Line(s), Turns(s), Wants(s)), Owned(s),
           SameBuffers(s), SameWants(s), Taken(s)' = Taken(s), requestQueue' = requestQueue
    PROVE  InOrder(Line(s), Turns(s), Wants(s))' /\ Owned(s)'
<1>1. Turns(s) \in Seq(Pair) /\ ToSet(Turns(s)) \subseteq ToSet(requestQueue) /\ Turns(s)' = Turns(s)
  <2>1. Turns(s)' = Turns(s)
    BY DEF Turns
  <2>2. QED
    BY <2>1, TurnsType
<1>2. \A r \in Pair : (s \in req[r].pending <=> r \in Wants(s)) /\ (s \in req'[r].pending <=> r \in Wants(s)')
  BY DEF Wants
<1>3. ToSet(requestQueue) \subseteq Pair
  BY MembersIn DEF RpiInv, RpiType
<1>4. InOrder(Line(s), Turns(s), Wants(s)')
  BY <1>1, <1>2, <1>3, InOrderKeeps DEF SameWants
<1>5. Owned(s)'
  <2>1. SUFFICES ASSUME NEW r \in Pair
                 PROVE  InWork(s, Rpi!OfRequest(r))' = One(Taken(s)' /\ r = Head(requestQueue) /\ s \in req'[r].pending)
    BY DEF Owned
  <2>2. InWork(s, Rpi!OfRequest(r))' = One(Taken(s) /\ r = Head(requestQueue) /\ s \in req[r].pending)
    BY BufferNames DEF Owned, SameBuffers
  <2>3. Taken(s) /\ r = Head(requestQueue) => (s \in req'[r].pending <=> s \in req[r].pending)
    BY TurnsType DEF SameWants
  <2>4. QED
    BY <2>2, <2>3 DEF One
<1>6. QED
  BY <1>1, <1>4, <1>5 DEF SameBuffers

LEMMA SameStream ==
    ASSUME RpiInv, Rpi!isRunning, NEW s \in Rpi!Stream, StreamSound(s), UNCHANGED <<config, requestQueue>>,
           SameBuffers(s), Rpi!External(s) => SameWants(s) /\ Taken(s)' = Taken(s)
    PROVE  StreamSound(s)'
<1>1. Rpi!External(s)' = Rpi!External(s)
  BY SameSets
<1>2. PoolSound(s)' /\ Conserved(s)'
  BY SamePool
<1>3. Rpi!External(s) => InOrder(Line(s), Turns(s), Wants(s))' /\ Owned(s)'
  BY SameOrder DEF StreamSound
<1>4. QED
  BY <1>1, <1>2, <1>3 DEF StreamSound

(***************************************************************************)
(* Steps that move no buffer                                               *)
(***************************************************************************)

Still == UNCHANGED <<config, frameNumber, streams, input, done, calls, events, bayerQueue, embeddedQueue>>

LEMMA StillBuffers ==
    ASSUME Still
    PROVE  /\ PlaceTypes => PlaceTypes'
           /\ \A s \in Rpi!Stream : SameBuffers(s)
           /\ state' = state => \A s \in Rpi!Stream : Taken(s)' = Taken(s)
<1>1. UNCHANGED <<config, frameNumber, streams, input, done, calls, events, bayerQueue, embeddedQueue>>
  BY DEF Still
<1>2. PlaceTypes => PlaceTypes'
  BY <1>1, SameSets DEF PlaceTypes, StreamType
<1>3. \A s \in Rpi!Stream : SameBuffers(s)
  BY <1>1 DEF SameBuffers, Line, Ahead, Behind, InWork, JobImage, JobEmbedded, JobStats
<1>4. state' = state => \A s \in Rpi!Stream : Taken(s)' = Taken(s)
  BY <1>1, SameJob DEF Taken
<1>5. QED
  BY <1>2, <1>3, <1>4

LEMMA StillPlaces ==
    ASSUME RpiInv, PlaceInv, Rpi!isRunning, Still, UNCHANGED <<state, requestQueue>>,
           \A s \in Rpi!Stream : SameWants(s), PendingSound', Exhausted'
    PROVE  PlaceInv'
<1>1. PlaceTypes /\ \A s \in Rpi!Stream : StreamSound(s)
  BY DEF PlaceInv
<1>2. PlaceTypes' /\ \A s \in Rpi!Stream : SameBuffers(s) /\ Taken(s)' = Taken(s)
  BY <1>1, StillBuffers
<1>3. config' = config
  BY DEF Still
<1>4. ASSUME NEW s \in Rpi!Stream
      PROVE  StreamSound(s)'
  BY <1>1, <1>2, <1>3, SameStream
<1>5. (Rpi!isRunning)'
  BY DEF Rpi!isRunning
<1>6. QED
  BY <1>2, <1>4, <1>5 DEF PlaceInv

LEMMA HandleStatePlaces ==
    ASSUME RpiInv, PlaceInv, Rpi!HandleState
    PROVE  PlaceInv'
<1>1. /\ Still /\ UNCHANGED <<state, requestQueue, req, waiting>> /\ stack \in Handling
      /\ stack' = (CASE state = "IpaComplete" -> <<"checkRequest", "tryRun">>
                     [] state = "Idle" -> <<"tryRun">>
                     [] OTHER -> <<>>) \o Tail(stack)
  BY OnTop DEF Rpi!HandleState, Still, Rpi!queueVars, Rpi!frameVars, Rpi!deviceVars, Rpi!ipaVars, Rpi!boundVars,
               RpiInv, RpiType
<1>2. Rpi!isRunning
  BY <1>1 DEF RpiInv, StatesSound, RunningStacks
<1>3. /\ state = "IpaComplete" => stack' \in Checking
      /\ state = "Idle" => stack' \in Trying
      /\ state \notin {"IpaComplete", "Idle"} => stack' \in Base
  BY <1>1, RunningMoves
<1>4. stack' \in Checking \cup Trying \cup Base
  BY <1>3
<1>5. stack' \notin Finishing \cup FinishQueue \cup Finished
  BY <1>4, StacksDiffer
<1>6. PendingSound'
  <2>1. \A s : Rpi!External(s)' = Rpi!External(s)
    BY <1>1, SameSets DEF Still
  <2>2. QED
    BY <1>1, <1>2, <1>5, <2>1 DEF PlaceInv, PendingSound
<1>7. Exhausted'
  BY <1>1, <1>3, StacksDiffer DEF Exhausted
<1>8. \A s \in Rpi!Stream : SameWants(s)
  BY <1>1 DEF SameWants
<1>9. QED
  BY <1>1, <1>2, <1>6, <1>7, <1>8, StillPlaces

\* checkRequestCompleted() finds a buffer that is not done, or completes the request.
LEMMA CheckPlaces ==
    ASSUME RpiInv, PlaceInv, Rpi!CheckRequestCompleted
    PROVE  PlaceInv'
<1> DEFINE r == Head(requestQueue)
<1>1. Still /\ UNCHANGED <<state, requestQueue, waiting>> /\ stack \in Checking
  BY OnTop DEF Rpi!CheckRequestCompleted, Still, Rpi!queueVars, Rpi!frameVars, Rpi!deviceVars, Rpi!ipaVars, Rpi!boundVars,
               RpiInv, RpiType
<1>2. state = "IpaComplete" /\ requestQueue # <<>>
  BY <1>1 DEF RpiInv, StatesSound, CheckedStacks
<1>3. Rpi!isRunning
  BY <1>2 DEF Rpi!isRunning
<1>4. PlaceTypes /\ PendingSound
  BY <1>3 DEF PlaceInv
<1>5. r \in Pair /\ ToSet(requestQueue) \cup ToSet(waiting) \subseteq Pair
  <2>1. waiting = <<>>
    <3>1. stack # <<"doQueue">>
      BY <1>1, StacksDiffer, OtherMoves
    <3>2. QED
      BY <3>1, QuietStack DEF RpiInv
  <2>2. QED
    BY <1>2, <2>1, HeadInToSet, MembersIn, ToSetOfEmpty DEF RpiInv, RpiType
<1>6. \A x \in Pair : req'[x].pending = req[x].pending /\ req'[x].streams = req[x].streams
  <2>1. req' = req \/ req' = [req EXCEPT ![r].status = "Complete"]
    BY DEF Rpi!CheckRequestCompleted
  <2>2. req \in [Pair -> RpiRequest]
    BY DEF RpiInv, RpiType
  <2>3. QED
    BY <1>5, <2>1, <2>2 DEF RpiRequest
<1>7. \A s \in Rpi!Stream : SameWants(s)
  BY <1>5, <1>6 DEF SameWants
<1>8. \A s : Rpi!External(s)' = Rpi!External(s)
  BY <1>1, SameSets DEF Still
<1>9. CASE req[r].pending # {}
  <2>1. stack' \in Trying
    BY <1>1, <1>9, RunningMoves DEF Rpi!CheckRequestCompleted, Rpi!Return
  <2>2. stack' \notin Finishing \cup FinishQueue \cup Finished \cup Base
    BY <2>1, StacksDiffer
  <2>3. PendingSound'
    BY <1>1, <1>4, <1>5, <1>6, <1>8, <2>2 DEF PendingSound
  <2>4. Exhausted'
    BY <1>1, <1>5, <1>6, <1>9, <2>2 DEF Exhausted
  <2>5. QED
    BY <1>1, <1>3, <1>7, <2>3, <2>4, StillPlaces
<1>10. CASE req[r].pending = {}
  <2>1. stack' \in Finishing
    BY <1>1, <1>2, <1>10, RunningMoves DEF Rpi!CheckRequestCompleted
  <2>2. stack' \notin Trying \cup Base
    BY <2>1, StacksDiffer
  <2>3. PendingSound'
    BY <1>1, <1>4, <1>5, <1>6, <1>8, <1>10 DEF PendingSound
  <2>4. Exhausted'
    BY <2>2 DEF Exhausted
  <2>5. QED
    BY <1>1, <1>3, <1>7, <2>3, <2>4, StillPlaces
<1>11. QED
  BY <1>9, <1>10

\* completeRequest() frees the request, which waits for no buffer.
LEMMA CompletePlaces ==
    ASSUME RpiInv, PlaceInv, Rpi!CompleteRequest, Rpi!isRunning
    PROVE  PlaceInv'
<1> DEFINE r == Head(requestQueue)
<1>1. Still /\ UNCHANGED <<state, requestQueue, waiting>> /\ stack \in Finishing \cup Giving \cup Refusing
  BY OnTop DEF Rpi!CompleteRequest, Still, Rpi!queueVars, Rpi!frameVars, Rpi!deviceVars, Rpi!ipaVars, Rpi!boundVars,
               RpiInv, RpiType
<1>2. stack \in Finishing
  BY <1>1 DEF RpiInv, StatesSound, ClearStacks, RefuseStacks, Rpi!isRunning
<1>3. PlaceTypes /\ PendingSound /\ req[r].pending = {}
  BY <1>2 DEF PlaceInv, PendingSound
<1>4. requestQueue # <<>> /\ (queued = Tail(requestQueue) \/ queued = requestQueue) /\ AllPending(Tail(requestQueue))
  BY <1>2 DEF RpiInv, InStep
<1>5. waiting = <<>> /\ ToSet(waiting) = {}
  <2>1. stack # <<"doQueue">>
    BY <1>2, StacksDiffer, OtherMoves
  <2>2. QED
    BY <2>1, QuietStack, ToSetOfEmpty DEF RpiInv
<1>6. r \in Pair /\ ToSet(requestQueue) \subseteq Pair
  BY <1>4, HeadInToSet, MembersIn DEF RpiInv, RpiType
<1>7. CASE queued # <<>> /\ req[Head(queued)].status # "Pending"
  <2>1. Head(queued) = r
    <3>1. CASE queued = Tail(requestQueue)
      <4>1. Head(queued) \in ToSet(Tail(requestQueue))
        BY <1>4, <1>7, <3>1, HeadInToSet DEF RpiInv, RpiType
      <4>2. QED
        BY <1>4, <1>7, <4>1 DEF AllPending
    <3>2. QED
      BY <1>4, <3>1
  <2>2. req' = [req EXCEPT ![r] = Rpi!FreeRequest] /\ stack' = stack
    BY <1>7, <2>1 DEF Rpi!CompleteRequest
  <2>3. \A x \in Pair : req'[x].pending = req[x].pending
    BY <1>3, <1>6, <2>2 DEF RpiInv, RpiType, Rpi!FreeRequest
  <2>4. PendingSound'
    <3>1. \A s : Rpi!External(s)' = Rpi!External(s)
      BY <1>1, SameSets DEF Still
    <3>2. QED
      BY <1>1, <1>3, <1>5, <1>6, <2>3, <3>1 DEF PendingSound
  <2>5. Exhausted'
    BY <1>2, <2>2, StacksDiffer DEF Exhausted
  <2>6. \A s \in Rpi!Stream : SameWants(s)
    BY <1>6, <2>3 DEF SameWants
  <2>7. QED
    BY <1>1, <2>4, <2>5, <2>6, StillPlaces
<1>8. CASE ~(queued # <<>> /\ req[Head(queued)].status # "Pending")
  <2>1. req' = req /\ stack' \in FinishQueue
    BY <1>2, <1>8, RunningMoves DEF Rpi!CompleteRequest
  <2>2. PendingSound'
    <3>1. \A s : Rpi!External(s)' = Rpi!External(s)
      BY <1>1, SameSets DEF Still
    <3>2. QED
      BY <1>1, <1>3, <2>1, <3>1 DEF PendingSound
  <2>3. Exhausted'
    BY <2>1, StacksDiffer DEF Exhausted
  <2>4. \A s \in Rpi!Stream : SameWants(s)
    BY <2>1 DEF SameWants
  <2>5. QED
    BY <1>1, <2>2, <2>3, <2>4, StillPlaces
<1>9. QED
  BY <1>7, <1>8

\* A new request is not in the queue.
LEMMA QueueRequestPlaces ==
    ASSUME RpiInv, PlaceInv, Rpi!isRunning, NEW r \in Pair, NEW ss \in SUBSET Rpi!Stream, \A s \in ss : Rpi!External(s),
           Rpi!QueueRequest(r, ss)
    PROVE  PlaceInv'
<1>1. /\ Still /\ UNCHANGED <<state, requestQueue>> /\ stack = <<>> /\ stack' = <<"doQueue">> /\ req[r].status = "Free"
      /\ req' = [req EXCEPT ![r] = [status |-> "Pending", streams |-> ss, pending |-> ss, filled |-> FALSE]]
      /\ waiting' = Append(waiting, r)
  BY DEF Rpi!QueueRequest, Still, Rpi!Loop, Rpi!frameVars, Rpi!deviceVars, Rpi!ipaVars, Rpi!boundVars
<1>2. stack \in Base /\ stack' \in Base /\ stack # <<"doQueue">>
  BY <1>1, OtherMoves
<1>3. waiting = <<>> /\ waiting' = <<r>> /\ ToSet(waiting') = {r}
  <2>1. waiting = <<>>
    BY <1>2, QuietStack DEF RpiInv
  <2>2. Append(<<>>, r) = <<r>>
    OBVIOUS
  <2>3. ToSet(<<r>>) = {r}
    BY DEF ToSet
  <2>4. QED
    BY <1>1, <2>1, <2>2, <2>3, Zenon
<1>4. r \notin ToSet(requestQueue) /\ ToSet(requestQueue) \subseteq Pair
  BY <1>1, <1>2, MembersIn DEF RpiInv, RpiType, InStep, AllPending
<1>5. req \in [Pair -> RpiRequest]
  BY DEF RpiInv, RpiType
<1>6. /\ \A x \in ToSet(requestQueue) : req'[x] = req[x]
      /\ req'[r].pending = ss /\ req'[r].streams = ss
  BY <1>1, <1>4, <1>5
<1>7. PlaceTypes /\ PendingSound /\ Exhausted
  BY DEF PlaceInv
<1>8. \A s : Rpi!External(s)' = Rpi!External(s)
  BY <1>1, SameSets DEF Still
<1>9. PendingSound'
  BY <1>1, <1>2, <1>3, <1>6, <1>7, <1>8, StacksDiffer DEF PendingSound
<1>10. Exhausted'
  <2>1. state = "IpaComplete" => Head(requestQueue) \in ToSet(requestQueue)
    BY HeadInToSet DEF RpiInv, RpiType, StatesSound
  <2>2. UNCHANGED <<config, bayerQueue, embeddedQueue>>
    BY <1>1 DEF Still
  <2>3. QED
    BY <1>1, <1>2, <1>6, <1>7, <2>1, <2>2 DEF Exhausted
<1>11. \A s \in Rpi!Stream : SameWants(s)
  BY <1>6 DEF SameWants
<1>12. QED
  BY <1>1, <1>9, <1>10, <1>11, StillPlaces

\* doQueueRequests() ends, or finds no room.
LEMMA NothingQueuedPlaces ==
    ASSUME RpiInv, PlaceInv, Rpi!isRunning, Rpi!DoQueueRequests, waiting = <<>> \/ Len(queued) = MaxQueued
    PROVE  PlaceInv'
<1>1. Still /\ UNCHANGED <<state, requestQueue, req, waiting>> /\ stack' = Tail(stack)
  BY DEF Rpi!DoQueueRequests, Still, Rpi!Return, Rpi!frameVars, Rpi!deviceVars, Rpi!ipaVars, Rpi!boundVars
<1>2. stack = <<"doQueue">> \/ stack \in FinishQueue
  <2>1. stack = <<"doQueue">> \/ stack \in FinishQueue \cup GiveQueue \cup RefuseQueue
    BY OnTop DEF Rpi!DoQueueRequests, RpiInv, RpiType
  <2>2. QED
    BY <2>1 DEF RpiInv, StatesSound, ClearStacks, RefuseStacks, Rpi!isRunning
<1>3. PlaceTypes /\ PendingSound /\ Exhausted
  BY DEF PlaceInv
<1>4. \A s : Rpi!External(s)' = Rpi!External(s)
  BY <1>1, SameSets DEF Still
<1>5. \A s \in Rpi!Stream : SameWants(s)
  BY <1>1 DEF SameWants
<1>6. CASE stack = <<"doQueue">>
  <2>1. stack \in Base /\ stack' \in Base
    BY <1>1, <1>6, OtherMoves
  <2>2. PendingSound'
    BY <1>1, <1>3, <1>4, <2>1, StacksDiffer DEF PendingSound
  <2>3. Exhausted'
    BY <1>1, <1>3, <2>1 DEF Exhausted, Still
  <2>4. QED
    BY <1>1, <1>5, <2>2, <2>3, StillPlaces
<1>7. CASE stack \in FinishQueue
  <2>1. stack' \in Finished
    BY <1>1, <1>7, RunningMoves
  <2>2. PendingSound'
    BY <1>1, <1>3, <1>4, <1>7 DEF PendingSound
  <2>3. Exhausted'
    BY <2>1, StacksDiffer DEF Exhausted
  <2>4. QED
    BY <1>1, <1>5, <2>2, <2>3, StillPlaces
<1>8. QED
  BY <1>2, <1>6, <1>7

\* The end of checkRequestCompleted(): the next request waits for its first buffers.
LEMMA RequestCompletedPlaces ==
    ASSUME RpiInv, PlaceInv, Rpi!RequestCompleted
    PROVE  PlaceInv'
<1> DEFINE r == Head(requestQueue)
<1>1. /\ Still /\ UNCHANGED <<req, waiting>> /\ stack \in Finished /\ stack' = Tail(stack)
      /\ requestQueue' = Tail(requestQueue) /\ state' = "Idle"
  BY OnTop DEF Rpi!RequestCompleted, Still, Rpi!Return, Rpi!queueVars, Rpi!frameVars, Rpi!deviceVars, Rpi!ipaVars,
               Rpi!boundVars, RpiInv, RpiType
<1>2. state = "IpaComplete" /\ requestQueue # <<>>
  BY <1>1 DEF RpiInv, StatesSound, CheckedStacks
<1>3. Rpi!isRunning /\ (Rpi!isRunning)'
  BY <1>1, <1>2 DEF Rpi!isRunning
<1>4. PlaceTypes /\ PendingSound /\ req[r].pending = {} /\ \A s \in Rpi!Stream : StreamSound(s)
  BY <1>1, <1>3 DEF PlaceInv, PendingSound
<1>5. /\ ToSet(requestQueue') \subseteq ToSet(requestQueue) /\ stack' \in Trying
  BY <1>1, <1>2, RunningMoves, ToSetOfTail DEF RpiInv, RpiType
<1>6. stack' \notin Finishing \cup FinishQueue \cup Finished \cup Base
  BY <1>5, StacksDiffer
<1>7. \A s : Rpi!External(s)' = Rpi!External(s)
  BY <1>1, SameSets DEF Still
<1>8. PendingSound' /\ Exhausted'
  BY <1>1, <1>4, <1>5, <1>6, <1>7 DEF PendingSound, Exhausted
<1>9. PlaceTypes' /\ \A s \in Rpi!Stream : SameBuffers(s)
  BY <1>1, <1>4, StillBuffers
<1>10. ASSUME NEW s \in Rpi!Stream
       PROVE  StreamSound(s)'
  <2>1. Taken(s) /\ ~Taken(s)'
    BY <1>1, <1>2 DEF Taken, IspRan
  <2>2. Turns(s)' = Turns(s) /\ Wants(s)' = Wants(s) /\ Line(s)' = Line(s)
    BY <1>1, <1>9, <2>1 DEF Turns, Wants, SameBuffers
  <2>3. PoolSound(s)' /\ Conserved(s)'
    BY <1>1, <1>4, <1>9, SamePool DEF Still
  <2>4. Owned(s) => Owned(s)'
    <3>1. SUFFICES ASSUME Owned(s), NEW x \in Pair
                   PROVE  InWork(s, Rpi!OfRequest(x))' = One(Taken(s)' /\ x = Head(requestQueue') /\ s \in req'[x].pending)
      BY DEF Owned
    <3>2. InWork(s, Rpi!OfRequest(x))' = One(Taken(s) /\ x = r /\ s \in req[x].pending)
      BY <1>9, <3>1, BufferNames DEF Owned, SameBuffers
    <3>3. QED
      BY <1>4, <2>1, <3>2 DEF One
  <2>5. QED
    BY <1>4, <1>7, <2>2, <2>3, <2>4 DEF StreamSound
<1>11. QED
  BY <1>3, <1>8, <1>9, <1>10 DEF PlaceInv

(***************************************************************************)
(* Buffers that move within their line                                     *)
(***************************************************************************)

LEMMA SameWork ==
    ASSUME UNCHANGED <<state, calls, events, input>>,
           \A s \in {"input", "output", "stats"} : done'[s] = done[s]
    PROVE  \A s \in Rpi!Stream : Taken(s)' = Taken(s) /\ \A b : InWork(s, b)' = InWork(s, b)
<1>1. done'["input"] = done["input"] /\ done'["output"] = done["output"] /\ done'["stats"] = done["stats"]
  OBVIOUS
<1>2. QED
  BY <1>1, SameJob DEF InWork, Taken

LEMMA LineShift ==
    ASSUME NEW S, NEW a \in Seq(S), NEW d \in Seq(S), NEW v \in Seq(S), NEW w \in Seq(S), v # <<>>
    PROVE  Cat(Cat(a, Append(d, Head(v))), Cat(Tail(v), w)) = Cat(Cat(a, d), Cat(v, w))
<1>1. Head(v) \in S
  BY HeadInToSet
<1>2. Cat(a, Append(d, Head(v))) = Append(Cat(a, d), Head(v))
  <2>1. \A h \in S : Cat(a, Append(d, h)) = Append(Cat(a, d), h)
    BY CatAppend
  <2>2. QED
    BY <1>1, <2>1, Zenon
<1>3. Cat(v, w) # <<>> /\ Head(Cat(v, w)) = Head(v) /\ Cat(Tail(v), w) = Tail(Cat(v, w))
  BY CatPop
<1>4. Cat(a, d) \in Seq(S) /\ Cat(v, w) \in Seq(S)
  BY CatType
<1>5. Cat(Append(Cat(a, d), Head(Cat(v, w))), Tail(Cat(v, w))) = Cat(Cat(a, d), Cat(v, w))
  BY <1>3, <1>4, CatShift
<1>6. QED
  BY <1>2, <1>3, <1>5, Zenon

\* What Unicam has put into a buffer.
LEMMA ReceivedLine ==
    ASSUME PlaceTypes, NEW s \in {"image", "embedded"}, streams[s].device # <<>>, NEW n \in Nat,
           UNCHANGED <<bayerQueue, embeddedQueue>>,
           streams'[s].device = Tail(streams[s].device), streams'[s].requests = streams[s].requests,
           done'[s] = Append(done[s], [buffer |-> Head(streams[s].device), ts |-> n])
    PROVE  Line(s)' = Line(s) /\ done'[s] \in Seq(Ready(BuffersOf(s)))
<1> DEFINE S == Tokens(s)
           arrived == IF s = "image" THEN bayerQueue ELSE embeddedQueue
           x == [buffer |-> Head(streams[s].device), ts |-> n]
           a == Buffers(arrived)
           d == Buffers(done[s])
           v == streams[s].device
           w == streams[s].requests
<1>1. s \in Rpi!Stream
  BY DEF Rpi!Stream
<1>2. arrived \in Seq(Ready(BuffersOf(s))) /\ done[s] \in Seq(Ready(BuffersOf(s))) /\ BuffersOf(s) \subseteq S
  BY <1>1, StreamQueues, BufferSets DEF PlaceTypes
<1>3. v \in Seq(BuffersOf(s)) /\ v \in Seq(S) /\ w \in Seq(S)
  BY <1>1, StreamQueues
<1>4. Head(v) \in BuffersOf(s)
  BY <1>3, HeadInToSet
<1>5. x \in Ready(BuffersOf(s)) /\ x.buffer = Head(v)
  BY <1>4 DEF Ready
<1>6. a \in Seq(BuffersOf(s)) /\ d \in Seq(BuffersOf(s))
  BY <1>2, BuffersOfQueue DEF Ready
<1>7. a \in Seq(S) /\ d \in Seq(S)
  BY <1>2, <1>6, SequencesOf
<1>8. Buffers(done'[s]) = Append(d, Head(v))
  <2>1. \A q \in Seq(Ready(BuffersOf(s))), y \in Ready(BuffersOf(s)) : Buffers(Append(q, y)) = Append(Buffers(q), y.buffer)
    BY BuffersOfAppend DEF Ready
  <2>2. Buffers(Append(done[s], x)) = Append(Buffers(done[s]), x.buffer)
    BY <1>2, <1>5, <2>1, Zenon
  <2>3. QED
    BY <1>5, <2>2, Zenon
<1>9. Line(s) = Cat(Cat(a, d), Cat(v, w)) /\ Line(s)' = Cat(Cat(a, Buffers(done'[s])), Cat(Tail(v), w))
  BY DEF Line, Ahead, Behind
<1>10. done'[s] \in Seq(Ready(BuffersOf(s)))
  BY <1>2, <1>5
<1> HIDE DEF S, a, d, v, w
<1>11. Cat(Cat(a, Append(d, Head(v))), Cat(Tail(v), w)) = Cat(Cat(a, d), Cat(v, w))
  <2>1. v # <<>>
    BY DEF v
  <2>2. QED
    BY <1>3, <1>7, <2>1, LineShift
<1>12. QED
  BY <1>8, <1>9, <1>10, <1>11, Zenon

\* A stream whose queues stay as they are.
LEMMA SameLine ==
    ASSUME NEW s \in Rpi!Stream, streams'[s].device = streams[s].device, streams'[s].requests = streams[s].requests,
           s = "image" => bayerQueue' = bayerQueue /\ done'["image"] = done["image"],
           s = "embedded" => embeddedQueue' = embeddedQueue /\ done'["embedded"] = done["embedded"]
    PROVE  Line(s)' = Line(s)
<1>1. Ahead(s)' = Ahead(s)
  BY DEF Ahead
<1>2. Behind(s)' = Behind(s)
  BY DEF Behind
<1>3. QED
  BY <1>1, <1>2 DEF Line

\* The parts of the invariant that say nothing of buffers.
LEMMA SamePending ==
    ASSUME PendingSound, UNCHANGED <<config, req, requestQueue, waiting>>,
           stack' = stack \/ stack' \notin Finishing \cup FinishQueue \cup Finished
    PROVE  PendingSound'
<1>1. \A s : Rpi!External(s)' = Rpi!External(s)
  BY SameSets
<1>2. QED
  BY <1>1 DEF PendingSound

LEMMA CapturePlaces ==
    ASSUME RpiInv, PlaceInv, Rpi!CaptureFrame \/ Rpi!CaptureLost
    PROVE  PlaceInv'
<1>1. PICK got \in SUBSET {"image", "embedded"} : Rpi!Capture(got)
  <2>1. CASE Rpi!CaptureFrame
    BY <2>1 DEF Rpi!CaptureFrame
  <2>2. CASE Rpi!CaptureLost
    BY <2>2 DEF Rpi!CaptureLost
  <2>3. QED
    BY <2>1, <2>2
<1> DEFINE full == {s \in got : streams[s].device # <<>>}
           n == frameNumber + 1
<1>2. /\ Rpi!isRunning /\ frameNumber' = n
      /\ UNCHANGED <<config, state, stack, req, requestQueue, waiting, bayerQueue, embeddedQueue, input, calls, events>>
      /\ streams' = [s \in Rpi!Stream |-> IF s \in full THEN [streams[s] EXCEPT !.device = Tail(@)] ELSE streams[s]]
      /\ done' = [s \in DOMAIN done |->
             IF s \in full THEN Append(done[s], [buffer |-> Head(streams[s].device), ts |-> n]) ELSE done[s]]
  BY <1>1 DEF Rpi!Capture, Rpi!queueVars, Rpi!frameVars, Rpi!ipaVars
<1>3. (Rpi!isRunning)'
  BY <1>2 DEF Rpi!isRunning
<1>4. PlaceTypes /\ (\A s \in Rpi!Stream : StreamSound(s)) /\ PendingSound /\ Exhausted
  BY <1>2 DEF PlaceInv
<1>5. DOMAIN done = DoneStreams /\ frameNumber \in Nat
  BY <1>4 DEF RpiInv, RpiType, PlaceTypes
<1>6. full \subseteq {"image", "embedded"} /\ \A s \in full : streams[s].device # <<>>
  OBVIOUS
<1> HIDE DEF full
<1>7. \A s \in {"input", "output", "stats"} : done'[s] = done[s]
  BY <1>2, <1>5, <1>6 DEF DoneStreams
<1>8. \A s \in Rpi!Stream : Taken(s)' = Taken(s) /\ \A b : InWork(s, b)' = InWork(s, b)
  BY <1>2, <1>7, SameWork
<1>9. ASSUME NEW s \in Rpi!Stream
      PROVE  Line(s)' = Line(s) /\ SameBuffers(s) /\ StreamType(s)'
  <2>1. /\ streams[s] \in StreamOf(BuffersOf(s), FromRequests(s) \cup {Rpi!Null}) /\ done[s] \in Seq(Ready(BuffersOf(s)))
        /\ streams[s].device \in Seq(BuffersOf(s))
    BY <1>4, StreamQueues
  <2>2. BuffersOf(s)' = BuffersOf(s) /\ FromRequests(s)' = FromRequests(s)
    BY <1>2, SameSets
  <2>3. CASE s \in full
    <3>1. streams'[s] = [streams[s] EXCEPT !.device = Tail(@)]
      BY <1>2, <2>3
    <3>2. done'[s] = Append(done[s], [buffer |-> Head(streams[s].device), ts |-> n])
      BY <1>2, <1>5, <1>6, <2>3 DEF DoneStreams
    <3>3. s \in {"image", "embedded"} /\ streams[s].device # <<>> /\ Tail(streams[s].device) \in Seq(BuffersOf(s))
      <4>1. s \in {"image", "embedded"} /\ streams[s].device # <<>>
        BY <1>6, <2>3, Zenon
      <4>2. QED
        BY <2>1, <4>1, HeadInToSet
    <3>4. /\ streams'[s].device = Tail(streams[s].device) /\ streams'[s].requests = streams[s].requests
          /\ streams'[s].available = streams[s].available
          /\ streams'[s] \in StreamOf(BuffersOf(s), FromRequests(s) \cup {Rpi!Null})
      BY <2>1, <3>1, <3>3 DEF StreamOf
    <3>5. Line(s)' = Line(s) /\ done'[s] \in Seq(Ready(BuffersOf(s)))
      <4>1. n \in Nat
        BY <1>5
      <4>2. QED
        BY <1>2, <1>4, <3>2, <3>3, <3>4, <4>1, ReceivedLine
    <3>6. QED
      BY <1>8, <2>2, <3>4, <3>5 DEF SameBuffers, StreamType
  <2>4. CASE s \notin full
    <3>1. streams'[s] = streams[s] /\ done'[s] = done[s]
      BY <1>2, <1>5, <2>4 DEF DoneStreams, Rpi!Stream
    <3>2. Line(s)' = Line(s)
      BY <1>2, <3>1, SameLine
    <3>3. QED
      BY <1>8, <2>1, <2>2, <3>1, <3>2 DEF SameBuffers, StreamType
  <2>5. QED
    BY <2>3, <2>4
<1>10. PlaceTypes'
  <2>1. DOMAIN streams' = Rpi!Stream
    BY <1>2
  <2>2. frameNumber' \in Nat /\ done'["input"] = done["input"]
    BY <1>2, <1>5, <1>7
  <2>3. QED
    BY <1>2, <1>4, <1>9, <2>1, <2>2, SameSets DEF PlaceTypes
<1>11. PendingSound' /\ Exhausted'
  BY <1>2, <1>4, SamePending DEF Exhausted
<1>12. ASSUME NEW s \in Rpi!Stream
       PROVE  StreamSound(s)'
  <2>1. SameWants(s)
    BY <1>2 DEF SameWants
  <2>2. QED
    BY <1>2, <1>4, <1>8, <1>9, <2>1, SameStream
<1>13. QED
  BY <1>3, <1>10, <1>11, <1>12 DEF PlaceInv

\* A handler ends with handleState().
LEMMA HandlerExhausted ==
    ASSUME stack = <<>>, stack' = <<"handleState">> \o stack
    PROVE  /\ stack' \in Handling /\ stack' \notin Finishing \cup FinishQueue \cup Finished
           /\ Exhausted'
<1>1. stack' \in Handling
  BY OtherMoves
<1>2. stack' \notin Finishing \cup FinishQueue \cup Finished \cup Base \cup Trying
  BY <1>1, StacksDiffer
<1>3. QED
  BY <1>1, <1>2 DEF Exhausted

LEMMA ArrivedLine ==
    ASSUME PlaceTypes, NEW s \in {"image", "embedded"}, done[s] # <<>>, streams' = streams, done'[s] = Tail(done[s]),
           IF s = "image" THEN bayerQueue' = Append(bayerQueue, Head(done[s]))
           ELSE embeddedQueue' = Append(embeddedQueue, Head(done[s]))
    PROVE  /\ Line(s)' = Line(s) /\ done'[s] \in Seq(Ready(BuffersOf(s)))
           /\ IF s = "image" THEN bayerQueue' \in Seq(Ready(BuffersOf(s))) ELSE embeddedQueue' \in Seq(Ready(BuffersOf(s)))
<1> DEFINE S == Tokens(s)
           arrived == IF s = "image" THEN bayerQueue ELSE embeddedQueue
           x == Head(done[s])
           a == Buffers(arrived)
           d == Buffers(done[s])
<1>1. s \in Rpi!Stream
  BY DEF Rpi!Stream
<1>2. arrived \in Seq(Ready(BuffersOf(s))) /\ done[s] \in Seq(Ready(BuffersOf(s))) /\ BuffersOf(s) \subseteq S
  BY <1>1, StreamQueues, BufferSets DEF PlaceTypes
<1>3. /\ a \in Seq(BuffersOf(s)) /\ d \in Seq(BuffersOf(s)) /\ d # <<>>
      /\ Tail(done[s]) \in Seq(Ready(BuffersOf(s))) /\ Buffers(Tail(done[s])) = Tail(d) /\ Head(d) = x.buffer
  BY <1>2, BuffersOfQueue DEF Ready
<1>4. x \in Ready(BuffersOf(s))
  BY <1>2, HeadInToSet
<1>5. a \in Seq(S) /\ d \in Seq(S)
  BY <1>2, <1>3, SequencesOf
<1>6. Buffers(Append(arrived, x)) = Append(a, Head(d))
  <2>1. \A q \in Seq(Ready(BuffersOf(s))), y \in Ready(BuffersOf(s)) : Buffers(Append(q, y)) = Append(Buffers(q), y.buffer)
    BY BuffersOfAppend DEF Ready
  <2>2. Buffers(Append(arrived, x)) = Append(a, x.buffer)
    BY <1>2, <1>4, <2>1, Zenon
  <2>3. QED
    BY <1>3, <2>2, Zenon
<1>7. /\ Line(s) = Cat(Cat(a, d), Behind(s))
      /\ Line(s)' = Cat(Cat(Buffers(Append(arrived, x)), Buffers(Tail(done[s]))), Behind(s))
  BY DEF Line, Ahead, Behind
<1>8. Append(arrived, x) \in Seq(Ready(BuffersOf(s)))
  BY <1>2, <1>4
<1>9. Cat(Append(a, Head(d)), Tail(d)) = Cat(a, d)
  <2> HIDE DEF a, d, S
  <2>1. QED
    BY <1>3, <1>5, CatShift
<1>10. Line(s)' = Line(s)
  <2> HIDE DEF a, d, x, arrived
  <2>1. QED
    BY <1>3, <1>6, <1>7, <1>9, Zenon
<1>11. QED
  BY <1>3, <1>8, <1>10

\* unicamBufferDequeue()
LEMMA UnicamPlaces ==
    ASSUME RpiInv, PlaceInv, Rpi!UnicamImageDequeue \/ Rpi!UnicamEmbeddedDequeue
    PROVE  PlaceInv'
<1>1. PICK k \in {"image", "embedded"} :
          /\ Rpi!Dequeue(k) /\ UNCHANGED <<req, streams, calls, events>>
          /\ IF k = "image" THEN bayerQueue' = Append(bayerQueue, Head(done[k])) /\ embeddedQueue' = embeddedQueue
             ELSE embeddedQueue' = Append(embeddedQueue, Head(done[k])) /\ bayerQueue' = bayerQueue
  <2>1. CASE Rpi!UnicamImageDequeue
    BY <2>1 DEF Rpi!UnicamImageDequeue, Rpi!ipaVars
  <2>2. CASE Rpi!UnicamEmbeddedDequeue
    BY <2>2 DEF Rpi!UnicamEmbeddedDequeue, Rpi!ipaVars
  <2>3. QED
    BY <2>1, <2>2
<1>2. /\ Rpi!isRunning /\ (Rpi!isRunning)' /\ stack = <<>> /\ stack' = <<"handleState">> \o stack
      /\ UNCHANGED <<state, waiting, requestQueue, input>>
      /\ done' = [done EXCEPT ![k] = Tail(@)] /\ done[k] # <<>>
  BY <1>1, DequeueRuns DEF DoneStreams
<1>3. UNCHANGED <<config, frameNumber>>
  BY <1>1 DEF Rpi!Dequeue, Rpi!boundVars
<1>4. PlaceTypes /\ (\A s \in Rpi!Stream : StreamSound(s)) /\ PendingSound
  BY <1>2 DEF PlaceInv
<1>5. done'[k] = Tail(done[k]) /\ \A s \in DoneStreams \ {k} : done'[s] = done[s]
  BY <1>2 DEF RpiInv, RpiType, DoneStreams
<1>6. \A s \in Rpi!Stream : Taken(s)' = Taken(s) /\ \A b : InWork(s, b)' = InWork(s, b)
  <2>1. \A s \in {"input", "output", "stats"} : done'[s] = done[s]
    BY <1>5 DEF DoneStreams
  <2>2. QED
    BY <1>1, <1>2, <2>1, SameWork
<1>7. /\ Line(k)' = Line(k) /\ done'[k] \in Seq(Ready(BuffersOf(k)))
      /\ IF k = "image" THEN bayerQueue' \in Seq(Ready(BuffersOf(k))) ELSE embeddedQueue' \in Seq(Ready(BuffersOf(k)))
  <2>1. IF k = "image" THEN bayerQueue' = Append(bayerQueue, Head(done[k]))
        ELSE embeddedQueue' = Append(embeddedQueue, Head(done[k]))
    BY <1>1
  <2>2. QED
    BY <1>1, <1>2, <1>4, <1>5, <2>1, ArrivedLine
<1>8. ASSUME NEW s \in Rpi!Stream \ {k}
      PROVE  Line(s)' = Line(s) /\ done'[s] \in Seq(Ready(BuffersOf(s)))
  <2>1. done'[s] = done[s]
    BY <1>5 DEF DoneStreams, Rpi!Stream
  <2>2. /\ s = "image" => bayerQueue' = bayerQueue /\ done'["image"] = done["image"]
        /\ s = "embedded" => embeddedQueue' = embeddedQueue /\ done'["embedded"] = done["embedded"]
    BY <1>1, <2>1
  <2>3. Line(s)' = Line(s)
    BY <1>1, <2>2, SameLine
  <2>4. QED
    BY <1>4, <2>1, <2>3, StreamQueues
<1>9. PlaceTypes'
  <2>1. \A s \in Rpi!Stream : StreamType(s)'
    <3>1. \A s : BuffersOf(s)' = BuffersOf(s) /\ FromRequests(s)' = FromRequests(s)
      BY <1>3, SameSets
    <3>2. QED
      BY <1>1, <1>4, <1>7, <1>8, <3>1 DEF PlaceTypes, StreamType
  <2>2. done'["input"] = done["input"]
    BY <1>5 DEF DoneStreams
  <2>3. QED
    BY <1>1, <1>2, <1>3, <1>4, <1>7, <2>1, <2>2, SameSets DEF PlaceTypes
<1>10. PendingSound' /\ Exhausted'
  BY <1>1, <1>2, <1>3, <1>4, HandlerExhausted, SamePending
<1>11. ASSUME NEW s \in Rpi!Stream
       PROVE  StreamSound(s)'
  <2>1. SameWants(s) /\ SameBuffers(s)
    BY <1>1, <1>6, <1>7, <1>8 DEF SameWants, SameBuffers
  <2>2. QED
    BY <1>2, <1>3, <1>4, <1>6, <2>1, SameStream
<1>12. QED
  BY <1>2, <1>9, <1>10, <1>11 DEF PlaceInv

(***************************************************************************)
(* The job moves on                                                        *)
(***************************************************************************)

LEMMA WorkNext ==
    ASSUME NEW i, NEW e, NEW t, WorkOn(i, e, t)'
    PROVE  \A b : b # Rpi!Null =>
               JobImage(b)' = One(i = b) /\ JobEmbedded(b)' = One(e = b) /\ JobStats(b)' = One(t = b)
  BY DEF WorkOn, One, Rpi!Null, Rpi!Internal

LEMMA JobPlaces ==
    ASSUME RpiInv, PlaceInv, state = "Busy",
           UNCHANGED <<config, frameNumber, state, req, requestQueue, streams, input, bayerQueue, embeddedQueue>>,
           \A s \in DoneStreams \ {"stats"} : done'[s] = done[s],
           done'["stats"] \in Seq(Ready(BuffersOf("stats"))),
           calls' \in Seq(PrepareCall("prepareIsp") \cup StatsCall("processStats")),
           events' \in Seq(PrepareCall("prepareIspComplete") \cup StatsCall("processStatsComplete")
                           \cup {[op |-> "metadataReady"]}),
           NEW i, NEW e, NEW t, WorkOn(i, e, t), WorkOn(i, e, t)', IspRan' = IspRan, PendingSound', Exhausted'
    PROVE  PlaceInv'
<1>1. Rpi!isRunning /\ (Rpi!isRunning)'
  BY DEF Rpi!isRunning
<1>2. PlaceTypes /\ \A s \in Rpi!Stream : StreamSound(s)
  BY <1>1 DEF PlaceInv
<1>3. /\ done'["image"] = done["image"] /\ done'["embedded"] = done["embedded"]
      /\ done'["input"] = done["input"] /\ done'["output"] = done["output"]
  BY DEF DoneStreams
<1>4. ASSUME NEW s \in Rpi!Stream
      PROVE  Line(s)' = Line(s)
  BY <1>3, SameLine
<1>5. ASSUME NEW b, b # Rpi!Null
      PROVE  JobImage(b)' = JobImage(b) /\ JobEmbedded(b)' = JobEmbedded(b) /\ JobStats(b)' = JobStats(b)
  BY <1>5, WorkNext DEF WorkOn
<1>6. ASSUME NEW s \in Rpi!Stream, NEW b, b # Rpi!Null
      PROVE  InWork(s, b)' = InWork(s, b)
  BY <1>3, <1>5, <1>6 DEF InWork
<1>7. ASSUME NEW s \in Rpi!Stream
      PROVE  StreamSound(s)'
  <2>1. SameBuffers(s)
    BY <1>4, <1>6 DEF SameBuffers
  <2>2. SameWants(s) /\ Taken(s)' = Taken(s)
    BY DEF SameWants, Taken
  <2>3. QED
    BY <1>1, <1>2, <2>1, <2>2, SameStream
<1>8. PlaceTypes'
  <2>1. \A s \in Rpi!Stream : StreamType(s)'
    <3>1. \A s \in Rpi!Stream : done'[s] \in Seq(Ready(BuffersOf(s)))
      BY <1>2, <1>3 DEF PlaceTypes, StreamType, Rpi!Stream
    <3>2. \A s : BuffersOf(s)' = BuffersOf(s) /\ FromRequests(s)' = FromRequests(s)
      BY SameSets
    <3>3. QED
      BY <1>2, <3>1, <3>2 DEF PlaceTypes, StreamType
  <2>2. \A o : PrepareCall(o)' = PrepareCall(o) /\ StatsCall(o)' = StatsCall(o)
    BY SameSets
  <2>3. QED
    BY <1>2, <1>3, <2>1, <2>2, SameSets DEF PlaceTypes
<1>9. QED
  BY <1>1, <1>7, <1>8 DEF PlaceInv

\* The statistics go to the IPA.
LEMMA StatsDequeuePlaces ==
    ASSUME RpiInv, RpiInv', PlaceInv, Rpi!IspStatsDequeue
    PROVE  PlaceInv'
<1> DEFINE c == [op |-> "processStats", stats |-> Head(done["stats"]).buffer]
<1>1. /\ Rpi!Dequeue("stats") /\ "stats" \in DoneStreams
      /\ calls' = Append(calls, c) /\ UNCHANGED <<req, bayerQueue, embeddedQueue, streams, events>>
  BY DEF Rpi!IspStatsDequeue, DoneStreams, Rpi!frameVars
<1>2. /\ Rpi!isRunning /\ stack = <<>> /\ stack' = <<"handleState">> \o stack
      /\ UNCHANGED <<state, waiting, requestQueue, input>>
      /\ done' = [done EXCEPT !["stats"] = Tail(@)] /\ done["stats"] # <<>>
  BY <1>1, DequeueRuns
<1>3. UNCHANGED <<config, frameNumber>>
  BY <1>1 DEF Rpi!Dequeue, Rpi!boundVars
<1>4. PlaceTypes /\ PendingSound
  BY <1>2 DEF PlaceInv
<1>5. state = "Busy" /\ FromIsp
  BY <1>2 DEF RpiInv, OneJob, Work, NoWork, CallIs, EventIs, InIsp, Answered
<1>6. PICK d : done["stats"] = <<d>>
  BY <1>5 DEF FromIsp
<1>7. Head(<<d>>) = d /\ Tail(<<d>>) = <<>>
  OBVIOUS
<1>8. done'["stats"] = <<>> /\ \A s \in DoneStreams \ {"stats"} : done'[s] = done[s]
  BY <1>2, <1>6, <1>7 DEF RpiInv, RpiType, DoneStreams
<1>9. d.buffer \in BuffersOf("stats")
  <2>1. done["stats"] \in Seq(Ready(BuffersOf("stats")))
    BY <1>4 DEF PlaceTypes, StreamType, Rpi!Stream
  <2>2. Head(done["stats"]) \in Ready(BuffersOf("stats"))
    BY <1>2, <2>1, HeadInToSet
  <2>3. Head(done["stats"]) = d
    BY <1>6, <1>7, Zenon
  <2>4. QED
    BY <2>2, <2>3 DEF Ready
<1>10. c.op = "processStats" /\ c.stats = d.buffer /\ c \in StatsCall("processStats")
  <2>1. Head(done["stats"]) = d
    BY <1>6, <1>7, Zenon
  <2>2. QED
    BY <1>9, <2>1 DEF StatsCall
<1>11. calls = <<>> /\ events = <<>> /\ input = <<>> /\ Append(<<>>, c) = <<c>>
  BY <1>5 DEF FromIsp
<1> HIDE DEF c
<1>12. calls' = <<c>> /\ events' = <<>> /\ input' = <<>>
  BY <1>1, <1>2, <1>11, Zenon
<1>13. WorkOn(Rpi!Null, Rpi!Null, d.buffer)
  BY <1>6, <1>11, JobFromIsp
<1>14. WorkOn(Rpi!Null, Rpi!Null, d.buffer)'
  <2>1. PICK k : k = c
    OBVIOUS
  <2>2. calls' = <<k>> /\ k.op = "processStats" /\ k.stats = d.buffer
    BY <1>10, <1>12, <2>1, Zenon
  <2>3. WorkOn(Rpi!Null, Rpi!Null, k.stats)'
    BY <1>8, <1>12, <2>2, JobsNext, Zenon DEF JobsKnown
  <2>4. QED
    BY <2>2, <2>3, Zenon
<1>15. IspRan /\ IspRan'
  <2>1. CallIs("processStats")'
    <3>1. "op" \in DOMAIN c
      BY DEF c
    <3>2. QED
      BY <1>8, <1>10, <1>12, <3>1 DEF CallIs
  <2>2. QED
    BY <1>2, <1>5, <2>1 DEF IspRan
<1>16. /\ done'["stats"] \in Seq(Ready(BuffersOf("stats")))
       /\ calls' \in Seq(PrepareCall("prepareIsp") \cup StatsCall("processStats"))
       /\ events' \in Seq(PrepareCall("prepareIspComplete") \cup StatsCall("processStatsComplete")
                          \cup {[op |-> "metadataReady"]})
  BY <1>8, <1>10, <1>12
<1>17. PendingSound' /\ Exhausted'
  BY <1>1, <1>2, <1>3, <1>4, HandlerExhausted, SamePending
<1>18. QED
  BY <1>1, <1>2, <1>3, <1>5, <1>8, <1>13, <1>14, <1>15, <1>16, <1>17, JobPlaces

\* The IPA answers a call with what it was given.
LEMMA AnswerOf ==
    /\ \A c \in PrepareCall("prepareIsp") : LET e == [c EXCEPT !.op = "prepareIspComplete"] IN
           e \in PrepareCall("prepareIspComplete") /\ e.op = "prepareIspComplete" /\ e.bayer = c.bayer /\ e.embedded = c.embedded
    /\ \A c \in StatsCall("processStats") : LET e == [c EXCEPT !.op = "processStatsComplete"] IN
           e \in StatsCall("processStatsComplete") /\ e.op = "processStatsComplete" /\ e.stats = c.stats
    /\ \A o : (\A c \in PrepareCall(o) : c.op = o) /\ (\A c \in StatsCall(o) : c.op = o)
  BY DEF PrepareCall, StatsCall

LEMMA OneCall ==
    ASSUME PlaceTypes, NEW c, calls = <<c>>
    PROVE  /\ Head(calls) = c /\ Tail(calls) = <<>>
           /\ c.op = "prepareIsp" => c \in PrepareCall("prepareIsp")
           /\ c.op = "processStats" => c \in StatsCall("processStats")
<1>1. Head(<<c>>) = c /\ Tail(<<c>>) = <<>> /\ <<c>> # <<>>
  OBVIOUS
<1> DEFINE C == PrepareCall("prepareIsp") \cup StatsCall("processStats")
<1>2. calls \in Seq(C)
  BY DEF PlaceTypes
<1> HIDE DEF C
<1>3. Head(calls) \in C
  BY <1>1, <1>2, HeadInToSet
<1>4. Head(calls) = c /\ Tail(calls) = <<>>
  BY <1>1, Zenon
<1>5. c \in C
  BY <1>3, <1>4, Zenon
<1>6. QED
  BY <1>4, <1>5, AnswerOf DEF C

LEMMA PreparePlaces ==
    ASSUME RpiInv, PlaceInv, Rpi!IpaThread, state = "Busy", CallIs("prepareIsp")
    PROVE  PlaceInv'
<1>1. /\ calls # <<>> /\ calls' = Tail(calls)
      /\ UNCHANGED <<config, frameNumber, state, stack, waiting, req, requestQueue, streams, input, done, bayerQueue, embeddedQueue>>
      /\ LET c == Head(calls) IN
         events' = events \o
             IF c.op = "prepareIsp" THEN <<[c EXCEPT !.op = "prepareIspComplete"]>>
             ELSE <<[op |-> "metadataReady"], [c EXCEPT !.op = "processStatsComplete"]>>
  BY DEF Rpi!IpaThread, Rpi!queueVars, Rpi!deviceVars, Rpi!frameVars, Rpi!boundVars
<1>2. PlaceTypes /\ PendingSound /\ Exhausted
  BY DEF PlaceInv, Rpi!isRunning
<1>3. PICK c : calls = <<c>> /\ c.op = "prepareIsp"
  BY DEF CallIs
<1>4. events = <<>> /\ input = <<>> /\ done["stats"] = <<>>
  BY DEF CallIs
<1>5. Head(calls) = c /\ Tail(calls) = <<>> /\ c \in PrepareCall("prepareIsp")
  BY <1>2, <1>3, OneCall
<1>6. PICK e : e = [c EXCEPT !.op = "prepareIspComplete"]
  OBVIOUS
<1>7. e \in PrepareCall("prepareIspComplete") /\ e.op = "prepareIspComplete" /\ e.bayer = c.bayer /\ e.embedded = c.embedded
  BY <1>5, <1>6, AnswerOf
<1>8. events' = <<e>> /\ calls' = <<>> /\ input' = <<>> /\ done'["stats"] = <<>>
  <2>1. events' = <<>> \o <<e>>
    BY <1>1, <1>3, <1>4, <1>5, <1>6
  <2>2. <<>> \o <<e>> = <<e>>
    OBVIOUS
  <2>3. QED
    BY <1>1, <1>4, <1>5, <2>1, <2>2, Zenon
<1>9. WorkOn(c.bayer, c.embedded, Rpi!Null)
  BY <1>3, <1>4, JobInCall
<1>10. WorkOn(c.bayer, c.embedded, Rpi!Null)'
  <2>1. WorkOn(e.bayer, e.embedded, Rpi!Null)'
    BY <1>7, <1>8, JobsNext, Zenon DEF JobsKnown
  <2>2. QED
    BY <1>7, <2>1, Zenon
<1>11. IspRan' = IspRan
  <2>1. EventIs("prepareIspComplete")'
    BY <1>7, <1>8 DEF EventIs
  <2>2. state' = "Busy"
    BY <1>1
  <2>3. ~IspRan /\ ~IspRan'
    BY <2>1, <2>2, NotYet, NotYetNext
  <2>4. QED
    BY <2>3 DEF IspRan
<1>12. /\ done'["stats"] \in Seq(Ready(BuffersOf("stats")))
       /\ calls' \in Seq(PrepareCall("prepareIsp") \cup StatsCall("processStats"))
       /\ events' \in Seq(PrepareCall("prepareIspComplete") \cup StatsCall("processStatsComplete")
                          \cup {[op |-> "metadataReady"]})
  BY <1>7, <1>8
<1>13. PendingSound' /\ Exhausted'
  BY <1>1, <1>2, SamePending DEF Exhausted
<1>14. QED
  BY <1>1, <1>9, <1>10, <1>11, <1>12, <1>13, JobPlaces

LEMMA ProcessPlaces ==
    ASSUME RpiInv, PlaceInv, Rpi!IpaThread, state = "Busy", CallIs("processStats")
    PROVE  PlaceInv'
<1>1. /\ calls # <<>> /\ calls' = Tail(calls)
      /\ UNCHANGED <<config, frameNumber, state, stack, waiting, req, requestQueue, streams, input, done, bayerQueue, embeddedQueue>>
      /\ LET c == Head(calls) IN
         events' = events \o
             IF c.op = "prepareIsp" THEN <<[c EXCEPT !.op = "prepareIspComplete"]>>
             ELSE <<[op |-> "metadataReady"], [c EXCEPT !.op = "processStatsComplete"]>>
  BY DEF Rpi!IpaThread, Rpi!queueVars, Rpi!deviceVars, Rpi!frameVars, Rpi!boundVars
<1>2. PlaceTypes /\ PendingSound /\ Exhausted
  BY DEF PlaceInv, Rpi!isRunning
<1>3. PICK c : calls = <<c>> /\ c.op = "processStats"
  BY DEF CallIs
<1>4. events = <<>> /\ input = <<>> /\ done["stats"] = <<>>
  BY DEF CallIs
<1>5. Head(calls) = c /\ Tail(calls) = <<>> /\ c \in StatsCall("processStats")
  BY <1>2, <1>3, OneCall
<1>6. PICK e : e = [c EXCEPT !.op = "processStatsComplete"]
  OBVIOUS
<1>7. PICK m : m = [op |-> "metadataReady"]
  OBVIOUS
<1>8. /\ e \in StatsCall("processStatsComplete") /\ e.op = "processStatsComplete" /\ e.stats = c.stats
      /\ m.op = "metadataReady"
  BY <1>5, <1>6, <1>7, AnswerOf
<1>9. events' = <<m, e>> /\ calls' = <<>> /\ input' = <<>> /\ done'["stats"] = <<>>
  <2>1. events' = <<>> \o <<m, e>>
    BY <1>1, <1>3, <1>4, <1>5, <1>6, <1>7
  <2>2. <<>> \o <<m, e>> = <<m, e>>
    OBVIOUS
  <2>3. QED
    BY <1>1, <1>4, <1>5, <2>1, <2>2, Zenon
<1>10. WorkOn(Rpi!Null, Rpi!Null, c.stats)
  BY <1>3, <1>4, JobInCall
<1>11. WorkOn(Rpi!Null, Rpi!Null, c.stats)'
  <2>1. WorkOn(Rpi!Null, Rpi!Null, e.stats)'
    BY <1>8, <1>9, JobsNext, Zenon DEF JobsKnown
  <2>2. QED
    BY <1>8, <2>1, Zenon
<1>12. IspRan /\ IspRan'
  <2>1. Answered'
    BY <1>8, <1>9, Zenon DEF Answered
  <2>2. state' = "Busy"
    BY <1>1
  <2>3. QED
    BY <2>1, <2>2 DEF IspRan
<1>13. /\ done'["stats"] \in Seq(Ready(BuffersOf("stats")))
       /\ calls' \in Seq(PrepareCall("prepareIsp") \cup StatsCall("processStats"))
       /\ events' \in Seq(PrepareCall("prepareIspComplete") \cup StatsCall("processStatsComplete")
                          \cup {[op |-> "metadataReady"]})
  BY <1>7, <1>8, <1>9
<1>14. PendingSound' /\ Exhausted'
  BY <1>1, <1>2, SamePending DEF Exhausted
<1>15. QED
  BY <1>1, <1>10, <1>11, <1>12, <1>13, <1>14, JobPlaces

LEMMA IpaThreadPlaces ==
    ASSUME RpiInv, PlaceInv, Rpi!isRunning, Rpi!IpaThread
    PROVE  PlaceInv'
<1>1. calls # <<>>
  BY DEF Rpi!IpaThread
<1>2. state = "Busy" /\ (CallIs("prepareIsp") \/ CallIs("processStats"))
  BY <1>1 DEF RpiInv, OneJob, Work, NoWork, EventIs, InIsp, FromIsp, Answered
<1>3. QED
  BY <1>2, PreparePlaces, ProcessPlaces

\* The metadata of the request: what follows is the end of its statistics.
LEMMA MetadataPlaces ==
    ASSUME RpiInv, PlaceInv, Rpi!IpaEvent, state = "Busy", Answered
    PROVE  PlaceInv'
<1>1. PICK m, e : events = <<m, e>> /\ m.op = "metadataReady" /\ e.op = "processStatsComplete"
  BY DEF Answered
<1>2. calls = <<>> /\ input = <<>> /\ done["stats"] = <<>>
  BY DEF Answered
<1>3. Head(<<m, e>>) = m /\ Tail(<<m, e>>) = <<e>>
  OBVIOUS
<1>4. Head(events) = m /\ Tail(events) = <<e>>
  BY <1>1, <1>3, Zenon
<1>5. /\ events' = Tail(events) /\ UNCHANGED <<config, frameNumber, waiting, requestQueue, done, calls, bayerQueue, embeddedQueue>>
      /\ UNCHANGED <<state, stack, req, streams, input>>
  BY <1>1, <1>4 DEF Rpi!IpaEvent, Rpi!queueVars, Rpi!frameVars, Rpi!boundVars, Rpi!isRunning
<1>6. PlaceTypes /\ PendingSound /\ Exhausted
  BY DEF PlaceInv, Rpi!isRunning
<1>7. events' = <<e>> /\ calls' = <<>> /\ input' = <<>> /\ done'["stats"] = <<>>
  BY <1>2, <1>4, <1>5, Zenon
<1>8. WorkOn(Rpi!Null, Rpi!Null, e.stats)
  BY <1>1, <1>2, JobAnswered
<1>9. WorkOn(Rpi!Null, Rpi!Null, e.stats)'
  BY <1>1, <1>7, JobsNext, Zenon DEF JobsKnown
<1>10. IspRan /\ IspRan'
  <2>1. EventIs("processStatsComplete")'
    BY <1>1, <1>7 DEF EventIs
  <2>2. state' = "Busy"
    BY <1>5
  <2>3. QED
    BY <2>1, <2>2 DEF IspRan
<1>11. /\ done'["stats"] \in Seq(Ready(BuffersOf("stats")))
       /\ calls' \in Seq(PrepareCall("prepareIsp") \cup StatsCall("processStats"))
       /\ events' \in Seq(PrepareCall("prepareIspComplete") \cup StatsCall("processStatsComplete")
                          \cup {[op |-> "metadataReady"]})
  <2> DEFINE E == PrepareCall("prepareIspComplete") \cup StatsCall("processStatsComplete") \cup {[op |-> "metadataReady"]}
  <2>1. events \in Seq(E)
    BY <1>6 DEF PlaceTypes
  <2> HIDE DEF E
  <2>2. events # <<>>
    BY DEF Rpi!IpaEvent
  <2>3. Tail(events) \in Seq(E)
    BY <2>1, <2>2, HeadInToSet
  <2>4. QED
    BY <1>5, <1>7, <2>3 DEF E
<1>12. PendingSound' /\ Exhausted'
  BY <1>5, <1>6, SamePending DEF Exhausted
<1>13. QED
  BY <1>5, <1>8, <1>9, <1>10, <1>11, <1>12, JobPlaces

(***************************************************************************)
(* The first buffer of a line                                              *)
(***************************************************************************)

LEMMA OneIsNumber == \A c : One(c) \in {0, 1} /\ (c => One(c) = 1) /\ (~c => One(c) = 0)
  BY DEF One

\* The pipeline takes it: it is the one of the first request.
LEMMA TakenFromLine ==
    ASSUME RpiInv, Rpi!isRunning, PlaceTypes, NEW s \in Rpi!Stream, StreamSound(s), UNCHANGED <<config, requestQueue>>,
           Line(s) # <<>>, Line(s)' = Tail(Line(s)),
           streams'[s].available = streams[s].available, streams'[s].requests = streams[s].requests,
           \A b : b # Rpi!Null => InWork(s, b)' = InWork(s, b) + One(Head(Line(s)) = b),
           Rpi!External(s) => requestQueue # <<>> /\ ~Taken(s) /\ Taken(s)' /\ SameWants(s)
    PROVE  StreamSound(s)'
<1> DEFINE q == Line(s)
           y == Head(q)
<1>1. q \in Seq(Tokens(s)) /\ Tail(q) \in Seq(Tokens(s))
  <2>1. q \in Seq(Tokens(s))
    BY LineType
  <2>2. QED
    BY <2>1, HeadInToSet
<1>2. Rpi!External(s)' = Rpi!External(s) /\ Pool(s)' = Pool(s)
  BY SameSets
<1>3. PoolSound(s)'
  BY <1>2 DEF StreamSound, PoolSound, AtHand
<1>4. Conserved(s)'
  <2>1. SUFFICES ASSUME NEW i \in Pool(s)
                 PROVE  Occurs(Line(s)', Rpi!Internal(i)) + Occurs(streams'[s].available, Rpi!Internal(i))
                        + InWork(s, Rpi!Internal(i))' = 1
    BY <1>2 DEF Conserved
  <2> DEFINE b == Rpi!Internal(i)
  <2>2. b # Rpi!Null
    BY BufferSets
  <2>3. Occurs(q, b) + Occurs(streams[s].available, b) + InWork(s, b) = 1
    BY DEF StreamSound, Conserved
  <2> HIDE DEF b
  <2>4. InWork(s, b)' = InWork(s, b) + One(y = b) /\ InWork(s, b) \in Nat
    BY <2>2, WorkType
  <2>5. Occurs(q, b) = One(y = b) + Occurs(Tail(q), b)
    BY <1>1, OccursTail
  <2>6. Occurs(Tail(q), b) \in Nat /\ Occurs(streams[s].available, b) \in Nat /\ One(y = b) \in Nat
    <3>1. streams[s].available \in Seq(BuffersOf(s))
      BY StreamQueues
    <3>2. Occurs(streams[s].available, b) \in Nat
      BY <3>1, OccursFinite
    <3>3. One(y = b) \in Nat
      BY OneIsNumber
    <3> HIDE DEF q
    <3>4. Occurs(Tail(q), b) \in Nat
      BY <1>1, OccursFinite
    <3>5. QED
      BY <3>2, <3>3, <3>4
  <2> HIDE DEF q, y
  <2>7. Occurs(Tail(q), b) + Occurs(streams[s].available, b) + InWork(s, b)' = 1
    BY <2>3, <2>4, <2>5, <2>6
  <2>8. QED
    BY <2>7 DEF b, q
<1>5. ASSUME Rpi!External(s)
      PROVE  InOrder(Line(s), Turns(s), Wants(s))' /\ Owned(s)'
  <2> DEFINE t == requestQueue
             r == Head(t)
  <2>1. InOrder(q, t, Wants(s)) /\ Owned(s) /\ t # <<>> /\ ~Taken(s) /\ Taken(s)' /\ SameWants(s)
    BY <1>5 DEF StreamSound, Turns
  <2>2. t \in Seq(Pair) /\ ToSet(t) \subseteq Pair /\ r \in ToSet(t) /\ Tail(t) \in Seq(Pair) /\ ToSet(Tail(t)) \subseteq ToSet(t)
    BY <2>1, HeadInToSet, ToSetOfTail, MembersIn DEF RpiInv, RpiType
  <2>3. /\ InOrder(Tail(q), Tail(t), Wants(s)) /\ (r \in Wants(s) => y = Rpi!OfRequest(r))
        /\ r \notin Wants(s) => y \in {Rpi!Null, Rpi!Internal(1)}
    BY <1>1, <2>1, <2>2, InOrderTail
  <2>4. \A x \in Pair : (s \in req[x].pending <=> x \in Wants(s)) /\ (s \in req'[x].pending <=> x \in Wants(s)')
    BY DEF Wants
  <2>5. InOrder(Tail(q), Tail(t), Wants(s)')
    <3>1. \A x \in ToSet(Tail(t)) : x \in Wants(s) <=> x \in Wants(s)'
      BY <2>1, <2>2, <2>4 DEF SameWants
    <3>2. QED
      BY <2>2, <2>3, <3>1, InOrderKeeps
  <2>6. Turns(s)' = Tail(t)
    BY <2>1 DEF Turns
  <2>7. Owned(s)'
    <3>1. SUFFICES ASSUME NEW x \in Pair
                   PROVE  InWork(s, Rpi!OfRequest(x))' = One(Taken(s)' /\ x = r /\ s \in req'[x].pending)
      BY DEF Owned
    <3> DEFINE b == Rpi!OfRequest(x)
    <3>2. InWork(s, b) = 0
      BY <2>1, OneIsNumber DEF Owned
    <3>3. InWork(s, b)' = InWork(s, b) + One(y = b)
      BY BufferNames
    <3>4. y = b <=> x = r /\ x \in Wants(s)
      BY <2>3, BufferNames
    <3>5. x = r => (x \in Wants(s) <=> s \in req'[x].pending)
      BY <2>1, <2>2, <2>4 DEF SameWants
    <3>6. One(y = b) = One(Taken(s)' /\ x = r /\ s \in req'[x].pending)
      BY <2>1, <3>4, <3>5 DEF One
    <3> HIDE DEF b, y, r
    <3>7. QED
      BY <3>2, <3>3, <3>6, OneIsNumber DEF b, r
  <2>8. QED
    BY <2>5, <2>6, <2>7
<1>6. QED
  BY <1>2, <1>3, <1>4, <1>5 DEF StreamSound

\* It is where the device has it.
LEMMA LinePop ==
    ASSUME PlaceTypes, NEW s \in {"output", "stats"}, streams[s].device # <<>>,
           streams'[s] = [streams[s] EXCEPT !.device = Tail(@)]
    PROVE  /\ Line(s) # <<>> /\ Line(s)' = Tail(Line(s)) /\ Head(Line(s)) = Head(streams[s].device)
           /\ Head(streams[s].device) \in BuffersOf(s)
           /\ streams'[s].available = streams[s].available /\ streams'[s].requests = streams[s].requests
           /\ streams'[s] \in StreamOf(BuffersOf(s), FromRequests(s) \cup {Rpi!Null})
<1>1. s \in Rpi!Stream
  BY DEF Rpi!Stream
<1>2. /\ streams[s] \in StreamOf(BuffersOf(s), FromRequests(s) \cup {Rpi!Null})
      /\ streams[s].device \in Seq(BuffersOf(s)) /\ streams[s].device \in Seq(Tokens(s)) /\ streams[s].requests \in Seq(Tokens(s))
  BY <1>1, StreamQueues
<1>3. Head(streams[s].device) \in BuffersOf(s) /\ Tail(streams[s].device) \in Seq(BuffersOf(s))
  BY <1>2, HeadInToSet
<1>4. /\ streams'[s].device = Tail(streams[s].device) /\ streams'[s].requests = streams[s].requests
      /\ streams'[s].available = streams[s].available
      /\ streams'[s] \in StreamOf(BuffersOf(s), FromRequests(s) \cup {Rpi!Null})
  BY <1>2, <1>3 DEF StreamOf
<1>5. /\ Behind(s) # <<>> /\ Head(Behind(s)) = Head(streams[s].device) /\ Behind(s)' = Tail(Behind(s))
      /\ Behind(s) \in Seq(Tokens(s))
  <2>1. Behind(s)' = Cat(Tail(streams[s].device), streams[s].requests)
    BY <1>4 DEF Behind
  <2>2. \A v, w \in Seq(Tokens(s)) :
            /\ Cat(v, w) \in Seq(Tokens(s))
            /\ v # <<>> => Cat(v, w) # <<>> /\ Head(Cat(v, w)) = Head(v) /\ Cat(Tail(v), w) = Tail(Cat(v, w))
    BY CatPop, CatType
  <2>3. QED
    BY <1>2, <2>1, <2>2, Zenon DEF Behind
<1>6. Line(s) = Behind(s) /\ Line(s)' = Behind(s)'
  <2>1. Ahead(s) = <<>> /\ Ahead(s)' = <<>>
    BY DEF Ahead
  <2>2. Tail(Behind(s)) \in Seq(Tokens(s))
    BY <1>5, HeadInToSet
  <2>3. Line(s) = Cat(<<>>, Behind(s)) /\ Line(s)' = Cat(<<>>, Tail(Behind(s)))
    BY <1>5, <2>1 DEF Line
  <2>4. QED
    BY <1>5, <2>2, <2>3, CatType
<1>7. QED
  BY <1>3, <1>4, <1>5, <1>6

\* A buffer goes to the end of what a device has finished.
LEMMA OccursReady ==
    ASSUME NEW B, NEW q \in Seq(Ready(B)), NEW x \in B, NEW b
    PROVE  /\ Append(q, [buffer |-> x, ts |-> 0]) \in Seq(Ready(B))
           /\ Occurs(Buffers(Append(q, [buffer |-> x, ts |-> 0])), b) = Occurs(Buffers(q), b) + One(x = b)
           /\ Occurs(Buffers(q), b) \in Nat
<1> DEFINE y == [buffer |-> x, ts |-> 0]
<1>1. y \in Ready(B) /\ y.buffer = x
  BY DEF Ready
<1> HIDE DEF y
<1>2. Buffers(Append(q, y)) = Append(Buffers(q), x)
  <2>1. Buffers(Append(q, y)) = Append(Buffers(q), y.buffer)
    BY <1>1, BuffersOfAppend DEF Ready
  <2>2. QED
    BY <1>1, <2>1, Zenon
<1>3. Buffers(q) \in Seq(B)
  BY BuffersOfQueue DEF Ready
<1>4. Occurs(Append(Buffers(q), x), b) = Occurs(Buffers(q), b) + One(x = b) /\ Occurs(Buffers(q), b) \in Nat
  <2>1. \A v \in Seq(B) : Occurs(Append(v, x), b) = Occurs(v, b) + One(x = b)
    BY OccursAppend
  <2>2. \A v \in Seq(B) : Occurs(v, b) \in Nat
    BY OccursFinite
  <2>3. QED
    BY <1>3, <2>1, <2>2, Zenon
<1>5. Append(q, y) \in Seq(Ready(B))
  BY <1>1
<1>6. QED
  BY <1>2, <1>4, <1>5 DEF y

\* The ISP turns an image into an output and statistics.
LEMMA IspRunPlaces ==
    ASSUME RpiInv, PlaceInv, Rpi!IspRun
    PROVE  PlaceInv'
<1>1. /\ Rpi!isRunning /\ input # <<>> /\ input' = Tail(input)
      /\ streams["output"].device # <<>> /\ streams["stats"].device # <<>>
      /\ streams' = [s \in Rpi!Stream |->
             IF s \in {"output", "stats"} THEN [streams[s] EXCEPT !.device = Tail(@)] ELSE streams[s]]
      /\ done' = [s \in DOMAIN done |->
             CASE s = "input" -> Append(done[s], [buffer |-> Head(input), ts |-> 0])
               [] s \in {"output", "stats"} -> Append(done[s], [buffer |-> Head(streams[s].device), ts |-> 0])
               [] OTHER -> done[s]]
      /\ UNCHANGED <<config, frameNumber, state, stack, waiting, req, requestQueue, bayerQueue, embeddedQueue, calls, events>>
  BY DEF Rpi!IspRun, Rpi!queueVars, Rpi!frameVars, Rpi!ipaVars, Rpi!boundVars
<1>2. PlaceTypes /\ (\A s \in Rpi!Stream : StreamSound(s)) /\ PendingSound /\ Exhausted
  BY <1>1 DEF PlaceInv
<1>3. state = "Busy" /\ InIsp /\ requestQueue # <<>> /\ (Rpi!isRunning)'
  BY <1>1 DEF RpiInv, OneJob, Work, NoWork, CallIs, EventIs, FromIsp, Answered, StatesSound, Rpi!isRunning
<1>4. PICK x : input = <<x>>
  BY <1>3 DEF InIsp
<1>5. /\ calls = <<>> /\ events = <<>> /\ done["stats"] = <<>> /\ Head(input) = x /\ Tail(input) = <<>>
  <2>1. Head(<<x>>) = x /\ Tail(<<x>>) = <<>>
    OBVIOUS
  <2>2. Head(input) = x /\ Tail(input) = <<>>
    BY <1>4, <2>1, Zenon
  <2>3. QED
    BY <1>3, <2>2 DEF InIsp
<1>6. PICK y : y = Head(streams["stats"].device)
  OBVIOUS
<1>7. PICK z : z = Head(streams["output"].device)
  OBVIOUS
<1>8. /\ done'["input"] = Append(done["input"], [buffer |-> x, ts |-> 0])
      /\ done'["output"] = Append(done["output"], [buffer |-> z, ts |-> 0])
      /\ done'["stats"] = Append(done["stats"], [buffer |-> y, ts |-> 0])
      /\ done'["image"] = done["image"] /\ done'["embedded"] = done["embedded"]
  BY <1>1, <1>5, <1>6, <1>7 DEF RpiInv, RpiType, DoneStreams
<1>9. /\ streams'["output"] = [streams["output"] EXCEPT !.device = Tail(@)]
      /\ streams'["stats"] = [streams["stats"] EXCEPT !.device = Tail(@)]
      /\ streams'["image"] = streams["image"] /\ streams'["embedded"] = streams["embedded"]
      /\ DOMAIN streams' = Rpi!Stream
  BY <1>1 DEF Rpi!Stream
<1>10. "image" \in Rpi!Stream /\ "embedded" \in Rpi!Stream /\ "output" \in Rpi!Stream /\ "stats" \in Rpi!Stream
  BY DEF Rpi!Stream
<1>11. /\ Line("output") # <<>> /\ Line("output")' = Tail(Line("output")) /\ Head(Line("output")) = z /\ z \in BuffersOf("output")
       /\ streams'["output"].available = streams["output"].available /\ streams'["output"].requests = streams["output"].requests
       /\ streams'["output"] \in StreamOf(BuffersOf("output"), FromRequests("output") \cup {Rpi!Null})
  BY <1>1, <1>2, <1>7, <1>9, LinePop
<1>12. /\ Line("stats") # <<>> /\ Line("stats")' = Tail(Line("stats")) /\ Head(Line("stats")) = y /\ y \in BuffersOf("stats")
       /\ streams'["stats"].available = streams["stats"].available /\ streams'["stats"].requests = streams["stats"].requests
       /\ streams'["stats"] \in StreamOf(BuffersOf("stats"), FromRequests("stats") \cup {Rpi!Null})
  BY <1>1, <1>2, <1>6, <1>9, LinePop
<1>13. /\ done["input"] \in Seq(Ready(BuffersOf("image"))) /\ done["output"] \in Seq(Ready(BuffersOf("output")))
       /\ done["stats"] \in Seq(Ready(BuffersOf("stats"))) /\ input \in Seq(BuffersOf("image"))
  BY <1>2, <1>10, StreamQueues DEF PlaceTypes
<1>14. x \in BuffersOf("image")
  BY <1>1, <1>5, <1>13, HeadInToSet
<1>15. WorkOn(x, Rpi!Null, Rpi!Null)
  BY <1>4, <1>5, JobInIsp
<1>16. WorkOn(Rpi!Null, Rpi!Null, y)' /\ FromIsp'
  <2>1. PICK d : d = [buffer |-> y, ts |-> 0]
    OBVIOUS
  <2>2. d.buffer = y
    BY <2>1
  <2>3. Append(<<>>, d) = <<d>>
    OBVIOUS
  <2>4. done'["stats"] = <<d>> /\ calls' = <<>> /\ events' = <<>> /\ input' = <<>>
    BY <1>1, <1>5, <1>8, <2>1, <2>3, Zenon
  <2>5. WorkOn(Rpi!Null, Rpi!Null, d.buffer)'
    BY <2>4, JobsNext, Zenon DEF JobsKnown
  <2>6. WorkOn(Rpi!Null, Rpi!Null, y)'
    BY <2>2, <2>5, Zenon
  <2>7. FromIsp'
    BY <2>4 DEF FromIsp
  <2>8. QED
    BY <2>6, <2>7
<1>17. ~IspRan /\ IspRan'
  BY <1>1, <1>3, <1>16, NotYet DEF IspRan
<1>18. ASSUME NEW b, b # Rpi!Null
       PROVE  /\ JobImage(b) = One(x = b) /\ JobEmbedded(b) = 0 /\ JobStats(b) = 0
              /\ JobImage(b)' = 0 /\ JobEmbedded(b)' = 0 /\ JobStats(b)' = One(y = b)
  <2>1. /\ JobImage(b) = One(x = b) /\ JobEmbedded(b) = One(Rpi!Null = b) /\ JobStats(b) = One(Rpi!Null = b)
    BY <1>15, <1>18, Zenon DEF WorkOn
  <2>2. /\ JobImage(b)' = One(Rpi!Null = b) /\ JobEmbedded(b)' = One(Rpi!Null = b) /\ JobStats(b)' = One(y = b)
    BY <1>16, <1>18, WorkNext
  <2>3. One(Rpi!Null = b) = 0
    BY <1>18, NoneIs0
  <2>4. QED
    BY <2>1, <2>2, <2>3, Zenon
<1>19. ASSUME NEW b, b # Rpi!Null
       PROVE  /\ InWork("image", b)' = InWork("image", b) /\ InWork("embedded", b)' = InWork("embedded", b)
              /\ InWork("stats", b)' = InWork("stats", b) + One(y = b)
              /\ InWork("output", b)' = InWork("output", b) + One(z = b)
  <2>1. /\ Occurs(Buffers(done'["input"]), b) = Occurs(Buffers(done["input"]), b) + One(x = b)
        /\ Occurs(Buffers(done["input"]), b) \in Nat
    BY <1>8, <1>13, <1>14, OccursReady
  <2>2. Occurs(Buffers(done'["output"]), b) = Occurs(Buffers(done["output"]), b) + One(z = b)
    BY <1>8, <1>11, <1>13, OccursReady
  <2>3. /\ InWork("image", b) = Occurs(Buffers(done["input"]), b) + JobImage(b)
        /\ InWork("image", b)' = Occurs(Buffers(done'["input"]), b) + JobImage(b)'
        /\ InWork("embedded", b) = JobEmbedded(b) /\ InWork("embedded", b)' = JobEmbedded(b)'
        /\ InWork("stats", b) = JobStats(b) /\ InWork("stats", b)' = JobStats(b)'
        /\ InWork("output", b) = Occurs(Buffers(done["output"]), b)
        /\ InWork("output", b)' = Occurs(Buffers(done'["output"]), b)
    BY DEF InWork
  <2>4. One(x = b) \in Nat /\ One(y = b) \in Nat
    BY OneIsNumber
  <2>5. QED
    BY <1>18, <1>19, <2>1, <2>2, <2>3, <2>4
<1>20. \A s \in Rpi!Stream : SameWants(s)
  BY <1>1 DEF SameWants
<1>21. StreamSound("image")' /\ StreamSound("embedded")'
  <2>1. Line("image")' = Line("image") /\ Line("embedded")' = Line("embedded")
    BY <1>1, <1>8, <1>9, <1>10, SameLine
  <2>2. SameBuffers("image") /\ SameBuffers("embedded")
    BY <1>9, <1>19, <2>1 DEF SameBuffers
  <2>3. Taken("image")' = Taken("image")
    BY <1>1 DEF Taken
  <2>4. QED
    BY <1>1, <1>2, <1>10, <1>20, <2>2, <2>3, ExternalStreams, SameStream
<1>22. StreamSound("output")' /\ StreamSound("stats")'
  <2>1. ~Taken("output") /\ Taken("output")'
    BY <1>17 DEF Taken
  <2>2. StreamSound("output")'
    BY <1>1, <1>2, <1>3, <1>10, <1>11, <1>19, <1>20, <2>1, TakenFromLine
  <2>3. StreamSound("stats")'
    BY <1>1, <1>2, <1>3, <1>10, <1>12, <1>19, ExternalStreams, TakenFromLine
  <2>4. QED
    BY <2>2, <2>3
<1>23. PlaceTypes'
  <2>1. /\ done'["input"] \in Seq(Ready(BuffersOf("image"))) /\ done'["output"] \in Seq(Ready(BuffersOf("output")))
        /\ done'["stats"] \in Seq(Ready(BuffersOf("stats")))
    <3>1. \A B : \A q \in Seq(Ready(B)), v \in B : Append(q, [buffer |-> v, ts |-> 0]) \in Seq(Ready(B))
      BY OccursReady
    <3>2. QED
      BY <1>8, <1>11, <1>12, <1>13, <1>14, <3>1, Zenon
  <2>2. input' \in Seq(BuffersOf("image"))
    <3>1. <<>> \in Seq(BuffersOf("image"))
      OBVIOUS
    <3>2. QED
      BY <1>1, <1>5, <3>1, Zenon
  <2>3. \A s \in Rpi!Stream : StreamType(s)'
    <3>1. \A s : BuffersOf(s)' = BuffersOf(s) /\ FromRequests(s)' = FromRequests(s)
      BY <1>1, SameSets
    <3>2. StreamType("image")' /\ StreamType("embedded")'
      BY <1>2, <1>8, <1>9, <1>10, <3>1 DEF PlaceTypes, StreamType
    <3>3. StreamType("output")' /\ StreamType("stats")'
      BY <1>11, <1>12, <2>1, <3>1 DEF StreamType
    <3>4. QED
      BY <3>2, <3>3 DEF Rpi!Stream
  <2>4. QED
    BY <1>1, <1>2, <1>9, <2>1, <2>2, <2>3, SameSets DEF PlaceTypes
<1>24. PendingSound' /\ Exhausted'
  BY <1>1, <1>2, SamePending DEF Exhausted
<1>25. \A s \in Rpi!Stream : StreamSound(s)'
  BY <1>21, <1>22 DEF Rpi!Stream
<1>26. QED
  BY <1>3, <1>23, <1>24, <1>25 DEF PlaceInv

(***************************************************************************)
(* Buffers that come back                                                  *)
(***************************************************************************)

LEMMA ConservedWhenBack ==
    ASSUME PlaceTypes, NEW s \in Rpi!Stream, Conserved(s), UNCHANGED config, NEW x,
           \A b : b # Rpi!Null => InWork(s, b) = InWork(s, b)' + One(x = b) /\ InWork(s, b)' \in Nat,
           \A i \in Pool(s) :
               Occurs(Line(s)', Rpi!Internal(i)) + Occurs(streams'[s].available, Rpi!Internal(i))
               = Occurs(Line(s), Rpi!Internal(i)) + Occurs(streams[s].available, Rpi!Internal(i)) + One(x = Rpi!Internal(i))
    PROVE  Conserved(s)'
<1>1. Pool(s)' = Pool(s)
  BY SameSets
<1>2. SUFFICES ASSUME NEW i \in Pool(s)
               PROVE  Occurs(Line(s)', Rpi!Internal(i)) + Occurs(streams'[s].available, Rpi!Internal(i))
                      + InWork(s, Rpi!Internal(i))' = 1
  BY <1>1 DEF Conserved
<1> DEFINE b == Rpi!Internal(i)
<1>3. Occurs(Line(s), b) + Occurs(streams[s].available, b) + InWork(s, b) = 1
  BY DEF Conserved
<1>4. /\ InWork(s, b) = InWork(s, b)' + One(x = b) /\ InWork(s, b)' \in Nat
      /\ Occurs(Line(s)', b) + Occurs(streams'[s].available, b)
         = Occurs(Line(s), b) + Occurs(streams[s].available, b) + One(x = b)
  BY BufferSets
<1> HIDE DEF b
<1>5. Occurs(Line(s), b) \in Nat /\ Occurs(streams[s].available, b) \in Nat
  BY LineType, StreamQueues, OccursFinite
<1>6. One(x = b) \in Nat
  BY OneIsNumber
<1>7. Occurs(Line(s)', b) + Occurs(streams'[s].available, b) + InWork(s, b)' = 1
  BY <1>3, <1>4, <1>5, <1>6
<1>8. QED
  BY <1>7 DEF b

LEMMA OtherDevice ==
    ASSUME NEW B, NEW Q, NEW st \in StreamOf(B, Q), NEW d \in Seq(B), NEW t, t = [st EXCEPT !.device = d]
    PROVE  t \in StreamOf(B, Q) /\ t.device = d /\ t.requests = st.requests /\ t.available = st.available
  BY DEF StreamOf

\* An internal buffer of a stream that gets none from requests goes to the device ...
LEMMA ReturnedInternal ==
    ASSUME PlaceTypes, NEW s \in Rpi!Stream, ~Rpi!External(s), StreamSound(s), NEW x \in BuffersOf(s), UNCHANGED config,
           streams'[s] = [streams[s] EXCEPT !.device = Append(@, x)], Ahead(s)' = Ahead(s),
           \A b : b # Rpi!Null => InWork(s, b) = InWork(s, b)' + One(x = b) /\ InWork(s, b)' \in Nat
    PROVE  StreamSound(s)' /\ streams'[s] \in StreamOf(BuffersOf(s), FromRequests(s) \cup {Rpi!Null})
<1> DEFINE T == Tokens(s)
           d == streams[s].device
           w == streams[s].requests
<1>1. /\ streams[s] \in StreamOf(BuffersOf(s), FromRequests(s) \cup {Rpi!Null})
      /\ d \in Seq(BuffersOf(s)) /\ d \in Seq(T) /\ w \in Seq(T) /\ x \in T /\ streams[s].available \in Seq(BuffersOf(s))
  BY StreamQueues, BufferSets
<1>2. /\ streams'[s] \in StreamOf(BuffersOf(s), FromRequests(s) \cup {Rpi!Null})
      /\ streams'[s].device = Append(d, x) /\ streams'[s].requests = w /\ streams'[s].available = streams[s].available
  <2>1. PICK st, v, t : st = streams[s] /\ v = Append(d, x) /\ t = streams'[s]
    OBVIOUS
  <2>2. v \in Seq(BuffersOf(s)) /\ st \in StreamOf(BuffersOf(s), FromRequests(s) \cup {Rpi!Null})
    BY <1>1, <2>1
  <2>3. t = [st EXCEPT !.device = v]
    BY <2>1
  <2>4. t \in StreamOf(BuffersOf(s), FromRequests(s) \cup {Rpi!Null}) /\ t.device = v /\ t.requests = st.requests
        /\ t.available = st.available
    BY <2>2, <2>3, OtherDevice
  <2>5. QED
    BY <2>1, <2>4, Zenon
<1>3. Ahead(s) \in Seq(T)
  BY LineType
<1>4. Line(s) = Cat(Ahead(s), Cat(d, w)) /\ Line(s)' = Cat(Ahead(s), Cat(Append(d, x), w))
  BY <1>2 DEF Line, Behind
<1>5. ASSUME NEW b
      PROVE  /\ Occurs(Line(s)', b) = Occurs(Line(s), b) + One(x = b) /\ Occurs(Line(s), b) \in Nat
  <2>1. Append(d, x) \in Seq(T)
    BY <1>1
  <2> HIDE DEF T, d, w
  <2>2. Cat(d, w) \in Seq(T) /\ Cat(Append(d, x), w) \in Seq(T)
    BY <1>1, <2>1, CatType
  <2>11. \A p, q \in Seq(T) : Occurs(Cat(p, q), b) = Occurs(p, b) + Occurs(q, b)
    BY OccursCat
  <2>3. /\ Occurs(Cat(Ahead(s), Cat(d, w)), b) = Occurs(Ahead(s), b) + Occurs(Cat(d, w), b)
        /\ Occurs(Cat(Ahead(s), Cat(Append(d, x), w)), b) = Occurs(Ahead(s), b) + Occurs(Cat(Append(d, x), w), b)
    BY <1>3, <2>2, <2>11, Zenon
  <2>4. /\ Occurs(Cat(d, w), b) = Occurs(d, b) + Occurs(w, b)
        /\ Occurs(Cat(Append(d, x), w), b) = Occurs(Append(d, x), b) + Occurs(w, b)
    BY <1>1, <2>1, <2>11, Zenon
  <2>5. Occurs(Append(d, x), b) = Occurs(d, b) + One(x = b)
    BY <1>1, OccursAppend
  <2>6. Occurs(d, b) \in Nat /\ Occurs(w, b) \in Nat /\ Occurs(Ahead(s), b) \in Nat
    BY <1>1, <1>3, OccursFinite
  <2>7. One(x = b) \in Nat
    BY OneIsNumber
  <2>8. Occurs(Line(s), b) = Occurs(Ahead(s), b) + Occurs(Cat(d, w), b)
    BY <1>4, <2>3, Zenon
  <2>9. Occurs(Line(s)', b) = Occurs(Ahead(s), b) + Occurs(Cat(Append(d, x), w), b)
    BY <1>4, <2>3, Zenon
  <2>10. QED
    BY <2>4, <2>5, <2>6, <2>7, <2>8, <2>9
<1>6. Conserved(s)'
  <2>1. ASSUME NEW i \in Pool(s)
        PROVE  Occurs(Line(s)', Rpi!Internal(i)) + Occurs(streams'[s].available, Rpi!Internal(i))
               = Occurs(Line(s), Rpi!Internal(i)) + Occurs(streams[s].available, Rpi!Internal(i)) + One(x = Rpi!Internal(i))
    <3> DEFINE b == Rpi!Internal(i)
    <3>1. Occurs(streams[s].available, b) \in Nat /\ streams'[s].available = streams[s].available
      BY <1>1, <1>2, OccursFinite
    <3>2. One(x = b) \in Nat
      BY OneIsNumber
    <3>3. Occurs(Line(s)', b) = Occurs(Line(s), b) + One(x = b) /\ Occurs(Line(s), b) \in Nat
      BY <1>5
    <3> HIDE DEF b
    <3>4. Occurs(Line(s)', b) + Occurs(streams'[s].available, b) = Occurs(Line(s), b) + Occurs(streams[s].available, b) + One(x = b)
      BY <3>1, <3>2, <3>3
    <3>5. QED
      BY <3>4 DEF b
  <2>2. QED
    BY <2>1, ConservedWhenBack DEF StreamSound
<1>7. PoolSound(s)' /\ ~Rpi!External(s)'
  BY <1>2, SameSets DEF StreamSound, PoolSound
<1>8. QED
  BY <1>2, <1>6, <1>7 DEF StreamSound

LEMMA OrderKeeps ==
    ASSUME RpiInv, Rpi!isRunning, NEW s \in Rpi!Stream, NEW q, InOrder(q, Turns(s), Wants(s)),
           SameWants(s), Taken(s)' = Taken(s), requestQueue' = requestQueue
    PROVE  InOrder(q, Turns(s)', Wants(s)')
<1>1. Turns(s) \in Seq(Pair) /\ ToSet(Turns(s)) \subseteq ToSet(requestQueue) /\ Turns(s)' = Turns(s)
  <2>1. Turns(s)' = Turns(s)
    BY DEF Turns
  <2>2. QED
    BY <2>1, TurnsType
<1>2. \A r \in Pair : (s \in req[r].pending <=> r \in Wants(s)) /\ (s \in req'[r].pending <=> r \in Wants(s)')
  BY DEF Wants
<1>3. ToSet(requestQueue) \subseteq Pair
  BY MembersIn DEF RpiInv, RpiType
<1>4. InOrder(q, Turns(s), Wants(s)')
  BY <1>1, <1>2, <1>3, InOrderKeeps DEF SameWants
<1>5. QED
  BY <1>1, <1>4

LEMMA OwnedKeeps ==
    ASSUME RpiInv, Rpi!isRunning, NEW s \in Rpi!Stream, Owned(s),
           \A r \in Pair : InWork(s, Rpi!OfRequest(r))' = InWork(s, Rpi!OfRequest(r)),
           SameWants(s), Taken(s)' = Taken(s), requestQueue' = requestQueue
    PROVE  Owned(s)'
<1>1. SUFFICES ASSUME NEW r \in Pair
               PROVE  InWork(s, Rpi!OfRequest(r))' = One(Taken(s)' /\ r = Head(requestQueue) /\ s \in req'[r].pending)
  BY DEF Owned
<1>2. InWork(s, Rpi!OfRequest(r))' = One(Taken(s) /\ r = Head(requestQueue) /\ s \in req[r].pending)
  BY DEF Owned
<1>3. Taken(s) /\ r = Head(requestQueue) => (s \in req'[r].pending <=> s \in req[r].pending)
  BY TurnsType DEF SameWants
<1>4. QED
  BY <1>2, <1>3 DEF One

\* ... one of a stream that does goes to the pool, or to the first request for one.
LEMMA ReturnedExternal ==
    ASSUME RpiInv, Rpi!isRunning, PlaceTypes, NEW s \in Rpi!Stream, Rpi!External(s), StreamSound(s),
           UNCHANGED <<config, requestQueue>>, streams'[s] = ReturnExternal(streams[s], Rpi!Internal(1)),
           Ahead(s)' = Ahead(s), SameWants(s), Taken(s)' = Taken(s),
           \A b : b # Rpi!Null => InWork(s, b) = InWork(s, b)' + One(Rpi!Internal(1) = b) /\ InWork(s, b)' \in Nat
    PROVE  StreamSound(s)' /\ streams'[s] \in StreamOf(BuffersOf(s), FromRequests(s) \cup {Rpi!Null})
<1>1. PICK st, t, x : st = streams[s] /\ t = streams'[s] /\ x = Rpi!Internal(1)
  OBVIOUS
<1> DEFINE B == BuffersOf(s)
           Q == FromRequests(s) \cup {Rpi!Null}
           T == Tokens(s)
<1>2. /\ st \in StreamOf(B, Q) /\ st.available \in Seq(B) /\ Ahead(s) \in Seq(T) /\ Behind(s) \in Seq(T) /\ Line(s) \in Seq(T)
      /\ Behind(s) = Cat(st.device, st.requests) /\ Line(s) = Cat(Ahead(s), Behind(s))
  BY <1>1, StreamQueues, LineType DEF Behind, Line
<1>3. /\ x \in B /\ x \in T /\ x # Rpi!Null /\ Rpi!Null \notin B /\ Pool(s) = {1} /\ T = B \cup {Rpi!Null} /\ Q \in SUBSET T
      /\ \A r : Rpi!OfRequest(r) # x /\ Rpi!OfRequest(r) # Rpi!Null
  BY <1>1, BufferSets, BufferNames DEF Tokens
<1>4. AtHand(st, x, Rpi!Null) /\ Conserved(s) /\ InOrder(Line(s), Turns(s), Wants(s)) /\ Owned(s)
  BY <1>1 DEF StreamSound, PoolSound
<1>5. /\ InWork(s, x) = InWork(s, x)' + 1 /\ InWork(s, x)' \in Nat
      /\ \A r : InWork(s, Rpi!OfRequest(r)) = InWork(s, Rpi!OfRequest(r))'
  <2>1. One(x = x) = 1 /\ \A r : One(x = Rpi!OfRequest(r)) = 0
    BY <1>3, OneIsNumber
  <2>2. InWork(s, x) = InWork(s, x)' + 1 /\ InWork(s, x)' \in Nat
    BY <1>1, <1>3, <2>1
  <2>3. ASSUME NEW r
        PROVE  InWork(s, Rpi!OfRequest(r)) = InWork(s, Rpi!OfRequest(r))'
    BY <1>1, <1>3, <2>1
  <2>4. QED
    BY <2>2, <2>3
<1>6. Occurs(Line(s), x) + Occurs(st.available, x) + InWork(s, x) = 1 /\ Occurs(Line(s), x) \in Nat /\ Occurs(st.available, x) \in Nat
  <2>1. Occurs(Line(s), x) + Occurs(st.available, x) + InWork(s, x) = 1
    BY <1>1, <1>3, <1>4 DEF Conserved
  <2>2. Occurs(Line(s), x) \in Nat
    BY <1>2, OccursFinite
  <2>3. Occurs(st.available, x) \in Nat
    BY <1>2, OccursFinite
  <2>4. QED
    BY <2>1, <2>2, <2>3
<1>7. Drained(st)
  <2>1. Occurs(st.available, x) = 0
    BY <1>5, <1>6
  <2>2. Occurs(<<x>>, x) = 1
    BY OccursOnce, OneIsNumber
  <2>3. st.available # <<x>>
    BY <2>1, <2>2
  <2>4. QED
    BY <1>4, <2>3 DEF AtHand, Drained
<1>8. Occurs(st.available, x) = 0 /\ st.available = <<>>
  BY <1>5, <1>6, <1>7 DEF Drained
<1>9. t = ReturnExternal(st, x)
  BY <1>1
<1> HIDE DEF B, Q, T
<1>10. /\ t \in StreamOf(B, Q) /\ AtHand(t, x, Rpi!Null)
       /\ \/ t.available = <<x>> /\ Cat(t.device, t.requests) = Cat(st.device, st.requests)
          \/ /\ t.available = <<>> /\ Len(st.device) + 1 \in 1 .. Len(Cat(st.device, st.requests))
             /\ Cat(st.device, st.requests)[Len(st.device) + 1] = Rpi!Null
             /\ Cat(t.device, t.requests) = Put(Cat(st.device, st.requests), Len(st.device) + 1, x)
  <2>1. Q \in SUBSET (B \cup {Rpi!Null})
    BY <1>3
  <2>2. QED
    BY <1>2, <1>3, <1>4, <1>7, <1>9, <2>1, ReturnBufferSound
<1>11. Behind(s)' = Cat(t.device, t.requests) /\ Line(s)' = Cat(Ahead(s), Cat(t.device, t.requests))
  BY <1>1 DEF Behind, Line
<1>12. /\ InOrder(Line(s)', Turns(s), Wants(s))
       /\ Occurs(Line(s)', x) + Occurs(t.available, x) = Occurs(Line(s), x) + Occurs(st.available, x) + 1
  <2>1. CASE t.available = <<x>> /\ Cat(t.device, t.requests) = Cat(st.device, st.requests)
    <3>1. Line(s)' = Line(s)
      BY <1>2, <1>11, <2>1, Zenon
    <3>2. Occurs(t.available, x) = 1
      BY <2>1, OccursOnce, OneIsNumber
    <3>3. QED
      BY <1>4, <1>6, <1>8, <3>1, <3>2
  <2>2. CASE /\ t.available = <<>> /\ Len(st.device) + 1 \in 1 .. Len(Cat(st.device, st.requests))
             /\ Cat(st.device, st.requests)[Len(st.device) + 1] = Rpi!Null
             /\ Cat(t.device, t.requests) = Put(Cat(st.device, st.requests), Len(st.device) + 1, x)
    <3>1. PICK k, m : k = Len(st.device) + 1 /\ m = Len(Ahead(s)) + k
      OBVIOUS
    <3>2. k \in 1 .. Len(Behind(s)) /\ Behind(s)[k] = Rpi!Null /\ Line(s)' = Cat(Ahead(s), Put(Behind(s), k, x))
      <4>1. Cat(st.device, st.requests) = Behind(s)
        BY <1>2
      <4>2. QED
        BY <1>11, <2>2, <3>1, <4>1, Zenon
    <3>3. m \in 1 .. Len(Line(s)) /\ Line(s)[m] = Rpi!Null /\ Line(s)' = Put(Line(s), m, x)
      <4>1. /\ Len(Ahead(s)) + k \in 1 .. Len(Cat(Ahead(s), Behind(s))) /\ Cat(Ahead(s), Behind(s))[Len(Ahead(s)) + k] = Behind(s)[k]
            /\ Cat(Ahead(s), Put(Behind(s), k, x)) = Put(Cat(Ahead(s), Behind(s)), Len(Ahead(s)) + k, x)
        <5>1. \A v, w \in Seq(T) : \A j \in 1 .. Len(w) : \A z \in T :
                  /\ Len(v) + j \in 1 .. Len(Cat(v, w)) /\ Cat(v, w)[Len(v) + j] = w[j]
                  /\ Cat(v, Put(w, j, z)) = Put(Cat(v, w), Len(v) + j, z)
          BY ExceptAfter
        <5>2. Ahead(s) \in Seq(T) /\ Behind(s) \in Seq(T) /\ x \in T /\ k \in 1 .. Len(Behind(s))
          BY <1>2, <1>3, <3>2
        <5>3. QED
          BY <5>1, <5>2, Zenon
      <4>2. Cat(Ahead(s), Behind(s)) = Line(s)
        BY <1>2
      <4>3. QED
        BY <3>1, <3>2, <4>1, <4>2, Zenon
    <3>4. InOrder(Put(Line(s), m, x), Turns(s), Wants(s))
      <4>1. Turns(s) \in Seq(Pair)
        BY TurnsType
      <4>2. QED
        BY <1>1, <1>2, <1>3, <1>4, <3>3, <4>1, InOrderPut
    <3>5. Occurs(Put(Line(s), m, x), x) = Occurs(Line(s), x) + 1
      <4>1. Occurs(Put(Line(s), m, x), x) = Occurs(Line(s), x) + One(x = x)
        BY <1>2, <1>3, <3>3, OccursPut
      <4>2. QED
        BY <4>1, OneIsNumber
    <3>6. Occurs(t.available, x) = 0
      BY <2>2, OccursEmpty
    <3>7. QED
      BY <1>6, <1>8, <3>3, <3>4, <3>5, <3>6
  <2>3. QED
    BY <1>10, <2>1, <2>2
<1>13. Conserved(s)'
  <2>1. ASSUME NEW i \in Pool(s)
        PROVE  Occurs(Line(s)', Rpi!Internal(i)) + Occurs(streams'[s].available, Rpi!Internal(i))
               = Occurs(Line(s), Rpi!Internal(i)) + Occurs(streams[s].available, Rpi!Internal(i)) + One(x = Rpi!Internal(i))
    <3>1. Rpi!Internal(i) = x
      BY <1>1, <1>3
    <3>2. One(x = x) = 1
      BY OneIsNumber
    <3>3. QED
      BY <1>1, <1>12, <3>1, <3>2
  <2>2. \A b : b # Rpi!Null => InWork(s, b) = InWork(s, b)' + One(x = b) /\ InWork(s, b)' \in Nat
    BY <1>1
  <2>3. QED
    BY <1>4, <2>1, <2>2, ConservedWhenBack
<1>14. Rpi!External(s)' /\ PoolSound(s)'
  BY <1>1, <1>10, SameSets DEF PoolSound
<1>15. InOrder(Line(s), Turns(s), Wants(s))' /\ Owned(s)'
  <2>1. InOrder(Line(s)', Turns(s)', Wants(s)')
    BY <1>12, OrderKeeps
  <2>2. Owned(s)'
    BY <1>4, <1>5, OwnedKeeps
  <2>3. QED
    BY <2>1, <2>2
<1>16. QED
  BY <1>1, <1>10, <1>13, <1>14, <1>15 DEF StreamSound, B, Q

\* The first buffer that a device has finished.
LEMMA FirstFinished ==
    ASSUME NEW B, NEW q \in Seq(Ready(B)), q # <<>>, NEW b
    PROVE  /\ Head(q).buffer \in B /\ Tail(q) \in Seq(Ready(B))
           /\ Occurs(Buffers(q), b) = One(Head(q).buffer = b) + Occurs(Buffers(Tail(q)), b)
           /\ Occurs(Buffers(Tail(q)), b) \in Nat
<1>1. /\ Buffers(q) \in Seq(B) /\ Buffers(q) # <<>> /\ Tail(q) \in Seq(Ready(B)) /\ Buffers(Tail(q)) = Tail(Buffers(q))
      /\ Head(Buffers(q)) = Head(q).buffer /\ Head(q).buffer \in B
  <2>1. \A v \in Seq(Ready(B)) : v # <<>> =>
            /\ Buffers(v) \in Seq(B) /\ (Buffers(v) = <<>> <=> v = <<>>)
            /\ Tail(v) \in Seq(Ready(B)) /\ Buffers(Tail(v)) = Tail(Buffers(v))
            /\ Head(Buffers(v)) = Head(v).buffer /\ Head(v).buffer \in B
    BY BuffersOfQueue, Zenon DEF Ready
  <2>2. QED
    BY <2>1, Zenon
<1>2. \A v \in Seq(B) : v # <<>> => Occurs(v, b) = One(Head(v) = b) + Occurs(Tail(v), b)
  BY OccursTail
<1>3. \A v \in Seq(Ready(B)) : Buffers(v) \in Seq(B)
  BY BuffersOfQueue DEF Ready
<1>4. \A v \in Seq(B) : Occurs(v, b) \in Nat
  BY OccursFinite
<1>5. QED
  BY <1>1, <1>2, <1>3, <1>4, Zenon

\* ispInputDequeue() and ispOutputDequeue(): the buffer is the one of the first request,
\* or an internal one.
LEMMA FinishedPlaces ==
    ASSUME RpiInv, PlaceInv, Rpi!IspInputDequeue \/ Rpi!IspOutputDequeue, session' # "refused"
    PROVE  PlaceInv'
<1>1. PICK k \in {"image", "output"}, o \in {"input", "output"} :
          /\ o = IF k = "image" THEN "input" ELSE "output"
          /\ Rpi!Dequeue(o) /\ Rpi!handleStreamBuffer(k, Head(done[o]).buffer)
          /\ UNCHANGED <<bayerQueue, embeddedQueue, calls, events>>
  <2>1. CASE Rpi!IspInputDequeue
    BY <2>1 DEF Rpi!IspInputDequeue, Rpi!ipaVars, Rpi!frameVars
  <2>2. CASE Rpi!IspOutputDequeue
    BY <2>2 DEF Rpi!IspOutputDequeue, Rpi!ipaVars, Rpi!frameVars
  <2>3. QED
    BY <2>1, <2>2
<1>2. /\ Rpi!isRunning /\ (Rpi!isRunning)' /\ stack = <<>> /\ stack' = <<"handleState">> \o stack
      /\ UNCHANGED <<state, waiting, requestQueue, input>>
      /\ done' = [done EXCEPT ![o] = Tail(@)] /\ done[o] # <<>>
  BY <1>1, DequeueRuns DEF DoneStreams
<1>3. UNCHANGED <<config, frameNumber>>
  BY <1>1 DEF Rpi!Dequeue, Rpi!boundVars
<1>4. PlaceTypes /\ (\A s \in Rpi!Stream : StreamSound(s)) /\ PendingSound
  BY <1>2 DEF PlaceInv
<1>5. done'[o] = Tail(done[o]) /\ \A s \in DoneStreams \ {o} : done'[s] = done[s]
  BY <1>1, <1>2 DEF RpiInv, RpiType, DoneStreams
<1>6. done'["image"] = done["image"] /\ done'["embedded"] = done["embedded"] /\ done'["stats"] = done["stats"]
  BY <1>5 DEF DoneStreams
<1>7. k \in Rpi!Stream /\ done[o] \in Seq(Ready(BuffersOf(k)))
  BY <1>1, <1>4, StreamQueues DEF PlaceTypes, Rpi!Stream
<1>8. PICK x : x = Head(done[o]).buffer
  OBVIOUS
<1>9. x \in BuffersOf(k) /\ done'[o] \in Seq(Ready(BuffersOf(k)))
  <2>1. \A v \in Seq(Ready(BuffersOf(k))) : v # <<>> => Head(v).buffer \in BuffersOf(k) /\ Tail(v) \in Seq(Ready(BuffersOf(k)))
    BY FirstFinished
  <2>2. QED
    BY <1>2, <1>5, <1>7, <1>8, <2>1, Zenon
<1>10. \A b : JobImage(b)' = JobImage(b) /\ JobEmbedded(b)' = JobEmbedded(b) /\ JobStats(b)' = JobStats(b) /\ JobImage(b) \in Nat
  BY <1>1, <1>2, <1>4, <1>6, SameJob, WorkType
<1>11. \A s : Taken(s)' = Taken(s)
  BY <1>1, <1>2, <1>6, SameJob DEF Taken
<1>12. ASSUME NEW b
       PROVE  InWork(k, b) = InWork(k, b)' + One(x = b) /\ InWork(k, b)' \in Nat
  <2>1. /\ Occurs(Buffers(done[o]), b) = One(x = b) + Occurs(Buffers(done'[o]), b)
        /\ Occurs(Buffers(done'[o]), b) \in Nat
    BY <1>2, <1>5, <1>7, <1>8, FirstFinished
  <2>2. One(x = b) \in Nat
    BY OneIsNumber
  <2>3. CASE k = "image"
    <3>1. InWork(k, b) = Occurs(Buffers(done[o]), b) + JobImage(b) /\ InWork(k, b)' = Occurs(Buffers(done'[o]), b) + JobImage(b)'
      BY <1>1, <2>3 DEF InWork
    <3>2. QED
      BY <1>10, <2>1, <2>2, <3>1
  <2>4. CASE k = "output"
    <3>1. InWork(k, b) = Occurs(Buffers(done[o]), b) /\ InWork(k, b)' = Occurs(Buffers(done'[o]), b)
      BY <1>1, <2>4 DEF InWork
    <3>2. QED
      BY <2>1, <2>2, <3>1
  <2>5. QED
    BY <1>1, <2>3, <2>4
<1>13. ASSUME NEW s \in Rpi!Stream \ {k}, NEW b
       PROVE  InWork(s, b)' = InWork(s, b)
  <2>1. s = "image" => done'["input"] = done["input"]
    BY <1>1, <1>5 DEF DoneStreams
  <2>2. s = "output" => done'["output"] = done["output"]
    BY <1>1, <1>5 DEF DoneStreams
  <2>3. QED
    BY <1>10, <2>1, <2>2 DEF InWork, Rpi!Stream
<1>14. \A s \in Rpi!Stream : Ahead(s)' = Ahead(s)
  BY <1>1, <1>6 DEF Ahead
<1>15. waiting = <<>> /\ ToSet(waiting) = {}
  <2>1. stack # <<"doQueue">>
    BY <1>2, OtherMoves
  <2>2. QED
    BY <2>1, QuietStack, ToSetOfEmpty DEF RpiInv
<1>16. stack' \notin Finishing \cup FinishQueue \cup Finished /\ Exhausted'
  BY <1>2, HandlerExhausted
\* What the two cases have in common.
<1>17. ASSUME \A s \in Rpi!Stream \ {k} : streams'[s] = streams[s], DOMAIN streams' = Rpi!Stream,
              \A s \in Rpi!Stream \ {k} : SameWants(s), StreamSound(k)', PendingSound',
              streams'[k] \in StreamOf(BuffersOf(k), FromRequests(k) \cup {Rpi!Null})
       PROVE  PlaceInv'
  <2>1. \A s : BuffersOf(s)' = BuffersOf(s) /\ FromRequests(s)' = FromRequests(s)
    BY <1>3, SameSets
  <2>2. ASSUME NEW s \in Rpi!Stream
        PROVE  done'[s] \in Seq(Ready(BuffersOf(s)))
    <3>1. done[s] \in Seq(Ready(BuffersOf(s)))
      BY <1>4, StreamQueues
    <3>2. CASE s = o
      <4>1. s = k
        BY <1>1, <3>2 DEF Rpi!Stream
      <4>2. QED
        BY <1>9, <3>2, <4>1
    <3>3. CASE s # o
      BY <1>5, <3>1, <3>3 DEF DoneStreams, Rpi!Stream
    <3>4. QED
      BY <3>2, <3>3
  <2>3. ASSUME NEW s \in Rpi!Stream
        PROVE  StreamType(s)'
    <3>1. streams'[s] \in StreamOf(BuffersOf(s), FromRequests(s) \cup {Rpi!Null})
      BY <1>4, <1>17, StreamQueues
    <3>2. QED
      BY <2>1, <2>2, <3>1 DEF StreamType
  <2>4. done'["input"] \in Seq(Ready(BuffersOf("image")))
    BY <1>1, <1>4, <1>5, <1>9 DEF PlaceTypes, DoneStreams
  <2>5. PlaceTypes'
    BY <1>1, <1>2, <1>3, <1>4, <1>17, <2>1, <2>3, <2>4, SameSets DEF PlaceTypes
  <2>6. ASSUME NEW s \in Rpi!Stream \ {k}
        PROVE  StreamSound(s)'
    <3>1. Line(s)' = Line(s)
      BY <1>14, <1>17 DEF Line, Behind
    <3>2. SameBuffers(s)
      BY <1>13, <1>17, <3>1 DEF SameBuffers
    <3>3. QED
      BY <1>2, <1>3, <1>4, <1>11, <1>17, <3>2, SameStream
  <2>7. QED
    BY <1>2, <1>16, <1>17, <2>5, <2>6 DEF PlaceInv
<1>18. CASE requestQueue # <<>> /\ x = Rpi!OfRequest(Head(requestQueue))
  <2>0. PICK r : r = Head(requestQueue)
    OBVIOUS
  <2>1. streams' = streams /\ req' = [req EXCEPT ![r].pending = @ \ {k}]
    BY <1>1, <1>8, <1>18, <2>0 DEF Rpi!handleStreamBuffer
  <2>2. r \in Pair /\ ToSet(requestQueue) \subseteq Pair
    BY <1>18, <2>0, HeadInToSet, MembersIn DEF RpiInv, RpiType
  <2>3. /\ req'[r].pending = req[r].pending \ {k} /\ \A z \in Pair \ {r} : req'[z] = req[z]
    BY <2>1, <2>2 DEF RpiInv, RpiType, RpiRequest
  <2>4. ASSUME NEW s \in Rpi!Stream \ {k}
        PROVE  SameWants(s)
    BY <2>2, <2>3 DEF SameWants
  <2>5. Rpi!External(k)
    <3>1. \A i \in Pool(k) : x # Rpi!Internal(i)
      BY <1>7, <1>18, <2>0, BufferSets, BufferNames
    <3>2. QED
      BY <1>7, <1>9, <3>1, BufferSets
  <2>6. InOrder(Line(k), Turns(k), Wants(k)) /\ Owned(k) /\ PoolSound(k) /\ Conserved(k)
    BY <1>4, <1>7, <2>5 DEF StreamSound
  <2>7. Taken(k) /\ k \in req[r].pending /\ InWork(k, Rpi!OfRequest(r))' = 0
    <3>1. InWork(k, x) = InWork(k, x)' + One(x = x) /\ InWork(k, x)' \in Nat /\ One(x = x) = 1
      BY <1>12, OneIsNumber
    <3>2. InWork(k, x) = One(Taken(k) /\ r = Head(requestQueue) /\ k \in req[r].pending)
      BY <1>18, <2>0, <2>2, <2>6 DEF Owned
    <3>3. InWork(k, x) \in {0, 1} /\ (InWork(k, x) # 0 => Taken(k) /\ k \in req[r].pending)
      BY <3>2, OneIsNumber
    <3>4. Taken(k) /\ k \in req[r].pending /\ InWork(k, x)' = 0
      BY <3>1, <3>3
    <3>5. QED
      BY <1>18, <2>0, <3>4
  <2>8. Owned(k)'
    <3>1. SUFFICES ASSUME NEW z \in Pair
                   PROVE  InWork(k, Rpi!OfRequest(z))' = One(Taken(k)' /\ z = r /\ k \in req'[z].pending)
      BY <1>2, <2>0 DEF Owned
    <3>2. CASE z = r
      BY <2>3, <2>7, <3>2, OneIsNumber
    <3>3. CASE z # r
      <4>1. One(x = Rpi!OfRequest(z)) = 0
        BY <1>18, <2>0, <3>3, BufferNames, OneIsNumber
      <4>2. InWork(k, Rpi!OfRequest(z)) = 0
        BY <2>0, <2>6, <3>3, OneIsNumber DEF Owned
      <4>3. InWork(k, Rpi!OfRequest(z)) = InWork(k, Rpi!OfRequest(z))' + 0 /\ InWork(k, Rpi!OfRequest(z))' \in Nat
        BY <1>12, <4>1
      <4>4. InWork(k, Rpi!OfRequest(z))' = 0
        BY <4>2, <4>3
      <4>5. One(Taken(k)' /\ z = r /\ k \in req'[z].pending) = 0
        BY <3>3, OneIsNumber
      <4>6. QED
        BY <4>4, <4>5
    <3>4. QED
      BY <3>2, <3>3
  <2>9. Line(k)' = Line(k) /\ streams'[k] = streams[k]
    BY <1>7, <1>14, <2>1 DEF Line, Behind
  <2>10. InOrder(Line(k), Turns(k), Wants(k))'
    <3>1. Turns(k) \in Seq(Pair) /\ ToSet(Turns(k)) \subseteq Pair \ {r} /\ Turns(k)' = Turns(k)
      <4>1. Turns(k)' = Turns(k)
        BY <1>2, <1>11 DEF Turns
      <4>2. Turns(k) \in Seq(Pair) /\ ToSet(Turns(k)) = ToSet(requestQueue) \ {r}
        BY <1>2, <2>0, <2>7, TurnsType
      <4>3. QED
        BY <2>2, <4>1, <4>2
    <3>2. \A z \in ToSet(Turns(k)) : z \in Wants(k) <=> z \in Wants(k)'
      BY <2>3, <3>1 DEF Wants
    <3>3. InOrder(Line(k), Turns(k), Wants(k)')
      BY <2>6, <3>1, <3>2, InOrderKeeps
    <3>4. QED
      BY <2>9, <3>1, <3>3
  <2>11. Conserved(k)'
    <3>1. ASSUME NEW i \in Pool(k)
          PROVE  InWork(k, Rpi!Internal(i))' = InWork(k, Rpi!Internal(i))
      <4>1. One(x = Rpi!Internal(i)) = 0
        BY <1>7, <1>18, BufferSets, BufferNames, OneIsNumber
      <4>2. InWork(k, Rpi!Internal(i)) = InWork(k, Rpi!Internal(i))' + 0 /\ InWork(k, Rpi!Internal(i))' \in Nat
        BY <1>12, <4>1
      <4>3. QED
        BY <4>2
    <3>2. Pool(k)' = Pool(k)
      BY <1>3, SameSets
    <3>3. QED
      BY <2>6, <2>9, <3>1, <3>2 DEF Conserved
  <2>12. StreamSound(k)'
    <3>1. Rpi!External(k)' = Rpi!External(k)
      BY <1>3, SameSets
    <3>2. PoolSound(k)'
      BY <2>6, <2>9, <3>1 DEF PoolSound, AtHand
    <3>3. QED
      BY <2>8, <2>10, <2>11, <3>1, <3>2 DEF StreamSound
  <2>13. PendingSound'
    <3>1. \A s : Rpi!External(s)' = Rpi!External(s)
      BY <1>3, SameSets
    <3>2. \A z \in ToSet(requestQueue) : req'[z].pending \subseteq req[z].pending
      BY <2>2, <2>3
    <3>3. QED
      BY <1>2, <1>4, <1>15, <1>16, <3>1, <3>2 DEF PendingSound
  <2>14. QED
    BY <1>4, <1>7, <1>17, <2>1, <2>4, <2>12, <2>13, StreamQueues DEF PlaceTypes
<1>19. CASE ~(requestQueue # <<>> /\ x = Rpi!OfRequest(Head(requestQueue)))
  <2>1. req' = req /\ streams' = [streams EXCEPT ![k] = Rpi!returnBuffer(streams[k], x, Rpi!External(k))]
    BY <1>1, <1>8, <1>19, NoRefusal DEF Rpi!handleStreamBuffer
  <2>2. /\ DOMAIN streams' = Rpi!Stream /\ streams'[k] = Rpi!returnBuffer(streams[k], x, Rpi!External(k))
        /\ \A s \in Rpi!Stream \ {k} : streams'[s] = streams[s]
    <3>1. DOMAIN streams = Rpi!Stream
      BY <1>4 DEF PlaceTypes
    <3>2. \A v : LET f == [streams EXCEPT ![k] = v] IN
              DOMAIN f = Rpi!Stream /\ f[k] = v /\ \A s \in Rpi!Stream \ {k} : f[s] = streams[s]
      BY <1>7, <3>1
    <3>3. QED
      BY <2>1, <3>2
  <2>3. \A s : SameWants(s)
    BY <2>1 DEF SameWants
  <2>4. PendingSound'
    BY <1>2, <1>3, <1>4, <1>16, <2>1, SamePending
  <2>5. PICK i \in Pool(k) : x = Rpi!Internal(i)
    <3>1. SUFFICES ASSUME Rpi!External(k), NEW r \in Pair, x = Rpi!OfRequest(r)
                   PROVE  FALSE
      BY <1>7, <1>9, BufferSets
    <3>2. Owned(k)
      BY <1>4, <1>7, <3>1 DEF StreamSound
    <3>3. InWork(k, x) = InWork(k, x)' + One(x = x) /\ InWork(k, x)' \in Nat /\ One(x = x) = 1
      BY <1>12, OneIsNumber
    <3>4. InWork(k, x) = One(Taken(k) /\ r = Head(requestQueue) /\ k \in req[r].pending)
      BY <3>1, <3>2 DEF Owned
    <3>5. InWork(k, x) # 0
      BY <3>3
    <3>6. Taken(k) /\ r = Head(requestQueue)
      BY <3>4, <3>5, OneIsNumber
    <3>7. requestQueue # <<>>
      BY <1>2, <3>6, TurnsType
    <3>8. QED
      BY <1>19, <3>1, <3>6, <3>7
  <2>6. StreamSound(k)' /\ streams'[k] \in StreamOf(BuffersOf(k), FromRequests(k) \cup {Rpi!Null})
    <3>1. CASE Rpi!External(k)
      <4>1. x = Rpi!Internal(1)
        BY <1>7, <2>5, <3>1, BufferSets
      <4>2. streams'[k] = ReturnExternal(streams[k], Rpi!Internal(1))
        <5>1. Rpi!External(k) = TRUE
          BY <3>1 DEF Rpi!External
        <5>2. QED
          BY <2>2, <4>1, <5>1, Zenon DEF ReturnExternal
      <4>3. QED
        BY <1>2, <1>3, <1>4, <1>7, <1>11, <1>12, <1>14, <2>3, <3>1, <4>1, <4>2, ReturnedExternal
    <3>2. CASE ~Rpi!External(k)
      <4>1. streams'[k] = [streams[k] EXCEPT !.device = Append(@, x)]
        BY <2>2, <3>2 DEF Rpi!returnBuffer
      <4>2. QED
        BY <1>3, <1>4, <1>7, <1>9, <1>12, <1>14, <3>2, <4>1, ReturnedInternal
    <3>3. QED
      BY <3>1, <3>2
  <2>7. QED
    BY <1>17, <2>2, <2>3, <2>4, <2>6
<1>20. QED
  BY <1>18, <1>19

(***************************************************************************)
(* Signals of the IPA                                                      *)
(***************************************************************************)

\* handleStreamBuffer() of a stream that requests have no buffers for.
LEMMA InternalHandled ==
    ASSUME PlaceTypes, NEW k \in {"embedded", "stats"}, NEW x \in BuffersOf(k), Rpi!handleStreamBuffer(k, x),
           session' # "refused"
    PROVE  /\ req' = req /\ DOMAIN streams' = Rpi!Stream
           /\ streams'[k] = [streams[k] EXCEPT !.device = Append(@, x)]
           /\ \A s \in Rpi!Stream \ {k} : streams'[s] = streams[s]
<1>1. k \in Rpi!Stream /\ ~Rpi!External(k)
  BY ExternalStreams DEF Rpi!Stream
<1>2. \A r : x # Rpi!OfRequest(r)
  BY <1>1, BufferSets, BufferNames
<1>3. req' = req /\ streams' = [streams EXCEPT ![k] = Rpi!returnBuffer(streams[k], x, Rpi!External(k))]
  BY <1>2, NoRefusal DEF Rpi!handleStreamBuffer
<1>4. Rpi!returnBuffer(streams[k], x, Rpi!External(k)) = [streams[k] EXCEPT !.device = Append(@, x)]
  BY <1>1 DEF Rpi!returnBuffer
<1>5. DOMAIN streams = Rpi!Stream
  BY DEF PlaceTypes
<1>6. \A v : LET f == [streams EXCEPT ![k] = v] IN
          DOMAIN f = Rpi!Stream /\ f[k] = v /\ \A s \in Rpi!Stream \ {k} : f[s] = streams[s]
  BY <1>1, <1>5
<1>7. QED
  BY <1>3, <1>4, <1>6

\* A signal after which the job goes on, or ends, and the buffer x, if any, is done with.
LEMMA SignalPlaces ==
    ASSUME RpiInv, PlaceInv, Rpi!isRunning, (Rpi!isRunning)',
           UNCHANGED <<config, frameNumber, waiting, req, requestQueue, done, calls, bayerQueue, embeddedQueue>>,
           stack = <<>>, stack' = <<"handleState">> \o stack, events' = <<>>, input' \in Seq(BuffersOf("image")),
           NEW k \in {"embedded", "stats"}, NEW x, x # Rpi!Null => x \in BuffersOf(k),
           DOMAIN streams' = Rpi!Stream, \A s \in Rpi!Stream \ {k} : streams'[s] = streams[s],
           streams'[k] = IF x = Rpi!Null THEN streams[k] ELSE [streams[k] EXCEPT !.device = Append(@, x)],
           \A s \in Rpi!Stream : \A b : b # Rpi!Null =>
               InWork(s, b) = InWork(s, b)' + One(s = k /\ x = b) /\ InWork(s, b)' \in Nat,
           \A s \in {"image", "output"} : Taken(s)' = Taken(s)
    PROVE  PlaceInv'
<1>1. PlaceTypes /\ (\A s \in Rpi!Stream : StreamSound(s)) /\ PendingSound
  BY DEF PlaceInv
<1>2. k \in Rpi!Stream /\ ~Rpi!External(k)
  BY ExternalStreams DEF Rpi!Stream
<1>3. \A s \in Rpi!Stream : Ahead(s)' = Ahead(s)
  BY DEF Ahead
<1>4. ASSUME NEW s \in Rpi!Stream, streams'[s] = streams[s], s # k \/ x = Rpi!Null
      PROVE  StreamSound(s)'
  <2>1. Line(s)' = Line(s)
    BY <1>3, <1>4 DEF Line, Behind
  <2>2. ASSUME NEW b, b # Rpi!Null
        PROVE  InWork(s, b)' = InWork(s, b)
    <3>1. ~(s = k /\ x = b)
      BY <1>4, <2>2
    <3>2. One(s = k /\ x = b) = 0
      BY <3>1, OneIsNumber
    <3>3. InWork(s, b) = InWork(s, b)' + 0 /\ InWork(s, b)' \in Nat
      BY <2>2, <3>2
    <3>4. QED
      BY <3>3
  <2>3. SameBuffers(s) /\ SameWants(s)
    BY <1>4, <2>1, <2>2 DEF SameBuffers, SameWants
  <2>4. Rpi!External(s) => Taken(s)' = Taken(s)
    BY ExternalStreams
  <2>5. QED
    BY <1>1, <2>3, <2>4, SameStream
<1>5. StreamSound(k)' /\ streams'[k] \in StreamOf(BuffersOf(k), FromRequests(k) \cup {Rpi!Null})
  <2>1. CASE x = Rpi!Null
    BY <1>1, <1>2, <1>4, <2>1, StreamQueues
  <2>2. CASE x # Rpi!Null
    <3>1. ASSUME NEW b, b # Rpi!Null
          PROVE  InWork(k, b) = InWork(k, b)' + One(x = b) /\ InWork(k, b)' \in Nat
      <4>1. One(k = k /\ x = b) = One(x = b)
        BY DEF One
      <4>2. QED
        BY <1>2, <3>1, <4>1
    <3>2. streams'[k] = [streams[k] EXCEPT !.device = Append(@, x)] /\ x \in BuffersOf(k)
      BY <2>2
    <3>3. QED
      BY <1>1, <1>2, <1>3, <3>1, <3>2, ReturnedInternal
  <2>3. QED
    BY <2>1, <2>2
<1>6. \A s \in Rpi!Stream : StreamSound(s)'
  BY <1>4, <1>5
<1>7. PlaceTypes'
  <2>1. \A s : BuffersOf(s)' = BuffersOf(s) /\ FromRequests(s)' = FromRequests(s)
    BY SameSets
  <2>2. ASSUME NEW s \in Rpi!Stream
        PROVE  StreamType(s)'
    <3>1. streams'[s] \in StreamOf(BuffersOf(s), FromRequests(s) \cup {Rpi!Null}) /\ done'[s] \in Seq(Ready(BuffersOf(s)))
      BY <1>1, <1>5, StreamQueues
    <3>2. QED
      BY <2>1, <3>1 DEF StreamType
  <2>3. events' \in Seq(PrepareCall("prepareIspComplete") \cup StatsCall("processStatsComplete")
                        \cup {[op |-> "metadataReady"]})
    OBVIOUS
  <2>4. QED
    BY <1>1, <2>1, <2>2, <2>3, SameSets DEF PlaceTypes
<1>8. PendingSound' /\ Exhausted'
  BY <1>1, HandlerExhausted, SamePending
<1>9. QED
  BY <1>6, <1>7, <1>8 DEF PlaceInv

LEMMA OneEvent ==
    ASSUME PlaceTypes, NEW e, events = <<e>>
    PROVE  /\ Head(events) = e /\ Tail(events) = <<>>
           /\ e.op = "prepareIspComplete" => e.bayer \in BuffersOf("image") /\ e.embedded \in BuffersOf("embedded") \cup {Rpi!Null}
           /\ e.op = "processStatsComplete" => e.stats \in BuffersOf("stats")
<1>1. Head(<<e>>) = e /\ Tail(<<e>>) = <<>>
  OBVIOUS
<1>2. Head(events) = e /\ Tail(events) = <<>>
  BY <1>1, Zenon
<1>3. events # <<>> /\ e \in PrepareCall("prepareIspComplete") \cup StatsCall("processStatsComplete") \cup {[op |-> "metadataReady"]}
  <2> DEFINE E == PrepareCall("prepareIspComplete") \cup StatsCall("processStatsComplete") \cup {[op |-> "metadataReady"]}
  <2>1. events \in Seq(E)
    BY DEF PlaceTypes
  <2>2. events # <<>>
    OBVIOUS
  <2> HIDE DEF E
  <2>3. Head(events) \in E
    BY <2>1, <2>2, HeadInToSet
  <2>4. QED
    BY <1>2, <2>2, <2>3 DEF E
<1>4. /\ \A c \in PrepareCall("prepareIspComplete") : c.op = "prepareIspComplete"
      /\ \A c \in StatsCall("processStatsComplete") : c.op = "processStatsComplete"
  BY AnswerOf
<1>5. \A c \in {[op |-> "metadataReady"]} : c.op = "metadataReady"
  OBVIOUS
<1>6. /\ e.op = "prepareIspComplete" => e \in PrepareCall("prepareIspComplete")
      /\ e.op = "processStatsComplete" => e \in StatsCall("processStatsComplete")
  BY <1>3, <1>4, <1>5
<1>7. QED
  BY <1>2, <1>6 DEF PrepareCall, StatsCall

\* prepareIspComplete(): the image goes to the ISP, the embedded data goes back.
LEMMA PreparedPlaces ==
    ASSUME RpiInv, PlaceInv, Rpi!IpaEvent, state = "Busy", EventIs("prepareIspComplete"), session' # "refused"
    PROVE  PlaceInv'
<1>1. PICK e : events = <<e>> /\ e.op = "prepareIspComplete"
  BY DEF EventIs
<1>2. PlaceTypes /\ Rpi!isRunning
  BY DEF PlaceInv, Rpi!isRunning
<1>3. calls = <<>> /\ input = <<>> /\ done["stats"] = <<>>
  BY DEF EventIs
<1>4. /\ Head(events) = e /\ Tail(events) = <<>>
      /\ e.bayer \in BuffersOf("image") /\ e.embedded \in BuffersOf("embedded") \cup {Rpi!Null}
  BY <1>1, <1>2, OneEvent
<1>5. /\ stack = <<>> /\ events' = Tail(events)
      /\ UNCHANGED <<config, frameNumber, waiting, requestQueue, done, calls, bayerQueue, embeddedQueue>>
  BY DEF Rpi!IpaEvent, Rpi!Loop, Rpi!queueVars, Rpi!frameVars, Rpi!boundVars
<1>6. /\ input' = Append(input, e.bayer) /\ stack' = <<"handleState">> \o stack /\ state' = state
      /\ IF e.embedded = Rpi!Null THEN UNCHANGED <<req, streams>> ELSE Rpi!handleStreamBuffer("embedded", e.embedded)
  BY <1>1, <1>2, <1>4 DEF Rpi!IpaEvent, Rpi!Call
<1>7. PICK x : x = e.embedded
  OBVIOUS
<1>8. PICK y : y = e.bayer
  OBVIOUS
<1>9. input' = <<y>> /\ calls' = <<>> /\ events' = <<>> /\ done'["stats"] = <<>>
  <2>1. Append(<<>>, y) = <<y>>
    OBVIOUS
  <2>2. QED
    BY <1>3, <1>4, <1>5, <1>6, <1>8, <2>1, Zenon
<1>10. /\ req' = req /\ DOMAIN streams' = Rpi!Stream /\ \A s \in Rpi!Stream \ {"embedded"} : streams'[s] = streams[s]
       /\ streams'["embedded"] = IF x = Rpi!Null THEN streams["embedded"] ELSE [streams["embedded"] EXCEPT !.device = Append(@, x)]
  <2>1. CASE x = Rpi!Null
    <3>1. req' = req /\ streams' = streams /\ DOMAIN streams = Rpi!Stream
      BY <1>2, <1>6, <1>7, <2>1 DEF PlaceTypes
    <3>2. QED
      BY <2>1, <3>1
  <2>2. CASE x # Rpi!Null
    <3>1. x \in BuffersOf("embedded") /\ Rpi!handleStreamBuffer("embedded", x)
      BY <1>4, <1>6, <1>7, <2>2
    <3>2. QED
      BY <1>2, <2>2, <3>1, InternalHandled
  <2>3. QED
    BY <2>1, <2>2
<1>11. WorkOn(y, x, Rpi!Null)
  BY <1>1, <1>3, <1>7, <1>8, JobInEvent
<1>12. WorkOn(y, Rpi!Null, Rpi!Null)' /\ InIsp'
  <2>1. WorkOn(y, Rpi!Null, Rpi!Null)'
    BY <1>9, JobsNext, Zenon DEF JobsKnown
  <2>2. InIsp'
    BY <1>9 DEF InIsp
  <2>3. QED
    BY <2>1, <2>2
<1>13. (Rpi!isRunning)' /\ \A s \in {"image", "output"} : Taken(s)' = Taken(s)
  <2>1. ~IspRan /\ ~IspRan'
    BY <1>6, <1>12, NotYet, NotYetNext
  <2>2. IspRan \in BOOLEAN /\ IspRan' \in BOOLEAN
    BY DEF IspRan
  <2>3. QED
    BY <1>6, <2>1, <2>2 DEF Taken, Rpi!isRunning
<1>14. ASSUME NEW b, b # Rpi!Null
       PROVE  /\ JobImage(b)' = JobImage(b) /\ JobStats(b)' = JobStats(b) /\ JobEmbedded(b)' = 0
              /\ JobEmbedded(b) = One(x = b) /\ JobImage(b) \in Nat /\ JobStats(b) \in Nat
  <2>1. /\ JobImage(b) = One(y = b) /\ JobEmbedded(b) = One(x = b) /\ JobStats(b) = One(Rpi!Null = b)
    BY <1>11, <1>14, Zenon DEF WorkOn
  <2>2. /\ JobImage(b)' = One(y = b) /\ JobEmbedded(b)' = One(Rpi!Null = b) /\ JobStats(b)' = One(Rpi!Null = b)
    BY <1>12, <1>14, WorkNext
  <2>3. One(Rpi!Null = b) = 0
    BY <1>14, NoneIs0
  <2>4. QED
    BY <1>2, <2>1, <2>2, <2>3, WorkType, Zenon
<1>15. ASSUME NEW s \in Rpi!Stream, NEW b, b # Rpi!Null
       PROVE  InWork(s, b) = InWork(s, b)' + One(s = "embedded" /\ x = b) /\ InWork(s, b)' \in Nat
  <2>1. InWork(s, b) \in Nat
    BY <1>2, WorkType
  <2>2. CASE s = "embedded"
    <3>1. InWork(s, b) = JobEmbedded(b) /\ InWork(s, b)' = JobEmbedded(b)'
      BY <2>2 DEF InWork
    <3>2. One(s = "embedded" /\ x = b) = One(x = b) /\ One(x = b) \in Nat
      BY <2>2 DEF One
    <3>3. QED
      BY <1>14, <1>15, <3>1, <3>2
  <2>3. CASE s # "embedded"
    <3>1. InWork(s, b)' = InWork(s, b)
      BY <1>5, <1>14, <1>15, <2>3 DEF InWork
    <3>2. One(s = "embedded" /\ x = b) = 0
      BY <2>3, OneIsNumber
    <3>3. QED
      BY <2>1, <3>1, <3>2
  <2>4. QED
    BY <2>2, <2>3
<1>16. input' \in Seq(BuffersOf("image")) /\ (x # Rpi!Null => x \in BuffersOf("embedded"))
  <2>1. \A v \in BuffersOf("image") : <<v>> \in Seq(BuffersOf("image"))
    OBVIOUS
  <2>2. QED
    BY <1>4, <1>7, <1>8, <1>9, <2>1, Zenon
<1>17. QED
  BY <1>2, <1>5, <1>6, <1>9, <1>10, <1>13, <1>15, <1>16, SignalPlaces

\* processStatsComplete(): the statistics go back, and the job is done.
LEMMA ProcessedPlaces ==
    ASSUME RpiInv, PlaceInv, Rpi!IpaEvent, state = "Busy", EventIs("processStatsComplete"), session' # "refused"
    PROVE  PlaceInv'
<1>1. PICK e : events = <<e>> /\ e.op = "processStatsComplete"
  BY DEF EventIs
<1>2. PlaceTypes /\ Rpi!isRunning
  BY DEF PlaceInv, Rpi!isRunning
<1>3. calls = <<>> /\ input = <<>> /\ done["stats"] = <<>>
  BY DEF EventIs
<1>4. Head(events) = e /\ Tail(events) = <<>> /\ e.stats \in BuffersOf("stats")
  BY <1>1, <1>2, OneEvent
<1>5. /\ stack = <<>> /\ events' = Tail(events)
      /\ UNCHANGED <<config, frameNumber, waiting, requestQueue, done, calls, bayerQueue, embeddedQueue>>
  BY DEF Rpi!IpaEvent, Rpi!Loop, Rpi!queueVars, Rpi!frameVars, Rpi!boundVars
<1>6. /\ Rpi!handleStreamBuffer("stats", e.stats) /\ stack' = <<"handleState">> \o stack
      /\ state' = "IpaComplete" /\ input' = input
  BY <1>1, <1>2, <1>4 DEF Rpi!IpaEvent, Rpi!Call
<1>7. PICK x : x = e.stats
  OBVIOUS
<1>8. NoWork'
  BY <1>3, <1>4, <1>5, <1>6, Zenon DEF NoWork
<1>9. x \in BuffersOf("stats") /\ x # Rpi!Null /\ "stats" \in Rpi!Stream
  BY <1>4, <1>7, BufferSets DEF Rpi!Stream
<1>10. /\ req' = req /\ DOMAIN streams' = Rpi!Stream /\ \A s \in Rpi!Stream \ {"stats"} : streams'[s] = streams[s]
       /\ streams'["stats"] = [streams["stats"] EXCEPT !.device = Append(@, x)]
  BY <1>2, <1>6, <1>7, <1>9, InternalHandled
<1>11. WorkOn(Rpi!Null, Rpi!Null, x)
  BY <1>1, <1>3, <1>7, JobInEvent
<1>12. WorkOn(Rpi!Null, Rpi!Null, Rpi!Null)'
  BY <1>8, JobsNext, Zenon DEF JobsKnown
<1>13. (Rpi!isRunning)' /\ \A s \in {"image", "output"} : Taken(s)' = Taken(s)
  <2>1. IspRan /\ IspRan'
    BY <1>6 DEF IspRan
  <2>2. IspRan \in BOOLEAN /\ IspRan' \in BOOLEAN
    BY DEF IspRan
  <2>3. QED
    BY <1>6, <2>1, <2>2 DEF Taken, Rpi!isRunning
<1>14. ASSUME NEW b, b # Rpi!Null
       PROVE  /\ JobImage(b)' = JobImage(b) /\ JobEmbedded(b)' = JobEmbedded(b) /\ JobStats(b)' = 0
              /\ JobStats(b) = One(x = b)
  <2>1. /\ JobImage(b) = One(Rpi!Null = b) /\ JobEmbedded(b) = One(Rpi!Null = b) /\ JobStats(b) = One(x = b)
    BY <1>11, <1>14, Zenon DEF WorkOn
  <2>2. /\ JobImage(b)' = One(Rpi!Null = b) /\ JobEmbedded(b)' = One(Rpi!Null = b) /\ JobStats(b)' = One(Rpi!Null = b)
    BY <1>12, <1>14, WorkNext
  <2>3. One(Rpi!Null = b) = 0
    BY <1>14, NoneIs0
  <2>4. QED
    BY <2>1, <2>2, <2>3, Zenon
<1>15. ASSUME NEW s \in Rpi!Stream, NEW b, b # Rpi!Null
       PROVE  InWork(s, b) = InWork(s, b)' + One(s = "stats" /\ x = b) /\ InWork(s, b)' \in Nat
  <2>1. InWork(s, b) \in Nat
    BY <1>2, WorkType
  <2>2. CASE s = "stats"
    <3>1. InWork(s, b) = JobStats(b) /\ InWork(s, b)' = JobStats(b)'
      BY <2>2 DEF InWork
    <3>2. One(s = "stats" /\ x = b) = One(x = b) /\ One(x = b) \in Nat
      BY <2>2 DEF One
    <3>3. QED
      BY <1>14, <1>15, <3>1, <3>2
  <2>3. CASE s # "stats"
    <3>1. InWork(s, b)' = InWork(s, b)
      BY <1>5, <1>14, <1>15, <2>3 DEF InWork
    <3>2. One(s = "stats" /\ x = b) = 0
      BY <2>3, OneIsNumber
    <3>3. QED
      BY <2>1, <3>1, <3>2
  <2>4. QED
    BY <2>2, <2>3
<1>16. input' \in Seq(BuffersOf("image")) /\ events' = <<>>
  BY <1>2, <1>4, <1>5, <1>6, Zenon DEF PlaceTypes
<1>17. QED
  BY <1>2, <1>5, <1>6, <1>9, <1>10, <1>13, <1>15, <1>16, SignalPlaces

LEMMA IpaEventPlaces ==
    ASSUME RpiInv, PlaceInv, Rpi!isRunning, Rpi!IpaEvent, session' # "refused"
    PROVE  PlaceInv'
<1>1. events # <<>>
  BY DEF Rpi!IpaEvent
<1>2. state = "Busy" /\ (EventIs("prepareIspComplete") \/ Answered \/ EventIs("processStatsComplete"))
  BY <1>1 DEF RpiInv, OneJob, Work, NoWork, CallIs, InIsp, FromIsp
<1>3. QED
  BY <1>2, PreparedPlaces, MetadataPlaces, ProcessedPlaces

(***************************************************************************)
(* tryRunPipeline()                                                        *)
(***************************************************************************)

\* The buffers of the first k entries.
FirstBuffers(q, k) == [i \in 1 .. k |-> q[i].buffer]

LEMMA OlderEmbedded ==
    ASSUME NEW B, embeddedQueue \in Seq(Ready(B)), NEW ts \in Nat
    PROVE  Rpi!Older(ts) \in 0 .. Len(embeddedQueue)
<1>1. PICK q : q = embeddedQueue
  OBVIOUS
<1>2. q \in Seq(Ready(B)) /\ Len(q) \in Nat
  BY <1>1
<1>3. \A i \in 1 .. Len(q) : q[i].ts \in Nat
  <2>1. \A i \in 1 .. Len(q) : q[i] \in Ready(B)
    BY <1>2
  <2>2. QED
    BY <2>1 DEF Ready
<1> DEFINE T == {n \in 0 .. Len(q) : n < Len(q) => q[n + 1].ts >= ts}
<1>4. T \in SUBSET Nat /\ Len(q) \in T
  BY <1>2
<1>5. \A n \in 0 .. Len(q) : n \notin T => n < Len(q) /\ ~(q[n + 1].ts >= ts)
  OBVIOUS
<1>6. \A n \in T : n \in 0 .. Len(q) /\ (n < Len(q) => q[n + 1].ts >= ts)
  OBVIOUS
<1> HIDE DEF T
<1>7. PICK n \in T : \A y \in T : n <= y
  BY <1>4, SmallestMember
<1>8. ASSUME NEW i \in 1 .. n
      PROVE  q[i].ts < ts
  <2>1. n \in Nat /\ n <= Len(q)
    BY <1>2, <1>6
  <2>2. i - 1 \in 0 .. Len(q) /\ i - 1 < n /\ (i - 1) + 1 = i /\ i \in 1 .. Len(q)
    BY <1>2, <2>1
  <2>3. i - 1 \notin T
    BY <1>7, <2>1, <2>2
  <2>4. ~(q[i].ts >= ts)
    BY <1>5, <2>2, <2>3
  <2>5. q[i].ts \in Nat
    BY <1>3, <2>2
  <2>6. QED
    BY <2>4, <2>5
<1>9. \E k \in 0 .. Len(q) : (\A i \in 1 .. k : q[i].ts < ts) /\ (k < Len(q) => q[k + 1].ts >= ts)
  BY <1>6, <1>7, <1>8
<1>10. QED
  BY <1>1, <1>9 DEF Rpi!Older

LEMMA SplitQueue ==
    ASSUME NEW B, NEW q \in Seq(Ready(B)), NEW k \in 0 .. Len(q)
    PROVE  /\ FirstBuffers(q, k) \in Seq(B) /\ Rest(q, k) \in Seq(Ready(B))
           /\ Buffers(q) = Cat(FirstBuffers(q, k), Buffers(Rest(q, k)))
<1> DEFINE p == FirstBuffers(q, k)
           w == Rest(q, k)
           u == Buffers(w)
           v == Buffers(q)
<1>1. Len(q) \in Nat /\ k \in Nat /\ k <= Len(q)
  OBVIOUS
<1>2. w \in Seq(Ready(B)) /\ Len(w) = Len(q) - k /\ \A i \in 1 .. Len(w) : w[i] = q[k + i]
  BY <1>1 DEF Rest
<1>3. \A i \in 1 .. Len(q) : q[i].buffer \in B
  <2>1. \A i \in 1 .. Len(q) : q[i] \in Ready(B)
    OBVIOUS
  <2>2. QED
    BY <2>1 DEF Ready
<1>4. p \in Seq(B) /\ Len(p) = k /\ \A i \in 1 .. k : p[i] = q[i].buffer
  <2>1. p \in [1 .. k -> B]
    BY <1>1, <1>3 DEF FirstBuffers
  <2>2. \A f \in [1 .. k -> B] : f \in Seq(B) /\ Len(f) = k
    BY <1>1
  <2>3. QED
    BY <2>1, <2>2 DEF FirstBuffers
<1> HIDE DEF p, w
<1>5. u \in Seq(B) /\ Len(u) = Len(w) /\ v \in Seq(B) /\ Len(v) = Len(q)
  BY <1>2, BuffersOfQueue DEF Ready
<1>6. /\ \A i \in 1 .. Len(w) : u[i] = w[i].buffer
      /\ \A i \in 1 .. Len(q) : v[i] = q[i].buffer
  BY <1>2 DEF Buffers
<1> HIDE DEF u, v
<1>7. /\ p \o u \in Seq(B) /\ Len(p \o u) = Len(p) + Len(u) /\ Len(p) \in Nat /\ Len(u) \in Nat
      /\ \A i \in 1 .. Len(p) : (p \o u)[i] = p[i]
      /\ \A i \in 1 .. Len(u) : (p \o u)[Len(p) + i] = u[i]
  <2>1. \A f, g \in Seq(B) :
            /\ f \o g \in Seq(B) /\ Len(f \o g) = Len(f) + Len(g) /\ Len(f) \in Nat /\ Len(g) \in Nat
            /\ \A i \in 1 .. Len(f) : (f \o g)[i] = f[i]
            /\ \A i \in 1 .. Len(g) : (f \o g)[Len(f) + i] = g[i]
    BY ConcatIndexing
  <2>2. p \in Seq(B) /\ u \in Seq(B)
    BY <1>4, <1>5
  <2>3. QED
    BY <2>1, <2>2, Zenon
<1> DEFINE x == p \o u
<1> HIDE DEF x
<1>8. \A i \in 1 .. Len(q) : x[i] = v[i]
  <2>1. SUFFICES ASSUME NEW i \in 1 .. Len(q) PROVE x[i] = v[i]
    OBVIOUS
  <2>2. CASE i <= k
    BY <1>1, <1>4, <1>6, <1>7, <2>2 DEF x
  <2>3. CASE i > k
    <3>1. i - k \in 1 .. Len(w) /\ k + (i - k) = i
      BY <1>1, <1>2, <2>3
    <3>2. x[k + (i - k)] = u[i - k]
      BY <1>4, <1>5, <1>7, <3>1 DEF x
    <3>3. u[i - k] = q[k + (i - k)].buffer
      BY <1>2, <1>6, <3>1
    <3>4. QED
      BY <1>6, <3>1, <3>2, <3>3
  <2>4. QED
    BY <1>1, <2>2, <2>3
<1>9. x \in Seq(B) /\ Len(x) = Len(q)
  BY <1>1, <1>2, <1>4, <1>5, <1>7 DEF x
<1>10. x = v
  BY <1>5, <1>8, <1>9
<1>11. QED
  BY <1>2, <1>4, <1>10 DEF x, p, w, u, v, Cat

LEMMA OccursFour ==
    ASSUME NEW S, NEW p \in Seq(S), NEW q \in Seq(S), NEW v \in Seq(S), NEW w \in Seq(S), NEW b
    PROVE  /\ Occurs(Cat(Cat(p, q), Cat(v, w)), b) = Occurs(p, b) + Occurs(q, b) + Occurs(v, b) + Occurs(w, b)
           /\ Occurs(p, b) \in Nat /\ Occurs(q, b) \in Nat /\ Occurs(v, b) \in Nat /\ Occurs(w, b) \in Nat
<1>1. Cat(p, q) \in Seq(S) /\ Cat(v, w) \in Seq(S)
  BY CatType
<1>2. \A f, g \in Seq(S) : Occurs(Cat(f, g), b) = Occurs(f, b) + Occurs(g, b)
  BY OccursCat
<1>3. Occurs(Cat(Cat(p, q), Cat(v, w)), b) = Occurs(Cat(p, q), b) + Occurs(Cat(v, w), b)
  BY <1>1, <1>2, Zenon
<1>4. Occurs(Cat(p, q), b) = Occurs(p, b) + Occurs(q, b) /\ Occurs(Cat(v, w), b) = Occurs(v, b) + Occurs(w, b)
  BY <1>2, Zenon
<1>5. Occurs(p, b) \in Nat /\ Occurs(q, b) \in Nat /\ Occurs(v, b) \in Nat /\ Occurs(w, b) \in Nat
  BY OccursFinite
<1>6. QED
  BY <1>3, <1>4, <1>5

LEMMA OccursMoved ==
    ASSUME NEW S, NEW g \in Seq(S), NEW h \in Seq(S), NEW m \in Seq(S), NEW v \in Seq(S), NEW d \in Seq(S), NEW b, NEW k \in Nat,
           Occurs(g, b) = Occurs(d, b) + k + Occurs(h, b)
    PROVE  /\ Occurs(Cat(Cat(g, m), Cat(v, <<>>)), b) = Occurs(Cat(Cat(h, m), Cat(Cat(v, d), <<>>)), b) + k
           /\ Occurs(Cat(Cat(h, m), Cat(Cat(v, d), <<>>)), b) \in Nat
<1>1. PICK n : n = <<>>
  OBVIOUS
<1>2. PICK w : w = Cat(v, d)
  OBVIOUS
<1>3. n \in Seq(S) /\ w \in Seq(S)
  BY <1>1, <1>2, CatType
<1>4. Occurs(w, b) = Occurs(v, b) + Occurs(d, b) /\ Occurs(n, b) = 0 /\ Occurs(d, b) \in Nat
  <2>1. Occurs(w, b) = Occurs(v, b) + Occurs(d, b)
    BY <1>2, OccursCat
  <2>2. Occurs(n, b) = 0
    BY <1>1, OccursEmpty
  <2>3. Occurs(d, b) \in Nat
    BY OccursFinite
  <2>4. QED
    BY <2>1, <2>2, <2>3
<1>5. /\ Occurs(Cat(Cat(g, m), Cat(v, n)), b) = Occurs(g, b) + Occurs(m, b) + Occurs(v, b) + Occurs(n, b)
      /\ Occurs(g, b) \in Nat /\ Occurs(m, b) \in Nat /\ Occurs(v, b) \in Nat
  BY <1>3, OccursFour
<1>6. /\ Occurs(Cat(Cat(h, m), Cat(w, n)), b) = Occurs(h, b) + Occurs(m, b) + Occurs(w, b) + Occurs(n, b)
      /\ Occurs(h, b) \in Nat
  BY <1>3, OccursFour
<1>7. /\ Occurs(Cat(Cat(g, m), Cat(v, n)), b) = Occurs(Cat(Cat(h, m), Cat(w, n)), b) + k
      /\ Occurs(Cat(Cat(h, m), Cat(w, n)), b) \in Nat
  <2>1. PICK y, z : y = Occurs(Cat(Cat(g, m), Cat(v, n)), b) /\ z = Occurs(Cat(Cat(h, m), Cat(w, n)), b)
    OBVIOUS
  <2>2. PICK a1, a2, a3, a4, a5 :
            a1 = Occurs(g, b) /\ a2 = Occurs(m, b) /\ a3 = Occurs(v, b) /\ a4 = Occurs(d, b) /\ a5 = Occurs(h, b)
    OBVIOUS
  <2>3. /\ a1 \in Nat /\ a2 \in Nat /\ a3 \in Nat /\ a4 \in Nat /\ a5 \in Nat
        /\ y = a1 + a2 + a3 + 0 /\ z = a5 + a2 + (a3 + a4) + 0 /\ a1 = a4 + k + a5
    BY <1>4, <1>5, <1>6, <2>1, <2>2, Zenon
  <2>4. y = z + k /\ z \in Nat
    BY <2>3
  <2>5. QED
    BY <2>1, <2>4, Zenon
<1>8. QED
  BY <1>1, <1>2, <1>7

\* The embedded data in front goes back to its device, the next may go to the IPA.
LEMMA EmbeddedMoved ==
    ASSUME PlaceTypes, StreamSound("embedded"), UNCHANGED <<config, done>>,
           NEW d \in Seq(BuffersOf("embedded")), NEW x,
           streams'["embedded"] = [streams["embedded"] EXCEPT !.device = Cat(@, d)],
           embeddedQueue' \in Seq(Ready(BuffersOf("embedded"))),
           \A b : b # Rpi!Null =>
               /\ Occurs(Buffers(embeddedQueue), b) = Occurs(d, b) + One(x = b) + Occurs(Buffers(embeddedQueue'), b)
               /\ InWork("embedded", b)' = InWork("embedded", b) + One(x = b)
    PROVE  StreamSound("embedded")' /\ streams'["embedded"] \in StreamOf(BuffersOf("embedded"), FromRequests("embedded") \cup {Rpi!Null})
<1>1. "embedded" \in Rpi!Stream /\ ~Rpi!External("embedded")
  BY ExternalStreams DEF Rpi!Stream
<1>2. PICK B : B = BuffersOf("embedded")
  OBVIOUS
<1>3. /\ streams["embedded"] \in StreamOf(B, FromRequests("embedded") \cup {Rpi!Null})
      /\ streams["embedded"].device \in Seq(B) /\ done["embedded"] \in Seq(Ready(B))
      /\ embeddedQueue \in Seq(Ready(B)) /\ embeddedQueue' \in Seq(Ready(B)) /\ d \in Seq(B)
  BY <1>1, <1>2, StreamQueues DEF PlaceTypes
<1>4. Cat(streams["embedded"].device, d) \in Seq(B)
  BY <1>3, CatType
<1>5. /\ streams'["embedded"] \in StreamOf(B, FromRequests("embedded") \cup {Rpi!Null})
      /\ streams'["embedded"].device = Cat(streams["embedded"].device, d)
      /\ streams'["embedded"].requests = streams["embedded"].requests
      /\ streams'["embedded"].available = streams["embedded"].available
  BY <1>3, <1>4, OtherDevice
<1>6. /\ streams["embedded"].available = <<>> /\ streams["embedded"].requests = <<>> /\ Conserved("embedded")
  BY <1>1 DEF StreamSound, PoolSound
<1>7. Buffers(embeddedQueue) \in Seq(B) /\ Buffers(embeddedQueue') \in Seq(B) /\ Buffers(done["embedded"]) \in Seq(B)
  <2>1. \A v \in Seq(Ready(B)) : Buffers(v) \in Seq(B)
    BY BuffersOfQueue DEF Ready
  <2>2. QED
    BY <1>3, <2>1, Zenon
<1>8. ASSUME NEW i \in Pool("embedded")
      PROVE  /\ Occurs(Line("embedded"), Rpi!Internal(i)) = Occurs(Line("embedded")', Rpi!Internal(i)) + One(x = Rpi!Internal(i))
             /\ Occurs(Line("embedded")', Rpi!Internal(i)) \in Nat
  <2>1. PICK b : b = Rpi!Internal(i)
    OBVIOUS
  <2>2. b # Rpi!Null
    BY <1>1, <2>1, BufferSets
  <2>3. /\ Line("embedded") = Cat(Cat(Buffers(embeddedQueue), Buffers(done["embedded"])), Cat(streams["embedded"].device, <<>>))
        /\ Line("embedded")' =
               Cat(Cat(Buffers(embeddedQueue'), Buffers(done["embedded"])), Cat(Cat(streams["embedded"].device, d), <<>>))
    BY <1>5, <1>6 DEF Line, Ahead, Behind
  <2>4. PICK g, h, m, v : /\ g = Buffers(embeddedQueue) /\ h = Buffers(embeddedQueue') /\ m = Buffers(done["embedded"])
                          /\ v = streams["embedded"].device
    OBVIOUS
  <2>5. g \in Seq(B) /\ h \in Seq(B) /\ m \in Seq(B) /\ v \in Seq(B) /\ d \in Seq(B)
    BY <1>3, <1>7, <2>4
  <2>6. One(x = b) \in Nat
    BY OneIsNumber
  <2>7. Occurs(g, b) = Occurs(d, b) + One(x = b) + Occurs(h, b)
    BY <2>2, <2>4
  <2>8. /\ Occurs(Cat(Cat(g, m), Cat(v, <<>>)), b) = Occurs(Cat(Cat(h, m), Cat(Cat(v, d), <<>>)), b) + One(x = b)
        /\ Occurs(Cat(Cat(h, m), Cat(Cat(v, d), <<>>)), b) \in Nat
    BY <2>5, <2>6, <2>7, OccursMoved
  <2>12. PICK l : l = Line("embedded")'
    OBVIOUS
  <2>13. Line("embedded") = Cat(Cat(g, m), Cat(v, <<>>)) /\ l = Cat(Cat(h, m), Cat(Cat(v, d), <<>>))
    BY <2>3, <2>4, <2>12
  <2>14. Occurs(Line("embedded"), b) = Occurs(l, b) + One(x = b) /\ Occurs(l, b) \in Nat
    BY <2>8, <2>13, Zenon
  <2>15. QED
    BY <2>1, <2>12, <2>14, Zenon
<1>9. Conserved("embedded")'
  <2>1. Pool("embedded")' = Pool("embedded")
    BY SameSets
  <2>2. SUFFICES ASSUME NEW i \in Pool("embedded")
                 PROVE  Occurs(Line("embedded")', Rpi!Internal(i)) + Occurs(streams'["embedded"].available, Rpi!Internal(i))
                        + InWork("embedded", Rpi!Internal(i))' = 1
    BY <2>1 DEF Conserved
  <2>3. Rpi!Internal(i) # Rpi!Null
    BY <1>1, BufferSets
  <2>4. /\ Occurs(Line("embedded"), Rpi!Internal(i)) + Occurs(streams["embedded"].available, Rpi!Internal(i))
           + InWork("embedded", Rpi!Internal(i)) = 1
    BY <1>6 DEF Conserved
  <2>5. Occurs(streams["embedded"].available, Rpi!Internal(i)) = 0 /\ Occurs(streams'["embedded"].available, Rpi!Internal(i)) = 0
    BY <1>5, <1>6, OccursEmpty
  <2>6. InWork("embedded", Rpi!Internal(i))' = InWork("embedded", Rpi!Internal(i)) + One(x = Rpi!Internal(i))
    BY <2>3
  <2>7. InWork("embedded", Rpi!Internal(i)) \in Nat /\ One(x = Rpi!Internal(i)) \in Nat
    <3>1. \A b : InWork("embedded", b) \in Nat
      BY <1>1, WorkType
    <3>2. QED
      BY <3>1, OneIsNumber
  <2>8. QED
    BY <1>8, <2>4, <2>5, <2>6, <2>7
<1>10. ~Rpi!External("embedded")'
  BY ExternalStreams, SameSets
<1>11. PoolSound("embedded")'
  BY <1>5, <1>6, <1>10 DEF PoolSound
<1>12. QED
  BY <1>2, <1>5, <1>9, <1>10, <1>11 DEF StreamSound

\* What tryRunPipeline() does: the first k embedded buffers go back to their device, and
\* the request gets the image with the next one, x, or with none.
Runs(k, x) ==
    /\ streams' = [streams EXCEPT !["embedded"].device = Cat(@, FirstBuffers(embeddedQueue, k))]
    /\ embeddedQueue' \in Seq(Ready(BuffersOf("embedded")))
    /\ \A b : b # Rpi!Null =>
           Occurs(Buffers(embeddedQueue), b) =
               Occurs(FirstBuffers(embeddedQueue, k), b) + One(x = b) + Occurs(Buffers(embeddedQueue'), b)
    /\ x # Rpi!Null => x \in BuffersOf("embedded")
    /\ \/ x = Rpi!Null /\ config.embedded /\ embeddedQueue' = <<>> /\ UNCHANGED <<state, req, bayerQueue, calls>>
       \/ bayerQueue' = Tail(bayerQueue) /\ Rpi!RunPipeline(Head(requestQueue), Head(bayerQueue).buffer, x)

LEMMA TryRunSteps ==
    ASSUME PlaceTypes, Rpi!TryRunPipeline, session' # "refused"
    PROVE  /\ Rpi!At("tryRun") /\ stack' = Tail(stack)
           /\ UNCHANGED <<config, frameNumber, waiting, requestQueue, input, done, events>>
           /\ \/ /\ UNCHANGED <<state, req, bayerQueue, embeddedQueue, streams, calls>>
                 /\ state # "Idle" \/ requestQueue = <<>> \/ bayerQueue = <<>> \/ (config.embedded /\ embeddedQueue = <<>>)
              \/ /\ state = "Idle" /\ requestQueue # <<>> /\ bayerQueue # <<>>
                 /\ \E k \in 0 .. Len(embeddedQueue) : \E x : Runs(k, x)
<1>1. /\ Rpi!At("tryRun") /\ stack' = Tail(stack)
      /\ UNCHANGED <<config, frameNumber, waiting, requestQueue, input, done, events>>
  BY DEF Rpi!TryRunPipeline, Rpi!Return, Rpi!queueVars, Rpi!boundVars
<1> DEFINE quiet == state # "Idle" \/ requestQueue = <<>> \/ bayerQueue = <<>> \/ (config.embedded /\ embeddedQueue = <<>>)
<1>2. CASE quiet
  <2>1. UNCHANGED <<state, req, bayerQueue, embeddedQueue, streams, calls>>
    BY <1>2 DEF Rpi!TryRunPipeline
  <2>2. QED
    BY <1>1, <1>2, <2>1
<1>3. CASE ~quiet
  <2>1. PICK B, q : B = BuffersOf("embedded") /\ q = embeddedQueue
    OBVIOUS
  <2>2. q \in Seq(Ready(B)) /\ Rpi!Null \notin B
    BY <2>1, BufferSets DEF PlaceTypes, Rpi!Stream
  <2>3. bayerQueue # <<>> /\ state = "Idle" /\ requestQueue # <<>>
    BY <1>3
  <2>4. Head(bayerQueue).ts \in Nat
    <3>1. Head(bayerQueue) \in Ready(BuffersOf("image"))
      BY <2>3, HeadInToSet DEF PlaceTypes
    <3>2. QED
      BY <3>1 DEF Ready
  <2>5. PICK k : k = Rpi!Older(Head(bayerQueue).ts)
    OBVIOUS
  <2>6. k \in 0 .. Len(q)
    BY <2>1, <2>2, <2>4, <2>5, OlderEmbedded
  <2>7. PICK rest : rest = Rest(q, k)
    OBVIOUS
  <2>8. PICK d : d = FirstBuffers(q, k)
    OBVIOUS
  <2>9. d \in Seq(B) /\ rest \in Seq(Ready(B)) /\ Buffers(q) = Cat(d, Buffers(rest))
    BY <2>2, <2>6, <2>7, <2>8, SplitQueue
  <2>10. PICK m : m = (rest # <<>> /\ rest[1].ts = Head(bayerQueue).ts)
    OBVIOUS
  <2>11. PICK x : x = IF m THEN rest[1].buffer ELSE Rpi!Null
    OBVIOUS
  <2>12. /\ streams' = [streams EXCEPT !["embedded"].device = @ \o d]
         /\ embeddedQueue' = IF m THEN Tail(rest) ELSE rest
         /\ IF rest = <<>> /\ config.embedded THEN UNCHANGED <<state, req, bayerQueue, calls>>
            ELSE bayerQueue' = Tail(bayerQueue) /\ Rpi!RunPipeline(Head(requestQueue), Head(bayerQueue).buffer, x)
    <3>1. PICK st : st = [streams["embedded"] EXCEPT !.device = @ \o d]
      OBVIOUS
    <3>2. /\ Rpi!Returned("embedded", st)
          /\ embeddedQueue' = IF m THEN Tail(rest) ELSE rest
          /\ IF rest = <<>> /\ config.embedded THEN UNCHANGED <<state, req, bayerQueue, calls>>
             ELSE bayerQueue' = Tail(bayerQueue) /\ Rpi!RunPipeline(Head(requestQueue), Head(bayerQueue).buffer, x)
      BY <1>3, <2>1, <2>5, <2>7, <2>8, <2>10, <2>11, <3>1, Zenon DEF Rpi!TryRunPipeline, Rest, FirstBuffers
    <3>3. streams' = [streams EXCEPT !["embedded"] = st]
      BY <3>2, NoRefusal
    <3>4. streams' = [streams EXCEPT !["embedded"].device = @ \o d]
      BY <3>1, <3>3
    <3>5. QED
      BY <3>2, <3>4
  <2>13. streams' = [streams EXCEPT !["embedded"].device = Cat(@, d)]
    BY <2>12, Zenon DEF Cat
  <2>14. /\ embeddedQueue' \in Seq(Ready(B)) /\ (x # Rpi!Null => x \in B)
         /\ \A b : b # Rpi!Null => Occurs(Buffers(q), b) = Occurs(d, b) + One(x = b) + Occurs(Buffers(embeddedQueue'), b)
    <3>1. Buffers(rest) \in Seq(B)
      BY <2>9, BuffersOfQueue DEF Ready
    <3>2. \A b : Occurs(Buffers(q), b) = Occurs(d, b) + Occurs(Buffers(rest), b) /\ Occurs(d, b) \in Nat /\ Occurs(Buffers(rest), b) \in Nat
      <4>1. ASSUME NEW b
            PROVE  Occurs(Cat(d, Buffers(rest)), b) = Occurs(d, b) + Occurs(Buffers(rest), b)
        BY <2>9, <3>1, OccursCat
      <4>2. ASSUME NEW b
            PROVE  Occurs(d, b) \in Nat /\ Occurs(Buffers(rest), b) \in Nat
        BY <2>9, <3>1, OccursFinite
      <4>3. QED
        BY <2>9, <4>1, <4>2, Zenon
    <3>3. CASE m
      <4>1. rest # <<>> /\ x = Head(rest).buffer /\ embeddedQueue' = Tail(rest)
        <5>1. rest # <<>> /\ x = rest[1].buffer /\ embeddedQueue' = Tail(rest)
          BY <2>10, <2>11, <2>12, <3>3, Zenon
        <5>2. \A v \in Seq(Ready(B)) : v # <<>> => Head(v) = v[1]
          OBVIOUS
        <5>3. QED
          BY <2>9, <5>1, <5>2, Zenon
      <4>2. \A v \in Seq(Ready(B)) : v # <<>> => Head(v).buffer \in B /\ Tail(v) \in Seq(Ready(B))
        BY FirstFinished
      <4>3. \A v \in Seq(Ready(B)) : v # <<>> =>
                \A b : /\ Occurs(Buffers(v), b) = One(Head(v).buffer = b) + Occurs(Buffers(Tail(v)), b)
                       /\ Occurs(Buffers(Tail(v)), b) \in Nat
        BY FirstFinished
      <4>4. embeddedQueue' \in Seq(Ready(B)) /\ x \in B
        BY <2>9, <4>1, <4>2, Zenon
      <4>5. ASSUME NEW b
            PROVE  Occurs(Buffers(q), b) = Occurs(d, b) + One(x = b) + Occurs(Buffers(embeddedQueue'), b)
        <5>1. Occurs(Buffers(rest), b) = One(x = b) + Occurs(Buffers(embeddedQueue'), b) /\ Occurs(Buffers(embeddedQueue'), b) \in Nat
          BY <2>9, <4>1, <4>3, Zenon
        <5>2. One(x = b) \in Nat
          BY OneIsNumber
        <5>3. QED
          BY <3>2, <5>1, <5>2
      <4>6. QED
        BY <4>4, <4>5
    <3>4. CASE ~m
      <4>1. x = Rpi!Null /\ embeddedQueue' = rest
        BY <2>11, <2>12, <3>4
      <4>2. ASSUME NEW b, b # Rpi!Null
            PROVE  Occurs(Buffers(q), b) = Occurs(d, b) + One(x = b) + Occurs(Buffers(embeddedQueue'), b)
        <5>1. One(x = b) = 0
          BY <4>1, <4>2, NoneIs0
        <5>2. Occurs(Buffers(embeddedQueue'), b) = Occurs(Buffers(rest), b)
          BY <4>1
        <5>3. QED
          BY <3>2, <5>1, <5>2
      <4>3. QED
        BY <2>9, <4>1, <4>2
    <3>5. QED
      BY <3>3, <3>4
  <2>15. \/ x = Rpi!Null /\ config.embedded /\ embeddedQueue' = <<>> /\ UNCHANGED <<state, req, bayerQueue, calls>>
         \/ bayerQueue' = Tail(bayerQueue) /\ Rpi!RunPipeline(Head(requestQueue), Head(bayerQueue).buffer, x)
    BY <2>10, <2>11, <2>12
  <2>16. Runs(k, x)
    BY <2>1, <2>8, <2>13, <2>14, <2>15, Zenon DEF Runs
  <2>17. QED
    BY <1>1, <2>1, <2>3, <2>6, <2>16
<1>4. QED
  BY <1>2, <1>3

LEMMA RunsStreams ==
    ASSUME PlaceTypes, NEW d, streams' = [streams EXCEPT !["embedded"].device = Cat(@, d)]
    PROVE  /\ DOMAIN streams' = Rpi!Stream /\ \A s \in Rpi!Stream \ {"embedded"} : streams'[s] = streams[s]
           /\ streams'["embedded"] = [streams["embedded"] EXCEPT !.device = Cat(@, d)]
<1>1. DOMAIN streams = Rpi!Stream /\ "embedded" \in Rpi!Stream
  BY DEF PlaceTypes, Rpi!Stream
<1>2. PICK v : v = [streams["embedded"] EXCEPT !.device = Cat(@, d)]
  OBVIOUS
<1>3. streams' = [streams EXCEPT !["embedded"] = v]
  BY <1>2
<1>4. QED
  BY <1>1, <1>2, <1>3

\* What remains to be shown once the streams are sound.
LEMMA TryRunTypes ==
    ASSUME PlaceTypes, UNCHANGED <<config, frameNumber, input, done, events>>, DOMAIN streams' = Rpi!Stream,
           \A s \in Rpi!Stream \ {"embedded"} : streams'[s] = streams[s],
           streams'["embedded"] \in StreamOf(BuffersOf("embedded"), FromRequests("embedded") \cup {Rpi!Null}),
           embeddedQueue' \in Seq(Ready(BuffersOf("embedded"))), bayerQueue' \in Seq(Ready(BuffersOf("image"))),
           calls' \in Seq(PrepareCall("prepareIsp") \cup StatsCall("processStats"))
    PROVE  PlaceTypes'
<1>1. \A s : BuffersOf(s)' = BuffersOf(s) /\ FromRequests(s)' = FromRequests(s)
  BY SameSets
<1>2. ASSUME NEW s \in Rpi!Stream
      PROVE  StreamType(s)'
  <2>1. streams'[s] \in StreamOf(BuffersOf(s), FromRequests(s) \cup {Rpi!Null}) /\ done'[s] \in Seq(Ready(BuffersOf(s)))
    BY StreamQueues
  <2>2. QED
    BY <1>1, <2>1 DEF StreamType
<1>3. QED
  BY <1>1, <1>2, SameSets DEF PlaceTypes

\* Only embedded data has gone back.
LEMMA ShiftPlaces ==
    ASSUME RpiInv, PlaceInv, Rpi!isRunning, NEW k \in 0 .. Len(embeddedQueue), Runs(k, Rpi!Null),
           UNCHANGED <<config, frameNumber, waiting, requestQueue, input, done, events>>,
           UNCHANGED <<state, req, bayerQueue, calls>>, stack' \in Base, state = "Idle",
           config.embedded, embeddedQueue' = <<>>
    PROVE  PlaceInv'
<1>1. PlaceTypes /\ (\A s \in Rpi!Stream : StreamSound(s)) /\ PendingSound
  BY DEF PlaceInv
<1>2. PICK d : d = FirstBuffers(embeddedQueue, k)
  OBVIOUS
<1>3. d \in Seq(BuffersOf("embedded"))
  BY <1>1, <1>2, SplitQueue DEF PlaceTypes
<1>4. /\ DOMAIN streams' = Rpi!Stream /\ \A s \in Rpi!Stream \ {"embedded"} : streams'[s] = streams[s]
      /\ streams'["embedded"] = [streams["embedded"] EXCEPT !.device = Cat(@, d)]
  BY <1>1, <1>2, RunsStreams DEF Runs
<1>5. \A s \in Rpi!Stream : Taken(s)' = Taken(s) /\ \A b : InWork(s, b)' = InWork(s, b)
  BY SameWork
<1>6. "embedded" \in Rpi!Stream /\ embeddedQueue' \in Seq(Ready(BuffersOf("embedded")))
  BY DEF Rpi!Stream, Runs
<1>7. StreamSound("embedded")' /\ streams'["embedded"] \in StreamOf(BuffersOf("embedded"), FromRequests("embedded") \cup {Rpi!Null})
  <2>1. ASSUME NEW b, b # Rpi!Null
        PROVE  /\ Occurs(Buffers(embeddedQueue), b) = Occurs(d, b) + One(Rpi!Null = b) + Occurs(Buffers(embeddedQueue'), b)
               /\ InWork("embedded", b)' = InWork("embedded", b) + One(Rpi!Null = b)
    <3>1. One(Rpi!Null = b) = 0 /\ InWork("embedded", b)' = InWork("embedded", b)
      BY <1>5, <1>6, <2>1, NoneIs0
    <3>2. InWork("embedded", b) \in Nat
      BY <1>1, <1>6, WorkType
    <3>3. InWork("embedded", b)' = InWork("embedded", b) + One(Rpi!Null = b)
      BY <3>1, <3>2
    <3>4. QED
      BY <1>2, <2>1, <3>3 DEF Runs
  <2>2. QED
    BY <1>1, <1>3, <1>4, <1>6, <2>1, EmbeddedMoved
<1>8. ASSUME NEW s \in Rpi!Stream \ {"embedded"}
      PROVE  StreamSound(s)'
  <2>1. Line(s)' = Line(s)
    BY <1>4, SameLine
  <2>2. SameBuffers(s) /\ SameWants(s)
    BY <1>4, <1>5, <2>1 DEF SameBuffers, SameWants
  <2>3. QED
    BY <1>1, <1>5, <2>2, SameStream
<1>9. PlaceTypes'
  <2>1. bayerQueue' \in Seq(Ready(BuffersOf("image"))) /\ calls' \in Seq(PrepareCall("prepareIsp") \cup StatsCall("processStats"))
    BY <1>1 DEF PlaceTypes
  <2>2. QED
    BY <1>1, <1>4, <1>6, <1>7, <2>1, TryRunTypes
<1>10. PendingSound' /\ Exhausted'
  <2>1. stack' \notin Finishing \cup FinishQueue \cup Finished
    BY StacksDiffer
  <2>2. PendingSound'
    BY <1>1, <2>1, SamePending
  <2>3. QED
    BY <2>2 DEF Exhausted
<1>11. (Rpi!isRunning)'
  BY DEF Rpi!isRunning
<1>12. QED
  BY <1>7, <1>8, <1>9, <1>10, <1>11 DEF PlaceInv

\* The image at the front of the line.
LEMMA ImageLine ==
    ASSUME PlaceTypes, bayerQueue # <<>>, bayerQueue' = Tail(bayerQueue), done' = done, streams'["image"] = streams["image"]
    PROVE  /\ Line("image") # <<>> /\ Line("image")' = Tail(Line("image")) /\ Head(Line("image")) = Head(bayerQueue).buffer
           /\ Head(bayerQueue).buffer \in BuffersOf("image") /\ bayerQueue' \in Seq(Ready(BuffersOf("image")))
<1>1. "image" \in Rpi!Stream
  BY DEF Rpi!Stream
<1>2. PICK B, S : B = BuffersOf("image") /\ S = Tokens("image")
  OBVIOUS
<1>3. B \subseteq S /\ bayerQueue \in Seq(Ready(B)) /\ done["image"] \in Seq(Ready(B)) /\ Behind("image") \in Seq(S)
  BY <1>1, <1>2, BufferSets, StreamQueues, LineType DEF PlaceTypes
<1>4. \A v \in Seq(Ready(B)) : Buffers(v) \in Seq(B)
  BY BuffersOfQueue DEF Ready
<1>5. \A v \in Seq(B) : v \in Seq(S)
  BY <1>3, SequencesOf
<1>6. PICK g, m, w : g = Buffers(bayerQueue) /\ m = Buffers(done["image"]) /\ w = Behind("image")
  OBVIOUS
<1>7. g \in Seq(S) /\ m \in Seq(S) /\ w \in Seq(S)
  BY <1>3, <1>4, <1>5, <1>6, Zenon
<1>8. \A v \in Seq(Ready(B)) : v # <<>> =>
          /\ Tail(v) \in Seq(Ready(B)) /\ Head(v).buffer \in B
          /\ Buffers(v) # <<>> /\ Buffers(Tail(v)) = Tail(Buffers(v)) /\ Head(Buffers(v)) = Head(v).buffer
  <2>1. \A v \in Seq(Ready(B)) : v # <<>> =>
            /\ (Buffers(v) = <<>> <=> v = <<>>) /\ Tail(v) \in Seq(Ready(B)) /\ Buffers(Tail(v)) = Tail(Buffers(v))
            /\ Head(Buffers(v)) = Head(v).buffer /\ Head(v).buffer \in B
    BY BuffersOfQueue, Zenon DEF Ready
  <2>2. QED
    BY <2>1, Zenon
<1>9. /\ g # <<>> /\ Head(g) = Head(bayerQueue).buffer /\ Buffers(Tail(bayerQueue)) = Tail(g)
      /\ Tail(bayerQueue) \in Seq(Ready(B)) /\ Head(bayerQueue).buffer \in B
  BY <1>3, <1>6, <1>8, Zenon
<1>10. Cat(g, m) \in Seq(S) /\ Cat(g, m) # <<>> /\ Head(Cat(g, m)) = Head(g) /\ Cat(Tail(g), m) = Tail(Cat(g, m))
  BY <1>7, <1>9, CatType, CatPop
<1>11. PICK a : a = Cat(g, m)
  OBVIOUS
<1>12. Cat(a, w) # <<>> /\ Head(Cat(a, w)) = Head(a) /\ Cat(Tail(a), w) = Tail(Cat(a, w))
  BY <1>7, <1>10, <1>11, CatPop
<1>13. Line("image") = Cat(a, w)
  BY <1>6, <1>11 DEF Line, Ahead
<1>14. Line("image")' = Cat(Cat(Tail(g), m), w)
  <2>1. Line("image")' = Cat(Cat(Buffers(Tail(bayerQueue)), m), w)
    BY <1>6 DEF Line, Ahead, Behind
  <2>2. QED
    BY <1>9, <2>1, Zenon
<1>15. QED
  BY <1>2, <1>9, <1>10, <1>11, <1>12, <1>13, <1>14, Zenon

\* The first request gets the image.
LEMMA RunPlaces ==
    ASSUME RpiInv, PlaceInv, Rpi!isRunning, NEW k \in 0 .. Len(embeddedQueue), NEW x, Runs(k, x),
           UNCHANGED <<config, frameNumber, waiting, requestQueue, input, done, events>>,
           bayerQueue # <<>>, bayerQueue' = Tail(bayerQueue), requestQueue # <<>>,
           Rpi!RunPipeline(Head(requestQueue), Head(bayerQueue).buffer, x), stack' \in Base, state = "Idle"
    PROVE  PlaceInv'
<1>1. PlaceTypes /\ (\A s \in Rpi!Stream : StreamSound(s)) /\ PendingSound
  BY DEF PlaceInv
<1>2. PICK d : d = FirstBuffers(embeddedQueue, k)
  OBVIOUS
<1>3. d \in Seq(BuffersOf("embedded"))
  BY <1>1, <1>2, SplitQueue DEF PlaceTypes
<1>4. /\ DOMAIN streams' = Rpi!Stream /\ \A s \in Rpi!Stream \ {"embedded"} : streams'[s] = streams[s]
      /\ streams'["embedded"] = [streams["embedded"] EXCEPT !.device = Cat(@, d)]
  BY <1>1, <1>2, RunsStreams DEF Runs
<1>5. "image" \in Rpi!Stream /\ "embedded" \in Rpi!Stream /\ "output" \in Rpi!Stream /\ "stats" \in Rpi!Stream
  BY DEF Rpi!Stream
<1>6. PICK y : y = Head(bayerQueue).buffer
  OBVIOUS
<1>7. /\ Line("image") # <<>> /\ Line("image")' = Tail(Line("image")) /\ Head(Line("image")) = y
      /\ y \in BuffersOf("image") /\ bayerQueue' \in Seq(Ready(BuffersOf("image")))
  BY <1>1, <1>4, <1>5, <1>6, ImageLine
<1>8. PICK c : c = [op |-> "prepareIsp", bayer |-> y, embedded |-> x]
  OBVIOUS
<1>9. /\ c.op = "prepareIsp" /\ c.bayer = y /\ c.embedded = x /\ "op" \in DOMAIN c /\ c \in PrepareCall("prepareIsp")
  <2>1. c.op = "prepareIsp" /\ c.bayer = y /\ c.embedded = x /\ "op" \in DOMAIN c
    BY <1>8
  <2>2. x \in BuffersOf("embedded") \cup {Rpi!Null}
    BY DEF Runs
  <2>3. c \in PrepareCall("prepareIsp")
    BY <1>7, <1>8, <2>2 DEF PrepareCall
  <2>4. QED
    BY <2>1, <2>3
<1>10. NoWork
  BY DEF RpiInv, OneJob
<1>11. /\ state' = "Busy" /\ calls' = <<c>> /\ req' = [req EXCEPT ![Head(requestQueue)].filled = TRUE]
  <2>1. Append(<<>>, c) = <<c>>
    OBVIOUS
  <2>2. calls' = Append(calls, c) /\ state' = "Busy" /\ req' = [req EXCEPT ![Head(requestQueue)].filled = TRUE]
    BY <1>6, <1>8 DEF Rpi!RunPipeline
  <2>3. calls = <<>>
    BY <1>10 DEF NoWork
  <2>4. QED
    BY <2>1, <2>2, <2>3, Zenon
<1>12. events' = <<>> /\ input' = <<>> /\ done'["stats"] = <<>>
  BY <1>10 DEF NoWork
<1>13. WorkOn(Rpi!Null, Rpi!Null, Rpi!Null)
  BY <1>10, JobAtRest
<1>14. WorkOn(y, x, Rpi!Null)' /\ CallIs("prepareIsp")'
  <2>1. WorkOn(c.bayer, c.embedded, Rpi!Null)'
    BY <1>9, <1>11, <1>12, JobsNext, Zenon DEF JobsKnown
  <2>2. CallIs("prepareIsp")'
    BY <1>9, <1>11, <1>12, Zenon DEF CallIs
  <2>3. QED
    BY <1>9, <2>1, <2>2, Zenon
<1>15. ASSUME NEW b, b # Rpi!Null
       PROVE  /\ JobImage(b) = 0 /\ JobEmbedded(b) = 0 /\ JobStats(b) = 0
              /\ JobImage(b)' = One(y = b) /\ JobEmbedded(b)' = One(x = b) /\ JobStats(b)' = 0
  <2>1. /\ JobImage(b) = One(Rpi!Null = b) /\ JobEmbedded(b) = One(Rpi!Null = b) /\ JobStats(b) = One(Rpi!Null = b)
    BY <1>13, <1>15, Zenon DEF WorkOn
  <2>2. /\ JobImage(b)' = One(y = b) /\ JobEmbedded(b)' = One(x = b) /\ JobStats(b)' = One(Rpi!Null = b)
    BY <1>14, <1>15, WorkNext
  <2>3. One(Rpi!Null = b) = 0
    BY <1>15, NoneIs0
  <2>4. QED
    BY <2>1, <2>2, <2>3, Zenon
<1>16. ASSUME NEW b, b # Rpi!Null
       PROVE  /\ InWork("image", b)' = InWork("image", b) + One(y = b)
              /\ InWork("embedded", b)' = InWork("embedded", b) + One(x = b)
              /\ InWork("stats", b)' = InWork("stats", b) /\ InWork("output", b)' = InWork("output", b)
  <2>1. /\ InWork("image", b) = Occurs(Buffers(done["input"]), b) + JobImage(b)
        /\ InWork("image", b)' = Occurs(Buffers(done["input"]), b) + JobImage(b)'
        /\ InWork("embedded", b) = JobEmbedded(b) /\ InWork("embedded", b)' = JobEmbedded(b)'
        /\ InWork("stats", b) = JobStats(b) /\ InWork("stats", b)' = JobStats(b)'
        /\ InWork("output", b)' = InWork("output", b)
    BY DEF InWork
  <2>2. Occurs(Buffers(done["input"]), b) \in Nat
    <3>1. \A v \in Seq(Ready(BuffersOf("image"))) : Buffers(v) \in Seq(BuffersOf("image"))
      BY BuffersOfQueue DEF Ready
    <3>2. \A v \in Seq(BuffersOf("image")) : Occurs(v, b) \in Nat
      BY OccursFinite
    <3>3. done["input"] \in Seq(Ready(BuffersOf("image")))
      BY <1>1 DEF PlaceTypes
    <3>4. QED
      BY <3>1, <3>2, <3>3, Zenon
  <2>3. One(x = b) \in Nat /\ One(y = b) \in Nat
    BY OneIsNumber
  <2>4. QED
    BY <1>15, <1>16, <2>1, <2>2, <2>3
<1>17. \A r \in ToSet(requestQueue) \cup ToSet(waiting) : req'[r].pending = req[r].pending /\ req'[r].streams = req[r].streams
  <2>1. Head(requestQueue) \in Pair
    BY HeadInToSet DEF RpiInv, RpiType
  <2>2. \A r \in Pair : req'[r].pending = req[r].pending /\ req'[r].streams = req[r].streams
    BY <1>11, <2>1 DEF RpiInv, RpiType, RpiRequest
  <2>3. ToSet(requestQueue) \subseteq Pair
    BY MembersIn DEF RpiInv, RpiType
  <2>4. \A r \in ToSet(waiting) : r \in Pair
    <3>1. CASE waiting = <<>>
      BY <3>1, ToSetOfEmpty
    <3>2. ASSUME NEW r \in Pair, waiting = <<r>>
          PROVE  \A z \in ToSet(waiting) : z \in Pair
      <4>1. <<r>> \in Seq(Pair)
        OBVIOUS
      <4>2. QED
        BY <3>2, <4>1, MembersIn
    <3>3. QED
      BY <3>1, <3>2 DEF RpiInv, NoneWaits, NewRequest
  <2>5. QED
    BY <2>2, <2>3, <2>4
<1>18. \A s \in Rpi!Stream : SameWants(s)
  BY <1>17 DEF SameWants
<1>19. ~IspRan /\ ~IspRan' /\ ~Taken("image") /\ Taken("image")'
  <2>1. ~IspRan
    BY DEF IspRan
  <2>2. ~IspRan'
    BY <1>11, <1>14, NotYetNext
  <2>3. QED
    BY <1>11, <2>1, <2>2 DEF Taken
<1>20. StreamSound("image")'
  <2>1. \A b : b # Rpi!Null => InWork("image", b)' = InWork("image", b) + One(Head(Line("image")) = b)
    BY <1>7, <1>16
  <2>2. streams'["image"].available = streams["image"].available /\ streams'["image"].requests = streams["image"].requests
    BY <1>4, <1>5
  <2>3. QED
    BY <1>1, <1>5, <1>7, <1>18, <1>19, <2>1, <2>2, TakenFromLine
<1>21. StreamSound("embedded")' /\ streams'["embedded"] \in StreamOf(BuffersOf("embedded"), FromRequests("embedded") \cup {Rpi!Null})
  <2>1. embeddedQueue' \in Seq(Ready(BuffersOf("embedded")))
    BY DEF Runs
  <2>2. ASSUME NEW b, b # Rpi!Null
        PROVE  /\ Occurs(Buffers(embeddedQueue), b) = Occurs(d, b) + One(x = b) + Occurs(Buffers(embeddedQueue'), b)
               /\ InWork("embedded", b)' = InWork("embedded", b) + One(x = b)
    BY <1>2, <1>16, <2>2 DEF Runs
  <2>3. QED
    BY <1>1, <1>3, <1>4, <1>5, <2>1, <2>2, EmbeddedMoved
<1>22. ASSUME NEW s \in {"output", "stats"}
       PROVE  StreamSound(s)'
  <2>1. Line(s)' = Line(s) /\ s \in Rpi!Stream
    BY <1>4, <1>5, SameLine
  <2>2. SameBuffers(s)
    BY <1>4, <1>5, <1>16, <2>1 DEF SameBuffers
  <2>3. Taken(s)' = Taken(s)
    <3>1. IspRan \in BOOLEAN /\ IspRan' \in BOOLEAN
      BY DEF IspRan
    <3>2. QED
      BY <1>19, <3>1 DEF Taken
  <2>4. QED
    BY <1>1, <1>18, <2>1, <2>2, <2>3, SameStream
<1>23. PlaceTypes'
  <2>1. calls' \in Seq(PrepareCall("prepareIsp") \cup StatsCall("processStats"))
    BY <1>9, <1>11
  <2>2. embeddedQueue' \in Seq(Ready(BuffersOf("embedded")))
    BY DEF Runs
  <2>3. QED
    BY <1>1, <1>4, <1>7, <1>21, <2>1, <2>2, TryRunTypes
<1>24. PendingSound' /\ Exhausted'
  <2>1. stack' \notin Finishing \cup FinishQueue \cup Finished
    BY StacksDiffer
  <2>2. \A s : Rpi!External(s)' = Rpi!External(s)
    BY SameSets
  <2>3. PendingSound'
    BY <1>1, <1>17, <2>1, <2>2 DEF PendingSound
  <2>4. Exhausted'
    BY <1>11 DEF Exhausted
  <2>5. QED
    BY <2>3, <2>4
<1>25. (Rpi!isRunning)' /\ \A s \in Rpi!Stream : StreamSound(s)'
  BY <1>11, <1>20, <1>21, <1>22 DEF Rpi!Stream, Rpi!isRunning
<1>26. QED
  BY <1>23, <1>24, <1>25 DEF PlaceInv

LEMMA TryRunPlaces ==
    ASSUME RpiInv, PlaceInv, Rpi!TryRunPipeline, session' # "refused"
    PROVE  PlaceInv'
<1>1. stack \in Trying /\ Rpi!isRunning
  <2>1. stack \in Trying
    BY OnTop DEF RpiInv, RpiType, Rpi!TryRunPipeline
  <2>2. QED
    BY <2>1 DEF RpiInv, StatesSound, RunningStacks
<1>2. PlaceTypes /\ PendingSound /\ Exhausted
  BY <1>1 DEF PlaceInv
<1>3. /\ stack' = Tail(stack) /\ UNCHANGED <<config, frameNumber, waiting, requestQueue, input, done, events>>
      /\ \/ /\ UNCHANGED <<state, req, bayerQueue, embeddedQueue, streams, calls>>
            /\ state # "Idle" \/ requestQueue = <<>> \/ bayerQueue = <<>> \/ (config.embedded /\ embeddedQueue = <<>>)
         \/ /\ state = "Idle" /\ requestQueue # <<>> /\ bayerQueue # <<>>
            /\ \E k \in 0 .. Len(embeddedQueue) : \E x : Runs(k, x)
  BY <1>2, TryRunSteps
<1>4. stack' \in Base
  BY <1>1, <1>3, RunningMoves
<1>5. CASE /\ UNCHANGED <<state, req, bayerQueue, embeddedQueue, streams, calls>>
           /\ state # "Idle" \/ requestQueue = <<>> \/ bayerQueue = <<>> \/ (config.embedded /\ embeddedQueue = <<>>)
  <2>1. stack' \notin Finishing \cup FinishQueue \cup Finished
    BY <1>4, StacksDiffer
  <2>2. PendingSound'
    BY <1>2, <1>3, <1>5, <2>1, SamePending
  <2>3. Exhausted'
    BY <1>1, <1>2, <1>3, <1>5 DEF Exhausted
  <2>4. Still /\ \A s \in Rpi!Stream : SameWants(s)
    BY <1>3, <1>5 DEF Still, SameWants
  <2>5. QED
    BY <1>1, <1>3, <1>5, <2>2, <2>3, <2>4, StillPlaces
<1>6. ASSUME state = "Idle", requestQueue # <<>>, bayerQueue # <<>>, NEW k \in 0 .. Len(embeddedQueue), NEW x, Runs(k, x)
      PROVE  PlaceInv'
  <2>1. CASE x = Rpi!Null /\ config.embedded /\ embeddedQueue' = <<>> /\ UNCHANGED <<state, req, bayerQueue, calls>>
    BY <1>1, <1>3, <1>4, <1>6, <2>1, ShiftPlaces
  <2>2. CASE bayerQueue' = Tail(bayerQueue) /\ Rpi!RunPipeline(Head(requestQueue), Head(bayerQueue).buffer, x)
    BY <1>1, <1>3, <1>4, <1>6, <2>2, RunPlaces
  <2>3. QED
    BY <1>6, <2>1, <2>2 DEF Runs
<1>7. QED
  BY <1>3, <1>5, <1>6

(***************************************************************************)
(* A request is queued to the device                                       *)
(***************************************************************************)

\* The turns with one more request.
LEMMA TurnsAppend ==
    ASSUME RpiInv, Rpi!isRunning, NEW s, Taken(s)' = Taken(s), NEW r \in Pair, requestQueue' = Append(requestQueue, r)
    PROVE  /\ Turns(s)' = Append(Turns(s), r)
           /\ Taken(s) => Head(requestQueue') = Head(requestQueue)
<1>1. requestQueue \in Seq(Pair) /\ (Taken(s) => requestQueue # <<>>)
  BY TurnsType DEF RpiInv, RpiType
<1>2. \A q \in Seq(Pair) : q # <<>> => Tail(Append(q, r)) = Append(Tail(q), r) /\ Head(Append(q, r)) = Head(q)
  <2>1. ASSUME NEW q \in Seq(Pair), q # <<>>
        PROVE  Tail(Append(q, r)) = Append(Tail(q), r) /\ Head(Append(q, r)) = Head(q)
    <3>1. <<r>> \in Seq(Pair)
      OBVIOUS
    <3>2. Head(q \o <<r>>) = Head(q) /\ Tail(q) \o <<r>> = Tail(q \o <<r>>)
      BY <2>1, <3>1, ConcatPop
    <3>3. Tail(q) \in Seq(Pair)
      BY <2>1
    <3>4. \A v \in Seq(Pair) : Append(v, r) = v \o <<r>>
      OBVIOUS
    <3>5. Append(q, r) = q \o <<r>> /\ Append(Tail(q), r) = Tail(q) \o <<r>>
      BY <3>3, <3>4, Zenon
    <3>6. QED
      BY <3>2, <3>5, Zenon
  <2>2. QED
    BY <2>1
<1>3. Taken(s) => Tail(requestQueue') = Append(Tail(requestQueue), r) /\ Head(requestQueue') = Head(requestQueue)
  BY <1>1, <1>2, Zenon
<1>4. QED
  BY <1>3 DEF Turns

\* An external stream gets a buffer of the request, or an internal one.
LEMMA QueuedStream ==
    ASSUME RpiInv, PlaceTypes, Rpi!isRunning, NEW s \in Rpi!Stream, Rpi!External(s), StreamSound(s),
           UNCHANGED <<config, req>>, NEW r \in Pair, requestQueue' = Append(requestQueue, r),
           Ahead(s)' = Ahead(s), Taken(s)' = Taken(s), \A b : InWork(s, b)' = InWork(s, b),
           NEW b, b = IF s \in req[r].pending THEN Rpi!OfRequest(r) ELSE Rpi!Null,
           streams'[s] = Rpi!queueBuffer(streams[s], b)
    PROVE  StreamSound(s)' /\ streams'[s] \in StreamOf(BuffersOf(s), FromRequests(s) \cup {Rpi!Null})
<1>1. PICK B, Q, S, x : B = BuffersOf(s) /\ Q = FromRequests(s) \cup {Rpi!Null} /\ S = Tokens(s) /\ x = Rpi!Internal(1)
  OBVIOUS
<1>2. /\ x \in B /\ Rpi!Null \notin B /\ Q \in SUBSET (B \cup {Rpi!Null}) /\ B \subseteq S /\ Q \subseteq S
      /\ Pool(s) = {1} /\ b \in Q /\ x # Rpi!Null /\ x # b /\ x \in S /\ b \in S
  <2>1. /\ x \in B /\ Rpi!Null \notin B /\ Q \in SUBSET (B \cup {Rpi!Null}) /\ B \subseteq S /\ Q \subseteq S /\ Pool(s) = {1}
    BY <1>1, BufferSets
  <2>2. b \in Q
    BY <1>1 DEF FromRequests, OfRequests
  <2>3. x # Rpi!Null /\ x # b
    BY <1>1, BufferNames
  <2>4. QED
    BY <2>1, <2>2, <2>3
<1>3. PICK st, t : st = streams[s] /\ t = streams'[s]
  OBVIOUS
<1>4. st \in StreamOf(B, Q)
  BY <1>1, <1>3, StreamQueues
<1>5. AtHand(st, x, Rpi!Null) /\ Conserved(s) /\ InOrder(Line(s), Turns(s), Wants(s)) /\ Owned(s)
  BY <1>1, <1>3 DEF StreamSound, PoolSound
<1>6. t = Rpi!queueBuffer(st, b)
  BY <1>3
<1>7. /\ t \in StreamOf(B, Q) /\ AtHand(t, x, Rpi!Null)
      /\ \/ t.available = st.available /\ Cat(t.device, t.requests) = Append(Cat(st.device, st.requests), b)
         \/ /\ b = Rpi!Null /\ st.available = <<x>> /\ t.available = <<>>
            /\ Cat(t.device, t.requests) = Append(Cat(st.device, st.requests), x)
  BY <1>2, <1>4, <1>5, <1>6, QueueBufferSound
<1>8. PICK y \in S :
          /\ Cat(t.device, t.requests) = Append(Cat(st.device, st.requests), y)
          /\ \/ t.available = st.available /\ y = b
             \/ b = Rpi!Null /\ st.available = <<x>> /\ t.available = <<>> /\ y = x
  BY <1>2, <1>7
<1>9. Line(s) \in Seq(S) /\ Ahead(s) \in Seq(S) /\ Behind(s) \in Seq(S)
  BY <1>1, LineType
<1>10. PICK l, m : l = Line(s) /\ m = Line(s)'
  OBVIOUS
<1>11. m = Append(l, y)
  <2>1. m = Cat(Ahead(s), Append(Behind(s), y)) /\ l = Cat(Ahead(s), Behind(s))
    BY <1>3, <1>8, <1>10 DEF Line, Behind
  <2>2. \A p, q \in Seq(S) : \A v \in S : Cat(p, Append(q, v)) = Append(Cat(p, q), v)
    BY CatAppend
  <2>3. QED
    BY <1>9, <2>1, <2>2, Zenon
<1>12. Turns(s)' = Append(Turns(s), r) /\ Turns(s) \in Seq(Pair) /\ (Taken(s) => Head(requestQueue') = Head(requestQueue))
  BY TurnsAppend, TurnsType
<1>13. InOrder(Line(s), Turns(s), Wants(s))'
  <2>1. Wants(s)' = Wants(s)
    BY DEF Wants
  <2>2. IF r \in Wants(s) THEN y = Rpi!OfRequest(r) ELSE y \in {Rpi!Null, Rpi!Internal(1)}
    <3>1. r \in Wants(s) <=> s \in req[r].pending
      BY DEF Wants
    <3>2. CASE s \in req[r].pending
      BY <1>8, <3>1, <3>2, BufferNames
    <3>3. CASE s \notin req[r].pending
      BY <1>1, <1>8, <3>1, <3>3
    <3>4. QED
      BY <3>2, <3>3
  <2>3. l \in Seq(S) /\ InOrder(l, Turns(s), Wants(s))
    BY <1>5, <1>9, <1>10
  <2>4. InOrder(Append(l, y), Append(Turns(s), r), Wants(s))
    BY <1>8, <1>12, <2>2, <2>3, InOrderAppend
  <2>5. InOrder(m, Turns(s)', Wants(s)')
    BY <1>11, <1>12, <2>1, <2>4, Zenon
  <2>6. QED
    BY <1>10, <2>5
<1>14. Owned(s)'
  <2>1. SUFFICES ASSUME NEW z \in Pair
                 PROVE  InWork(s, Rpi!OfRequest(z))' = One(Taken(s)' /\ z = Head(requestQueue') /\ s \in req'[z].pending)
    BY DEF Owned
  <2>2. InWork(s, Rpi!OfRequest(z)) = One(Taken(s) /\ z = Head(requestQueue) /\ s \in req[z].pending)
    BY <1>5 DEF Owned
  <2>3. (Taken(s)' /\ z = Head(requestQueue') /\ s \in req'[z].pending) <=> (Taken(s) /\ z = Head(requestQueue) /\ s \in req[z].pending)
    BY <1>12
  <2>4. QED
    BY <2>2, <2>3 DEF One
<1>15. Conserved(s)'
  <2>1. Pool(s)' = {1}
    BY <1>2, SameSets
  <2>2. SUFFICES Occurs(Line(s)', x) + Occurs(streams'[s].available, x) + InWork(s, x)' = 1
    BY <1>1, <2>1 DEF Conserved
  <2>3. Occurs(Line(s), x) + Occurs(streams[s].available, x) + InWork(s, x) = 1
    BY <1>1, <1>2, <1>5 DEF Conserved
  <2>4. Occurs(m, x) = Occurs(l, x) + One(y = x) /\ Occurs(l, x) \in Nat
    <3>1. l \in Seq(S)
      BY <1>9, <1>10
    <3>2. Occurs(Append(l, y), x) = Occurs(l, x) + One(y = x)
      BY <1>8, <3>1, OccursAppend
    <3>3. Occurs(l, x) \in Nat
      BY <3>1, OccursFinite
    <3>4. QED
      BY <1>11, <3>2, <3>3, Zenon
  <2>5. InWork(s, x) \in Nat
    BY WorkType
  <2>6. Occurs(m, x) + Occurs(t.available, x) = Occurs(l, x) + Occurs(st.available, x)
    <3>1. CASE t.available = st.available /\ y = b
      <4>1. One(y = x) = 0
        BY <1>2, <3>1, OneIsNumber
      <4>2. Occurs(m, x) = Occurs(l, x)
        BY <2>4, <4>1
      <4>3. QED
        BY <3>1, <4>2
    <3>2. CASE st.available = <<x>> /\ t.available = <<>> /\ y = x
      <4>1. One(y = x) = 1
        BY <3>2, OneIsNumber
      <4>2. Occurs(t.available, x) = 0
        BY <3>2, OccursEmpty
      <4>3. Occurs(st.available, x) = 1
        <5>1. Occurs(<<x>>, x) = One(x = x)
          BY OccursOnce
        <5>2. One(x = x) = 1
          BY OneIsNumber
        <5>3. QED
          BY <3>2, <5>1, <5>2
      <4>4. QED
        BY <2>4, <4>1, <4>2, <4>3
    <3>3. QED
      BY <1>8, <3>1, <3>2
  <2>7. Occurs(m, x) + Occurs(t.available, x) + InWork(s, x) = 1
    BY <1>3, <1>10, <2>3, <2>6
  <2>8. InWork(s, x)' = InWork(s, x)
    OBVIOUS
  <2>9. QED
    BY <1>3, <1>10, <2>7, <2>8
<1>16. PoolSound(s)' /\ Rpi!External(s)'
  BY <1>1, <1>3, <1>7, SameSets DEF PoolSound
<1>17. QED
  BY <1>1, <1>3, <1>7, <1>13, <1>14, <1>15, <1>16 DEF StreamSound

LEMMA OneQueuedPlaces ==
    ASSUME RpiInv, PlaceInv, Rpi!isRunning, Rpi!DoQueueRequests, waiting # <<>>, Len(queued) # MaxQueued
    PROVE  PlaceInv'
<1>1. PICK r \in Pair : NewRequest(r)
  BY DEF RpiInv, NoneWaits
<1>2. stack = <<"doQueue">> /\ waiting = <<r>>
  BY <1>1 DEF RpiInv, NoneWaits, NewRequest
<1>3. Head(waiting) = r /\ Tail(waiting) = <<>> /\ ToSet(waiting) = {r}
  <2>1. Head(<<r>>) = r /\ Tail(<<r>>) = <<>>
    OBVIOUS
  <2>2. ToSet(<<r>>) = {r}
    BY DEF ToSet
  <2>3. QED
    BY <1>2, <2>1, <2>2, Zenon
<1>4. /\ waiting' = <<>> /\ requestQueue' = Append(requestQueue, r) /\ req' = req /\ stack' = <<"handleState">> \o stack
      /\ streams' = [s \in Rpi!Stream |->
             IF Rpi!External(s) THEN Rpi!queueBuffer(streams[s], IF s \in req[r].streams THEN Rpi!OfRequest(r) ELSE Rpi!Null)
             ELSE streams[s]]
      /\ UNCHANGED <<config, frameNumber, state, bayerQueue, embeddedQueue, input, done, calls, events>>
  BY <1>3 DEF Rpi!DoQueueRequests, Rpi!Call, Rpi!frameVars, Rpi!ipaVars, Rpi!boundVars
<1>5. PlaceTypes /\ (\A s \in Rpi!Stream : StreamSound(s)) /\ PendingSound
  BY DEF PlaceInv
<1>6. req[r].pending = req[r].streams /\ \A s \in req[r].pending : Rpi!External(s)
  BY <1>3, <1>5 DEF PendingSound
<1>7. \A s \in Rpi!Stream : Taken(s)' = Taken(s) /\ \A b : InWork(s, b)' = InWork(s, b)
  BY <1>4, SameWork
<1>8. ASSUME NEW s \in Rpi!Stream
      PROVE  StreamSound(s)' /\ streams'[s] \in StreamOf(BuffersOf(s), FromRequests(s) \cup {Rpi!Null})
  <2>1. Ahead(s)' = Ahead(s)
    BY <1>4 DEF Ahead
  <2>2. CASE Rpi!External(s)
    <3>1. PICK b : b = IF s \in req[r].pending THEN Rpi!OfRequest(r) ELSE Rpi!Null
      OBVIOUS
    <3>2. streams'[s] = Rpi!queueBuffer(streams[s], b)
      BY <1>4, <1>6, <2>2, <3>1, Zenon
    <3>3. QED
      BY <1>4, <1>5, <1>7, <2>1, <2>2, <3>1, <3>2, QueuedStream
  <2>3. CASE ~Rpi!External(s)
    <3>1. streams'[s] = streams[s]
      BY <1>4, <2>3, Zenon
    <3>2. Line(s)' = Line(s)
      BY <2>1, <3>1 DEF Line, Behind
    <3>3. SameBuffers(s)
      BY <1>7, <3>1, <3>2 DEF SameBuffers
    <3>4. PoolSound(s)' /\ Conserved(s)'
      BY <1>4, <1>5, <3>3, SamePool
    <3>5. ~Rpi!External(s)'
      BY <1>4, <2>3, SameSets
    <3>6. QED
      BY <1>5, <3>1, <3>4, <3>5, StreamQueues DEF StreamSound
  <2>4. QED
    BY <2>2, <2>3
<1>9. PlaceTypes'
  <2>1. \A s : BuffersOf(s)' = BuffersOf(s) /\ FromRequests(s)' = FromRequests(s)
    BY <1>4, SameSets
  <2>2. ASSUME NEW s \in Rpi!Stream
        PROVE  StreamType(s)'
    <3>1. streams'[s] \in StreamOf(BuffersOf(s), FromRequests(s) \cup {Rpi!Null}) /\ done'[s] \in Seq(Ready(BuffersOf(s)))
      BY <1>4, <1>5, <1>8, StreamQueues
    <3>2. QED
      BY <2>1, <3>1 DEF StreamType
  <2>3. DOMAIN streams' = Rpi!Stream
    BY <1>4
  <2>4. QED
    BY <1>4, <1>5, <2>1, <2>2, <2>3, SameSets DEF PlaceTypes
<1>10. stack' \in Handling
  BY <1>2, <1>4, OtherMoves
<1>11. PendingSound' /\ Exhausted'
  <2>1. \A s : Rpi!External(s)' = Rpi!External(s)
    BY <1>4, SameSets
  <2>2. ToSet(requestQueue') = ToSet(requestQueue) \cup {r} /\ ToSet(waiting') = {}
    BY <1>4, ToSetOfAppend, ToSetOfEmpty DEF RpiInv, RpiType
  <2>3. stack' \notin Finishing \cup FinishQueue \cup Finished
    BY <1>10, StacksDiffer
  <2>4. PendingSound'
    BY <1>4, <1>5, <1>6, <2>1, <2>2, <2>3 DEF PendingSound
  <2>5. Exhausted'
    BY <1>10, StacksDiffer DEF Exhausted
  <2>6. QED
    BY <2>4, <2>5
<1>12. (Rpi!isRunning)'
  BY <1>4 DEF Rpi!isRunning
<1>13. QED
  BY <1>8, <1>9, <1>11, <1>12 DEF PlaceInv

(***************************************************************************)
(* start()                                                                 *)
(***************************************************************************)

\* Where everything is after start().
Started ==
    /\ config \in Rpi!Configuration /\ frameNumber = 0 /\ state = "Idle" /\ stack = <<>>
    /\ requestQueue = <<>> /\ waiting = <<>> /\ bayerQueue = <<>> /\ embeddedQueue = <<>>
    /\ NoWork /\ done = Rpi!NotDone /\ DOMAIN streams = Rpi!Stream
    /\ \A s \in Rpi!Stream :
           streams[s] = [requests  |-> <<>>,
                         available |-> IF Rpi!External(s) THEN Rpi!InternalBuffers(s) ELSE <<>>,
                         device    |-> IF Rpi!External(s) THEN <<>> ELSE Rpi!InternalBuffers(s)]

LEMMA InternalCounts ==
    ASSUME NEW s \in Rpi!Stream
    PROVE  /\ Rpi!InternalBuffers(s) \in Seq(BuffersOf(s))
           /\ \A i \in Pool(s) : Occurs(Rpi!InternalBuffers(s), Rpi!Internal(i)) = 1
           /\ Rpi!External(s) => Rpi!InternalBuffers(s) = <<Rpi!Internal(1)>>
<1>1. PICK q : q = Rpi!InternalBuffers(s)
  OBVIOUS
<1>2. Pool(s) = {1} \/ Pool(s) = 1 .. 2
  BY DEF Pool
<1>3. q = [i \in Pool(s) |-> Rpi!Internal(i)] /\ (Pool(s) = 1 .. 1 \/ Pool(s) = 1 .. 2)
  <2>1. {1} = 1 .. 1
    OBVIOUS
  <2>2. CASE s = "embedded" \/ (s = "image" /\ ~config.raw)
    <3>1. ~Rpi!External(s)
      BY <2>2, ExternalStreams
    <3>2. Pool(s) = 1 .. 2
      BY <2>2 DEF Pool
    <3>3. QED
      BY <1>1, <2>2, <3>1, <3>2 DEF Rpi!InternalBuffers
  <2>3. CASE ~(s = "embedded" \/ (s = "image" /\ ~config.raw))
    <3>1. ~(s = "image" /\ ~Rpi!External(s)) /\ s # "embedded"
      BY <2>3, ExternalStreams
    <3>2. Pool(s) = 1 .. 1
      BY <2>1, <2>3 DEF Pool
    <3>3. QED
      BY <1>1, <3>1, <3>2 DEF Rpi!InternalBuffers
  <2>4. QED
    BY <2>2, <2>3
<1>4. \A i \in Pool(s) : q[i] = Rpi!Internal(i) /\ Rpi!Internal(i) \in BuffersOf(s)
  BY <1>3, BufferSets
<1>5. q \in Seq(BuffersOf(s)) /\ DOMAIN q = Pool(s)
  <2>1. q \in [Pool(s) -> BuffersOf(s)]
    BY <1>3, <1>4
  <2>2. \A n \in Nat : \A f \in [1 .. n -> BuffersOf(s)] : f \in Seq(BuffersOf(s))
    OBVIOUS
  <2>3. \E n \in Nat : Pool(s) = 1 .. n
    BY <1>3
  <2>4. QED
    BY <2>1, <2>2, <2>3
<1>6. ASSUME NEW i \in Pool(s)
      PROVE  Occurs(q, Rpi!Internal(i)) = 1
  <2>1. \A j \in DOMAIN q : q[j] = Rpi!Internal(i) <=> j = i
    <3>1. SUFFICES ASSUME NEW j \in Pool(s), Rpi!Internal(j) = Rpi!Internal(i)
                   PROVE  j = i
      BY <1>4, <1>5
    <3>2. i \in {1, 2} /\ j \in {1, 2}
      BY BufferSets
    <3>3. QED
      BY <3>1, <3>2, BufferNames
  <2>2. QED
    BY <1>5, <2>1, OccursUnique
<1>7. ASSUME Rpi!External(s)
      PROVE  q = <<Rpi!Internal(1)>>
  <2>1. Pool(s) = {1} /\ 1 .. 1 = {1}
    BY <1>7, BufferSets
  <2>2. Len(q) = 1 /\ q[1] = Rpi!Internal(1)
    BY <1>4, <1>5, <2>1
  <2>3. QED
    BY <1>5, <2>2
<1>8. QED
  BY <1>1, <1>5, <1>6, <1>7

LEMMA StartedPlaces ==
    ASSUME Started
    PROVE  PlaceInv
<1>1. Rpi!isRunning /\ ~IspRan /\ \A s : ~Taken(s)
  BY DEF Started, Rpi!isRunning, IspRan, Taken
<1>2. /\ done["image"] = <<>> /\ done["embedded"] = <<>> /\ done["input"] = <<>> /\ done["output"] = <<>> /\ done["stats"] = <<>>
  BY DEF Started, Rpi!NotDone
<1>3. ASSUME NEW s \in Rpi!Stream
      PROVE  /\ streams[s].requests = <<>>
             /\ streams[s].available = IF Rpi!External(s) THEN Rpi!InternalBuffers(s) ELSE <<>>
             /\ streams[s].device = IF Rpi!External(s) THEN <<>> ELSE Rpi!InternalBuffers(s)
             /\ streams[s] \in StreamOf(BuffersOf(s), FromRequests(s) \cup {Rpi!Null})
  <2>1. Rpi!InternalBuffers(s) \in Seq(BuffersOf(s))
    BY InternalCounts
  <2>2. ASSUME NEW q \in Seq(BuffersOf(s)), NEW v
        PROVE  /\ v = [requests |-> <<>>, available |-> q, device |-> <<>>] =>
                      /\ v.requests = <<>> /\ v.available = q /\ v.device = <<>>
                      /\ v \in StreamOf(BuffersOf(s), FromRequests(s) \cup {Rpi!Null})
               /\ v = [requests |-> <<>>, available |-> <<>>, device |-> q] =>
                      /\ v.requests = <<>> /\ v.available = <<>> /\ v.device = q
                      /\ v \in StreamOf(BuffersOf(s), FromRequests(s) \cup {Rpi!Null})
    <3>1. PICK B, Q : B = BuffersOf(s) /\ Q = FromRequests(s) \cup {Rpi!Null}
      OBVIOUS
    <3>2. q \in Seq(B) /\ <<>> \in Seq(B) /\ <<>> \in Seq(Q)
      BY <3>1
    <3>3. CASE v = [requests |-> <<>>, available |-> q, device |-> <<>>]
      <4>1. v \in StreamOf(B, Q)
        BY <3>2, <3>3 DEF StreamOf
      <4>2. v.requests = <<>> /\ v.available = q /\ v.device = <<>>
        BY <3>3
      <4>3. v # [requests |-> <<>>, available |-> <<>>, device |-> q] \/ q = <<>>
        BY <3>3
      <4>4. QED
        BY <3>1, <4>1, <4>2, <4>3
    <3>4. CASE v = [requests |-> <<>>, available |-> <<>>, device |-> q]
      <4>1. v \in StreamOf(B, Q)
        BY <3>2, <3>4 DEF StreamOf
      <4>2. v.requests = <<>> /\ v.available = <<>> /\ v.device = q
        BY <3>4
      <4>3. v # [requests |-> <<>>, available |-> q, device |-> <<>>] \/ q = <<>>
        BY <3>4
      <4>4. QED
        BY <3>1, <4>1, <4>2, <4>3
    <3>5. QED
      BY <3>3, <3>4
  <2>3. CASE Rpi!External(s)
    <3>1. streams[s] = [requests |-> <<>>, available |-> Rpi!InternalBuffers(s), device |-> <<>>]
      BY <2>3 DEF Started
    <3>2. QED
      BY <2>1, <2>2, <2>3, <3>1, Zenon
  <2>4. CASE ~Rpi!External(s)
    <3>1. streams[s] = [requests |-> <<>>, available |-> <<>>, device |-> Rpi!InternalBuffers(s)]
      BY <2>4 DEF Started
    <3>2. QED
      BY <2>1, <2>2, <2>4, <3>1, Zenon
  <2>5. QED
    BY <2>3, <2>4
<1>4. PlaceTypes
  <2>1. \A s \in Rpi!Stream : StreamType(s)
    <3>1. \A s \in Rpi!Stream : done[s] = <<>>
      BY <1>2 DEF Rpi!Stream
    <3>2. \A S : <<>> \in Seq(S)
      OBVIOUS
    <3>3. QED
      BY <1>3, <3>1, <3>2 DEF StreamType
  <2>2. QED
    BY <1>2, <2>1 DEF PlaceTypes, Started, NoWork
<1>5. WorkOn(Rpi!Null, Rpi!Null, Rpi!Null)
  BY JobAtRest DEF Started
<1>6. ASSUME NEW s \in Rpi!Stream, NEW b, b # Rpi!Null
      PROVE  InWork(s, b) = 0
  <2>1. JobImage(b) = 0 /\ JobEmbedded(b) = 0 /\ JobStats(b) = 0
    BY <1>5, <1>6, NoneIs0 DEF WorkOn
  <2>2. Occurs(Buffers(done["input"]), b) = 0 /\ Occurs(Buffers(done["output"]), b) = 0
    BY <1>2, BuffersOfNone, OccursEmpty
  <2>3. QED
    BY <2>1, <2>2 DEF InWork
<1>7. ASSUME NEW s \in Rpi!Stream
      PROVE  Line(s) = IF Rpi!External(s) THEN <<>> ELSE Rpi!InternalBuffers(s)
  <2>1. PICK d : d = streams[s].device
    OBVIOUS
  <2>2. d \in Seq(BuffersOf(s)) /\ <<>> \in Seq(BuffersOf(s))
    <3>1. d \in Seq(BuffersOf(s))
      BY <1>4, <2>1, StreamQueues
    <3>2. QED
      BY <3>1
  <2>3. \A q \in Seq(BuffersOf(s)) : Cat(q, <<>>) = q /\ Cat(<<>>, q) = q
    BY CatType
  <2>4. Cat(<<>>, <<>>) = <<>> /\ Cat(<<>>, Cat(d, <<>>)) = d
    BY <2>2, <2>3, Zenon
  <2>5. Ahead(s) = <<>>
    BY <1>2, <2>4, BuffersOfNone DEF Ahead, Started
  <2>6. Behind(s) = Cat(d, <<>>)
    BY <1>3, <2>1 DEF Behind
  <2>7. QED
    BY <1>3, <2>1, <2>4, <2>5, <2>6 DEF Line
<1>8. ASSUME NEW s \in Rpi!Stream
      PROVE  StreamSound(s)
  <2>1. ASSUME NEW i \in Pool(s)
        PROVE  Occurs(Line(s), Rpi!Internal(i)) + Occurs(streams[s].available, Rpi!Internal(i)) + InWork(s, Rpi!Internal(i)) = 1
    <3>1. Occurs(Rpi!InternalBuffers(s), Rpi!Internal(i)) = 1 /\ Occurs(<<>>, Rpi!Internal(i)) = 0
      BY InternalCounts, OccursEmpty
    <3>2. InWork(s, Rpi!Internal(i)) = 0
      BY <1>6, BufferSets
    <3>3. Occurs(Line(s), Rpi!Internal(i)) + Occurs(streams[s].available, Rpi!Internal(i)) = 1
      <4>1. CASE Rpi!External(s)
        <5>1. Line(s) = <<>> /\ streams[s].available = Rpi!InternalBuffers(s)
          BY <1>3, <1>7, <4>1
        <5>2. QED
          BY <3>1, <5>1
      <4>2. CASE ~Rpi!External(s)
        <5>1. Line(s) = Rpi!InternalBuffers(s) /\ streams[s].available = <<>>
          BY <1>3, <1>7, <4>2
        <5>2. QED
          BY <3>1, <5>1
      <4>3. QED
        BY <4>1, <4>2
    <3>4. QED
      BY <3>2, <3>3
  <2>2. PoolSound(s)
    BY <1>3, InternalCounts DEF PoolSound, AtHand
  <2>3. ASSUME Rpi!External(s)
        PROVE  InOrder(Line(s), Turns(s), Wants(s)) /\ Owned(s)
    <3>1. Turns(s) = <<>> /\ Line(s) = <<>>
      BY <1>1, <1>7, <2>3 DEF Turns, Started
    <3>2. InOrder(<<>>, <<>>, Wants(s))
      BY DEF InOrder
    <3>3. ASSUME NEW r \in Pair
          PROVE  InWork(s, Rpi!OfRequest(r)) = One(Taken(s) /\ r = Head(requestQueue) /\ s \in req[r].pending)
      <4>1. InWork(s, Rpi!OfRequest(r)) = 0
        BY <1>6, BufferNames
      <4>2. One(Taken(s) /\ r = Head(requestQueue) /\ s \in req[r].pending) = 0
        BY <1>1, OneIsNumber
      <4>3. QED
        BY <4>1, <4>2
    <3>4. QED
      BY <3>1, <3>2, <3>3 DEF Owned
  <2>4. QED
    BY <2>1, <2>2, <2>3 DEF StreamSound, Conserved
<1>9. PendingSound /\ Exhausted
  <2>1. stack \in Base /\ stack \notin Finishing \cup FinishQueue \cup Finished
    BY OtherMoves, StacksDiffer DEF Started
  <2>2. QED
    BY <2>1, ToSetOfEmpty DEF PendingSound, Exhausted, Started
<1>10. QED
  BY <1>1, <1>4, <1>8, <1>9 DEF PlaceInv

LEMMA StartedNext == (Started => PlaceInv)'
<1>1. Started => PlaceInv
  BY StartedPlaces
<1>2. QED
  BY <1>1, PTL

LEMMA StartPlaces ==
    ASSUME RpiInv, bayerQueue = <<>>, embeddedQueue = <<>>, config \in Rpi!Configuration, Rpi!Start, session' = "clean"
    PROVE  PlaceInv'
<1>1. /\ ~active /\ stack = <<>> /\ state' = "Idle" /\ frameNumber' = 0
      /\ streams' = [s \in Rpi!Stream |->
             [requests  |-> streams[s].requests,
              available |-> IF Rpi!External(s) THEN Rpi!InternalBuffers(s) ELSE <<>>,
              device    |-> IF Rpi!External(s) THEN <<>> ELSE Rpi!InternalBuffers(s)]]
      /\ UNCHANGED <<config, stack, waiting, requestQueue, bayerQueue, embeddedQueue, input, done, calls, events>>
  BY DEF Rpi!Start, Rpi!Loop, Rpi!queueVars, Rpi!frameVars, Rpi!ipaVars
<1>2. stack # <<"doQueue">> /\ stack \in Base
  BY <1>1, OtherMoves
<1>3. state = "Stopped" /\ ~Rpi!isRunning
  BY <1>1 DEF RpiInv, StatesSound, Rpi!isRunning
<1>4. /\ requestQueue = <<>> /\ waiting = <<>> /\ calls = <<>> /\ events = <<>> /\ input = <<>> /\ done = Rpi!NotDone
  BY <1>1, <1>2, <1>3, QuietStack DEF RpiInv, StatesSound
<1>5. bayerQueue = <<>> /\ embeddedQueue = <<>> /\ config \in Rpi!Configuration
  OBVIOUS
<1>6. NoWork'
  BY <1>1, <1>4 DEF NoWork, Rpi!NotDone
<1>7. \A s : Rpi!External(s)' = Rpi!External(s) /\ Rpi!InternalBuffers(s)' = Rpi!InternalBuffers(s)
  BY <1>1 DEF Rpi!External, Rpi!InternalBuffers
<1>8. \A s \in Rpi!Stream : streams[s].requests = <<>>
  BY DEF Rpi!Start, Rpi!Fault
<1>9. DOMAIN streams' = Rpi!Stream /\
      \A s \in Rpi!Stream :
          streams'[s] = [requests  |-> <<>>,
                         available |-> IF Rpi!External(s)' THEN Rpi!InternalBuffers(s)' ELSE <<>>,
                         device    |-> IF Rpi!External(s)' THEN <<>> ELSE Rpi!InternalBuffers(s)']
  BY <1>1, <1>7, <1>8
<1>10. Started'
  BY <1>1, <1>4, <1>5, <1>6, <1>9 DEF Started
<1>11. QED
  BY <1>10, StartedNext

(***************************************************************************)
(* The camera does not run                                                 *)
(***************************************************************************)

\* The streams of the running camera, and the queues of the one that does not, are known.
LEMMA ConfigurationKnown ==
    ASSUME PlaceInv
    PROVE  config \in Rpi!Configuration
  BY DEF PlaceInv, PlaceTypes

LEMMA HaltPlaces ==
    ASSUME RpiInv, PlaceInv, Rpi!Stop \/ Rpi!CameraTimeout
    PROVE  PlaceInv'
<1>1. state' \in {"Stopped", "Error"} /\ bayerQueue' = <<>> /\ embeddedQueue' = <<>> /\ config' = config
  BY DEF Rpi!Stop, Rpi!CameraTimeout, Rpi!StreamOff
<1>2. ~(Rpi!isRunning)'
  BY <1>1 DEF Rpi!isRunning
<1>3. QED
  BY <1>1, <1>2, ConfigurationKnown DEF PlaceInv

LEMMA RestPlaces ==
    ASSUME PlaceInv, ~Rpi!isRunning, UNCHANGED <<state, bayerQueue, embeddedQueue>>, config' \in Rpi!Configuration
    PROVE  PlaceInv'
<1>1. ~(Rpi!isRunning)'
  BY DEF Rpi!isRunning
<1>2. QED
  BY <1>1 DEF PlaceInv

\* Steps of a camera that does not run.
LEMMA IdlePlaces ==
    ASSUME RpiInv, PlaceInv, ~Rpi!isRunning,
           \/ Rpi!DoQueueRequests \/ Rpi!CompleteRequest \/ Rpi!IpaEvent \/ Rpi!IpaThread
           \/ Rpi!ClearIncompleteRequests \/ Rpi!PopIncomplete \/ Rpi!StopIpa \/ Rpi!StopWaiting
    PROVE  PlaceInv'
<1>1. UNCHANGED <<config, state, bayerQueue, embeddedQueue>>
  <2>1. CASE Rpi!DoQueueRequests \/ Rpi!CompleteRequest
    BY <2>1 DEF Rpi!DoQueueRequests, Rpi!CompleteRequest, Rpi!frameVars
  <2>2. CASE Rpi!IpaEvent \/ Rpi!IpaThread
    BY <2>2 DEF Rpi!IpaEvent, Rpi!IpaThread, Rpi!frameVars
  <2>3. CASE Rpi!ClearIncompleteRequests \/ Rpi!PopIncomplete
    BY <2>3 DEF Rpi!ClearIncompleteRequests, Rpi!PopIncomplete, Rpi!frameVars
  <2>4. CASE Rpi!StopIpa \/ Rpi!StopWaiting
    BY <2>4 DEF Rpi!StopIpa, Rpi!StopWaiting, Rpi!frameVars
  <2>5. QED
    BY <2>1, <2>2, <2>3, <2>4
<1>2. QED
  BY <1>1, ConfigurationKnown, RestPlaces

\* The camera runs when these functions are in progress, and does not during those.
LEMMA RunsDuring ==
    ASSUME RpiInv
    PROVE  /\ Rpi!HandleState \/ Rpi!CheckRequestCompleted \/ Rpi!RequestCompleted \/ Rpi!TryRunPipeline => Rpi!isRunning
           /\ Rpi!ClearIncompleteRequests \/ Rpi!PopIncomplete \/ Rpi!StopIpa \/ Rpi!StopWaiting => ~Rpi!isRunning
<1>1. stack \in RpiStacks
  BY DEF RpiInv, RpiType
<1>2. /\ Rpi!HandleState => stack \in Handling
      /\ Rpi!CheckRequestCompleted => stack \in Checking
      /\ Rpi!RequestCompleted => stack \in Finished
      /\ Rpi!TryRunPipeline => stack \in Trying
  BY <1>1, OnTop DEF Rpi!HandleState, Rpi!CheckRequestCompleted, Rpi!RequestCompleted, Rpi!TryRunPipeline
<1>3. /\ Rpi!ClearIncompleteRequests => stack \in Clearing
      /\ Rpi!PopIncomplete => stack \in Given
      /\ Rpi!StopIpa => stack \in IpaStopping
      /\ Rpi!StopWaiting => stack \in Ending
  BY <1>1, OnTop DEF Rpi!ClearIncompleteRequests, Rpi!PopIncomplete, Rpi!StopIpa, Rpi!StopWaiting
<1>4. QED
  BY <1>2, <1>3 DEF RpiInv, StatesSound, RunningStacks, CheckedStacks, ClearStacks, EndStacks, Rpi!isRunning

LEMMA StutterPlaces ==
    ASSUME RpiInv, PlaceInv, UNCHANGED Rpi!vars
    PROVE  PlaceInv'
<1>1. Still /\ UNCHANGED <<state, stack, req, requestQueue, waiting>>
  BY DEF Rpi!vars, Rpi!queueVars, Rpi!frameVars, Rpi!deviceVars, Rpi!ipaVars, Rpi!boundVars, Still
<1>2. CASE Rpi!isRunning
  <2>1. PlaceTypes /\ PendingSound /\ Exhausted
    BY <1>2 DEF PlaceInv
  <2>2. PendingSound' /\ Exhausted'
    BY <1>1, <2>1, SamePending DEF Exhausted, Still
  <2>3. \A s \in Rpi!Stream : SameWants(s)
    BY <1>1 DEF SameWants
  <2>4. QED
    BY <1>1, <1>2, <2>2, <2>3, StillPlaces
<1>3. CASE ~Rpi!isRunning
  BY <1>1, <1>3, ConfigurationKnown, RestPlaces DEF Still
<1>4. QED
  BY <1>2, <1>3

LEMMA PlaceStep ==
    ASSUME RpiConstants, RpiInv, RpiInv', PlaceInv, [Rpi!Next]_Rpi!vars, session' # "refused", ~Rpi!Start
    PROVE  PlaceInv'
<1>1. CASE UNCHANGED Rpi!vars
  BY <1>1, StutterPlaces
<1>2. CASE Rpi!PipelineThread
  <2>1. CASE Rpi!DoQueueRequests
    <3>1. CASE ~Rpi!isRunning
      BY <2>1, <3>1, IdlePlaces
    <3>2. CASE Rpi!isRunning
      BY <2>1, <3>2, NothingQueuedPlaces, OneQueuedPlaces
    <3>3. QED
      BY <3>1, <3>2
  <2>2. CASE Rpi!CompleteRequest
    BY <2>2, CompletePlaces, IdlePlaces
  <2>3. CASE Rpi!HandleState \/ Rpi!CheckRequestCompleted \/ Rpi!RequestCompleted \/ Rpi!TryRunPipeline
    BY <2>3, HandleStatePlaces, CheckPlaces, RequestCompletedPlaces, TryRunPlaces
  <2>4. CASE Rpi!UnicamImageDequeue \/ Rpi!UnicamEmbeddedDequeue
    BY <2>4, UnicamPlaces
  <2>5. CASE Rpi!IspInputDequeue \/ Rpi!IspOutputDequeue \/ Rpi!IspStatsDequeue
    BY <2>5, FinishedPlaces, StatsDequeuePlaces
  <2>6. CASE Rpi!IpaEvent
    BY <2>6, IpaEventPlaces, IdlePlaces
  <2>7. CASE Rpi!ClearIncompleteRequests \/ Rpi!PopIncomplete \/ Rpi!StopIpa \/ Rpi!StopWaiting
    BY <2>7, RunsDuring, IdlePlaces
  <2>8. QED
    BY <1>2, <2>1, <2>2, <2>3, <2>4, <2>5, <2>6, <2>7, NoRefusal DEF Rpi!PipelineThread
<1>3. CASE Rpi!IpaThread
  BY <1>3, IpaThreadPlaces, IdlePlaces
<1>4. CASE Rpi!CaptureFrame \/ Rpi!CaptureLost \/ Rpi!IspRun
  BY <1>4, CapturePlaces, IspRunPlaces
<1>5. ASSUME NEW r \in Pair, NEW ss \in (SUBSET {"image", "output"}) \ {{}}, \A s \in ss : Rpi!External(s), Rpi!QueueRequest(r, ss)
      PROVE  PlaceInv'
  <2>1. ss \in SUBSET Rpi!Stream
    BY DEF Rpi!Stream
  <2>2. CASE Rpi!isRunning
    BY <1>5, <2>1, <2>2, QueueRequestPlaces
  <2>3. CASE ~Rpi!isRunning
    <3>1. UNCHANGED <<config, state, bayerQueue, embeddedQueue>>
      BY <1>5 DEF Rpi!QueueRequest, Rpi!frameVars
    <3>2. QED
      BY <2>3, <3>1, ConfigurationKnown, RestPlaces
  <2>4. QED
    BY <2>2, <2>3
<1>6. ASSUME NEW c \in Rpi!Configuration, Rpi!Configure(c)
      PROVE  PlaceInv'
  <2>1. ~active /\ config' = c /\ UNCHANGED <<state, bayerQueue, embeddedQueue>>
    BY <1>6 DEF Rpi!Configure, Rpi!frameVars
  <2>2. ~Rpi!isRunning
    BY <2>1 DEF RpiInv, StatesSound, Rpi!isRunning
  <2>3. QED
    BY <2>1, <2>2, RestPlaces
<1>7. CASE Rpi!StartFails
  <2>1. ~active /\ UNCHANGED <<config, state, bayerQueue, embeddedQueue>>
    BY <1>7 DEF Rpi!StartFails, Rpi!frameVars
  <2>2. ~Rpi!isRunning
    BY <2>1 DEF RpiInv, StatesSound, Rpi!isRunning
  <2>3. QED
    BY <2>1, <2>2, ConfigurationKnown, RestPlaces
<1>8. CASE Rpi!Stop \/ Rpi!CameraTimeout
  BY <1>8, HaltPlaces
<1>9. QED
  BY <1>1, <1>2, <1>3, <1>4, <1>5, <1>6, <1>7, <1>8 DEF Rpi!Next

\* The buffers are where they should be whenever the camera runs in a clean session.
CleanInv == SessionInv /\ (session = "clean" => PlaceInv)

LEMMA CleanStep ==
    ASSUME RpiConstants, CleanInv, [Rpi!Next]_Rpi!vars
    PROVE  CleanInv'
<1>1. SessionInv'
  BY NextSession DEF CleanInv
<1>2. ASSUME session' = "clean"
      PROVE  PlaceInv'
  <2>1. RpiInv'
    BY <1>1, <1>2 DEF SessionInv
  <2>2. CASE Rpi!Start /\ Rpi!Next
    <3>1. ~active /\ fatal = "none"
      BY <2>2 DEF Rpi!Start, Rpi!Next
    <3>2. AnySession
      BY <3>1 DEF CleanInv, SessionInv
    <3>3. RpiInv
      BY <3>1, <3>2, AtRest
    <3>4. bayerQueue = <<>> /\ embeddedQueue = <<>> /\ config \in Rpi!Configuration
      BY <3>1, <3>2 DEF AnySession, AnyTypes, AnyStates, Rpi!isRunning
    <3>5. QED
      BY <1>2, <2>2, <3>3, <3>4, StartPlaces
  <2>3. CASE UNCHANGED Rpi!vars
    <3>1. session = "clean"
      BY <1>2, <2>3 DEF Rpi!vars, Rpi!faultVars
    <3>2. QED
      BY <2>3, <3>1, StutterPlaces DEF CleanInv, SessionInv
  <2>4. CASE ~Rpi!Start
    <3>1. session' # "refused"
      BY <1>2
    <3>2. session = "clean"
      BY <1>2, <2>4, <3>1, SessionKept
    <3>3. RpiInv /\ PlaceInv
      BY <3>2 DEF CleanInv, SessionInv
    <3>4. QED
      BY <2>1, <2>4, <3>1, <3>3, PlaceStep
  <2>5. QED
    BY <2>2, <2>3, <2>4
<1>3. QED
  BY <1>1, <1>2 DEF CleanInv

LEMMA PlacesSound ==
    ASSUME RpiConstants
    PROVE  Rpi!Spec => []CleanInv
<1>1. Rpi!Init => CleanInv
  <2>1. ASSUME Rpi!Init
        PROVE  CleanInv
    <3>1. SessionInv
      BY <2>1, RpiInitSound, AnyInit DEF SessionInv
    <3>2. PlaceInv
      BY <2>1 DEF Rpi!Init, PlaceInv, Rpi!isRunning
    <3>3. QED
      BY <3>1, <3>2 DEF CleanInv
  <2>2. QED
    BY <2>1
<1>2. CleanInv /\ [Rpi!Next]_Rpi!vars => CleanInv'
  BY CleanStep
<1>3. QED
  BY <1>1, <1>2, PTL DEF Rpi!Spec

(***************************************************************************)
(* Each buffer is in one place                                             *)
(***************************************************************************)

\* The counts of RpiPipeline.
LEMMA CountsAre ==
    ASSUME NEW q, NEW b, NEW o
    PROVE  /\ Rpi!Count(q, b) = Occurs(q, b) /\ Rpi!CountIn(q, b) = Occurs(Buffers(q), b)
           /\ Rpi!Cardinality({i \in DOMAIN q : q[i].op = o /\ q[i].bayer = b}) = ImageIn(q, o, b)
           /\ Rpi!Cardinality({i \in DOMAIN q : q[i].op = o /\ q[i].embedded = b}) = EmbeddedIn(q, o, b)
           /\ Rpi!Cardinality({i \in DOMAIN q : q[i].op = o /\ q[i].stats = b}) = StatsIn(q, o, b)
<1>1. \A S : Rpi!Cardinality(S) = Cardinality(S)
  BY RpiCardinality
<1>2. DOMAIN Buffers(q) = DOMAIN q /\ \A i \in DOMAIN q : Buffers(q)[i] = q[i].buffer
  BY DEF Buffers
<1>3. {i \in DOMAIN Buffers(q) : Buffers(q)[i] = b} = {i \in DOMAIN q : q[i].buffer = b}
  BY <1>2
<1>4. Rpi!CountIn(q, b) = Occurs(Buffers(q), b)
  BY <1>1, <1>3, Zenon DEF Rpi!CountIn, Occurs
<1>5. QED
  BY <1>1, <1>4, Zenon DEF Rpi!Count, Occurs, ImageIn, EmbeddedIn, StatsIn

\* The counts are numbers.
LEMMA CountsType ==
    ASSUME PlaceTypes, NEW s \in Rpi!Stream, NEW b
    PROVE  /\ Occurs(streams[s].available, b) \in Nat /\ Occurs(streams[s].requests, b) \in Nat
           /\ Occurs(streams[s].device, b) \in Nat /\ Occurs(Buffers(done[s]), b) \in Nat
           /\ Occurs(Buffers(done["input"]), b) \in Nat /\ Occurs(input, b) \in Nat
           /\ Occurs(Buffers(bayerQueue), b) \in Nat /\ Occurs(Buffers(embeddedQueue), b) \in Nat
           /\ \A o : /\ ImageIn(calls, o, b) \in Nat /\ EmbeddedIn(calls, o, b) \in Nat /\ StatsIn(calls, o, b) \in Nat
                     /\ ImageIn(events, o, b) \in Nat /\ EmbeddedIn(events, o, b) \in Nat /\ StatsIn(events, o, b) \in Nat
<1>1. \A S : \A q \in Seq(S) : Occurs(q, b) \in Nat
  BY OccursFinite
<1>2. \A B : \A q \in Seq(Ready(B)) : Buffers(q) \in Seq(B)
  BY BuffersOfQueue DEF Ready
<1>3. /\ streams[s].available \in Seq(BuffersOf(s)) /\ streams[s].requests \in Seq(Tokens(s))
      /\ streams[s].device \in Seq(BuffersOf(s)) /\ done[s] \in Seq(Ready(BuffersOf(s)))
  BY StreamQueues
<1>4. /\ done["input"] \in Seq(Ready(BuffersOf("image"))) /\ input \in Seq(BuffersOf("image"))
      /\ bayerQueue \in Seq(Ready(BuffersOf("image"))) /\ embeddedQueue \in Seq(Ready(BuffersOf("embedded")))
  BY DEF PlaceTypes
<1>5. \A S : \A q \in Seq(S) : \A o : ImageIn(q, o, b) \in Nat /\ EmbeddedIn(q, o, b) \in Nat /\ StatsIn(q, o, b) \in Nat
  <2>1. ASSUME NEW S, NEW q \in Seq(S), NEW o
        PROVE  ImageIn(q, o, b) \in Nat /\ EmbeddedIn(q, o, b) \in Nat /\ StatsIn(q, o, b) \in Nat
    <3>1. \A A \in SUBSET DOMAIN q : Cardinality(A) \in Nat
      BY PartsOf
    <3>2. QED
      BY <3>1 DEF ImageIn, EmbeddedIn, StatsIn
  <2>2. QED
    BY <2>1
<1>6. \E S, T : calls \in Seq(S) /\ events \in Seq(T)
  BY DEF PlaceTypes
<1>7. Occurs(streams[s].available, b) \in Nat /\ Occurs(streams[s].requests, b) \in Nat /\ Occurs(streams[s].device, b) \in Nat
  BY <1>1, <1>3, Zenon
<1>8. Occurs(Buffers(done[s]), b) \in Nat
  BY <1>1, <1>2, <1>3, Zenon
<1>9. Occurs(Buffers(done["input"]), b) \in Nat /\ Occurs(Buffers(bayerQueue), b) \in Nat /\ Occurs(Buffers(embeddedQueue), b) \in Nat
  BY <1>1, <1>2, <1>4, Zenon
<1>10. Occurs(input, b) \in Nat
  BY <1>1, <1>4, Zenon
<1>11. \A o : /\ ImageIn(calls, o, b) \in Nat /\ EmbeddedIn(calls, o, b) \in Nat /\ StatsIn(calls, o, b) \in Nat
              /\ ImageIn(events, o, b) \in Nat /\ EmbeddedIn(events, o, b) \in Nat /\ StatsIn(events, o, b) \in Nat
  BY <1>5, <1>6, Zenon
<1>12. QED
  BY <1>7, <1>8, <1>9, <1>10, <1>11, Zenon

\* The buffers in line, by queue.
LEMMA LineCounts ==
    ASSUME PlaceTypes, NEW b
    PROVE  /\ Occurs(Line("image"), b) = Occurs(Buffers(bayerQueue), b) + Occurs(Buffers(done["image"]), b)
                                         + Occurs(streams["image"].device, b) + Occurs(streams["image"].requests, b)
           /\ Occurs(Line("embedded"), b) = Occurs(Buffers(embeddedQueue), b) + Occurs(Buffers(done["embedded"]), b)
                                            + Occurs(streams["embedded"].device, b) + Occurs(streams["embedded"].requests, b)
           /\ \A s \in {"output", "stats"} :
                  Occurs(Line(s), b) = Occurs(streams[s].device, b) + Occurs(streams[s].requests, b)
<1>1. \A S : \A p, q \in Seq(S) : Occurs(Cat(p, q), b) = Occurs(p, b) + Occurs(q, b)
  BY OccursCat
<1>2. \A s \in Rpi!Stream :
          /\ Ahead(s) \in Seq(Tokens(s)) /\ Behind(s) \in Seq(Tokens(s))
          /\ streams[s].device \in Seq(Tokens(s)) /\ streams[s].requests \in Seq(Tokens(s))
  BY LineType, StreamQueues
<1>3. ASSUME NEW s \in Rpi!Stream
      PROVE  /\ Occurs(Line(s), b) = Occurs(Ahead(s), b) + Occurs(Behind(s), b)
             /\ Occurs(Behind(s), b) = Occurs(streams[s].device, b) + Occurs(streams[s].requests, b)
  <2>1. PICK S, a, e, d, q : S = Tokens(s) /\ a = Ahead(s) /\ e = Behind(s) /\ d = streams[s].device /\ q = streams[s].requests
    OBVIOUS
  <2>2. a \in Seq(S) /\ e \in Seq(S) /\ d \in Seq(S) /\ q \in Seq(S)
    BY <1>2, <2>1
  <2>3. Occurs(Cat(a, e), b) = Occurs(a, b) + Occurs(e, b) /\ Occurs(Cat(d, q), b) = Occurs(d, b) + Occurs(q, b)
    BY <1>1, <2>2, Zenon
  <2>4. Line(s) = Cat(a, e) /\ Behind(s) = Cat(d, q)
    BY <2>1 DEF Line, Behind
  <2>5. QED
    BY <2>1, <2>3, <2>4, Zenon
<1>4. ASSUME NEW s \in {"image", "embedded"}, NEW q \in Seq(Ready(BuffersOf(s))), Ahead(s) = Cat(Buffers(q), Buffers(done[s]))
      PROVE  Occurs(Ahead(s), b) = Occurs(Buffers(q), b) + Occurs(Buffers(done[s]), b)
  <2>1. s \in Rpi!Stream
    BY DEF Rpi!Stream
  <2>2. done[s] \in Seq(Ready(BuffersOf(s)))
    BY <2>1, StreamQueues
  <2>3. \A v \in Seq(Ready(BuffersOf(s))) : Buffers(v) \in Seq(BuffersOf(s))
    BY BuffersOfQueue DEF Ready
  <2>4. Buffers(q) \in Seq(BuffersOf(s)) /\ Buffers(done[s]) \in Seq(BuffersOf(s))
    BY <2>2, <2>3, Zenon
  <2>5. Occurs(Cat(Buffers(q), Buffers(done[s])), b) = Occurs(Buffers(q), b) + Occurs(Buffers(done[s]), b)
    BY <1>1, <2>4, Zenon
  <2>6. QED
    BY <1>4, <2>5, Zenon
<1>5. /\ Occurs(Ahead("image"), b) = Occurs(Buffers(bayerQueue), b) + Occurs(Buffers(done["image"]), b)
      /\ Occurs(Ahead("embedded"), b) = Occurs(Buffers(embeddedQueue), b) + Occurs(Buffers(done["embedded"]), b)
  BY <1>4 DEF PlaceTypes, Ahead
<1>6. \A s \in {"output", "stats"} : Occurs(Ahead(s), b) = 0
  BY OccursEmpty DEF Ahead
<1>7. \A s \in Rpi!Stream : /\ Occurs(streams[s].device, b) \in Nat /\ Occurs(streams[s].requests, b) \in Nat
                            /\ Occurs(Buffers(done[s]), b) \in Nat
                            /\ Occurs(Buffers(bayerQueue), b) \in Nat /\ Occurs(Buffers(embeddedQueue), b) \in Nat
  BY CountsType
<1>8. "image" \in Rpi!Stream /\ "embedded" \in Rpi!Stream /\ "output" \in Rpi!Stream /\ "stats" \in Rpi!Stream
  BY DEF Rpi!Stream
<1>9. QED
  BY <1>3, <1>5, <1>6, <1>7, <1>8

LEMMA PlacesAre ==
    ASSUME PlaceTypes, NEW s \in Rpi!Stream, NEW b
    PROVE  Rpi!Places(s, b) = Occurs(Line(s), b) + Occurs(streams[s].available, b) + InWork(s, b)
<1>1. \A q : Rpi!Count(q, b) = Occurs(q, b) /\ Rpi!CountIn(q, b) = Occurs(Buffers(q), b)
  BY CountsAre
<1>2. \A q, o : /\ Rpi!Cardinality({i \in DOMAIN q : q[i].op = o /\ q[i].bayer = b}) = ImageIn(q, o, b)
                /\ Rpi!Cardinality({i \in DOMAIN q : q[i].op = o /\ q[i].embedded = b}) = EmbeddedIn(q, o, b)
                /\ Rpi!Cardinality({i \in DOMAIN q : q[i].op = o /\ q[i].stats = b}) = StatsIn(q, o, b)
  BY CountsAre
<1>3. Rpi!Places(s, b) =
          Occurs(streams[s].available, b) + Occurs(streams[s].requests, b) + Occurs(streams[s].device, b) + Occurs(Buffers(done[s]), b)
          + CASE s = "image" ->
                     Occurs(Buffers(bayerQueue), b) + Occurs(input, b) + Occurs(Buffers(done["input"]), b)
                     + ImageIn(calls, "prepareIsp", b) + ImageIn(events, "prepareIspComplete", b)
              [] s = "embedded" ->
                     Occurs(Buffers(embeddedQueue), b) + EmbeddedIn(calls, "prepareIsp", b) + EmbeddedIn(events, "prepareIspComplete", b)
              [] s = "stats" -> StatsIn(calls, "processStats", b) + StatsIn(events, "processStatsComplete", b)
              [] OTHER -> 0
  BY <1>1, <1>2, Zenon DEF Rpi!Places
<1>4. /\ Occurs(streams[s].available, b) \in Nat /\ Occurs(streams[s].requests, b) \in Nat
      /\ Occurs(streams[s].device, b) \in Nat /\ Occurs(Buffers(done[s]), b) \in Nat
      /\ Occurs(Buffers(done["input"]), b) \in Nat /\ Occurs(input, b) \in Nat
      /\ Occurs(Buffers(bayerQueue), b) \in Nat /\ Occurs(Buffers(embeddedQueue), b) \in Nat
  BY CountsType
<1>5. \A o : /\ ImageIn(calls, o, b) \in Nat /\ EmbeddedIn(calls, o, b) \in Nat /\ StatsIn(calls, o, b) \in Nat
             /\ ImageIn(events, o, b) \in Nat /\ EmbeddedIn(events, o, b) \in Nat /\ StatsIn(events, o, b) \in Nat
  BY CountsType
<1>6. CASE s = "image"
  <2>1. InWork(s, b) = Occurs(Buffers(done["input"]), b)
                       + (Occurs(input, b) + ImageIn(calls, "prepareIsp", b) + ImageIn(events, "prepareIspComplete", b))
    BY <1>6 DEF InWork, JobImage
  <2>2. Occurs(Line(s), b) = Occurs(Buffers(bayerQueue), b) + Occurs(Buffers(done[s]), b)
                             + Occurs(streams[s].device, b) + Occurs(streams[s].requests, b)
    BY <1>6, LineCounts
  <2>3. QED
    BY <1>3, <1>4, <1>5, <1>6, <2>1, <2>2
<1>7. CASE s = "embedded"
  <2>1. InWork(s, b) = EmbeddedIn(calls, "prepareIsp", b) + EmbeddedIn(events, "prepareIspComplete", b)
    BY <1>7 DEF InWork, JobEmbedded
  <2>2. Occurs(Line(s), b) = Occurs(Buffers(embeddedQueue), b) + Occurs(Buffers(done[s]), b)
                             + Occurs(streams[s].device, b) + Occurs(streams[s].requests, b)
    BY <1>7, LineCounts
  <2>3. QED
    BY <1>3, <1>4, <1>5, <1>7, <2>1, <2>2
<1>8. CASE s = "stats"
  <2>1. InWork(s, b) = Occurs(Buffers(done[s]), b) + StatsIn(calls, "processStats", b) + StatsIn(events, "processStatsComplete", b)
    BY <1>8 DEF InWork, JobStats
  <2>2. Occurs(Line(s), b) = Occurs(streams[s].device, b) + Occurs(streams[s].requests, b)
    BY <1>8, LineCounts
  <2>3. QED
    BY <1>3, <1>4, <1>5, <1>8, <2>1, <2>2
<1>9. CASE s = "output"
  <2>1. InWork(s, b) = Occurs(Buffers(done[s]), b)
    BY <1>9 DEF InWork
  <2>2. Occurs(Line(s), b) = Occurs(streams[s].device, b) + Occurs(streams[s].requests, b)
    BY <1>9, LineCounts
  <2>3. QED
    BY <1>3, <1>4, <1>9, <2>1, <2>2
<1>10. QED
  BY <1>6, <1>7, <1>8, <1>9 DEF Rpi!Stream

\* The number of internal buffers of a stream.
LEMMA InternalPool ==
    ASSUME NEW s \in Rpi!Stream
    PROVE  DOMAIN Rpi!InternalBuffers(s) = Pool(s)
<1>1. {1} = 1 .. 1
  OBVIOUS
<1>2. CASE s = "embedded" \/ (s = "image" /\ ~config.raw)
  <2>1. ~Rpi!External(s) /\ Pool(s) = 1 .. 2
    BY <1>2, ExternalStreams DEF Pool
  <2>2. QED
    BY <1>2, <2>1 DEF Rpi!InternalBuffers
<1>3. CASE ~(s = "embedded" \/ (s = "image" /\ ~config.raw))
  <2>1. ~(s = "image" /\ ~Rpi!External(s)) /\ s # "embedded"
    BY <1>3, ExternalStreams
  <2>2. Pool(s) = 1 .. 1
    BY <1>1, <1>3 DEF Pool
  <2>3. QED
    BY <2>1, <2>2 DEF Rpi!InternalBuffers
<1>4. QED
  BY <1>2, <1>3

\* No buffer of a request is at hand for other requests.
LEMMA NoneOfRequest ==
    ASSUME PlaceTypes, NEW s \in Rpi!Stream, PoolSound(s), NEW r
    PROVE  /\ ~Rpi!Contains(streams[s].available, Rpi!OfRequest(r))
           /\ Occurs(streams[s].available, Rpi!OfRequest(r)) = 0
<1>1. PICK q : q = streams[s].available
  OBVIOUS
<1>2. q = <<>> \/ q = <<Rpi!Internal(1)>>
  BY <1>1 DEF PoolSound, AtHand
<1>3. Rpi!OfRequest(r) # Rpi!Internal(1)
  BY BufferNames
<1>4. ~Rpi!Contains(q, Rpi!OfRequest(r))
  <2>1. \A i \in 1 .. Len(q) : q[i] = Rpi!Internal(1)
    BY <1>2
  <2>2. QED
    BY <1>3, <2>1 DEF Rpi!Contains
<1>5. Occurs(q, Rpi!OfRequest(r)) = 0
  <2>1. Occurs(<<>>, Rpi!OfRequest(r)) = 0
    BY OccursEmpty
  <2>2. Occurs(<<Rpi!Internal(1)>>, Rpi!OfRequest(r)) = 0
    <3>1. Occurs(<<Rpi!Internal(1)>>, Rpi!OfRequest(r)) = One(Rpi!Internal(1) = Rpi!OfRequest(r))
      BY OccursOnce, Zenon
    <3>2. One(Rpi!Internal(1) = Rpi!OfRequest(r)) = 0
      BY <1>3, Zenon DEF One
    <3>3. QED
      BY <3>1, <3>2, Zenon
  <2>3. QED
    BY <1>2, <2>1, <2>2, Zenon
<1>6. QED
  BY <1>1, <1>4, <1>5

\* The buffer that a request waits for is in line, or the pipeline works on it.
LEMMA RequestPlace ==
    ASSUME RpiInv, Rpi!isRunning, PlaceTypes, NEW s \in Rpi!Stream, StreamSound(s), Rpi!External(s),
           NEW r \in ToSet(requestQueue)
    PROVE  Rpi!Places(s, Rpi!OfRequest(r)) = One(s \in req[r].pending)
<1>1. Rpi!External(s)
  OBVIOUS
<1>2. InOrder(Line(s), Turns(s), Wants(s)) /\ Owned(s) /\ PoolSound(s)
  BY <1>1 DEF StreamSound
<1>3. r \in Pair
  BY MembersIn DEF RpiInv, RpiType
<1>4. r \in Wants(s) <=> s \in req[r].pending
  BY <1>3 DEF Wants
<1>5. Occurs(streams[s].available, Rpi!OfRequest(r)) = 0
  BY <1>2, NoneOfRequest
<1>6. Occurs(Line(s), Rpi!OfRequest(r)) = One(r \in ToSet(Turns(s)) /\ r \in Wants(s))
  <2>1. Line(s) \in Seq(Tokens(s))
    BY LineType
  <2>2. Turns(s) \in Seq(Pair) /\ IsInjective(Turns(s))
    BY TurnsType
  <2>3. PICK q, t, w : q = Line(s) /\ t = Turns(s) /\ w = Wants(s)
    OBVIOUS
  <2>4. q \in Seq(Tokens(s)) /\ t \in Seq(Pair) /\ IsInjective(t) /\ InOrder(q, t, w)
    BY <1>2, <2>1, <2>2, <2>3
  <2>5. Occurs(q, Rpi!OfRequest(r)) = One(r \in ToSet(t) /\ r \in w)
    BY <1>3, <2>4, InOrderCounts
  <2>6. QED
    BY <2>3, <2>5, Zenon
<1>7. InWork(s, Rpi!OfRequest(r)) = One(Taken(s) /\ r = Head(requestQueue) /\ s \in req[r].pending)
  BY <1>2, <1>3, Zenon DEF Owned
<1>8. Occurs(Line(s), Rpi!OfRequest(r)) + InWork(s, Rpi!OfRequest(r)) = One(s \in req[r].pending)
  <2>1. CASE s \notin req[r].pending
    <3>1. Occurs(Line(s), Rpi!OfRequest(r)) = 0 /\ InWork(s, Rpi!OfRequest(r)) = 0 /\ One(s \in req[r].pending) = 0
      BY <1>4, <1>6, <1>7, <2>1 DEF One
    <3>2. QED
      BY <3>1
  <2>2. CASE s \in req[r].pending /\ ~Taken(s)
    <3>1. r \in ToSet(Turns(s))
      BY <2>2 DEF Turns
    <3>2. Occurs(Line(s), Rpi!OfRequest(r)) = 1 /\ InWork(s, Rpi!OfRequest(r)) = 0 /\ One(s \in req[r].pending) = 1
      BY <1>4, <1>6, <1>7, <2>2, <3>1 DEF One
    <3>3. QED
      BY <3>2
  <2>3. CASE s \in req[r].pending /\ Taken(s)
    <3>1. ToSet(Turns(s)) = ToSet(requestQueue) \ {Head(requestQueue)}
      BY <2>3, TurnsType
    <3>2. CASE r = Head(requestQueue)
      <4>1. Occurs(Line(s), Rpi!OfRequest(r)) = 0 /\ InWork(s, Rpi!OfRequest(r)) = 1 /\ One(s \in req[r].pending) = 1
        BY <1>4, <1>6, <1>7, <2>3, <3>1, <3>2 DEF One
      <4>2. QED
        BY <4>1
    <3>3. CASE r # Head(requestQueue)
      <4>1. Occurs(Line(s), Rpi!OfRequest(r)) = 1 /\ InWork(s, Rpi!OfRequest(r)) = 0 /\ One(s \in req[r].pending) = 1
        BY <1>4, <1>6, <1>7, <2>3, <3>1, <3>3 DEF One
      <4>2. QED
        BY <4>1
    <3>4. QED
      BY <3>2, <3>3
  <2>4. QED
    BY <2>1, <2>2, <2>3
<1>9. Rpi!Places(s, Rpi!OfRequest(r)) =
          Occurs(Line(s), Rpi!OfRequest(r)) + Occurs(streams[s].available, Rpi!OfRequest(r)) + InWork(s, Rpi!OfRequest(r))
  BY PlacesAre
<1>10. Occurs(Line(s), Rpi!OfRequest(r)) \in Nat /\ InWork(s, Rpi!OfRequest(r)) \in Nat
  BY <1>6, <1>7, OneIsNumber
<1>11. One(s \in req[r].pending) \in Nat
  BY OneIsNumber
<1>12. QED
  BY <1>5, <1>8, <1>9, <1>10, <1>11

LEMMA InPlace ==
    ASSUME RpiInv, PlaceInv
    PROVE  Rpi!BuffersInPlace
<1>1. SUFFICES ASSUME Rpi!isRunning, NEW s \in Rpi!Stream
               PROVE  /\ \A i \in DOMAIN Rpi!InternalBuffers(s) : Rpi!Places(s, Rpi!Internal(i)) = 1
                      /\ \A r \in Pair :
                             /\ ~Rpi!Contains(streams[s].available, Rpi!OfRequest(r))
                             /\ Rpi!External(s) /\ Rpi!Contains(requestQueue, r) =>
                                    Rpi!Places(s, Rpi!OfRequest(r)) = IF s \in req[r].pending THEN 1 ELSE 0
  BY Zenon DEF Rpi!BuffersInPlace
<1>2. PlaceTypes /\ StreamSound(s) /\ PendingSound
  BY <1>1 DEF PlaceInv
<1>3. ASSUME NEW i \in DOMAIN Rpi!InternalBuffers(s)
      PROVE  Rpi!Places(s, Rpi!Internal(i)) = 1
  <2>1. i \in Pool(s)
    BY InternalPool
  <2>2. Occurs(Line(s), Rpi!Internal(i)) + Occurs(streams[s].available, Rpi!Internal(i)) + InWork(s, Rpi!Internal(i)) = 1
    BY <1>2, <2>1, Zenon DEF StreamSound, Conserved
  <2>3. QED
    BY <1>2, <2>2, PlacesAre
<1>4. ASSUME NEW r \in Pair
      PROVE  /\ ~Rpi!Contains(streams[s].available, Rpi!OfRequest(r))
             /\ Rpi!External(s) /\ Rpi!Contains(requestQueue, r) =>
                    Rpi!Places(s, Rpi!OfRequest(r)) = IF s \in req[r].pending THEN 1 ELSE 0
  <2>1. ~Rpi!Contains(streams[s].available, Rpi!OfRequest(r))
    BY <1>2, NoneOfRequest DEF StreamSound
  <2>2. Rpi!Contains(requestQueue, r) => r \in ToSet(requestQueue)
    BY DEF Rpi!Contains, ToSet, RpiInv, RpiType
  <2>3. Rpi!External(s) /\ r \in ToSet(requestQueue) => Rpi!Places(s, Rpi!OfRequest(r)) = IF s \in req[r].pending THEN 1 ELSE 0
    BY <1>1, <1>2, RequestPlace, Zenon DEF One
  <2>4. QED
    BY <2>1, <2>2, <2>3
<1>5. QED
  BY <1>3, <1>4

\* RPi::Stream loses no buffer and hands none out twice: while the camera runs in a session
\* in which no device has refused a buffer, and whose start() found requestBuffers_ empty,
\* every internal buffer, and every buffer that a queued request still waits for, is in
\* exactly one of availableBuffers_, requestBuffers_, a device, a queue of the handler, the
\* ISP or the IPA, one that the request no longer waits for is in none, and returnBuffer()
\* never puts a buffer of a request among the internal ones.  It holds for any number of
\* requests, none of which waits for room in the device, of frames, timeouts, lost embedded
\* data, and of faults in earlier sessions (RpiBuffersInPlace).
THEOREM RpiBuffersStay ==
    ASSUME RpiConstants
    PROVE  Rpi!Spec => []RpiBuffersInPlace
<1>1. CleanInv => RpiBuffersInPlace
  <2>1. CASE session = "clean"
    BY <2>1, InPlace DEF RpiBuffersInPlace, CleanInv, SessionInv
  <2>2. CASE session # "clean"
    BY <2>2 DEF RpiBuffersInPlace, Rpi!BuffersInPlace
  <2>3. QED
    BY <2>1, <2>2
<1>2. QED
  BY <1>1, PlacesSound, PTL

(***************************************************************************)
(* A request in the queue has what it needs                                *)
(***************************************************************************)

\* What the pipeline works on while the IPA and the ISP do nothing.
LEMMA NothingInWork ==
    ASSUME NoWork, NEW b, b # Rpi!Null
    PROVE  JobImage(b) = 0 /\ JobEmbedded(b) = 0 /\ JobStats(b) = 0
<1>1. WorkOn(Rpi!Null, Rpi!Null, Rpi!Null)
  BY JobAtRest
<1>2. QED
  BY <1>1, NoneIs0 DEF WorkOn

LEMMA NoneFinished ==
    ASSUME NEW q, q = <<>>, NEW b
    PROVE  Occurs(Buffers(q), b) = 0
  BY BuffersOfNone, OccursEmpty

\* What is in line when nothing is before the stream's requests.
LEMMA LineOfRequests ==
    ASSUME PlaceTypes, NEW s \in Rpi!Stream, Ahead(s) = <<>>, streams[s].device = <<>>
    PROVE  Line(s) = streams[s].requests
<1>1. PICK q : q = streams[s].requests
  OBVIOUS
<1>2. q \in Seq(Tokens(s))
  BY <1>1, StreamQueues
<1>3. Cat(<<>>, q) = q
  BY <1>2, CatType
<1>4. QED
  BY <1>1, <1>3, Zenon DEF Line, Behind

\* Then the internal buffer is one that the pipeline works on: the requests wait for it ...
LEMMA InternalInWork ==
    ASSUME PlaceTypes, NEW s \in Rpi!Stream, StreamSound(s), Ahead(s) = <<>>, streams[s].device = <<>>,
           Rpi!External(s) => Turns(s) \in Seq(Pair) /\ Turns(s) # <<>>
    PROVE  InWork(s, Rpi!Internal(1)) = 1
<1>1. Line(s) = streams[s].requests
  BY LineOfRequests
<1>2. PICK q, b : q = streams[s].requests /\ b = Rpi!Internal(1)
  OBVIOUS
<1>3. q \in Seq(FromRequests(s) \cup {Rpi!Null})
  BY <1>2, StreamQueues
<1>4. b \notin FromRequests(s) \cup {Rpi!Null} /\ 1 \in Pool(s)
  BY <1>2, BufferSets
<1>5. Occurs(q, b) = 0
  <2>1. SUFFICES ASSUME Occurs(q, b) # 0
                 PROVE  FALSE
    OBVIOUS
  <2>2. \E i \in DOMAIN q : q[i] = b
    BY <1>3, <2>1, OccursSomewhere
  <2>3. QED
    BY <1>3, <1>4, <2>2
<1>6. streams[s].available = <<>>
  <2>1. CASE ~Rpi!External(s)
    BY <2>1 DEF StreamSound, PoolSound
  <2>2. CASE Rpi!External(s)
    <3>1. Len(Line(s)) = Len(Turns(s)) /\ AtHand(streams[s], Rpi!Internal(1), Rpi!Null)
      BY <2>2 DEF StreamSound, PoolSound, InOrder
    <3>2. Len(Turns(s)) # 0
      BY <2>2
    <3>3. q # <<>>
      BY <1>1, <1>2, <3>1, <3>2
    <3>4. QED
      BY <1>2, <3>1, <3>3, Zenon DEF AtHand
  <2>3. QED
    BY <2>1, <2>2
<1>7. Occurs(streams[s].available, b) = 0
  BY <1>6, OccursEmpty
<1>8. Occurs(Line(s), b) + Occurs(streams[s].available, b) + InWork(s, b) = 1
  BY <1>2, <1>4, Zenon DEF StreamSound, Conserved
<1>9. Occurs(Line(s), b) = 0
  BY <1>1, <1>2, <1>5, Zenon
<1>10. InWork(s, b) \in Nat
  BY WorkType
<1>11. InWork(s, b) = 1
  BY <1>7, <1>8, <1>9, <1>10
<1>12. QED
  BY <1>2, <1>11, Zenon

\* While a request waits for an image, one can come.
LEMMA ImageComes ==
    ASSUME RpiInv, PlaceInv, state = "Idle", requestQueue # <<>>, bayerQueue = <<>>,
           streams["image"].device = <<>>, done["image"] = <<>>
    PROVE  done["input"] # <<>>
<1>1. Rpi!isRunning /\ ~Taken("image") /\ "image" \in Rpi!Stream /\ Rpi!Internal(1) # Rpi!Null
  BY BufferNames DEF Rpi!isRunning, Taken, Rpi!Stream
<1>2. PlaceTypes /\ StreamSound("image") /\ NoWork
  BY <1>1 DEF PlaceInv, RpiInv, OneJob
<1>3. Ahead("image") = <<>>
  <2>1. Cat(<<>>, <<>>) = <<>>
    BY DEF Cat
  <2>2. QED
    BY <2>1, BuffersOfNone DEF Ahead
<1>4. Turns("image") \in Seq(Pair) /\ Turns("image") # <<>>
  <2>1. Turns("image") = requestQueue
    BY <1>1 DEF Turns
  <2>2. QED
    BY <2>1 DEF RpiInv, RpiType
<1>5. InWork("image", Rpi!Internal(1)) = 1
  BY <1>1, <1>2, <1>3, <1>4, InternalInWork
<1>6. JobImage(Rpi!Internal(1)) = 0
  BY <1>1, <1>2, NothingInWork
<1>7. InWork("image", Rpi!Internal(1)) = Occurs(Buffers(done["input"]), Rpi!Internal(1)) + JobImage(Rpi!Internal(1))
  BY DEF InWork
<1>8. ASSUME done["input"] = <<>>
      PROVE  FALSE
  <2>1. Occurs(Buffers(done["input"]), Rpi!Internal(1)) = 0
    BY <1>8, NoneFinished
  <2>2. QED
    BY <1>5, <1>6, <1>7, <2>1
<1>9. QED
  BY <1>8

\* While an image waits for embedded data, it can come.
LEMMA EmbeddedComes ==
    ASSUME RpiInv, PlaceInv, state = "Idle", embeddedQueue = <<>>
    PROVE  streams["embedded"].device # <<>> \/ done["embedded"] # <<>>
<1>1. SUFFICES ASSUME streams["embedded"].device = <<>>, done["embedded"] = <<>>
               PROVE  FALSE
  OBVIOUS
<1>2. Rpi!isRunning /\ "embedded" \in Rpi!Stream /\ Rpi!Internal(1) # Rpi!Null /\ ~Rpi!External("embedded")
  BY BufferNames, ExternalStreams DEF Rpi!isRunning, Rpi!Stream
<1>3. PlaceTypes /\ StreamSound("embedded") /\ NoWork
  BY <1>2 DEF PlaceInv, RpiInv, OneJob
<1>4. Ahead("embedded") = <<>>
  <2>1. Cat(<<>>, <<>>) = <<>>
    BY DEF Cat
  <2>2. QED
    BY <1>1, <2>1, BuffersOfNone DEF Ahead
<1>5. InWork("embedded", Rpi!Internal(1)) = 1
  BY <1>1, <1>2, <1>3, <1>4, InternalInWork
<1>6. JobEmbedded(Rpi!Internal(1)) = 0
  BY <1>2, <1>3, NothingInWork
<1>7. QED
  BY <1>5, <1>6 DEF InWork

\* The ISP has all the buffers it needs for the image that is in it.
LEMMA IspHasBuffers ==
    ASSUME RpiInv, PlaceInv, state = "Busy", InIsp, done["output"] = <<>>
    PROVE  input # <<>> /\ streams["output"].device # <<>> /\ streams["stats"].device # <<>>
<1>1. Rpi!isRunning /\ "output" \in Rpi!Stream /\ "stats" \in Rpi!Stream
  BY DEF Rpi!isRunning, Rpi!Stream
<1>2. Rpi!Internal(1) # Rpi!Null /\ ~Rpi!External("stats")
  BY BufferNames, ExternalStreams
<1>3. PlaceTypes /\ StreamSound("output") /\ StreamSound("stats")
  BY <1>1 DEF PlaceInv
<1>4. PICK x : input = <<x>> /\ calls = <<>> /\ events = <<>> /\ done["stats"] = <<>>
  BY DEF InIsp
<1>5. input # <<>>
  BY <1>4
<1>6. Ahead("output") = <<>> /\ Ahead("stats") = <<>>
  BY DEF Ahead
<1>7. streams["output"].device # <<>>
  <2>1. SUFFICES ASSUME streams["output"].device = <<>>
                 PROVE  FALSE
    OBVIOUS
  <2>2. ~Taken("output") /\ requestQueue # <<>>
    BY NotYet DEF Taken, RpiInv, StatesSound
  <2>3. Turns("output") \in Seq(Pair) /\ Turns("output") # <<>>
    <3>1. Turns("output") = requestQueue
      BY <2>2 DEF Turns
    <3>2. QED
      BY <2>2, <3>1 DEF RpiInv, RpiType
  <2>4. InWork("output", Rpi!Internal(1)) = 1
    BY <1>1, <1>3, <1>6, <2>1, <2>3, InternalInWork
  <2>5. InWork("output", Rpi!Internal(1)) = 0
    BY NoneFinished DEF InWork
  <2>6. QED
    BY <2>4, <2>5
<1>8. streams["stats"].device # <<>>
  <2>1. SUFFICES ASSUME streams["stats"].device = <<>>
                 PROVE  FALSE
    OBVIOUS
  <2>2. InWork("stats", Rpi!Internal(1)) = 1
    BY <1>1, <1>2, <1>3, <1>6, <2>1, InternalInWork
  <2>3. WorkOn(x, Rpi!Null, Rpi!Null)
    BY <1>4, JobInIsp
  <2>4. JobStats(Rpi!Internal(1)) = 0
    BY <1>2, <2>3, NoneIs0 DEF WorkOn
  <2>5. QED
    BY <2>2, <2>4 DEF InWork
<1>9. QED
  BY <1>5, <1>7, <1>8

\* The buffers that the first request still waits for have come back from the ISP.
LEMMA ResultsComeBack ==
    ASSUME RpiInv, PlaceInv, state = "IpaComplete", stack = <<>>
    PROVE  done["input"] # <<>> \/ done["output"] # <<>>
<1>1. Rpi!isRunning /\ stack \in Base /\ requestQueue # <<>>
  BY OtherMoves DEF Rpi!isRunning, RpiInv, StatesSound
<1>2. PlaceTypes /\ PendingSound /\ Exhausted /\ NoWork
  BY <1>1 DEF PlaceInv, RpiInv, OneJob
<1>3. PICK r : r = Head(requestQueue)
  OBVIOUS
<1>4. r \in Pair /\ r \in ToSet(requestQueue)
  <2>1. requestQueue \in Seq(Pair)
    BY DEF RpiInv, RpiType
  <2>2. QED
    BY <1>1, <1>3, <2>1 DEF ToSet
<1>5. PICK s : s \in req[r].pending
  BY <1>1, <1>2, <1>3 DEF Exhausted
<1>6. s \in {"image", "output"} /\ s \in Rpi!Stream /\ Rpi!External(s)
  BY <1>2, <1>4, <1>5 DEF PendingSound, Rpi!External, Rpi!Stream
<1>7. Taken(s)
  BY DEF Taken, IspRan
<1>8. Owned(s)
  BY <1>1, <1>6 DEF PlaceInv, StreamSound
<1>9. InWork(s, Rpi!OfRequest(r)) = 1
  <2>1. InWork(s, Rpi!OfRequest(r)) = One(Taken(s) /\ r = Head(requestQueue) /\ s \in req[r].pending)
    BY <1>4, <1>8, Zenon DEF Owned
  <2>2. QED
    BY <1>3, <1>5, <1>7, <2>1, OneIsNumber
<1>10. Rpi!OfRequest(r) # Rpi!Null
  BY BufferNames
<1>11. JobImage(Rpi!OfRequest(r)) = 0
  BY <1>2, <1>10, NothingInWork
<1>12. ASSUME done["input"] = <<>>, done["output"] = <<>>
       PROVE  FALSE
  <2>1. Occurs(Buffers(done["input"]), Rpi!OfRequest(r)) = 0 /\ Occurs(Buffers(done["output"]), Rpi!OfRequest(r)) = 0
    BY <1>12, NoneFinished
  <2>2. InWork(s, Rpi!OfRequest(r)) = 0
    BY <1>6, <1>11, <2>1 DEF InWork
  <2>3. QED
    BY <1>9, <2>2
<1>13. QED
  BY <1>12

LEMMA NeverStalls ==
    ASSUME RpiInv, PlaceInv
    PROVE  Rpi!NoStall
<1>1. SUFFICES ASSUME Rpi!isRunning, stack = <<>>, requestQueue # <<>>
               PROVE  IF state = "Idle"
                      THEN IF bayerQueue = <<>>
                           THEN streams["image"].device # <<>> \/ done["image"] # <<>> \/ done["input"] # <<>>
                           ELSE /\ config.embedded /\ embeddedQueue = <<>>
                                /\ streams["embedded"].device # <<>> \/ done["embedded"] # <<>>
                      ELSE \/ calls # <<>> \/ events # <<>>
                           \/ \E s \in {"input", "output", "stats"} : done[s] # <<>>
                           \/ input # <<>> /\ \A s \in {"output", "stats"} : streams[s].device # <<>>
  BY DEF Rpi!NoStall, Rpi!Loop
<1>2. stack \in Base
  BY <1>1, OtherMoves
<1>3. CASE state = "Idle" /\ bayerQueue = <<>>
  BY <1>1, <1>3, ImageComes
<1>4. CASE state = "Idle" /\ bayerQueue # <<>>
  <2>1. config.embedded /\ embeddedQueue = <<>>
    BY <1>1, <1>2, <1>4 DEF PlaceInv, Exhausted
  <2>2. QED
    BY <1>4, <2>1, EmbeddedComes
<1>5. CASE state = "Busy"
  <2>1. Work
    BY <1>1, <1>5 DEF RpiInv, OneJob
  <2>2. calls # <<>> \/ events # <<>> \/ done["stats"] # <<>> \/ InIsp
    <3>1. \A x, y : <<x>> # <<>> /\ <<x, y>> # <<>>
      OBVIOUS
    <3>2. QED
      BY <2>1, <3>1, Zenon DEF Work, CallIs, EventIs, Answered, FromIsp
  <2>3. InIsp => \/ done["output"] # <<>>
                 \/ input # <<>> /\ streams["output"].device # <<>> /\ streams["stats"].device # <<>>
    BY <1>5, IspHasBuffers
  <2>4. QED
    BY <1>5, <2>2, <2>3
<1>6. CASE state = "IpaComplete"
  BY <1>1, <1>6, ResultsComeBack
<1>7. state \in {"Idle", "Busy", "IpaComplete"}
  BY <1>1 DEF Rpi!isRunning, RpiInv, RpiType, RpiStates
<1>8. QED
  BY <1>3, <1>4, <1>5, <1>6, <1>7

\* The state machine never waits for what cannot come: while the camera runs in such a
\* session and a request is in requestQueue_, and no function of the handler is in
\* progress, the image or the embedded data that tryRunPipeline() waits for can come, the
\* IPA or the ISP is at work and has all its buffers, or a buffer that the first request
\* still waits for is ready.  It holds for any number of requests, none of which waits for
\* room in the device, of frames, timeouts, lost embedded data, and of faults in earlier
\* sessions (RpiNoStall).
THEOREM RpiNeverStalls ==
    ASSUME RpiConstants
    PROVE  Rpi!Spec => []RpiNoStall
<1>1. CleanInv => RpiNoStall
  <2>1. CASE session = "clean"
    BY <2>1, NeverStalls DEF RpiNoStall, CleanInv, SessionInv
  <2>2. CASE session # "clean"
    BY <2>2 DEF RpiNoStall, Rpi!NoStall
  <2>3. QED
    BY <2>1, <2>2
<1>2. QED
  BY <1>1, PlacesSound, PTL

=============================================================================
