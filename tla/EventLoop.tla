------------------------------ MODULE EventLoop ------------------------------
(***************************************************************************)
(* Threads with an event loop, the messages posted to the objects that live *)
(* in them, and blocking invocations: Thread, Object, Message, Semaphore    *)
(* and the interrupt of EventDispatcherPoll.                                *)
(*                                                                          *)
(* Posters are threads without a loop of their own.  Each event loop thread *)
(* has one controller, which starts it, asks it to exit and waits for it.   *)
(* Notifiers and timers are left out: a loop has nothing but messages to    *)
(* wake it up, so that a lost wake-up is a loop that sleeps for ever.  Only *)
(* processEvents() called from a handler may return for something else.     *)
(***************************************************************************)
EXTENDS Integers, Sequences, FiniteSets, SequencesExt

CONSTANTS Thread,        \* threads that run an event loop
          Object,        \* objects
          Home,          \* thread that each object is bound to at first
          Poster,        \* threads that post messages
          NoPoster,
          MaxMessages,   \* bound: messages posted
          MaxRecursion,  \* bound: nested dispatchMessages() calls
          MaxStarts,     \* bound: starts of each thread
          MaxExits       \* bound: threads with exit_ set at the same time

ASSUME LoopAssumption ==
    /\ Thread # {}
    /\ Home \in [Object -> Thread]
    /\ NoPoster \notin Poster
    /\ MaxMessages \in Nat
    /\ MaxRecursion \in Nat \ {0}
    /\ MaxStarts \in Nat
    /\ MaxExits \in Nat

Type == {"InvokeMessage", "DeferredDelete"}

\* A message; "waiter" is the poster blocked on its semaphore, "id" the order of posting.
Message == [id : 1 .. MaxMessages, type : Type, receiver : Object, waiter : Poster \cup {NoPoster}]

NoMessage == [id |-> 0]
AnyObject == "any"

\* A call of dispatchMessages() in progress: its iterator, its filters, and the
\* message it is delivering.  In a call of processEvents() from a handler it is
\* followed by poll(), which the type "Poll" stands for.
Frame == [pos : Nat, type : Type \cup {"None", "Poll"}, receiver : Object \cup {AnyObject},
          message : Message \cup {NoMessage}]

VARIABLES pc,          \* where each thread is
          started,     \* bound: starts so far
          running,     \* ThreadData::running_
          joinable,    \* Thread::thread_ has not been joined
          exit,        \* ThreadData::exit_
          dispatcher,  \* ThreadData::dispatcher_ # nullptr
          eventfd,     \* EventDispatcherPoll::eventfd_ is readable
          list,        \* MessageQueue::list_, with NoMessage for a null entry
          frames,      \* calls of dispatchMessages(), outermost first
          home,        \* Object::thread_
          alive,       \* objects that exist
          pending,     \* Object::pendingMessages_
          poster,      \* what each poster is doing
          control,     \* what each controller is doing
          posted       \* number of messages posted

loopVars == <<pc, frames>>
threadVars == <<started, running, joinable, exit, dispatcher>>
queueVars == <<list, pending, posted>>
objectVars == <<home, alive>>
vars == <<loopVars, threadVars, eventfd, queueVars, objectVars, poster, control>>

TypeOK ==
    /\ pc \in [Thread -> {"stopped", "exec", "loop", "dispatch", "poll", "finish"}]
    /\ started \in [Thread -> 0 .. MaxStarts]
    /\ running \in [Thread -> BOOLEAN]
    /\ joinable \in [Thread -> BOOLEAN]
    /\ exit \in [Thread -> BOOLEAN]
    /\ dispatcher \in [Thread -> BOOLEAN]
    /\ eventfd \in [Thread -> BOOLEAN]
    /\ list \in [Thread -> Seq(Message \cup {NoMessage})]
    /\ frames \in [Thread -> Seq(Frame)]
    /\ \A t \in Thread : Len(frames[t]) <= MaxRecursion
    /\ home \in [Object -> Thread]
    /\ alive \subseteq Object
    /\ pending \in [Object -> Nat]
    /\ poster \in [Poster -> [pc : {"idle", "interrupt", "acquire"}, thread : Thread,
                              blocking : BOOLEAN, available : 0 .. 1]]
    /\ control \in [Thread -> {"idle", "interrupt", "wait"}]
    /\ posted \in 0 .. MaxMessages

Pending(l) == {i \in 1 .. Len(l) : l[i] # NoMessage}
For(l, o) == {i \in Pending(l) : l[i].receiver = o}

\* The entries of l at the given positions, in their order.
Entries(l, positions) ==
    LET first[n \in 0 .. Len(l)] == IF n = 0 THEN <<>>
                                    ELSE IF n \in positions THEN Append(first[n - 1], l[n])
                                    ELSE first[n - 1]
    IN  first[Len(l)]

\* The message handlers in progress in thread t, innermost last.
Handling(t) == {frames[t][i].message : i \in 1 .. Len(frames[t])} \ {NoMessage}
InHandler(t) == frames[t] # <<>> /\ Last(frames[t]).message # NoMessage

(***************************************************************************)
(* Posting.                                                                *)
(***************************************************************************)

\* Under the lock of the message queue.  The object does not change thread
\* while others post to it: objects are moved before they are shared.
push(o, type, w) ==
    /\ posted < MaxMessages
    /\ posted' = posted + 1
    /\ list' = [list EXCEPT ![home[o]] =
                   Append(@, [id |-> posted + 1, type |-> type, receiver |-> o, waiter |-> w])]
    /\ pending' = [pending EXCEPT ![o] = @ + 1]

\* A poster has a reference to the objects it uses, so deleteLater() comes last, once
\* or more than once.
Deleting(o) ==
    \E t \in Thread : \/ \E i \in For(list[t], o) : list[t][i].type = "DeferredDelete"
                      \/ \E m \in Handling(t) : m.receiver = o /\ m.type = "DeferredDelete"
InUse(o) ==
    \E t \in Thread : \/ \E i \in For(list[t], o) : list[t][i].waiter # NoPoster
                      \/ \E m \in Handling(t) : m.receiver = o /\ m.waiter # NoPoster

\* A poster between two calls; its thread means nothing.
IdlePoster ==
    [pc |-> "idle", thread |-> CHOOSE t \in Thread : TRUE, blocking |-> FALSE, available |-> 0]

\* postMessage() of a queued or blocking invocation, or of deleteLater().
PostMessage(p, o, type, blocking) ==
    /\ poster[p].pc = "idle"
    /\ o \in alive
    /\ IF type = "DeferredDelete" THEN ~blocking /\ ~InUse(o) ELSE ~Deleting(o)
    /\ push(o, type, IF blocking THEN p ELSE NoPoster)
    /\ poster' = [poster EXCEPT ![p] = [pc |-> "interrupt", thread |-> home[o],
                                        blocking |-> blocking, available |-> 0]]
    /\ UNCHANGED <<loopVars, threadVars, eventfd, objectVars, control>>

\* The second half of postMessage(), after the lock is released: wake up the
\* thread if it has a dispatcher.
PostMessageInterrupt(p) ==
    /\ poster[p].pc = "interrupt"
    /\ eventfd' = [eventfd EXCEPT ![poster[p].thread] = @ \/ dispatcher[poster[p].thread]]
    /\ poster' = [poster EXCEPT ![p] = IF @.blocking THEN [@ EXCEPT !.pc = "acquire"] ELSE IdlePoster]
    /\ UNCHANGED <<loopVars, threadVars, queueVars, objectVars, control>>

\* Semaphore::acquire() of a blocking invocation.
SemaphoreAcquire(p) ==
    /\ poster[p].pc = "acquire"
    /\ poster[p].available = 1
    /\ poster' = [poster EXCEPT ![p] = IdlePoster]
    /\ UNCHANGED <<loopVars, threadVars, eventfd, queueVars, objectVars, control>>

(***************************************************************************)
(* dispatchMessages().                                                     *)
(***************************************************************************)

Call(type, receiver) == [pos |-> 0, type |-> type, receiver |-> receiver, message |-> NoMessage]

\* Mutant: the type is not compared.
MatchingAnyType(l, f) ==
    {i \in Pending(l) : /\ i > f.pos
                        /\ f.type # "Poll"
                        /\ f.receiver \in {AnyObject, l[i].receiver}}

\* Entries behind the iterator that pass the filters of frame f.
Matching(l, f) ==
    {i \in Pending(l) : /\ i > f.pos
                        /\ f.type \in {"None", l[i].type}
                        /\ f.receiver \in {AnyObject, l[i].receiver}}

\* Mutant: the message is copied and its entry stays.
DispatchMessageCopies(t) ==
    /\ frames[t] # <<>> /\ ~InHandler(t)
    /\ LET f == Last(frames[t]) IN
       /\ Matching(list[t], f) # {}
       /\ LET i == Min(Matching(list[t], f)) IN
          /\ frames' = [frames EXCEPT ![t][Len(frames[t])] = [f EXCEPT !.pos = i, !.message = list[t][i]]]
          /\ pending' = [pending EXCEPT ![list[t][i].receiver] = @ - 1]
    /\ UNCHANGED <<pc, threadVars, eventfd, list, posted, objectVars, poster, control>>

\* Take the next message, leave a null entry, and call the receiver unlocked.
DispatchMessage(t) ==
    /\ frames[t] # <<>> /\ ~InHandler(t)
    /\ LET f == Last(frames[t]) IN
       /\ Matching(list[t], f) # {}
       /\ LET i == Min(Matching(list[t], f)) IN
          /\ frames' = [frames EXCEPT ![t][Len(frames[t])] = [f EXCEPT !.pos = i, !.message = list[t][i]]]
          /\ list' = [list EXCEPT ![t][i] = NoMessage]
          /\ pending' = [pending EXCEPT ![list[t][i].receiver] = @ - 1]
    /\ UNCHANGED <<pc, threadVars, eventfd, posted, objectVars, poster, control>>

\* The innermost call is that of a processEvents() called from a handler.
InProcessEvents(t) == Len(frames[t]) > 1 /\ Last(frames[t]).type \in {"None", "Poll"}

\* Mutant: nested calls erase the null entries too.
DispatchReturnErases(t) ==
    /\ frames[t] # <<>> /\ ~InHandler(t) /\ ~InProcessEvents(t)
    /\ Matching(list[t], Last(frames[t])) = {}
    /\ frames' = [frames EXCEPT ![t] = Front(@)]
    /\ list' = [list EXCEPT ![t] = Entries(@, Pending(@))]
    /\ pc' = IF Len(frames[t]) > 1 THEN pc
             ELSE [pc EXCEPT ![t] = IF @ = "dispatch" THEN "poll" ELSE "stopped"]
    /\ running' = [running EXCEPT ![t] = @ /\ pc'[t] # "stopped"]
    /\ UNCHANGED <<started, joinable, exit, dispatcher, eventfd, pending, posted,
                   objectVars, poster, control>>

\* The end of the list.  Only the outermost call erases the null entries, and
\* returns to processEvents() or to finishThread().
DispatchReturn(t) ==
    /\ frames[t] # <<>> /\ ~InHandler(t) /\ ~InProcessEvents(t)
    /\ Matching(list[t], Last(frames[t])) = {}
    /\ frames' = [frames EXCEPT ![t] = Front(@)]
    /\ IF Len(frames[t]) > 1
       THEN UNCHANGED <<list, pc, running>>
       ELSE /\ list' = [list EXCEPT ![t] = Entries(@, Pending(@))]
            /\ pc' = [pc EXCEPT ![t] = IF @ = "dispatch" THEN "poll" ELSE "stopped"]
            /\ running' = [running EXCEPT ![t] = @ /\ pc'[t] # "stopped"]
    /\ UNCHANGED <<started, joinable, exit, dispatcher, eventfd, pending, posted,
                   objectVars, poster, control>>

\* processEvents() called from a handler goes on to poll() ...
DispatchThenPoll(t) ==
    /\ InProcessEvents(t) /\ ~InHandler(t)
    /\ Last(frames[t]).type = "None"
    /\ Matching(list[t], Last(frames[t])) = {}
    /\ frames' = [frames EXCEPT ![t][Len(frames[t])].type = "Poll"]
    /\ UNCHANGED <<pc, threadVars, eventfd, queueVars, objectVars, poster, control>>

\* ... which an interrupt, a notifier or a timer ends.  An interrupt is consumed here,
\* although the message it announces is left to the calls further out.
NestedPoll(t) ==
    /\ InProcessEvents(t)
    /\ Last(frames[t]).type = "Poll"
    /\ frames' = [frames EXCEPT ![t] = Front(@)]
    /\ eventfd' = [eventfd EXCEPT ![t] = FALSE]
    /\ UNCHANGED <<pc, threadVars, queueVars, objectVars, poster, control>>

(***************************************************************************)
(* Object: what a message handler does.                                    *)
(***************************************************************************)

\* The handler ends.
Return(t) == frames' = [frames EXCEPT ![t][Len(frames[t])].message = NoMessage]

\* Messages of o become null entries.
Without(l, o) == [i \in 1 .. Len(l) |-> IF i \in For(l, o) THEN NoMessage ELSE l[i]]

\* ~Object() and removeMessages(): the messages of the object become null entries.
deleteObject(o) ==
    /\ alive' = alive \ {o}
    /\ list' = [list EXCEPT ![home[o]] = Without(@, o)]
    /\ pending' = [pending EXCEPT ![o] = 0]

\* message(InvokeMessage): the method has been called, release the caller.
InvokeReturn(t) ==
    /\ InHandler(t)
    /\ Last(frames[t]).message.type = "InvokeMessage"
    /\ Return(t)
    /\ poster' = LET w == Last(frames[t]).message.waiter
                 IN  IF w = NoPoster THEN poster ELSE [poster EXCEPT ![w].available = @ + 1]
    /\ UNCHANGED <<pc, threadVars, eventfd, queueVars, objectVars, control>>

\* message(DeferredDelete)
DeferredDelete(t) ==
    /\ InHandler(t)
    /\ Last(frames[t]).message.type = "DeferredDelete"
    /\ Return(t)
    /\ deleteObject(Last(frames[t]).message.receiver)
    /\ UNCHANGED <<pc, threadVars, eventfd, posted, home, poster, control>>

InInvoke(t) == InHandler(t) /\ Last(frames[t]).message.type = "InvokeMessage"

\* An invoked method posts a message to an object of its own thread.
MethodPosts(t, o) ==
    /\ InInvoke(t)
    /\ o \in alive /\ home[o] = t /\ ~Deleting(o)
    /\ push(o, "InvokeMessage", NoPoster)
    /\ eventfd' = [eventfd EXCEPT ![t] = TRUE]
    /\ UNCHANGED <<loopVars, threadVars, objectVars, poster, control>>

\* An invoked method calls dispatchMessages() for its own object, as
\* SoftwareIsp::stop() and PipelineHandlerVirtual::stopDevice() do.
MethodDispatches(t) ==
    /\ InInvoke(t)
    /\ Len(frames[t]) < MaxRecursion
    /\ frames' = [frames EXCEPT ![t] =
                     Append(@, Call("InvokeMessage", Last(@).message.receiver))]
    /\ UNCHANGED <<pc, threadVars, eventfd, queueVars, objectVars, poster, control>>

\* An invoked method calls processEvents(), as IPCPipeUnixSocket::call() does until the
\* answer comes: all messages are dispatched.
MethodProcessesEvents(t) ==
    /\ InInvoke(t)
    /\ Len(frames[t]) < MaxRecursion
    /\ frames' = [frames EXCEPT ![t] = Append(@, Call("None", AnyObject))]
    /\ UNCHANGED <<pc, threadVars, eventfd, queueVars, objectVars, poster, control>>

\* An invoked method deletes another object of its thread that no one uses.
MethodDeletes(t, o) ==
    /\ InInvoke(t)
    /\ o \in alive /\ home[o] = t /\ ~InUse(o)
    /\ \A m \in Handling(t) : m.receiver # o
    /\ deleteObject(o)
    /\ UNCHANGED <<loopVars, threadVars, eventfd, posted, home, poster, control>>

\* Mutant: the messages are moved and the target is not woken up.
MethodMovesSilently(t, o, u) ==
    /\ InInvoke(t)
    /\ o \in alive /\ home[o] = t /\ u # t
    /\ \A m \in Handling(t) : m.receiver # o
    /\ list' = [list EXCEPT ![u] = @ \o Entries(list[t], For(list[t], o)), ![t] = Without(@, o)]
    /\ home' = [home EXCEPT ![o] = u]
    /\ UNCHANGED <<loopVars, threadVars, eventfd, pending, posted, alive, poster, control>>

\* moveToThread() of an object, with its messages, under the locks of both queues.
MethodMoves(t, o, u) ==
    /\ InInvoke(t)
    /\ o \in alive /\ home[o] = t /\ u # t
    /\ \A m \in Handling(t) : m.receiver # o
    /\ list' = [list EXCEPT ![u] = @ \o Entries(list[t], For(list[t], o)), ![t] = Without(@, o)]
    /\ home' = [home EXCEPT ![o] = u]
    /\ eventfd' = [eventfd EXCEPT ![u] = @ \/ (For(list[t], o) # {} /\ dispatcher[u])]
    /\ UNCHANGED <<loopVars, threadVars, pending, posted, alive, poster, control>>

(***************************************************************************)
(* Thread: the loop.                                                       *)
(***************************************************************************)

\* exec() creates the dispatcher.
Exec(t) ==
    /\ pc[t] = "exec"
    /\ dispatcher' = [dispatcher EXCEPT ![t] = TRUE]
    /\ pc' = [pc EXCEPT ![t] = "loop"]
    /\ UNCHANGED <<frames, started, running, joinable, exit, eventfd, queueVars,
                   objectVars, poster, control>>

\* processEvents(), or finishThread() when exit_ is set.
LoopCheck(t) ==
    /\ pc[t] = "loop"
    /\ pc' = [pc EXCEPT ![t] = IF exit[t] THEN "finish" ELSE "dispatch"]
    /\ frames' = [frames EXCEPT ![t] =
                     <<Call(IF exit[t] THEN "DeferredDelete" ELSE "None", AnyObject)>>]
    /\ UNCHANGED <<threadVars, eventfd, queueVars, objectVars, poster, control>>

\* poll() returns when the eventfd is readable, and processInterrupt() reads it.
Poll(t) ==
    /\ pc[t] = "poll" /\ frames[t] = <<>>
    /\ eventfd[t]
    /\ eventfd' = [eventfd EXCEPT ![t] = FALSE]
    /\ pc' = [pc EXCEPT ![t] = "loop"]
    /\ UNCHANGED <<frames, threadVars, queueVars, objectVars, poster, control>>

(***************************************************************************)
(* The controller.                                                         *)
(***************************************************************************)

Start(t) ==
    /\ control[t] = "idle"
    /\ ~running[t] /\ ~joinable[t]
    /\ started[t] < MaxStarts
    /\ started' = [started EXCEPT ![t] = @ + 1]
    /\ running' = [running EXCEPT ![t] = TRUE]
    /\ joinable' = [joinable EXCEPT ![t] = TRUE]
    /\ exit' = [exit EXCEPT ![t] = FALSE]
    /\ pc' = [pc EXCEPT ![t] = "exec"]
    /\ UNCHANGED <<frames, dispatcher, eventfd, queueVars, objectVars, poster, control>>

\* exit(): the flag ...
Exit(t) ==
    /\ control[t] = "idle"
    /\ joinable[t]
    /\ Cardinality({u \in Thread : exit[u]}) < MaxExits
    /\ exit' = [exit EXCEPT ![t] = TRUE]
    /\ control' = [control EXCEPT ![t] = "interrupt"]
    /\ UNCHANGED <<loopVars, started, running, joinable, dispatcher, eventfd, queueVars, objectVars,
                   poster>>

\* ... and the interrupt, if there is a dispatcher.  wait() follows.
ExitInterrupt(t) ==
    /\ control[t] = "interrupt"
    /\ eventfd' = [eventfd EXCEPT ![t] = @ \/ dispatcher[t]]
    /\ control' = [control EXCEPT ![t] = "wait"]
    /\ UNCHANGED <<loopVars, threadVars, queueVars, objectVars, poster>>

\* wait(), with or without a duration: the thread is joined in any case.
Wait(t) ==
    /\ control[t] = "wait"
    /\ ~running[t]
    /\ joinable' = [joinable EXCEPT ![t] = FALSE]
    /\ control' = [control EXCEPT ![t] = "idle"]
    /\ UNCHANGED <<loopVars, started, running, exit, dispatcher, eventfd, queueVars,
                   objectVars, poster>>

-----------------------------------------------------------------------------

Init ==
    /\ pc = [t \in Thread |-> "stopped"]
    /\ started = [t \in Thread |-> 0]
    /\ running = [t \in Thread |-> FALSE]
    /\ joinable = [t \in Thread |-> FALSE]
    /\ exit = [t \in Thread |-> FALSE]
    /\ dispatcher = [t \in Thread |-> FALSE]
    /\ eventfd = [t \in Thread |-> FALSE]
    /\ list = [t \in Thread |-> <<>>]
    /\ frames = [t \in Thread |-> <<>>]
    /\ home = Home
    /\ alive = Object
    /\ pending = [o \in Object |-> 0]
    /\ poster = [p \in Poster |-> IdlePoster]
    /\ control = [t \in Thread |-> "idle"]
    /\ posted = 0

Posting ==
    \E p \in Poster :
        \/ \E o \in Object, type \in Type, blocking \in BOOLEAN : PostMessage(p, o, type, blocking)
        \/ PostMessageInterrupt(p)
        \/ SemaphoreAcquire(p)

Method(t) ==
    \/ InvokeReturn(t) \/ DeferredDelete(t) \/ MethodDispatches(t) \/ MethodProcessesEvents(t)
    \/ \E o \in Object : MethodPosts(t, o) \/ MethodDeletes(t, o) \/ \E u \in Thread : MethodMoves(t, o, u)

Loop(t) ==
    \/ Exec(t) \/ LoopCheck(t) \/ DispatchMessage(t) \/ DispatchReturn(t) \/ Poll(t)
    \/ DispatchThenPoll(t) \/ NestedPoll(t)

Controller(t) == Start(t) \/ Exit(t) \/ ExitInterrupt(t) \/ Wait(t)

Next == Posting \/ \E t \in Thread : Method(t) \/ Loop(t) \/ Controller(t)

Spec == Init /\ [][Next]_vars

-----------------------------------------------------------------------------

\* A thread in poll(), called from its loop or from a handler.
Asleep(t) == IF frames[t] = <<>> THEN pc[t] = "poll" ELSE Last(frames[t]).type = "Poll"

\* No lost wake-up: when a thread sleeps over a message, in its loop or in a handler that
\* waits in processEvents(), a thread that posted one is still about to interrupt it.
NoLostWakeup ==
    \A t \in Thread : Asleep(t) /\ Pending(list[t]) # {} =>
        eventfd[t] \/ \E p \in Poster : poster[p].pc = "interrupt" /\ poster[p].thread = t

\* Messages and objects agree: every message in a queue is for an object that
\* lives and is bound to the thread, as dispatchMessages() asserts, and the object
\* counts its messages, so that ~Object() finds all of them.
MessagesCounted ==
    /\ \A t \in Thread : \A i \in Pending(list[t]) :
           list[t][i].receiver \in alive /\ home[list[t][i].receiver] = t
    /\ \A o \in Object : pending[o] = Cardinality(For(list[home[o]], o))

\* deleteLater() waits until "control returns to the event loop": while one of its handlers
\* is in progress an object is deleted only if that handler, or one nested in it, calls
\* processEvents().  A dispatchMessages() for invocations, which SoftwareIsp::stop() relies
\* on, never deletes it, however deep the calls are nested.
NotDeletedInHandler ==
    [][\A t \in Thread : \A k \in 1 .. Len(frames[t]) :
           LET m == frames[t][k].message
           IN  /\ m # NoMessage /\ m.type = "InvokeMessage"
               /\ m.receiver \in alive /\ m.receiver \notin alive'
               => \E n \in k + 1 .. Len(frames[t]) : frames[t][n].type = "None"
      ]_vars

\* Where the message that a poster waits for is: its thread and its position.
QueuedFor(p) == UNION {{t} \X {i \in Pending(list[t]) : list[t][i].waiter = p} : t \in Thread}
HandledFor(p) ==
    UNION {{t} \X {i \in 1 .. Len(frames[t]) :
                     frames[t][i].message # NoMessage /\ frames[t][i].message.waiter = p} : t \in Thread}

\* A blocked caller is never forgotten: its message is queued or being handled,
\* or the semaphore has been released for it, once.
CallerAccounted ==
    \A p \in Poster :
        Cardinality(QueuedFor(p)) + Cardinality(HandledFor(p)) + poster[p].available =
            IF poster[p].pc # "idle" /\ poster[p].blocking THEN 1 ELSE 0

\* MessagesAccounted: no message is lost or doubled when objects are deleted or move to
\* another thread, and no caller that waits for one is.
MessagesAccounted == MessagesCounted /\ CallerAccounted

\* dispatchMessages() "guarantees delivery of messages in the order they have been
\* posted in all cases": nested calls and moves to another thread included, a
\* message is delivered before those posted later to the same object, but for
\* deletions that finishThread() puts first.
DeliveredInOrder ==
    [][\A t \in Thread : frames[t] # <<>> /\ frames'[t] # <<>> =>
           LET m == Last(frames'[t]).message
           IN  m # NoMessage /\ m \notin Handling(t) =>
                   \A i \in For(list[t], m.receiver) : m.type = list[t][i].type => m.id <= list[t][i].id
      ]_vars
=============================================================================
