----------------------------- MODULE MCServices -----------------------------
(***************************************************************************)
(* The services under the pipeline handlers, for TLC: the V4L2 video device *)
(* with its buffer cache, the timers and the notifiers of the event         *)
(* dispatcher, the calls of the IPC pipe, and the socket they are sent      *)
(* through.  A behaviour is one of a single component: `part` says which,   *)
(* the others stay as they are initially.                                   *)
(***************************************************************************)
EXTENDS V4L2VideoDevice, TLC

CONSTANTS Timer, MaxTime, EarlierRestart,
          n1, n2, n3, n4, NumFds, Notifier, NoNotifier, FdOf, TypeOf, MaxRounds,
          MaxCalls, MaxEvents, MaxNesting, CookieLimit,
          MaxMessages, Capacity

VARIABLES part,
          \* TimerList
          clock, deadline, running, timers, expiring, now,
          \* EventNotifiers
          enabled, notifiers, keys, processing, rounds, ready, invalid,
          \* IpcPipe
          seq, sent, callData, emitted, toWorker, working, events, fromWorker,
          \* IpcSocket
          count, half, channel, headerReceived, header, reading, received, whole, torn, dead

\* n1 and n2 share a descriptor; n3 and n4 use the same events of another one, one
\* after the other.
FdMap == n1 :> 1 @@ n2 :> 1 @@ n3 :> 2 @@ n4 :> 2
TypeMap == n1 :> "Read" @@ n2 :> "Write" @@ n3 :> "Read" @@ n4 :> "Read"

Timers == INSTANCE TimerList WITH processing <- expiring
Notifiers == INSTANCE EventNotifiers WITH MaxNesting <- MaxRounds
Pipe == INSTANCE IpcPipe
Socket == INSTANCE IpcSocket WITH sending <- half, notifier <- reading

timerVars == <<clock, deadline, running, timers, expiring, now>>
notifierVars == <<enabled, notifiers, keys, processing, rounds, ready, invalid>>
pipeVars == <<seq, sent, callData, emitted, toWorker, working, events, fromWorker>>
socketVars == <<count, half, channel, headerReceived, header, reading, received, whole, torn, dead>>
allVars == <<part, vars, timerVars, notifierVars, pipeVars, socketVars>>

AllInit ==
    /\ part \in {"device", "timers", "notifiers", "pipe", "socket"}
    /\ Init /\ Timers!Init /\ Notifiers!Init /\ Pipe!Init /\ Socket!Init

AllNext ==
    /\ UNCHANGED part
    /\ \/ part = "device" /\ Next /\ UNCHANGED <<timerVars, notifierVars, pipeVars, socketVars>>
       \/ part = "timers" /\ Timers!Next /\ UNCHANGED <<vars, notifierVars, pipeVars, socketVars>>
       \/ part = "notifiers" /\ Notifiers!Next /\ UNCHANGED <<vars, timerVars, pipeVars, socketVars>>
       \/ part = "pipe" /\ Pipe!Next /\ UNCHANGED <<vars, timerVars, notifierVars, socketVars>>
       \/ part = "socket" /\ Socket!Next /\ UNCHANGED <<vars, timerVars, notifierVars, pipeVars>>

\* The fairness of each component's FairSpec.
AllSpec ==
    /\ AllInit /\ [][AllNext]_allVars
    /\ WF_vars(part = "device" /\ Capture)
    /\ WF_vars(part = "device" /\ bufferAvailable)
    /\ WF_vars(part = "device" /\ (SendBack \/ streamOffDone))
    /\ WF_timerVars(part = "timers" /\ Timers!Tick)
    /\ WF_timerVars(part = "timers" /\ Timers!ProcessTimers)
    /\ WF_timerVars(part = "timers" /\ Timers!Timeout)
    /\ WF_timerVars(part = "timers" /\ Timers!ProcessTimersReturn)
    /\ WF_notifierVars(part = "notifiers" /\ Notifiers!Poll)
    /\ WF_notifierVars(part = "notifiers" /\ Notifiers!ProcessEvent)
    /\ WF_notifierVars(part = "notifiers" /\ Notifiers!EndEntry)
    /\ WF_notifierVars(part = "notifiers" /\ Notifiers!ProcessReturn)
    /\ WF_pipeVars(part = "pipe" /\ Pipe!readyRead)
    /\ WF_pipeVars(part = "pipe" /\ Pipe!CallReturn)
    /\ WF_pipeVars(part = "pipe" /\ Pipe!CallTimedOut)
    /\ \A i \in 1 .. MaxNesting : WF_pipeVars(part = "pipe" /\ Pipe!TimeoutExpires(i))
    /\ WF_socketVars(part = "socket" /\ Socket!DataNotifier)
    /\ WF_socketVars(part = "socket" /\ Socket!Receive)

-----------------------------------------------------------------------------

\* CacheTracksQueue, RecordsAgree, ReturnsOnce and EveryBufferReturns are those of
\* V4L2VideoDevice.

\* TimersServed: timers expire, on time (TimerList!TimersServed).
TimersServed == Timers!TimersServed

\* EntryExists: the entry that processNotifiers() works on is not erased under it
\* (EventNotifiers!EntryExists).
EntryExists == Notifiers!EntryExists

\* LookupFinds: the entry of a polled descriptor is found (EventNotifiers!LookupFinds).
LookupFinds == Notifiers!LookupFinds

\* EventsServed: an event that stays is reported to the notifier enabled for it, and
\* to no other (EventNotifiers!EventsServed).
EventsServed == Notifiers!EventsServed

\* RepliesMatch: nested calls through the pipe get their own answers
\* (IpcPipe!RepliesMatch).
RepliesMatch == Pipe!RepliesMatch

\* CallsServed: a synchronous call returns whatever the worker does, after the events
\* that precede its answer (IpcPipe!CallsServed).
CallsServed == Pipe!CallsServed

\* MessagesWhole: the socket pairs each payload with its own header
\* (IpcSocket!MessagesWhole).
MessagesWhole == Socket!MessagesWhole

\* MessagesArrive: the socket delivers what it has accepted
\* (IpcSocket!MessagesArrive).
MessagesArrive == Socket!MessagesArrive
=============================================================================
