------------------------------ MODULE TimerList ------------------------------
(***************************************************************************)
(* Timers of one thread: the Timer objects and the ordered list of running *)
(* timers that EventDispatcherPoll keeps for them.  Everything happens on   *)
(* one thread; start() and stop() are called from message handlers, from    *)
(* notifiers and from the timeout handlers that processTimers() calls.      *)
(***************************************************************************)
EXTENDS Integers, Sequences, SequencesExt

CONSTANTS Timer,
          MaxTime,         \* bound: the clock stops here
          EarlierRestart   \* whether start() may move the deadline of a running timer forward

Time == 0 .. MaxTime

VARIABLES clock,       \* utils::clock::now()
          deadline,    \* Timer::deadline_
          running,     \* timers with running_ set
          timers,      \* EventDispatcherPoll::timers_
          processing,  \* processTimers() is in its loop
          now          \* the time processTimers() has read

vars == <<clock, deadline, running, timers, processing, now>>

TypeOK ==
    /\ clock \in Time
    /\ deadline \in [Timer -> Time]
    /\ running \subseteq Timer
    /\ timers \in Seq(Timer)
    /\ processing \in BOOLEAN
    /\ now \in Time

(***************************************************************************)
(* EventDispatcherPoll: the list, for the deadlines d.                     *)
(***************************************************************************)

\* Before the first timer with a later deadline.
registerTimer(l, t, d) ==
    LET later == {i \in 1 .. Len(l) : d[l[i]] > d[t]}
    IN  IF later = {} THEN Append(l, t) ELSE InsertAt(l, Min(later), t)

\* The search ends at the timer, or at the first with a later deadline.
unregisterTimer(l, t, d) ==
    LET stop == {i \in 1 .. Len(l) : l[i] = t \/ d[l[i]] > d[t]}
    IN  IF stop # {} /\ l[Min(stop)] = t THEN RemoveAt(l, Min(stop)) ELSE l

(***************************************************************************)
(* Timer.                                                                  *)
(***************************************************************************)

\* start(): the new deadline is set before the timer leaves the list.  It may be
\* now or past, but a timeout handler does not start timers in the past, or put
\* off to now one that is running: it could keep processTimers() in its loop, or
\* the timer from expiring, for ever.
start(t, d) ==
    /\ processing => d > clock \/ (d = clock /\ t \notin running)
    /\ t \in running /\ ~EarlierRestart => d >= deadline[t]
    /\ deadline' = [deadline EXCEPT ![t] = d]
    /\ timers' = LET rest == IF t \in running THEN unregisterTimer(timers, t, deadline') ELSE timers
                 IN  registerTimer(rest, t, deadline')
    /\ running' = running \cup {t}
    /\ UNCHANGED <<clock, processing, now>>

\* stop(), which is a no-op for a timer that is not running.
stop(t) ==
    /\ t \in running
    /\ timers' = unregisterTimer(timers, t, deadline)
    /\ running' = running \ {t}
    /\ UNCHANGED <<clock, deadline, processing, now>>

Tick ==
    /\ clock < MaxTime
    /\ clock' = clock + 1
    /\ UNCHANGED <<deadline, running, timers, processing, now>>

(***************************************************************************)
(* EventDispatcherPoll::processTimers().                                   *)
(***************************************************************************)

\* poll() has returned, for any event or for the first timer of the list.
ProcessTimers ==
    /\ ~processing
    /\ processing' = TRUE
    /\ now' = clock
    /\ UNCHANGED <<clock, deadline, running, timers>>

Due == timers # <<>> /\ deadline[Head(timers)] <= now

\* Mutant: the timer is not stopped.
TimeoutKeepsRunning ==
    /\ processing
    /\ Due
    /\ timers' = Tail(timers)
    /\ UNCHANGED <<clock, deadline, running, processing, now>>

\* The first timer is taken from the list, stopped (stop() looks for it again)
\* and reported; its handler is any sequence of start() and stop().
Timeout ==
    /\ processing
    /\ Due
    /\ LET t == Head(timers) IN
       /\ timers' = IF t \in running THEN unregisterTimer(Tail(timers), t, deadline)
                                     ELSE Tail(timers)
       /\ running' = running \ {t}
    /\ UNCHANGED <<clock, deadline, processing, now>>

ProcessTimersReturn ==
    /\ processing
    /\ ~Due
    /\ processing' = FALSE
    /\ UNCHANGED <<clock, deadline, running, timers, now>>

-----------------------------------------------------------------------------

Init ==
    /\ clock = 0
    /\ deadline = [t \in Timer |-> 0]
    /\ running = {}
    /\ timers = <<>>
    /\ processing = FALSE
    /\ now = 0

Next ==
    \/ \E t \in Timer : stop(t) \/ \E d \in Time : start(t, d)
    \/ Tick
    \/ ProcessTimers \/ Timeout \/ ProcessTimersReturn

Spec == Init /\ [][Next]_vars

\* Time goes on and the event loop runs.
FairSpec ==
    /\ Spec
    /\ WF_vars(Tick)
    /\ WF_vars(ProcessTimers)
    /\ WF_vars(Timeout)
    /\ WF_vars(ProcessTimersReturn)

-----------------------------------------------------------------------------

\* When processTimers() returns, every timer that was due when it began has timed
\* out, also the ones its handlers have started, stopped and moved.
NoneMissed ==
    [][processing /\ ~processing' => \A t \in running : deadline[t] > now]_vars

\* TimersExpire: a running timer times out or is stopped: a handler cannot put it off
\* for ever, as deadlines are bounded here, and a restart does not lose it.
TimersExpire == \A t \in Timer : t \in running ~> t \notin running

\* TimersServed: no timer is missed by a round that it was due for, and each expires.
TimersServed == NoneMissed /\ TimersExpire

\* "If the timer is already running it will be stopped and restarted."
RestartReplaces == \A t \in Timer : Len(SelectSeq(timers, LAMBDA u : u = t)) <= 1
=============================================================================
