---------------------------- MODULE EventNotifiers ----------------------------
(***************************************************************************)
(* Event notifiers of one thread: the EventNotifier objects and the map     *)
(* from file descriptors to notifiers that EventDispatcherPoll polls and     *)
(* walks through while the handlers it calls enable, disable, create and     *)
(* delete notifiers.  A handler may also call processEvents() again, as     *)
(* IPCPipeUnixSocket::call() does while it waits for an answer.              *)
(***************************************************************************)
EXTENDS Integers, Sequences, SequencesExt

CONSTANTS NumFds,      \* file descriptors, numbered as the map orders them
          Notifier,
          NoNotifier,
          FdOf,        \* fd_ of each notifier
          TypeOf,      \* type_ of each notifier
          MaxNesting   \* bound: processEvents() calls within each other

Fd == 1 .. NumFds
Type == {"Exception", "Read", "Write"}

\* The order in which processNotifiers() looks at the events of a descriptor.
EventOrder == <<"Exception", "Read", "Write">>

VARIABLES enabled,     \* notifiers with enabled_ set
          notifiers,   \* notifiers_: for each fd and type, the notifier or NoNotifier
          keys,        \* fds that have an entry in notifiers_
          processing,  \* processingEvents_
          rounds,      \* calls of processNotifiers() in progress, outermost first
          ready,       \* kernel: events that have occurred and are not consumed
          invalid      \* kernel: fds that are closed while a notifier still has them

kernelVars == <<ready, invalid>>
vars == <<enabled, notifiers, keys, processing, rounds, kernelVars>>

\* A call of processNotifiers(): what poll() returned, from the entry being
\* processed on; the next event of that entry, 4 at its end; and the notifier
\* whose activated signal is being emitted.
Round == [pollfds   : Seq([fd : Fd, revents : SUBSET Type, nval : BOOLEAN]),
          event     : 1 .. 4,
          activated : Notifier \cup {NoNotifier}]

TypeOK ==
    /\ enabled \subseteq Notifier
    /\ notifiers \in [Fd -> [Type -> Notifier \cup {NoNotifier}]]
    /\ keys \subseteq Fd
    /\ processing \in BOOLEAN
    /\ rounds \in Seq(Round)
    /\ ready \subseteq Fd \X Type
    /\ invalid \subseteq Fd

NoSet == [t \in Type |-> NoNotifier]

Top == rounds[Len(rounds)]
SetTop(r) == rounds' = [rounds EXCEPT ![Len(rounds)] = r]

\* Code outside the dispatcher runs: a message or timer handler, or the slot of
\* an activated notifier.
InHandler == rounds # <<>> => Top.activated # NoNotifier

(***************************************************************************)
(* EventNotifier::setEnabled().                                            *)
(***************************************************************************)

\* registerEventNotifier(): the second notifier for the same events is ignored.
Enable(n) ==
    /\ InHandler
    /\ n \notin enabled
    /\ enabled' = enabled \cup {n}
    /\ notifiers' = [notifiers EXCEPT ![FdOf[n]][TypeOf[n]] = IF @ = NoNotifier THEN n ELSE @]
    /\ keys' = keys \cup {FdOf[n]}
    /\ UNCHANGED <<processing, rounds, kernelVars>>

\* Without n, unless the dispatcher has unregistered it already.
Unregister(n) ==
    IF notifiers[FdOf[n]][TypeOf[n]] = n
    THEN [notifiers EXCEPT ![FdOf[n]][TypeOf[n]] = NoNotifier] ELSE notifiers

\* Mutant: the entry is erased under the loop that walks through the map.
DisableErases(n) ==
    /\ InHandler
    /\ n \in enabled
    /\ enabled' = enabled \ {n}
    /\ notifiers' = Unregister(n)
    /\ keys' = IF notifiers'[FdOf[n]] = NoSet THEN keys \ {FdOf[n]} ELSE keys
    /\ UNCHANGED <<processing, rounds, kernelVars>>

\* unregisterEventNotifier(): an entry that becomes empty is erased, but not
\* while processingEvents_ is set.
Disable(n) ==
    /\ InHandler
    /\ n \in enabled
    /\ enabled' = enabled \ {n}
    /\ notifiers' = Unregister(n)
    /\ keys' = IF ~processing /\ notifiers'[FdOf[n]] = NoSet THEN keys \ {FdOf[n]} ELSE keys
    /\ UNCHANGED <<processing, rounds, kernelVars>>

(***************************************************************************)
(* The kernel: events occur, are consumed, descriptors are closed.          *)
(***************************************************************************)

\* Events that no notifier is for are never reported.
Occur(f, t) ==
    /\ \E n \in Notifier : FdOf[n] = f /\ TypeOf[n] = t
    /\ <<f, t>> \notin ready /\ f \notin invalid
    /\ ready' = ready \cup {<<f, t>>}
    /\ UNCHANGED <<enabled, notifiers, keys, processing, rounds, invalid>>

Consume(f, t) ==
    /\ InHandler
    /\ <<f, t>> \in ready
    /\ ready' = ready \ {<<f, t>>}
    /\ UNCHANGED <<enabled, notifiers, keys, processing, rounds, invalid>>

Close(f) ==
    /\ InHandler
    /\ f \notin invalid
    /\ invalid' = invalid \cup {f}
    /\ ready' = {e \in ready : e[1] # f}
    /\ UNCHANGED <<enabled, notifiers, keys, processing, rounds>>

(***************************************************************************)
(* EventDispatcherPoll::processEvents() and processNotifiers().             *)
(***************************************************************************)

\* The map is walked through in the order of its keys.
Ascending(fds) == \A i, j \in DOMAIN fds : i < j => fds[i] < fds[j]

\* processNotifiers() begins with what poll() found for every entry.
BeginRound ==
    /\ InHandler
    /\ Len(rounds) < MaxNesting
    /\ \E fds \in SeqOf(keys, NumFds) :
        /\ ToSet(fds) = keys /\ Ascending(fds)
        /\ rounds' = Append(rounds,
              [pollfds |-> [i \in DOMAIN fds |->
                   [fd |-> fds[i],
                    revents |-> {t \in Type : notifiers[fds[i]][t] # NoNotifier /\ <<fds[i], t>> \in ready},
                    nval |-> fds[i] \in invalid]],
               event |-> 1,
               activated |-> NoNotifier])
    /\ processing' = TRUE
    /\ UNCHANGED <<enabled, notifiers, keys, kernelVars>>

\* ppoll() returns a descriptor that has something to report; when it returns
\* none, because a timer is due, there is no round.
Poll ==
    /\ \E f \in keys : f \in invalid \/ \E t \in Type : notifiers[f][t] # NoNotifier /\ <<f, t>> \in ready
    /\ BeginRound

\* ppoll() returns the eventfd: interrupt() has been called.
Interrupted == BeginRound

\* Mutant: read events hide the others.
ProcessEventReadOnly ==
    /\ rounds # <<>> /\ Top.pollfds # <<>> /\ Top.event <= 3
    /\ LET pfd == Head(Top.pollfds)
           t == EventOrder[Top.event]
           n == notifiers[pfd.fd][t]
       IN  /\ SetTop([Top EXCEPT !.event = @ + 1, !.activated =
                         IF t \in pfd.revents /\ (t = "Write" => "Read" \notin pfd.revents)
                         THEN n ELSE NoNotifier])
           /\ notifiers' = IF pfd.nval THEN [notifiers EXCEPT ![pfd.fd][t] = NoNotifier] ELSE notifiers
    /\ UNCHANGED <<enabled, keys, processing, kernelVars>>

\* One event of one entry: the notifier that is registered now is activated, or
\* unregistered when its descriptor is invalid.
ProcessEvent ==
    /\ rounds # <<>> /\ Top.pollfds # <<>> /\ Top.event <= 3
    /\ LET pfd == Head(Top.pollfds)
           t == EventOrder[Top.event]
           n == notifiers[pfd.fd][t]
       IN  /\ SetTop([Top EXCEPT !.event = @ + 1,
                                 !.activated = IF ~pfd.nval /\ t \in pfd.revents THEN n ELSE NoNotifier])
           /\ notifiers' = IF pfd.nval THEN [notifiers EXCEPT ![pfd.fd][t] = NoNotifier] ELSE notifiers
    /\ UNCHANGED <<enabled, keys, processing, kernelVars>>

NextEntry == SetTop([pollfds |-> Tail(Top.pollfds), event |-> 1, activated |-> NoNotifier])

\* The end of an entry: erase it if nothing is left in it.
EndEntry ==
    /\ rounds # <<>> /\ Top.pollfds # <<>> /\ Top.event = 4
    /\ LET f == Head(Top.pollfds).fd
       IN  keys' = IF notifiers[f] = NoSet THEN keys \ {f} ELSE keys
    /\ NextEntry
    /\ UNCHANGED <<enabled, notifiers, processing, kernelVars>>

ProcessReturn ==
    /\ rounds # <<>> /\ Top.pollfds = <<>>
    /\ rounds' = Front(rounds)
    /\ processing' = FALSE
    /\ UNCHANGED <<enabled, notifiers, keys, kernelVars>>

-----------------------------------------------------------------------------

Init ==
    /\ enabled = {}
    /\ notifiers = [f \in Fd |-> NoSet]
    /\ keys = {}
    /\ processing = FALSE
    /\ rounds = <<>>
    /\ ready = {}
    /\ invalid = {}

Next ==
    \/ \E n \in Notifier : Enable(n) \/ Disable(n)
    \/ \E f \in Fd : Close(f) \/ \E t \in Type : Occur(f, t) \/ Consume(f, t)
    \/ Poll \/ Interrupted \/ ProcessEvent \/ EndEntry \/ ProcessReturn

Spec == Init /\ [][Next]_vars

\* The event loop runs, and a handler returns.  Nothing need ever call interrupt().
FairSpec == Spec /\ WF_vars(Poll) /\ WF_vars(ProcessEvent) /\ WF_vars(EndEntry) /\ WF_vars(ProcessReturn)

-----------------------------------------------------------------------------

\* The entry of a descriptor exists from the time processNotifiers() looks it up
\* until it has called all of its notifiers, as ASSERT(iter != notifiers_.end()) says:
\* what they disable does not pull it away from under the loop.
EntryExists == \A i \in 1 .. Len(rounds) :
                   rounds[i].pollfds # <<>> /\ (i = Len(rounds) \/ rounds[i].activated # NoNotifier)
                       => Head(rounds[i].pollfds).fd \in keys

\* LookupFinds: the look-up of a polled descriptor finds its entry, word for word what
\* ASSERT(iter != notifiers_.end()) says, also when a handler has run a round of its own.
LookupFinds == rounds # <<>> /\ Top.pollfds # <<>> /\ Top.event = 1 => Head(Top.pollfds).fd \in keys

Activated == {rounds[i].activated : i \in 1 .. Len(rounds)} \ {NoNotifier}

\* A notifier is activated only when it is enabled at that time, also when it was
\* disabled after poll() reported its event.
ActivatedWhenEnabled == [][Activated' \ Activated \subseteq enabled]_vars

\* An entry left empty is erased by the next round that begins, or used again.  A
\* round begins only when ppoll() has something to report: an entry that the last
\* round emptied after it had passed it stays until then.
EmptyEntriesErased ==
    \A f \in Fd : []<>(rounds # <<>>) =>
        (f \in keys /\ notifiers[f] = NoSet ~> f \notin keys \/ notifiers[f] # NoSet)

\* An event that stays is reported to a notifier that stays registered for it.
EventsReported ==
    \A n \in Notifier :
        []<>(n \in Activated \/ notifiers[FdOf[n]][TypeOf[n]] # n \/ <<FdOf[n], TypeOf[n]>> \notin ready)

\* EventsServed: events are reported to the notifiers that are enabled at the time and
\* to no other, and rounds that follow leave nothing of the notifiers that are gone.
EventsServed == ActivatedWhenEnabled /\ EmptyEntriesErased /\ EventsReported
=============================================================================
