--------------------------- MODULE DelayedControls ---------------------------
(***************************************************************************)
(* DelayedControls: the queue of sensor controls that take effect some      *)
(* frames after they are written.  values_ keeps a ring buffer per control; *)
(* push() fills the slot of the next frame, applyControls() writes, at the  *)
(* start of a frame, the slot each control's delay calls for, and get()     *)
(* tells what was in effect at a frame.                                     *)
(*                                                                         *)
(* The sensor is external: a control written at the start of frame s is in  *)
(* effect from frame s + delay on.  Writes succeed.  Writing a control      *)
(* ahead of the others (priorityWrite) only orders writes within one frame. *)
(* The event that announces the start of a frame may be lost.               *)
(***************************************************************************)
EXTENDS Integers, FiniteSets, Functions

CONSTANTS Controls,      \* the controls of controlParams_, all exposed by the device
          Values,        \* their values
          NoValue,       \* a ControlValue without a value
          delay,         \* ControlParams::delay of each control
          ListSize,      \* listSize
          MaxFrames,     \* bound: frames of a session
          MaxLost,       \* bound: frame start events lost in a session
          ResetOnStart   \* whether the pipeline handler calls reset() before a session

maxDelay == CHOOSE d \in Range(delay) : \A e \in Range(delay) : e <= d
minDelay == CHOOSE d \in Range(delay) : \A e \in Range(delay) : d <= e

ASSUME DelayedControlsAssumption ==
    /\ Controls # {} /\ IsFiniteSet(Controls)
    /\ NoValue \notin Values
    /\ delay \in [Controls -> Nat]
    /\ ListSize \in Nat \ {0}
    /\ maxDelay - minDelay < ListSize
    /\ MaxFrames \in Nat
    /\ ResetOnStart \in BOOLEAN

VARIABLES queueCount,  \* queueCount_: the index the next push fills
          writeCount,  \* writeCount_: the sequence number of the next frame
          values,      \* values_: the ring buffer of each control
          device,      \* the value of each control last written to the device
          frame,       \* the sequence number of the next frame of the sensor
          inEffect,    \* what the sensor uses, or is going to use, at each frame
          wanted,      \* history: the controls asked for at each index of the queue
          since,       \* history: the index of the push() each of them comes from
          spoiled,     \* history: controls written for a push() that was not accepted
          lost         \* history: frames whose start was not announced

history == <<wanted, since>>
vars == <<queueCount, writeCount, values, device, frame, inEffect, history, spoiled, lost>>

Info == [value : Values \cup {NoValue}, updated : BOOLEAN]
Frames == 0 .. MaxFrames + maxDelay
MaxIndex == MaxFrames + ListSize

TypeOK ==
    /\ queueCount \in 1 .. MaxIndex
    /\ writeCount \in 0 .. MaxFrames
    /\ values \in [Controls -> [0 .. ListSize - 1 -> Info]]
    /\ device \in [Controls -> Values]
    /\ frame \in 0 .. MaxFrames
    /\ inEffect \in [Controls -> [Frames -> Values]]
    /\ wanted \in [0 .. queueCount - 1 -> [Controls -> Values]]
    /\ since \in [0 .. queueCount - 1 -> [Controls -> 0 .. queueCount - 1]]
    /\ spoiled \subseteq Controls
    /\ lost \subseteq 0 .. frame - 1

Clamp(n) == IF n < 0 THEN 0 ELSE n

\* ControlRingBuffer::operator[]
Slot(c, index) == values[c][index % ListSize]

\* Mutant: every control is written in the frame of its slot.
WriteIndexNoDelay(c) == writeCount

\* The slot applyControls() writes for a control.
WriteIndex(c) == Clamp(writeCount - (maxDelay - delay[c]))

get(sequence) == [c \in Controls |-> Slot(c, Clamp(sequence - maxDelay)).value]

\* The oldest slot that is still to be written to the device.
OldestPending == Clamp(writeCount - (maxDelay - minDelay))

\* The slot that push() fills: the state of the previous frame and the new controls.
Filled(c, new) ==
    IF c \in DOMAIN new THEN [value |-> new[c], updated |-> TRUE]
                        ELSE [value |-> Slot(c, queueCount - 1).value, updated |-> FALSE]

\* push(), accepted.  "We can't queue up more than the delayed controls history
\* size": callers do not overwrite slots that are still to be written.
push(new) ==
    /\ queueCount - OldestPending < ListSize
    /\ values' = [c \in Controls |->
                     [values[c] EXCEPT ![queueCount % ListSize] = Filled(c, new)]]
    /\ queueCount' = queueCount + 1
    /\ wanted' = [i \in 0 .. queueCount |->
                     IF i < queueCount THEN wanted[i]
                     ELSE [c \in Controls |-> Filled(c, new).value]]
    /\ since' = [i \in 0 .. queueCount |->
                    IF i < queueCount THEN since[i]
                    ELSE [c \in Controls |-> IF c \in DOMAIN new THEN i ELSE since[i - 1][c]]]
    /\ UNCHANGED <<writeCount, device, frame, inEffect, spoiled, lost>>

\* push() that meets a control it does not handle: it returns false with the
\* controls before it in the slot, and does not count the slot.
pushRejected(new) ==
    /\ queueCount - OldestPending < ListSize
    /\ values' = [c \in Controls |->
                     [values[c] EXCEPT ![queueCount % ListSize] = Filled(c, new)]]
    /\ UNCHANGED <<queueCount, writeCount, device, frame, inEffect, history, spoiled, lost>>

\* The ring buffers when applyControls() has marked the slots it writes as done.
Written == [c \in Controls |-> [values[c] EXCEPT ![WriteIndex(c) % ListSize].updated = FALSE]]

\* Mutant: the missing slots are left as they are.
autoQueueNothing(sequence) == Written

\* The ring buffers after push({}) for every slot up to the frame's own.
autoQueue(sequence) ==
    [c \in Controls |->
        [i \in 0 .. ListSize - 1 |->
            IF \E n \in queueCount .. sequence : n % ListSize = i
            THEN [value |-> Written[c][(queueCount - 1) % ListSize].value, updated |-> FALSE]
            ELSE Written[c][i]]]

applyControls(sequence) ==
    LET due == {c \in Controls : Slot(c, WriteIndex(c)).updated}
        new == [c \in Controls |->
                   IF c \in due THEN Slot(c, WriteIndex(c)).value ELSE device[c]]
        queued == IF sequence >= queueCount THEN sequence + 1 ELSE queueCount
    IN  /\ device' = new
        /\ inEffect' = [c \in Controls |-> [f \in Frames |->
                           IF c \in due /\ f >= sequence + delay[c] THEN new[c]
                           ELSE inEffect[c][f]]]
        /\ writeCount' = sequence + 1
        /\ values' = autoQueue(sequence)
        /\ queueCount' = queued
        /\ wanted' = [i \in 0 .. queued - 1 |->
                         IF i < queueCount THEN wanted[i] ELSE wanted[queueCount - 1]]
        /\ since' = [i \in 0 .. queued - 1 |->
                        IF i < queueCount THEN since[i] ELSE since[queueCount - 1]]
        /\ spoiled' = spoiled \cup {c \in due : WriteIndex(c) >= queueCount}

\* The start of a frame
FrameStart ==
    /\ frame < MaxFrames
    /\ frame' = frame + 1
    /\ applyControls(frame)
    /\ UNCHANGED lost

\* A frame starts and its event is lost.
FrameStartLost ==
    /\ frame < MaxFrames
    /\ Cardinality(lost) < MaxLost
    /\ frame' = frame + 1
    /\ lost' = lost \cup {frame}
    /\ UNCHANGED <<queueCount, writeCount, values, device, inEffect, history, spoiled>>

\* reset()
reset ==
    /\ queueCount' = 1
    /\ writeCount' = 0
    /\ values' = [c \in Controls |-> [i \in 0 .. ListSize - 1 |->
                     [value |-> IF i = 0 THEN device[c] ELSE NoValue, updated |-> FALSE]]]
    /\ wanted' = [i \in {0} |-> device]
    /\ since' = [i \in {0} |-> [c \in Controls |-> 0]]
    /\ spoiled' = {}

\* A new session: the sensor starts from the values written last and counts its
\* frames from 0.
Restart ==
    /\ frame' = 0
    /\ inEffect' = [c \in Controls |-> [f \in Frames |-> device[c]]]
    /\ lost' = {}
    /\ UNCHANGED device
    /\ IF ResetOnStart THEN reset ELSE UNCHANGED <<queueCount, writeCount, values, history, spoiled>>

-----------------------------------------------------------------------------

Init ==
    /\ device \in [Controls -> Values]
    /\ queueCount = 1
    /\ writeCount = 0
    /\ values = [c \in Controls |-> [i \in 0 .. ListSize - 1 |->
                    [value |-> IF i = 0 THEN device[c] ELSE NoValue, updated |-> FALSE]]]
    /\ frame = 0
    /\ inEffect = [c \in Controls |-> [f \in Frames |-> device[c]]]
    /\ wanted = [i \in {0} |-> device]
    /\ since = [i \in {0} |-> [c \in Controls |-> 0]]
    /\ spoiled = {} /\ lost = {}

NewControls == UNION {[C -> Values] : C \in SUBSET Controls}

Next ==
    \/ \E new \in NewControls : push(new) \/ pushRejected(new)
    \/ FrameStart \/ FrameStartLost
    \/ Restart

Spec == Init /\ [][Next]_vars

-----------------------------------------------------------------------------

\* The value of c at an index of the queue was written in its frame: the events of
\* that frame and of the one before it, which sets writeCount_, both came.
Timely(c, index) ==
    LET written == since[index][c] + maxDelay - delay[c]
    IN  since[index][c] # 0 => {written - 1, written} \cap lost = {}

\* The controls of a push take effect at their frame, all together, whatever their
\* delays: "the controls are guaranteed to take effect for the correct request".
\* A control that was written for a push() that returned false is left out.  A lost
\* event harms the pushes of its own frame and of the next one, and no later ones.  A
\* frame whose slot nobody has queued yet, after lost events, is left out.
TakesEffect ==
    \A s \in 0 .. frame - 1 : \A c \in Controls \ spoiled :
        Clamp(s - maxDelay) < queueCount /\ Timely(c, Clamp(s - maxDelay)) =>
            inEffect[c][s] = wanted[Clamp(s - maxDelay)][c]

\* get() tells the values the sensor used for a frame, as long as the slot of the
\* frame has not been reused: "Read back what controls where in effect at a specific
\* sequence number."  The frames that a lost event harms are left out.
ReadBack ==
    \A s \in 0 .. frame - 1 : \A c \in Controls \ spoiled :
        /\ queueCount - ListSize < Clamp(s - maxDelay) /\ Clamp(s - maxDelay) < queueCount
        /\ Timely(c, Clamp(s - maxDelay))
        => get(s)[c] = inEffect[c][s]
=============================================================================
