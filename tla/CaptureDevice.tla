---------------------------- MODULE CaptureDevice ----------------------------
(***************************************************************************)
(* What V4L2VideoDevice promises the pipeline handler that uses a set of    *)
(* capture devices: buffers can be queued to a device while it has memory   *)
(* for them, and each queued buffer comes back through bufferReady exactly  *)
(* once, before that memory is released.                                    *)
(***************************************************************************)
CONSTANTS Device, Buffer

VARIABLES ready,   \* devices whose importBuffers() or allocateBuffers() has succeeded
          owned    \* for each device, buffers queued and not yet returned

vars == <<ready, owned>>

Init == ready = {} /\ owned = [d \in Device |-> {}]

\* importBuffers(), allocateBuffers()
Prepare(d) == d \notin ready /\ d \in ready' /\ owned'[d] = owned[d]

\* releaseBuffers()
Release(d) == d \in ready /\ owned[d] = {} /\ d \notin ready' /\ owned'[d] = {}

\* queueBuffer()
Queue(d, b) == d \in ready /\ b \notin owned[d] /\ owned'[d] = owned[d] \cup {b} /\ d \in ready'

\* bufferReady, with a captured or a cancelled frame
Return(d, b) == b \in owned[d] /\ owned'[d] = owned[d] \ {b} /\ (d \in ready <=> d \in ready')

Stutter(d) == owned'[d] = owned[d] /\ (d \in ready <=> d \in ready')

\* Each device takes a step of its own, or none.
Next ==
    \A d \in Device :
        Prepare(d) \/ Release(d) \/ Stutter(d) \/ \E b \in Buffer : Queue(d, b) \/ Return(d, b)

Spec == Init /\ [][Next]_vars
=============================================================================
