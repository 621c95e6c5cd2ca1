--------------------------- MODULE V4L2VideoDevice ---------------------------
(***************************************************************************)
(* One V4L2 capture device as a pipeline handler uses it, on the pipeline   *)
(* thread: the V4L2BufferCache that associates frame buffers with V4L2      *)
(* buffer indices, the map of queued buffers, the notifier on the device's  *)
(* file descriptor and the dequeue watchdog, over the buffer queue of the   *)
(* kernel.  Frame sequence numbers, timestamps and planes are left out.     *)
(***************************************************************************)
EXTENDS Integers, Sequences, FiniteSets, SequencesExt

CONSTANTS Buffer,      \* frame buffers, told apart by the dmabufs of their planes
          NoBuffer,
          NumBuffers,  \* count passed to importBuffers() or allocateBuffers()
          Faults,      \* ioctls that may fail: "QBUF", "STREAMOFF"
          KernelBug,   \* whether a failed VIDIOC_QBUF may leave its buffer in the kernel
          MaxUse       \* bound: calls of V4L2BufferCache::get() that succeed

Index == 0 .. NumBuffers - 1

ASSUME DeviceAssumption ==
    /\ NumBuffers \in Nat \ {0}
    /\ MaxUse \in Nat
    /\ NoBuffer \notin Buffer
    /\ KernelBug \in BOOLEAN

VARIABLES state,            \* state_
          memoryType,       \* memoryType_
          hasCache,         \* cache_ # nullptr
          cache,            \* the entries of *cache_
          lastUsedCounter,  \* V4L2BufferCache::lastUsedCounter_
          queuedBuffers,    \* queuedBuffers_: the buffer queued at each index, or NoBuffer
          sending,          \* streamOff(): indices whose buffer is still to be sent back
          notifier,         \* fdBufferNotifier_ is enabled
          watchdogDuration, \* whether watchdogDuration_ is not 0
          watchdog,         \* watchdog_ is running
          kqueue,           \* kernel: indices waiting for a frame, in order
          kdone             \* kernel: indices that can be dequeued, in order

cacheVars == <<memoryType, hasCache, cache, lastUsedCounter>>
kernelVars == <<kqueue, kdone>>
vars == <<state, cacheVars, queuedBuffers, sending, notifier, watchdogDuration, watchdog, kernelVars>>

Entry == [free : BOOLEAN, lastUsed : Nat, buffer : Buffer \cup {NoBuffer}]

TypeOK ==
    /\ state \in {"Streaming", "Stopping", "Stopped"}
    /\ memoryType \in {"MMAP", "DMABUF"}
    /\ hasCache \in BOOLEAN
    /\ cache \in [Index -> Entry]
    /\ lastUsedCounter \in Nat
    /\ queuedBuffers \in [Index -> Buffer \cup {NoBuffer}]
    /\ sending \subseteq Index
    /\ notifier \in BOOLEAN
    /\ watchdogDuration \in BOOLEAN
    /\ watchdog \in BOOLEAN
    /\ kqueue \in Seq(Index)
    /\ kdone \in Seq(Index)

NoQueue == [i \in Index |-> NoBuffer]
NoEntry == [i \in Index |-> [free |-> TRUE, lastUsed |-> 0, buffer |-> NoBuffer]]

Queued == {i \in Index : queuedBuffers[i] # NoBuffer}

\* Buffers that the device has and the pipeline handler has not.
InDevice == {queuedBuffers[i] : i \in IF state = "Stopping" THEN sending ELSE Queued}

\* Indices the kernel has.
InKernel == ToSet(kqueue) \cup ToSet(kdone)

(***************************************************************************)
(* V4L2BufferCache.                                                        *)
(***************************************************************************)

put(c, i) == [c EXCEPT ![i].free = TRUE]

isEmpty(c) == \A i \in Index : c[i].free

\* get(): among the free entries the first that held the same dmabufs, else
\* the first of the least recently used.
Candidates(c, b) ==
    LET free == {i \in Index : c[i].free}
        hits == {i \in free : c[i].buffer = b}
    IN  IF hits # {} THEN hits
        ELSE {i \in free : \A j \in free : c[i].lastUsed <= c[j].lastUsed}

get(c, b, i) ==
    /\ i \in Candidates(c, b)
    /\ \A j \in Candidates(c, b) : i <= j

(***************************************************************************)
(* Memory.                                                                 *)
(***************************************************************************)

\* importBuffers(): an empty cache.
importBuffers ==
    /\ state # "Stopping"
    /\ ~hasCache
    /\ memoryType' = "DMABUF"
    /\ hasCache' = TRUE
    /\ cache' = NoEntry
    /\ lastUsedCounter' = 1
    /\ UNCHANGED <<state, queuedBuffers, sending, notifier, watchdogDuration, watchdog, kernelVars>>

\* allocateBuffers(): a cache that knows the new buffers.
allocateBuffers ==
    /\ state # "Stopping"
    /\ ~hasCache
    /\ \E f \in [Index -> Buffer] :
           /\ \A i, j \in Index : f[i] = f[j] => i = j
           /\ cache' = [i \in Index |-> [free |-> TRUE, lastUsed |-> i + 1, buffer |-> f[i]]]
    /\ memoryType' = "MMAP"
    /\ hasCache' = TRUE
    /\ lastUsedCounter' = NumBuffers + 1
    /\ UNCHANGED <<state, queuedBuffers, sending, notifier, watchdogDuration, watchdog, kernelVars>>

\* releaseBuffers().  It checks nothing: that no buffer is queued is what its
\* callers owe it, and they call streamOff() first.
releaseBuffers ==
    /\ state = "Stopped"
    /\ Queued = {}
    /\ hasCache
    /\ hasCache' = FALSE
    /\ cache' = NoEntry
    /\ lastUsedCounter' = 0
    /\ kqueue' = <<>>
    /\ kdone' = <<>>
    /\ UNCHANGED <<state, memoryType, queuedBuffers, sending, notifier, watchdogDuration, watchdog>>

(***************************************************************************)
(* Buffers.                                                                *)
(***************************************************************************)

\* The caller of queueBuffer() has the buffer, and the device memory for it.
\* Slots of bufferReady that streamOff() calls get -ESHUTDOWN.
Queueable(b) ==
    /\ state # "Stopping"
    /\ hasCache
    /\ b \notin InDevice
    /\ memoryType = "MMAP" => \E i \in Index : cache[i].buffer = b
    /\ lastUsedCounter <= MaxUse

\* Mutant: the notifier is not enabled for the first buffer.
queueBufferSilent(b) ==
    /\ Queueable(b)
    /\ \E i \in Index :
           /\ get(cache, b, i)
           /\ i \notin InKernel
           /\ cache' = [cache EXCEPT ![i] = [free |-> FALSE, lastUsed |-> lastUsedCounter,
                                             buffer |-> b]]
           /\ queuedBuffers' = [queuedBuffers EXCEPT ![i] = b]
           /\ kqueue' = Append(kqueue, i)
    /\ lastUsedCounter' = lastUsedCounter + 1
    /\ watchdog' = IF Queued = {} THEN watchdogDuration ELSE watchdog
    /\ UNCHANGED <<state, memoryType, hasCache, sending, notifier, watchdogDuration, kdone>>

queueBuffer(b) ==
    /\ Queueable(b)
    /\ \E i \in Index :
           /\ get(cache, b, i)
           /\ i \notin InKernel
           /\ cache' = [cache EXCEPT ![i] = [free |-> FALSE, lastUsed |-> lastUsedCounter,
                                             buffer |-> b]]
           /\ queuedBuffers' = [queuedBuffers EXCEPT ![i] = b]
           /\ kqueue' = Append(kqueue, i)
    /\ lastUsedCounter' = lastUsedCounter + 1
    /\ notifier' = (notifier \/ Queued = {})
    /\ watchdog' = IF Queued = {} THEN watchdogDuration ELSE watchdog
    /\ UNCHANGED <<state, memoryType, hasCache, sending, watchdogDuration, kdone>>

\* Mutant: the buffer is recorded before the ioctl.
queueBufferFailsRecorded(b) ==
    /\ Queueable(b)
    /\ \E i \in Index :
           /\ get(cache, b, i)
           /\ "QBUF" \in Faults \/ i \in InKernel
           /\ queuedBuffers' = [queuedBuffers EXCEPT ![i] = b]
    /\ UNCHANGED <<state, cacheVars, sending, notifier, watchdogDuration, watchdog, kernelVars>>

\* queueBuffer() when VIDIOC_QBUF fails: the entry is free again, for the new
\* buffer.  The kernel may have kept the buffer; it refuses an index it has.
queueBufferFails(b) ==
    /\ Queueable(b)
    /\ \E i \in Index :
           /\ get(cache, b, i)
           /\ "QBUF" \in Faults \/ i \in InKernel
           /\ cache' = [cache EXCEPT ![i] = [free |-> TRUE, lastUsed |-> lastUsedCounter,
                                             buffer |-> b]]
           /\ \/ UNCHANGED kqueue
              \/ /\ KernelBug /\ state = "Streaming" /\ i \notin InKernel
                 /\ kqueue' = Append(kqueue, i)
    /\ lastUsedCounter' = lastUsedCounter + 1
    /\ UNCHANGED <<state, memoryType, hasCache, queuedBuffers, sending, notifier, watchdogDuration, watchdog, kdone>>

\* The kernel fills a buffer.
Capture ==
    /\ state = "Streaming"
    /\ kqueue # <<>>
    /\ kdone' = Append(kdone, Head(kqueue))
    /\ kqueue' = Tail(kqueue)
    /\ UNCHANGED <<state, cacheVars, queuedBuffers, sending, notifier, watchdogDuration, watchdog>>

\* Mutant: the index stays in use in the cache.
bufferAvailableKeeps ==
    /\ notifier
    /\ state # "Stopping"
    /\ kdone # <<>>
    /\ kdone' = Tail(kdone)
    /\ queuedBuffers' = [queuedBuffers EXCEPT ![Head(kdone)] = NoBuffer]
    /\ notifier' = (Queued # {Head(kdone)})
    /\ watchdog' = (Queued # {Head(kdone)} /\ watchdogDuration)
    /\ UNCHANGED <<state, cacheVars, sending, watchdogDuration, kqueue>>

\* bufferAvailable() and dequeueBuffer(): an index that is not queued is ignored.
bufferAvailable ==
    /\ notifier
    /\ state # "Stopping"
    /\ kdone # <<>>
    /\ kdone' = Tail(kdone)
    /\ LET i == Head(kdone) IN
       IF i \notin Queued
       THEN UNCHANGED <<cache, queuedBuffers, notifier, watchdog>>
       ELSE /\ cache' = put(cache, i)
            /\ queuedBuffers' = [queuedBuffers EXCEPT ![i] = NoBuffer]
            /\ notifier' = (Queued # {i})
            /\ watchdog' = (Queued # {i} /\ (watchdogDuration \/ watchdog))
    /\ UNCHANGED <<state, memoryType, hasCache, lastUsedCounter, sending, watchdogDuration, kqueue>>

(***************************************************************************)
(* The stream.                                                             *)
(***************************************************************************)

streamOn ==
    /\ state = "Stopped"
    /\ hasCache
    /\ state' = "Streaming"
    /\ watchdog' = (watchdog \/ (watchdogDuration /\ Queued # {}))
    /\ UNCHANGED <<cacheVars, queuedBuffers, sending, notifier, watchdogDuration, kernelVars>>

\* Mutant: the queued buffers are dropped.
streamOffDrops ==
    /\ state = "Streaming" \/ (state = "Stopped" /\ Queued # {})
    /\ watchdog' = (watchdog /\ ~watchdogDuration)
    /\ state' = "Stopping"
    /\ sending' = {}
    /\ kqueue' = <<>>
    /\ kdone' = <<>>
    /\ UNCHANGED <<cacheVars, queuedBuffers, notifier, watchdogDuration>>

\* streamOff() has work to do, and VIDIOC_STREAMOFF takes all buffers from the
\* kernel.  An error leaves the device as it is, but for the watchdog.
streamOff ==
    /\ state = "Streaming" \/ (state = "Stopped" /\ Queued # {})
    /\ watchdog' = (watchdog /\ ~watchdogDuration)
    /\ \/ /\ state' = "Stopping"
          /\ sending' = Queued
          /\ kqueue' = <<>>
          /\ kdone' = <<>>
       \/ /\ "STREAMOFF" \in Faults
          /\ UNCHANGED <<state, sending, kernelVars>>
    /\ UNCHANGED <<cacheVars, queuedBuffers, notifier, watchdogDuration>>

\* Send back the next buffer, cancelled.
SendBack ==
    /\ state = "Stopping"
    /\ \E i \in sending :
           /\ \A j \in sending : i <= j
           /\ cache' = put(cache, i)
           /\ sending' = sending \ {i}
    /\ UNCHANGED <<state, memoryType, hasCache, lastUsedCounter, queuedBuffers, notifier, watchdogDuration,
                   watchdog, kernelVars>>

streamOffDone ==
    /\ state = "Stopping"
    /\ sending = {}
    /\ queuedBuffers' = NoQueue
    /\ notifier' = FALSE
    /\ state' = "Stopped"
    /\ UNCHANGED <<cacheVars, sending, watchdogDuration, watchdog, kernelVars>>

(***************************************************************************)
(* The watchdog.                                                           *)
(***************************************************************************)

setDequeueTimeout(timeout) ==
    /\ state # "Stopping"
    /\ watchdogDuration' = timeout
    /\ watchdog' = (timeout /\ state = "Streaming" /\ Queued # {})
    /\ UNCHANGED <<state, cacheVars, queuedBuffers, sending, notifier, kernelVars>>

watchdogExpired ==
    /\ watchdog
    /\ state # "Stopping"
    /\ watchdog' = FALSE
    /\ UNCHANGED <<state, cacheVars, queuedBuffers, sending, notifier, watchdogDuration, kernelVars>>

-----------------------------------------------------------------------------

Init ==
    /\ state = "Stopped"
    /\ memoryType = "MMAP"
    /\ hasCache = FALSE
    /\ cache = NoEntry
    /\ lastUsedCounter = 0
    /\ queuedBuffers = NoQueue
    /\ sending = {}
    /\ notifier = FALSE
    /\ watchdogDuration = FALSE
    /\ watchdog = FALSE
    /\ kqueue = <<>>
    /\ kdone = <<>>

Next ==
    \/ importBuffers \/ allocateBuffers \/ releaseBuffers
    \/ \E b \in Buffer : queueBuffer(b) \/ queueBufferFails(b)
    \/ Capture \/ bufferAvailable
    \/ streamOn \/ streamOff \/ SendBack \/ streamOffDone
    \/ \E timeout \in BOOLEAN : setDequeueTimeout(timeout)
    \/ watchdogExpired

Spec == Init /\ [][Next]_vars

\* The event loop keeps running, and a call of streamOff() returns.  That the
\* kernel fills the buffers it has while it streams is assumed.
FairSpec ==
    /\ Spec
    /\ WF_vars(Capture)
    /\ WF_vars(bufferAvailable)
    /\ WF_vars(SendBack \/ streamOffDone)

-----------------------------------------------------------------------------

\* An entry of the cache is in use exactly as long as its buffer is queued, for
\* that buffer, and no buffer is queued twice.  In particular the cache is empty
\* when streamOff() has sent back all buffers, as it asserts.
CacheTracksQueue ==
    LET inUse == IF state = "Stopping" THEN sending ELSE Queued IN
    /\ \A i \in Index : ~cache[i].free <=> i \in inUse
    /\ \A i \in inUse : cache[i].buffer = queuedBuffers[i]
    /\ \A i, j \in inUse : queuedBuffers[i] = queuedBuffers[j] => i = j

\* The kernel has every queued buffer, once: what dequeueBuffer() gets for an
\* index is the buffer that was queued with it, whatever failed before.
KernelHasQueued ==
    /\ IsInjective(kqueue \o kdone)
    /\ state # "Stopping" => Queued \subseteq InKernel

\* The event loop watches the device exactly when a buffer is queued: no frame
\* is missed, and no poll error of an empty queue keeps the loop busy.
NotifierTracksQueue == state # "Stopping" => (notifier <=> Queued # {})

\* The watchdog never reports a device that has no buffer to return, also when
\* the timeout is changed or disabled while the device works.
WatchdogNeedsBuffers == watchdog => watchdogDuration /\ Queued # {}

\* RecordsAgree: what the kernel has, what the event loop watches and what the watchdog
\* waits for all follow the map of queued buffers.
RecordsAgree == KernelHasQueued /\ NotifierTracksQueue /\ WatchdogNeedsBuffers

\* To pipeline handlers the device is a set of buffers: each queued buffer is
\* returned once, captured or cancelled, before its memory is released.
Contract == INSTANCE CaptureDevice WITH
                Device <- {"device"},
                ready <- IF hasCache THEN {"device"} ELSE {},
                owned <- [d \in {"device"} |-> InDevice]

ReturnsOnce == Contract!Spec

\* A streaming device returns every buffer it has been given.
EveryBufferReturns ==
    \A b \in Buffer : state = "Streaming" /\ b \in InDevice ~> b \notin InDevice
=============================================================================
