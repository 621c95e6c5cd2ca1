---------------------------- MODULE StagesProofs ----------------------------
(***************************************************************************)
(* Theorems about the GStreamer element, for every number of pads and of    *)
(* buffers: no buffer and no wrap is lost (WrapsKept), and the task that    *)
(* pauses itself is always woken (TaskWoken); and about the Android HAL,    *)
(* for any frames and streams: no internal buffer is used for two frames    *)
(* (AndroidBuffersExclusive), and results come in order, each announced     *)
(* (AndroidResults).                                                        *)
(***************************************************************************)
EXTENDS MCStages, QueueLemmas, FiniteSetTheorems

\* What the element is built with: at least one pad, and streams with buffers.
GstConstants == NumPads \in Nat \ {0} /\ PoolSize \in Nat

\* Requests that have a wrap.
Count ==
    Len(queuedRequests) + Len(completedRequests)
      + (IF done # 0 THEN 1 ELSE 0) + (IF taken # 0 THEN 1 ELSE 0)

GstType ==
    /\ task \in {"stopped", "paused", "started"}
    /\ pc \in {"off", "wait", "stop", "create", "acquire", "process", "push", "end"}
    /\ doResume \in BOOLEAN /\ more \in BOOLEAN /\ playing \in BOOLEAN
    /\ connected \in BOOLEAN /\ wake \in BOOLEAN
    /\ acquired \in 0 .. NumPads /\ done \in 0 .. PoolSize /\ taken \in 0 .. PoolSize
    /\ queuedRequests \in Seq(Requests) /\ completedRequests \in Seq(Requests)
    /\ camera \in Seq(Requests)
    /\ shells \in [Pads -> Nat] /\ frames \in [Pads -> Nat]
    /\ down \in [Pads -> Nat] /\ kept \in [Pads -> Nat]
    /\ wasKept \in BOOLEAN
    /\ stale \in Nat /\ refused \in {"no", "now", "before"}

\* Where the task is tells what it holds; without a task the element is empty.
Places ==
    /\ taken # 0 => pc = "push"
    /\ pc = "push" => taken # 0
    /\ acquired # 0 => pc = "acquire"
    /\ pc = "off" => /\ camera = <<>> /\ completedRequests = <<>> /\ done = 0
                     /\ ~playing /\ ~running

\* Every request in the camera has a wrap.  Until wraps are left from an earlier session
\* the camera has the oldest requests with a wrap, and all of them until it refuses one.
CameraFirst ==
    /\ Len(camera) <= stale + Len(queuedRequests)
    /\ refused # "before" =>
        /\ stale = 0 /\ ~mismatch
        /\ \A i \in 1 .. Len(camera) : camera[i] = queuedRequests[i]
    /\ refused = "no" => Len(camera) = Len(queuedRequests)
    /\ refused = "now" => ~connected \/ ~running

\* A wrap is in one place.
WrapsDistinct ==
    /\ IsInjective(queuedRequests) /\ IsInjective(completedRequests)
    /\ ToSet(queuedRequests) \cap ToSet(completedRequests) = {}
    /\ done \notin ToSet(queuedRequests) \cup ToSet(completedRequests)
    /\ taken \notin ToSet(queuedRequests) \cup ToSet(completedRequests)
    /\ done # 0 => done # taken

\* A buffer of the pool is in the pool, downstream, or in a wrap.
PoolCounted ==
    pc # "off" => \A p \in Pads :
        shells[p] + down[p] + Count + (IF p <= acquired THEN 1 ELSE 0) = PoolSize

\* The allocator lacks a frame of a buffer in the pool only when its memory is kept.
FramesFollow ==
    /\ pc # "off" => \A p \in Pads : shells[p] = frames[p] + kept[p]
    /\ ~wasKept => \A p \in Pads : kept[p] = 0

\* A completed request is about to be seen by the task.
CompletedSeen ==
    \/ completedRequests = <<>> \/ wake \/ task # "paused" \/ eos = "sent"
    \/ pc \in {"create", "acquire", "process", "stop"}
    \/ pc = "push" /\ more
    \/ pc = "end" /\ doResume

\* So are buffers for a request.
BuffersSeen ==
    \/ ~Buffers \/ wasKept \/ ~playing
    \/ notify # {} \/ task # "paused" \/ eos = "sent"
    \/ pc \in {"create", "acquire", "stop"}
    \/ pc \in {"process", "push", "end"} /\ doResume


(***************************************************************************)
(* Counting the wraps.                                                     *)
(***************************************************************************)

\* A queue without repetitions has as many members as it is long.
LEMMA MembersOfQueue ==
    ASSUME NEW S, NEW q \in Seq(S), IsInjective(q)
    PROVE  IsFiniteSet(ToSet(q)) /\ Cardinality(ToSet(q)) = Len(q)
<1>1. Len(q) \in Nat /\ DOMAIN q = 1 .. Len(q) /\ q \in [1 .. Len(q) -> S]
  OBVIOUS
<1>2. q \in [1 .. Len(q) -> ToSet(q)]
  BY <1>1 DEF ToSet
<1>3. q \in Bijection(1 .. Len(q), ToSet(q))
  BY <1>1, <1>2 DEF Bijection, Injection, Surjection, ToSet
<1>4. ExistsBijection(1 .. Len(q), ToSet(q))
  BY <1>3 DEF ExistsBijection
<1>5. QED
  BY <1>1, <1>4, FS_CountingElements, FS_NatBijection

\* Two sets with nothing in common.
LEMMA MembersOfUnion ==
    ASSUME NEW S, NEW T, IsFiniteSet(S), IsFiniteSet(T), S \cap T = {}
    PROVE  /\ IsFiniteSet(S \cup T)
           /\ Cardinality(S \cup T) = Cardinality(S) + Cardinality(T)
<1>1. Cardinality(S) \in Nat /\ Cardinality(T) \in Nat /\ Cardinality(S \cap T) = 0
  BY FS_CardinalityType, FS_EmptySet
<1>2. /\ IsFiniteSet(S \cup T)
      /\ Cardinality(S \cup T) = Cardinality(S) + Cardinality(T) - Cardinality(S \cap T)
  BY FS_Union
<1>3. QED
  BY <1>1, <1>2

\* Every wrap is counted once.
LEMMA WrapsCounted ==
    ASSUME GstConstants, GstType, WrapsDistinct
    PROVE  Cardinality(Wraps) = Count /\ Wraps \subseteq Requests /\ IsFiniteSet(Wraps)
<1> DEFINE Q == ToSet(queuedRequests)
           C == ToSet(completedRequests)
           D == IF done # 0 THEN {done} ELSE {}
           T == IF taken # 0 THEN {taken} ELSE {}
<1>1. /\ IsFiniteSet(Q) /\ Cardinality(Q) = Len(queuedRequests)
      /\ IsFiniteSet(C) /\ Cardinality(C) = Len(completedRequests)
  BY MembersOfQueue DEF GstType, WrapsDistinct
<1>2. Q \subseteq Requests /\ C \subseteq Requests
  BY DEF GstType, ToSet
<1>3. /\ 0 \notin Q /\ 0 \notin C
      /\ done # 0 => done \in Requests
      /\ taken # 0 => taken \in Requests
  BY <1>2 DEF GstType, Requests, GstConstants
<1>4. IsFiniteSet(D) /\ Cardinality(D) = IF done # 0 THEN 1 ELSE 0
  BY FS_Singleton, FS_EmptySet
<1>5. IsFiniteSet(T) /\ Cardinality(T) = IF taken # 0 THEN 1 ELSE 0
  BY FS_Singleton, FS_EmptySet
<1>6. Wraps = ((Q \cup C) \cup D) \cup T
  BY <1>3 DEF Wraps
<1>7. Q \cap C = {} /\ (Q \cup C) \cap D = {} /\ ((Q \cup C) \cup D) \cap T = {}
  BY DEF WrapsDistinct
<1>8. D \subseteq Requests /\ T \subseteq Requests
  BY <1>3
<1>a. Len(queuedRequests) \in Nat /\ Len(completedRequests) \in Nat
  BY DEF GstType
<1> HIDE DEF Q, C, D, T
<1>9. IsFiniteSet(Q \cup C) /\ Cardinality(Q \cup C) = Cardinality(Q) + Cardinality(C)
  BY <1>1, <1>7, MembersOfUnion
<1>10. /\ IsFiniteSet((Q \cup C) \cup D)
       /\ Cardinality((Q \cup C) \cup D) = Cardinality(Q \cup C) + Cardinality(D)
  BY <1>9, <1>4, <1>7, MembersOfUnion
<1>11. /\ IsFiniteSet(((Q \cup C) \cup D) \cup T)
       /\ Cardinality(((Q \cup C) \cup D) \cup T)
            = Cardinality((Q \cup C) \cup D) + Cardinality(T)
  BY <1>10, <1>5, <1>7, MembersOfUnion
<1>12. Cardinality(Wraps) = Count
  BY <1>1, <1>4, <1>5, <1>6, <1>9, <1>10, <1>11, <1>a DEF Count
<1>13. QED
  BY <1>2, <1>6, <1>8, <1>11, <1>12

\* While a wrap is made, with a buffer of every pad, a request has none.
LEMMA RequestFree ==
    ASSUME GstConstants, GstType, WrapsDistinct, PoolCounted, pc = "acquire", acquired = NumPads
    PROVE  Min(Requests \ Wraps) \in Requests \ Wraps
<1>1. 1 \in Pads /\ 1 <= acquired
  BY DEF Pads, GstConstants
<1>2. shells[1] + down[1] + Count + 1 = PoolSize
  BY <1>1 DEF PoolCounted
<1>3. shells[1] \in Nat /\ down[1] \in Nat /\ PoolSize \in Nat
  BY <1>1 DEF GstType, GstConstants
<1>4. Cardinality(Wraps) = Count /\ Wraps \subseteq Requests /\ IsFiniteSet(Wraps)
  BY WrapsCounted
<1>5. Cardinality(Wraps) \in Nat
  BY <1>4, FS_CardinalityType
<1>6. IsFiniteSet(Requests) /\ Cardinality(Requests) = PoolSize
  <2>1. 1 \in Int /\ PoolSize \in Int
    BY <1>3
  <2>2. /\ IsFiniteSet(1 .. PoolSize)
        /\ Cardinality(1 .. PoolSize) = IF 1 > PoolSize THEN 0 ELSE PoolSize - 1 + 1
    BY <2>1, FS_Interval, Zenon
  <2> DEFINE c == Cardinality(1 .. PoolSize)
  <2>3. c = IF 1 > PoolSize THEN 0 ELSE PoolSize - 1 + 1
    BY <2>2
  <2> HIDE DEF c
  <2>4. c = PoolSize
    BY <1>3, <2>3
  <2>5. QED
    BY <2>2, <2>4, Zenon DEF Requests, c
<1>7. Wraps # Requests
  BY <1>2, <1>3, <1>4, <1>5, <1>6
<1>8. Requests \ Wraps # {}
  BY <1>4, <1>7
<1>8a. Requests \ Wraps \in SUBSET Nat
  BY <1>3 DEF Requests
<1>9. QED
  BY <1>8, <1>8a, MinProperties

(***************************************************************************)
(* The wraps and the buffers of the pools.                                 *)
(***************************************************************************)

WrapInv == GstType /\ Places /\ CameraFirst /\ WrapsDistinct /\ PoolCounted

\* What a release adds to the pools.
LEMMA ReleaseCounted ==
    ASSUME GstType, NEW n \in [Pads -> Nat], Release(n)
    PROVE  /\ shells' \in [Pads -> Nat] /\ frames' \in [Pads -> Nat]
           /\ \A p \in Pads : shells'[p] = shells[p] + n[p] /\ frames'[p] = frames[p] + n[p]
<1>1. /\ shells' = [p \in Pads |-> shells[p] + n[p]]
      /\ frames' = [p \in Pads |-> frames[p] + n[p]]
  BY DEF Release
<1>2. \A p \in Pads : shells[p] + n[p] \in Nat /\ frames[p] + n[p] \in Nat
  <2>1. \A p \in Pads : shells[p] \in Nat /\ frames[p] \in Nat /\ n[p] \in Nat
    BY DEF GstType
  <2>2. QED
    BY <2>1
<1>3. QED
  BY <1>1, <1>2

\* Empty and full pools.
LEMMA FilledCounted ==
    ASSUME GstConstants
    PROVE  /\ None \in [Pads -> Nat] /\ Filled \in [Pads -> Nat]
           /\ \A p \in Pads : None[p] = 0 /\ Filled[p] = PoolSize
  BY DEF GstConstants, None, Filled

\* The request that completes has a wrap, or that of an earlier request is there.
LEMMA WrapAtFront ==
    ASSUME WrapInv, camera # <<>>
    PROVE  stale = 0 => queuedRequests # <<>>
<1>1. /\ camera \in Seq(Requests) /\ queuedRequests \in Seq(Requests)
      /\ Len(camera) <= stale + Len(queuedRequests)
  BY DEF WrapInv, GstType, CameraFirst
<1>2. QED
  BY <1>1

\* The types hold at first,
LEMMA GstTypeInit ==
    ASSUME GstConstants, Init
    PROVE  GstType
<1>1. None \in [Pads -> Nat]
  BY FilledCounted
<1>2. <<>> \in Seq(Requests)
  BY EmptySeq
<1>3. /\ queuedRequests \in Seq(Requests) /\ completedRequests \in Seq(Requests)
      /\ camera \in Seq(Requests)
  BY <1>2, Zenon DEF Init
<1>4. 0 \in 0 .. NumPads /\ 0 \in 0 .. PoolSize
  BY DEF GstConstants
<1>5. QED
  BY <1>1, <1>3, <1>4 DEF Init, GstType

\* and every step keeps them.
LEMMA GstTypeStep ==
    ASSUME GstConstants, WrapInv, [Next]_vars
    PROVE  GstType'
<1>0. GstType /\ None \in [Pads -> Nat] /\ Filled \in [Pads -> Nat] /\ NumPads \in Nat /\ PoolSize \in Nat
  BY FilledCounted DEF WrapInv, GstConstants
<1>n. NewPools => /\ shells' \in [Pads -> Nat] /\ frames' \in [Pads -> Nat]
                  /\ down' \in [Pads -> Nat] /\ kept' \in [Pads -> Nat] /\ wasKept' \in BOOLEAN
                  /\ queuedRequests' \in Seq(Requests) /\ stale' \in Nat
  <2>1. <<>> \in Seq(Requests) /\ Len(queuedRequests) \in Nat
    BY <1>0, EmptySeq DEF GstType
  <2>2. QED
    <3>1. NewPools => queuedRequests' \in Seq(Requests) /\ stale' = stale + Len(queuedRequests)
      BY <2>1, Zenon DEF NewPools
    <3>2. stale + Len(queuedRequests) \in Nat
      BY <1>0, <2>1 DEF GstType
    <3>3. NewPools => /\ shells' \in [Pads -> Nat] /\ frames' \in [Pads -> Nat]
                      /\ down' \in [Pads -> Nat] /\ kept' \in [Pads -> Nat] /\ wasKept' \in BOOLEAN
      BY <1>0 DEF NewPools
    <3>4. QED
      BY <3>1, <3>2, <3>3
<1>s. ASSUME NEW ok \in BOOLEAN, StartCamera(ok)
      PROVE  refused' \in {"no", "now", "before"}
  BY <1>0, <1>s DEF StartCamera, GstType
<1>1. CASE TaskEnter
  <2>1. task' \in {"stopped", "paused"} /\ refused' \in {"no", "now", "before"}
    BY <1>1, <1>s DEF TaskEnter
  <2>2. QED
    BY <1>0, <1>1, <1>n, <2>1 DEF TaskEnter, GstType
<1>2. CASE Play
  BY <1>0, <1>2 DEF Play, GstType, queues, staleVars, cameraVars, poolVars, downVars
<1>3. CASE Join
  BY <1>0, <1>3 DEF Join, GstType, queues, staleVars, cameraVars, poolVars, downVars, appVars
<1>4. CASE Pause
  BY <1>0, <1>4 DEF Pause, GstType, queues, staleVars, cameraVars, poolVars, downVars
<1>5. CASE StopCamera
  BY <1>0, <1>5 DEF StopCamera, GstType, taskVars, queues, staleVars, poolVars, downVars, appVars
<1>6. CASE Renegotiate
  <2>1. OfWraps(Len(completedRequests)) \in [Pads -> Nat]
    BY <1>0 DEF OfWraps, GstType
  <2>2. Release(OfWraps(Len(completedRequests)))
          => shells' \in [Pads -> Nat] /\ frames' \in [Pads -> Nat]
    BY <1>0, <2>1, ReleaseCounted
  <2>3. <<>> \in Seq(Requests)
    BY EmptySeq
  <2>4. refused' \in {"no", "now", "before"}
    BY <1>6, <1>s DEF Renegotiate
  <2>5. /\ shells' \in [Pads -> Nat] /\ frames' \in [Pads -> Nat]
        /\ down' \in [Pads -> Nat] /\ kept' \in [Pads -> Nat] /\ wasKept' \in BOOLEAN
        /\ queuedRequests' \in Seq(Requests) /\ stale' \in Nat
    BY <1>0, <1>6, <1>n, <2>2 DEF Renegotiate, GstType, downVars
  <2>6. QED
    BY <1>0, <1>6, <2>3, <2>4, <2>5 DEF Renegotiate, GstType
<1>7. CASE TaskLeave
  <2>1. <<>> \in Seq(Requests)
    BY EmptySeq
  <2>2. QED
    BY <1>0, <1>7, <2>1 DEF TaskLeave, GstType, cameraVars, downVars, staleVars
<1>8. CASE CreateRequest
  BY <1>0, <1>8 DEF CreateRequest, GstType, queues, staleVars, cameraVars, poolVars, downVars, appVars
<1>9. CASE Acquire
  <2>1. PICK q \in Pads : q = acquired + 1
    BY <1>0, <1>9 DEF Acquire, GstType, Pads
  <2>2. /\ acquired' = q /\ shells[q] > 0 /\ frames[q] > 0
        /\ shells' = [shells EXCEPT ![q] = @ - 1]
        /\ frames' = [frames EXCEPT ![q] = @ - 1]
    BY <1>9, <2>1 DEF Acquire
  <2>3. shells[q] - 1 \in Nat /\ frames[q] - 1 \in Nat
    BY <1>0, <2>2 DEF GstType
  <2>4. shells' \in [Pads -> Nat] /\ frames' \in [Pads -> Nat]
    BY <1>0, <2>2, <2>3 DEF GstType
  <2>5. acquired' \in 0 .. NumPads
    BY <1>0, <2>2 DEF Pads
  <2>6. QED
    BY <1>0, <1>9, <2>4, <2>5 DEF Acquire, GstType, queues, staleVars, cameraVars, downVars, appVars
<1>10. CASE AcquireFails
  <2> DEFINE n == [p \in Pads |-> IF p <= acquired THEN 1 ELSE 0]
  <2>1. n \in [Pads -> Nat] /\ Release(n)
    BY <1>10 DEF AcquireFails
  <2>2. shells' \in [Pads -> Nat] /\ frames' \in [Pads -> Nat]
    BY <1>0, <2>1, ReleaseCounted
  <2>3. task' \in {"stopped", "paused", "started"} /\ acquired' \in 0 .. NumPads
    BY <1>0, <1>10 DEF AcquireFails, Resumed, GstType, GstConstants
  <2>4. pc' = "process" /\ UNCHANGED <<doResume, taken, more, queues, cameraVars, notify, downVars, appVars>>
    BY <1>10 DEF AcquireFails
  <2>5. QED
    BY <1>0, <2>2, <2>3, <2>4 DEF GstType, queues, staleVars, cameraVars, downVars, appVars
<1>11. CASE QueueRequest
  <2>1. PICK r \in Requests : r = Min(Requests \ Wraps)
    BY <1>0, <1>11, RequestFree DEF WrapInv, QueueRequest
  <2>2. /\ queuedRequests' = Append(queuedRequests, r)
        /\ camera' = Append(camera, r) \/ camera' = camera
        /\ refused' \in {"now", refused}
    BY <1>11, <2>1 DEF QueueRequest
  <2>3. queuedRequests' \in Seq(Requests) /\ camera' \in Seq(Requests)
    <3>1. Append(queuedRequests, r) \in Seq(Requests) /\ Append(camera, r) \in Seq(Requests)
      BY <1>0 DEF GstType
    <3>2. QED
      BY <1>0, <2>2, <3>1, Zenon DEF GstType
  <2>4. QED
    BY <1>0, <1>11, <2>2, <2>3 DEF QueueRequest, GstType, poolVars, downVars, appVars
<1>12. CASE ProcessTake
  <2>1. completedRequests # <<>> => /\ Head(completedRequests) \in Requests
                                     /\ Tail(completedRequests) \in Seq(Requests)
    BY <1>0, HeadInToSet DEF GstType
  <2>1a. Requests \subseteq 0 .. PoolSize /\ (Len(completedRequests) > 1) \in BOOLEAN
    BY DEF Requests
  <2>2. taken' \in 0 .. PoolSize /\ completedRequests' \in Seq(Requests) /\ more' \in BOOLEAN
    BY <1>0, <1>12, <2>1, <2>1a, Zenon DEF ProcessTake, GstType
  <2>3. QED
    BY <1>0, <1>12, <2>2 DEF ProcessTake, GstType, cameraVars, poolVars, downVars, appVars, staleVars
<1>13. CASE ProcessPush
  <2> DEFINE n == [p \in Pads |-> IF p \in Copied THEN 1 ELSE 0]
  <2>1. n \in [Pads -> Nat] /\ Release(n)
    BY <1>13 DEF ProcessPush
  <2>2. shells' \in [Pads -> Nat] /\ frames' \in [Pads -> Nat]
    BY <1>0, <2>1, ReleaseCounted
  <2>3. down' \in [Pads -> Nat]
    BY <1>0, <1>13 DEF ProcessPush, GstType
  <2>3a. doResume' \in BOOLEAN /\ taken' \in 0 .. PoolSize
    BY <1>0, <1>13 DEF ProcessPush, GstType
  <2>3b. task' \in {"stopped", "paused", "started"} /\ pc' \in {"end", "wait"}
    BY <1>0, <1>13 DEF ProcessPush, GstType, Resumed
  <2>4. QED
    BY <1>0, <1>13, <2>2, <2>3, <2>3a, <2>3b
    DEF ProcessPush, Resumed, GstType, queues, staleVars, cameraVars, appVars
<1>14. CASE End
  BY <1>0, <1>14 DEF End, Resumed, GstType, queues, staleVars, cameraVars, poolVars, downVars, appVars
<1>15. CASE RequestCompleted
  <2>1. queuedRequests # <<>> /\ camera # <<>>
    BY <1>15, WrapAtFront DEF RequestCompleted, CompletesOne
  <2>2. /\ Head(queuedRequests) \in Requests /\ Tail(queuedRequests) \in Seq(Requests)
        /\ Tail(camera) \in Seq(Requests)
    BY <1>0, <2>1, HeadInToSet DEF GstType
  <2>3. OfWraps(1) \in [Pads -> Nat]
    BY DEF OfWraps
  <2>4. Release(OfWraps(1)) => shells' \in [Pads -> Nat] /\ frames' \in [Pads -> Nat]
    BY <1>0, <2>3, ReleaseCounted
  <2>5. Requests \subseteq 0 .. PoolSize
    BY DEF Requests
  <2>6. /\ queuedRequests' \in Seq(Requests) /\ camera' \in Seq(Requests) /\ done' \in 0 .. PoolSize
        /\ shells' \in [Pads -> Nat] /\ frames' \in [Pads -> Nat]
    BY <1>0, <1>15, <2>2, <2>4, <2>5 DEF RequestCompleted, ReleaseThenNotify, GstType, poolVars
  <2>7. QED
    BY <1>0, <1>15, <2>6 DEF RequestCompleted, GstType, taskVars, downVars, appVars, staleVars
<1>15a. CASE StaleCompleted
  <2>1. Tail(camera) \in Seq(Requests)
    BY <1>0, <1>15a DEF StaleCompleted, CompletesOne, GstType
  <2>2. stale - 1 \in Nat
    BY <1>0, <1>15a DEF StaleCompleted, GstType
  <2>3. QED
    BY <1>0, <1>15a, <2>1, <2>2 DEF StaleCompleted, GstType, taskVars, poolVars, appVars
<1>16. CASE PushCompleted
  <2>1. done \in Requests
    BY <1>0, <1>16 DEF PushCompleted, GstType, Requests
  <2>2. Append(completedRequests, done) \in Seq(Requests)
    BY <1>0, <2>1 DEF GstType
  <2>3. QED
    BY <1>0, <1>16, <2>2 DEF PushCompleted, GstType, taskVars, poolVars, downVars, appVars, staleVars
<1>17. CASE ResumeTask
  BY <1>0, <1>17 DEF ResumeTask, Resumed, GstType, queues, staleVars, poolVars, downVars, appVars
<1>18. ASSUME NEW p \in Pads, ReleaseBuffer(p) PROVE GstType'
  <2>1. [None EXCEPT ![p] = 1] \in [Pads -> Nat]
    BY <1>0
  <2>2. shells' \in [Pads -> Nat] /\ frames' \in [Pads -> Nat]
    BY <1>0, <1>18, <2>1, ReleaseCounted DEF ReleaseBuffer, ReleaseThenNotify
  <2>3. down' \in [Pads -> Nat]
    BY <1>0, <1>18 DEF ReleaseBuffer, GstType
  <2>4. QED
    BY <1>0, <1>18, <2>2, <2>3 DEF ReleaseBuffer, GstType, taskVars, queues, staleVars, cameraVars, appVars
<1>19. ASSUME NEW p \in Pads, ReleaseShell(p) PROVE GstType'
  <2>1. down' \in [Pads -> Nat]
    BY <1>0, <1>19 DEF ReleaseShell, GstType
  <2>2. kept' \in [Pads -> Nat]
    BY <1>0, <1>19 DEF ReleaseShell, GstType
  <2>3. shells' \in [Pads -> Nat]
    BY <1>0, <1>19 DEF ReleaseShell, GstType
  <2>4. QED
    BY <1>0, <1>19, <2>1, <2>2, <2>3 DEF ReleaseShell, GstType, taskVars, queues, staleVars, cameraVars, appVars
<1>20. ASSUME NEW p \in Pads, ReleaseMemory(p) PROVE GstType'
  <2>1. kept' \in [Pads -> Nat]
    BY <1>0, <1>20 DEF ReleaseMemory, GstType
  <2>2. frames' \in [Pads -> Nat]
    BY <1>0, <1>20 DEF ReleaseMemory, GstType
  <2>3. QED
    BY <1>0, <1>20, <2>1, <2>2 DEF ReleaseMemory, GstType, taskVars, queues, staleVars, cameraVars, appVars
<1>21. CASE BufferNotify
  BY <1>0, <1>21 DEF BufferNotify, Resumed, GstType, queues, staleVars, cameraVars, downVars, appVars
<1>22. CASE OldBuffersReleased
  BY <1>0, <1>22 DEF OldBuffersReleased, Resumed, GstType, queues, staleVars, cameraVars, poolVars, appVars
<1>23. CASE SendEos
  BY <1>0, <1>23 DEF SendEos, GstType, taskVars, queues, staleVars, cameraVars, poolVars, downVars
<1>24a. CASE Reopen
  BY <1>0, <1>24a DEF Reopen, GstType, taskVars, queues, staleVars, cameraVars, poolVars, downVars
<1>24. CASE Disconnect
  BY <1>0, <1>24 DEF Disconnect, GstType, taskVars, queues, staleVars, cameraVars, poolVars, downVars
<1>25. CASE UNCHANGED vars
  BY <1>0, <1>25 DEF GstType, vars, taskVars, queues, staleVars, cameraVars, poolVars, downVars, appVars
<1>26. QED
  BY <1>1, <1>2, <1>3, <1>4, <1>5, <1>6, <1>7, <1>8, <1>9, <1>10, <1>11, <1>12, <1>13,
     <1>14, <1>15, <1>15a, <1>16, <1>17, <1>18, <1>19, <1>20, <1>21, <1>22, <1>23, <1>24, <1>24a, <1>25 DEF Next

\* Every step keeps what the place of the task says.
LEMMA PlacesStep ==
    ASSUME GstConstants, WrapInv, [Next]_vars
    PROVE  Places'
<1>0. GstType /\ Places
  BY DEF WrapInv
<1> USE DEF Places
<1>1. CASE TaskEnter
  BY <1>0, <1>1 DEF TaskEnter
<1>2. CASE Play
  BY <1>0, <1>2 DEF Play, queues, staleVars, cameraVars
<1>3. CASE Join
  BY <1>0, <1>3 DEF Join, queues, staleVars, cameraVars, appVars
<1>4. CASE Pause
  BY <1>0, <1>4 DEF Pause, queues, staleVars, cameraVars
<1>5. CASE StopCamera
  BY <1>0, <1>5 DEF StopCamera, taskVars, queues, staleVars, appVars
<1>6. CASE Renegotiate
  BY <1>0, <1>6 DEF Renegotiate, appVars
<1>7. CASE TaskLeave
  BY <1>0, <1>7 DEF TaskLeave, Stopped, cameraVars
<1>8. CASE CreateRequest
  BY <1>0, <1>8 DEF CreateRequest, queues, staleVars, cameraVars, appVars, GstType
<1>9. CASE Acquire
  BY <1>0, <1>9 DEF Acquire, queues, staleVars, cameraVars, appVars
<1>10. CASE AcquireFails
  BY <1>0, <1>10 DEF AcquireFails, queues, staleVars, cameraVars, appVars
<1>11. CASE QueueRequest
  BY <1>0, <1>11 DEF QueueRequest, appVars
<1>12. CASE ProcessTake
  <2>1. completedRequests # <<>> => Head(completedRequests) # 0
    <3>1. completedRequests # <<>> => Head(completedRequests) \in Requests
      BY <1>0, HeadInToSet DEF GstType
    <3>2. QED
      BY <3>1 DEF Requests
  <2>2. QED
    BY <1>0, <1>12, <2>1 DEF ProcessTake, cameraVars, appVars
<1>13. CASE ProcessPush
  BY <1>0, <1>13 DEF ProcessPush, queues, staleVars, cameraVars, appVars
<1>14. CASE End
  BY <1>0, <1>14 DEF End, queues, staleVars, cameraVars, appVars
<1>15. CASE RequestCompleted
  BY <1>0, <1>15 DEF RequestCompleted, CompletesOne, taskVars, appVars
<1>15a. CASE StaleCompleted
  BY <1>0, <1>15a DEF StaleCompleted, CompletesOne, taskVars, appVars
<1>16. CASE PushCompleted
  BY <1>0, <1>16 DEF PushCompleted, taskVars, appVars
<1>17. CASE ResumeTask
  BY <1>0, <1>17 DEF ResumeTask, queues, staleVars, appVars
<1>18. ASSUME NEW p \in Pads, ReleaseBuffer(p) \/ ReleaseShell(p) \/ ReleaseMemory(p)
       PROVE  Places'
  BY <1>0, <1>18
  DEF ReleaseBuffer, ReleaseShell, ReleaseMemory, taskVars, queues, staleVars, cameraVars, appVars
<1>19. CASE BufferNotify \/ OldBuffersReleased
  BY <1>0, <1>19 DEF BufferNotify, OldBuffersReleased, queues, staleVars, cameraVars, appVars
<1>20. CASE SendEos \/ Disconnect \/ Reopen
  BY <1>0, <1>20 DEF SendEos, Disconnect, Reopen, taskVars, queues, staleVars, cameraVars
<1>21. CASE UNCHANGED vars
  BY <1>0, <1>21 DEF vars, taskVars, queues, staleVars, cameraVars, appVars
<1>22. QED
  BY <1>1, <1>2, <1>3, <1>4, <1>5, <1>6, <1>7, <1>8, <1>9, <1>10, <1>11, <1>12, <1>13,
     <1>14, <1>15, <1>15a, <1>16, <1>17, <1>18, <1>19, <1>20, <1>21 DEF Next

\* The steps that move no wrap and no buffer of a pool.
Quiet ==
    \/ Play \/ Join \/ Pause \/ StopCamera \/ CreateRequest \/ End \/ ResumeTask
    \/ BufferNotify \/ OldBuffersReleased \/ SendEos \/ Disconnect \/ Reopen
    \/ \E p \in Pads : ReleaseMemory(p)
    \/ UNCHANGED vars

\* Steps that move neither request nor buffer.
LEMMA NothingMoves ==
    ASSUME Quiet, Places
    PROVE  /\ UNCHANGED <<queuedRequests, completedRequests, camera, done, taken, mismatch>>
           /\ UNCHANGED <<shells, down, acquired, stale, refused>>
           /\ connected' /\ running' => connected /\ running
           /\ pc' = "off" <=> pc = "off"
<1>1. CASE Play \/ Join \/ Pause \/ CreateRequest \/ End
  BY <1>1 DEF Play, Join, Pause, CreateRequest, End, queues, staleVars, cameraVars, poolVars, downVars, appVars
<1>2. CASE StopCamera \/ SendEos \/ Disconnect \/ Reopen
  BY <1>2 DEF Places, StopCamera, SendEos, Disconnect, Reopen, taskVars, queues, staleVars, cameraVars, poolVars, downVars, appVars
<1>3. CASE ResumeTask \/ BufferNotify \/ OldBuffersReleased
  BY <1>3 DEF ResumeTask, BufferNotify, OldBuffersReleased, queues, staleVars, cameraVars, poolVars, downVars, appVars
<1>4. CASE \E p \in Pads : ReleaseMemory(p)
  BY <1>4 DEF ReleaseMemory, taskVars, queues, staleVars, cameraVars, appVars
<1>5. CASE UNCHANGED vars
  BY <1>5 DEF vars, taskVars, queues, staleVars, cameraVars, poolVars, downVars, appVars
<1>6. QED
  BY <1>1, <1>2, <1>3, <1>4, <1>5 DEF Quiet

\* The requests in the camera stay the first of the queued ones.
LEMMA CameraFirstStep ==
    ASSUME GstConstants, WrapInv, [Next]_vars
    PROVE  CameraFirst'
<1>0. GstType /\ CameraFirst /\ Places
  BY DEF WrapInv
<1>1. CASE Quiet
  BY <1>0, <1>1, NothingMoves DEF CameraFirst
<1>2. CASE TaskEnter \/ Renegotiate
  <2>1. /\ camera = <<>> /\ camera' = <<>> /\ mismatch' = mismatch
        /\ refused' = IF refused = "no" THEN "no" ELSE "before"
    BY <1>0, <1>2 DEF TaskEnter, Renegotiate, Stopped, StartCamera, WrapInv, Places
  <2>2. /\ Len(camera) = 0 /\ Len(camera') = 0 /\ Len(queuedRequests) \in Nat /\ stale \in Nat
        /\ Len(<<>>) = 0
    BY <1>0, <2>1 DEF GstType
  <2>3. \/ stale' = stale + Len(queuedRequests) /\ queuedRequests' = <<>>
        \/ stale' = stale /\ queuedRequests' = queuedRequests
    BY <1>2 DEF TaskEnter, Renegotiate, NewPools
  <2>4. QED
    BY <1>0, <2>1, <2>2, <2>3 DEF CameraFirst
<1>2a. CASE TaskLeave
  BY <1>0, <1>2a DEF CameraFirst, TaskLeave, cameraVars, staleVars
<1>3. CASE Acquire \/ AcquireFails \/ ProcessTake \/ ProcessPush
  BY <1>0, <1>3 DEF CameraFirst, Acquire, AcquireFails, ProcessTake, ProcessPush, queues, staleVars, cameraVars, appVars
<1>4. CASE PushCompleted
  BY <1>0, <1>4 DEF CameraFirst, PushCompleted, appVars, staleVars
<1>5. ASSUME NEW p \in Pads, ReleaseBuffer(p) \/ ReleaseShell(p)
      PROVE  CameraFirst'
  BY <1>0, <1>5 DEF CameraFirst, ReleaseBuffer, ReleaseShell, queues, staleVars, cameraVars, appVars
<1>6. CASE QueueRequest
  <2>1. PICK r \in Requests : r = Min(Requests \ Wraps)
    BY <1>0, <1>6, RequestFree DEF WrapInv, QueueRequest
  <2>2. /\ queuedRequests' = Append(queuedRequests, r)
        /\ \/ camera' = Append(camera, r) /\ refused' = refused /\ refused # "now"
           \/ /\ camera' = camera /\ refused' = IF refused = "no" THEN "now" ELSE refused
              /\ ~connected' \/ ~running'
        /\ mismatch' = mismatch /\ stale' = stale
    BY <1>0, <1>6, <2>1 DEF CameraFirst, QueueRequest, appVars
  <2>3. queuedRequests \in Seq(Requests) /\ camera \in Seq(Requests)
    BY <1>0 DEF GstType
  <2>4. /\ Len(Append(queuedRequests, r)) = Len(queuedRequests) + 1
        /\ Append(queuedRequests, r)[Len(queuedRequests) + 1] = r
        /\ \A i \in 1 .. Len(queuedRequests) : Append(queuedRequests, r)[i] = queuedRequests[i]
        /\ Len(Append(camera, r)) = Len(camera) + 1
        /\ Append(camera, r)[Len(camera) + 1] = r
        /\ \A i \in 1 .. Len(camera) : Append(camera, r)[i] = camera[i]
        /\ Len(queuedRequests) \in Nat /\ Len(camera) \in Nat
    BY <2>3
  <2>5. CASE camera' = Append(camera, r) /\ refused' = refused /\ refused # "now"
    <3>1. Len(camera') <= stale' + Len(queuedRequests')
      BY <1>0, <2>2, <2>4, <2>5 DEF CameraFirst, GstType
    <3>2. ASSUME refused # "before"
          PROVE  \A i \in 1 .. Len(camera') : camera'[i] = queuedRequests'[i]
      <4>1. stale = 0 /\ Len(camera) <= Len(queuedRequests)
        BY <1>0, <2>4, <3>2 DEF CameraFirst
      <4>2. QED
        <5>1. Len(camera) = Len(queuedRequests)
          BY <1>0, <2>5, <3>2 DEF CameraFirst, GstType
        <5>2. \A i \in 1 .. Len(camera) : camera[i] = queuedRequests[i]
          BY <1>0, <3>2 DEF CameraFirst
        <5>3. QED
          BY <2>2, <2>4, <2>5, <5>1, <5>2
    <3>3. QED
      BY <1>0, <2>2, <2>4, <2>5, <3>1, <3>2 DEF CameraFirst
  <2>6. CASE /\ camera' = camera /\ refused' = IF refused = "no" THEN "now" ELSE refused
             /\ ~connected' \/ ~running'
    <3>1. Len(camera') <= stale' + Len(queuedRequests')
      BY <1>0, <2>2, <2>4, <2>6 DEF CameraFirst, GstType
    <3>2. ASSUME refused # "before"
          PROVE  \A i \in 1 .. Len(camera') : camera'[i] = queuedRequests'[i]
      <4>1. stale = 0 /\ Len(camera) <= Len(queuedRequests)
        BY <1>0, <2>4, <3>2 DEF CameraFirst
      <4>2. QED
        BY <1>0, <2>2, <2>4, <2>6, <3>2, <4>1 DEF CameraFirst
    <3>3. QED
      BY <1>0, <2>2, <2>4, <2>6, <3>1, <3>2 DEF CameraFirst
  <2>7. QED
    BY <2>2, <2>5, <2>6
<1>7. CASE RequestCompleted
  <2>1. camera # <<>> /\ queuedRequests \in Seq(Requests) /\ camera \in Seq(Requests)
    BY <1>0, <1>7 DEF RequestCompleted, CompletesOne, GstType
  <2>2. queuedRequests # <<>> /\ Len(queuedRequests) \in Nat /\ Len(camera) \in Nat /\ Len(camera) > 0
    BY <1>7, <2>1, WrapAtFront DEF RequestCompleted
  <2>3. /\ Len(Tail(queuedRequests)) = Len(queuedRequests) - 1
        /\ \A i \in 1 .. Len(queuedRequests) - 1 : Tail(queuedRequests)[i] = queuedRequests[i + 1]
        /\ Len(Tail(camera)) = Len(camera) - 1
        /\ \A i \in 1 .. Len(camera) - 1 : Tail(camera)[i] = camera[i + 1]
        /\ Head(queuedRequests) = queuedRequests[1] /\ Head(camera) = camera[1]
    BY <2>1, <2>2
  <2>4. /\ camera' = Tail(camera) /\ queuedRequests' = Tail(queuedRequests)
        /\ mismatch' = (mismatch \/ Head(queuedRequests) # Head(camera))
        /\ refused' = refused /\ stale' = stale /\ stale = 0
        /\ connected' = connected /\ running' = running
    BY <1>7 DEF RequestCompleted, staleVars, appVars
  <2>5. Len(camera') <= stale' + Len(queuedRequests')
    BY <1>0, <2>2, <2>3, <2>4 DEF CameraFirst
  <2>6. ASSUME refused # "before"
        PROVE  ~mismatch' /\ \A i \in 1 .. Len(camera') : camera'[i] = queuedRequests'[i]
    <3>1. Len(camera) <= Len(queuedRequests)
      BY <1>0, <2>2, <2>4 DEF CameraFirst
    <3>2. Head(queuedRequests) = Head(camera)
      BY <1>0, <2>2, <2>3, <2>6 DEF CameraFirst
    <3>3. \A i \in 1 .. Len(camera) - 1 : Tail(camera)[i] = Tail(queuedRequests)[i]
      BY <1>0, <2>2, <2>3, <2>6, <3>1 DEF CameraFirst
    <3>4. ~mismatch'
      BY <1>0, <2>4, <2>6, <3>2 DEF CameraFirst
    <3>5. QED
      BY <2>3, <2>4, <3>3, <3>4
  <2>7. refused = "no" => Len(camera') = Len(queuedRequests')
    BY <1>0, <2>3, <2>4 DEF CameraFirst
  <2>8. QED
    BY <1>0, <2>4, <2>5, <2>6, <2>7 DEF CameraFirst
<1>7a. CASE StaleCompleted
  <2>1. /\ camera # <<>> /\ stale > 0 /\ camera' = Tail(camera) /\ stale' = stale - 1
        /\ UNCHANGED <<queuedRequests, refused>>
    BY <1>7a DEF StaleCompleted, CompletesOne
  <2>2. Len(camera') = Len(camera) - 1 /\ Len(camera) \in Nat /\ Len(queuedRequests) \in Nat /\ stale \in Nat
    BY <1>0, <2>1 DEF GstType
  <2>3. refused = "before"
    BY <1>0, <2>1, <2>2 DEF CameraFirst, GstType
  <2>4. QED
    BY <1>0, <2>1, <2>2, <2>3 DEF CameraFirst
<1>8. QED
  BY <1>1, <1>2, <1>2a, <1>3, <1>4, <1>5, <1>6, <1>7, <1>7a DEF Next, Quiet

\* No two wraps are of the same request.
LEMMA WrapsDistinctStep ==
    ASSUME GstConstants, WrapInv, [Next]_vars
    PROVE  WrapsDistinct'
<1>0. GstType /\ WrapsDistinct /\ Places
  BY DEF WrapInv
<1>a. queuedRequests \in Seq(Requests) /\ completedRequests \in Seq(Requests)
  BY <1>0 DEF GstType
<1>b. ToSet(queuedRequests) \subseteq Requests /\ ToSet(completedRequests) \subseteq Requests
  BY <1>a DEF ToSet
<1>c. 0 \notin ToSet(queuedRequests) /\ 0 \notin ToSet(completedRequests)
  BY <1>b DEF Requests
<1>1. CASE Quiet
  BY <1>0, <1>1, NothingMoves DEF WrapsDistinct
<1>2. CASE TaskEnter
  <2>1. queuedRequests' = <<>> /\ UNCHANGED <<completedRequests, done, taken>>
    BY <1>2 DEF TaskEnter, NewPools
  <2>2. QED
    BY <1>0, <2>1, ToSetOfEmpty DEF WrapsDistinct
<1>3. CASE Renegotiate \/ TaskLeave
  <2>1. /\ completedRequests' = <<>> /\ UNCHANGED <<done, taken>>
        /\ queuedRequests' = <<>> \/ queuedRequests' = queuedRequests
    BY <1>3 DEF Renegotiate, TaskLeave, NewPools, cameraVars
  <2>2. QED
    BY <1>0, <2>1, ToSetOfEmpty DEF WrapsDistinct
<1>4. CASE Acquire \/ AcquireFails
  BY <1>0, <1>4 DEF WrapsDistinct, Acquire, AcquireFails, queues, staleVars, cameraVars
<1>5. ASSUME NEW p \in Pads, ReleaseBuffer(p) \/ ReleaseShell(p)
      PROVE  WrapsDistinct'
  BY <1>0, <1>5 DEF WrapsDistinct, ReleaseBuffer, ReleaseShell, taskVars, queues, staleVars, cameraVars
<1>6. CASE QueueRequest
  <2>1. PICK r \in Requests : r = Min(Requests \ Wraps) /\ r \notin Wraps
    BY <1>0, <1>6, RequestFree DEF WrapInv, QueueRequest
  <2>2. /\ queuedRequests' = Append(queuedRequests, r)
        /\ UNCHANGED <<completedRequests, done, taken>>
    BY <1>6, <2>1 DEF QueueRequest
  <2>3. r # 0
    BY DEF Requests
  <2>4. r \notin ToSet(queuedRequests) /\ r \notin ToSet(completedRequests) /\ r # done /\ r # taken
    BY <2>1, <2>3 DEF Wraps
  <2>5. /\ ToSet(queuedRequests') = ToSet(queuedRequests) \cup {r}
        /\ IsInjective(queuedRequests')
    BY <1>0, <1>a, <2>2, <2>4, ToSetOfAppend, InjectiveAppend DEF WrapsDistinct
  <2>6. QED
    BY <1>0, <2>2, <2>4, <2>5 DEF WrapsDistinct
<1>7. CASE ProcessTake
  <2>1. CASE completedRequests = <<>>
    BY <1>0, <1>7, <2>1 DEF WrapsDistinct, ProcessTake, cameraVars
  <2>2. CASE completedRequests # <<>>
    <3>1. PICK h \in ToSet(completedRequests) : h = Head(completedRequests)
      BY <1>a, <2>2, HeadInToSet
    <3>2. /\ ToSet(Tail(completedRequests)) = ToSet(completedRequests) \ {h}
          /\ IsInjective(Tail(completedRequests))
      BY <1>0, <1>a, <2>2, <3>1, ToSetOfTail DEF WrapsDistinct
    <3>3. /\ completedRequests' = Tail(completedRequests) /\ taken' = h
          /\ UNCHANGED <<queuedRequests, done>>
      BY <1>7, <2>2, <3>1 DEF ProcessTake, cameraVars
    <3>4. QED
      BY <1>0, <3>1, <3>2, <3>3 DEF WrapsDistinct
  <2>3. QED
    BY <2>1, <2>2
<1>8. CASE ProcessPush
  <2>1. taken' = 0 /\ UNCHANGED <<queuedRequests, completedRequests, done>>
    BY <1>8 DEF ProcessPush, queues, staleVars, cameraVars
  <2>2. QED
    BY <1>0, <1>c, <2>1 DEF WrapsDistinct
<1>9. CASE RequestCompleted
  <2>1. queuedRequests # <<>>
    BY <1>9, WrapAtFront DEF RequestCompleted, CompletesOne
  <2>2. PICK h \in ToSet(queuedRequests) : h = Head(queuedRequests)
    BY <1>a, <2>1, HeadInToSet
  <2>3. /\ ToSet(Tail(queuedRequests)) = ToSet(queuedRequests) \ {h}
        /\ IsInjective(Tail(queuedRequests))
    BY <1>0, <1>a, <2>1, <2>2, ToSetOfTail DEF WrapsDistinct
  <2>4. /\ queuedRequests' = Tail(queuedRequests) /\ (done' = h \/ done' = done)
        /\ UNCHANGED <<completedRequests, taken>>
    BY <1>9, <2>2 DEF RequestCompleted, taskVars
  <2>5. QED
    BY <1>0, <2>2, <2>3, <2>4 DEF WrapsDistinct
<1>10. CASE PushCompleted
  <2>1. PICK d \in Requests : d = done
    BY <1>0, <1>10 DEF PushCompleted, GstType, Requests
  <2>2. /\ completedRequests' = Append(completedRequests, d) /\ done' = 0
        /\ UNCHANGED <<queuedRequests, taken>>
    BY <1>10, <2>1 DEF PushCompleted, taskVars
  <2>3. d # 0 /\ d \notin ToSet(completedRequests) /\ d \notin ToSet(queuedRequests) /\ d # taken
    BY <1>0, <1>10, <2>1 DEF WrapsDistinct, PushCompleted
  <2>4. /\ ToSet(completedRequests') = ToSet(completedRequests) \cup {d}
        /\ IsInjective(completedRequests')
    BY <1>0, <1>a, <2>2, <2>3, ToSetOfAppend, InjectiveAppend DEF WrapsDistinct
  <2>5. QED
    BY <1>0, <1>c, <2>2, <2>3, <2>4 DEF WrapsDistinct
<1>10a. CASE StaleCompleted
  BY <1>0, <1>10a DEF WrapsDistinct, StaleCompleted, taskVars
<1>11. QED
  BY <1>1, <1>2, <1>3, <1>4, <1>5, <1>6, <1>7, <1>8, <1>9, <1>10, <1>10a DEF Next, Quiet

\* Every buffer stays in a pool, downstream or in a wrap.
LEMMA PoolCountedStep ==
    ASSUME GstConstants, WrapInv, [Next]_vars
    PROVE  PoolCounted'
<1>0. GstType /\ PoolCounted /\ Places /\ CameraFirst
  BY DEF WrapInv
<1>a. /\ shells \in [Pads -> Nat] /\ down \in [Pads -> Nat] /\ acquired \in Nat
      /\ Len(queuedRequests) \in Nat /\ Len(completedRequests) \in Nat
      /\ NumPads \in Nat /\ PoolSize \in Nat
  BY <1>0 DEF GstType, GstConstants
<1>b. Count \in Nat
  BY <1>a DEF Count
<1>c. queuedRequests \in Seq(Requests) /\ completedRequests \in Seq(Requests)
  BY <1>0 DEF GstType
<1>e. Len(<<>>) = 0
  OBVIOUS
<1>1. CASE Quiet
  BY <1>0, <1>1, NothingMoves DEF PoolCounted, Count
<1>2. CASE TaskEnter
  <2>1. /\ queuedRequests' = <<>> /\ completedRequests' = completedRequests
        /\ taken' = taken /\ done' = done /\ acquired' = acquired
        /\ shells' = Filled /\ down' = None
        /\ pc = "off"
    BY <1>2 DEF TaskEnter, NewPools
  <2>2. taken = 0 /\ done = 0 /\ acquired = 0 /\ completedRequests = <<>>
    BY <1>0, <2>1 DEF Places
  <2>4. Count' = 0
    BY <1>e, <2>1, <2>2 DEF Count
  <2>5. QED
    BY <1>a, <2>1, <2>2, <2>4, FilledCounted DEF PoolCounted, Pads
<1>3. CASE TaskLeave
  BY <1>3 DEF TaskLeave, PoolCounted
<1>4. CASE Renegotiate
  <2>1. /\ completedRequests' = <<>> /\ pc = "stop" /\ camera = <<>> /\ done = 0
        /\ UNCHANGED <<acquired, taken, done>>
    BY <1>4 DEF Renegotiate, Stopped
  <2>2. taken = 0 /\ acquired = 0
    BY <1>0, <2>1 DEF Places
  <2>3. CASE NewPools
    <3>1. queuedRequests' = <<>> /\ shells' = Filled /\ down' = None
      BY <2>3 DEF NewPools
    <3>2. Count' = 0
      BY <1>e, <2>1, <2>2, <3>1 DEF Count
    <3>3. QED
      BY <1>a, <2>1, <2>2, <3>1, <3>2, FilledCounted DEF PoolCounted, Pads
  <2>4. CASE Release(OfWraps(Len(completedRequests))) /\ down' = down /\ queuedRequests' = queuedRequests
    <3>1. OfWraps(Len(completedRequests)) \in [Pads -> Nat]
      BY <1>a DEF OfWraps
    <3>2. \A p \in Pads : shells'[p] = shells[p] + Len(completedRequests)
      BY <1>0, <2>4, <3>1, ReleaseCounted DEF OfWraps
    <3>3. Count = Len(queuedRequests) + Len(completedRequests) /\ Count' = Len(queuedRequests)
      BY <1>a, <1>e, <2>1, <2>2, <2>4 DEF Count
    <3>4. \A p \in Pads : shells[p] + down[p] + Count + 0 = PoolSize
      BY <1>0, <2>1, <2>2 DEF PoolCounted, Pads
    <3>5. acquired' = 0 /\ down' = down
      BY <2>1, <2>2, <2>4
    <3>6. ASSUME NEW p \in Pads
          PROVE  shells'[p] + down'[p] + Count' + (IF p <= acquired' THEN 1 ELSE 0) = PoolSize
      <4>1. shells[p] \in Nat /\ down[p] \in Nat /\ ~(p <= 0)
        BY <1>a, <3>6 DEF Pads
      <4>2. shells'[p] = shells[p] + Len(completedRequests) /\ shells[p] + down[p] + Count + 0 = PoolSize
        BY <3>2, <3>4, <3>6
      <4> DEFINE a == Len(queuedRequests)
                 b == Len(completedRequests)
      <4>3. a \in Nat /\ b \in Nat /\ Count = a + b /\ Count' = a /\ shells'[p] = shells[p] + b
        BY <1>a, <3>3, <4>2
      <4> HIDE DEF a, b
      <4>4. shells'[p] + down'[p] + Count' = PoolSize
        BY <1>a, <3>5, <4>1, <4>2, <4>3
      <4>5. QED
        BY <1>a, <3>5, <4>1, <4>4
    <3>7. QED
      BY <3>6 DEF PoolCounted
  <2>5. QED
    BY <1>4, <2>3, <2>4 DEF Renegotiate, downVars
<1>5. CASE Acquire
  <2>1. PICK q \in Pads : q = acquired + 1
    BY <1>a, <1>5 DEF Acquire, Pads
  <2>2. /\ acquired' = q /\ shells[q] > 0
        /\ shells' = [shells EXCEPT ![q] = @ - 1]
        /\ pc = "acquire"
        /\ UNCHANGED <<queuedRequests, completedRequests, done, taken, down>>
    BY <1>5, <2>1 DEF Acquire, queues, staleVars, cameraVars, downVars
  <2>3. Count' = Count
    BY <2>2 DEF Count
  <2>4. ASSUME NEW p \in Pads
        PROVE  shells'[p] + down'[p] + Count' + (IF p <= acquired' THEN 1 ELSE 0) = PoolSize
    <3>1. shells[p] + down[p] + Count + (IF p <= acquired THEN 1 ELSE 0) = PoolSize
      BY <1>0, <2>2, <2>4 DEF PoolCounted
    <3>2. shells'[p] = IF p = q THEN shells[p] - 1 ELSE shells[p]
      BY <1>a, <2>2, <2>4
    <3>3. p \in Nat /\ shells[p] \in Nat /\ down[p] \in Nat
      BY <1>a, <2>4 DEF Pads
    <3>4. acquired' = acquired + 1 /\ q = acquired + 1 /\ down'[p] = down[p]
      BY <2>1, <2>2
    <3>5. QED
      BY <1>a, <1>b, <2>3, <3>1, <3>2, <3>3, <3>4
  <2>5. QED
    BY <2>4 DEF PoolCounted
<1>6. CASE AcquireFails
  <2> DEFINE n == [p \in Pads |-> IF p <= acquired THEN 1 ELSE 0]
  <2>1. /\ n \in [Pads -> Nat] /\ Release(n) /\ acquired' = 0 /\ pc = "acquire"
        /\ UNCHANGED <<queuedRequests, completedRequests, done, taken, down>>
    BY <1>6 DEF AcquireFails, queues, staleVars, cameraVars, downVars
  <2>2. \A p \in Pads : shells'[p] = shells[p] + n[p]
    BY <1>0, <2>1, ReleaseCounted
  <2>3. Count' = Count
    BY <2>1 DEF Count
  <2>4. ASSUME NEW p \in Pads
        PROVE  shells'[p] + down'[p] + Count' + (IF p <= acquired' THEN 1 ELSE 0) = PoolSize
    <3>1. shells[p] + down[p] + Count + (IF p <= acquired THEN 1 ELSE 0) = PoolSize
      BY <1>0, <2>1, <2>4 DEF PoolCounted
    <3>2. shells'[p] = shells[p] + (IF p <= acquired THEN 1 ELSE 0)
      BY <2>2, <2>4
    <3>3. shells[p] \in Nat /\ down[p] \in Nat /\ p \in Nat /\ ~(p <= 0)
      BY <1>a, <2>4 DEF Pads
    <3>4. acquired' = 0 /\ down' = down
      BY <2>1
    <3>5. QED
      BY <1>a, <1>b, <2>3, <3>1, <3>2, <3>3, <3>4
  <2>5. QED
    BY <2>4 DEF PoolCounted
<1>7. CASE QueueRequest
  <2>1. PICK r \in Requests : r = Min(Requests \ Wraps)
    BY <1>0, <1>7, RequestFree DEF WrapInv, QueueRequest
  <2>2. /\ queuedRequests' = Append(queuedRequests, r)
        /\ acquired = NumPads /\ acquired' = 0 /\ pc = "acquire"
        /\ UNCHANGED <<completedRequests, done, taken, shells, down>>
    BY <1>7, <2>1 DEF QueueRequest, poolVars, downVars
  <2>3. Len(queuedRequests') = Len(queuedRequests) + 1
    BY <1>c, <2>2
  <2>4. Count' = Count + 1
    BY <1>a, <2>2, <2>3 DEF Count
  <2>5. ASSUME NEW p \in Pads
        PROVE  shells'[p] + down'[p] + Count' + (IF p <= acquired' THEN 1 ELSE 0) = PoolSize
    <3>1. shells[p] + down[p] + Count + 1 = PoolSize
      BY <1>0, <2>2, <2>5 DEF PoolCounted, Pads
    <3>2. shells[p] \in Nat /\ down[p] \in Nat /\ ~(p <= 0)
      BY <1>a, <2>5 DEF Pads
    <3>3. acquired' = 0 /\ down' = down /\ shells' = shells
      BY <2>2
    <3>4. QED
      BY <1>a, <1>b, <2>4, <3>1, <3>2, <3>3
  <2>6. QED
    BY <2>5 DEF PoolCounted
<1>8. CASE ProcessTake
  <2>1. CASE completedRequests = <<>>
    BY <1>0, <1>8, <2>1 DEF PoolCounted, Count, ProcessTake, cameraVars, poolVars, downVars
  <2>2. CASE completedRequests # <<>>
    <3>1. Head(completedRequests) \in Requests
      BY <1>c, <2>2, HeadInToSet
    <3>2. /\ completedRequests' = Tail(completedRequests) /\ taken' = Head(completedRequests)
          /\ pc = "process" /\ UNCHANGED <<queuedRequests, done, acquired, shells, down>>
      BY <1>8, <2>2 DEF ProcessTake, cameraVars, poolVars, downVars
    <3>3. Len(completedRequests') = Len(completedRequests) - 1
      BY <1>c, <2>2, <3>2
    <3>4. taken' # 0 /\ taken = 0
      BY <1>0, <3>1, <3>2 DEF Requests, Places
    <3>a. queuedRequests' = queuedRequests /\ done' = done
      BY <3>2
    <3>5. Count' = Count
      BY <1>a, <3>a, <3>3, <3>4 DEF Count
    <3>6. QED
      BY <1>0, <3>2, <3>5 DEF PoolCounted
  <2>3. QED
    BY <2>1, <2>2
<1>9. CASE ProcessPush
  <2> DEFINE n == [p \in Pads |-> IF p \in Copied THEN 1 ELSE 0]
  <2>1. /\ n \in [Pads -> Nat] /\ Release(n) /\ pc = "push" /\ taken' = 0
        /\ down' = [p \in Pads |-> down[p] + 1 - n[p]]
        /\ UNCHANGED <<queuedRequests, completedRequests, done, acquired>>
    BY <1>9 DEF ProcessPush, queues, staleVars, cameraVars
  <2>2. \A p \in Pads : shells'[p] = shells[p] + n[p]
    BY <1>0, <2>1, ReleaseCounted
  <2>3. Count' = Count - 1 /\ acquired = 0
    BY <1>0, <1>a, <2>1 DEF Count, Places
  <2>4. ASSUME NEW p \in Pads
        PROVE  shells'[p] + down'[p] + Count' + (IF p <= acquired' THEN 1 ELSE 0) = PoolSize
    <3>1. shells[p] + down[p] + Count + (IF p <= acquired THEN 1 ELSE 0) = PoolSize
      BY <1>0, <2>1, <2>4 DEF PoolCounted
    <3>2. shells'[p] = shells[p] + n[p] /\ down'[p] = down[p] + 1 - n[p] /\ n[p] \in Nat
      BY <2>1, <2>2, <2>4
    <3>3. shells[p] \in Nat /\ down[p] \in Nat /\ acquired' = acquired
      BY <1>a, <2>1, <2>4
    <3> HIDE DEF n
    <3>4. QED
      BY <1>a, <1>b, <2>3, <3>1, <3>2, <3>3
  <2>5. QED
    BY <2>4 DEF PoolCounted
<1>10. CASE RequestCompleted
  <2>1. /\ queuedRequests' = Tail(queuedRequests) /\ done = 0 /\ pc' = pc
        /\ UNCHANGED <<completedRequests, taken, acquired, down>>
    BY <1>10 DEF RequestCompleted, CompletesOne, taskVars, downVars
  <2>2. queuedRequests # <<>>
    BY <1>10, WrapAtFront DEF RequestCompleted, CompletesOne
  <2>3. Len(queuedRequests') = Len(queuedRequests) - 1 /\ Head(queuedRequests) \in Requests
    BY <1>c, <2>1, <2>2, HeadInToSet
  <2>a. completedRequests' = completedRequests /\ taken' = taken /\ done = 0
    BY <2>1
  <2>4. CASE done' = Head(queuedRequests) /\ shells' = shells
    <3>1. done' # 0
      BY <2>3, <2>4 DEF Requests
    <3>2. Count' = Count
      BY <1>a, <2>a, <2>3, <3>1 DEF Count
    <3>3. QED
      BY <1>0, <2>1, <2>4, <3>2 DEF PoolCounted
  <2>5. CASE Release(OfWraps(1)) /\ done' = done
    <3>1. OfWraps(1) \in [Pads -> Nat]
      BY DEF OfWraps
    <3>2. \A p \in Pads : shells'[p] = shells[p] + 1
      BY <1>0, <2>5, <3>1, ReleaseCounted DEF OfWraps
    <3>3. Count' = Count - 1
      BY <1>a, <2>a, <2>3, <2>5 DEF Count
    <3>4. ASSUME pc' # "off", NEW p \in Pads
          PROVE  shells'[p] + down'[p] + Count' + (IF p <= acquired' THEN 1 ELSE 0) = PoolSize
      <4>1. shells[p] + down[p] + Count + (IF p <= acquired THEN 1 ELSE 0) = PoolSize
        BY <1>0, <2>1, <3>4 DEF PoolCounted
      <4>2. down' = down /\ acquired' = acquired /\ shells'[p] = shells[p] + 1
        BY <2>1, <3>2
      <4>3. QED
        BY <1>0, <1>a, <1>b, <3>3, <4>1, <4>2
    <3>5. QED
      BY <3>4 DEF PoolCounted
  <2>6. QED
    BY <1>10, <2>4, <2>5 DEF RequestCompleted, ReleaseThenNotify, poolVars
<1>11. CASE PushCompleted
  <2>1. PICK d \in Requests : d = done
    BY <1>0, <1>11 DEF PushCompleted, GstType, Requests
  <2>2. /\ completedRequests' = Append(completedRequests, d) /\ done' = 0 /\ done # 0
        /\ UNCHANGED <<queuedRequests, taken, acquired, shells, down, pc>>
    BY <1>11, <2>1 DEF PushCompleted, taskVars, poolVars, downVars
  <2>3. Len(completedRequests') = Len(completedRequests) + 1
    BY <1>c, <2>2
  <2>4. Count' = Count
    BY <1>a, <2>2, <2>3 DEF Count
  <2>5. QED
    BY <1>0, <2>2, <2>4 DEF PoolCounted
<1>12. ASSUME NEW q \in Pads, ReleaseBuffer(q) \/ ReleaseShell(q)
       PROVE  PoolCounted'
  <2>1. /\ down[q] > 0 /\ down' = [down EXCEPT ![q] = @ - 1]
        /\ UNCHANGED <<pc, queuedRequests, completedRequests, done, taken, acquired>>
    BY <1>12 DEF ReleaseBuffer, ReleaseShell, taskVars, queues, staleVars, cameraVars
  <2>2. \A p \in Pads : shells'[p] = IF p = q THEN shells[p] + 1 ELSE shells[p]
    <3> DEFINE n == [None EXCEPT ![q] = 1]
    <3>1. n \in [Pads -> Nat] /\ \A p \in Pads : n[p] = IF p = q THEN 1 ELSE 0
      BY FilledCounted
    <3> HIDE DEF n
    <3>2. Release(n) => \A p \in Pads : shells'[p] = shells[p] + n[p]
      BY <1>0, <3>1, ReleaseCounted
    <3>3. Release(n) \/ shells' = [shells EXCEPT ![q] = @ + 1]
      BY <1>12 DEF ReleaseBuffer, ReleaseThenNotify, ReleaseShell, n
    <3>4. QED
      BY <1>a, <3>1, <3>2, <3>3
  <2>3. Count' = Count
    BY <2>1 DEF Count
  <2>4. ASSUME NEW p \in Pads, pc # "off"
        PROVE  shells'[p] + down'[p] + Count' + (IF p <= acquired' THEN 1 ELSE 0) = PoolSize
    <3>1. shells[p] + down[p] + Count + (IF p <= acquired THEN 1 ELSE 0) = PoolSize
      BY <1>0, <2>4 DEF PoolCounted
    <3>2. down'[p] = IF p = q THEN down[p] - 1 ELSE down[p]
      BY <1>a, <2>1, <2>4
    <3>3. shells[p] \in Nat /\ down[p] \in Nat /\ p \in Nat
      BY <1>a, <2>4 DEF Pads
    <3>4. shells'[p] = IF p = q THEN shells[p] + 1 ELSE shells[p]
      BY <2>2, <2>4
    <3>5. QED
      BY <1>a, <1>b, <2>1, <2>3, <3>1, <3>2, <3>3, <3>4
  <2>5. QED
    BY <2>1, <2>4 DEF PoolCounted
<1>12a. CASE StaleCompleted
  BY <1>0, <1>12a DEF PoolCounted, Count, StaleCompleted, taskVars, poolVars
<1>13. QED
  BY <1>1, <1>2, <1>3, <1>4, <1>5, <1>6, <1>7, <1>8, <1>9, <1>10, <1>11, <1>12, <1>12a DEF Next, Quiet

\* The invariant of the wraps holds at first,
LEMMA WrapInvInit ==
    ASSUME GstConstants, Init
    PROVE  WrapInv
<1>1. GstType /\ Places
  BY GstTypeInit DEF Init, Places
<1>2. CameraFirst /\ PoolCounted
  BY DEF Init, CameraFirst, PoolCounted
<1>3. WrapsDistinct
  BY ToSetOfEmpty DEF Init, WrapsDistinct
<1>4. QED
  BY <1>1, <1>2, <1>3 DEF WrapInv

\* and every step keeps it.
LEMMA WrapInvStep ==
    ASSUME GstConstants, WrapInv, [Next]_vars
    PROVE  WrapInv'
  BY GstTypeStep, PlacesStep, CameraFirstStep, WrapsDistinctStep, PoolCountedStep DEF WrapInv

\* WrapsKept: whatever the order in which requests are queued, refused, complete, are
\* given up and pushed, whether or not start() fails and the camera is unplugged and
\* opened again, every buffer of a pool is in the pool, downstream or in a wrap, and
\* requestCompleted() finds the wrap of its request unless a request was refused in an
\* earlier session.
THEOREM BuffersStayCounted ==
    ASSUME GstConstants
    PROVE  Spec => []WrapsKept
<1>1. ASSUME Init PROVE WrapInv
  BY <1>1, WrapInvInit
<1>2. ASSUME WrapInv, [Next]_vars PROVE WrapInv'
  BY <1>2, WrapInvStep
<1>3. ASSUME WrapInv PROVE WrapsKept
  <2>1. Cardinality(Wraps) = Count
    BY <1>3, WrapsCounted DEF WrapInv
  <2>2. QED
    BY <1>3, <2>1 DEF WrapInv, WrapsKept, CameraFirst, PoolCounted
<1>4. QED
  BY <1>1, <1>2, <1>3, PTL DEF Spec

(***************************************************************************)
(* The task is woken.                                                      *)
(***************************************************************************)

WakeInv == FramesFollow /\ CompletedSeen /\ BuffersSeen

\* A pool has a frame for every shell but those kept downstream.
LEMMA FramesFollowStep ==
    ASSUME GstConstants, WrapInv, WakeInv, [Next]_vars
    PROVE  FramesFollow'
<1>0. GstType /\ FramesFollow /\ Places
  BY DEF WrapInv, WakeInv
<1>a. /\ shells \in [Pads -> Nat] /\ frames \in [Pads -> Nat] /\ kept \in [Pads -> Nat]
  BY <1>0 DEF GstType
<1>r. ASSUME NEW n \in [Pads -> Nat], Release(n), kept' = kept, wasKept' = wasKept, pc # "off"
      PROVE  FramesFollow'
  <2>1. \A p \in Pads : shells'[p] = shells[p] + n[p] /\ frames'[p] = frames[p] + n[p]
    BY <1>0, <1>r, ReleaseCounted
  <2>2. \A p \in Pads : shells[p] = frames[p] + kept[p]
    BY <1>0, <1>r DEF FramesFollow
  <2>3. \A p \in Pads : shells'[p] = frames'[p] + kept'[p]
    BY <1>a, <1>r, <2>1, <2>2
  <2>4. QED
    BY <1>0, <1>r, <2>3 DEF FramesFollow
<1>f. ASSUME shells' = Filled, frames' = Filled, kept' = None
      PROVE  FramesFollow'
  BY <1>f, FilledCounted DEF FramesFollow, GstConstants
<1>1. CASE TaskEnter
  BY <1>1, <1>f DEF TaskEnter, NewPools
<1>2. CASE Play \/ Join \/ Pause \/ CreateRequest \/ End
  BY <1>0, <1>2 DEF FramesFollow, Play, Join, Pause, CreateRequest, End, poolVars, downVars
<1>3. CASE StopCamera \/ SendEos \/ Disconnect \/ Reopen
  BY <1>0, <1>3 DEF FramesFollow, StopCamera, SendEos, Disconnect, Reopen, taskVars, poolVars, downVars
<1>4. CASE Renegotiate
  <2>1. OfWraps(Len(completedRequests)) \in [Pads -> Nat]
    BY <1>0 DEF OfWraps, GstType
  <2>2. QED
    BY <1>4, <1>f, <1>r, <2>1 DEF Renegotiate, NewPools, downVars
<1>5. CASE TaskLeave
  BY <1>0, <1>5 DEF FramesFollow, TaskLeave, downVars
<1>6. CASE Acquire
  <2>1. PICK q \in Pads : q = acquired + 1
    BY <1>0, <1>6 DEF Acquire, Pads, GstType, GstConstants
  <2>2. /\ shells[q] > 0 /\ frames[q] > 0 /\ pc = "acquire"
        /\ shells' = [shells EXCEPT ![q] = @ - 1]
        /\ frames' = [frames EXCEPT ![q] = @ - 1]
        /\ UNCHANGED <<kept, wasKept>>
    BY <1>6, <2>1 DEF Acquire, downVars
  <2>3. \A p \in Pads : shells[p] = frames[p] + kept[p]
    BY <1>0, <2>2 DEF FramesFollow
  <2>4. \A p \in Pads : shells'[p] = frames'[p] + kept'[p]
    BY <1>a, <2>2, <2>3
  <2>5. QED
    BY <1>0, <2>2, <2>4 DEF FramesFollow
<1>7. CASE AcquireFails
  <2> DEFINE n == [p \in Pads |-> IF p <= acquired THEN 1 ELSE 0]
  <2>1. n \in [Pads -> Nat] /\ Release(n) /\ kept' = kept /\ wasKept' = wasKept /\ pc # "off"
    BY <1>7 DEF AcquireFails, downVars
  <2>2. QED
    BY <2>1, <1>r
<1>8. CASE QueueRequest \/ ProcessTake
  BY <1>0, <1>8 DEF FramesFollow, QueueRequest, ProcessTake, poolVars, downVars
<1>9. CASE ProcessPush
  <2> DEFINE n == [p \in Pads |-> IF p \in Copied THEN 1 ELSE 0]
  <2>1. n \in [Pads -> Nat] /\ Release(n) /\ kept' = kept /\ wasKept' = wasKept /\ pc # "off"
    BY <1>9 DEF ProcessPush
  <2>2. QED
    BY <2>1, <1>r
<1>10. CASE RequestCompleted
  <2>1. OfWraps(1) \in [Pads -> Nat]
    BY DEF OfWraps
  <2>2. pc # "off" /\ kept' = kept /\ wasKept' = wasKept /\ pc' = pc
    BY <1>0, <1>10 DEF RequestCompleted, CompletesOne, Places, downVars, taskVars
  <2>3. CASE UNCHANGED poolVars
    BY <1>0, <2>2, <2>3 DEF FramesFollow, poolVars
  <2>4. CASE Release(OfWraps(1))
    BY <1>r, <2>1, <2>2, <2>4
  <2>5. QED
    BY <1>10, <2>3, <2>4 DEF RequestCompleted, ReleaseThenNotify
<1>11. CASE PushCompleted \/ ResumeTask \/ BufferNotify \/ OldBuffersReleased
  BY <1>0, <1>11 DEF FramesFollow, PushCompleted, ResumeTask, BufferNotify, OldBuffersReleased,
                     taskVars, poolVars, downVars
<1>12. ASSUME NEW q \in Pads, ReleaseBuffer(q) PROVE FramesFollow'
  <2>1. [None EXCEPT ![q] = 1] \in [Pads -> Nat]
    BY FilledCounted
  <2>2. QED
    BY <1>12, <1>r, <2>1 DEF ReleaseBuffer, ReleaseThenNotify
<1>13. ASSUME NEW q \in Pads, ReleaseShell(q) PROVE FramesFollow'
  <2>1. /\ pc # "off" /\ wasKept' /\ frames' = frames
        /\ kept' = [kept EXCEPT ![q] = @ + 1] /\ shells' = [shells EXCEPT ![q] = @ + 1]
    BY <1>13 DEF ReleaseShell
  <2>2. \A p \in Pads : shells'[p] = frames'[p] + kept'[p]
    BY <1>0, <1>a, <2>1 DEF FramesFollow
  <2>3. QED
    BY <2>1, <2>2 DEF FramesFollow
<1>14. ASSUME NEW q \in Pads, ReleaseMemory(q) PROVE FramesFollow'
  <2>1. /\ pc # "off" /\ kept[q] > 0 /\ wasKept' = wasKept /\ shells' = shells
        /\ kept' = [kept EXCEPT ![q] = @ - 1] /\ frames' = [frames EXCEPT ![q] = @ + 1]
    BY <1>14 DEF ReleaseMemory
  <2>2. \A p \in Pads : shells'[p] = frames'[p] + kept'[p]
    BY <1>0, <1>a, <2>1 DEF FramesFollow
  <2>3. kept[q] # 0
    BY <1>a, <2>1
  <2>4. QED
    BY <1>0, <2>1, <2>2, <2>3 DEF FramesFollow
<1>14a. CASE StaleCompleted
  BY <1>0, <1>14a DEF FramesFollow, StaleCompleted, taskVars, poolVars
<1>15. CASE UNCHANGED vars
  BY <1>0, <1>15 DEF FramesFollow, vars, taskVars, poolVars, downVars
<1>16. QED
  BY <1>1, <1>2, <1>3, <1>4, <1>5, <1>6, <1>7, <1>8, <1>9, <1>10, <1>11, <1>12, <1>13, <1>14, <1>14a, <1>15 DEF Next

\* A completed request is seen by the task, or a wake-up is on its way.
LEMMA CompletedSeenStep ==
    ASSUME GstConstants, WrapInv, WakeInv, [Next]_vars
    PROVE  CompletedSeen'
<1>0. GstType /\ Places /\ CompletedSeen
  BY DEF WrapInv, WakeInv
<1> USE DEF CompletedSeen
<1>1. CASE TaskEnter
  BY <1>0, <1>1 DEF TaskEnter, Places
<1>2. CASE Play
  BY <1>0, <1>2 DEF Play
<1>3. CASE Join
  BY <1>0, <1>3 DEF Join
<1>4. CASE Pause
  BY <1>0, <1>4 DEF Pause
<1>5. CASE StopCamera
  BY <1>0, <1>5 DEF StopCamera, taskVars, queues, staleVars, appVars
<1>6. CASE Renegotiate
  BY <1>0, <1>6 DEF Renegotiate
<1>7. CASE TaskLeave
  BY <1>0, <1>7 DEF TaskLeave
<1>8. CASE CreateRequest
  BY <1>0, <1>8 DEF CreateRequest
<1>9. CASE Acquire
  BY <1>0, <1>9 DEF Acquire
<1>10. CASE AcquireFails \/ QueueRequest
  BY <1>0, <1>10 DEF AcquireFails, QueueRequest
<1>11. CASE ProcessTake
  <2>1. CASE completedRequests = <<>>
    BY <1>11, <2>1 DEF ProcessTake
  <2>2. CASE completedRequests # <<>>
    <3>1. /\ completedRequests' = Tail(completedRequests)
          /\ more' = (Len(completedRequests) > 1) /\ pc' = "push"
      BY <1>11, <2>2 DEF ProcessTake
    <3>2. Tail(completedRequests) # <<>> => Len(completedRequests) > 1
      <4>1. completedRequests \in Seq(Requests)
        BY <1>0 DEF GstType
      <4>2. QED
        BY <2>2, <4>1
    <3>3. QED
      BY <3>1, <3>2
  <2>3. QED
    BY <2>1, <2>2
<1>12. CASE ProcessPush
  BY <1>0, <1>12 DEF ProcessPush, Resumed, queues, staleVars, cameraVars, appVars, GstType
<1>13. CASE End
  BY <1>0, <1>13 DEF End, Resumed, queues, staleVars, cameraVars, appVars, GstType
<1>14. CASE RequestCompleted
  BY <1>0, <1>14 DEF RequestCompleted, taskVars, appVars
<1>14a. CASE StaleCompleted
  BY <1>0, <1>14a DEF StaleCompleted, taskVars, appVars
<1>15. CASE PushCompleted
  BY <1>15 DEF PushCompleted
<1>16. CASE ResumeTask \/ BufferNotify \/ OldBuffersReleased
  BY <1>16 DEF ResumeTask, BufferNotify, OldBuffersReleased, Resumed
<1>17. ASSUME NEW p \in Pads, ReleaseBuffer(p) \/ ReleaseShell(p) \/ ReleaseMemory(p)
       PROVE  CompletedSeen'
  BY <1>0, <1>17 DEF ReleaseBuffer, ReleaseShell, ReleaseMemory, taskVars, queues, staleVars, cameraVars, appVars
<1>18. CASE SendEos
  BY <1>0, <1>18 DEF SendEos, taskVars, queues, staleVars, cameraVars
<1>19. CASE Disconnect \/ Reopen
  BY <1>0, <1>19 DEF Disconnect, Reopen, taskVars, queues, staleVars, cameraVars
<1>20. CASE UNCHANGED vars
  BY <1>0, <1>20 DEF vars, taskVars, queues, staleVars, cameraVars, appVars
<1>21. QED
  BY <1>1, <1>2, <1>3, <1>4, <1>5, <1>6, <1>7, <1>8, <1>9, <1>10, <1>11, <1>12, <1>13, <1>14,
     <1>14a, <1>15, <1>16, <1>17, <1>18, <1>19, <1>20 DEF Next

\* A pool that got its first buffer is in Notifies, so a set of pools that was not
\* complete and became so tells the task.
LEMMA PoolTells ==
    ASSUME GstConstants, WrapInv, WakeInv, NEW n \in [Pads -> Nat], Release(n),
           pc # "off", ~wasKept, Buffers', Notifies(n) = {}
    PROVE  Buffers
<1>1. GstType /\ FramesFollow
  BY DEF WrapInv, WakeInv
<1>2. \A p \in Pads : shells'[p] = shells[p] + n[p]
  BY <1>1, ReleaseCounted
<1>3. \A p \in Pads : shells[p] = frames[p] /\ shells[p] \in Nat
  BY <1>1 DEF GstType, FramesFollow
<1>4. \A p \in Pads : shells'[p] > 0
  BY DEF Buffers
<1>5. ASSUME NEW p \in Pads PROVE shells[p] > 0
  BY <1>2, <1>3, <1>4, <1>5 DEF Notifies
<1>6. QED
  BY <1>3, <1>5 DEF Buffers

\* A release into an empty pool leaves its signal pending.
LEMMA SignalPending ==
    ASSUME NEW n, NEW thread, ReleaseThenNotify(n, thread), Notifies(n) # {}
    PROVE  notify' # {}
<1>1. PICK q \in Notifies(n) : TRUE
  OBVIOUS
<1>2. <<q, thread>> \in Notifies(n) \X {thread}
  BY <1>1
<1>3. QED
  BY <1>2 DEF ReleaseThenNotify

\* Buffers in every pool are seen by the task, or a wake-up is on its way.
LEMMA BuffersSeenStep ==
    ASSUME GstConstants, WrapInv, WakeInv, [Next]_vars
    PROVE  BuffersSeen'
<1>0. GstType /\ Places /\ BuffersSeen /\ FramesFollow
  BY DEF WrapInv, WakeInv
<1>r. ASSUME NEW n \in [Pads -> Nat], Release(n), wasKept' = wasKept, pc # "off",
             Notifies(n) = {}, ~BuffersSeen', playing' = playing
      PROVE  Buffers /\ ~wasKept /\ playing
  BY <1>r, PoolTells DEF BuffersSeen
<1> USE DEF BuffersSeen
<1>1. CASE TaskEnter
  BY <1>0, <1>1 DEF TaskEnter, Places
<1>2. CASE Play
  BY <1>2 DEF Play
<1>3. CASE Join
  BY <1>3 DEF Join
<1>4. CASE Pause
  BY <1>4 DEF Pause
<1>5. CASE StopCamera
  BY <1>0, <1>5 DEF StopCamera, taskVars, poolVars, downVars, appVars, Buffers
<1>6. CASE Renegotiate
  BY <1>6 DEF Renegotiate
<1>7. CASE TaskLeave
  BY <1>7 DEF TaskLeave
<1>8. CASE CreateRequest
  BY <1>8 DEF CreateRequest
<1>9. CASE Acquire
  BY <1>9 DEF Acquire
<1>10. CASE AcquireFails
  <2> DEFINE n == [p \in Pads |-> IF p <= acquired THEN 1 ELSE 0]
  <2>1. /\ n \in [Pads -> Nat] /\ Release(n) /\ wasKept' = wasKept /\ pc = "acquire"
        /\ task' = IF Notifies(n) # {} THEN Resumed ELSE task
        /\ notify' = notify /\ playing' = playing /\ eos' = eos
    BY <1>10 DEF AcquireFails, downVars, appVars
  <2>2. ~Buffers \/ wasKept
    <3>1. PICK q \in Pads : q = acquired + 1
      BY <1>0, <1>10 DEF AcquireFails, Pads, GstType, GstConstants
    <3>2. shells[q] = 0 \/ frames[q] = 0
      BY <1>10, <3>1 DEF AcquireFails
    <3>3. QED
      BY <3>1, <3>2 DEF Buffers
  <2>3. CASE Notifies(n) # {}
    BY <2>1, <2>3 DEF Resumed
  <2>4. CASE Notifies(n) = {}
    BY <1>r, <2>1, <2>2, <2>4
  <2>5. QED
    BY <2>3, <2>4
<1>11. CASE QueueRequest
  BY <1>11 DEF QueueRequest
<1>12. CASE ProcessTake
  BY <1>0, <1>12 DEF ProcessTake, cameraVars, poolVars, downVars, appVars, Buffers
<1>13. CASE ProcessPush
  <2> DEFINE n == [p \in Pads |-> IF p \in Copied THEN 1 ELSE 0]
  <2>1. /\ n \in [Pads -> Nat] /\ Release(n) /\ wasKept' = wasKept /\ pc = "push"
        /\ notify' = notify /\ playing' = playing /\ eos' = eos
    BY <1>13 DEF ProcessPush, appVars
  <2>2. CASE /\ pc' = "end" /\ doResume' = (doResume \/ more)
             /\ task' = IF Notifies(n) # {} THEN Resumed ELSE task
    <3>1. CASE Notifies(n) # {}
      BY <2>2, <3>1 DEF Resumed
    <3>2. CASE Notifies(n) = {}
      <4>1. BuffersSeen' \/ (Buffers /\ ~wasKept /\ playing)
        BY <1>r, <2>1, <3>2
      <4>2. QED
        BY <1>0, <2>1, <2>2, <3>2, <4>1
    <3>3. QED
      BY <3>1, <3>2
  <2>3. CASE task' = "stopped"
    BY <2>3
  <2>4. QED
    BY <1>13, <2>2, <2>3 DEF ProcessPush
<1>14. CASE End
  BY <1>0, <1>14 DEF End, Resumed, cameraVars, poolVars, downVars, appVars, Buffers
<1>15. CASE RequestCompleted
  <2>1. pc # "off" /\ wasKept' = wasKept /\ playing' = playing /\ eos' = eos /\ pc' = pc
        /\ task' = task /\ doResume' = doResume
    BY <1>0, <1>15 DEF RequestCompleted, CompletesOne, Places, downVars, taskVars, appVars
  <2>2. CASE UNCHANGED poolVars
    BY <1>0, <2>1, <2>2 DEF poolVars, Buffers
  <2>3. CASE ReleaseThenNotify(OfWraps(1), "camera")
    <3>1. OfWraps(1) \in [Pads -> Nat] /\ Release(OfWraps(1))
      BY <2>3 DEF OfWraps, ReleaseThenNotify
    <3>2. CASE Notifies(OfWraps(1)) # {}
      BY <2>3, <3>2, SignalPending
    <3>3. CASE Notifies(OfWraps(1)) = {}
      <4>1. BuffersSeen' \/ (Buffers /\ ~wasKept /\ playing)
        BY <1>r, <2>1, <3>1, <3>3
      <4>2. notify # {} => notify' # {}
        BY <2>3 DEF ReleaseThenNotify
      <4>3. QED
        BY <1>0, <2>1, <4>1, <4>2
    <3>4. QED
      BY <3>2, <3>3
  <2>4. QED
    BY <1>15, <2>2, <2>3 DEF RequestCompleted
<1>16. CASE PushCompleted
  BY <1>0, <1>16 DEF PushCompleted, taskVars, poolVars, downVars, appVars, Buffers
<1>17. CASE ResumeTask \/ BufferNotify \/ OldBuffersReleased
  BY <1>17 DEF ResumeTask, BufferNotify, OldBuffersReleased, Resumed
<1>18. ASSUME NEW q \in Pads, ReleaseBuffer(q) PROVE BuffersSeen'
  <2> DEFINE n == [None EXCEPT ![q] = 1]
  <2>1. n \in [Pads -> Nat]
    BY FilledCounted
  <2>2. /\ ReleaseThenNotify(n, "downstream") /\ pc # "off" /\ wasKept' = wasKept
        /\ playing' = playing /\ eos' = eos /\ pc' = pc /\ task' = task /\ doResume' = doResume
    BY <1>18 DEF ReleaseBuffer, taskVars, appVars
  <2> HIDE DEF n
  <2>3. CASE Notifies(n) # {}
    BY <2>2, <2>3, SignalPending
  <2>4. CASE Notifies(n) = {}
    <3>1. BuffersSeen' \/ (Buffers /\ ~wasKept /\ playing)
      BY <1>r, <2>1, <2>2, <2>4 DEF ReleaseThenNotify
    <3>2. notify # {} => notify' # {}
      BY <2>2 DEF ReleaseThenNotify
    <3>3. QED
      BY <1>0, <2>2, <3>1, <3>2
  <2>5. QED
    BY <2>3, <2>4
<1>19. ASSUME NEW q \in Pads, ReleaseShell(q) PROVE BuffersSeen'
  BY <1>19 DEF ReleaseShell
<1>20. ASSUME NEW q \in Pads, ReleaseMemory(q) PROVE BuffersSeen'
  <2>1. kept[q] > 0 /\ kept[q] \in Nat /\ wasKept' = wasKept
    BY <1>0, <1>20 DEF ReleaseMemory, GstType
  <2>2. wasKept
    BY <1>0, <2>1 DEF FramesFollow
  <2>3. QED
    BY <2>1, <2>2
<1>21. CASE SendEos
  BY <1>0, <1>21 DEF SendEos, taskVars, poolVars, downVars, Buffers
<1>15a. CASE StaleCompleted
  BY <1>0, <1>15a DEF StaleCompleted, taskVars, poolVars, appVars, Buffers
<1>22. CASE Disconnect \/ Reopen
  BY <1>0, <1>22 DEF Disconnect, Reopen, taskVars, poolVars, downVars, Buffers
<1>23. CASE UNCHANGED vars
  BY <1>0, <1>23 DEF vars, taskVars, poolVars, downVars, appVars, Buffers
<1>24. QED
  BY <1>1, <1>2, <1>3, <1>4, <1>5, <1>6, <1>7, <1>8, <1>9, <1>10, <1>11, <1>12, <1>13, <1>14,
     <1>15, <1>15a, <1>16, <1>17, <1>18, <1>19, <1>20, <1>21, <1>22, <1>23 DEF Next

\* TaskWoken: the task that pauses itself at the start of an iteration never sleeps
\* over a completed request or over a buffer of every pad, in any order of the pause,
\* the completions and the releases.
THEOREM TaskIsWoken ==
    ASSUME GstConstants
    PROVE  Spec => []TaskWoken
<1>1. ASSUME Init PROVE WrapInv /\ WakeInv
  <2>1. WrapInv
    BY <1>1, WrapInvInit
  <2>2. FramesFollow
    BY <1>1, FilledCounted DEF Init, FramesFollow
  <2>3. CompletedSeen /\ BuffersSeen
    BY <1>1 DEF Init, CompletedSeen, BuffersSeen
  <2>4. QED
    BY <2>1, <2>2, <2>3 DEF WakeInv
<1>2. ASSUME WrapInv, WakeInv, [Next]_vars PROVE WrapInv' /\ WakeInv'
  <2>1. WrapInv'
    BY <1>2, WrapInvStep
  <2>2. WakeInv'
    BY <1>2, FramesFollowStep, CompletedSeenStep, BuffersSeenStep DEF WakeInv
  <2>3. QED
    BY <2>1, <2>2
<1>3. ASSUME WrapInv, WakeInv PROVE TaskWoken
  BY <1>3 DEF WakeInv, CompletedSeen, BuffersSeen, TaskWoken, Asleep
<1>4. QED
  BY <1>1, <1>2, <1>3, PTL DEF Spec

(***************************************************************************)
(* The Android HAL.                                                        *)
(***************************************************************************)

\* Frame numbers of requests begin at 1; a request asks for some of the streams.
HalConstants ==
    /\ Frames \subseteq Nat \ {0}
    /\ "direct" \notin Mapped
    /\ Requested \subseteq (SUBSET Android!Streams) \ {{}}

Waiting == ToSet(descriptors)

\* Frames whose stream s is with its worker, and the one that it is about to complete.
AtWorker(s) ==
    ToSet(workers[s].queue)
      \cup IF workers[s].busy # 0 /\ ~workers[s].done THEN {workers[s].busy} ELSE {}
LastOf(s) == IF workers[s].done THEN {workers[s].busy} ELSE {}

Internals == {<<>>} \cup UNION {[S -> Nat] : S \in SUBSET Android!Processed}

Descriptor ==
    [live : BOOLEAN, streams : SUBSET Android!Streams, internal : Internals,
     pending : SUBSET Android!Processed, errors : SUBSET Android!Streams, complete : BOOLEAN]

WorkerState == [queue : Seq(Frames), busy : {0} \cup Frames, done : BOOLEAN]

HalType ==
    /\ building \in {0} \cup Frames
    /\ descriptors \in Seq(Frames) /\ requests \in Seq(Frames)
    /\ desc \in [Frames -> Descriptor]
    /\ workers \in [Android!Processed -> WorkerState]
    /\ buffers \in [Android!Processed -> Seq(Nat)]
    /\ allocated \in [Android!Processed -> Nat]
    /\ DOMAIN notified = Frames

\* A worker works on one frame at a time, and has a frame once.
WorkerInv ==
    \A s \in Android!Processed :
        /\ IsInjective(workers[s].queue)
        /\ workers[s].busy # 0 => workers[s].busy \notin ToSet(workers[s].queue)
        /\ workers[s].done => workers[s].busy # 0

\* Descriptors are those of the queue and the one being built.
LiveInv ==
    /\ \A f \in Frames : desc[f].live <=> f = building \/ f \in Waiting
    /\ building \notin Waiting
    /\ IsInjective(descriptors) /\ IsInjective(requests)
    /\ ToSet(requests) \subseteq Waiting
    /\ \A f \in Frames : desc[f].live => desc[f].streams # {}

\* A frame that the camera or a worker has is not complete, and which of them has it
\* shows in its descriptor and in the messages sent.
CameraStage ==
    \A f \in Frames : (f = building \/ f \in ToSet(requests)) =>
        /\ ~desc[f].complete /\ notified[f] = {} /\ desc[f].errors = {}
        /\ \A s \in Android!Processed : f \notin AtWorker(s) /\ f \notin LastOf(s)
WorkerStage ==
    \A s \in Android!Processed : \A f \in AtWorker(s) :
        f \in Waiting /\ ~desc[f].complete /\ s \in desc[f].pending /\ Android!Shutter \in notified[f]
LastStage ==
    /\ \A s \in Android!Processed : \A f \in LastOf(s) :
        f \in Waiting /\ ~desc[f].complete /\ desc[f].pending = {} /\ Android!Shutter \in notified[f]
    /\ \A s, t \in Android!Processed : LastOf(s) \cap LastOf(t) # {} => s = t
StageInv == CameraStage /\ WorkerStage /\ LastStage

\* The messages sent for a frame are those of its descriptor.
MessageInv ==
    \A f \in Frames :
        /\ desc[f].streams = {} => notified[f] = {} /\ desc[f].errors = {} /\ ~desc[f].complete
        /\ Android!Shutter \in notified[f] =>
            /\ Android!ErrorRequest \notin notified[f]
            /\ desc[f].errors = {s \in Android!Processed : Android!ErrorBuffer(s) \in notified[f]}
        /\ Android!ErrorRequest \in notified[f] => desc[f].errors = desc[f].streams
        /\ desc[f].complete => Android!Shutter \in notified[f] \/ Android!ErrorRequest \in notified[f]

\* Buffers that are used, and buffers in the pool, are different buffers of the stream.
PoolAt(s) ==
    /\ ToSet(buffers[s]) \subseteq 1 .. allocated[s] /\ IsInjective(buffers[s])
    /\ \A f \in Android!InUse(s) :
        /\ desc[f].internal[s] \in (1 .. allocated[s]) \ ToSet(buffers[s])
        /\ \A g \in Android!InUse(s) : f # g => desc[f].internal[s] # desc[g].internal[s]
PoolInv == \A s \in Android!Processed : PoolAt(s)

HalInv == HalType /\ WorkerInv /\ LiveInv /\ StageInv /\ MessageInv /\ PoolInv

(***************************************************************************)
(* What an assignment to some fields leaves.                               *)
(***************************************************************************)

\* A descriptor that is freed,
LEMMA Freed ==
    ASSUME NEW d \in Descriptor
    PROVE  LET e == [d EXCEPT !.live = FALSE] IN
           /\ e \in Descriptor /\ ~e.live
           /\ e.streams = d.streams /\ e.internal = d.internal /\ e.pending = d.pending
           /\ e.errors = d.errors /\ e.complete = d.complete
  BY DEF Descriptor

\* that is completed,
LEMMA Completed ==
    ASSUME NEW d \in Descriptor
    PROVE  LET e == [d EXCEPT !.complete = TRUE] IN
           /\ e \in Descriptor /\ e.complete
           /\ e.live = d.live /\ e.streams = d.streams /\ e.internal = d.internal
           /\ e.pending = d.pending /\ e.errors = d.errors
  BY DEF Descriptor

\* whose streams are processed,
LEMMA Processing ==
    ASSUME NEW d \in Descriptor, NEW p \in SUBSET Android!Processed, NEW x \in SUBSET Android!Streams
    PROVE  LET e == [d EXCEPT !.pending = p, !.errors = x] IN
           /\ e \in Descriptor
           /\ e.live = d.live /\ e.streams = d.streams /\ e.internal = d.internal
           /\ e.pending = p /\ e.errors = x /\ e.complete = d.complete
  BY DEF Descriptor

\* and that is aborted.
LEMMA Aborted ==
    ASSUME NEW d \in Descriptor
    PROVE  LET e == Android!abortRequest(d) IN
           /\ e \in Descriptor
           /\ e.live = d.live /\ e.streams = d.streams /\ e.internal = d.internal
           /\ e.pending = d.pending /\ e.errors = d.streams /\ e.complete = d.complete
  BY DEF Descriptor, Android!abortRequest

(***************************************************************************)
(* What the actions do, in terms of the descriptor they change.            *)
(***************************************************************************)

\* Descriptor f becomes e; the other descriptors stay.
Becomes(f, e) == e \in Descriptor /\ desc' = [desc EXCEPT ![f] = e]

\* The other descriptors stay.
LEMMA BecomesOne ==
    ASSUME HalType, NEW f \in Frames, NEW e, Becomes(f, e)
    PROVE  /\ desc' \in [Frames -> Descriptor] /\ desc'[f] = e
           /\ \A g \in Frames : g # f => desc'[g] = desc[g]
  BY DEF HalType, Becomes

SameWorkers == UNCHANGED <<workers, buffers, allocated>>

\* sendCaptureResults() frees the first descriptor.
LEMMA SendEffect ==
    ASSUME HalType, Android!SendCaptureResult
    PROVE  \E f \in Frames, e \in Descriptor :
             /\ descriptors # <<>> /\ f = Head(descriptors) /\ desc[f].complete
             /\ descriptors' = Tail(descriptors) /\ Becomes(f, e)
             /\ ~e.live /\ e.streams = desc[f].streams /\ e.internal = desc[f].internal
             /\ e.pending = desc[f].pending /\ e.errors = desc[f].errors /\ e.complete
             /\ SameWorkers /\ UNCHANGED <<building, requests, notified>>
<1>1. /\ descriptors # <<>> /\ desc[Head(descriptors)].complete
      /\ desc' = [desc EXCEPT ![Head(descriptors)].live = FALSE]
      /\ descriptors' = Tail(descriptors)
      /\ UNCHANGED <<building, requests, notified, workers, buffers, allocated>>
  BY DEF Android!SendCaptureResult, Android!Sending
<1>2. PICK f \in Frames : f = Head(descriptors)
  BY <1>1, HeadInToSet DEF HalType
<1>3. desc[f] \in Descriptor
  BY DEF HalType
<1>4. PICK e \in Descriptor : e = [desc[f] EXCEPT !.live = FALSE]
  BY <1>3, Freed
<1>5. Becomes(f, e)
  BY <1>1, <1>2, <1>4 DEF Becomes
<1>6. /\ ~e.live /\ e.streams = desc[f].streams /\ e.internal = desc[f].internal
      /\ e.pending = desc[f].pending /\ e.errors = desc[f].errors
      /\ e.complete = desc[f].complete
  BY <1>3, <1>4, Freed
<1>7. desc[f].complete /\ SameWorkers /\ UNCHANGED <<building, requests, notified>>
  BY <1>1, <1>2 DEF SameWorkers
<1>8. QED
  BY <1>1, <1>2, <1>5, <1>6, <1>7

\* A refused request frees its descriptor.
LEMMA RefuseEffect ==
    ASSUME HalType, Android!RefuseRequest
    PROVE  \E f \in Frames, e \in Descriptor :
             /\ building = f /\ building' = 0 /\ Becomes(f, e)
             /\ ~e.live /\ e.streams = desc[f].streams /\ e.internal = desc[f].internal
             /\ e.pending = desc[f].pending /\ e.errors = desc[f].errors
             /\ e.complete = desc[f].complete
             /\ SameWorkers /\ UNCHANGED <<descriptors, requests, notified>>
<1>1. /\ building # 0 /\ building' = 0
      /\ desc' = [desc EXCEPT ![building].live = FALSE]
      /\ UNCHANGED <<descriptors, requests, notified, workers, buffers, allocated>>
  BY DEF Android!RefuseRequest
<1>2. PICK f \in Frames : f = building
  BY <1>1 DEF HalType
<1>3. desc[f] \in Descriptor
  BY DEF HalType
<1>4. PICK e \in Descriptor : e = [desc[f] EXCEPT !.live = FALSE]
  BY <1>3, Freed
<1>5. Becomes(f, e)
  BY <1>1, <1>2, <1>4 DEF Becomes
<1>6. QED
  BY <1>1, <1>2, <1>3, <1>4, <1>5, Freed DEF SameWorkers

\* completeDescriptor() of an aborted request.
LEMMA AbortEffect ==
    ASSUME HalType, NEW f \in Frames, NEW q,
           Android!completeDescriptor(f, [desc EXCEPT ![f] = Android!abortRequest(@)], q)
    PROVE  \E e \in Descriptor :
             /\ descriptors' = q /\ Becomes(f, e)
             /\ e.live = desc[f].live /\ e.streams = desc[f].streams
             /\ e.internal = desc[f].internal /\ e.pending = desc[f].pending
             /\ e.errors = desc[f].streams /\ e.complete
<1>1. desc[f] \in Descriptor /\ DOMAIN desc = Frames
  BY DEF HalType
<1>2. PICK a \in Descriptor : a = Android!abortRequest(desc[f])
  BY <1>1, Aborted
<1>3. PICK e \in Descriptor : e = [a EXCEPT !.complete = TRUE]
  BY <1>2, Completed
<1>4. /\ descriptors' = q
      /\ desc' = [[desc EXCEPT ![f] = a] EXCEPT ![f].complete = TRUE]
  BY <1>2 DEF Android!completeDescriptor
<1>5. desc' = [desc EXCEPT ![f] = e]
  BY <1>1, <1>3, <1>4 DEF HalType
<1>6. /\ e.live = a.live /\ e.streams = a.streams /\ e.internal = a.internal
      /\ e.pending = a.pending /\ e.errors = a.errors /\ e.complete
  BY <1>3, Completed
<1>7. /\ a.live = desc[f].live /\ a.streams = desc[f].streams /\ a.internal = desc[f].internal
      /\ a.pending = desc[f].pending /\ a.errors = desc[f].streams
  BY <1>1, <1>2, Aborted
<1>8. QED
  BY <1>4, <1>5, <1>6, <1>7 DEF Becomes

\* notify() sends messages of one frame.
LEMMA MessagesSent ==
    ASSUME HalType, NEW f \in Frames, NEW m, Android!Notify(f, m)
    PROVE  /\ DOMAIN notified' = Frames /\ notified'[f] = notified[f] \cup m
           /\ \A g \in Frames : g # f => notified'[g] = notified[g]
  BY DEF HalType, Android!Notify

\* A request aborted by flush() is completed at the end of the queue.
LEMMA AbortDuringFlushEffect ==
    ASSUME HalType, Android!AbortDuringFlush
    PROVE  \E f \in Frames, e \in Descriptor :
             /\ building = f /\ building' = 0 /\ descriptors' = Append(descriptors, f) /\ Becomes(f, e)
             /\ e.live = desc[f].live /\ e.streams = desc[f].streams
             /\ e.internal = desc[f].internal /\ e.pending = desc[f].pending
             /\ e.errors = desc[f].streams /\ e.complete
             /\ Android!Notify(f, {Android!ErrorRequest})
             /\ SameWorkers /\ UNCHANGED requests
<1>1. PICK f \in Frames : f = building
  BY DEF HalType, Android!AbortDuringFlush
<1>2. /\ Android!completeDescriptor(f, [desc EXCEPT ![f] = Android!abortRequest(@)], Append(descriptors, f))
      /\ Android!Notify(f, {Android!ErrorRequest}) /\ building' = 0
      /\ SameWorkers /\ UNCHANGED requests
  BY <1>1 DEF Android!AbortDuringFlush, SameWorkers
<1>3. QED
  BY <1>1, <1>2, AbortEffect

\* A request queued goes to the end of the queue.
LEMMA QueueEffect ==
    ASSUME HalType, Android!QueueToCamera
    PROVE  \E f \in Frames :
             /\ building = f /\ building' = 0 /\ descriptors' = Append(descriptors, f)
             /\ requests' = Append(requests, f) \/ requests' = requests
             /\ SameWorkers /\ UNCHANGED <<desc, notified>>
<1>1. PICK f \in Frames : f = building
  BY DEF HalType, Android!QueueToCamera
<1>2. QED
  BY <1>1 DEF Android!QueueToCamera, SameWorkers

\* A cancelled request is completed with all its buffers in error.
LEMMA CancelEffect ==
    ASSUME HalType, Android!RequestCancelled
    PROVE  \E f \in Frames, e \in Descriptor :
             /\ requests # <<>> /\ f = Head(requests) /\ requests' = Tail(requests) /\ Becomes(f, e)
             /\ e.live = desc[f].live /\ e.streams = desc[f].streams
             /\ e.internal = desc[f].internal /\ e.pending = desc[f].pending
             /\ e.errors = desc[f].streams /\ e.complete
             /\ Android!Notify(f, {Android!ErrorRequest})
             /\ SameWorkers /\ UNCHANGED <<building, descriptors>>
<1>1. requests # <<>>
  BY DEF Android!RequestCancelled
<1>2. PICK f \in Frames : f = Head(requests)
  BY <1>1, HeadInToSet DEF HalType
<1>3. /\ Android!completeDescriptor(f, [desc EXCEPT ![f] = Android!abortRequest(@)], descriptors)
      /\ Android!Notify(f, {Android!ErrorRequest}) /\ requests' = Tail(requests)
      /\ SameWorkers /\ UNCHANGED building
  BY <1>2 DEF Android!RequestCancelled, SameWorkers
<1>4. QED
  BY <1>1, <1>2, <1>3, AbortEffect

\* Every stream is post-processed but the direct one.
LEMMA StreamsProcessed == Android!Processed \subseteq Android!Streams
  BY DEF Android!Processed

\* The request completed: descriptor f, with its streams "left" at their workers.
LEMMA CompleteEffect ==
    ASSUME HalType, NEW failed \in SUBSET Android!Processed, Android!RequestComplete(failed)
    PROVE  \E f \in Frames, e \in Descriptor :
             /\ requests # <<>> /\ f = Head(requests) /\ requests' = Tail(requests) /\ Becomes(f, e)
             /\ failed \subseteq desc[f].pending
             /\ e.live = desc[f].live /\ e.streams = desc[f].streams
             /\ e.internal = desc[f].internal /\ e.pending = desc[f].pending \ failed
             /\ e.errors = desc[f].errors \cup failed
             /\ IF e.pending = {} THEN e.complete ELSE e.complete = desc[f].complete
             /\ Android!Notify(f, {Android!Shutter} \cup {Android!ErrorBuffer(s) : s \in failed})
             /\ workers' = [s \in Android!Processed |->
                    IF s \in e.pending THEN [workers[s] EXCEPT !.queue = Append(@, f)] ELSE workers[s]]
             /\ buffers' = [s \in Android!Processed |->
                    IF s \in failed THEN Android!putBuffer(desc[f], s)[s] ELSE buffers[s]]
             /\ UNCHANGED <<building, descriptors, allocated>>
<1>1. requests # <<>>
  BY DEF Android!RequestComplete
<1>2. PICK f \in Frames : f = Head(requests)
  BY <1>1, HeadInToSet DEF HalType
<1>3. PICK d \in Descriptor : d = desc[f]
  BY DEF HalType
<1>4. PICK left \in SUBSET Android!Processed : left = d.pending \ failed
  BY <1>3 DEF Descriptor
<1>5. PICK x \in SUBSET Android!Streams : x = d.errors \cup failed
  BY <1>3, StreamsProcessed DEF Descriptor
<1>6. PICK a \in Descriptor : a = [d EXCEPT !.pending = left, !.errors = x]
  BY Processing
<1>7. PICK c \in Descriptor : c = [a EXCEPT !.complete = TRUE]
  BY <1>6, Completed
<1>8. /\ a.live = d.live /\ a.streams = d.streams /\ a.internal = d.internal
      /\ a.pending = left /\ a.errors = x /\ a.complete = d.complete
  BY <1>6 DEF Descriptor
<1>9. /\ c.live = a.live /\ c.streams = a.streams /\ c.internal = a.internal
      /\ c.pending = a.pending /\ c.errors = a.errors /\ c.complete
  BY <1>6, <1>7, Completed
<1>10. /\ requests' = Tail(requests) /\ failed \subseteq d.pending
       /\ Android!Notify(f, {Android!Shutter} \cup {Android!ErrorBuffer(s) : s \in failed})
       /\ workers' = [s \in Android!Processed |->
              IF s \in left THEN [workers[s] EXCEPT !.queue = Append(@, f)] ELSE workers[s]]
       /\ buffers' = [s \in Android!Processed |->
              IF s \in failed THEN Android!putBuffer(desc[f], s)[s] ELSE buffers[s]]
       /\ UNCHANGED <<building, allocated>>
  BY <1>2, <1>3, <1>4 DEF Android!RequestComplete
<1>11. IF left = {} THEN Android!completeDescriptor(f, [desc EXCEPT ![f] = a], descriptors)
       ELSE desc' = [desc EXCEPT ![f] = a] /\ UNCHANGED descriptors
  BY <1>2, <1>3, <1>4, <1>5, <1>6 DEF Android!RequestComplete
<1>12. CASE left = {}
  <2>1. descriptors' = descriptors /\ desc' = [[desc EXCEPT ![f] = a] EXCEPT ![f].complete = TRUE]
    BY <1>11, <1>12 DEF Android!completeDescriptor
  <2>2. desc' = [desc EXCEPT ![f] = c]
    BY <1>7, <2>1 DEF HalType
  <2>3. Becomes(f, c)
    BY <2>2 DEF Becomes
  <2>4. c.pending = left
    BY <1>8, <1>9
  <2>5. QED
    BY <1>1, <1>2, <1>3, <1>4, <1>5, <1>8, <1>9, <1>10, <1>12, <2>1, <2>3, <2>4
<1>13. CASE left # {}
  <2>1. Becomes(f, a) /\ descriptors' = descriptors
    BY <1>11, <1>13 DEF Becomes
  <2>2. QED
    BY <1>1, <1>2, <1>3, <1>4, <1>5, <1>8, <1>10, <1>13, <2>1
<1>14. QED
  BY <1>12, <1>13

\* streamProcessingComplete() of stream s.
LEMMA FinishEffect ==
    ASSUME HalType, NEW s \in Android!Processed, \E ok \in BOOLEAN : Android!WorkerFinish(s, ok)
    PROVE  \E f \in Frames, e \in Descriptor, bad \in SUBSET {s} :
             /\ workers[s].busy = f /\ ~workers[s].done /\ Becomes(f, e)
             /\ e.live = desc[f].live /\ e.streams = desc[f].streams
             /\ e.internal = desc[f].internal /\ e.pending = desc[f].pending \ {s}
             /\ e.errors = desc[f].errors \cup bad
             /\ e.complete = desc[f].complete
             /\ Android!Notify(f, {Android!ErrorBuffer(t) : t \in bad})
             /\ buffers' = Android!putBuffer(desc[f], s)
             /\ workers' = [workers EXCEPT ![s] =
                    IF desc[f].pending = {s} THEN [@ EXCEPT !.done = TRUE] ELSE [@ EXCEPT !.busy = 0]]
             /\ UNCHANGED <<building, descriptors, requests, allocated>>
<1>0. PICK ok \in BOOLEAN : Android!WorkerFinish(s, ok)
  OBVIOUS
<1>1. PICK f \in Frames : f = workers[s].busy
  BY <1>0 DEF Android!WorkerFinish, HalType, WorkerState
<1>2. PICK d \in Descriptor : d = desc[f]
  BY DEF HalType
<1>b. PICK bad \in SUBSET {s} : bad = IF ok THEN {} ELSE {s}
  OBVIOUS
<1>3. PICK x \in SUBSET Android!Streams : x = d.errors \cup bad
  BY <1>2, StreamsProcessed DEF Descriptor
<1>4. PICK p \in SUBSET Android!Processed : p = d.pending \ {s}
  BY <1>2 DEF Descriptor
<1>5. PICK e \in Descriptor : e = [d EXCEPT !.pending = p, !.errors = x]
  BY <1>2, <1>3, <1>4, Processing
<1>6. /\ e.live = d.live /\ e.streams = d.streams /\ e.internal = d.internal
      /\ e.pending = p /\ e.errors = x /\ e.complete = d.complete
  BY <1>5 DEF Descriptor
<1>7. desc' = [desc EXCEPT ![f].pending = @ \ {s}, ![f].errors = IF ok THEN @ ELSE @ \cup {s}]
  BY <1>0, <1>1 DEF Android!WorkerFinish
<1>x. x = IF ok THEN d.errors ELSE d.errors \cup {s}
  BY <1>b, <1>3
<1>8. desc' = [desc EXCEPT ![f] = e]
  BY <1>2, <1>x, <1>4, <1>5, <1>7 DEF HalType
<1>n. {Android!ErrorBuffer(t) : t \in bad} = IF ok THEN {} ELSE {Android!ErrorBuffer(s)}
  BY <1>b
<1>9. /\ ~workers[s].done
      /\ Android!Notify(f, {Android!ErrorBuffer(t) : t \in bad})
      /\ buffers' = Android!putBuffer(desc[f], s)
      /\ workers' = [workers EXCEPT ![s] =
             IF desc[f].pending = {s} THEN [@ EXCEPT !.done = TRUE] ELSE [@ EXCEPT !.busy = 0]]
      /\ UNCHANGED <<building, descriptors, requests, allocated>>
  BY <1>0, <1>1, <1>n DEF Android!WorkerFinish
<1>10. QED
  BY <1>1, <1>2, <1>3, <1>4, <1>6, <1>8, <1>9 DEF Becomes

\* The worker of the last stream completes the descriptor.
LEMMA WorkerCompleteEffect ==
    ASSUME HalType, NEW s \in Android!Processed, Android!WorkerComplete(s),
           workers[s].busy \in Frames
    PROVE  \E f \in Frames, e \in Descriptor :
             /\ workers[s].busy = f /\ workers[s].done /\ Becomes(f, e)
             /\ e.live = desc[f].live /\ e.streams = desc[f].streams
             /\ e.internal = desc[f].internal /\ e.pending = desc[f].pending
             /\ e.errors = desc[f].errors /\ e.complete
             /\ workers' = [workers EXCEPT ![s].busy = 0, ![s].done = FALSE]
             /\ UNCHANGED <<building, descriptors, requests, notified, buffers, allocated>>
<1>1. PICK f \in Frames : f = workers[s].busy
  OBVIOUS
<1>2. PICK d \in Descriptor : d = desc[f]
  BY DEF HalType
<1>3. PICK e \in Descriptor : e = [d EXCEPT !.complete = TRUE]
  BY <1>2, Completed
<1>4. /\ e.live = d.live /\ e.streams = d.streams /\ e.internal = d.internal
      /\ e.pending = d.pending /\ e.errors = d.errors /\ e.complete
  BY <1>2, <1>3, Completed
<1>5. desc' = [desc EXCEPT ![f].complete = TRUE]
  BY <1>1 DEF Android!WorkerComplete, Android!completeDescriptor
<1>6. desc' = [desc EXCEPT ![f] = e]
  BY <1>2, <1>3, <1>5 DEF HalType
<1>7. QED
  BY <1>1, <1>2, <1>4, <1>6 DEF Becomes, Android!WorkerComplete, Android!completeDescriptor

\* A new descriptor takes its internal buffers.
LEMMA BuildEffect ==
    ASSUME HalType, NEW f \in Frames, NEW streams \in SUBSET Android!Streams,
           NEW need \in SUBSET Android!Processed, Android!BuildDescriptor(f, streams, need)
    PROVE  \E e \in Descriptor :
             /\ building = 0 /\ building' = f /\ Becomes(f, e)
             /\ ~desc[f].live /\ desc[f].streams = {}
             /\ e.live /\ e.streams = streams /\ e.errors = {} /\ ~e.complete
             /\ e.internal = [s \in need |-> Android!getBuffer(s)]
             /\ e.pending = streams \cap Android!Processed
             /\ UNCHANGED <<descriptors, requests, workers, notified>>
<1>1. PICK i : i = [s \in need |-> Android!getBuffer(s)]
  OBVIOUS
<1>2. need \subseteq Android!Processed
  OBVIOUS
<1>3. \A s \in Android!Processed : Android!getBuffer(s) \in Nat
  <2>1. ASSUME NEW s \in Android!Processed PROVE Android!getBuffer(s) \in Nat
    <3>1. PICK b \in Seq(Nat) : b = buffers[s]
      BY DEF HalType
    <3>2. allocated[s] \in Nat
      BY DEF HalType
    <3>3. b # <<>> => b[Len(b)] \in Nat
      OBVIOUS
    <3>4. QED
      BY <3>1, <3>2, <3>3 DEF Android!getBuffer
  <2>2. QED
    BY <2>1
<1>4. i \in [need -> Nat]
  BY <1>1, <1>2, <1>3
<1>5. i \in Internals
  BY <1>2, <1>4 DEF Internals
<1>6. PICK p \in SUBSET Android!Processed : p = streams \cap Android!Processed
  OBVIOUS
<1>7. PICK n \in Descriptor : n = Android!NoDescriptor /\ n.errors = {} /\ ~n.complete
  <2>1. <<>> \in Internals
    BY DEF Internals
  <2>2. Android!NoDescriptor \in Descriptor
    BY <2>1, Zenon DEF Descriptor, Android!NoDescriptor
  <2>3. Android!NoDescriptor.errors = {} /\ ~Android!NoDescriptor.complete
    BY DEF Android!NoDescriptor
  <2>4. QED
    BY <2>2, <2>3
<1>8. PICK e : e = [n EXCEPT !.live = TRUE, !.streams = streams, !.internal = i, !.pending = p]
  OBVIOUS
<1>9. /\ e \in Descriptor /\ e.live /\ e.streams = streams /\ e.internal = i /\ e.pending = p
      /\ e.errors = n.errors /\ e.complete = n.complete
  BY <1>5, <1>8 DEF Descriptor
<1>10. /\ building = 0 /\ building' = f /\ ~desc[f].live /\ desc[f].streams = {}
       /\ UNCHANGED <<descriptors, requests, workers, notified>>
       /\ desc' = [desc EXCEPT ![f] =
              [Android!NoDescriptor EXCEPT !.live = TRUE, !.streams = streams, !.internal = i, !.pending = p]]
  BY <1>1, <1>6 DEF Android!BuildDescriptor
<1>11. Becomes(f, e)
  BY <1>7, <1>8, <1>9, <1>10 DEF Becomes
<1>12. QED
  BY <1>1, <1>6, <1>7, <1>9, <1>10, <1>11

(***************************************************************************)
(* The workers.                                                            *)
(***************************************************************************)

\* The worker of stream s becomes w; the others stay.
WorkerBecomes(s, w) == w \in WorkerState /\ workers' = [workers EXCEPT ![s] = w]

\* A worker moves alone,
LEMMA OtherWorkers ==
    ASSUME HalType, NEW s \in Android!Processed, NEW w, WorkerBecomes(s, w)
    PROVE  /\ workers' \in [Android!Processed -> WorkerState] /\ workers'[s] = w
           /\ \A t \in Android!Processed : t # s =>
                  workers'[t] = workers[t] /\ AtWorker(t)' = AtWorker(t) /\ LastOf(t)' = LastOf(t)
  BY DEF HalType, WorkerBecomes, AtWorker, LastOf

\* so that its own state decides the invariant.
LEMMA OneWorkerInv ==
    ASSUME HalType, WorkerInv, NEW s \in Android!Processed, NEW w, WorkerBecomes(s, w),
           IsInjective(w.queue), w.busy # 0 => w.busy \notin ToSet(w.queue),
           w.done => w.busy # 0
    PROVE  WorkerInv'
  BY OtherWorkers DEF WorkerInv

\* Taking a frame of the queue leaves it with the worker.
LEMMA TakeEffect ==
    ASSUME HalConstants, HalType, WorkerInv, NEW s \in Android!Processed, Android!WorkerTake(s)
    PROVE  /\ workers' \in [Android!Processed -> WorkerState] /\ WorkerInv'
           /\ \A t \in Android!Processed : AtWorker(t)' = AtWorker(t) /\ LastOf(t)' = LastOf(t)
           /\ UNCHANGED <<building, desc, descriptors, notified, requests, buffers, allocated>>
<1>1. PICK w \in WorkerState : w = workers[s]
  BY DEF HalType
<1>2. /\ w.busy = 0 /\ w.queue # <<>> /\ ~w.done
      /\ w.queue \in Seq(Frames) /\ IsInjective(w.queue)
  BY <1>1 DEF Android!WorkerTake, WorkerInv, WorkerState
<1>3. PICK f \in Frames : f = Head(w.queue)
  BY <1>2, HeadInToSet
<1>4. /\ Tail(w.queue) \in Seq(Frames) /\ f \in ToSet(w.queue)
      /\ ToSet(Tail(w.queue)) = ToSet(w.queue) \ {f} /\ IsInjective(Tail(w.queue))
  BY <1>2, <1>3, HeadInToSet, ToSetOfTail
<1>5. PICK v : v = [queue |-> Tail(w.queue), busy |-> f, done |-> FALSE]
  OBVIOUS
<1>6. v \in WorkerState
  BY <1>4, <1>5 DEF WorkerState
<1>7. WorkerBecomes(s, v)
  BY <1>1, <1>3, <1>5, <1>6 DEF WorkerBecomes, Android!WorkerTake
<1>8. v.queue = Tail(w.queue) /\ v.busy = f /\ v.done = FALSE /\ f # 0
  BY <1>5 DEF HalConstants
<1>9. WorkerInv'
  BY <1>4, <1>7, <1>8, OneWorkerInv
<1>10. AtWorker(s)' = AtWorker(s) /\ LastOf(s)' = LastOf(s)
  BY <1>1, <1>2, <1>4, <1>7, <1>8, OtherWorkers DEF AtWorker, LastOf
<1>11. QED
  BY <1>7, <1>9, <1>10, OtherWorkers DEF Android!WorkerTake, Android!captureVars

\* The worker of the last stream keeps the frame, to complete its descriptor.
LEMMA FinishedAt ==
    ASSUME HalConstants, HalType, WorkerInv, NEW s \in Android!Processed, NEW f \in Frames,
           workers[s].busy = f, ~workers[s].done, NEW last \in BOOLEAN,
           workers' = [workers EXCEPT ![s] = IF last THEN [@ EXCEPT !.done = TRUE] ELSE [@ EXCEPT !.busy = 0]]
    PROVE  /\ workers' \in [Android!Processed -> WorkerState] /\ WorkerInv'
           /\ AtWorker(s)' = AtWorker(s) \ {f} /\ f \in AtWorker(s)
           /\ LastOf(s)' = (IF last THEN {f} ELSE {}) /\ LastOf(s) = {}
           /\ \A t \in Android!Processed : t # s => AtWorker(t)' = AtWorker(t) /\ LastOf(t)' = LastOf(t)
<1>1. PICK w \in WorkerState : w = workers[s]
  BY DEF HalType
<1>2. /\ w.busy = f /\ ~w.done /\ f \notin ToSet(w.queue) /\ f # 0
      /\ w.queue \in Seq(Frames) /\ IsInjective(w.queue)
  BY <1>1 DEF WorkerInv, WorkerState, HalConstants
<1>3. PICK v : v = IF last THEN [w EXCEPT !.done = TRUE] ELSE [w EXCEPT !.busy = 0]
  OBVIOUS
<1>4. /\ v \in WorkerState /\ v.queue = w.queue
      /\ v.busy = (IF last THEN f ELSE 0) /\ v.done = last
  BY <1>2, <1>3 DEF WorkerState
<1>5. WorkerBecomes(s, v)
  BY <1>1, <1>3, <1>4 DEF WorkerBecomes
<1>6. WorkerInv'
  BY <1>2, <1>4, <1>5, OneWorkerInv
<1>7. AtWorker(s)' = AtWorker(s) \ {f} /\ f \in AtWorker(s)
  BY <1>1, <1>2, <1>4, <1>5, OtherWorkers DEF AtWorker
<1>8. LastOf(s)' = (IF last THEN {f} ELSE {}) /\ LastOf(s) = {}
  <2>1. LastOf(s) = {}
    BY DEF LastOf
  <2>2. workers'[s] = v
    BY <1>5, OtherWorkers
  <2>3. LastOf(s)' = IF v.done THEN {v.busy} ELSE {}
    BY <2>2 DEF LastOf
  <2>4. QED
    BY <1>4, <2>1, <2>3
<1>9. QED
  BY <1>5, <1>6, <1>7, <1>8, OtherWorkers

\* The worker forgets the frame whose descriptor it completed.
LEMMA CompletedAt ==
    ASSUME HalConstants, HalType, WorkerInv, NEW s \in Android!Processed, NEW f \in Frames,
           workers[s].busy = f, workers[s].done,
           workers' = [workers EXCEPT ![s].busy = 0, ![s].done = FALSE]
    PROVE  /\ workers' \in [Android!Processed -> WorkerState] /\ WorkerInv'
           /\ AtWorker(s)' = AtWorker(s) /\ LastOf(s) = {f} /\ LastOf(s)' = {}
           /\ \A t \in Android!Processed : t # s => AtWorker(t)' = AtWorker(t) /\ LastOf(t)' = LastOf(t)
<1>1. PICK w \in WorkerState : w = workers[s]
  BY DEF HalType
<1>2. w.busy = f /\ w.done /\ w.queue \in Seq(Frames) /\ IsInjective(w.queue)
  BY <1>1 DEF WorkerInv, WorkerState
<1>3. PICK v : v = [w EXCEPT !.busy = 0, !.done = FALSE]
  OBVIOUS
<1>4. v \in WorkerState /\ v.queue = w.queue /\ v.busy = 0 /\ v.done = FALSE
  BY <1>2, <1>3 DEF WorkerState
<1>5. WorkerBecomes(s, v)
  BY <1>1, <1>3, <1>4 DEF WorkerBecomes, HalType
<1>6. WorkerInv'
  BY <1>2, <1>4, <1>5, OneWorkerInv
<1>7. AtWorker(s)' = AtWorker(s)
  BY <1>1, <1>2, <1>4, <1>5, OtherWorkers DEF AtWorker
<1>8. LastOf(s)' = {} /\ LastOf(s) = {f}
  BY <1>1, <1>2, <1>4, <1>5, OtherWorkers DEF LastOf
<1>9. QED
  BY <1>5, <1>6, <1>7, <1>8, OtherWorkers

\* A completed request is queued to the workers of "left", none of which has it.
LEMMA QueuedAt ==
    ASSUME HalConstants, HalType, WorkerInv, NEW f \in Frames, NEW left \in SUBSET Android!Processed,
           \A s \in Android!Processed : f \notin AtWorker(s) /\ f \notin LastOf(s),
           workers' = [s \in Android!Processed |->
              IF s \in left THEN [workers[s] EXCEPT !.queue = Append(@, f)] ELSE workers[s]]
    PROVE  /\ workers' \in [Android!Processed -> WorkerState] /\ WorkerInv'
           /\ \A s \in Android!Processed :
                /\ AtWorker(s)' = AtWorker(s) \cup (IF s \in left THEN {f} ELSE {})
                /\ LastOf(s)' = LastOf(s)
<1>1. ASSUME NEW s \in Android!Processed
      PROVE  /\ workers'[s] \in WorkerState
             /\ IsInjective(workers'[s].queue)
             /\ workers'[s].busy # 0 => workers'[s].busy \notin ToSet(workers'[s].queue)
             /\ workers'[s].done => workers'[s].busy # 0
             /\ AtWorker(s)' = AtWorker(s) \cup (IF s \in left THEN {f} ELSE {})
             /\ LastOf(s)' = LastOf(s)
  <2>1. PICK w \in WorkerState : w = workers[s]
    BY DEF HalType
  <2>2. /\ w.queue \in Seq(Frames) /\ IsInjective(w.queue) /\ w.done \in BOOLEAN
        /\ w.busy # 0 => w.busy \notin ToSet(w.queue)
        /\ w.done => w.busy # 0
    BY <2>1 DEF WorkerInv, WorkerState
  <2>3. f \notin ToSet(w.queue) /\ f # w.busy
    BY <2>1, <2>2 DEF AtWorker, LastOf, HalConstants
  <2>4. CASE s \notin left
    <3>1. workers'[s] = w
      BY <2>1, <2>4
    <3>2. QED
      BY <2>1, <2>2, <2>4, <3>1 DEF AtWorker, LastOf
  <2>5. CASE s \in left
    <3>0. PICK u \in Seq(Frames) : u = w.queue
      BY <2>2
    <3>a. Append(u, f) \in Seq(Frames)
      OBVIOUS
    <3>1. PICK q \in Seq(Frames) : q = Append(w.queue, f)
      BY <3>0, <3>a
    <3>2. ToSet(q) = ToSet(w.queue) \cup {f} /\ IsInjective(q)
      BY <2>2, <2>3, <3>1, ToSetOfAppend, InjectiveAppend
    <3>3. PICK v : v = [w EXCEPT !.queue = q]
      OBVIOUS
    <3>4. v \in WorkerState /\ v.queue = q /\ v.busy = w.busy /\ v.done = w.done
      BY <3>3 DEF WorkerState
    <3>5. workers'[s] = v
      BY <2>1, <2>5, <3>1, <3>3
    <3>6. QED
      BY <2>1, <2>2, <2>3, <2>5, <3>2, <3>4, <3>5 DEF AtWorker, LastOf
  <2>6. QED
    BY <2>4, <2>5
<1>2. workers' \in [Android!Processed -> WorkerState]
  BY <1>1
<1>3. QED
  BY <1>1, <1>2 DEF WorkerInv

(***************************************************************************)
(* The pools.                                                              *)
(***************************************************************************)

\* A step that returns no buffer of stream s and gives none out.
LEMMA PoolKept ==
    ASSUME NEW s \in Android!Processed, PoolAt(s),
           buffers'[s] = buffers[s], allocated'[s] = allocated[s],
           \A f \in Frames : /\ desc'[f].live => desc[f].live
                             /\ desc'[f].internal = desc[f].internal
                             /\ desc'[f].pending \subseteq desc[f].pending
                             /\ desc[f].complete => desc'[f].complete
    PROVE  PoolAt(s)'
<1>1. Android!InUse(s)' \subseteq Android!InUse(s)
  BY DEF Android!InUse
<1>2. \A f \in Android!InUse(s)' : desc'[f].internal = desc[f].internal
  BY DEF Android!InUse
<1>3. QED
  BY <1>1, <1>2 DEF PoolAt

\* putBuffer() for a frame whose stream s is done.
LEMMA PoolPut ==
    ASSUME HalType, NEW s \in Android!Processed, PoolAt(s), NEW f \in Frames, NEW e, Becomes(f, e),
           desc[f].live, ~desc[f].complete, s \in desc[f].pending,
           s \notin e.pending, e.internal = desc[f].internal,
           buffers'[s] = Android!putBuffer(desc[f], s)[s], allocated'[s] = allocated[s]
    PROVE  PoolAt(s)' /\ buffers'[s] \in Seq(Nat)
<1>1. PICK b \in Seq(Nat) : b = buffers[s]
  BY DEF HalType
<1>2. desc'[f] = e /\ \A g \in Frames : g # f => desc'[g] = desc[g]
  BY BecomesOne
<1>3. Android!InUse(s)' \subseteq Android!InUse(s) \ {f}
  BY <1>2 DEF Android!InUse
<1>4. \A g \in Android!InUse(s)' : desc'[g] = desc[g]
  BY <1>2, <1>3 DEF Android!InUse
<1>5. CASE s \notin DOMAIN desc[f].internal
  <2>1. buffers'[s] = buffers[s]
    BY <1>5 DEF Android!putBuffer
  <2>2. \A g \in Android!InUse(s)' : g \in Android!InUse(s) /\ desc'[g] = desc[g]
    BY <1>3, <1>4
  <2>3. PoolAt(s)'
    BY <2>1, <2>2 DEF PoolAt
  <2>4. QED
    BY <1>1, <2>1, <2>3
<1>6. CASE s \in DOMAIN desc[f].internal
  <2>1. f \in Android!InUse(s)
    BY <1>6 DEF Android!InUse
  <2>a. desc[f].internal[s] \in (1 .. allocated[s]) \ ToSet(b) /\ 1 .. allocated[s] \subseteq Nat
    BY <1>1, <2>1 DEF PoolAt
  <2>2. PICK x \in Nat : x = desc[f].internal[s] /\ x \in (1 .. allocated[s]) \ ToSet(b)
    BY <2>a
  <2>3. buffers'[s] = Append(b, x)
    BY <1>1, <1>6, <2>2 DEF Android!putBuffer, HalType
  <2>4. Append(b, x) \in Seq(Nat)
    OBVIOUS
  <2>5. ToSet(buffers'[s]) = ToSet(b) \cup {x} /\ IsInjective(buffers'[s])
    BY <1>1, <2>2, <2>3, ToSetOfAppend, InjectiveAppend DEF PoolAt
  <2>6. \A g \in Android!InUse(s)' : desc[g].internal[s] # x
    BY <1>3, <2>1, <2>2 DEF PoolAt
  <2>7. QED
    BY <1>1, <1>3, <1>4, <2>2, <2>3, <2>4, <2>5, <2>6 DEF PoolAt
<1>7. QED
  BY <1>5, <1>6

\* putBuffer() leaves the other streams alone.
LEMMA PoolOthers ==
    ASSUME HalType, NEW s \in Android!Processed, NEW d, buffers' = Android!putBuffer(d, s)
    PROVE  /\ DOMAIN buffers' = Android!Processed
           /\ buffers'[s] = Android!putBuffer(d, s)[s]
           /\ \A t \in Android!Processed : t # s => buffers'[t] = buffers[t]
  BY DEF HalType, Android!putBuffer

\* The pool without the buffer returned last.
LEMMA LastIndexing ==
    ASSUME NEW b \in Seq(Nat), b # <<>>, IsInjective(b)
    PROVE  LET c == SubSeq(b, 1, Len(b) - 1)
               x == b[Len(b)]
           IN  /\ c \in Seq(Nat) /\ IsInjective(c) /\ x \in ToSet(b)
               /\ ToSet(c) = ToSet(b) \ {x}
<1> DEFINE c == SubSeq(b, 1, Len(b) - 1)
<1>1. Len(b) \in Nat /\ Len(b) > 0 /\ DOMAIN b = 1 .. Len(b)
  OBVIOUS
<1>2. /\ c \in Seq(Nat) /\ Len(c) = Len(b) - 1 /\ DOMAIN c = 1 .. Len(b) - 1
      /\ \A i \in 1 .. Len(b) - 1 : c[i] = b[i]
  BY <1>1
<1>n. PICK n \in Nat : n = Len(b) /\ n > 0
  BY <1>1
<1>m. n \in 1 .. n /\ \A i \in 1 .. n - 1 : i \in 1 .. n /\ i # n
  BY <1>n
<1>b. /\ Len(b) \in 1 .. Len(b)
      /\ \A i \in 1 .. Len(b) - 1 : i \in 1 .. Len(b) /\ i # Len(b)
  BY <1>n, <1>m, Zenon
<1>a. \A i, j \in 1 .. Len(b) : b[i] = b[j] => i = j
  BY <1>1 DEF IsInjective
<1> HIDE DEF c
<1>3. IsInjective(c)
  <2>1. \A i, j \in 1 .. Len(b) - 1 : c[i] = c[j] => i = j
    BY <1>1, <1>2, <1>a
  <2>2. QED
    BY <1>2, <2>1 DEF IsInjective
<1>4. b[Len(b)] \in ToSet(b)
  BY <1>1 DEF ToSet
<1>5. ToSet(c) = ToSet(b) \ {b[Len(b)]}
  <2>1. ASSUME NEW y \in ToSet(c) PROVE y \in ToSet(b) /\ y # b[Len(b)]
    <3>1. PICK i \in 1 .. Len(b) - 1 : y = c[i]
      BY <1>2, <2>1 DEF ToSet
    <3>2. i \in 1 .. Len(b) /\ i # Len(b) /\ Len(b) \in 1 .. Len(b)
      BY <1>b
    <3>3. y = b[i]
      BY <1>2, <3>1
    <3>4. QED
      BY <1>1, <1>a, <3>2, <3>3 DEF ToSet
  <2>2. ASSUME NEW y \in ToSet(b), y # b[Len(b)] PROVE y \in ToSet(c)
    <3>1. PICK i \in 1 .. Len(b) : y = b[i]
      BY <1>1, <2>2 DEF ToSet
    <3>2. i \in 1 .. Len(b) - 1
      BY <1>1, <2>2, <3>1
    <3>3. QED
      BY <1>2, <3>1, <3>2 DEF ToSet
  <2>3. QED
    BY <2>1, <2>2
<1>6. QED
  BY <1>2, <1>3, <1>4, <1>5 DEF c

\* getBuffer() for a new descriptor.
LEMMA PoolGiven ==
    ASSUME HalType, NEW f \in Frames, NEW streams, NEW need \in SUBSET Android!Processed,
           Android!BuildDescriptor(f, streams, need), NEW e, Becomes(f, e),
           e.internal = [t \in need |-> Android!getBuffer(t)],
           ~desc[f].live, NEW s \in Android!Processed, PoolAt(s)
    PROVE  PoolAt(s)' /\ buffers'[s] \in Seq(Nat) /\ allocated'[s] \in Nat
<1>1. PICK b \in Seq(Nat) : b = buffers[s]
  BY DEF HalType
<1>2. PICK a \in Nat : a = allocated[s]
  BY DEF HalType
<1>3. /\ allocated'[s] = IF s \in need /\ b = <<>> THEN a + 1 ELSE a
      /\ buffers'[s] = IF s \in need /\ b # <<>> THEN SubSeq(b, 1, Len(b) - 1) ELSE b
  BY <1>1, <1>2 DEF Android!BuildDescriptor
<1>4. desc'[f] = e /\ \A g \in Frames : g # f => desc'[g] = desc[g]
  BY BecomesOne
<1>5. f \notin Android!InUse(s) /\ Android!InUse(s)' \subseteq Android!InUse(s) \cup {f}
  BY <1>4 DEF Android!InUse
<1>6. \A g \in Android!InUse(s)' : g # f => desc'[g] = desc[g] /\ g \in Android!InUse(s)
  BY <1>4, <1>5 DEF Android!InUse
<1>7. /\ ToSet(b) \subseteq 1 .. a /\ IsInjective(b)
      /\ \A g \in Android!InUse(s) :
           /\ desc[g].internal[s] \in (1 .. a) \ ToSet(b)
           /\ \A h \in Android!InUse(s) : g # h => desc[g].internal[s] # desc[h].internal[s]
  BY <1>1, <1>2 DEF PoolAt
<1>8. CASE s \notin need
  <2>1. buffers'[s] = b /\ allocated'[s] = a
    BY <1>3, <1>8
  <2>2. f \notin Android!InUse(s)'
    BY <1>4, <1>8 DEF Android!InUse
  <2>3. QED
    BY <1>6, <1>7, <2>1, <2>2 DEF PoolAt
<1>9. CASE s \in need /\ b = <<>>
  <2>1. buffers'[s] = b /\ allocated'[s] = a + 1
    BY <1>3, <1>9
  <2>2. desc'[f].internal[s] = a + 1
    BY <1>1, <1>2, <1>4, <1>9 DEF Android!getBuffer
  <2>3. a + 1 \notin 1 .. a /\ 1 .. a \subseteq 1 .. (a + 1) /\ a + 1 \in 1 .. (a + 1)
    OBVIOUS
  <2>4. \A g \in Android!InUse(s)' : desc'[g].internal[s] \in (1 .. (a + 1)) \ ToSet(b)
    <3>1. ASSUME NEW g \in Android!InUse(s)', g # f
          PROVE  desc'[g].internal[s] \in (1 .. (a + 1)) \ ToSet(b)
      <4>1. desc'[g].internal[s] \in (1 .. a) \ ToSet(b)
        BY <1>6, <1>7, <3>1
      <4>2. QED
        BY <2>3, <4>1
    <3>2. a + 1 \notin ToSet(b)
      BY <1>7, <2>3
    <3>3. QED
      BY <2>2, <2>3, <3>1, <3>2
  <2>5. \A g, h \in Android!InUse(s)' : g # h => desc'[g].internal[s] # desc'[h].internal[s]
    BY <1>6, <1>7, <2>2, <2>3
  <2>6. QED
    BY <1>2, <1>7, <2>1, <2>3, <2>4, <2>5 DEF PoolAt
<1>10. CASE s \in need /\ b # <<>>
  <2>1. PICK c \in Seq(Nat), x \in ToSet(b) :
          /\ c = SubSeq(b, 1, Len(b) - 1) /\ x = b[Len(b)]
          /\ IsInjective(c) /\ ToSet(c) = ToSet(b) \ {x}
    BY <1>7, <1>10, LastIndexing
  <2>2. buffers'[s] = c /\ allocated'[s] = a
    BY <1>3, <1>10, <2>1
  <2>3. desc'[f].internal[s] = x
    BY <1>1, <1>4, <1>10, <2>1 DEF Android!getBuffer
  <2>4. \A g \in Android!InUse(s)' : desc'[g].internal[s] \in (1 .. a) \ ToSet(c)
    BY <1>6, <1>7, <2>1, <2>3
  <2>5. \A g, h \in Android!InUse(s)' : g # h => desc'[g].internal[s] # desc'[h].internal[s]
    <3>1. \A g \in Android!InUse(s)' : g # f => desc'[g].internal[s] # x
      BY <1>6, <1>7, <2>1
    <3>2. \A g, h \in Android!InUse(s)' :
             g # f /\ h # f /\ g # h => desc'[g].internal[s] # desc'[h].internal[s]
      BY <1>6, <1>7
    <3>3. QED
      BY <2>3, <3>1, <3>2
  <2>6. QED
    BY <1>2, <1>7, <2>1, <2>2, <2>4, <2>5 DEF PoolAt
<1>11. QED
  BY <1>8, <1>9, <1>10

(***************************************************************************)
(* Every action keeps the invariant.                                       *)
(***************************************************************************)

\* What does not depend on a worker that does nothing.
LEMMA WorkersSame ==
    ASSUME HalInv, UNCHANGED workers
    PROVE  WorkerInv' /\ \A s \in Android!Processed : AtWorker(s)' = AtWorker(s) /\ LastOf(s)' = LastOf(s)
  BY DEF HalInv, WorkerInv, AtWorker, LastOf

\* Queues hold frames.
LEMMA QueuesOfFrames ==
    ASSUME HalType
    PROVE  Waiting \subseteq Frames /\ ToSet(requests) \subseteq Frames
  BY DEF HalType, Waiting, ToSet

\* A result is sent.
LEMMA HalSend ==
    ASSUME HalConstants, HalInv, Android!SendCaptureResult
    PROVE  HalInv'
<1>0. HalType /\ WorkerInv /\ LiveInv /\ StageInv /\ MessageInv /\ PoolInv
  BY DEF HalInv
<1>1. PICK f \in Frames, e \in Descriptor :
        /\ descriptors # <<>> /\ f = Head(descriptors) /\ desc[f].complete
        /\ descriptors' = Tail(descriptors) /\ Becomes(f, e)
        /\ ~e.live /\ e.streams = desc[f].streams /\ e.internal = desc[f].internal
        /\ e.pending = desc[f].pending /\ e.errors = desc[f].errors /\ e.complete
        /\ SameWorkers /\ UNCHANGED <<building, requests, notified>>
  BY <1>0, SendEffect
<1>2. desc' \in [Frames -> Descriptor] /\ desc'[f] = e /\ \A g \in Frames : g # f => desc'[g] = desc[g]
  BY <1>0, <1>1, BecomesOne
<1>3. descriptors \in Seq(Frames) /\ IsInjective(descriptors)
  BY <1>0 DEF HalType, LiveInv
<1>4. /\ Waiting' = Waiting \ {f} /\ f \in Waiting /\ IsInjective(descriptors')
      /\ descriptors' \in Seq(Frames)
  BY <1>1, <1>3, HeadInToSet, ToSetOfTail DEF Waiting
<1>5. WorkerInv' /\ \A s \in Android!Processed : AtWorker(s)' = AtWorker(s) /\ LastOf(s)' = LastOf(s)
  BY <1>1, WorkersSame DEF SameWorkers
<1>a. Waiting \subseteq Frames
  BY <1>3 DEF Waiting, ToSet
<1>6. HalType'
  BY <1>0, <1>1, <1>2, <1>4 DEF HalType, SameWorkers
<1>7. /\ f # building /\ f \notin ToSet(requests)
      /\ \A s \in Android!Processed : f \notin AtWorker(s) /\ f \notin LastOf(s)
  BY <1>0, <1>1 DEF StageInv, CameraStage, WorkerStage, LastStage
<1>8. LiveInv'
  BY <1>0, <1>1, <1>2, <1>4, <1>7 DEF LiveInv
<1>9. StageInv'
  <2>1. CameraStage'
    BY <1>0, <1>1, <1>2, <1>5, <1>7 DEF StageInv, CameraStage
  <2>2. WorkerStage'
    BY <1>0, <1>1, <1>2, <1>4, <1>5, <1>7, <1>a DEF StageInv, WorkerStage
  <2>3. LastStage'
    BY <1>0, <1>1, <1>2, <1>4, <1>5, <1>7, <1>a DEF StageInv, LastStage
  <2>4. QED
    BY <2>1, <2>2, <2>3 DEF StageInv
<1>10. MessageInv'
  BY <1>0, <1>1, <1>2 DEF MessageInv
<1>11. PoolInv'
  <2>1. \A g \in Frames : /\ desc'[g].live => desc[g].live
                          /\ desc'[g].internal = desc[g].internal
                          /\ desc'[g].pending \subseteq desc[g].pending
                          /\ desc[g].complete => desc'[g].complete
    BY <1>1, <1>2
  <2>2. QED
    BY <1>0, <1>1, <2>1, PoolKept DEF PoolInv, SameWorkers
<1>12. QED
  BY <1>5, <1>6, <1>8, <1>9, <1>10, <1>11 DEF HalInv

\* A request is refused.
LEMMA HalRefuse ==
    ASSUME HalConstants, HalInv, Android!RefuseRequest
    PROVE  HalInv'
<1>0. HalType /\ WorkerInv /\ LiveInv /\ StageInv /\ MessageInv /\ PoolInv
  BY DEF HalInv
<1>1. PICK f \in Frames, e \in Descriptor :
        /\ building = f /\ building' = 0 /\ Becomes(f, e)
        /\ ~e.live /\ e.streams = desc[f].streams /\ e.internal = desc[f].internal
        /\ e.pending = desc[f].pending /\ e.errors = desc[f].errors
        /\ e.complete = desc[f].complete
        /\ SameWorkers /\ UNCHANGED <<descriptors, requests, notified>>
  BY <1>0, RefuseEffect
<1>2. desc' \in [Frames -> Descriptor] /\ desc'[f] = e /\ \A g \in Frames : g # f => desc'[g] = desc[g]
  BY <1>0, <1>1, BecomesOne
<1>3. 0 \notin Frames /\ Waiting' = Waiting /\ f \notin Waiting /\ Waiting \subseteq Frames
  BY <1>0, <1>1 DEF HalConstants, Waiting, LiveInv, HalType, ToSet
<1>5. WorkerInv' /\ \A s \in Android!Processed : AtWorker(s)' = AtWorker(s) /\ LastOf(s)' = LastOf(s)
  BY <1>1, WorkersSame DEF SameWorkers
<1>6. HalType'
  BY <1>0, <1>1, <1>2 DEF HalType, SameWorkers
<1>8. LiveInv'
  BY <1>0, <1>1, <1>2, <1>3 DEF LiveInv
<1>9. StageInv'
  <2>1. CameraStage'
    BY <1>0, <1>1, <1>2, <1>3, <1>5 DEF StageInv, CameraStage
  <2>2. WorkerStage'
    BY <1>0, <1>1, <1>2, <1>3, <1>5 DEF StageInv, WorkerStage
  <2>3. LastStage'
    BY <1>0, <1>1, <1>2, <1>3, <1>5 DEF StageInv, LastStage
  <2>4. QED
    BY <2>1, <2>2, <2>3 DEF StageInv
<1>10. MessageInv'
  BY <1>0, <1>1, <1>2 DEF MessageInv
<1>11. PoolInv'
  <2>1. \A g \in Frames : /\ desc'[g].live => desc[g].live
                          /\ desc'[g].internal = desc[g].internal
                          /\ desc'[g].pending \subseteq desc[g].pending
                          /\ desc[g].complete => desc'[g].complete
    BY <1>1, <1>2
  <2>2. QED
    BY <1>0, <1>1, <2>1, PoolKept DEF PoolInv, SameWorkers
<1>12. QED
  BY <1>5, <1>6, <1>8, <1>9, <1>10, <1>11 DEF HalInv

\* A request arrives during flush().
LEMMA HalAbort ==
    ASSUME HalConstants, HalInv, Android!AbortDuringFlush
    PROVE  HalInv'
<1>0. HalType /\ WorkerInv /\ LiveInv /\ StageInv /\ MessageInv /\ PoolInv
  BY DEF HalInv
<1>1. PICK f \in Frames, e \in Descriptor :
        /\ building = f /\ building' = 0 /\ descriptors' = Append(descriptors, f) /\ Becomes(f, e)
        /\ e.live = desc[f].live /\ e.streams = desc[f].streams
        /\ e.internal = desc[f].internal /\ e.pending = desc[f].pending
        /\ e.errors = desc[f].streams /\ e.complete
        /\ Android!Notify(f, {Android!ErrorRequest})
        /\ SameWorkers /\ UNCHANGED requests
  BY <1>0, AbortDuringFlushEffect
<1>2. desc' \in [Frames -> Descriptor] /\ desc'[f] = e /\ \A g \in Frames : g # f => desc'[g] = desc[g]
  BY <1>0, <1>1, BecomesOne
<1>3. descriptors \in Seq(Frames) /\ IsInjective(descriptors) /\ f \notin Waiting /\ 0 \notin Frames
  BY <1>0, <1>1 DEF HalType, LiveInv, HalConstants
<1>4. /\ Waiting' = Waiting \cup {f} /\ IsInjective(descriptors') /\ Waiting \subseteq Frames
      /\ descriptors' \in Seq(Frames)
  BY <1>1, <1>3, ToSetOfAppend, InjectiveAppend DEF Waiting, ToSet
<1>5. WorkerInv' /\ \A s \in Android!Processed : AtWorker(s)' = AtWorker(s) /\ LastOf(s)' = LastOf(s)
  BY <1>1, WorkersSame DEF SameWorkers
<1>m. /\ DOMAIN notified' = Frames /\ notified'[f] = notified[f] \cup {Android!ErrorRequest}
      /\ \A g \in Frames : g # f => notified'[g] = notified[g]
  BY <1>0, <1>1, MessagesSent
<1>6. HalType'
  BY <1>0, <1>1, <1>2, <1>4, <1>m DEF HalType, SameWorkers
<1>7. /\ f \notin ToSet(requests) /\ notified[f] = {}
      /\ \A s \in Android!Processed : f \notin AtWorker(s) /\ f \notin LastOf(s)
  BY <1>0, <1>1, <1>3 DEF StageInv, CameraStage, LiveInv
<1>8. LiveInv'
  BY <1>0, <1>1, <1>2, <1>3, <1>4 DEF LiveInv
<1>9. StageInv'
  <2>1. CameraStage'
    BY <1>0, <1>1, <1>2, <1>3, <1>5, <1>7, <1>m DEF StageInv, CameraStage
  <2>2. WorkerStage'
    BY <1>0, <1>1, <1>2, <1>4, <1>5, <1>7, <1>m DEF StageInv, WorkerStage
  <2>3. LastStage'
    BY <1>0, <1>1, <1>2, <1>4, <1>5, <1>7, <1>m DEF StageInv, LastStage
  <2>4. QED
    BY <2>1, <2>2, <2>3 DEF StageInv
<1>10. MessageInv'
  <2>1. Android!Shutter # Android!ErrorRequest
    BY DEF Android!Shutter, Android!ErrorRequest
  <2>2. desc[f].streams # {}
    BY <1>0, <1>1 DEF LiveInv
  <2>3. QED
    BY <1>0, <1>1, <1>2, <1>7, <1>m, <2>1, <2>2 DEF MessageInv
<1>11. PoolInv'
  <2>1. \A g \in Frames : /\ desc'[g].live => desc[g].live
                          /\ desc'[g].internal = desc[g].internal
                          /\ desc'[g].pending \subseteq desc[g].pending
                          /\ desc[g].complete => desc'[g].complete
    BY <1>1, <1>2
  <2>2. QED
    BY <1>0, <1>1, <2>1, PoolKept DEF PoolInv, SameWorkers
<1>12. QED
  BY <1>5, <1>6, <1>8, <1>9, <1>10, <1>11 DEF HalInv

\* A request is cancelled.
LEMMA HalCancel ==
    ASSUME HalConstants, HalInv, Android!RequestCancelled
    PROVE  HalInv'
<1>0. HalType /\ WorkerInv /\ LiveInv /\ StageInv /\ MessageInv /\ PoolInv
  BY DEF HalInv
<1>1. PICK f \in Frames, e \in Descriptor :
        /\ requests # <<>> /\ f = Head(requests) /\ requests' = Tail(requests) /\ Becomes(f, e)
        /\ e.live = desc[f].live /\ e.streams = desc[f].streams
        /\ e.internal = desc[f].internal /\ e.pending = desc[f].pending
        /\ e.errors = desc[f].streams /\ e.complete
        /\ Android!Notify(f, {Android!ErrorRequest})
        /\ SameWorkers /\ UNCHANGED <<building, descriptors>>
  BY <1>0, CancelEffect
<1>2. desc' \in [Frames -> Descriptor] /\ desc'[f] = e /\ \A g \in Frames : g # f => desc'[g] = desc[g]
  BY <1>0, <1>1, BecomesOne
<1>3. requests \in Seq(Frames) /\ IsInjective(requests)
  BY <1>0 DEF HalType, LiveInv
<1>4. /\ ToSet(requests') = ToSet(requests) \ {f} /\ f \in ToSet(requests) /\ IsInjective(requests')
      /\ requests' \in Seq(Frames) /\ Waiting' = Waiting
  BY <1>1, <1>3, HeadInToSet, ToSetOfTail DEF Waiting
<1>5. WorkerInv' /\ \A s \in Android!Processed : AtWorker(s)' = AtWorker(s) /\ LastOf(s)' = LastOf(s)
  BY <1>1, WorkersSame DEF SameWorkers
<1>m. /\ DOMAIN notified' = Frames /\ notified'[f] = notified[f] \cup {Android!ErrorRequest}
      /\ \A g \in Frames : g # f => notified'[g] = notified[g]
  BY <1>0, <1>1, MessagesSent
<1>6. HalType'
  BY <1>0, <1>1, <1>2, <1>4, <1>m DEF HalType, SameWorkers
<1>7. /\ f \in Waiting /\ f # building /\ notified[f] = {} /\ Waiting \subseteq Frames
      /\ \A s \in Android!Processed : f \notin AtWorker(s) /\ f \notin LastOf(s)
  BY <1>0, <1>4, QueuesOfFrames DEF StageInv, CameraStage, LiveInv
<1>8. LiveInv'
  BY <1>0, <1>1, <1>2, <1>4 DEF LiveInv
<1>9. StageInv'
  <2>1. CameraStage'
    BY <1>0, <1>1, <1>2, <1>4, <1>5, <1>7, <1>m DEF StageInv, CameraStage
  <2>2. WorkerStage'
    BY <1>0, <1>1, <1>2, <1>4, <1>5, <1>7, <1>m DEF StageInv, WorkerStage
  <2>3. LastStage'
    BY <1>0, <1>1, <1>2, <1>4, <1>5, <1>7, <1>m DEF StageInv, LastStage
  <2>4. QED
    BY <2>1, <2>2, <2>3 DEF StageInv
<1>10. MessageInv'
  <2>1. Android!Shutter # Android!ErrorRequest
    BY DEF Android!Shutter, Android!ErrorRequest
  <2>2. desc[f].streams # {}
    BY <1>0, <1>7 DEF LiveInv
  <2>3. QED
    BY <1>0, <1>1, <1>2, <1>7, <1>m, <2>1, <2>2 DEF MessageInv
<1>11. PoolInv'
  <2>1. \A g \in Frames : /\ desc'[g].live => desc[g].live
                          /\ desc'[g].internal = desc[g].internal
                          /\ desc'[g].pending \subseteq desc[g].pending
                          /\ desc[g].complete => desc'[g].complete
    BY <1>1, <1>2
  <2>2. QED
    BY <1>0, <1>1, <2>1, PoolKept DEF PoolInv, SameWorkers
<1>12. QED
  BY <1>5, <1>6, <1>8, <1>9, <1>10, <1>11 DEF HalInv

\* A request goes to the camera, or is lost.
LEMMA HalQueue ==
    ASSUME HalConstants, HalInv, Android!QueueToCamera
    PROVE  HalInv'
<1>0. HalType /\ WorkerInv /\ LiveInv /\ StageInv /\ MessageInv /\ PoolInv
  BY DEF HalInv
<1>1. PICK f \in Frames :
        /\ building = f /\ building' = 0 /\ descriptors' = Append(descriptors, f)
        /\ requests' = Append(requests, f) \/ requests' = requests
        /\ SameWorkers /\ UNCHANGED <<desc, notified>>
  BY <1>0, QueueEffect
<1>3. /\ descriptors \in Seq(Frames) /\ IsInjective(descriptors) /\ f \notin Waiting /\ 0 \notin Frames
      /\ requests \in Seq(Frames) /\ IsInjective(requests) /\ ToSet(requests) \subseteq Waiting
  BY <1>0, <1>1 DEF HalType, LiveInv, HalConstants
<1>4. /\ Waiting' = Waiting \cup {f} /\ IsInjective(descriptors') /\ Waiting \subseteq Frames
      /\ descriptors' \in Seq(Frames)
  BY <1>1, <1>3, ToSetOfAppend, InjectiveAppend DEF Waiting, ToSet
<1>2. /\ requests' \in Seq(Frames) /\ IsInjective(requests')
      /\ ToSet(requests') \subseteq ToSet(requests) \cup {f}
  <2>1. CASE requests' = requests
    BY <1>3, <2>1
  <2>2. CASE requests' = Append(requests, f)
    BY <1>3, <2>2, ToSetOfAppend, InjectiveAppend
  <2>3. QED
    BY <1>1, <2>1, <2>2
<1>5. WorkerInv' /\ \A s \in Android!Processed : AtWorker(s)' = AtWorker(s) /\ LastOf(s)' = LastOf(s)
  BY <1>1, WorkersSame DEF SameWorkers
<1>6. HalType'
  BY <1>0, <1>1, <1>2, <1>4 DEF HalType, SameWorkers
<1>8. LiveInv'
  BY <1>0, <1>1, <1>2, <1>3, <1>4 DEF LiveInv
<1>9. StageInv'
  <2>1. CameraStage'
    BY <1>0, <1>1, <1>2, <1>3, <1>5 DEF StageInv, CameraStage
  <2>2. WorkerStage'
    BY <1>0, <1>1, <1>4, <1>5 DEF StageInv, WorkerStage
  <2>3. LastStage'
    BY <1>0, <1>1, <1>4, <1>5 DEF StageInv, LastStage
  <2>4. QED
    BY <2>1, <2>2, <2>3 DEF StageInv
<1>10. MessageInv'
  BY <1>0, <1>1 DEF MessageInv
<1>11. PoolInv'
  BY <1>0, <1>1 DEF PoolInv, PoolAt, SameWorkers, Android!InUse
<1>12. QED
  BY <1>5, <1>6, <1>8, <1>9, <1>10, <1>11 DEF HalInv

\* A descriptor is built.
LEMMA HalBuild ==
    ASSUME HalConstants, HalInv, NEW f \in Frames, NEW streams \in (SUBSET Android!Streams) \ {{}},
           NEW need \in SUBSET Android!Processed, Android!BuildDescriptor(f, streams, need)
    PROVE  HalInv'
<1>0. HalType /\ WorkerInv /\ LiveInv /\ StageInv /\ MessageInv /\ PoolInv
  BY DEF HalInv
<1>1. PICK e \in Descriptor :
        /\ building = 0 /\ building' = f /\ Becomes(f, e)
        /\ ~desc[f].live /\ desc[f].streams = {}
        /\ e.live /\ e.streams = streams /\ e.errors = {} /\ ~e.complete
        /\ e.internal = [s \in need |-> Android!getBuffer(s)]
        /\ e.pending = streams \cap Android!Processed
        /\ UNCHANGED <<descriptors, requests, workers, notified>>
  BY <1>0, BuildEffect
<1>2. desc' \in [Frames -> Descriptor] /\ desc'[f] = e /\ \A g \in Frames : g # f => desc'[g] = desc[g]
  BY <1>0, <1>1, BecomesOne
<1>3. /\ f \notin Waiting /\ Waiting' = Waiting /\ notified[f] = {} /\ 0 \notin Frames
      /\ ToSet(requests) \subseteq Waiting /\ Waiting \subseteq Frames /\ streams # {}
  <2>1. f \notin Waiting /\ notified[f] = {} /\ ToSet(requests) \subseteq Waiting
    BY <1>0, <1>1 DEF LiveInv, MessageInv
  <2>2. Waiting' = Waiting
    BY <1>1 DEF Waiting
  <2>3. Waiting \subseteq Frames
    BY <1>0, QueuesOfFrames
  <2>4. 0 \notin Frames
    BY DEF HalConstants
  <2>5. streams # {}
    OBVIOUS
  <2>6. QED
    BY <2>1, <2>2, <2>3, <2>4, <2>5
<1>5. WorkerInv' /\ \A s \in Android!Processed : AtWorker(s)' = AtWorker(s) /\ LastOf(s)' = LastOf(s)
  BY <1>1, WorkersSame
<1>4. \A s \in Android!Processed : f \notin AtWorker(s) /\ f \notin LastOf(s)
  BY <1>0, <1>3 DEF StageInv, WorkerStage, LastStage
<1>p. \A s \in Android!Processed :
        PoolAt(s)' /\ buffers'[s] \in Seq(Nat) /\ allocated'[s] \in Nat
  BY <1>0, <1>1, PoolGiven DEF PoolInv
<1>q. DOMAIN buffers' = Android!Processed /\ DOMAIN allocated' = Android!Processed
  BY DEF Android!BuildDescriptor
<1>6. HalType'
  <2>1. buffers' \in [Android!Processed -> Seq(Nat)] /\ allocated' \in [Android!Processed -> Nat]
    <3>1. buffers' = [s \in Android!Processed |-> buffers'[s]] /\ allocated' = [s \in Android!Processed |-> allocated'[s]]
      BY DEF Android!BuildDescriptor
    <3>2. QED
      BY <1>p, <3>1
  <2>2. QED
    BY <1>0, <1>1, <1>2, <2>1 DEF HalType
<1>8. LiveInv'
  BY <1>0, <1>1, <1>2, <1>3 DEF LiveInv
<1>9. StageInv'
  <2>1. CameraStage'
    BY <1>0, <1>1, <1>2, <1>3, <1>4, <1>5 DEF StageInv, CameraStage
  <2>2. WorkerStage'
    BY <1>0, <1>1, <1>2, <1>3, <1>4, <1>5 DEF StageInv, WorkerStage
  <2>3. LastStage'
    BY <1>0, <1>1, <1>2, <1>3, <1>4, <1>5 DEF StageInv, LastStage
  <2>4. QED
    BY <2>1, <2>2, <2>3 DEF StageInv
<1>10. MessageInv'
  BY <1>0, <1>1, <1>2, <1>3 DEF MessageInv
<1>11. PoolInv'
  BY <1>p DEF PoolInv
<1>12. QED
  BY <1>5, <1>6, <1>8, <1>9, <1>10, <1>11 DEF HalInv

\* The messages of a frame differ.
LEMMA MessagesDiffer ==
    /\ Android!Shutter # Android!ErrorRequest
    /\ \A s \in Android!Processed : /\ Android!ErrorBuffer(s) # Android!ErrorRequest
                                    /\ Android!ErrorBuffer(s) # Android!Shutter
                                    /\ \A t \in Android!Processed :
                                         Android!ErrorBuffer(s) = Android!ErrorBuffer(t) => s = t
<1>2. Android!Shutter # Android!ErrorRequest
  BY DEF Android!Shutter, Android!ErrorRequest
<1>3. \A s : Android!ErrorBuffer(s) # Android!Shutter
  BY DEF Android!Shutter, Android!ErrorBuffer
<1>4. \A s, t : Android!ErrorBuffer(s) = Android!ErrorBuffer(t) => s = t
  BY DEF Android!ErrorBuffer
<1>5. \A s : Android!ErrorBuffer(s) # Android!ErrorRequest
  BY DEF Android!ErrorRequest, Android!ErrorBuffer
<1>6. QED
  BY <1>2, <1>3, <1>4, <1>5

\* A request completes, and its streams go to the workers.
LEMMA HalComplete ==
    ASSUME HalConstants, HalInv, NEW failed \in SUBSET Android!Processed,
           Android!RequestComplete(failed)
    PROVE  HalInv'
<1>0. HalType /\ WorkerInv /\ LiveInv /\ StageInv /\ MessageInv /\ PoolInv
  BY DEF HalInv
<1>1. PICK f \in Frames, e \in Descriptor :
        /\ requests # <<>> /\ f = Head(requests) /\ requests' = Tail(requests) /\ Becomes(f, e)
        /\ failed \subseteq desc[f].pending
        /\ e.live = desc[f].live /\ e.streams = desc[f].streams
        /\ e.internal = desc[f].internal /\ e.pending = desc[f].pending \ failed
        /\ e.errors = desc[f].errors \cup failed
        /\ IF e.pending = {} THEN e.complete ELSE e.complete = desc[f].complete
        /\ Android!Notify(f, {Android!Shutter} \cup {Android!ErrorBuffer(s) : s \in failed})
        /\ workers' = [s \in Android!Processed |->
               IF s \in e.pending THEN [workers[s] EXCEPT !.queue = Append(@, f)] ELSE workers[s]]
        /\ buffers' = [s \in Android!Processed |->
               IF s \in failed THEN Android!putBuffer(desc[f], s)[s] ELSE buffers[s]]
        /\ UNCHANGED <<building, descriptors, allocated>>
  BY <1>0, CompleteEffect
<1>2. desc' \in [Frames -> Descriptor] /\ desc'[f] = e /\ \A g \in Frames : g # f => desc'[g] = desc[g]
  BY <1>0, <1>1, BecomesOne
<1>3. requests \in Seq(Frames) /\ IsInjective(requests)
  BY <1>0 DEF HalType, LiveInv
<1>4. /\ ToSet(requests') = ToSet(requests) \ {f} /\ f \in ToSet(requests) /\ IsInjective(requests')
      /\ requests' \in Seq(Frames) /\ Waiting' = Waiting
  BY <1>1, <1>3, HeadInToSet, ToSetOfTail DEF Waiting
<1>7. /\ f \in Waiting /\ f # building /\ notified[f] = {} /\ Waiting \subseteq Frames
      /\ ~desc[f].complete /\ desc[f].errors = {}
      /\ \A s \in Android!Processed : f \notin AtWorker(s) /\ f \notin LastOf(s)
  BY <1>0, <1>4, QueuesOfFrames DEF StageInv, CameraStage, LiveInv
<1>l. PICK left \in SUBSET Android!Processed : left = e.pending
  BY DEF Descriptor
<1>5. /\ workers' \in [Android!Processed -> WorkerState] /\ WorkerInv'
      /\ \A s \in Android!Processed :
           /\ AtWorker(s)' = AtWorker(s) \cup (IF s \in left THEN {f} ELSE {})
           /\ LastOf(s)' = LastOf(s)
  <2>1. workers' = [s \in Android!Processed |->
          IF s \in left THEN [workers[s] EXCEPT !.queue = Append(@, f)] ELSE workers[s]]
    BY <1>1, <1>l
  <2>2. \A s \in Android!Processed : f \notin AtWorker(s) /\ f \notin LastOf(s)
    BY <1>7
  <2>3. QED
    BY <1>0, <2>1, <2>2, QueuedAt
<1>m. /\ DOMAIN notified' = Frames
      /\ notified'[f] = {Android!Shutter} \cup {Android!ErrorBuffer(s) : s \in failed}
      /\ \A g \in Frames : g # f => notified'[g] = notified[g]
  BY <1>0, <1>1, <1>7, MessagesSent
<1>p. \A s \in Android!Processed : PoolAt(s)' /\ buffers'[s] \in Seq(Nat)
  <2>1. ASSUME NEW s \in Android!Processed
        PROVE  PoolAt(s)' /\ buffers'[s] \in Seq(Nat)
    <3>0. PoolAt(s) /\ allocated'[s] = allocated[s] /\ buffers[s] \in Seq(Nat)
      BY <1>0, <1>1 DEF PoolInv, HalType
    <3>1. CASE s \in failed
      <4>1. buffers'[s] = Android!putBuffer(desc[f], s)[s]
        BY <1>1, <3>1
      <4>2. desc[f].live /\ s \in desc[f].pending /\ s \notin e.pending
        BY <1>0, <1>1, <1>7, <3>1 DEF LiveInv
      <4>3. QED
        BY <1>0, <1>1, <1>7, <3>0, <4>1, <4>2, PoolPut
    <3>2. CASE s \notin failed
      <4>1. buffers'[s] = buffers[s]
        BY <1>1, <3>2
      <4>2. \A g \in Frames : /\ desc'[g].live => desc[g].live
                              /\ desc'[g].internal = desc[g].internal
                              /\ desc'[g].pending \subseteq desc[g].pending
                              /\ desc[g].complete => desc'[g].complete
        BY <1>1, <1>2, <1>7
      <4>3. QED
        BY <3>0, <4>1, <4>2, PoolKept
    <3>3. QED
      BY <3>1, <3>2
  <2>2. QED
    BY <2>1
<1>6. HalType'
  <2>1. buffers' \in [Android!Processed -> Seq(Nat)]
    <3>1. buffers' = [s \in Android!Processed |-> buffers'[s]]
      BY <1>1
    <3>2. QED
      BY <1>p, <3>1
  <2>2. QED
    BY <1>0, <1>1, <1>2, <1>4, <1>5, <1>m, <2>1 DEF HalType
<1>8. LiveInv'
  BY <1>0, <1>1, <1>2, <1>4 DEF LiveInv
<1>9. StageInv'
  <2>1. CameraStage'
    BY <1>0, <1>1, <1>2, <1>4, <1>5, <1>7, <1>m DEF StageInv, CameraStage
  <2>2. WorkerStage'
    <3>1. left # {} => ~e.complete
      BY <1>1, <1>7, <1>l
    <3>2. QED
      BY <1>0, <1>1, <1>2, <1>4, <1>5, <1>7, <1>l, <1>m, <3>1 DEF StageInv, WorkerStage
  <2>3. LastStage'
    BY <1>0, <1>1, <1>2, <1>4, <1>5, <1>7, <1>m DEF StageInv, LastStage
  <2>4. QED
    BY <2>1, <2>2, <2>3 DEF StageInv
<1>10. MessageInv'
  <2>1. desc[f].streams # {}
    BY <1>0, <1>7 DEF LiveInv
  <2>2. Android!ErrorRequest \notin notified'[f]
    BY <1>m, MessagesDiffer
  <2>3. \A s \in Android!Processed : Android!ErrorBuffer(s) \in notified'[f] <=> s \in failed
    BY <1>m, MessagesDiffer
  <2>4. desc'[f].errors = {s \in Android!Processed : Android!ErrorBuffer(s) \in notified'[f]}
    BY <1>1, <1>2, <1>7, <2>3
  <2>5. Android!Shutter \in notified'[f] /\ desc'[f].streams # {}
    BY <1>1, <1>2, <1>m, <2>1
  <2>6. QED
    BY <1>0, <1>2, <1>m, <2>2, <2>4, <2>5 DEF MessageInv
<1>11. PoolInv'
  BY <1>p DEF PoolInv
<1>12. QED
  BY <1>5, <1>6, <1>8, <1>9, <1>10, <1>11 DEF HalInv

\* A worker takes a frame,
LEMMA HalTake ==
    ASSUME HalConstants, HalInv, NEW s \in Android!Processed, Android!WorkerTake(s)
    PROVE  HalInv'
<1>0. HalType /\ WorkerInv /\ LiveInv /\ StageInv /\ MessageInv /\ PoolInv
  BY DEF HalInv
<1>1. /\ workers' \in [Android!Processed -> WorkerState] /\ WorkerInv'
      /\ \A t \in Android!Processed : AtWorker(t)' = AtWorker(t) /\ LastOf(t)' = LastOf(t)
      /\ UNCHANGED <<building, desc, descriptors, notified, requests, buffers, allocated>>
  BY <1>0, TakeEffect
<1>2. HalType'
  BY <1>0, <1>1 DEF HalType
<1>3. LiveInv' /\ MessageInv' /\ PoolInv'
  <2>1. LiveInv'
    BY <1>0, <1>1 DEF LiveInv, Waiting
  <2>2. MessageInv'
    BY <1>0, <1>1 DEF MessageInv
  <2>3. \A t \in Android!Processed : PoolAt(t)'
    BY <1>0, <1>1, PoolKept DEF PoolInv
  <2>4. QED
    BY <2>1, <2>2, <2>3 DEF PoolInv
<1>4. CameraStage'
  BY <1>0, <1>1 DEF StageInv, CameraStage
<1>5. WorkerStage' /\ LastStage'
  BY <1>0, <1>1 DEF StageInv, WorkerStage, LastStage, Waiting
<1>6. QED
  BY <1>1, <1>2, <1>3, <1>4, <1>5 DEF HalInv, StageInv

\* finishes it,
LEMMA HalFinish ==
    ASSUME HalConstants, HalInv, NEW s \in Android!Processed,
           \E ok \in BOOLEAN : Android!WorkerFinish(s, ok)
    PROVE  HalInv'
<1>0. HalType /\ WorkerInv /\ LiveInv /\ StageInv /\ MessageInv /\ PoolInv
  BY DEF HalInv
<1>1. PICK f \in Frames, e \in Descriptor, bad \in SUBSET {s} :
        /\ workers[s].busy = f /\ ~workers[s].done /\ Becomes(f, e)
        /\ e.live = desc[f].live /\ e.streams = desc[f].streams
        /\ e.internal = desc[f].internal /\ e.pending = desc[f].pending \ {s}
        /\ e.errors = desc[f].errors \cup bad
        /\ e.complete = desc[f].complete
        /\ Android!Notify(f, {Android!ErrorBuffer(t) : t \in bad})
        /\ buffers' = Android!putBuffer(desc[f], s)
        /\ workers' = [workers EXCEPT ![s] =
               IF desc[f].pending = {s} THEN [@ EXCEPT !.done = TRUE] ELSE [@ EXCEPT !.busy = 0]]
        /\ UNCHANGED <<building, descriptors, requests, allocated>>
  BY <1>0, FinishEffect
<1>2. desc' \in [Frames -> Descriptor] /\ desc'[f] = e /\ \A g \in Frames : g # f => desc'[g] = desc[g]
  BY <1>0, <1>1, BecomesOne
<1>l. PICK last \in BOOLEAN : last = (desc[f].pending = {s})
  OBVIOUS
<1>5. /\ workers' \in [Android!Processed -> WorkerState] /\ WorkerInv'
      /\ AtWorker(s)' = AtWorker(s) \ {f} /\ f \in AtWorker(s)
      /\ LastOf(s)' = (IF last THEN {f} ELSE {}) /\ LastOf(s) = {}
      /\ \A t \in Android!Processed : t # s => AtWorker(t)' = AtWorker(t) /\ LastOf(t)' = LastOf(t)
  <2>1. workers' = [workers EXCEPT ![s] = IF last THEN [@ EXCEPT !.done = TRUE] ELSE [@ EXCEPT !.busy = 0]]
    BY <1>1, <1>l
  <2>2. QED
    BY <1>0, <1>1, <2>1, FinishedAt
<1>7. /\ f \in Waiting /\ ~desc[f].complete /\ s \in desc[f].pending /\ desc[f].live
      /\ Android!Shutter \in notified[f] /\ Waiting \subseteq Frames /\ Waiting' = Waiting
      /\ f # building /\ f \notin ToSet(requests)
  <2>1. f \in Waiting /\ ~desc[f].complete /\ s \in desc[f].pending /\ Android!Shutter \in notified[f]
    BY <1>0, <1>5 DEF StageInv, WorkerStage
  <2>2. desc[f].live /\ Waiting \subseteq Frames
    BY <1>0, <2>1, QueuesOfFrames DEF LiveInv
  <2>3. Waiting' = Waiting
    BY <1>1 DEF Waiting
  <2>4. f # building /\ f \notin ToSet(requests)
    BY <1>0, <1>5 DEF StageInv, CameraStage
  <2>5. QED
    BY <2>1, <2>2, <2>3, <2>4
<1>m. /\ DOMAIN notified' = Frames
      /\ notified'[f] = notified[f] \cup {Android!ErrorBuffer(t) : t \in bad}
      /\ \A g \in Frames : g # f => notified'[g] = notified[g]
  BY <1>0, <1>1, MessagesSent
<1>o. \A t \in Android!Processed : f \notin LastOf(t)
  BY <1>0, <1>7 DEF StageInv, LastStage
<1>p. \A t \in Android!Processed : PoolAt(t)' /\ buffers'[t] \in Seq(Nat)
  <2>1. /\ DOMAIN buffers' = Android!Processed
        /\ buffers'[s] = Android!putBuffer(desc[f], s)[s]
        /\ \A t \in Android!Processed : t # s => buffers'[t] = buffers[t]
    BY <1>0, <1>1, PoolOthers
  <2>2. PoolAt(s)' /\ buffers'[s] \in Seq(Nat)
    <3>1. PoolAt(s) /\ allocated'[s] = allocated[s]
      BY <1>0, <1>1 DEF PoolInv
    <3>2. s \notin e.pending
      BY <1>1
    <3>3. QED
      BY <1>0, <1>1, <1>7, <2>1, <3>1, <3>2, PoolPut
  <2>3. ASSUME NEW t \in Android!Processed, t # s
        PROVE  PoolAt(t)' /\ buffers'[t] \in Seq(Nat)
    <3>1. PoolAt(t) /\ allocated'[t] = allocated[t] /\ buffers[t] \in Seq(Nat) /\ buffers'[t] = buffers[t]
      BY <1>0, <1>1, <2>1, <2>3 DEF PoolInv, HalType
    <3>2. \A g \in Frames : /\ desc'[g].live => desc[g].live
                            /\ desc'[g].internal = desc[g].internal
                            /\ desc'[g].pending \subseteq desc[g].pending
                            /\ desc[g].complete => desc'[g].complete
      BY <1>1, <1>2
    <3>3. QED
      BY <3>1, <3>2, PoolKept
  <2>4. QED
    BY <2>2, <2>3
<1>6. HalType'
  <2>1. buffers' \in [Android!Processed -> Seq(Nat)]
    <3>1. buffers' = [t \in Android!Processed |-> buffers'[t]]
      BY <1>0, <1>1 DEF HalType, Android!putBuffer
    <3>2. QED
      BY <1>p, <3>1
  <2>2. QED
    BY <1>0, <1>1, <1>2, <1>5, <1>m, <2>1 DEF HalType
<1>8. LiveInv'
  <2>1. \A g \in Frames : desc'[g].live = desc[g].live /\ desc'[g].streams = desc[g].streams
    BY <1>1, <1>2
  <2>2. UNCHANGED <<building, descriptors, requests, Waiting>>
    BY <1>1, <1>7
  <2>3. QED
    BY <1>0, <2>1, <2>2 DEF LiveInv
<1>9. StageInv'
  <2>1. CameraStage'
    BY <1>0, <1>1, <1>2, <1>5, <1>7, <1>m DEF StageInv, CameraStage
  <2>2. WorkerStage'
    <3>1. ASSUME NEW t \in Android!Processed, NEW g \in AtWorker(t)'
          PROVE  /\ g \in Waiting' /\ ~desc'[g].complete /\ t \in desc'[g].pending
                 /\ Android!Shutter \in notified'[g]
      <4>1. g \in AtWorker(t) /\ (t = s => g # f)
        BY <1>5, <3>1
      <4>2. g \in Waiting /\ ~desc[g].complete /\ t \in desc[g].pending /\ Android!Shutter \in notified[g]
        BY <1>0, <4>1 DEF StageInv, WorkerStage
      <4>3. QED
        BY <1>1, <1>2, <1>7, <1>m, <4>1, <4>2
    <3>2. QED
      BY <3>1 DEF WorkerStage
  <2>3. LastStage'
    <3>1. last => e.pending = {}
      BY <1>1, <1>l
    <3>2. \A t \in Android!Processed : \A g \in LastOf(t)' :
             (t = s /\ g = f /\ last) \/ (t # s /\ g \in LastOf(t) /\ g # f)
      BY <1>5, <1>o
    <3>3. \A t \in Android!Processed : \A g \in LastOf(t)' :
             g \in Waiting' /\ ~desc'[g].complete /\ desc'[g].pending = {} /\ Android!Shutter \in notified'[g]
      <4>1. ASSUME NEW t \in Android!Processed, NEW g \in LastOf(t)'
            PROVE  g \in Waiting' /\ ~desc'[g].complete /\ desc'[g].pending = {} /\ Android!Shutter \in notified'[g]
        <5>1. CASE t = s /\ g = f /\ last
          BY <1>1, <1>2, <1>7, <1>m, <3>1, <5>1
        <5>2. CASE t # s /\ g \in LastOf(t) /\ g # f
          <6>1. g \in Waiting /\ ~desc[g].complete /\ desc[g].pending = {} /\ Android!Shutter \in notified[g]
            BY <1>0, <5>2 DEF StageInv, LastStage
          <6>2. QED
            BY <1>2, <1>7, <1>m, <5>2, <6>1
        <5>3. QED
          BY <3>2, <4>1, <5>1, <5>2
      <4>2. QED
        BY <4>1
    <3>4. \A t, u \in Android!Processed : LastOf(t)' \cap LastOf(u)' # {} => t = u
      <4>1. ASSUME NEW t \in Android!Processed, NEW u \in Android!Processed,
                   NEW g, g \in LastOf(t)', g \in LastOf(u)'
            PROVE  t = u
        BY <1>0, <3>2, <4>1 DEF StageInv, LastStage
      <4>2. QED
        BY <4>1
    <3>5. QED
      BY <3>3, <3>4 DEF LastStage
  <2>4. QED
    BY <2>1, <2>2, <2>3 DEF StageInv
<1>10. MessageInv'
  <2>1. desc[f].streams # {}
    BY <1>0, <1>7 DEF LiveInv
  <2>2. /\ Android!ErrorRequest \notin notified[f]
        /\ desc[f].errors = {t \in Android!Processed : Android!ErrorBuffer(t) \in notified[f]}
    BY <1>0, <1>7 DEF MessageInv
  <2>3. Android!ErrorRequest \notin notified'[f] /\ Android!Shutter \in notified'[f]
    BY <1>7, <1>m, <2>2, MessagesDiffer
  <2>4. \A t \in Android!Processed :
           Android!ErrorBuffer(t) \in notified'[f] <=> Android!ErrorBuffer(t) \in notified[f] \/ t \in bad
    BY <1>m, MessagesDiffer
  <2>5. e.errors = {t \in Android!Processed : Android!ErrorBuffer(t) \in notified'[f]}
    BY <1>1, <2>2, <2>4
  <2>6. QED
    BY <1>0, <1>1, <1>2, <1>m, <2>1, <2>3, <2>5 DEF MessageInv
<1>11. PoolInv'
  BY <1>p DEF PoolInv
<1>12. QED
  BY <1>5, <1>6, <1>8, <1>9, <1>10, <1>11 DEF HalInv

\* and completes its descriptor.
LEMMA HalWorkerComplete ==
    ASSUME HalConstants, HalInv, NEW s \in Android!Processed, Android!WorkerComplete(s)
    PROVE  HalInv'
<1>0. HalType /\ WorkerInv /\ LiveInv /\ StageInv /\ MessageInv /\ PoolInv
  BY DEF HalInv
<1>b. workers[s].busy \in Frames
  BY <1>0 DEF HalType, WorkerState, WorkerInv, Android!WorkerComplete
<1>1. PICK f \in Frames, e \in Descriptor :
        /\ workers[s].busy = f /\ workers[s].done /\ Becomes(f, e)
        /\ e.live = desc[f].live /\ e.streams = desc[f].streams
        /\ e.internal = desc[f].internal /\ e.pending = desc[f].pending
        /\ e.errors = desc[f].errors /\ e.complete
        /\ workers' = [workers EXCEPT ![s].busy = 0, ![s].done = FALSE]
        /\ UNCHANGED <<building, descriptors, requests, notified, buffers, allocated>>
  BY <1>0, <1>b, WorkerCompleteEffect
<1>2. desc' \in [Frames -> Descriptor] /\ desc'[f] = e /\ \A g \in Frames : g # f => desc'[g] = desc[g]
  BY <1>0, <1>1, BecomesOne
<1>5. /\ workers' \in [Android!Processed -> WorkerState] /\ WorkerInv'
      /\ AtWorker(s)' = AtWorker(s) /\ LastOf(s) = {f} /\ LastOf(s)' = {}
      /\ \A t \in Android!Processed : t # s => AtWorker(t)' = AtWorker(t) /\ LastOf(t)' = LastOf(t)
  BY <1>0, <1>1, CompletedAt
<1>7. /\ f \in Waiting /\ ~desc[f].complete /\ desc[f].pending = {} /\ Android!Shutter \in notified[f]
      /\ Waiting' = Waiting /\ Waiting \subseteq Frames
      /\ f # building /\ f \notin ToSet(requests)
      /\ \A t \in Android!Processed : f \notin AtWorker(t) /\ (t # s => f \notin LastOf(t))
  <2>1. f \in Waiting /\ ~desc[f].complete /\ desc[f].pending = {} /\ Android!Shutter \in notified[f]
    BY <1>0, <1>5 DEF StageInv, LastStage
  <2>2. Waiting' = Waiting /\ Waiting \subseteq Frames
    BY <1>0, <1>1, QueuesOfFrames DEF Waiting
  <2>3. f # building /\ f \notin ToSet(requests)
    BY <1>0, <1>5 DEF StageInv, CameraStage
  <2>4. ASSUME NEW t \in Android!Processed PROVE f \notin AtWorker(t) /\ (t # s => f \notin LastOf(t))
    <3>1. f \notin AtWorker(t)
      BY <1>0, <2>1 DEF StageInv, WorkerStage
    <3>2. t # s => f \notin LastOf(t)
      BY <1>0, <1>5 DEF StageInv, LastStage
    <3>3. QED
      BY <3>1, <3>2
  <2>5. QED
    BY <2>1, <2>2, <2>3, <2>4
<1>6. HalType'
  BY <1>0, <1>1, <1>2, <1>5 DEF HalType
<1>8. LiveInv'
  BY <1>0, <1>1, <1>2, <1>7 DEF LiveInv
<1>w. \A t \in Android!Processed : AtWorker(t)' = AtWorker(t) /\ LastOf(t)' = LastOf(t) \ {f}
  BY <1>5, <1>7
<1>9. StageInv'
  <2>1. CameraStage'
    BY <1>0, <1>1, <1>2, <1>7, <1>w DEF StageInv, CameraStage
  <2>2. WorkerStage'
    BY <1>0, <1>1, <1>2, <1>7, <1>w DEF StageInv, WorkerStage
  <2>3. LastStage'
    BY <1>0, <1>1, <1>2, <1>7, <1>w DEF StageInv, LastStage
  <2>4. QED
    BY <2>1, <2>2, <2>3 DEF StageInv
<1>10. MessageInv'
  <2>1. desc[f].streams # {}
    BY <1>0, <1>7 DEF LiveInv
  <2>2. QED
    BY <1>0, <1>1, <1>2, <1>7, <2>1 DEF MessageInv
<1>11. PoolInv'
  <2>1. \A g \in Frames : /\ desc'[g].live => desc[g].live
                          /\ desc'[g].internal = desc[g].internal
                          /\ desc'[g].pending \subseteq desc[g].pending
                          /\ desc[g].complete => desc'[g].complete
    BY <1>1, <1>2
  <2>2. QED
    BY <1>0, <1>1, <2>1, PoolKept DEF PoolInv
<1>12. QED
  BY <1>5, <1>6, <1>8, <1>9, <1>10, <1>11 DEF HalInv

\* No descriptor is left, so no worker has one.
LEMMA HalConfigure ==
    ASSUME HalConstants, HalInv, Android!ConfigureStreams
    PROVE  HalInv'
<1>0. HalType /\ WorkerInv /\ LiveInv /\ StageInv /\ MessageInv /\ PoolInv
  BY DEF HalInv
<1>1. /\ building = 0 /\ descriptors = <<>>
      /\ workers' = [s \in Android!Processed |-> Android!IdleWorker]
      /\ buffers' = [s \in Android!Processed |-> <<>>]
      /\ allocated' = [s \in Android!Processed |-> 0]
      /\ UNCHANGED <<building, descriptors, desc, notified, requests>>
  BY DEF Android!ConfigureStreams, Android!captureVars
<1>2. Waiting = {} /\ Waiting' = {} /\ 0 \notin Frames
  BY <1>1, ToSetOfEmpty DEF Waiting, HalConstants
<1>3. \A f \in Frames : ~desc'[f].live
  BY <1>0, <1>1, <1>2 DEF LiveInv
<1>4. \A s \in Android!Processed :
        /\ workers'[s] = Android!IdleWorker /\ buffers'[s] = <<>>
        /\ Android!InUse(s)' = {}
  BY <1>1, <1>3 DEF Android!InUse
<1>5. /\ Android!IdleWorker \in WorkerState /\ Android!IdleWorker.queue = <<>>
      /\ Android!IdleWorker.busy = 0 /\ ~Android!IdleWorker.done
  <2>1. <<>> \in Seq(Frames)
    BY EmptySeq
  <2>2. Android!IdleWorker \in WorkerState
    BY <2>1, Zenon DEF Android!IdleWorker, WorkerState
  <2>3. QED
    BY <2>2 DEF Android!IdleWorker
<1>6. HalType'
  <2>1. workers' \in [Android!Processed -> WorkerState]
    BY <1>1, <1>5
  <2>2. <<>> \in Seq(Nat)
    BY EmptySeq
  <2>3. buffers' \in [Android!Processed -> Seq(Nat)]
    BY <1>1, <2>2
  <2>4. allocated' \in [Android!Processed -> Nat]
    BY <1>1
  <2>5. QED
    BY <1>0, <1>1, <2>1, <2>3, <2>4 DEF HalType
<1>7. WorkerInv' /\ \A s \in Android!Processed : AtWorker(s)' = {} /\ LastOf(s)' = {}
  BY <1>4, <1>5, ToSetOfEmpty DEF WorkerInv, AtWorker, LastOf, IsInjective
<1>8. LiveInv'
  BY <1>0, <1>1, <1>2 DEF LiveInv
<1>9. StageInv'
  <2>1. CameraStage'
    BY <1>0, <1>1, <1>2, <1>7 DEF LiveInv, CameraStage
  <2>2. WorkerStage' /\ LastStage'
    BY <1>7 DEF WorkerStage, LastStage
  <2>3. QED
    BY <2>1, <2>2 DEF StageInv
<1>10. MessageInv'
  BY <1>0, <1>1 DEF MessageInv
<1>11. PoolInv'
  BY <1>4, ToSetOfEmpty DEF PoolInv, PoolAt, IsInjective
<1>12. QED
  BY <1>6, <1>7, <1>8, <1>9, <1>10, <1>11 DEF HalInv

\* flush() changes none of the queues.
LEMMA HalSame ==
    ASSUME HalInv, SameWorkers, UNCHANGED <<building, descriptors, desc, notified, requests>>
    PROVE  HalInv'
<1>0. HalType /\ WorkerInv /\ LiveInv /\ StageInv /\ MessageInv /\ PoolInv
  BY DEF HalInv
<1>1. HalType' /\ LiveInv' /\ MessageInv' /\ PoolInv'
  <2>1. HalType'
    BY <1>0 DEF SameWorkers, HalType
  <2>2. LiveInv'
    BY <1>0 DEF LiveInv, Waiting
  <2>3. MessageInv'
    BY <1>0 DEF MessageInv
  <2>4. \A s \in Android!Processed : PoolAt(s)'
    BY <1>0, PoolKept DEF SameWorkers, PoolInv
  <2>5. QED
    BY <2>1, <2>2, <2>3, <2>4 DEF PoolInv
<1>2. WorkerInv' /\ \A s \in Android!Processed : AtWorker(s)' = AtWorker(s) /\ LastOf(s)' = LastOf(s)
  BY WorkersSame DEF SameWorkers
<1>3. CameraStage'
  BY <1>0, <1>2 DEF StageInv, CameraStage
<1>4. WorkerStage' /\ LastStage'
  BY <1>0, <1>2 DEF StageInv, WorkerStage, LastStage, Waiting
<1>5. QED
  BY <1>1, <1>2, <1>3, <1>4 DEF HalInv, StageInv

\* The invariant of the HAL holds at first,
LEMMA HalInvInit ==
    ASSUME HalConstants, Android!Init
    PROVE  HalInv
<1>1. Waiting = {} /\ ToSet(requests) = {} /\ 0 \notin Frames
  BY ToSetOfEmpty DEF Android!Init, Waiting, HalConstants
<1>2. /\ Android!IdleWorker \in WorkerState /\ Android!IdleWorker.queue = <<>>
      /\ Android!IdleWorker.busy = 0 /\ ~Android!IdleWorker.done
  <2>1. <<>> \in Seq(Frames)
    BY EmptySeq
  <2>2. Android!IdleWorker \in WorkerState
    BY <2>1, Zenon DEF Android!IdleWorker, WorkerState
  <2>3. QED
    BY <2>2 DEF Android!IdleWorker
<1>3. /\ Android!NoDescriptor \in Descriptor /\ ~Android!NoDescriptor.live /\ Android!NoDescriptor.streams = {}
      /\ Android!NoDescriptor.errors = {} /\ ~Android!NoDescriptor.complete
  <2>1. <<>> \in Internals
    BY DEF Internals
  <2>2. Android!NoDescriptor \in Descriptor
    BY <2>1, Zenon DEF Descriptor, Android!NoDescriptor
  <2>3. QED
    BY <2>2 DEF Android!NoDescriptor
<1>4. \A f \in Frames : desc[f] = Android!NoDescriptor /\ notified[f] = {}
  BY DEF Android!Init
<1>5. \A s \in Android!Processed : workers[s] = Android!IdleWorker /\ buffers[s] = <<>> /\ Android!InUse(s) = {}
  BY <1>3, <1>4 DEF Android!Init, Android!InUse
<1>6. HalType
  <2>1. <<>> \in Seq(Frames) /\ <<>> \in Seq(Nat)
    BY EmptySeq
  <2>2. descriptors \in Seq(Frames) /\ requests \in Seq(Frames)
    BY <2>1, Zenon DEF Android!Init
  <2>3. desc \in [Frames -> Descriptor]
    BY <1>3 DEF Android!Init
  <2>4. workers \in [Android!Processed -> WorkerState]
    BY <1>2 DEF Android!Init
  <2>5. buffers \in [Android!Processed -> Seq(Nat)]
    BY <2>1 DEF Android!Init
  <2>6. building = 0 /\ allocated \in [Android!Processed -> Nat] /\ DOMAIN notified = Frames
    BY DEF Android!Init
  <2>7. QED
    BY <2>2, <2>3, <2>4, <2>5, <2>6 DEF HalType
<1>7. WorkerInv /\ \A s \in Android!Processed : AtWorker(s) = {} /\ LastOf(s) = {}
  BY <1>2, <1>5, ToSetOfEmpty DEF WorkerInv, AtWorker, LastOf, IsInjective
<1>8. LiveInv
  BY <1>1, <1>3, <1>4 DEF LiveInv, Android!Init, IsInjective
<1>9. StageInv
  BY <1>1, <1>7 DEF StageInv, CameraStage, WorkerStage, LastStage, Android!Init
<1>10. MessageInv
  BY <1>3, <1>4 DEF MessageInv
<1>11. PoolInv
  BY <1>5, ToSetOfEmpty DEF PoolInv, PoolAt, IsInjective
<1>12. QED
  BY <1>6, <1>7, <1>8, <1>9, <1>10, <1>11 DEF HalInv

\* and every step keeps it.
LEMMA HalInvStep ==
    ASSUME HalConstants, HalInv, [Android!Next]_(Android!vars)
    PROVE  HalInv'
<1>1. CASE \E f \in Frames, streams \in Requested, need \in SUBSET Android!Processed :
              Android!BuildDescriptor(f, streams, need)
  BY <1>1, HalBuild DEF HalConstants
<1>2. CASE Android!RefuseRequest
  BY <1>2, HalRefuse
<1>3. CASE Android!AbortDuringFlush
  BY <1>3, HalAbort
<1>4. CASE Android!QueueToCamera
  BY <1>4, HalQueue
<1>5. CASE Android!RequestCancelled
  BY <1>5, HalCancel
<1>6. CASE \E failed \in SUBSET Android!Processed : Android!RequestComplete(failed)
  BY <1>6, HalComplete
<1>7. CASE Android!SendCaptureResult
  BY <1>7, HalSend
<1>8. CASE \E s \in Android!Processed : Android!WorkerTake(s)
  BY <1>8, HalTake
<1>9. CASE \E s \in Android!Processed : Android!WorkerComplete(s)
  BY <1>9, HalWorkerComplete
<1>10. CASE \E s \in Android!Processed : \E ok \in BOOLEAN : Android!WorkerFinish(s, ok)
  BY <1>10, HalFinish
<1>11. CASE Android!FlushBegin \/ Android!FlushStop \/ Android!FlushEnd \/ UNCHANGED Android!vars
  <2>1. SameWorkers /\ UNCHANGED <<building, descriptors, desc, notified, requests>>
    BY <1>11 DEF Android!FlushBegin, Android!FlushStop, Android!FlushEnd, Android!vars,
                 Android!captureVars, SameWorkers
  <2>2. QED
    BY <2>1, HalSame
<1>12. CASE Android!ConfigureStreams
  BY <1>12, HalConfigure
<1>13. QED
  BY <1>1, <1>2, <1>3, <1>4, <1>5, <1>6, <1>7, <1>8, <1>9, <1>10, <1>11, <1>12
     DEF Android!Next, Android!ProcessCaptureRequest, Android!Camera, Android!Worker

\* With one mapped stream, the stream that takes a buffer is the only one to read it.
LEMMA OneReader ==
    ASSUME \A s, t \in Mapped : s = t, NEW s \in Android!Processed
    PROVE  Android!ReadFor(s) \subseteq Android!InUse(s)
<1>1. ASSUME NEW f \in Frames, Android!Readers(f, s) \cap desc[f].pending # {}
      PROVE  s \in desc[f].pending
  BY <1>1 DEF Android!Readers
<1>2. QED
  BY <1>1 DEF Android!ReadFor, Android!InUse

\* AndroidBuffersExclusive: whatever the interleaving of the framework threads, the
\* camera and the workers, a buffer of a stream's pool is held by that stream for one
\* frame or is in the pool, once; and where at most one mapped stream is configured, it
\* returns to the pool only when nobody reads it (ReturnedWhenDone, which does not
\* hold with two).
THEOREM HalBuffersExclusive ==
    ASSUME HalConstants
    PROVE  /\ Android!Spec => []AndroidBuffersExclusive
           /\ (\A s, t \in Mapped : s = t) => (Android!Spec => []Android!ReturnedWhenDone)
<1>1. ASSUME Android!Init PROVE HalInv
  BY <1>1, HalInvInit
<1>2. ASSUME HalInv, [Android!Next]_(Android!vars) PROVE HalInv'
  BY <1>2, HalInvStep
<1>3. ASSUME HalInv, NEW s \in Android!Processed PROVE Android!Exclusive(s, Android!InUse(s))
  <2>1. PICK b \in Seq(Nat) : b = buffers[s]
    BY <1>3 DEF HalInv, HalType
  <2>2. /\ IsInjective(b)
        /\ \A f \in Android!InUse(s) :
             /\ desc[f].internal[s] \notin ToSet(b)
             /\ \A g \in Android!InUse(s) : f # g => desc[f].internal[s] # desc[g].internal[s]
    BY <1>3, <2>1 DEF HalInv, PoolInv, PoolAt
  <2>3. QED
    BY <2>1, <2>2 DEF IsInjective, ToSet, Android!Exclusive
<1>4. ASSUME HalInv PROVE AndroidBuffersExclusive
  BY <1>3, <1>4 DEF AndroidBuffersExclusive, Android!BuffersExclusive
<1>5. ASSUME HalInv, \A s, t \in Mapped : s = t PROVE Android!ReturnedWhenDone
  <2>1. ASSUME NEW s \in Android!Processed PROVE Android!Exclusive(s, Android!ReadFor(s))
    <3>1. Android!ReadFor(s) \subseteq Android!InUse(s)
      BY <1>5, OneReader
    <3>2. Android!Exclusive(s, Android!InUse(s))
      BY <1>3, <1>5
    <3>3. QED
      BY <3>1, <3>2 DEF Android!Exclusive
  <2>2. QED
    BY <2>1 DEF Android!ReturnedWhenDone
<1>6. Android!Spec => []AndroidBuffersExclusive
  BY <1>1, <1>2, <1>4, PTL DEF Android!Spec
<1>7. ASSUME \A s, t \in Mapped : s = t PROVE Android!Spec => []Android!ReturnedWhenDone
  <2>1. ASSUME HalInv PROVE Android!ReturnedWhenDone
    BY <1>5, <1>7, <2>1
  <2>2. QED
    BY <1>1, <1>2, <2>1, PTL DEF Android!Spec
<1>8. QED
  BY <1>6, <1>7

\* A step of the HAL queues a frame last, returns the first, or leaves the queue.
LEMMA HalFifoStep ==
    ASSUME HalConstants, HalInv, [Android!Next]_(Android!vars)
    PROVE  [Android!Fifo!Next]_(Android!Fifo!vars)
<1>0. /\ HalType /\ LiveInv /\ descriptors \in Seq(Frames) /\ IsInjective(descriptors)
      /\ building \notin Waiting /\ Waiting \subseteq Frames
  BY QueuesOfFrames DEF HalInv, HalType, LiveInv
<1>1. /\ Waiting = {descriptors[i] : i \in DOMAIN descriptors}
      /\ Waiting' = {descriptors'[i] : i \in DOMAIN descriptors'}
  BY DEF Waiting, ToSet
<1>2. ASSUME NEW f \in Frames, f = building, descriptors' = Append(descriptors, f)
      PROVE  Android!Fifo!Queue(f)
  <2>1. Waiting' = Waiting \cup {f} /\ f \notin Waiting
    BY <1>0, <1>2, ToSetOfAppend DEF Waiting
  <2>2. QED
    BY <1>1, <1>2, <2>1 DEF Android!Fifo!Queue
<1>3. CASE Android!AbortDuringFlush
  <2>1. PICK f \in Frames : f = building /\ descriptors' = Append(descriptors, f)
    BY <1>0, <1>3, AbortDuringFlushEffect
  <2>2. QED
    BY <1>2, <2>1 DEF Android!Fifo!Next
<1>4. CASE Android!QueueToCamera
  <2>1. PICK f \in Frames : f = building /\ descriptors' = Append(descriptors, f)
    BY <1>0, <1>4, QueueEffect
  <2>2. QED
    BY <1>2, <2>1 DEF Android!Fifo!Next
<1>5. CASE Android!SendCaptureResult
  <2>1. PICK f \in Frames : descriptors # <<>> /\ f = Head(descriptors) /\ descriptors' = Tail(descriptors)
    BY <1>0, <1>5, SendEffect
  <2>2. Waiting' = Waiting \ {f} /\ f \in Waiting
    BY <1>0, <2>1, HeadInToSet, ToSetOfTail DEF Waiting
  <2>3. Frames \ Waiting' = (Frames \ Waiting) \cup {f}
    BY <1>0, <2>2
  <2>4. Android!Fifo!Complete
    BY <1>1, <2>1, <2>3 DEF Android!Fifo!Complete
  <2>5. QED
    BY <2>4 DEF Android!Fifo!Next
<1>6. CASE descriptors' = descriptors
  BY <1>6 DEF Android!Fifo!vars
<1>7. CASE \E failed \in SUBSET Android!Processed : Android!RequestComplete(failed)
  <2>1. descriptors' = descriptors
    BY <1>7 DEF Android!RequestComplete, Android!completeDescriptor
  <2>2. QED
    BY <1>6, <2>1
<1>8. QED
  BY <1>3, <1>4, <1>5, <1>6, <1>7
     DEF Android!Next, Android!ProcessCaptureRequest, Android!Camera, Android!Worker,
         Android!BuildDescriptor, Android!RefuseRequest, Android!RequestCancelled,
         Android!WorkerTake, Android!WorkerFinish, Android!WorkerComplete, Android!completeDescriptor,
         Android!FlushBegin, Android!FlushStop, Android!FlushEnd, Android!ConfigureStreams,
         Android!vars, Android!captureVars

\* AndroidResults: results reach the framework in submission order, one for each
\* accepted request, each after exactly one of a shutter and a request error message.
THEOREM HalResultsAnnounced ==
    ASSUME HalConstants
    PROVE  Android!Spec => AndroidResults
<1>1. ASSUME Android!Init PROVE HalInv /\ Android!Fifo!Init
  <2>1. HalInv
    BY <1>1, HalInvInit
  <2>2. descriptors = <<>>
    BY <1>1 DEF Android!Init
  <2>3. {descriptors[i] : i \in DOMAIN descriptors} = {}
    BY <2>2
  <2>4. QED
    BY <2>1, <2>2, <2>3 DEF Android!Fifo!Init
<1>2. ASSUME HalInv, [Android!Next]_(Android!vars)
      PROVE  HalInv' /\ [Android!Fifo!Next]_(Android!Fifo!vars)
  BY <1>2, HalInvStep, HalFifoStep
<1>3. ASSUME HalInv PROVE Android!NotifiedResults
  <2>1. MessageInv
    BY <1>3 DEF HalInv
  <2>2. QED
    BY <2>1 DEF MessageInv, Android!NotifiedResults, Android!Sent
<1>4. QED
  BY <1>1, <1>2, <1>3, PTL
     DEF Android!Spec, AndroidResults, Android!ResultsAnnounced, Android!ResultsInOrder, Android!Fifo!Spec
=============================================================================
