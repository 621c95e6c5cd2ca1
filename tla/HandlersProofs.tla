--------------------------- MODULE HandlersProofs ---------------------------
(***************************************************************************)
(* Theorems about DelayedControls and about the rkisp1 pipeline handler.    *)
(***************************************************************************)
EXTENDS MCHandlers, QueueLemmas, FiniteSetTheorems

(***************************************************************************)
(* DelayedControls                                                          *)
(***************************************************************************)

\* DelayedControls is given more than one slot for a control: listSize is 16.
DelayedConstants == ListSize > 1 /\ ResetOnStart

\* The slot still has what was queued for an index.
Kept(i) == i > queueCount - ListSize \/ i >= OldestPending

\* The events of the frames the sensor has started since the last one seen are lost, and
\* no more is queued than the ring buffers hold.
CountsSound ==
    /\ writeCount <= frame /\ writeCount <= queueCount
    /\ \A n \in writeCount .. frame - 1 : n \in lost
    /\ queueCount - OldestPending <= ListSize

RingSound ==
    \A c \in Controls : \A i \in 0 .. queueCount - 1 : Kept(i) => Slot(c, i).value = wanted[i][c]

\* A slot that is still to be written is marked when a push() set the control in it.
MarksSound ==
    \A c \in Controls : \A i \in 0 .. queueCount - 1 :
        i >= WriteIndex(c) => (Slot(c, i).updated <=> (i # 0 /\ since[i][c] = i))

\* Nothing was set between an index and the push() its value comes from.
SinceSound ==
    \A c \in Controls : \A i \in 0 .. queueCount - 1 :
        /\ since[i][c] <= i
        /\ \A k \in since[i][c] .. i : since[k][c] = since[i][c] /\ wanted[k][c] = wanted[i][c]

\* The last index written whose value is in effect at frame f.
Effective(c, f) ==
    IF f <= writeCount - 1 + delay[c] THEN Clamp(f - maxDelay)
    ELSE Clamp(writeCount - 1 + delay[c] - maxDelay)

EffectSound ==
    \A c \in Controls \ spoiled : \A f \in Frames :
        Timely(c, Effective(c, f)) => inEffect[c][f] = wanted[Effective(c, f)][c]

\* What may be written to the device is a value.
DueSound == \A c \in Controls : \A j \in 0 .. ListSize - 1 : values[c][j].updated => values[c][j].value \in Values

DelayedInv ==
    TypeOK /\ CountsSound /\ RingSound /\ MarksSound /\ SinceSound /\ EffectSound /\ DueSound
\* A finite set of delays has a largest one.
LEMMA LargestOf ==
    ASSUME NEW S, S \subseteq Nat, S # {}, IsFiniteSet(S)
    PROVE  \E d \in S : \A e \in S : e <= d
<1>1. PICK n \in Nat : ExistsBijection(1 .. n, S)
  BY FS_NatBijection
<1>f. PICK f \in [1 .. n -> S] : \A e \in S : \E i \in 1 .. n : f[i] = e
  BY <1>1 DEF ExistsBijection, Bijection, Injection, Surjection
<1> DEFINE Above(k) == {d \in S : \A i \in k .. n : f[i] <= d}
           T == {k \in Nat : k >= 1 /\ Above(k) # {}}
<1>2. n + 1 \in T
  <2>1. PICK d \in S : TRUE
    OBVIOUS
  <2>2. d \in Above(n + 1)
    OBVIOUS
  <2>3. QED
    BY <2>2
<1>3. PICK k \in T : \A j \in T : k <= j
  <2>1. T \subseteq Nat /\ T # {}
    BY <1>2
  <2> HIDE DEF T
  <2>2. QED
    BY <2>1, SmallestMember
<1>4. PICK d \in S : \A i \in k .. n : f[i] <= d
  BY <1>3
<1>5. k = 1
  <2>1. SUFFICES ASSUME k > 1 PROVE FALSE
    BY <1>3
  <2>2. k - 1 \in Nat /\ k - 1 >= 1 /\ k \in Nat
    BY <2>1, <1>3
  <2>3. k - 1 <= n
    BY <1>2, <1>3
  <2>4. f[k - 1] \in S /\ f[k - 1] \in Nat /\ d \in Nat
    <3>1. k - 1 \in 1 .. n /\ d \in Nat
      BY <2>2, <2>3
    <3>2. f[k - 1] \in S
      BY <3>1, <1>f
    <3>3. QED
      BY <3>1, <3>2
  <2>5. PICK m \in S : f[k - 1] <= m /\ d <= m
    BY <2>4, <1>4
  <2>6. m \in Above(k - 1)
    <3>1. ASSUME NEW i \in k - 1 .. n PROVE f[i] <= m
      <4>1. i = k - 1 \/ i \in k .. n
        BY <2>2
      <4>2. i \in 1 .. n
        BY <2>2
      <4>3. f[i] \in Nat /\ m \in Nat
        BY <4>2, <1>f
      <4>4. QED
        BY <4>1, <4>3, <2>4, <2>5, <1>4
    <3>2. QED
      BY <3>1
  <2>7. k - 1 \in T
    BY <2>2, <2>6
  <2>8. QED
    BY <2>7, <1>3, <2>2
<1>6. QED
  BY <1>f, <1>4, <1>5

LEMMA DelayBounds ==
    /\ maxDelay \in Nat /\ minDelay \in Nat
    /\ \A c \in Controls : minDelay <= delay[c] /\ delay[c] <= maxDelay /\ delay[c] \in Nat
<1>1. Range(delay) \subseteq Nat /\ Range(delay) # {} /\ \A c \in Controls : delay[c] \in Range(delay)
  BY DelayedControlsAssumption DEF Range
<1>2. IsFiniteSet(Range(delay))
  <2>1. Range(delay) = {delay[c] : c \in Controls}
    BY DelayedControlsAssumption DEF Range
  <2>2. QED
    <3>1. delay \in Surjection(Controls, Range(delay))
      BY <2>1, DelayedControlsAssumption DEF Surjection
    <3>2. QED
      BY <3>1, FS_Surjection, DelayedControlsAssumption
<1>3. maxDelay \in Range(delay) /\ \A e \in Range(delay) : e <= maxDelay
  BY <1>1, <1>2, LargestOf DEF maxDelay
<1>4. minDelay \in Range(delay) /\ \A e \in Range(delay) : minDelay <= e
  BY <1>1, SmallestMember DEF minDelay
<1>5. QED
  BY <1>1, <1>3, <1>4

\* Indices less than a ring apart have different slots.
LEMMA SlotsApart ==
    ASSUME NEW L \in Nat \ {0}, NEW i \in Int, NEW k \in Int, i < k, k < i + L
    PROVE  i % L # k % L
<1>1. PICK a \in Int, b \in Int : /\ i = L * a + (i % L) /\ k = L * b + (k % L)
  <2>1. i = L * (i \div L) + (i % L) /\ i \div L \in Int
    OBVIOUS
  <2>2. k = L * (k \div L) + (k % L) /\ k \div L \in Int
    OBVIOUS
  <2>3. QED
    BY <2>1, <2>2
<1>2. SUFFICES ASSUME i % L = k % L PROVE FALSE
  OBVIOUS
<1>3. k - i = L * b - L * a
  BY <1>1, <1>2
<1>4. L * b - L * a = L * (b - a)
  OBVIOUS
<1>5. PICK d \in Int : d = b - a
  OBVIOUS
<1>6. L * d > 0 /\ L * d < L
  BY <1>3, <1>4, <1>5
<1>7. d > 0 => L * d >= L
  OBVIOUS
<1>8. d <= 0 => L * d <= 0
  OBVIOUS
<1>9. QED
  BY <1>6, <1>7, <1>8

LEMMA SlotOf ==
    ASSUME NEW i \in Int
    PROVE  i % ListSize \in 0 .. ListSize - 1
  BY DelayedControlsAssumption

LEMMA IndexBounds ==
    ASSUME TypeOK, NEW c \in Controls
    PROVE  /\ WriteIndex(c) \in Nat /\ OldestPending \in Nat
           /\ OldestPending <= WriteIndex(c) /\ WriteIndex(c) <= writeCount /\ OldestPending <= writeCount
           /\ queueCount \in Nat /\ queueCount >= 1 /\ writeCount \in Nat /\ frame \in Nat
           /\ frame <= MaxFrames /\ writeCount <= MaxFrames /\ MaxFrames \in Nat /\ ListSize \in Nat
<1>1. queueCount \in Nat /\ queueCount >= 1 /\ writeCount \in Nat /\ frame \in Nat
      /\ frame <= MaxFrames /\ writeCount <= MaxFrames /\ MaxFrames \in Nat /\ ListSize \in Nat
  BY DelayedControlsAssumption DEF TypeOK, MaxIndex
<1>2. maxDelay \in Nat /\ minDelay \in Nat /\ minDelay <= delay[c] /\ delay[c] <= maxDelay /\ delay[c] \in Nat
  BY DelayBounds
<1>3. QED
  BY <1>1, <1>2 DEF WriteIndex, OldestPending, Clamp

LEMMA EffectiveBounds ==
    ASSUME DelayedInv, NEW c \in Controls, NEW f \in Frames
    PROVE  Effective(c, f) \in 0 .. queueCount - 1 /\ f \in Nat
<1>1. queueCount \in Nat /\ queueCount >= 1 /\ writeCount \in Nat /\ writeCount <= queueCount
  BY IndexBounds DEF DelayedInv, CountsSound
<1>2. maxDelay \in Nat /\ delay[c] <= maxDelay /\ delay[c] \in Nat /\ MaxFrames \in Nat
  BY DelayBounds, DelayedControlsAssumption
<1>3. f \in Nat
  BY <1>2 DEF Frames
<1>4. QED
  BY <1>1, <1>2, <1>3 DEF Effective, Clamp

\* push() fills the slot of an index and leaves the slots before it.
FillsSlot(new) ==
    /\ \A c \in Controls : values'[c][queueCount % ListSize] = Filled(c, new)
    /\ \A c \in Controls : \A i \in Int :
        i < queueCount /\ i > queueCount - ListSize => values'[c][i % ListSize] = values[c][i % ListSize]
    /\ values' \in [Controls -> [0 .. ListSize - 1 -> Info]]
    /\ DueSound'
    /\ \A c \in Controls : Filled(c, new).value \in Values
    /\ \A c \in Controls : c \notin DOMAIN new => Filled(c, new).value = wanted[queueCount - 1][c]

LEMMA Fill ==
    ASSUME DelayedConstants, TypeOK, RingSound, DueSound, NEW new \in NewControls,
           values' = [c \in Controls |-> [values[c] EXCEPT ![queueCount % ListSize] = Filled(c, new)]]
    PROVE  FillsSlot(new)
<1>1. queueCount \in Int /\ queueCount >= 1 /\ ListSize \in Nat \ {0} /\ ListSize > 1
  BY DelayedControlsAssumption DEF TypeOK, DelayedConstants
<1>2. queueCount % ListSize \in 0 .. ListSize - 1
  BY <1>1
<1>3. values \in [Controls -> [0 .. ListSize - 1 -> Info]]
  BY DEF TypeOK
<1>4. ASSUME NEW c \in Controls
      PROVE  /\ values'[c] = [values[c] EXCEPT ![queueCount % ListSize] = Filled(c, new)]
             /\ values'[c][queueCount % ListSize] = Filled(c, new)
             /\ \A j \in 0 .. ListSize - 1 : j # queueCount % ListSize => values'[c][j] = values[c][j]
  BY <1>2, <1>3
<1>5. ASSUME NEW c \in Controls, NEW i \in Int, i < queueCount, i > queueCount - ListSize
      PROVE  values'[c][i % ListSize] = values[c][i % ListSize]
  <2>1. i % ListSize # queueCount % ListSize
    <3>1. i < queueCount /\ queueCount < i + ListSize
      BY <1>1, <1>5
    <3>2. QED
      BY <3>1, <1>1, SlotsApart
  <2>2. i % ListSize \in 0 .. ListSize - 1
    BY <1>1
  <2>3. QED
    BY <2>1, <2>2, <1>4
<1>6. ASSUME NEW c \in Controls
      PROVE  /\ Filled(c, new) \in Info /\ Filled(c, new).value \in Values
             /\ c \notin DOMAIN new => Filled(c, new).value = wanted[queueCount - 1][c]
  <2>1. CASE c \in DOMAIN new
    <3>1. PICK C \in SUBSET Controls : new \in [C -> Values]
      BY DEF NewControls
    <3>2. new[c] \in Values
      BY <3>1, <2>1
    <3>3. QED
      BY <3>2, <2>1 DEF Filled, Info
  <2>2. CASE c \notin DOMAIN new
    <3>1. queueCount - 1 \in 0 .. queueCount - 1 /\ Kept(queueCount - 1)
      BY <1>1 DEF Kept
    <3>2. Slot(c, queueCount - 1).value = wanted[queueCount - 1][c]
      BY <3>1 DEF RingSound
    <3>3. wanted[queueCount - 1][c] \in Values
      BY <3>1 DEF TypeOK
    <3>4. QED
      BY <2>2, <3>2, <3>3 DEF Filled, Info
  <2>3. QED
    BY <2>1, <2>2
<1>7. values' \in [Controls -> [0 .. ListSize - 1 -> Info]]
  <2>1. ASSUME NEW c \in Controls PROVE values'[c] \in [0 .. ListSize - 1 -> Info]
    BY <1>2, <1>3, <1>4, <1>6
  <2>2. QED
    BY <2>1
<1>8. DueSound'
  BY <1>4, <1>6 DEF DueSound
<1>9. QED
  BY <1>4, <1>5, <1>6, <1>7, <1>8 DEF FillsSlot

LEMMA PushStep ==
    ASSUME DelayedConstants, DelayedInv, NEW new \in NewControls, push(new)
    PROVE  DelayedInv'
<1> USE DEF DelayedInv
<1>1. FillsSlot(new)
  BY Fill DEF push
<1>2. /\ queueCount - OldestPending < ListSize /\ queueCount' = queueCount + 1
      /\ writeCount' = writeCount /\ frame' = frame /\ lost' = lost /\ spoiled' = spoiled
      /\ device' = device /\ inEffect' = inEffect
  BY DEF push
<1>3. /\ wanted' = [i \in 0 .. queueCount |-> IF i < queueCount THEN wanted[i]
                                              ELSE [c \in Controls |-> Filled(c, new).value]]
      /\ since' = [i \in 0 .. queueCount |-> IF i < queueCount THEN since[i]
                       ELSE [c \in Controls |-> IF c \in DOMAIN new THEN i ELSE since[i - 1][c]]]
  BY DEF push
<1>4. /\ queueCount \in Nat /\ queueCount >= 1 /\ writeCount \in Nat /\ frame \in Nat /\ ListSize \in Nat
      /\ OldestPending \in Nat /\ OldestPending <= writeCount /\ writeCount <= MaxFrames /\ MaxFrames \in Nat
      /\ ListSize > 1
  BY IndexBounds, DelayedControlsAssumption DEF DelayedConstants
<1>5. /\ \A i \in 0 .. queueCount - 1 : wanted'[i] = wanted[i] /\ since'[i] = since[i]
      /\ \A c \in Controls : wanted'[queueCount][c] = Filled(c, new).value
      /\ \A c \in Controls : since'[queueCount][c] = IF c \in DOMAIN new THEN queueCount ELSE since[queueCount - 1][c]
      /\ queueCount' - 1 = queueCount
  <2>1. queueCount \in 0 .. queueCount /\ ~(queueCount < queueCount) /\ queueCount' - 1 = queueCount
    BY <1>2, <1>4
  <2>2. ASSUME NEW i \in 0 .. queueCount - 1 PROVE wanted'[i] = wanted[i] /\ since'[i] = since[i]
    <3>1. i \in 0 .. queueCount /\ i < queueCount
      BY <1>4
    <3>2. QED
      BY <3>1, <1>3
  <2>3. wanted'[queueCount] = [c \in Controls |-> Filled(c, new).value]
    BY <2>1, <1>3
  <2>4. since'[queueCount] = [c \in Controls |-> IF c \in DOMAIN new THEN queueCount ELSE since[queueCount - 1][c]]
    BY <2>1, <1>3
  <2>5. QED
    BY <2>1, <2>2, <2>3, <2>4
<1>6. /\ \A i \in 0 .. queueCount - 1 : wanted[i] \in [Controls -> Values] /\ since[i] \in [Controls -> 0 .. queueCount - 1]
      /\ queueCount - 1 \in 0 .. queueCount - 1
  BY <1>4 DEF TypeOK
<1>7. TypeOK'
  <2>1. wanted' \in [0 .. queueCount -> [Controls -> Values]]
    <3>1. [c \in Controls |-> Filled(c, new).value] \in [Controls -> Values]
      BY <1>1 DEF FillsSlot
    <3>2. QED
      BY <1>3, <1>4, <1>6, <3>1
  <2>2. since' \in [0 .. queueCount -> [Controls -> 0 .. queueCount]]
    <3>1. ASSUME NEW i \in 0 .. queueCount PROVE since'[i] \in [Controls -> 0 .. queueCount]
      <4>1. CASE i < queueCount
        <5>1. since'[i] = since[i] /\ since[i] \in [Controls -> 0 .. queueCount - 1]
          BY <4>1, <1>3, <1>4, <1>6
        <5>2. QED
          BY <5>1, <1>4
      <4>2. CASE i = queueCount
        <5>1. since'[i] = [c \in Controls |-> IF c \in DOMAIN new THEN i ELSE since[i - 1][c]]
          BY <4>2, <1>3, <1>4
        <5>2. \A c \in Controls : since[i - 1][c] \in 0 .. queueCount /\ i \in 0 .. queueCount
          BY <4>2, <1>4, <1>6
        <5>3. QED
          BY <5>1, <5>2
      <4>3. QED
        BY <4>1, <4>2, <1>4
    <3>2. QED
      BY <3>1, <1>3
  <2>3. queueCount' \in 1 .. MaxIndex
    BY <1>2, <1>4 DEF MaxIndex
  <2>4. QED
    BY <2>1, <2>2, <2>3, <1>1, <1>2, <1>5 DEF TypeOK, FillsSlot
<1>8. CountsSound'
  BY <1>2, <1>4 DEF CountsSound, OldestPending
<1>9. \A i \in Int : i < queueCount /\ Kept(i)' => Kept(i) /\ i > queueCount - ListSize
  BY <1>2, <1>4 DEF Kept, OldestPending
<1>10. RingSound'
  <2> SUFFICES ASSUME NEW c \in Controls, NEW i \in 0 .. queueCount, Kept(i)' PROVE values'[c][i % ListSize].value = wanted'[i][c]
    BY <1>5 DEF RingSound, Slot
  <2>1. CASE i = queueCount
    BY <2>1, <1>1, <1>5 DEF FillsSlot
  <2>2. CASE i < queueCount
    <3>1. i \in 0 .. queueCount - 1 /\ i \in Int /\ Kept(i) /\ i > queueCount - ListSize
      BY <2>2, <1>4, <1>9
    <3>2. values'[c][i % ListSize] = values[c][i % ListSize]
      BY <3>1, <2>2, <1>1 DEF FillsSlot
    <3>3. QED
      BY <3>1, <3>2, <1>5 DEF RingSound, Slot
  <2>3. QED
    BY <2>1, <2>2, <1>4
<1>11. MarksSound'
  <2> SUFFICES ASSUME NEW c \in Controls, NEW i \in 0 .. queueCount, i >= WriteIndex(c)
               PROVE  values'[c][i % ListSize].updated <=> (i # 0 /\ since'[i][c] = i)
    BY <1>2, <1>5 DEF MarksSound, Slot, WriteIndex
  <2>1. CASE i = queueCount
    <3>1. values'[c][i % ListSize].updated <=> c \in DOMAIN new
      <4>1. values'[c][i % ListSize] = Filled(c, new)
        BY <2>1, <1>1 DEF FillsSlot
      <4>2. CASE c \in DOMAIN new
        BY <4>1, <4>2 DEF Filled
      <4>3. CASE c \notin DOMAIN new
        BY <4>1, <4>3 DEF Filled
      <4>4. QED
        BY <4>2, <4>3
    <3>2. since[queueCount - 1][c] # queueCount /\ i # 0
      BY <1>4, <1>6, <2>1
    <3>3. QED
      BY <2>1, <3>1, <3>2, <1>5
  <2>2. CASE i < queueCount
    <3>1. i \in 0 .. queueCount - 1 /\ i \in Int
      BY <2>2, <1>4
    <3>2. i > queueCount - ListSize
      <4>1. WriteIndex(c) \in Nat /\ OldestPending <= WriteIndex(c)
        BY IndexBounds
      <4>2. QED
        BY <3>1, <4>1, <1>2, <1>4
    <3>3. values'[c][i % ListSize] = values[c][i % ListSize]
      BY <3>1, <3>2, <2>2, <1>1 DEF FillsSlot
    <3>4. QED
      BY <3>1, <3>3, <1>5 DEF MarksSound, Slot
  <2>3. QED
    BY <2>1, <2>2, <1>4
<1>12. SinceSound'
  <2> SUFFICES ASSUME NEW c \in Controls, NEW i \in 0 .. queueCount
               PROVE  /\ since'[i][c] <= i
                      /\ \A k \in since'[i][c] .. i : since'[k][c] = since'[i][c] /\ wanted'[k][c] = wanted'[i][c]
    BY <1>5 DEF SinceSound
  <2>1. CASE i < queueCount
    <3>1. i \in 0 .. queueCount - 1 /\ since[i][c] \in 0 .. queueCount - 1
      BY <2>1, <1>4, <1>6
    <3>2. \A k \in since[i][c] .. i : k \in 0 .. queueCount - 1
      BY <3>1, <1>4
    <3>3. QED
      BY <3>1, <3>2, <1>5 DEF SinceSound
  <2>2. CASE i = queueCount /\ c \in DOMAIN new
    <3>1. since'[i][c] = i
      BY <2>2, <1>5
    <3>2. QED
      BY <3>1, <2>2, <1>4
  <2>3. CASE i = queueCount /\ c \notin DOMAIN new
    <3>1. /\ since'[i][c] = since[queueCount - 1][c] /\ since[queueCount - 1][c] \in 0 .. queueCount - 1
          /\ wanted'[i][c] = wanted[queueCount - 1][c]
      BY <2>3, <1>1, <1>5, <1>6 DEF FillsSlot
    <3>2. ASSUME NEW k \in since[queueCount - 1][c] .. queueCount - 1
          PROVE  since'[k][c] = since'[i][c] /\ wanted'[k][c] = wanted'[i][c]
      <4>1. k \in 0 .. queueCount - 1
        BY <3>1, <1>4
      <4>2. since[k][c] = since[queueCount - 1][c] /\ wanted[k][c] = wanted[queueCount - 1][c]
        BY <1>6 DEF SinceSound
      <4>3. QED
        BY <4>1, <4>2, <3>1, <1>5
    <3>3. ASSUME NEW k \in since[queueCount - 1][c] .. queueCount
          PROVE  k = i \/ k \in since[queueCount - 1][c] .. queueCount - 1
      BY <2>3, <3>1, <1>4
    <3>4. QED
      BY <3>1, <3>2, <3>3, <2>3, <1>4
  <2>4. QED
    BY <2>1, <2>2, <2>3, <1>4
<1>13. EffectSound'
  <2> SUFFICES ASSUME NEW c \in Controls \ spoiled, NEW f \in Frames, Timely(c, Effective(c, f))'
               PROVE  inEffect'[c][f] = wanted'[Effective(c, f)'][c]
    BY <1>2 DEF EffectSound
  <2>1. Effective(c, f)' = Effective(c, f)
    BY <1>2 DEF Effective
  <2>2. Effective(c, f) \in 0 .. queueCount - 1
    BY EffectiveBounds
  <2>3. Timely(c, Effective(c, f))
    BY <2>1, <2>2, <1>2, <1>5 DEF Timely
  <2>4. QED
    BY <2>1, <2>2, <2>3, <1>2, <1>5 DEF EffectSound
<1>14. DueSound'
  BY <1>1 DEF FillsSlot
<1>15. QED
  BY <1>7, <1>8, <1>10, <1>11, <1>12, <1>13, <1>14

\* The invariant holds when a session begins.
LEMMA FreshInv ==
    ASSUME DelayedConstants, device' \in [Controls -> Values],
           frame' = 0, lost' = {}, spoiled' = {}, queueCount' = 1, writeCount' = 0,
           inEffect' = [c \in Controls |-> [f \in Frames |-> device'[c]]],
           values' = [c \in Controls |-> [i \in 0 .. ListSize - 1 |->
                        [value |-> IF i = 0 THEN device'[c] ELSE NoValue, updated |-> FALSE]]],
           wanted' = [i \in {0} |-> device'], since' = [i \in {0} |-> [c \in Controls |-> 0]]
    PROVE  DelayedInv'
<1>1. /\ ListSize \in Nat /\ ListSize > 1 /\ MaxFrames \in Nat /\ 0 % ListSize = 0
      /\ \A n \in 0 .. 1 - 1 : n = 0
  BY DelayedControlsAssumption DEF DelayedConstants
<1>2. /\ wanted'[0] = device' /\ since'[0] = [c \in Controls |-> 0]
      /\ \A c \in Controls : values'[c][0] = [value |-> device'[c], updated |-> FALSE]
  BY <1>1
<1>3. TypeOK'
  <2>1. values' \in [Controls -> [0 .. ListSize - 1 -> Info]]
    BY DEF Info
  <2>2. 0 .. 1 - 1 = {0}
    BY <1>1
  <2>3. wanted' \in [0 .. queueCount' - 1 -> [Controls -> Values]]
    BY <2>2
  <2>4. since' \in [0 .. queueCount' - 1 -> [Controls -> 0 .. queueCount' - 1]]
    BY <2>2
  <2>5. inEffect' \in [Controls -> [Frames -> Values]]
    OBVIOUS
  <2>6. queueCount' \in 1 .. MaxIndex /\ writeCount' \in 0 .. MaxFrames /\ frame' \in 0 .. MaxFrames
    BY <1>1 DEF MaxIndex
  <2>7. QED
    BY <2>1, <2>3, <2>4, <2>5, <2>6 DEF TypeOK
<1>4. CountsSound'
  BY <1>1, DelayBounds, DelayedControlsAssumption DEF CountsSound, OldestPending, Clamp
<1>5. RingSound' /\ MarksSound'
  BY <1>1, <1>2 DEF RingSound, MarksSound, Slot
<1>6. SinceSound'
  BY <1>1, <1>2 DEF SinceSound
<1>7. EffectSound'
  <2> SUFFICES ASSUME NEW c \in Controls, NEW f \in Frames
               PROVE  inEffect'[c][f] = wanted'[Effective(c, f)'][c]
    BY DEF EffectSound
  <2>1. Effective(c, f)' = 0
    <3>1. maxDelay \in Nat /\ delay[c] <= maxDelay /\ delay[c] \in Nat /\ f \in Nat
      BY <1>1, DelayBounds DEF Frames
    <3>2. QED
      BY <3>1 DEF Effective, Clamp
  <2>2. QED
    BY <2>1, <1>2
<1>8. DueSound'
  BY DEF DueSound
<1>9. QED
  BY <1>3, <1>4, <1>5, <1>6, <1>7, <1>8 DEF DelayedInv

LEMMA InitInv ==
    ASSUME DelayedConstants, Init
    PROVE  DelayedInv
<1>0. /\ device \in [Controls -> Values]
      /\ frame = 0 /\ lost = {} /\ spoiled = {} /\ queueCount = 1 /\ writeCount = 0
      /\ inEffect = [c \in Controls |-> [f \in Frames |-> device[c]]]
      /\ values = [c \in Controls |-> [i \in 0 .. ListSize - 1 |->
                      [value |-> IF i = 0 THEN device[c] ELSE NoValue, updated |-> FALSE]]]
      /\ wanted = [i \in {0} |-> device] /\ since = [i \in {0} |-> [c \in Controls |-> 0]]
  BY DEF Init
<1> USE <1>0
<1>1. /\ ListSize \in Nat /\ ListSize > 1 /\ MaxFrames \in Nat /\ 0 % ListSize = 0
      /\ \A n \in 0 .. 1 - 1 : n = 0
  BY DelayedControlsAssumption DEF DelayedConstants
<1>2. /\ wanted[0] = device /\ since[0] = [c \in Controls |-> 0]
      /\ \A c \in Controls : values[c][0] = [value |-> device[c], updated |-> FALSE]
  BY <1>1
<1>3. TypeOK
  <2>1. values \in [Controls -> [0 .. ListSize - 1 -> Info]]
    BY DEF Info
  <2>2. 0 .. 1 - 1 = {0}
    BY <1>1
  <2>3. wanted \in [0 .. queueCount - 1 -> [Controls -> Values]]
    BY <2>2
  <2>4. since \in [0 .. queueCount - 1 -> [Controls -> 0 .. queueCount - 1]]
    BY <2>2
  <2>5. inEffect \in [Controls -> [Frames -> Values]]
    OBVIOUS
  <2>6. queueCount \in 1 .. MaxIndex /\ writeCount \in 0 .. MaxFrames /\ frame \in 0 .. MaxFrames
    BY <1>1 DEF MaxIndex
  <2>7. QED
    BY <2>1, <2>3, <2>4, <2>5, <2>6 DEF TypeOK
<1>4. CountsSound
  BY <1>1, DelayBounds, DelayedControlsAssumption DEF CountsSound, OldestPending, Clamp
<1>5. RingSound /\ MarksSound
  BY <1>1, <1>2 DEF RingSound, MarksSound, Slot
<1>6. SinceSound
  BY <1>1, <1>2 DEF SinceSound
<1>7. EffectSound
  <2> SUFFICES ASSUME NEW c \in Controls, NEW f \in Frames
               PROVE  inEffect[c][f] = wanted[Effective(c, f)][c]
    BY DEF EffectSound
  <2>1. Effective(c, f) = 0
    <3>1. maxDelay \in Nat /\ delay[c] <= maxDelay /\ delay[c] \in Nat /\ f \in Nat
      BY <1>1, DelayBounds DEF Frames
    <3>2. QED
      BY <3>1 DEF Effective, Clamp
  <2>2. QED
    BY <2>1, <1>2
<1>8. DueSound
  BY DEF DueSound
<1>9. QED
  BY <1>3, <1>4, <1>5, <1>6, <1>7, <1>8 DEF DelayedInv

\* A push() that is not accepted only spoils a slot that nobody reads.
LEMMA RejectedStep ==
    ASSUME DelayedConstants, DelayedInv, NEW new \in NewControls, pushRejected(new)
    PROVE  DelayedInv'
<1> USE DEF DelayedInv
<1>1. FillsSlot(new)
  BY Fill DEF pushRejected
<1>2. /\ queueCount - OldestPending < ListSize /\ queueCount' = queueCount
      /\ writeCount' = writeCount /\ frame' = frame /\ lost' = lost /\ spoiled' = spoiled
      /\ device' = device /\ inEffect' = inEffect /\ wanted' = wanted /\ since' = since
  BY DEF pushRejected, history
<1>3. /\ queueCount \in Nat /\ queueCount >= 1 /\ ListSize \in Nat
      /\ OldestPending \in Nat /\ OldestPending <= writeCount /\ writeCount \in Nat
  BY IndexBounds, DelayedControlsAssumption
<1>4. ASSUME NEW c \in Controls, NEW i \in 0 .. queueCount - 1, i > queueCount - ListSize \/ i >= OldestPending
      PROVE  values'[c][i % ListSize] = values[c][i % ListSize]
  <2>1. i \in Int /\ i < queueCount /\ i > queueCount - ListSize
    BY <1>2, <1>3, <1>4
  <2>2. QED
    BY <2>1, <1>1 DEF FillsSlot
<1>5. TypeOK' /\ CountsSound' /\ SinceSound'
  BY <1>1, <1>2 DEF FillsSlot, TypeOK, CountsSound, SinceSound, OldestPending
<1>6. RingSound'
  BY <1>2, <1>4 DEF RingSound, Slot, Kept, OldestPending
<1>7. MarksSound'
  <2> SUFFICES ASSUME NEW c \in Controls, NEW i \in 0 .. queueCount - 1, i >= WriteIndex(c)
               PROVE  values'[c][i % ListSize].updated <=> (i # 0 /\ since[i][c] = i)
    BY <1>2 DEF MarksSound, Slot, WriteIndex
  <2>1. i >= OldestPending
    <3>1. WriteIndex(c) \in Nat /\ OldestPending <= WriteIndex(c)
      BY IndexBounds
    <3>2. QED
      BY <3>1, <1>3
  <2>2. QED
    BY <2>1, <1>4 DEF MarksSound, Slot
<1>8. EffectSound'
  BY <1>2 DEF EffectSound, Effective, Timely
<1>9. DueSound'
  BY <1>1 DEF FillsSlot
<1>10. QED
  BY <1>5, <1>6, <1>7, <1>8, <1>9

\* The push() an index in effect comes from is written by now, so that losing the event
\* of a frame that starts later does not change whether it was in time.
LEMMA LostStep ==
    ASSUME DelayedConstants, DelayedInv, FrameStartLost
    PROVE  DelayedInv'
<1> USE DEF DelayedInv
<1>1. /\ frame < MaxFrames /\ frame' = frame + 1 /\ lost' = lost \cup {frame}
      /\ UNCHANGED <<queueCount, writeCount, values, device, inEffect, wanted, since, spoiled>>
  BY DEF FrameStartLost, history
<1>2. /\ queueCount \in Nat /\ queueCount >= 1 /\ writeCount \in Nat /\ frame \in Nat /\ MaxFrames \in Nat
      /\ writeCount <= frame
  BY IndexBounds, DelayedControlsAssumption DEF CountsSound
<1>3. TypeOK'
  <2>1. lost' \subseteq 0 .. frame' - 1
    BY <1>1, <1>2 DEF TypeOK
  <2>2. QED
    BY <1>1, <1>2, <2>1 DEF TypeOK
<1>4. CountsSound'
  <2>1. \A n \in writeCount .. frame' - 1 : n = frame \/ n \in writeCount .. frame - 1
    BY <1>1, <1>2
  <2>2. QED
    BY <1>1, <1>2, <2>1 DEF CountsSound, OldestPending
<1>5. RingSound' /\ MarksSound' /\ SinceSound' /\ DueSound'
  BY <1>1 DEF RingSound, MarksSound, SinceSound, DueSound, Kept, OldestPending, Slot, WriteIndex
<1>6. EffectSound'
  <2> SUFFICES ASSUME NEW c \in Controls \ spoiled, NEW f \in Frames, Timely(c, Effective(c, f))'
               PROVE  Timely(c, Effective(c, f))
    BY <1>1 DEF EffectSound, Effective
  <2>1. PICK i : i = Effective(c, f)
    OBVIOUS
  <2>2. i \in 0 .. queueCount - 1 /\ since[i][c] \in 0 .. queueCount - 1 /\ f \in Nat
    <3>1. i \in 0 .. queueCount - 1 /\ f \in Nat
      BY <2>1, EffectiveBounds
    <3>2. since \in [0 .. queueCount - 1 -> [Controls -> 0 .. queueCount - 1]]
      BY DEF TypeOK
    <3>3. QED
      BY <3>1, <3>2
  <2>3. Effective(c, f)' = i
    BY <2>1, <1>1 DEF Effective
  <2>4. QED
    BY <2>1, <2>2, <2>3, <1>1 DEF Timely
<1>7. QED
  BY <1>3, <1>4, <1>5, <1>6

LEMMA RestartStep ==
    ASSUME DelayedConstants, DelayedInv, Restart
    PROVE  DelayedInv'
<1> USE DEF DelayedInv
<1>1. /\ frame' = 0 /\ lost' = {} /\ device' = device /\ spoiled' = {} /\ queueCount' = 1 /\ writeCount' = 0
      /\ inEffect' = [c \in Controls |-> [f \in Frames |-> device[c]]]
      /\ values' = [c \in Controls |-> [i \in 0 .. ListSize - 1 |->
                     [value |-> IF i = 0 THEN device[c] ELSE NoValue, updated |-> FALSE]]]
      /\ wanted' = [i \in {0} |-> device] /\ since' = [i \in {0} |-> [c \in Controls |-> 0]]
  BY DEF Restart, reset, DelayedConstants
<1>2. device' \in [Controls -> Values]
  BY <1>1 DEF TypeOK
<1>3. QED
  BY <1>1, <1>2, FreshInv

\* applyControls() leaves the slots of the indices that are still kept, but for the mark
\* of the one it writes, and fills the slots up to the one of the frame.
AppliesSlots ==
    /\ \A c \in Controls : \A i \in 0 .. queueCount - 1 : Kept(i)' =>
        /\ values'[c][i % ListSize].value = Slot(c, i).value
        /\ i = WriteIndex(c) => values'[c][i % ListSize].updated = FALSE
        /\ i > WriteIndex(c) => values'[c][i % ListSize].updated = Slot(c, i).updated
    /\ \A c \in Controls : \A i \in queueCount .. frame :
        /\ values'[c][i % ListSize].value = Slot(c, queueCount - 1).value
        /\ values'[c][i % ListSize].updated = FALSE
    /\ values' \in [Controls -> [0 .. ListSize - 1 -> Info]]
    /\ DueSound'

LEMMA WrittenSlots ==
    ASSUME TypeOK, NEW c \in Controls
    PROVE  /\ Written[c] \in [0 .. ListSize - 1 -> Info]
           /\ \A j \in 0 .. ListSize - 1 :
                /\ Written[c][j].value = values[c][j].value
                /\ j = WriteIndex(c) % ListSize => Written[c][j].updated = FALSE
                /\ j # WriteIndex(c) % ListSize => Written[c][j].updated = values[c][j].updated
<1>1. WriteIndex(c) % ListSize \in 0 .. ListSize - 1
  BY IndexBounds, SlotOf
<1>2. Written[c] = [values[c] EXCEPT ![WriteIndex(c) % ListSize].updated = FALSE]
  BY DEF Written
<1>3. values[c] \in [0 .. ListSize - 1 -> Info]
  BY DEF TypeOK
<1>4. PICK m, v : m = WriteIndex(c) % ListSize /\ v = values[c]
  OBVIOUS
<1>5. v \in [0 .. ListSize - 1 -> Info] /\ m \in 0 .. ListSize - 1 /\ Written[c] = [v EXCEPT ![m].updated = FALSE]
  BY <1>1, <1>2, <1>3, <1>4
<1>6. v[m] \in Info /\ [v[m] EXCEPT !.updated = FALSE] \in Info
  BY <1>5 DEF Info
<1>7. Written[c] \in [0 .. ListSize - 1 -> Info]
  BY <1>5, <1>6
<1>8. ASSUME NEW j \in 0 .. ListSize - 1
      PROVE  /\ Written[c][j].value = v[j].value
             /\ j = m => Written[c][j].updated = FALSE
             /\ j # m => Written[c][j].updated = v[j].updated
  <2>1. CASE j = m
    <3>1. Written[c][j] = [v[m] EXCEPT !.updated = FALSE]
      BY <2>1, <1>5
    <3>2. PICK r \in [value : Values \cup {NoValue}, updated : BOOLEAN] : r = v[m] /\ Written[c][j] = [r EXCEPT !.updated = FALSE]
      BY <3>1, <1>6 DEF Info
    <3>3. Written[c][j].value = r.value
      BY <3>2
    <3>4. Written[c][j].updated = FALSE
      BY <3>2
    <3>5. QED
      BY <3>2, <3>3, <3>4, <2>1
  <2>2. CASE j # m
    BY <2>2, <1>5
  <2>3. QED
    BY <2>1, <2>2
<1>9. QED
  BY <1>4, <1>7, <1>8

LEMMA ApplySlots ==
    ASSUME DelayedConstants, DelayedInv, values' = autoQueue(frame),
           queueCount' = IF frame >= queueCount THEN frame + 1 ELSE queueCount, writeCount' = frame + 1
    PROVE  AppliesSlots
<1> USE DEF DelayedInv
<1>1. /\ queueCount \in Nat /\ queueCount >= 1 /\ writeCount \in Nat /\ frame \in Nat /\ ListSize \in Nat \ {0}
      /\ ListSize > 1 /\ writeCount <= frame /\ queueCount - OldestPending <= ListSize
      /\ OldestPending \in Nat
  BY IndexBounds, DelayedControlsAssumption DEF CountsSound, DelayedConstants
<1>2. maxDelay \in Nat /\ minDelay \in Nat /\ maxDelay - minDelay < ListSize /\ minDelay <= maxDelay
  BY DelayBounds, DelayedControlsAssumption
<1>3. ASSUME NEW c \in Controls, NEW j \in 0 .. ListSize - 1
      PROVE  values'[c][j] = IF \E n \in queueCount .. frame : n % ListSize = j
                             THEN [value |-> Written[c][(queueCount - 1) % ListSize].value, updated |-> FALSE]
                             ELSE Written[c][j]
  BY DEF autoQueue
<1>4. ASSUME NEW i \in 0 .. queueCount - 1, Kept(i)'
      PROVE  /\ i % ListSize \in 0 .. ListSize - 1
             /\ ~ \E n \in queueCount .. frame : n % ListSize = i % ListSize
             /\ Kept(i)
  <2>1. i % ListSize \in 0 .. ListSize - 1
    BY <1>1
  <2>2. i > queueCount' - ListSize \/ i >= Clamp(frame + 1 - (maxDelay - minDelay))
    BY <1>1, <1>2, <1>4 DEF Kept, OldestPending, Clamp
  <2>3. ASSUME NEW n \in queueCount .. frame PROVE n % ListSize # i % ListSize
    <3>1. n \in Int /\ i \in Int /\ i < n /\ n < i + ListSize
      BY <1>1, <1>2, <2>2 DEF Clamp
    <3>2. QED
      BY <3>1, <1>1, SlotsApart
  <2>4. Kept(i)
    BY <2>2, <1>1, <1>2 DEF Kept, OldestPending, Clamp
  <2>5. QED
    BY <2>1, <2>3, <2>4
<1>5. ASSUME NEW c \in Controls, NEW i \in 0 .. queueCount - 1, Kept(i)'
      PROVE  /\ values'[c][i % ListSize].value = Slot(c, i).value
             /\ i = WriteIndex(c) => values'[c][i % ListSize].updated = FALSE
             /\ i > WriteIndex(c) => values'[c][i % ListSize].updated = Slot(c, i).updated
  <2>1. i % ListSize \in 0 .. ListSize - 1 /\ values'[c][i % ListSize] = Written[c][i % ListSize]
    BY <1>3, <1>4, <1>5
  <2>2. /\ values'[c][i % ListSize].value = Slot(c, i).value
        /\ i = WriteIndex(c) => values'[c][i % ListSize].updated = FALSE
        /\ i % ListSize # WriteIndex(c) % ListSize => values'[c][i % ListSize].updated = Slot(c, i).updated
    BY <2>1, WrittenSlots DEF Slot
  <2>3. ASSUME i > WriteIndex(c) PROVE i % ListSize # WriteIndex(c) % ListSize
    <3>1. WriteIndex(c) \in Int /\ OldestPending <= WriteIndex(c)
      BY IndexBounds
    <3>2. i \in Int /\ WriteIndex(c) < i /\ i < WriteIndex(c) + ListSize
      BY <2>3, <3>1, <1>1
    <3>3. QED
      BY <3>1, <3>2, <1>1, SlotsApart
  <2>4. QED
    BY <2>2, <2>3
<1>6. ASSUME NEW c \in Controls, NEW i \in queueCount .. frame
      PROVE  values'[c][i % ListSize] = [value |-> Slot(c, queueCount - 1).value, updated |-> FALSE]
  <2>1. i % ListSize \in 0 .. ListSize - 1 /\ (queueCount - 1) % ListSize \in 0 .. ListSize - 1
    BY <1>1
  <2>2. values'[c][i % ListSize] = [value |-> Written[c][(queueCount - 1) % ListSize].value, updated |-> FALSE]
    BY <2>1, <1>3
  <2>3. QED
    BY <2>1, <2>2, WrittenSlots DEF Slot
<1>7. ASSUME NEW c \in Controls, NEW j \in 0 .. ListSize - 1
      PROVE  values'[c][j] \in Info /\ (values'[c][j].updated => values'[c][j].value \in Values)
  <2>1. /\ Written[c][j] \in Info /\ Written[c][j].value = values[c][j].value
        /\ Written[c][j].updated => values[c][j].updated
    BY WrittenSlots
  <2>2. (queueCount - 1) % ListSize \in 0 .. ListSize - 1
    BY <1>1
  <2>3. Written[c][(queueCount - 1) % ListSize] \in Info
    BY <2>2, WrittenSlots
  <2>4. CASE \E n \in queueCount .. frame : n % ListSize = j
    <3>1. PICK a \in Values \cup {NoValue} : a = Written[c][(queueCount - 1) % ListSize].value
      BY <2>3 DEF Info
    <3>2. values'[c][j] = [value |-> a, updated |-> FALSE]
      BY <2>4, <1>3, <3>1
    <3>3. QED
      BY <3>2 DEF Info
  <2>5. CASE ~ \E n \in queueCount .. frame : n % ListSize = j
    <3>1. values'[c][j] = Written[c][j]
      BY <2>5, <1>3
    <3>2. QED
      BY <3>1, <2>1 DEF DueSound
  <2>6. QED
    BY <2>4, <2>5
<1>8. values' \in [Controls -> [0 .. ListSize - 1 -> Info]]
  <2>1. /\ DOMAIN values' = Controls /\ values' = [c \in Controls |-> values'[c]]
        /\ \A c \in Controls : values'[c] = [j \in 0 .. ListSize - 1 |-> values'[c][j]]
    BY DEF autoQueue
  <2>2. ASSUME NEW c \in Controls PROVE values'[c] \in [0 .. ListSize - 1 -> Info]
    <3>1. values'[c] = [j \in 0 .. ListSize - 1 |-> values'[c][j]]
      BY <2>1
    <3>2. QED
      BY <1>7, <3>1
  <2>3. QED
    BY <2>1, <2>2
<1>9. DueSound'
  BY <1>7 DEF DueSound
<1>10. \A c \in Controls : \A i \in queueCount .. frame :
          /\ values'[c][i % ListSize].value = Slot(c, queueCount - 1).value
          /\ values'[c][i % ListSize].updated = FALSE
  <2> SUFFICES ASSUME NEW c \in Controls, NEW i \in queueCount .. frame
               PROVE  /\ values'[c][i % ListSize].value = Slot(c, queueCount - 1).value
                      /\ values'[c][i % ListSize].updated = FALSE
    OBVIOUS
  <2>1. values'[c][i % ListSize] = [value |-> Slot(c, queueCount - 1).value, updated |-> FALSE]
    BY <1>6
  <2>2. QED
    BY <2>1
<1>11. QED
  BY <1>5, <1>8, <1>9, <1>10 DEF AppliesSlots

\* What the start of a frame writes and when it takes effect.
Due(c) == Slot(c, WriteIndex(c)).updated

AppliesControls ==
    /\ frame < MaxFrames /\ frame' = frame + 1 /\ lost' = lost /\ writeCount' = frame + 1
    /\ queueCount' = IF frame >= queueCount THEN frame + 1 ELSE queueCount
    /\ \A c \in Controls : \A f \in Frames : inEffect'[c][f] =
          IF Due(c) /\ f >= frame + delay[c] THEN Slot(c, WriteIndex(c)).value ELSE inEffect[c][f]
    /\ \A i \in 0 .. queueCount - 1 : wanted'[i] = wanted[i] /\ since'[i] = since[i]
    /\ \A i \in queueCount .. frame : wanted'[i] = wanted[queueCount - 1] /\ since'[i] = since[queueCount - 1]
    /\ spoiled \subseteq spoiled'
    /\ \A c \in Controls : Due(c) /\ WriteIndex(c) >= queueCount => c \in spoiled'
    /\ AppliesSlots
    /\ TypeOK'

LEMMA Apply ==
    ASSUME DelayedConstants, DelayedInv, FrameStart
    PROVE  AppliesControls
<1> USE DEF DelayedInv
<1> DEFINE due == {c \in Controls : Slot(c, WriteIndex(c)).updated}
           new == [c \in Controls |-> IF c \in due THEN Slot(c, WriteIndex(c)).value ELSE device[c]]
<1>1. /\ frame < MaxFrames /\ frame' = frame + 1 /\ lost' = lost /\ writeCount' = frame + 1
      /\ queueCount' = IF frame >= queueCount THEN frame + 1 ELSE queueCount
      /\ values' = autoQueue(frame)
      /\ spoiled' = spoiled \cup {c \in due : WriteIndex(c) >= queueCount}
  BY DEF FrameStart, applyControls
<1>2. /\ device' = new
      /\ inEffect' = [c \in Controls |-> [f \in Frames |->
                         IF c \in due /\ f >= frame + delay[c] THEN new[c] ELSE inEffect[c][f]]]
  BY DEF FrameStart, applyControls
<1>3. /\ wanted' = [i \in 0 .. queueCount' - 1 |-> IF i < queueCount THEN wanted[i] ELSE wanted[queueCount - 1]]
      /\ since' = [i \in 0 .. queueCount' - 1 |-> IF i < queueCount THEN since[i] ELSE since[queueCount - 1]]
  BY DEF FrameStart, applyControls
<1>4. AppliesSlots
  BY <1>1, ApplySlots
<1>5. /\ queueCount \in Nat /\ queueCount >= 1 /\ writeCount \in Nat /\ frame \in Nat /\ ListSize \in Nat \ {0}
      /\ MaxFrames \in Nat
  BY IndexBounds, DelayedControlsAssumption
<1>6. /\ queueCount' \in Nat /\ queueCount' >= queueCount /\ queueCount' >= frame + 1
      /\ \A i \in queueCount .. frame : i \in 0 .. queueCount' - 1 /\ ~ (i < queueCount)
      /\ \A i \in 0 .. queueCount - 1 : i \in 0 .. queueCount' - 1 /\ i < queueCount
      /\ queueCount - 1 \in 0 .. queueCount - 1
  BY <1>1, <1>5
<1>7. ASSUME NEW c \in Controls, c \in due PROVE Slot(c, WriteIndex(c)).value \in Values
  <2>1. WriteIndex(c) % ListSize \in 0 .. ListSize - 1
    BY IndexBounds, SlotOf
  <2>2. QED
    BY <1>7, <2>1 DEF DueSound, Slot
<1>8. new \in [Controls -> Values]
  BY <1>7 DEF TypeOK
<1>9. inEffect' \in [Controls -> [Frames -> Values]]
  BY <1>2, <1>8 DEF TypeOK
<1>10. wanted' \in [0 .. queueCount' - 1 -> [Controls -> Values]]
  <2>1. ASSUME NEW i \in 0 .. queueCount' - 1 PROVE wanted'[i] \in [Controls -> Values]
    BY <1>3, <1>5, <1>6 DEF TypeOK
  <2>2. QED
    BY <2>1, <1>3
<1>11. since' \in [0 .. queueCount' - 1 -> [Controls -> 0 .. queueCount' - 1]]
  <2>1. ASSUME NEW i \in 0 .. queueCount' - 1 PROVE since'[i] \in [Controls -> 0 .. queueCount' - 1]
    <3>1. since'[i] \in [Controls -> 0 .. queueCount - 1]
      BY <1>3, <1>5, <1>6 DEF TypeOK
    <3>2. 0 .. queueCount - 1 \subseteq 0 .. queueCount' - 1
      BY <1>6
    <3>3. QED
      BY <3>1, <3>2
  <2>2. QED
    BY <2>1, <1>3
<1>12. TypeOK'
  <2>1. queueCount' \in 1 .. MaxIndex /\ writeCount' \in 0 .. MaxFrames /\ frame' \in 0 .. MaxFrames
    BY <1>1, <1>5 DEF TypeOK, MaxIndex
  <2>2. lost' \subseteq 0 .. frame' - 1 /\ spoiled' \subseteq Controls
    BY <1>1, <1>5 DEF TypeOK
  <2>3. QED
    BY <2>1, <2>2, <1>2, <1>4, <1>8, <1>9, <1>10, <1>11 DEF TypeOK, AppliesSlots
<1>13. ASSUME NEW c \in Controls, NEW f \in Frames
       PROVE  inEffect'[c][f] = IF Due(c) /\ f >= frame + delay[c] THEN Slot(c, WriteIndex(c)).value ELSE inEffect[c][f]
  <2>1. (c \in due) <=> Due(c)
    BY DEF Due
  <2>2. inEffect'[c][f] = IF c \in due /\ f >= frame + delay[c] THEN new[c] ELSE inEffect[c][f]
    BY <1>2
  <2>3. c \in due => new[c] = Slot(c, WriteIndex(c)).value
    OBVIOUS
  <2> HIDE DEF due, new
  <2>4. QED
    BY <2>1, <2>2, <2>3
<1>14. \A i \in 0 .. queueCount - 1 : wanted'[i] = wanted[i] /\ since'[i] = since[i]
  BY <1>3, <1>6
<1>15. \A i \in queueCount .. frame : wanted'[i] = wanted[queueCount - 1] /\ since'[i] = since[queueCount - 1]
  BY <1>3, <1>6
<1>16. /\ spoiled \subseteq spoiled'
       /\ \A c \in Controls : Due(c) /\ WriteIndex(c) >= queueCount => c \in spoiled'
  BY <1>1 DEF Due
<1> HIDE DEF due, new, DelayedInv
<1>17. QED
  BY <1>1, <1>4, <1>12, <1>13, <1>14, <1>15, <1>16 DEF AppliesControls

\* The indices after the step, and those before it.
LEMMA AppliedIndices ==
    ASSUME DelayedConstants, DelayedInv, AppliesControls
    PROVE  /\ queueCount \in Nat /\ queueCount >= 1 /\ writeCount \in Nat /\ frame \in Nat /\ writeCount <= frame
           /\ writeCount <= queueCount
           /\ queueCount' \in Nat /\ queueCount' >= queueCount /\ queueCount' >= frame + 1
           /\ queueCount - 1 \in 0 .. queueCount - 1
           /\ \A i \in 0 .. queueCount' - 1 : i \in 0 .. queueCount - 1 \/ i \in queueCount .. frame
           /\ \A i \in 0 .. queueCount - 1, c \in Controls : since[i][c] \in 0 .. i
           /\ \A i \in queueCount .. frame, c \in Controls : since'[i][c] \in 0 .. queueCount - 1
<1>1. /\ queueCount \in Nat /\ queueCount >= 1 /\ writeCount \in Nat /\ frame \in Nat /\ writeCount <= frame
      /\ writeCount <= queueCount /\ queueCount - 1 \in 0 .. queueCount - 1
  BY IndexBounds, DelayedControlsAssumption DEF DelayedInv, CountsSound
<1>2. queueCount' = IF frame >= queueCount THEN frame + 1 ELSE queueCount
  BY DEF AppliesControls
<1>3. ASSUME NEW i \in 0 .. queueCount - 1, NEW c \in Controls PROVE since[i][c] \in 0 .. i
  <2>1. since[i][c] \in 0 .. queueCount - 1 /\ since[i][c] <= i
    BY DEF DelayedInv, TypeOK, SinceSound
  <2>2. QED
    BY <2>1, <1>1
<1>4. ASSUME NEW i \in queueCount .. frame, NEW c \in Controls PROVE since'[i][c] \in 0 .. queueCount - 1
  <2>1. since'[i] = since[queueCount - 1]
    BY DEF AppliesControls
  <2>2. QED
    BY <2>1, <1>1, <1>3
<1>5. QED
  BY <1>1, <1>2, <1>3, <1>4

LEMMA AppliedQueue ==
    ASSUME DelayedConstants, DelayedInv, AppliesControls
    PROVE  CountsSound' /\ RingSound' /\ SinceSound'
<1>1. /\ queueCount \in Nat /\ queueCount >= 1 /\ writeCount \in Nat /\ frame \in Nat /\ writeCount <= frame
      /\ queueCount' \in Nat /\ queueCount' >= queueCount /\ queueCount' >= frame + 1
      /\ queueCount - 1 \in 0 .. queueCount - 1
  BY AppliedIndices
<1>2. ASSUME NEW i \in 0 .. queueCount' - 1 PROVE i \in 0 .. queueCount - 1 \/ i \in queueCount .. frame
  BY AppliedIndices
<1>3. /\ \A i \in 0 .. queueCount - 1 : wanted'[i] = wanted[i] /\ since'[i] = since[i]
      /\ \A i \in queueCount .. frame : wanted'[i] = wanted[queueCount - 1] /\ since'[i] = since[queueCount - 1]
      /\ queueCount' = IF frame >= queueCount THEN frame + 1 ELSE queueCount
      /\ frame' = frame + 1 /\ lost' = lost /\ writeCount' = frame + 1
  BY DEF AppliesControls
<1>4. /\ maxDelay \in Nat /\ minDelay \in Nat /\ maxDelay - minDelay < ListSize /\ minDelay <= maxDelay
      /\ ListSize \in Nat /\ ListSize > 1
  BY DelayBounds, DelayedControlsAssumption DEF DelayedConstants
<1>5. CountsSound'
  <2>1. queueCount - OldestPending <= ListSize
    BY DEF DelayedInv, CountsSound
  <2>2. queueCount' - OldestPending' <= ListSize
    BY <2>1, <1>1, <1>3, <1>4 DEF OldestPending, Clamp
  <2>3. QED
    BY <2>2, <1>1, <1>3 DEF CountsSound
<1>6. RingSound'
  <2> SUFFICES ASSUME NEW c \in Controls, NEW i \in 0 .. queueCount' - 1, Kept(i)'
               PROVE  values'[c][i % ListSize].value = wanted'[i][c]
    BY DEF RingSound, Slot
  <2>1. CASE i \in 0 .. queueCount - 1
    <3>1. values'[c][i % ListSize].value = Slot(c, i).value
      BY <2>1 DEF AppliesControls, AppliesSlots
    <3>2. Kept(i)
      BY <2>1, <1>1, <1>3, <1>4 DEF Kept, OldestPending, Clamp
    <3>3. Slot(c, i).value = wanted[i][c]
      BY <2>1, <3>2 DEF DelayedInv, RingSound
    <3>4. QED
      BY <2>1, <3>1, <3>3, <1>3
  <2>2. CASE i \in queueCount .. frame
    <3>1. values'[c][i % ListSize].value = Slot(c, queueCount - 1).value
      BY <2>2 DEF AppliesControls, AppliesSlots
    <3>2. Kept(queueCount - 1)
      BY <1>1, <1>4 DEF Kept
    <3>3. Slot(c, queueCount - 1).value = wanted[queueCount - 1][c]
      BY <1>1, <3>2 DEF DelayedInv, RingSound
    <3>4. QED
      BY <2>2, <3>1, <3>3, <1>3
  <2>3. QED
    BY <2>1, <2>2, <1>2
<1>7. SinceSound'
  <2> SUFFICES ASSUME NEW c \in Controls, NEW i \in 0 .. queueCount' - 1
               PROVE  /\ since'[i][c] <= i
                      /\ \A k \in since'[i][c] .. i : since'[k][c] = since'[i][c] /\ wanted'[k][c] = wanted'[i][c]
    BY DEF SinceSound
  <2>1. PICK m \in 0 .. queueCount - 1 : /\ since'[i][c] = since[m][c] /\ wanted'[i][c] = wanted[m][c]
                                        /\ m <= i /\ (m = i \/ (m = queueCount - 1 /\ i \in queueCount .. frame))
    BY <1>1, <1>2, <1>3
  <2>2. since[m][c] \in 0 .. m
    BY AppliedIndices
  <2>3. ASSUME NEW k \in since[m][c] .. i PROVE since'[k][c] = since[m][c] /\ wanted'[k][c] = wanted[m][c]
    <3>1. CASE k <= m
      <4>1. k \in since[m][c] .. m /\ k \in 0 .. queueCount - 1
        BY <3>1, <2>2, <1>1
      <4>2. since[k][c] = since[m][c] /\ wanted[k][c] = wanted[m][c]
        BY <4>1 DEF DelayedInv, SinceSound
      <4>3. QED
        BY <4>1, <4>2, <1>3
    <3>2. CASE k > m
      <4>1. k \in queueCount .. frame /\ m = queueCount - 1
        BY <3>2, <2>1, <2>2, <1>1
      <4>2. QED
        BY <4>1, <1>3
    <3>3. QED
      BY <3>1, <3>2, <2>2, <1>1
  <2>4. QED
    BY <2>1, <2>2, <2>3, <1>1
<1>8. QED
  BY <1>5, <1>6, <1>7

LEMMA AppliedMarks ==
    ASSUME DelayedConstants, DelayedInv, AppliesControls
    PROVE  MarksSound'
<1> SUFFICES ASSUME NEW c \in Controls, NEW i \in 0 .. queueCount' - 1, i >= WriteIndex(c)'
             PROVE  values'[c][i % ListSize].updated <=> (i # 0 /\ since'[i][c] = i)
  BY DEF MarksSound, Slot
<1>1. /\ queueCount \in Nat /\ queueCount >= 1 /\ writeCount \in Nat /\ frame \in Nat /\ writeCount <= frame
  BY AppliedIndices
<1>2. i \in 0 .. queueCount - 1 \/ i \in queueCount .. frame
  BY AppliedIndices
<1>3. writeCount' = frame + 1
  BY DEF AppliesControls
<1>4. /\ maxDelay \in Nat /\ minDelay \in Nat /\ minDelay <= delay[c] /\ delay[c] <= maxDelay /\ delay[c] \in Nat
      /\ ListSize \in Nat
  BY DelayBounds, DelayedControlsAssumption
<1>5. CASE i \in queueCount .. frame
  <2>1. values'[c][i % ListSize].updated = FALSE
    BY <1>5 DEF AppliesControls, AppliesSlots
  <2>2. since'[i][c] \in 0 .. queueCount - 1
    BY <1>5, AppliedIndices
  <2>3. since'[i][c] # i
    BY <2>2, <1>1, <1>5
  <2>4. QED
    BY <2>1, <2>3
<1>6. CASE i \in 0 .. queueCount - 1
  <2>1. /\ i >= Clamp(frame + 1 - (maxDelay - delay[c])) /\ i \in Nat
        /\ WriteIndex(c) = Clamp(writeCount - (maxDelay - delay[c]))
    BY <1>1, <1>3, <1>4, <1>6 DEF WriteIndex, Clamp
  <2>2. Kept(i)'
    BY <2>1, <1>1, <1>3, <1>4 DEF Kept, OldestPending, Clamp
  <2>3. i > WriteIndex(c) \/ (i = WriteIndex(c) /\ i = 0)
    BY <2>1, <1>1, <1>4 DEF Clamp
  <2>4. since'[i] = since[i]
    BY <1>6 DEF AppliesControls
  <2>5. CASE i > WriteIndex(c)
    <3>1. values'[c][i % ListSize].updated = Slot(c, i).updated
      BY <2>2, <2>5, <1>6 DEF AppliesControls, AppliesSlots
    <3>2. i >= WriteIndex(c)
      BY <2>1, <2>5, <1>1, <1>4 DEF Clamp
    <3>3. Slot(c, i).updated <=> (i # 0 /\ since[i][c] = i)
      BY <3>2, <1>6 DEF DelayedInv, MarksSound
    <3>4. QED
      BY <3>1, <3>3, <2>4
  <2>6. CASE i = WriteIndex(c) /\ i = 0
    <3>1. values'[c][i % ListSize].updated = FALSE
      BY <2>2, <2>6, <1>6 DEF AppliesControls, AppliesSlots
    <3>2. QED
      BY <3>1, <2>6
  <2>7. QED
    BY <2>3, <2>5, <2>6
<1>7. QED
  BY <1>2, <1>5, <1>6

\* A push() whose frame came in time is written in that frame; one that is in effect
\* already is not written again, and nothing is written between the two.
LEMMA AppliedEffect ==
    ASSUME DelayedConstants, DelayedInv, AppliesControls, SinceSound'
    PROVE  EffectSound'
<1> SUFFICES ASSUME NEW c \in Controls \ spoiled', NEW f \in Frames, Timely(c, Effective(c, f))'
             PROVE  inEffect'[c][f] = wanted'[Effective(c, f)'][c]
  BY DEF EffectSound
<1>1. /\ queueCount \in Nat /\ queueCount >= 1 /\ writeCount \in Nat /\ frame \in Nat /\ writeCount <= frame
      /\ writeCount <= queueCount
      /\ queueCount' \in Nat /\ queueCount' >= queueCount /\ queueCount' >= frame + 1
  BY AppliedIndices
<1>2. /\ maxDelay \in Nat /\ delay[c] <= maxDelay /\ delay[c] \in Nat /\ f \in Nat
  BY DelayBounds, EffectiveBounds
<1>3. PICK i, later, k : i = Effective(c, f) /\ later = Effective(c, f)' /\ k = WriteIndex(c)
  OBVIOUS
<1>4. /\ i = IF f <= writeCount - 1 + delay[c] THEN Clamp(f - maxDelay) ELSE Clamp(writeCount - 1 + delay[c] - maxDelay)
      /\ later = IF f <= frame + delay[c] THEN Clamp(f - maxDelay) ELSE Clamp(frame + delay[c] - maxDelay)
      /\ k = Clamp(writeCount - (maxDelay - delay[c]))
  <2>1. writeCount' = frame + 1 /\ frame + 1 - 1 = frame
    BY <1>1 DEF AppliesControls
  <2>2. QED
    BY <2>1, <1>1, <1>2, <1>3 DEF Effective, WriteIndex, Clamp
<1>5. i \in Nat /\ later \in Nat /\ k \in Nat /\ i < queueCount /\ later <= frame /\ later < queueCount' /\ i <= later
  BY <1>1, <1>2, <1>4 DEF Clamp
<1>6. i \in 0 .. queueCount - 1 /\ later \in 0 .. queueCount' - 1
  <2>1. i \in 0 .. queueCount - 1
    BY <1>1, <1>5
  <2>2. PICK q \in Nat : q = queueCount' /\ frame + 1 <= q
    BY <1>1
  <2>3. later \in 0 .. q - 1
    <3>1. later \in Nat /\ frame \in Nat /\ later <= frame
      BY <1>1, <1>5
    <3>2. q \in Nat /\ frame + 1 <= q
      BY <2>2
    <3>3. QED
      BY <3>1, <3>2
  <2>4. QED
    BY <2>1, <2>2, <2>3
<1>7. /\ wanted'[i] = wanted[i] /\ since'[i] = since[i] /\ lost' = lost /\ c \notin spoiled
      /\ inEffect'[c][f] = IF Due(c) /\ f >= frame + delay[c] THEN Slot(c, k).value ELSE inEffect[c][f]
      /\ Due(c) => ~ (k >= queueCount)
  BY <1>3, <1>6 DEF AppliesControls
<1>8. Timely(c, i) => inEffect[c][f] = wanted[i][c]
  BY <1>3, <1>7 DEF DelayedInv, EffectSound
<1>9. PICK j : j = since'[later][c]
  OBVIOUS
<1>10. j \in Nat /\ j <= later /\ \A x \in j .. later : since'[x][c] = j /\ wanted'[x][c] = wanted'[later][c]
  <2>1. TypeOK'
    BY DEF AppliesControls
  <2>2. j \in 0 .. queueCount' - 1
    <3>1. since' \in [0 .. queueCount' - 1 -> [Controls -> 0 .. queueCount' - 1]]
      BY <2>1 DEF TypeOK
    <3>2. QED
      BY <3>1, <1>6, <1>9
  <2>3. QED
    BY <2>2, <1>6, <1>9 DEF SinceSound
<1>11. j # 0 => {j + maxDelay - delay[c] - 1, j + maxDelay - delay[c]} \cap lost = {}
  <2>1. since'[later][c] # 0 =>
          {since'[later][c] + maxDelay - delay[c] - 1, since'[later][c] + maxDelay - delay[c]} \cap lost = {}
    <3>1. since'[later][c] \in Nat
      BY <1>9, <1>10
    <3>2. lost' = lost /\ later = Effective(c, f)'
      BY <1>3, <1>7
    <3>3. QED
      BY <1>2, <3>1, <3>2 DEF Timely
  <2>2. QED
    BY <2>1, <1>9
<1>12. ASSUME j <= i, ~ (Due(c) /\ f >= frame + delay[c]) PROVE inEffect'[c][f] = wanted'[later][c]
  <2>1. i \in j .. later
    BY <1>5, <1>10, <1>12
  <2>2. since[i][c] = j /\ wanted[i][c] = wanted'[later][c]
    BY <2>1, <1>7, <1>10
  <2>3. Timely(c, i)
    BY <2>2, <1>2, <1>10, <1>11 DEF Timely
  <2>4. QED
    BY <2>2, <2>3, <1>7, <1>8, <1>12
<1>13. CASE f <= writeCount - 1 + delay[c]
  <2>1. ~ (f >= frame + delay[c]) /\ later = i
    BY <1>13, <1>1, <1>2, <1>4
  <2>2. QED
    BY <2>1, <1>3, <1>10, <1>12
<1>14. CASE f > writeCount - 1 + delay[c] /\ j <= i
  <2>1. ~ Due(c)
    <3>1. SUFFICES ASSUME Due(c) PROVE FALSE
      OBVIOUS
    <3>2. k \in 0 .. queueCount - 1 /\ k >= k
      BY <3>1, <1>1, <1>5, <1>7
    <3>3. k # 0 /\ since[k][c] = k
      BY <3>1, <3>2, <1>3 DEF DelayedInv, MarksSound, Due
    <3>4. k \in j .. later /\ k = i + 1
      BY <3>3, <1>14, <1>1, <1>2, <1>4, <1>5, <1>10 DEF Clamp
    <3>5. since'[k] = since[k]
      BY <3>2 DEF AppliesControls
    <3>6. k = j
      BY <3>3, <3>4, <3>5, <1>10
    <3>7. QED
      BY <3>4, <3>6, <1>14, <1>5
  <2>2. QED
    BY <2>1, <1>3, <1>12, <1>14
<1>15. CASE f > writeCount - 1 + delay[c] /\ j > i
  <2>1. j # 0 /\ j + maxDelay - delay[c] <= frame /\ j + maxDelay - delay[c] >= writeCount
    BY <1>15, <1>1, <1>2, <1>4, <1>5, <1>10 DEF Clamp
  <2>2. j + maxDelay - delay[c] \notin lost /\ j + maxDelay - delay[c] - 1 \notin lost
    BY <2>1, <1>11
  <2>3. \A x \in writeCount .. frame - 1 : x \in lost
    BY DEF DelayedInv, CountsSound
  <2>4. PICK x \in Int : x = j + maxDelay - delay[c]
    BY <1>2, <1>10
  <2>5. x = frame
    BY <2>1, <2>2, <2>3, <2>4, <1>1
  <2>6. writeCount = frame
    <3>1. frame - 1 \notin lost
      BY <2>2, <2>4, <2>5, <1>1, <1>2, <1>10
    <3>2. QED
      BY <3>1, <2>3, <1>1
  <2>7. j = k /\ later = k /\ f >= frame + delay[c] /\ k # 0
    BY <2>1, <2>4, <2>5, <2>6, <1>15, <1>1, <1>2, <1>4, <1>5, <1>10 DEF Clamp
  <2>8. later \in 0 .. queueCount - 1
    <3>1. later \in 0 .. queueCount - 1 \/ later \in queueCount .. frame
      BY <1>6, AppliedIndices
    <3>2. later \notin queueCount .. frame
      <4>1. later \in queueCount .. frame => since'[later][c] \in 0 .. queueCount - 1
        BY AppliedIndices
      <4>2. QED
        BY <4>1, <2>7, <1>1, <1>5, <1>9
    <3>3. QED
      BY <3>1, <3>2
  <2>9. wanted'[later] = wanted[later] /\ since'[later] = since[later]
    BY <2>8 DEF AppliesControls
  <2>10. Due(c)
    <3>1. since[k][c] = k /\ k \in 0 .. queueCount - 1 /\ k >= k
      BY <2>7, <2>8, <2>9, <1>5, <1>9
    <3>2. QED
      BY <3>1, <2>7, <1>3 DEF DelayedInv, MarksSound, Due
  <2>11. Slot(c, k).value = wanted[k][c]
    <3>1. Kept(k)
      <4>1. OldestPending <= k
        BY <1>3, IndexBounds DEF DelayedInv
      <4>2. OldestPending \in Nat
        BY IndexBounds DEF DelayedInv
      <4>3. QED
        BY <4>1, <4>2, <1>5 DEF Kept
    <3>2. QED
      BY <3>1, <2>7, <2>8 DEF DelayedInv, RingSound
  <2>12. QED
    BY <2>7, <2>9, <2>10, <2>11, <1>3, <1>7
<1>16. QED
  BY <1>13, <1>14, <1>15, <1>1, <1>2, <1>5, <1>10

LEMMA FrameStartStep ==
    ASSUME DelayedConstants, DelayedInv, FrameStart
    PROVE  DelayedInv'
<1>1. AppliesControls
  BY Apply
<1>2. CountsSound' /\ RingSound' /\ SinceSound'
  BY <1>1, AppliedQueue
<1>3. MarksSound'
  BY <1>1, AppliedMarks
<1>4. EffectSound'
  BY <1>1, <1>2, AppliedEffect
<1>5. TypeOK' /\ DueSound'
  BY <1>1 DEF AppliesControls, AppliesSlots
<1>6. QED
  BY <1>2, <1>3, <1>4, <1>5 DEF DelayedInv

LEMMA DelayedStep ==
    ASSUME DelayedConstants, DelayedInv, [Next]_vars
    PROVE  DelayedInv'
<1>1. CASE UNCHANGED vars
  <2>1. UNCHANGED <<queueCount, writeCount, values, device, frame, inEffect, wanted, since, spoiled, lost>>
    BY <1>1 DEF vars, history
  <2>2. QED
    BY <2>1 DEF DelayedInv, TypeOK, CountsSound, RingSound, MarksSound, SinceSound, EffectSound, DueSound,
                Kept, OldestPending, Slot, WriteIndex, Effective, Timely
<1>2. CASE \E new \in NewControls : push(new) \/ pushRejected(new)
  BY <1>2, PushStep, RejectedStep
<1>3. QED
  BY <1>1, <1>2, FrameStartStep, LostStep, RestartStep DEF Next

\* TakesEffect only looks at the frames that have started: a frame whose push() is not
\* written yet follows a lost event, and its own push() is not in time.
LEMMA DelayedInvMeans ==
    ASSUME DelayedConstants, DelayedInv
    PROVE  TakesEffect /\ ReadBack
<1>1. /\ queueCount \in Nat /\ queueCount >= 1 /\ writeCount \in Nat /\ frame \in Nat /\ writeCount <= frame
      /\ writeCount <= queueCount /\ frame <= MaxFrames /\ MaxFrames \in Nat
      /\ \A x \in writeCount .. frame - 1 : x \in lost
  BY IndexBounds, DelayedControlsAssumption DEF DelayedInv, CountsSound
<1>2. ASSUME NEW s \in 0 .. frame - 1, NEW c \in Controls \ spoiled,
             Clamp(s - maxDelay) < queueCount, Timely(c, Clamp(s - maxDelay))
      PROVE  inEffect[c][s] = wanted[Clamp(s - maxDelay)][c]
  <2>1. /\ maxDelay \in Nat /\ delay[c] <= maxDelay /\ delay[c] \in Nat /\ s \in Frames /\ s \in Nat
    BY <1>1, DelayBounds DEF Frames
  <2>2. PICK i, n : i = Effective(c, s) /\ n = Clamp(s - maxDelay)
    OBVIOUS
  <2>3. i = IF s <= writeCount - 1 + delay[c] THEN n ELSE Clamp(writeCount - 1 + delay[c] - maxDelay)
    BY <2>2 DEF Effective
  <2>4. n \in 0 .. queueCount - 1 /\ i \in Nat /\ i <= n /\ (n = 0 \/ n = s - maxDelay)
    BY <2>1, <2>2, <2>3, <1>1, <1>2 DEF Clamp
  <2>5. PICK j : j = since[n][c]
    OBVIOUS
  <2>6. j \in Nat /\ j <= n /\ \A x \in j .. n : since[x][c] = j /\ wanted[x][c] = wanted[n][c]
    <3>1. j \in 0 .. queueCount - 1
      BY <2>4, <2>5 DEF DelayedInv, TypeOK
    <3>2. QED
      BY <3>1, <2>4, <2>5 DEF DelayedInv, SinceSound
  <2>7. j # 0 => {j + maxDelay - delay[c] - 1, j + maxDelay - delay[c]} \cap lost = {}
    BY <2>1, <2>2, <2>5, <2>6, <1>2 DEF Timely
  <2>8. j <= i
    <3>1. SUFFICES ASSUME j > i PROVE FALSE
      BY <2>4, <2>6
    <3>2. PICK x \in Int : x = j + maxDelay - delay[c]
      BY <2>1, <2>6
    <3>3. j # 0 /\ x \notin lost
      BY <3>1, <3>2, <2>4, <2>6, <2>7
    <3>4. x >= writeCount /\ x <= frame - 1
      BY <3>1, <3>2, <2>1, <2>3, <2>4, <2>6, <1>1 DEF Clamp
    <3>5. QED
      BY <3>2, <3>3, <3>4, <1>1
  <2>9. i \in j .. n
    BY <2>4, <2>6, <2>8
  <2>10. since[i][c] = j /\ wanted[i][c] = wanted[n][c]
    BY <2>6, <2>9
  <2>11. Timely(c, i)
    BY <2>1, <2>6, <2>7, <2>10 DEF Timely
  <2>12. inEffect[c][s] = wanted[i][c]
    BY <2>1, <2>2, <2>11 DEF DelayedInv, EffectSound
  <2>13. QED
    BY <2>2, <2>10, <2>12
<1>3. ASSUME NEW s \in 0 .. frame - 1, NEW c \in Controls \ spoiled,
             queueCount - ListSize < Clamp(s - maxDelay), Clamp(s - maxDelay) < queueCount,
             Timely(c, Clamp(s - maxDelay))
      PROVE  get(s)[c] = inEffect[c][s]
  <2>1. Clamp(s - maxDelay) \in 0 .. queueCount - 1
    BY <1>1, <1>3, DelayBounds DEF Clamp
  <2>2. Kept(Clamp(s - maxDelay))
    BY <2>1, <1>1, <1>3, DelayedControlsAssumption DEF Kept
  <2>3. Slot(c, Clamp(s - maxDelay)).value = wanted[Clamp(s - maxDelay)][c]
    BY <2>1, <2>2 DEF DelayedInv, RingSound
  <2>4. inEffect[c][s] = wanted[Clamp(s - maxDelay)][c]
    BY <1>2, <1>3
  <2>5. QED
    BY <2>3, <2>4 DEF get
<1>4. TakesEffect
  BY <1>2 DEF TakesEffect
<1>5. ReadBack
  BY <1>3 DEF ReadBack
<1>6. QED
  BY <1>4, <1>5

\* TakesEffect: the controls of a push() take effect at their frame, all together,
\* whatever the delays of the controls, the length of the ring buffers, the number of
\* frames and the frame start events that are lost.
THEOREM ControlsTakeEffect ==
    ASSUME DelayedConstants
    PROVE  Spec => []TakesEffect
<1>1. Init => DelayedInv
  BY InitInv
<1>2. DelayedInv /\ [Next]_vars => DelayedInv'
  BY DelayedStep
<1>3. DelayedInv => TakesEffect
  BY DelayedInvMeans
<1>4. QED
  BY <1>1, <1>2, <1>3, PTL DEF Spec

\* ReadBack: get() tells the values the sensor used for a frame, as long as the slot of
\* the frame has not been reused.
THEOREM ControlsReadBack ==
    ASSUME DelayedConstants
    PROVE  Spec => []ReadBack
<1>1. Init => DelayedInv
  BY InitInv
<1>2. DelayedInv /\ [Next]_vars => DelayedInv'
  BY DelayedStep
<1>3. DelayedInv => ReadBack
  BY DelayedInvMeans
<1>4. QED
  BY <1>1, <1>2, <1>3, PTL DEF Spec

(***************************************************************************)
(* The rkisp1 pipeline handler                                              *)
(***************************************************************************)

\* The statistics may skip a number of frames, and there is a number of buffers.
RkConstants == MaxSkip \in Nat /\ MaxQueued \in Nat

RequestState == [status : {"Free", "Pending", "Complete", "Cancelled"}, pending : SUBSET {"main", "self"}]

\* What the pipeline thread does, were it not completing and queueing requests.
Stage == IF pc \in {"complete", "doQueue"} THEN ret ELSE pc

\* A request is in one queue, once, and not with the application.
QueuesSound ==
    /\ queued \in Seq(Request) /\ stopped \in Seq(Request) /\ waiting \in Seq(Request)
    /\ IsInjective(queued) /\ IsInjective(stopped) /\ IsInjective(waiting)
    /\ ToSet(queued) \cap ToSet(stopped) = {}
    /\ ToSet(queued) \cap ToSet(waiting) = {}
    /\ ToSet(stopped) \cap ToSet(waiting) = {}

NoneFree ==
    /\ \A r \in ToSet(queued) \cup ToSet(stopped) \cup ToSet(waiting) : req[r].status # "Free"
    /\ \A r \in ToSet(waiting) : req[r].status = "Pending"

\* A frame has a queued request of its own, which has not completed.
FramesSound ==
    /\ DOMAIN frameInfo \subseteq Nat
    /\ \A f \in DOMAIN frameInfo :
        /\ "request" \in DOMAIN frameInfo[f]
        /\ frameInfo[f].request \in ToSet(queued)
        /\ req[frameInfo[f].request].status = "Pending"
    /\ \A f, g \in DOMAIN frameInfo : frameInfo[f].request = frameInfo[g].request => f = g

\* stop() takes the waiting requests away, and more are queued after it is done.
StopsSound ==
    /\ stopped # <<>> => waiting = <<>>
    /\ Stage = "loop" => stopped = <<>>

CountersSound == frameNumber \in Nat /\ sequence \in Int /\ sequence >= -1

OrderInv ==
    /\ req \in [Request -> RequestState]
    /\ QueuesSound
    /\ NoneFree
    /\ FramesSound
    /\ StopsSound
    /\ CountersSound

-----------------------------------------------------------------------------

\* A handler updates the entry of a frame, or completes its request.
EntryKept ==
    /\ DOMAIN frameInfo' = DOMAIN frameInfo
    /\ \A g \in DOMAIN frameInfo : "request" \in DOMAIN frameInfo'[g] /\ frameInfo'[g].request = frameInfo[g].request
    /\ req' \in [Request -> RequestState]
    /\ \A r \in Request : req'[r].status = req[r].status

EntryDone(f) ==
    /\ f \in DOMAIN frameInfo
    /\ DOMAIN frameInfo' = DOMAIN frameInfo \ {f}
    /\ \A g \in DOMAIN frameInfo \ {f} : frameInfo'[g] = frameInfo[g]
    /\ req' \in [Request -> RequestState]
    /\ \A r \in Request : r # frameInfo[f].request => req'[r] = req[r]
    /\ req'[frameInfo[f].request].status = "Complete"

EntryUpdated == EntryKept \/ \E f \in DOMAIN frameInfo : EntryDone(f)

Free == {r \in Request : req[r].status = "Free"}

\* The entry that a handler finds.
LEMMA FirstFrame ==
    ASSUME OrderInv, NEW S \in SUBSET DOMAIN frameInfo, S # {}
    PROVE  Rk!First(S) \in S
<1>1. S \in SUBSET Nat
  BY DEF OrderInv, FramesSound
<1>2. QED
  BY <1>1, SmallestMember DEF Rk!First

LEMMA EntryRequest ==
    ASSUME OrderInv, NEW f \in DOMAIN frameInfo
    PROVE  /\ frameInfo[f].request \in Request /\ frameInfo[f].request \in ToSet(queued)
           /\ frameInfo[f].request \notin ToSet(stopped) /\ frameInfo[f].request \notin ToSet(waiting)
           /\ req[frameInfo[f].request].status = "Pending"
<1>1. frameInfo[f].request \in ToSet(queued) /\ queued \in Seq(Request)
  BY DEF OrderInv, FramesSound, QueuesSound
<1>2. ToSet(queued) \subseteq Request
  BY <1>1 DEF ToSet
<1>3. QED
  BY <1>1, <1>2 DEF OrderInv, FramesSound, QueuesSound

\* completeBuffer() leaves the status of the request alone.
LEMMA CompleteBufferEffect ==
    ASSUME OrderInv, NEW r \in Request, NEW s
    PROVE  /\ Rk!completeBuffer(r, s) \in [Request -> RequestState]
           /\ \A x \in Request : Rk!completeBuffer(r, s)[x].status = req[x].status
<1>1. req \in [Request -> RequestState]
  BY DEF OrderInv
<1>2. req[r] \in RequestState
  BY <1>1
<1>3. [req[r] EXCEPT !.pending = @ \ {s}] \in RequestState
  BY <1>2 DEF RequestState
<1>4. [req[r] EXCEPT !.pending = @ \ {s}].status = req[r].status
  BY <1>2 DEF RequestState
<1>5. QED
  BY <1>1, <1>3, <1>4 DEF Rk!completeBuffer

LEMMA TryCompleteEffect ==
    ASSUME OrderInv, NEW f \in DOMAIN frameInfo, NEW info, NEW q,
           "request" \in DOMAIN info, info.request = frameInfo[f].request,
           q \in [Request -> RequestState],
           \A r \in Request : q[r].status = req[r].status,
           \A r \in Request : r # info.request => q[r] = req[r],
           Rk!tryCompleteRequest(f, info, q)
    PROVE  EntryUpdated /\ ((pc' = "complete" /\ ret' = pc) \/ UNCHANGED <<pc, ret>>)
<1>1. info.request \in Request
  BY EntryRequest
<1>2. CASE Rk!Incomplete(info, q)
  <2>1. frameInfo' = [frameInfo EXCEPT ![f] = info] /\ req' = q /\ UNCHANGED <<pc, ret>>
    BY <1>2 DEF Rk!tryCompleteRequest
  <2>2. EntryKept
    BY <2>1 DEF EntryKept, OrderInv, FramesSound
  <2>3. QED
    BY <2>1, <2>2 DEF EntryUpdated
<1>3. CASE ~Rk!Incomplete(info, q)
  <2>1. /\ frameInfo' = Rk!Restrict(frameInfo, DOMAIN frameInfo \ {f})
        /\ req' = [q EXCEPT ![info.request].status = "Complete"]
        /\ pc' = "complete" /\ ret' = pc
    BY <1>3 DEF Rk!tryCompleteRequest
  <2>2. DOMAIN frameInfo' = DOMAIN frameInfo \ {f} /\ \A g \in DOMAIN frameInfo \ {f} : frameInfo'[g] = frameInfo[g]
    BY <2>1 DEF Rk!Restrict
  <2>3. q[info.request] \in RequestState
    BY <1>1
  <2>4. /\ [q[info.request] EXCEPT !.status = "Complete"] \in RequestState
        /\ [q[info.request] EXCEPT !.status = "Complete"].status = "Complete"
    BY <2>3 DEF RequestState
  <2>5. EntryDone(f)
    BY <1>1, <2>1, <2>2, <2>4 DEF EntryDone
  <2>6. QED
    BY <2>1, <2>5 DEF EntryUpdated
<1>4. QED
  BY <1>2, <1>3

\* An updated entry keeps the order.
LEMMA EntryUpdatedKeeps ==
    ASSUME OrderInv, EntryUpdated, UNCHANGED <<queued, stopped, waiting>>, Stage' = Stage, CountersSound'
    PROVE  OrderInv' /\ Free' = Free
<1>1. QueuesSound' /\ StopsSound'
  BY DEF OrderInv, QueuesSound, StopsSound
<1>2. req' \in [Request -> RequestState]
  BY DEF EntryUpdated, EntryKept, EntryDone
<1>3. ToSet(queued) \subseteq Request /\ ToSet(stopped) \subseteq Request /\ ToSet(waiting) \subseteq Request
  BY DEF OrderInv, QueuesSound, ToSet
<1>4. CASE EntryKept
  <2>1. NoneFree'
    BY <1>3, <1>4 DEF OrderInv, NoneFree, EntryKept
  <2>2. FramesSound'
    BY <1>3, <1>4 DEF OrderInv, FramesSound, EntryKept
  <2>3. Free' = Free
    BY <1>4 DEF Free, EntryKept
  <2>4. QED
    BY <1>1, <1>2, <2>1, <2>2, <2>3 DEF OrderInv
<1>5. ASSUME NEW f \in DOMAIN frameInfo, EntryDone(f) PROVE NoneFree' /\ FramesSound' /\ Free' = Free
  <2>1. PICK r \in Request : r = frameInfo[f].request /\ req[r].status = "Pending" /\ r \notin ToSet(waiting)
    BY EntryRequest
  <2>2. req'[r].status = "Complete" /\ \A x \in Request : x # r => req'[x] = req[x]
    BY <1>5, <2>1 DEF EntryDone
  <2>3. NoneFree'
    BY <1>3, <2>1, <2>2 DEF OrderInv, NoneFree
  <2>4. \A g \in DOMAIN frameInfo' : g \in DOMAIN frameInfo /\ g # f /\ frameInfo'[g] = frameInfo[g]
    BY <1>5 DEF EntryDone
  <2>5. \A g \in DOMAIN frameInfo' : frameInfo[g].request # r
    BY <2>1, <2>4 DEF OrderInv, FramesSound
  <2>6. \A g \in DOMAIN frameInfo' : req'[frameInfo'[g].request].status = "Pending"
    BY <1>3, <2>2, <2>4, <2>5 DEF OrderInv, FramesSound
  <2>7. FramesSound'
    BY <2>4, <2>6 DEF OrderInv, FramesSound
  <2>8. Free' = Free
    BY <2>1, <2>2 DEF Free
  <2>9. QED
    BY <2>3, <2>7, <2>8
<1>6. QED
  BY <1>1, <1>2, <1>4, <1>5 DEF OrderInv, EntryUpdated

Pipeline == queued \o stopped \o waiting

\* A step that keeps the queues and the free requests is a stutter.
LEMMA StutterStep ==
    ASSUME UNCHANGED <<queued, stopped, waiting>>, Free' = Free
    PROVE  [Rk!Fifo!Next]_(Rk!Fifo!vars)
  BY DEF Free, Rk!Fifo!vars

LEMMA EntryStep ==
    ASSUME OrderInv, EntryUpdated, UNCHANGED <<queued, stopped, waiting>>,
           \/ pc' = "complete" /\ ret' = pc
           \/ UNCHANGED <<pc, ret>>,
           pc \notin {"complete", "doQueue"}, CountersSound'
    PROVE  OrderInv' /\ [Rk!Fifo!Next]_(Rk!Fifo!vars)
<1>1. Stage' = Stage
  BY DEF Stage
<1>2. QED
  BY <1>1, EntryUpdatedKeeps, StutterStep

\* A step that has nothing to do with requests.
LEMMA OtherStep ==
    ASSUME OrderInv, UNCHANGED <<queued, stopped, waiting, req, frameInfo>>,
           Stage' = Stage \/ Stage' # "loop", CountersSound'
    PROVE  OrderInv' /\ [Rk!Fifo!Next]_(Rk!Fifo!vars)
<1>1. Free' = Free
  BY DEF Free
<1>2. QueuesSound' /\ NoneFree' /\ FramesSound' /\ StopsSound'
  BY DEF OrderInv, QueuesSound, NoneFree, FramesSound, StopsSound
<1>3. QED
  BY <1>1, <1>2, StutterStep DEF OrderInv

LEMMA CompleteStep ==
    ASSUME OrderInv, Rk!CompleteRequest
    PROVE  OrderInv' /\ [Rk!Fifo!Next]_(Rk!Fifo!vars)
<1>1. CASE queued # <<>> /\ req[Head(queued)].status # "Pending"
  <2>1. PICK r \in Request : r = Head(queued) /\ r \in ToSet(queued) /\ Tail(queued) \in Seq(Request)
    BY <1>1, HeadInToSet DEF OrderInv, QueuesSound
  <2>2. /\ req' = [req EXCEPT ![r] = [status |-> "Free", pending |-> {}]]
        /\ queued' = Tail(queued) /\ pc' = pc /\ ret' = ret
        /\ UNCHANGED <<stopped, waiting, frameInfo, frameNumber, sequence>>
    BY <1>1, <2>1 DEF Rk!CompleteRequest
  <2>3. /\ req' \in [Request -> RequestState] /\ req'[r].status = "Free"
        /\ \A x \in Request : x # r => req'[x] = req[x]
    BY <2>2 DEF OrderInv, RequestState
  <2>4. ToSet(queued') = ToSet(queued) \ {r} /\ IsInjective(queued')
    BY <1>1, <2>1, <2>2, ToSetOfTail DEF OrderInv, QueuesSound
  <2>5. QueuesSound'
    BY <2>1, <2>2, <2>4 DEF OrderInv, QueuesSound
  <2>6. ToSet(queued) \subseteq Request /\ ToSet(stopped) \subseteq Request /\ ToSet(waiting) \subseteq Request
    BY DEF OrderInv, QueuesSound, ToSet
  <2>7. r \notin ToSet(stopped) /\ r \notin ToSet(waiting)
    BY <2>1 DEF OrderInv, QueuesSound
  <2>8. NoneFree'
    BY <2>2, <2>3, <2>4, <2>6, <2>7 DEF OrderInv, NoneFree
  <2>9. \A f \in DOMAIN frameInfo : frameInfo[f].request # r
    BY <1>1, <2>1 DEF OrderInv, FramesSound
  <2>10. FramesSound'
    BY <2>2, <2>3, <2>4, <2>6, <2>9 DEF OrderInv, FramesSound
  <2>11. StopsSound' /\ CountersSound'
    BY <2>2 DEF OrderInv, StopsSound, CountersSound, Stage
  <2>12. Free' = Free \cup {r}
    BY <2>3 DEF Free
  <2>13. /\ Pipeline # <<>> /\ Head(Pipeline) = r /\ Pipeline' = Tail(Pipeline)
    <3>1. stopped \in Seq(Request) /\ waiting \in Seq(Request) /\ queued \in Seq(Request) /\ queued \o stopped \in Seq(Request)
      BY ConcatProperties DEF OrderInv, QueuesSound
    <3>2. queued \o stopped # <<>> /\ Head(queued \o stopped) = r /\ Tail(queued) \o stopped = Tail(queued \o stopped)
      BY <1>1, <2>1, <3>1, ConcatPop
    <3>3. /\ (queued \o stopped) \o waiting # <<>> /\ Head((queued \o stopped) \o waiting) = r
          /\ Tail(queued \o stopped) \o waiting = Tail((queued \o stopped) \o waiting)
      BY <3>1, <3>2, ConcatPop
    <3>4. QED
      BY <2>2, <3>2, <3>3 DEF Pipeline
  <2>14. Rk!Fifo!Complete
    BY <2>12, <2>13 DEF Rk!Fifo!Complete, Pipeline, Free
  <2>15. QED
    BY <2>3, <2>5, <2>8, <2>10, <2>11, <2>14 DEF OrderInv, Rk!Fifo!Next
<1>2. CASE ~(queued # <<>> /\ req[Head(queued)].status # "Pending")
  <2>1. pc = "complete" /\ pc' = "doQueue" /\ UNCHANGED <<ret, queued, stopped, waiting, req, frameInfo, frameNumber, sequence>>
    BY <1>2 DEF Rk!CompleteRequest
  <2>2. Stage' = Stage
    BY <2>1 DEF Stage
  <2>3. CountersSound'
    BY <2>1 DEF OrderInv, CountersSound
  <2>4. QED
    BY <2>1, <2>2, <2>3, OtherStep
<1>3. QED
  BY <1>1, <1>2

LEMMA QueueStep ==
    ASSUME OrderInv, NEW r \in Request, NEW S \in SUBSET Rk!Streams(mode), Rk!QueueRequest(r, S)
    PROVE  OrderInv' /\ [Rk!Fifo!Next]_(Rk!Fifo!vars)
<1>1. /\ pc = "loop" /\ pc' = "doQueue" /\ ret' = "loop"
      /\ req[r].status = "Free"
      /\ req' = [req EXCEPT ![r] = [status |-> "Pending", pending |-> S]]
      /\ waiting' = Append(waiting, r)
      /\ UNCHANGED <<queued, stopped, frameInfo, frameNumber, sequence>>
  BY DEF Rk!QueueRequest
<1>2. S \subseteq {"main", "self"}
  BY DEF Rk!Streams
<1>3. [status |-> "Pending", pending |-> S] \in RequestState
  BY <1>2 DEF RequestState
<1>4. /\ req' \in [Request -> RequestState] /\ req'[r].status = "Pending"
      /\ \A x \in Request : x # r => req'[x] = req[x]
  BY <1>1, <1>3 DEF OrderInv
<1>5. /\ ToSet(queued) \subseteq Request /\ ToSet(stopped) \subseteq Request /\ ToSet(waiting) \subseteq Request
      /\ queued \in Seq(Request) /\ stopped \in Seq(Request) /\ waiting \in Seq(Request)
  BY DEF OrderInv, QueuesSound, ToSet
<1>6. r \notin ToSet(queued) /\ r \notin ToSet(stopped) /\ r \notin ToSet(waiting)
  BY <1>1 DEF OrderInv, NoneFree
<1>7. ToSet(waiting') = ToSet(waiting) \cup {r} /\ IsInjective(waiting') /\ waiting' \in Seq(Request)
  BY <1>1, <1>5, <1>6, ToSetOfAppend, InjectiveAppend DEF OrderInv, QueuesSound
<1>8. QueuesSound'
  BY <1>1, <1>5, <1>6, <1>7 DEF OrderInv, QueuesSound
<1>9. NoneFree'
  BY <1>1, <1>4, <1>5, <1>7 DEF OrderInv, NoneFree
<1>10. \A f \in DOMAIN frameInfo : frameInfo[f].request # r
  BY <1>6 DEF OrderInv, FramesSound
<1>11. FramesSound'
  BY <1>1, <1>4, <1>5, <1>10 DEF OrderInv, FramesSound
<1>12. StopsSound' /\ CountersSound'
  BY <1>1 DEF OrderInv, StopsSound, CountersSound, Stage
<1>13. Pipeline' = Append(Pipeline, r)
  BY <1>1, <1>5, ConcatAppend, ConcatProperties DEF Pipeline
<1>14. r \in Free /\ Free' = Free \ {r}
  BY <1>1, <1>4 DEF Free
<1>15. Rk!Fifo!Queue(r)
  BY <1>13, <1>14 DEF Rk!Fifo!Queue, Pipeline, Free
<1>16. QED
  BY <1>4, <1>8, <1>9, <1>11, <1>12, <1>15 DEF OrderInv, Rk!Fifo!Next

\* Request r moves to the end of the queued requests, and is cancelled or not.
Moved(r) ==
    /\ queued' = Append(queued, r)
    /\ req' \in [Request -> RequestState]
    /\ req'[r].status \in {req[r].status, "Cancelled"}
    /\ \A x \in Request : x # r => req'[x] = req[x]

\* What moves a request keeps those of the frames.
LEMMA MovedKeeps ==
    ASSUME OrderInv, NEW r \in Request, Moved(r), r \notin ToSet(queued), req[r].status # "Free"
    PROVE  /\ ToSet(queued') = ToSet(queued) \cup {r} /\ IsInjective(queued') /\ queued' \in Seq(Request)
           /\ \A x \in Request : req[x].status # "Free" => req'[x].status # "Free"
           /\ \A x \in Request : x # r => req'[x] = req[x]
           /\ \A f \in DOMAIN frameInfo :
                 frameInfo[f].request # r /\ req'[frameInfo[f].request].status = "Pending"
           /\ Free' = Free
<1>1. queued \in Seq(Request) /\ IsInjective(queued) /\ queued' = Append(queued, r)
  BY DEF OrderInv, QueuesSound, Moved
<1>2. ToSet(queued') = ToSet(queued) \cup {r} /\ IsInjective(queued') /\ queued' \in Seq(Request)
  BY <1>1, ToSetOfAppend, InjectiveAppend
<1>3. /\ \A x \in Request : (req[x].status = "Free") <=> (req'[x].status = "Free")
      /\ \A x \in Request : x # r => req'[x] = req[x]
  BY DEF Moved
<1>4. ASSUME NEW f \in DOMAIN frameInfo
      PROVE  frameInfo[f].request # r /\ req'[frameInfo[f].request].status = "Pending"
  <2>1. frameInfo[f].request \in Request /\ frameInfo[f].request \in ToSet(queued) /\ req[frameInfo[f].request].status = "Pending"
    BY EntryRequest
  <2>2. QED
    BY <2>1 DEF Moved
<1>5. Free' = Free
  BY <1>3 DEF Free
<1>6. QED
  BY <1>2, <1>3, <1>4, <1>5

LEMMA DoQueueMoves ==
    ASSUME OrderInv, Rk!DoQueueRequests, waiting # <<>>, Len(queued) # MaxQueued
    PROVE  \E r \in Request :
              /\ r = Head(waiting) /\ waiting' = Tail(waiting)
              /\ Moved(r)
              /\ pc = "doQueue" /\ pc' \in {"complete", "doQueue"} /\ ret' = ret
              /\ UNCHANGED <<stopped, sequence>>
              /\ \/ UNCHANGED <<frameInfo, frameNumber>>
                 \/ /\ DOMAIN frameInfo' = DOMAIN frameInfo \cup {frameNumber}
                    /\ \A g \in DOMAIN frameInfo \ {frameNumber} : frameInfo'[g] = frameInfo[g]
                    /\ "request" \in DOMAIN frameInfo'[frameNumber] /\ frameInfo'[frameNumber].request = r
                    /\ req' = req /\ frameNumber' = frameNumber + 1
<1>1. PICK r \in Request : r = Head(waiting)
  BY HeadInToSet DEF OrderInv, QueuesSound
<1>2. /\ pc = "doQueue" /\ waiting' = Tail(waiting) /\ queued' = Append(queued, r)
      /\ UNCHANGED <<stopped, sequence, ret>>
  BY <1>1 DEF Rk!DoQueueRequests
<1>3. req \in [Request -> RequestState]
  BY DEF OrderInv
<1>4. CASE Rk!Underrun
  <2>1. /\ req' = [req EXCEPT ![r] = [status |-> "Cancelled", pending |-> {}]]
        /\ pc' = "complete" /\ UNCHANGED <<frameInfo, frameNumber>>
    BY <1>1, <1>4 DEF Rk!DoQueueRequests
  <2>2. [status |-> "Cancelled", pending |-> {}] \in RequestState
    BY DEF RequestState
  <2>3. Moved(r)
    BY <1>2, <1>3, <2>1, <2>2 DEF Moved
  <2>4. QED
    BY <1>1, <1>2, <2>1, <2>3
<1>5. CASE ~Rk!Underrun
  <2>1. Rk!queueRequestDevice(r) /\ UNCHANGED <<req, pc>>
    BY <1>1, <1>5 DEF Rk!DoQueueRequests
  <2>2. Moved(r)
    BY <1>2, <1>3, <2>1 DEF Moved
  <2>3. /\ frameInfo' = [f \in DOMAIN frameInfo \cup {frameNumber} |->
                            IF f = frameNumber THEN Rk!NewInfo(r) ELSE frameInfo[f]]
        /\ frameNumber' = frameNumber + 1
    BY <2>1 DEF Rk!queueRequestDevice
  <2>4. "request" \in DOMAIN Rk!NewInfo(r) /\ Rk!NewInfo(r).request = r
    BY DEF Rk!NewInfo
  <2>5. QED
    BY <1>1, <1>2, <2>1, <2>2, <2>3, <2>4
<1>6. QED
  BY <1>4, <1>5

LEMMA DoQueueStep ==
    ASSUME OrderInv, Rk!DoQueueRequests
    PROVE  OrderInv' /\ [Rk!Fifo!Next]_(Rk!Fifo!vars)
<1>1. CASE waiting # <<>> /\ Len(queued) # MaxQueued
  <2>1. PICK r \in Request :
              /\ r = Head(waiting) /\ waiting' = Tail(waiting)
              /\ Moved(r)
              /\ pc = "doQueue" /\ pc' \in {"complete", "doQueue"} /\ ret' = ret
              /\ UNCHANGED <<stopped, sequence>>
              /\ \/ UNCHANGED <<frameInfo, frameNumber>>
                 \/ /\ DOMAIN frameInfo' = DOMAIN frameInfo \cup {frameNumber}
                    /\ \A g \in DOMAIN frameInfo \ {frameNumber} : frameInfo'[g] = frameInfo[g]
                    /\ "request" \in DOMAIN frameInfo'[frameNumber] /\ frameInfo'[frameNumber].request = r
                    /\ req' = req /\ frameNumber' = frameNumber + 1
    BY <1>1, DoQueueMoves
  <2>2. /\ ToSet(queued) \subseteq Request /\ ToSet(stopped) \subseteq Request /\ ToSet(waiting) \subseteq Request
        /\ queued \in Seq(Request) /\ stopped \in Seq(Request) /\ waiting \in Seq(Request) /\ IsInjective(waiting)
    BY DEF OrderInv, QueuesSound, ToSet
  <2>3. stopped = <<>>
    BY <1>1 DEF OrderInv, StopsSound
  <2>4. /\ r \in ToSet(waiting) /\ waiting' \in Seq(Request)
        /\ ToSet(waiting') = ToSet(waiting) \ {r} /\ IsInjective(waiting')
    BY <1>1, <2>1, <2>2, HeadInToSet, ToSetOfTail
  <2>5. r \notin ToSet(queued) /\ r \notin ToSet(stopped) /\ req[r].status # "Free"
    BY <2>4 DEF OrderInv, QueuesSound, NoneFree
  <2>6. /\ ToSet(queued') = ToSet(queued) \cup {r} /\ IsInjective(queued') /\ queued' \in Seq(Request)
        /\ \A x \in Request : req[x].status # "Free" => req'[x].status # "Free"
        /\ \A x \in Request : x # r => req'[x] = req[x]
        /\ \A f \in DOMAIN frameInfo :
              frameInfo[f].request # r /\ req'[frameInfo[f].request].status = "Pending"
        /\ Free' = Free
    BY <2>1, <2>5, MovedKeeps
  <2>7. QueuesSound'
    BY <2>1, <2>4, <2>5, <2>6 DEF OrderInv, QueuesSound
  <2>8. NoneFree'
    BY <2>1, <2>2, <2>4, <2>6 DEF OrderInv, NoneFree
  <2>9. StopsSound'
    BY <2>1, <2>3 DEF StopsSound
  <2>10. CountersSound'
    BY <2>1 DEF OrderInv, CountersSound
  <2>11. FramesSound'
    <3>1. CASE UNCHANGED <<frameInfo, frameNumber>>
      BY <2>6, <3>1 DEF OrderInv, FramesSound
    <3>2. CASE frameNumber' = frameNumber + 1
      <4>1. /\ DOMAIN frameInfo' = DOMAIN frameInfo \cup {frameNumber}
            /\ \A g \in DOMAIN frameInfo \ {frameNumber} : frameInfo'[g] = frameInfo[g]
            /\ "request" \in DOMAIN frameInfo'[frameNumber] /\ frameInfo'[frameNumber].request = r
            /\ req' = req /\ frameNumber \in Nat
        BY <2>1, <3>2 DEF OrderInv, CountersSound
      <4>2. req[r].status = "Pending"
        BY <2>4 DEF OrderInv, NoneFree
      <4>3. QED
        BY <2>6, <4>1, <4>2 DEF OrderInv, FramesSound
    <3>3. QED
      BY <2>1, <3>1, <3>2
  <2>12. Pipeline' = Pipeline
    <3>1. queued \o stopped = queued /\ queued' \o stopped' = queued'
      BY <2>1, <2>2, <2>3, <2>6, ConcatEmptySeq
    <3>2. Append(queued, Head(waiting)) \o Tail(waiting) = queued \o waiting
      BY <1>1, <2>2, ConcatShift
    <3>3. QED
      BY <2>1, <3>1, <3>2 DEF Pipeline, Moved
  <2>13. UNCHANGED Rk!Fifo!vars
    BY <2>6, <2>12 DEF Rk!Fifo!vars, Pipeline, Free
  <2>14. req' \in [Request -> RequestState]
    BY <2>1 DEF Moved
  <2>15. QED
    BY <2>7, <2>8, <2>9, <2>10, <2>11, <2>13, <2>14 DEF OrderInv
<1>2. CASE ~(waiting # <<>> /\ Len(queued) # MaxQueued)
  <2>1. pc = "doQueue" /\ pc' = ret /\ ret' = ret /\ UNCHANGED <<queued, stopped, waiting, req, frameInfo, frameNumber, sequence>>
    BY <1>2 DEF Rk!DoQueueRequests
  <2>2. Stage' = Stage
    BY <2>1 DEF Stage
  <2>3. CountersSound'
    BY <2>1 DEF OrderInv, CountersSound
  <2>4. QED
    BY <2>1, <2>2, <2>3, OtherStep
<1>3. QED
  BY <1>1, <1>2

LEMMA StopStep ==
    ASSUME OrderInv, Rk!Stop
    PROVE  OrderInv' /\ [Rk!Fifo!Next]_(Rk!Fifo!vars)
<1>1. /\ pc = "loop" /\ pc' = "ipaStop" /\ ret' = ret
      /\ stopped' = waiting /\ waiting' = <<>>
      /\ UNCHANGED <<queued, req, frameInfo, frameNumber, sequence>>
  BY DEF Rk!Stop, Rk!frameVars
<1>2. stopped = <<>>
  BY <1>1 DEF OrderInv, StopsSound, Stage
<1>3. ToSet(<<>>) = {} /\ IsInjective(<<>>) /\ <<>> \in Seq(Request)
  BY ToSetOfEmpty
<1>4. QueuesSound' /\ NoneFree'
  BY <1>1, <1>2, <1>3 DEF OrderInv, QueuesSound, NoneFree
<1>5. FramesSound' /\ StopsSound' /\ CountersSound'
  BY <1>1 DEF OrderInv, FramesSound, StopsSound, CountersSound, Stage
<1>6. Pipeline' = Pipeline
  <2>1. queued \o stopped = queued /\ queued \in Seq(Request) /\ waiting \in Seq(Request) /\ queued \o waiting \in Seq(Request)
    BY <1>2, ConcatEmptySeq, ConcatProperties DEF OrderInv, QueuesSound
  <2>2. (queued \o waiting) \o <<>> = queued \o waiting
    BY <2>1, ConcatEmptySeq
  <2>3. QED
    BY <1>1, <2>1, <2>2 DEF Pipeline
<1>7. UNCHANGED Rk!Fifo!vars
  BY <1>1, <1>6 DEF Rk!Fifo!vars, Pipeline
<1>8. QED
  BY <1>1, <1>4, <1>5, <1>7 DEF OrderInv

LEMMA StopWaitingStep ==
    ASSUME OrderInv, Rk!StopWaiting
    PROVE  OrderInv' /\ [Rk!Fifo!Next]_(Rk!Fifo!vars)
<1>1. CASE stopped = <<>>
  <2>1. pc' = "loop" /\ UNCHANGED <<queued, stopped, waiting, req, frameInfo, frameNumber, sequence>>
    BY <1>1 DEF Rk!StopWaiting
  <2>2. /\ StopsSound' /\ CountersSound' /\ QueuesSound' /\ NoneFree' /\ FramesSound'
        /\ req' \in [Request -> RequestState]
    BY <1>1, <2>1 DEF OrderInv, StopsSound, CountersSound, QueuesSound, NoneFree, FramesSound
  <2>3. Free' = Free
    BY <2>1 DEF Free
  <2>4. QED
    BY <2>1, <2>2, <2>3, StutterStep DEF OrderInv
<1>2. CASE stopped # <<>>
  <2>1. PICK r \in Request : r = Head(stopped)
    BY <1>2, HeadInToSet DEF OrderInv, QueuesSound
  <2>2. /\ stopped' = Tail(stopped) /\ queued' = Append(queued, r)
        /\ req' = [req EXCEPT ![r] = [status |-> "Cancelled", pending |-> {}]]
        /\ pc' = "complete" /\ ret' = "waiting"
        /\ UNCHANGED <<waiting, frameInfo, frameNumber, sequence>>
    BY <1>2, <2>1 DEF Rk!StopWaiting
  <2>3. [status |-> "Cancelled", pending |-> {}] \in RequestState
    BY DEF RequestState
  <2>4. Moved(r)
    BY <2>2, <2>3 DEF OrderInv, Moved
  <2>5. /\ ToSet(queued) \subseteq Request /\ ToSet(stopped) \subseteq Request /\ ToSet(waiting) \subseteq Request
        /\ queued \in Seq(Request) /\ stopped \in Seq(Request) /\ waiting \in Seq(Request) /\ IsInjective(stopped)
    BY DEF OrderInv, QueuesSound, ToSet
  <2>6. /\ r \in ToSet(stopped) /\ stopped' \in Seq(Request)
        /\ ToSet(stopped') = ToSet(stopped) \ {r} /\ IsInjective(stopped')
    BY <1>2, <2>1, <2>2, <2>5, HeadInToSet, ToSetOfTail
  <2>7. r \notin ToSet(queued) /\ r \notin ToSet(waiting) /\ req[r].status # "Free"
    BY <2>6 DEF OrderInv, QueuesSound, NoneFree
  <2>8. /\ ToSet(queued') = ToSet(queued) \cup {r} /\ IsInjective(queued') /\ queued' \in Seq(Request)
        /\ \A x \in Request : req[x].status # "Free" => req'[x].status # "Free"
        /\ \A x \in Request : x # r => req'[x] = req[x]
        /\ \A f \in DOMAIN frameInfo :
              frameInfo[f].request # r /\ req'[frameInfo[f].request].status = "Pending"
        /\ Free' = Free
    BY <2>4, <2>7, MovedKeeps
  <2>9. QueuesSound'
    BY <2>2, <2>6, <2>7, <2>8 DEF OrderInv, QueuesSound
  <2>10. NoneFree'
    BY <2>2, <2>5, <2>6, <2>7, <2>8 DEF OrderInv, NoneFree
  <2>11. StopsSound' /\ CountersSound'
    BY <1>2, <2>2 DEF OrderInv, StopsSound, CountersSound, Stage
  <2>12. FramesSound'
    BY <2>2, <2>8 DEF OrderInv, FramesSound
  <2>13. Pipeline' = Pipeline
    BY <1>2, <2>1, <2>2, <2>5, ConcatShift DEF Pipeline
  <2>14. UNCHANGED Rk!Fifo!vars
    BY <2>8, <2>13 DEF Rk!Fifo!vars, Pipeline, Free
  <2>15. req' \in [Request -> RequestState]
    BY <2>4 DEF Moved
  <2>16. QED
    BY <2>9, <2>10, <2>11, <2>12, <2>14, <2>15 DEF OrderInv
<1>3. QED
  BY <1>1, <1>2

-----------------------------------------------------------------------------

\* The request of an entry whose flags a handler sets.
LEMMA FlagsKeepRequest ==
    ASSUME OrderInv, NEW f \in DOMAIN frameInfo
    PROVE  /\ \A v : /\ "request" \in DOMAIN [frameInfo[f] EXCEPT !.metadataProcessed = v]
                     /\ [frameInfo[f] EXCEPT !.metadataProcessed = v].request = frameInfo[f].request
           /\ \A v : /\ "request" \in DOMAIN [frameInfo[f] EXCEPT !.paramDequeued = v]
                     /\ [frameInfo[f] EXCEPT !.paramDequeued = v].request = frameInfo[f].request
  BY DEF OrderInv, FramesSound

\* A handler that ends with tryCompleteRequest(), on the requests as they are.
LEMMA TryStep ==
    ASSUME OrderInv, NEW f \in DOMAIN frameInfo, NEW info,
           "request" \in DOMAIN info, info.request = frameInfo[f].request,
           Rk!tryCompleteRequest(f, info, req),
           UNCHANGED <<queued, stopped, waiting>>, pc \notin {"complete", "doQueue"}, CountersSound'
    PROVE  OrderInv' /\ [Rk!Fifo!Next]_(Rk!Fifo!vars)
<1>1. req \in [Request -> RequestState]
  BY DEF OrderInv
<1>2. EntryUpdated /\ ((pc' = "complete" /\ ret' = pc) \/ UNCHANGED <<pc, ret>>)
  BY <1>1, TryCompleteEffect
<1>3. QED
  BY <1>2, EntryStep

\* ... and with the buffer of a stream completed.
LEMMA TryBufferStep ==
    ASSUME OrderInv, NEW f \in DOMAIN frameInfo, NEW info, NEW s,
           "request" \in DOMAIN info, info.request = frameInfo[f].request,
           Rk!tryCompleteRequest(f, info, Rk!completeBuffer(frameInfo[f].request, s)),
           UNCHANGED <<queued, stopped, waiting>>, pc \notin {"complete", "doQueue"}, CountersSound'
    PROVE  OrderInv' /\ [Rk!Fifo!Next]_(Rk!Fifo!vars)
<1>1. PICK q : q = Rk!completeBuffer(frameInfo[f].request, s)
  OBVIOUS
<1>2. frameInfo[f].request \in Request
  BY EntryRequest
<1>3. q \in [Request -> RequestState] /\ \A r \in Request : q[r].status = req[r].status
  BY <1>1, <1>2, CompleteBufferEffect
<1>4. \A r \in Request : r # info.request => q[r] = req[r]
  BY <1>1 DEF Rk!completeBuffer, OrderInv
<1>5. EntryUpdated /\ ((pc' = "complete" /\ ret' = pc) \/ UNCHANGED <<pc, ret>>)
  BY <1>1, <1>3, <1>4, TryCompleteEffect
<1>6. QED
  BY <1>5, EntryStep

LEMMA IpaEventStep ==
    ASSUME OrderInv, Rk!IpaEvent
    PROVE  OrderInv' /\ [Rk!Fifo!Next]_(Rk!Fifo!vars)
<1>1. UNCHANGED <<queued, stopped, waiting, frameNumber, sequence>> /\ pc \notin {"complete", "doQueue"}
  BY DEF Rk!IpaEvent, Rk!queueVars
<1>2. CountersSound'
  BY <1>1 DEF OrderInv, CountersSound
<1>3. CASE UNCHANGED <<req, frameInfo, pc, ret>>
  <2>1. Stage' = Stage
    BY <1>3 DEF Stage
  <2>2. QED
    BY <1>1, <1>2, <1>3, <2>1, OtherStep
<1>4. CASE /\ Head(events).frame \in DOMAIN frameInfo
           /\ Rk!metadataReady(Head(events).frame)
  <2>1. PICK f \in DOMAIN frameInfo : Rk!metadataReady(f)
    BY <1>4
  <2>2. Rk!tryCompleteRequest(f, [frameInfo[f] EXCEPT !.metadataProcessed = TRUE], req)
    BY <2>1 DEF Rk!metadataReady
  <2>3. QED
    BY <1>1, <1>2, <2>2, FlagsKeepRequest, TryStep
<1>5. QED
  BY <1>3, <1>4 DEF Rk!IpaEvent, Rk!paramsComputed, Rk!frameVars

\* The frame that uses a buffer.
LEMMA FoundFrame ==
    ASSUME OrderInv, NEW b, Rk!FramesWith(b) # {}
    PROVE  Rk!First(Rk!FramesWith(b)) \in DOMAIN frameInfo
<1>1. Rk!FramesWith(b) \in SUBSET DOMAIN frameInfo
  BY DEF Rk!FramesWith
<1>2. QED
  BY <1>1, FirstFrame

LEMMA BufferReadyStep ==
    ASSUME RkConstants, OrderInv, NEW d, NEW s, Rk!BufferReady(d, s), pc \notin {"complete", "doQueue"}
    PROVE  OrderInv' /\ [Rk!Fifo!Next]_(Rk!Fifo!vars)
<1>1. UNCHANGED <<queued, stopped, waiting>>
  BY DEF Rk!BufferReady, Rk!queueVars
<1>2. PICK b : b = Head(buffers[d])
  OBVIOUS
<1>3. CASE Rk!FramesWith(b) = {}
  <2>1. UNCHANGED <<req, frameInfo, pc, ret, frameNumber, sequence>>
    BY <1>2, <1>3 DEF Rk!BufferReady, Rk!FindFails, Rk!frameVars
  <2>2. Stage' = Stage /\ CountersSound'
    BY <2>1 DEF Stage, OrderInv, CountersSound
  <2>3. QED
    BY <1>1, <2>1, <2>2, OtherStep
<1>4. CASE Rk!FramesWith(b) # {}
  <2>1. PICK f \in DOMAIN frameInfo : f = Rk!First(Rk!FramesWith(b))
    BY <1>4, FoundFrame
  <2>2. CASE d = "param"
    <3>1. Rk!paramBufferReady(b)
      BY <1>2, <1>4, <2>2 DEF Rk!BufferReady
    <3>2. /\ Rk!tryCompleteRequest(f, [frameInfo[f] EXCEPT !.paramDequeued = TRUE], req)
          /\ UNCHANGED <<frameNumber, sequence>>
      BY <2>1, <3>1 DEF Rk!paramBufferReady
    <3>3. CountersSound'
      BY <3>2 DEF OrderInv, CountersSound
    <3>4. QED
      BY <1>1, <3>2, <3>3, FlagsKeepRequest, TryStep
  <2>3. CASE d = "stat"
    <3>1. PICK skip \in IF s = "Cancelled" THEN {0} ELSE 0 .. MaxSkip :
               Rk!statBufferReady(b, s, sequence + 1 + skip)
      BY <1>2, <1>4, <2>3 DEF Rk!BufferReady
    <3>2. PICK q \in Nat : q = sequence + 1 + skip
      <4>1. skip \in Nat
        BY DEF RkConstants
      <4>2. sequence \in Int /\ sequence >= -1
        BY DEF OrderInv, CountersSound
      <4>3. QED
        BY <4>1, <4>2
    <3>3. CASE s = "Cancelled"
      <4>1. /\ Rk!tryCompleteRequest(f, [frameInfo[f] EXCEPT !.metadataProcessed = TRUE], req)
            /\ UNCHANGED <<frameNumber, sequence>>
        BY <2>1, <3>1, <3>3 DEF Rk!statBufferReady
      <4>2. CountersSound'
        BY <4>1 DEF OrderInv, CountersSound
      <4>3. QED
        BY <1>1, <4>1, <4>2, FlagsKeepRequest, TryStep
    <3>4. CASE s # "Cancelled"
      <4>1. /\ sequence' = q /\ frameNumber' = (IF frameNumber <= q THEN q + 1 ELSE frameNumber)
            /\ UNCHANGED <<req, frameInfo, pc, ret>>
        BY <3>1, <3>2, <3>4 DEF Rk!statBufferReady, Rk!frameVars
      <4>2. CountersSound' /\ Stage' = Stage
        BY <4>1 DEF OrderInv, CountersSound, Stage
      <4>3. QED
        BY <1>1, <4>1, <4>2, OtherStep
    <3>5. QED
      BY <3>3, <3>4
  <2>4. CASE d # "param" /\ d # "stat"
    <3>1. Rk!imageBufferReady(b, d, s)
      BY <1>2, <1>4, <2>4 DEF Rk!BufferReady
    <3>2. PICK v : /\ Rk!tryCompleteRequest(f, [frameInfo[f] EXCEPT !.metadataProcessed = v],
                                            Rk!completeBuffer(frameInfo[f].request, d))
                   /\ UNCHANGED <<frameNumber, sequence>>
      BY <2>1, <3>1 DEF Rk!imageBufferReady
    <3>3. CountersSound'
      BY <3>2 DEF OrderInv, CountersSound
    <3>4. QED
      BY <1>1, <3>2, <3>3, FlagsKeepRequest, TryBufferStep
  <2>5. QED
    BY <2>2, <2>3, <2>4
<1>5. QED
  BY <1>3, <1>4

LEMMA DewarpInputStep ==
    ASSUME OrderInv, NEW s, Rk!DewarpInput(s), pc \notin {"complete", "doQueue"}
    PROVE  OrderInv' /\ [Rk!Fifo!Next]_(Rk!Fifo!vars)
<1>1. UNCHANGED <<queued, stopped, waiting, frameNumber, sequence>>
  BY DEF Rk!DewarpInput, Rk!queueVars, Rk!FindFails
<1>2. CountersSound'
  BY <1>1 DEF OrderInv, CountersSound
<1>3. CASE UNCHANGED <<req, frameInfo, pc, ret>>
  <2>1. Stage' = Stage
    BY <1>3 DEF Stage
  <2>2. QED
    BY <1>1, <1>2, <1>3, <2>1, OtherStep
<1>4. CASE /\ Rk!FramesWith(Head(buffers["main"])) # {}
           /\ Rk!cancelDewarpRequest(Rk!First(Rk!FramesWith(Head(buffers["main"]))))
  <2>1. PICK f \in DOMAIN frameInfo : Rk!cancelDewarpRequest(f)
    BY <1>4, FoundFrame
  <2>2. Rk!tryCompleteRequest(f, frameInfo[f], Rk!completeBuffer(frameInfo[f].request, "main"))
    BY <2>1 DEF Rk!cancelDewarpRequest
  <2>3. "request" \in DOMAIN frameInfo[f]
    BY DEF OrderInv, FramesSound
  <2>4. QED
    BY <1>1, <1>2, <2>2, <2>3, TryBufferStep
<1>5. QED
  BY <1>3, <1>4 DEF Rk!DewarpInput, Rk!FindFails, Rk!frameVars

LEMMA DewarpOutputStep ==
    ASSUME OrderInv, Rk!DewarpOutput, pc \notin {"complete", "doQueue"}
    PROVE  OrderInv' /\ [Rk!Fifo!Next]_(Rk!Fifo!vars)
<1>1. UNCHANGED <<queued, stopped, waiting, frameNumber, sequence>>
  BY DEF Rk!DewarpOutput, Rk!queueVars
<1>2. CountersSound'
  BY <1>1 DEF OrderInv, CountersSound
<1> DEFINE r == Head(buffers["dewarp"])
           S == {f \in DOMAIN frameInfo : frameInfo[f].request = r}
<1>3. CASE S = {}
  <2>1. UNCHANGED <<req, frameInfo, pc, ret>>
    BY <1>3 DEF Rk!DewarpOutput, Rk!frameVars
  <2>2. Stage' = Stage
    BY <2>1 DEF Stage
  <2>3. QED
    BY <1>1, <1>2, <2>1, <2>2, OtherStep
<1>4. CASE S # {}
  <2>1. PICK f \in S : f = Rk!First(S)
    BY <1>4, FirstFrame
  <2>2. Rk!tryCompleteRequest(f, frameInfo[f], Rk!completeBuffer(r, "main"))
    BY <1>4, <2>1 DEF Rk!DewarpOutput
  <2>3. f \in DOMAIN frameInfo /\ frameInfo[f].request = r
    OBVIOUS
  <2>4. "request" \in DOMAIN frameInfo[f]
    BY <2>3 DEF OrderInv, FramesSound
  <2>5. QED
    BY <1>1, <1>2, <2>2, <2>3, <2>4, TryBufferStep
<1>5. QED
  BY <1>3, <1>4

LEMMA StopDeviceStep ==
    ASSUME OrderInv, Rk!StopDevice
    PROVE  OrderInv' /\ [Rk!Fifo!Next]_(Rk!Fifo!vars)
<1>1. /\ frameInfo' = <<>> /\ pc' = "waiting"
      /\ UNCHANGED <<queued, stopped, waiting, req, frameNumber, sequence>>
  BY DEF Rk!StopDevice, Rk!queueVars
<1>2. DOMAIN frameInfo' = {}
  BY <1>1
<1>3. FramesSound'
  BY <1>2 DEF FramesSound
<1>4. QueuesSound' /\ NoneFree' /\ StopsSound' /\ CountersSound'
  BY <1>1 DEF OrderInv, QueuesSound, NoneFree, StopsSound, CountersSound, Stage
<1>5. Free' = Free
  BY <1>1 DEF Free
<1>6. QED
  BY <1>1, <1>3, <1>4, <1>5, StutterStep DEF OrderInv

LEMMA OrderStep ==
    ASSUME RkConstants, OrderInv, [Rk!Next]_(Rk!vars)
    PROVE  OrderInv' /\ [Rk!Fifo!Next]_(Rk!Fifo!vars)
<1>1. CASE UNCHANGED Rk!vars
  <2>1. UNCHANGED <<queued, stopped, waiting, req, frameInfo, frameNumber, sequence, pc, ret>>
    BY <1>1 DEF Rk!vars, Rk!queueVars, Rk!frameVars
  <2>2. Stage' = Stage /\ CountersSound'
    BY <2>1 DEF Stage, OrderInv, CountersSound
  <2>3. QED
    BY <2>1, <2>2, OtherStep
<1>2. CASE Rk!CompleteRequest
  BY <1>2, CompleteStep
<1>3. CASE Rk!DoQueueRequests
  BY <1>3, DoQueueStep
<1>4. CASE Rk!IpaEvent
  BY <1>4, IpaEventStep
<1>5. CASE \/ Rk!IpaStop \/ Rk!IpaStopped
           \/ pc \in Rk!Device /\ buffers[pc] = <<>> /\ pc' = Rk!NextOff[pc]
                /\ UNCHANGED <<ret, queued, stopped, waiting, req, frameInfo, frameNumber, sequence>>
  <2>1. UNCHANGED <<queued, stopped, waiting, req, frameInfo, frameNumber, sequence>>
    BY <1>5 DEF Rk!IpaStop, Rk!IpaStopped, Rk!queueVars, Rk!frameVars
  <2>2. Stage' # "loop"
    BY <1>5 DEF Rk!IpaStop, Rk!IpaStopped, Rk!Device, Rk!NextOff, Stage
  <2>3. CountersSound'
    BY <2>1 DEF OrderInv, CountersSound
  <2>4. QED
    BY <2>1, <2>2, <2>3, OtherStep
<1>6. CASE Rk!StreamOff
  <2>1. pc \notin {"complete", "doQueue"}
    BY <1>6 DEF Rk!StreamOff, Rk!Device
  <2>2. QED
    BY <1>5, <1>6, <2>1, BufferReadyStep, DewarpInputStep, DewarpOutputStep
       DEF Rk!StreamOff, Rk!queueVars, Rk!frameVars
<1>7. CASE Rk!StopDevice
  BY <1>7, StopDeviceStep
<1>8. CASE Rk!StopWaiting
  BY <1>8, StopWaitingStep
<1>9. CASE Rk!IpaThread \/ \E m \in Modes : Rk!Configure(m)
  <2>1. UNCHANGED <<queued, stopped, waiting, req, frameInfo, frameNumber, sequence, pc, ret>>
    BY <1>9 DEF Rk!IpaThread, Rk!Configure, Rk!queueVars, Rk!frameVars
  <2>2. Stage' = Stage /\ CountersSound'
    BY <2>1 DEF Stage, OrderInv, CountersSound
  <2>3. QED
    BY <2>1, <2>2, OtherStep
<1>10. CASE Rk!Capture
  <2>1. pc \notin {"complete", "doQueue"}
    BY <1>10 DEF Rk!Capture
  <2>2. QED
    BY <1>10, <2>1, BufferReadyStep, DewarpInputStep, DewarpOutputStep DEF Rk!Capture
<1>11. CASE Rk!Start \/ Rk!StartFails
  <2>1. /\ UNCHANGED <<queued, stopped, waiting, req, frameInfo, pc, ret>>
        /\ frameNumber' = 0 /\ (sequence' = -1 \/ sequence' = sequence)
    BY <1>11 DEF Rk!Start, Rk!StartFails, Rk!queueVars, Rk!frameVars
  <2>2. Stage' = Stage /\ CountersSound'
    BY <2>1 DEF Stage, OrderInv, CountersSound
  <2>3. QED
    BY <2>1, <2>2, OtherStep
<1>12. CASE Rk!Stop
  BY <1>12, StopStep
<1>13. CASE \E r \in Request : \E S \in (SUBSET Rk!Streams(mode)) \ {{}} : Rk!QueueRequest(r, S)
  BY <1>13, QueueStep
<1>14. QED
  BY <1>1, <1>2, <1>3, <1>4, <1>5, <1>6, <1>7, <1>8, <1>9, <1>10, <1>11, <1>12, <1>13
     DEF Rk!Next, Rk!PipelineThread

LEMMA InitOrder ==
    ASSUME RkConstants, Rk!Init
    PROVE  OrderInv /\ Rk!Fifo!Init
<1>1. /\ queued = <<>> /\ stopped = <<>> /\ waiting = <<>> /\ frameInfo = <<>> /\ frameNumber = 0 /\ sequence = -1
      /\ req = [r \in Request |-> [status |-> "Free", pending |-> {}]]
  BY DEF Rk!Init
<1>2. [status |-> "Free", pending |-> {}] \in RequestState
  BY DEF RequestState
<1>3. req \in [Request -> RequestState]
  BY <1>1, <1>2
<1>4. <<>> \in Seq(Request) /\ ToSet(<<>>) = {} /\ IsInjective(<<>>) /\ DOMAIN frameInfo = {}
  BY <1>1, ToSetOfEmpty
<1>5. QueuesSound /\ NoneFree /\ FramesSound /\ StopsSound /\ CountersSound
  BY <1>1, <1>4 DEF QueuesSound, NoneFree, FramesSound, StopsSound, CountersSound
<1>6. Rk!Fifo!Init
  <2>1. queued \o stopped \o waiting = <<>>
    BY <1>1, <1>4, ConcatEmptySeq
  <2>2. {r \in Request : req[r].status = "Free"} = Request
    BY <1>1
  <2>3. QED
    BY <2>1, <2>2 DEF Rk!Fifo!Init
<1>7. QED
  BY <1>3, <1>5, <1>6 DEF OrderInv

\* RkInOrder: the rkisp1 pipeline handler returns requests once and in the order they
\* were queued, for any number of requests and of buffers, in every configuration, in
\* whichever order parameters, statistics, images and metadata come back.
THEOREM RkRequestsInOrder ==
    ASSUME RkConstants
    PROVE  Rk!Spec => Rk!InOrder /\ RkInOrder
<1>1. Rk!Init => OrderInv /\ Rk!Fifo!Init
  BY InitOrder
<1>2. OrderInv /\ [Rk!Next]_(Rk!vars) => OrderInv' /\ [Rk!Fifo!Next]_(Rk!Fifo!vars)
  BY OrderStep
<1>3. OrderInv /\ [Rk!Next]_(Rk!vars) => [part = "rkisp1" => [Rk!Fifo!Next]_(Rk!Fifo!vars)]_allVars
  BY <1>2
<1>4. QED
  BY <1>1, <1>2, <1>3, PTL DEF Rk!Spec, Rk!InOrder, Rk!Fifo!Spec, RkInOrder

-----------------------------------------------------------------------------
(***************************************************************************)
(* The frames of the rkisp1 pipeline handler, their buffers, and the calls  *)
(* and events about them.  Of the queues, the invariant sees the elements:  *)
(* D[d] are the buffers in device d, cs the calls and es the events.  It is *)
(* stated for any entries fi and requests rq, because a handler first       *)
(* updates an entry and then may complete its request.                      *)
(***************************************************************************)

Devices == {"self", "main", "stat", "param"}

CallRecords == [op : {"queueRequest", "computeParams", "processStats"}, frame : Nat]
EventRecords == [frame : Nat, name : {"paramsComputed", "metadataReady"}]
CallOf(op, f) == [op |-> op, frame |-> f]
EventOf(name, f) == [frame |-> f, name |-> name]

PoolBuffers(p) == {<<p, i>> : i \in Rk!Buffer}
AppBuffers(k) == {<<k, r>> : r \in Request}
DeviceBuffers ==
    PoolBuffers("param") \cup PoolBuffers("stat") \cup PoolBuffers("main")
      \cup AppBuffers("app main") \cup AppBuffers("app self")

\* The buffers of a frame, by configuration.
Entries ==
    [request : Request,
     param : {Rk!None} \cup PoolBuffers("param"), stat : {Rk!None} \cup PoolBuffers("stat"),
     main : {Rk!None} \cup PoolBuffers("main") \cup AppBuffers("app main"),
     self : {Rk!None} \cup AppBuffers("app self"),
     paramDequeued : BOOLEAN, metadataProcessed : BOOLEAN]

Shaped(m, x) ==
    /\ x \in Entries
    /\ m = "raw" => x.param = Rk!None /\ x.stat = Rk!None
    /\ m # "raw" => x.param # Rk!None /\ x.stat # Rk!None
    /\ m = "dewarp" => x.main \in PoolBuffers("main")
    /\ m # "dewarp" => x.main \in {Rk!None, <<"app main", x.request>>}
    /\ x.self \in {Rk!None, <<"app self", x.request>>}
    /\ m # "isp" => x.self = Rk!None

\* Where a frame is: with the IPA for its parameters, in the devices, with the IPA
\* for its statistics, or done with each.
Asked(f, cs, es) == CallOf("computeParams", f) \in cs \/ EventOf("paramsComputed", f) \in es
StatsAsked(f, cs, es) == CallOf("processStats", f) \in cs \/ EventOf("metadataReady", f) \in es
Inside(x, d, D) == x[d] # Rk!None /\ x[d] \in D[d]

FrameSound(m, f, x, pend, D, cs, es) ==
    /\ CallOf("queueRequest", f) \in cs => ~x.metadataProcessed /\ EventOf("metadataReady", f) \notin es
    /\ Asked(f, cs, es) =>
        /\ m # "raw" /\ ~x.paramDequeued /\ ~x.metadataProcessed /\ ~StatsAsked(f, cs, es)
        /\ \A d \in Devices : ~Inside(x, d, D)
        /\ x.request \notin D["dewarp"]
    /\ ~(CallOf("computeParams", f) \in cs /\ EventOf("paramsComputed", f) \in es)
    /\ StatsAsked(f, cs, es) => ~x.metadataProcessed
    /\ ~(CallOf("processStats", f) \in cs /\ EventOf("metadataReady", f) \in es)
    /\ Inside(x, "param", D) => ~x.paramDequeued
    /\ Inside(x, "stat", D) => ~x.metadataProcessed /\ ~StatsAsked(f, cs, es)
    /\ Inside(x, "main", D) => x.request \notin D["dewarp"]
    /\ m = "raw" /\ Inside(x, "main", D) => ~x.metadataProcessed /\ ~StatsAsked(f, cs, es)
    /\ x.main # Rk!None /\ "main" \notin pend =>
        ~Asked(f, cs, es) /\ ~Inside(x, "main", D) /\ x.request \notin D["dewarp"]
    /\ x.self # Rk!None /\ "self" \notin pend => ~Asked(f, cs, es) /\ ~Inside(x, "self", D)

\* Calls, events and buffers in devices are about frames that exist.
Owned(fi, D, cs, es) ==
    /\ \A c \in cs : c.frame \in DOMAIN fi
    /\ \A e \in es : e.frame \in DOMAIN fi
    /\ \A d \in Devices : \A b \in D[d] : b # Rk!None /\ \E f \in DOMAIN fi : fi[f][d] = b
    /\ \A r \in D["dewarp"] : \E f \in DOMAIN fi : fi[f].request = r /\ fi[f].main # Rk!None

EntriesSound(m, fi, rq, D, cs, es) ==
    /\ \A f \in DOMAIN fi : Shaped(m, fi[f])
    /\ \A f \in DOMAIN fi : FrameSound(m, f, fi[f], rq[fi[f].request].pending, D, cs, es)
    /\ Owned(fi, D, cs, es)

\* An internal buffer is in its pool or lent to one frame.
PoolsOf(m) == IF m = "raw" THEN {} ELSE IF m = "dewarp" THEN Rk!Pool ELSE {"param", "stat"}

PoolSound(p, fi, q) ==
    /\ IsInjective(q)
    /\ Len(q) + Cardinality(DOMAIN fi) = MaxQueued
    /\ \A f, g \in DOMAIN fi : f # g => fi[f][p] # fi[g][p]
    /\ \A f \in DOMAIN fi : \A i \in ToSet(q) : fi[f][p] # <<p, i>>

PoolsSound(a, m, fi, av) ==
    /\ av \in [Rk!Pool -> Seq(Rk!Buffer)]
    /\ IsFiniteSet(DOMAIN fi)
    /\ a => \A p \in PoolsOf(m) : PoolSound(p, fi, av[p])

InDevices == [d \in Rk!Device |-> ToSet(buffers[d])]

\* The queues themselves: the first call about a frame is queueRequest().
FirstCalls(q) == \A i, j \in DOMAIN q : q[i].op = "queueRequest" /\ q[j].frame = q[i].frame => i <= j

CallsSound ==
    /\ calls \in Seq(CallRecords) /\ IsInjective(calls) /\ FirstCalls(calls)
    /\ events \in Seq(EventRecords) /\ IsInjective(events)

DevicesSound ==
    /\ DOMAIN buffers = Rk!Device
    /\ \A d \in Devices : buffers[d] \in Seq(DeviceBuffers)
    /\ buffers["dewarp"] \in Seq(Request)
    /\ \A d \in Rk!Device : IsInjective(buffers[d])

\* The devices that streamOff() has emptied.
Emptied(stage) ==
    CASE stage = "main" -> {"self"}
      [] stage = "stat" -> {"self", "main"}
      [] stage = "param" -> {"self", "main", "stat"}
      [] stage = "dewarp" -> Devices
      [] stage \in {"clear", "waiting"} -> Rk!Device
      [] OTHER -> {}

Stages == {"loop", "ipaStop", "drain", "clear", "waiting"} \cup Rk!Device

PhasesSound ==
    /\ pc \in Stages \cup {"complete", "doQueue"} /\ ret \in Stages
    /\ active \in BOOLEAN
    /\ ~active => Stage \in {"loop", "waiting"} /\ DOMAIN frameInfo = {}
    /\ Stage = "waiting" => ~active
    /\ Stage \notin {"loop", "ipaStop"} => calls = <<>>
    /\ Stage \notin {"loop", "ipaStop", "drain"} => events = <<>>
    /\ \A d \in Emptied(Stage) : buffers[d] = <<>>
    /\ waiting # <<>> => active /\ Stage = "loop"
    /\ \A r \in ToSet(waiting) : req[r].pending \in (SUBSET Rk!Streams(mode)) \ {{}}

FrameInv ==
    /\ \A f \in DOMAIN frameInfo : f < frameNumber
    /\ EntriesSound(mode, frameInfo, req, InDevices, ToSet(calls), ToSet(events))
    /\ PoolsSound(active, mode, frameInfo, avail)
    /\ CallsSound
    /\ DevicesSound
    /\ PhasesSound

-----------------------------------------------------------------------------

\* Nothing about frame f is new.
NothingNew(f, x, D, cs, es, D2, cs2, es2) ==
    /\ \A op \in {"queueRequest", "computeParams", "processStats"} : CallOf(op, f) \in cs2 => CallOf(op, f) \in cs
    /\ \A n \in {"paramsComputed", "metadataReady"} : EventOf(n, f) \in es2 => EventOf(n, f) \in es
    /\ \A d \in Devices : Inside(x, d, D2) => Inside(x, d, D)
    /\ x.request \in D2["dewarp"] => x.request \in D["dewarp"]

\* What leaves the queues keeps a frame sound.
LEMMA LessIsSound ==
    ASSUME NEW m, NEW f, NEW x, NEW pend, NEW D, NEW cs, NEW es, NEW D2, NEW cs2, NEW es2,
           FrameSound(m, f, x, pend, D, cs, es), NothingNew(f, x, D, cs, es, D2, cs2, es2)
    PROVE  FrameSound(m, f, x, pend, D2, cs2, es2)
<1>1. /\ Asked(f, cs2, es2) => Asked(f, cs, es)
      /\ StatsAsked(f, cs2, es2) => StatsAsked(f, cs, es)
      /\ CallOf("queueRequest", f) \in cs2 => CallOf("queueRequest", f) \in cs
      /\ CallOf("computeParams", f) \in cs2 => CallOf("computeParams", f) \in cs
      /\ CallOf("processStats", f) \in cs2 => CallOf("processStats", f) \in cs
      /\ EventOf("paramsComputed", f) \in es2 => EventOf("paramsComputed", f) \in es
      /\ EventOf("metadataReady", f) \in es2 => EventOf("metadataReady", f) \in es
      /\ \A d \in Devices : Inside(x, d, D2) => Inside(x, d, D)
      /\ Inside(x, "main", D2) => Inside(x, "main", D)
      /\ Inside(x, "self", D2) => Inside(x, "self", D)
      /\ Inside(x, "stat", D2) => Inside(x, "stat", D)
      /\ Inside(x, "param", D2) => Inside(x, "param", D)
      /\ x.request \in D2["dewarp"] => x.request \in D["dewarp"]
  BY DEF NothingNew, Asked, StatsAsked, Devices
<1>2. QED
  BY <1>1 DEF FrameSound

\* No buffer and no request is in two entries.
Distinct(fi) ==
    /\ \A f, g \in DOMAIN fi : fi[f].request = fi[g].request => f = g
    /\ \A d \in Devices : \A f, g \in DOMAIN fi : fi[f][d] # Rk!None /\ fi[f][d] = fi[g][d] => f = g

\* What is new is about frame f with entry x.
NewOf(f, x, D, cs, es, D2, cs2, es2) ==
    /\ \A c \in cs2 : c \in cs \/ c.frame = f
    /\ \A e \in es2 : e \in es \/ e.frame = f
    /\ \A d \in Devices : \A b \in D2[d] : b \in D[d] \/ (b # Rk!None /\ b = x[d])
    /\ \A r \in D2["dewarp"] : r \in D["dewarp"] \/ (r = x.request /\ x.main # Rk!None)

SameBuffers(x, y) == x.request = y.request /\ \A d \in Devices : x[d] = y[d]

LEMMA OthersUnaffected ==
    ASSUME NEW fi, Distinct(fi), NEW f \in DOMAIN fi, NEW g \in DOMAIN fi, f # g,
           NEW D, NEW cs, NEW es, NEW D2, NEW cs2, NEW es2,
           NewOf(f, fi[f], D, cs, es, D2, cs2, es2)
    PROVE  NothingNew(g, fi[g], D, cs, es, D2, cs2, es2)
<1>1. \A op : CallOf(op, g).frame = g
  BY DEF CallOf
<1>2. \A n : EventOf(n, g).frame = g
  BY DEF EventOf
<1>3. \A op : CallOf(op, g) \in cs2 => CallOf(op, g) \in cs
  BY <1>1 DEF NewOf
<1>4. \A n : EventOf(n, g) \in es2 => EventOf(n, g) \in es
  BY <1>2 DEF NewOf
<1>5. ASSUME NEW d \in Devices, Inside(fi[g], d, D2) PROVE Inside(fi[g], d, D)
  <2>1. fi[g][d] # Rk!None /\ fi[g][d] # fi[f][d]
    BY <1>5 DEF Distinct, Inside
  <2>2. QED
    BY <1>5, <2>1 DEF NewOf, Inside
<1>6. fi[g].request # fi[f].request
  BY DEF Distinct
<1>7. fi[g].request \in D2["dewarp"] => fi[g].request \in D["dewarp"]
  BY <1>6 DEF NewOf
<1>8. QED
  BY <1>3, <1>4, <1>5, <1>7 DEF NothingNew

\* A step that concerns one frame.
LEMMA OneFrameChanges ==
    ASSUME NEW m, NEW fi, NEW rq, NEW D, NEW cs, NEW es, NEW fi2, NEW rq2, NEW D2, NEW cs2, NEW es2,
           EntriesSound(m, fi, rq, D, cs, es), Distinct(fi),
           NEW f \in DOMAIN fi,
           DOMAIN fi2 = DOMAIN fi, \A g \in DOMAIN fi : g # f => fi2[g] = fi[g],
           SameBuffers(fi2[f], fi[f]), Shaped(m, fi2[f]),
           \A g \in DOMAIN fi : g # f => rq2[fi[g].request].pending = rq[fi[g].request].pending,
           NewOf(f, fi[f], D, cs, es, D2, cs2, es2),
           FrameSound(m, f, fi2[f], rq2[fi[f].request].pending, D2, cs2, es2)
    PROVE  EntriesSound(m, fi2, rq2, D2, cs2, es2)
<1>1. ASSUME NEW g \in DOMAIN fi2 PROVE Shaped(m, fi2[g])
  <2>1. CASE g = f
    BY <2>1
  <2>2. CASE g # f
    BY <2>2 DEF EntriesSound
  <2>3. QED
    BY <2>1, <2>2
<1>2. ASSUME NEW g \in DOMAIN fi2 PROVE FrameSound(m, g, fi2[g], rq2[fi2[g].request].pending, D2, cs2, es2)
  <2>1. CASE g = f
    BY <2>1 DEF SameBuffers
  <2>2. CASE g # f
    <3>1. NothingNew(g, fi[g], D, cs, es, D2, cs2, es2)
      BY <2>2, OthersUnaffected
    <3>2. FrameSound(m, g, fi[g], rq[fi[g].request].pending, D, cs, es)
      BY DEF EntriesSound
    <3>3. FrameSound(m, g, fi[g], rq[fi[g].request].pending, D2, cs2, es2)
      BY <3>1, <3>2, LessIsSound
    <3>4. QED
      BY <2>2, <3>3
  <2>3. QED
    BY <2>1, <2>2
<1>3. Owned(fi2, D2, cs2, es2)
  <2>1. Owned(fi, D, cs, es)
    BY DEF EntriesSound
  <2>2. (\A c \in cs2 : c.frame \in DOMAIN fi2) /\ (\A e \in es2 : e.frame \in DOMAIN fi2)
    BY <2>1 DEF Owned, NewOf
  <2>3. \A g \in DOMAIN fi : fi2[g].request = fi[g].request /\ \A d \in Devices : fi2[g][d] = fi[g][d]
    BY DEF SameBuffers
  <2>4. ASSUME NEW d \in Devices, NEW b \in D2[d] PROVE b # Rk!None /\ \E g \in DOMAIN fi2 : fi2[g][d] = b
    <3>1. CASE b \in D[d]
      BY <2>1, <2>3, <3>1 DEF Owned
    <3>2. CASE b # Rk!None /\ b = fi[f][d]
      BY <2>3, <3>2
    <3>3. QED
      BY <3>1, <3>2 DEF NewOf
  <2>5. ASSUME NEW r \in D2["dewarp"] PROVE \E g \in DOMAIN fi2 : fi2[g].request = r /\ fi2[g].main # Rk!None
    <3>0. \A g \in DOMAIN fi : fi2[g].main = fi[g].main
      BY <2>3 DEF Devices
    <3>1. CASE r \in D["dewarp"]
      BY <2>1, <2>3, <3>0, <3>1 DEF Owned
    <3>2. CASE r = fi[f].request /\ fi[f].main # Rk!None
      BY <2>3, <3>0, <3>2
    <3>3. QED
      BY <3>1, <3>2 DEF NewOf
  <2>6. QED
    BY <2>2, <2>4, <2>5 DEF Owned
<1>4. QED
  BY <1>1, <1>2, <1>3 DEF EntriesSound

\* The entry of a request that is complete has nothing left anywhere.
LEMMA CompletedIsGone ==
    ASSUME NEW m, NEW fi, NEW rq, NEW D, NEW cs, NEW es, NEW fi2, NEW rq2,
           EntriesSound(m, fi, rq, D, cs, es), NEW f \in DOMAIN fi,
           Distinct(fi), cs \subseteq CallRecords, es \subseteq EventRecords,
           rq[fi[f].request].pending = {}, fi[f].metadataProcessed, m # "raw" => fi[f].paramDequeued,
           DOMAIN fi2 = DOMAIN fi \ {f}, \A g \in DOMAIN fi2 : fi2[g] = fi[g],
           \A g \in DOMAIN fi2 : rq2[fi[g].request].pending = rq[fi[g].request].pending
    PROVE  EntriesSound(m, fi2, rq2, D, cs, es)
<1>1. Shaped(m, fi[f]) /\ FrameSound(m, f, fi[f], {}, D, cs, es) /\ Owned(fi, D, cs, es)
  BY DEF EntriesSound
<1>2. PICK x : x = fi[f]
  OBVIOUS
<1>3. /\ ~Asked(f, cs, es) /\ ~StatsAsked(f, cs, es) /\ CallOf("queueRequest", f) \notin cs
      /\ ~Inside(x, "param", D) /\ ~Inside(x, "stat", D) /\ ~Inside(x, "main", D) /\ ~Inside(x, "self", D)
      /\ x.main # Rk!None => x.request \notin D["dewarp"]
  <2>1. ~Asked(f, cs, es) /\ ~StatsAsked(f, cs, es) /\ CallOf("queueRequest", f) \notin cs /\ ~Inside(x, "stat", D)
    BY <1>1, <1>2 DEF FrameSound
  <2>2. ~Inside(x, "param", D)
    BY <1>1, <1>2 DEF FrameSound, Shaped, Inside
  <2>3. /\ ~Inside(x, "main", D) /\ ~Inside(x, "self", D)
        /\ x.main # Rk!None => x.request \notin D["dewarp"]
    BY <1>1, <1>2 DEF FrameSound, Inside
  <2>4. QED
    BY <2>1, <2>2, <2>3
<1>4. ASSUME NEW c \in cs PROVE c.frame # f
  <2>1. c \in CallRecords
    OBVIOUS
  <2>2. c = CallOf(c.op, c.frame) /\ c.op \in {"queueRequest", "computeParams", "processStats"}
    BY <2>1 DEF CallRecords, CallOf
  <2>3. QED
    BY <1>3, <2>2 DEF Asked, StatsAsked
<1>5. ASSUME NEW e \in es PROVE e.frame # f
  <2>1. e \in EventRecords
    OBVIOUS
  <2>2. e = EventOf(e.name, e.frame) /\ e.name \in {"paramsComputed", "metadataReady"}
    BY <2>1 DEF EventRecords, EventOf
  <2>3. QED
    BY <1>3, <2>2 DEF Asked, StatsAsked
<1>6. \A d \in Devices : \A b \in D[d] : b # Rk!None /\ \E g \in DOMAIN fi2 : fi2[g][d] = b
  <2> SUFFICES ASSUME NEW d \in Devices, NEW b \in D[d] PROVE b # Rk!None /\ \E g \in DOMAIN fi2 : fi2[g][d] = b
    OBVIOUS
  <2>1. PICK g \in DOMAIN fi : fi[g][d] = b /\ b # Rk!None
    BY <1>1 DEF Owned
  <2>2. ~Inside(x, d, D)
    BY <1>3 DEF Devices
  <2>3. g # f
    BY <1>2, <2>1, <2>2 DEF Inside
  <2>4. QED
    BY <2>1, <2>3
<1>7. \A r \in D["dewarp"] : \E g \in DOMAIN fi2 : fi2[g].request = r /\ fi2[g].main # Rk!None
  <2> SUFFICES ASSUME NEW r \in D["dewarp"] PROVE \E g \in DOMAIN fi2 : fi2[g].request = r /\ fi2[g].main # Rk!None
    OBVIOUS
  <2>1. PICK g \in DOMAIN fi : fi[g].request = r /\ fi[g].main # Rk!None
    BY <1>1 DEF Owned
  <2>2. g # f
    BY <1>2, <1>3, <2>1
  <2>3. QED
    BY <2>1, <2>2
<1>8. Owned(fi2, D, cs, es)
  BY <1>1, <1>4, <1>5, <1>6, <1>7 DEF Owned
<1>9. \A g \in DOMAIN fi2 : Shaped(m, fi2[g]) /\ FrameSound(m, g, fi2[g], rq2[fi2[g].request].pending, D, cs, es)
  BY DEF EntriesSound
<1>10. QED
  BY <1>8, <1>9 DEF EntriesSound

-----------------------------------------------------------------------------

LEMMA SecondOfPair ==
    ASSUME NEW a, NEW b, NEW c, <<a, b>> = <<a, c>>
    PROVE  b = c
  OBVIOUS

\* The buffer of a pool that a frame has.
LEMMA LentBuffer ==
    ASSUME NEW m, NEW x, Shaped(m, x), NEW p \in PoolsOf(m)
    PROVE  \E i \in Rk!Buffer : x[p] = <<p, i>> /\ x[p] # Rk!None /\ x[p][2] = i
<1>1. p \in {"param", "stat", "main"} /\ m # "raw" /\ (p = "main" => m = "dewarp")
  BY DEF PoolsOf, Rk!Pool
<1>2. x[p] \in PoolBuffers(p)
  <2>1. CASE p = "param"
    BY <1>1, <2>1 DEF Shaped, Entries
  <2>2. CASE p = "stat"
    BY <1>1, <2>2 DEF Shaped, Entries
  <2>3. CASE p = "main"
    BY <1>1, <2>3 DEF Shaped
  <2>4. QED
    BY <1>1, <2>1, <2>2, <2>3
<1>3. PICK i \in Rk!Buffer : x[p] = <<p, i>>
  BY <1>2 DEF PoolBuffers
<1>4. x[p] # Rk!None /\ x[p][2] = i
  BY <1>1, <1>3 DEF Rk!None
<1>5. QED
  BY <1>3, <1>4

LEMMA FramesDistinct ==
    ASSUME OrderInv, FrameInv
    PROVE  Distinct(frameInfo)
<1>1. \A f, g \in DOMAIN frameInfo : frameInfo[f].request = frameInfo[g].request => f = g
  BY DEF OrderInv, FramesSound
<1>2. ASSUME NEW d \in Devices, NEW f \in DOMAIN frameInfo, NEW g \in DOMAIN frameInfo,
             frameInfo[f][d] # Rk!None, frameInfo[f][d] = frameInfo[g][d]
      PROVE  f = g
  <2>1. active
    BY DEF FrameInv, PhasesSound
  <2>2. PICK x, y : x = frameInfo[f] /\ y = frameInfo[g] /\ Shaped(mode, x) /\ Shaped(mode, y)
    BY DEF FrameInv, EntriesSound
  <2>3. ASSUME d \in PoolsOf(mode) PROVE f = g
    <3>1. PoolSound(d, frameInfo, avail[d])
      BY <2>1, <2>3 DEF FrameInv, PoolsSound
    <3>2. QED
      BY <1>2, <3>1 DEF PoolSound
  <2>4. CASE d \in {"param", "stat"}
    <3>1. mode # "raw"
      BY <1>2, <2>2, <2>4 DEF Shaped
    <3>2. QED
      BY <2>3, <2>4, <3>1 DEF PoolsOf, Rk!Pool
  <2>5. CASE d = "main"
    <3>1. CASE mode = "dewarp"
      BY <2>3, <2>5, <3>1 DEF PoolsOf, Rk!Pool
    <3>2. CASE mode # "dewarp"
      <4>1. x.main = <<"app main", x.request>> /\ y.main = <<"app main", y.request>>
        BY <1>2, <2>2, <2>5, <3>2 DEF Shaped
      <4>2. x.main = y.main
        BY <1>2, <2>2, <2>5
      <4>3. x.request = y.request
        BY <4>1, <4>2, SecondOfPair
      <4>4. QED
        BY <1>1, <2>2, <4>3
    <3>3. QED
      BY <3>1, <3>2
  <2>6. CASE d = "self"
    <3>1. x.self = <<"app self", x.request>> /\ y.self = <<"app self", y.request>>
      BY <1>2, <2>2, <2>6 DEF Shaped
    <3>2. x.self = y.self
      BY <1>2, <2>2, <2>6
    <3>3. x.request = y.request
      BY <3>1, <3>2, SecondOfPair
    <3>4. QED
      BY <1>1, <2>2, <3>3
  <2>7. QED
    BY <2>4, <2>5, <2>6 DEF Devices
<1>3. QED
  BY <1>1, <1>2 DEF Distinct

\* Entries fi2 are those of fi but the one of frame f.
Without(fi2, fi, f) == DOMAIN fi2 = DOMAIN fi \ {f} /\ \A g \in DOMAIN fi2 : fi2[g] = fi[g]

\* recycleBuffers() gives the buffers of a frame back to their pools.
LEMMA BufferReturned ==
    ASSUME RkConstants, NEW p, NEW fi, NEW q \in Seq(Rk!Buffer), PoolSound(p, fi, q), IsFiniteSet(DOMAIN fi),
           NEW f \in DOMAIN fi, NEW i \in Rk!Buffer, fi[f][p] = <<p, i>>,
           NEW fi2, Without(fi2, fi, f)
    PROVE  PoolSound(p, fi2, Append(q, i))
<1>0. DOMAIN fi2 = DOMAIN fi \ {f} /\ \A g \in DOMAIN fi2 : fi2[g] = fi[g]
  BY DEF Without
<1>1. i \notin ToSet(q)
  BY DEF PoolSound
<1>2. ToSet(Append(q, i)) = ToSet(q) \cup {i} /\ IsInjective(Append(q, i))
  BY <1>1, ToSetOfAppend, InjectiveAppend DEF PoolSound
<1>3. Len(Append(q, i)) = Len(q) + 1 /\ Len(q) \in Nat
  OBVIOUS
<1>4. PICK n \in Nat, k \in Int : n = Cardinality(DOMAIN fi) /\ k = Cardinality(DOMAIN fi2) /\ k = n - 1
  <2>1. IsFiniteSet(DOMAIN fi2) /\ Cardinality(DOMAIN fi2) = Cardinality(DOMAIN fi) - 1
    BY <1>0, FS_RemoveElement, Zenon
  <2>2. Cardinality(DOMAIN fi) \in Nat /\ Cardinality(DOMAIN fi2) \in Nat
    BY <2>1, FS_CardinalityType
  <2>3. QED
    BY <2>1, <2>2
<1>5. Len(q) + n = MaxQueued
  BY <1>4 DEF PoolSound
<1>6. Len(Append(q, i)) + Cardinality(DOMAIN fi2) = MaxQueued
  BY <1>3, <1>4, <1>5
<1>7. \A g, h \in DOMAIN fi2 : g # h => fi2[g][p] # fi2[h][p]
  BY <1>0 DEF PoolSound
<1>8. ASSUME NEW g \in DOMAIN fi2, NEW j \in ToSet(Append(q, i)) PROVE fi2[g][p] # <<p, j>>
  <2>1. g \in DOMAIN fi /\ g # f /\ fi2[g] = fi[g]
    BY <1>0
  <2>2. CASE j \in ToSet(q)
    BY <2>1, <2>2 DEF PoolSound
  <2>3. CASE j = i
    BY <2>1, <2>3 DEF PoolSound
  <2>4. QED
    BY <1>2, <2>2, <2>3
<1>9. QED
  BY <1>2, <1>6, <1>7, <1>8 DEF PoolSound

LEMMA RecycleSound ==
    ASSUME RkConstants, NEW fi, PoolsSound(active, mode, fi, avail), NEW f \in DOMAIN fi, Shaped(mode, fi[f]),
           NEW fi2, DOMAIN fi2 = DOMAIN fi \ {f}, \A g \in DOMAIN fi2 : fi2[g] = fi[g]
    PROVE  PoolsSound(active, mode, fi2, Rk!recycle(fi[f]))
<1>1. avail \in [Rk!Pool -> Seq(Rk!Buffer)] /\ IsFiniteSet(DOMAIN fi)
  BY DEF PoolsSound
<1>2. Rk!Taken = PoolsOf(mode) /\ PoolsOf(mode) \subseteq Rk!Pool
  BY DEF Rk!Taken, PoolsOf, Rk!Pool
<1>3. PICK av : av = Rk!recycle(fi[f])
  OBVIOUS
<1>4. /\ DOMAIN av = Rk!Pool
      /\ av = [p \in Rk!Pool |-> av[p]]
      /\ \A p \in Rk!Pool \ PoolsOf(mode) : av[p] = avail[p]
      /\ \A p \in PoolsOf(mode) : fi[f][p] # Rk!None => av[p] = Append(avail[p], fi[f][p][2])
  BY <1>2, <1>3 DEF Rk!recycle
<1>5. ASSUME NEW p \in PoolsOf(mode)
      PROVE  av[p] \in Seq(Rk!Buffer) /\ (active => PoolSound(p, fi2, av[p]))
  <2>1. PICK i \in Rk!Buffer : fi[f][p] = <<p, i>> /\ fi[f][p] # Rk!None /\ fi[f][p][2] = i
    BY LentBuffer
  <2>2. av[p] = Append(avail[p], i) /\ avail[p] \in Seq(Rk!Buffer)
    BY <1>1, <1>2, <1>4, <2>1
  <2>3. active => PoolSound(p, fi, avail[p])
    BY DEF PoolsSound
  <2>4. ASSUME active PROVE PoolSound(p, fi2, Append(avail[p], i))
    <3>0. Without(fi2, fi, f)
      BY DEF Without
    <3>1. PICK a \in Seq(Rk!Buffer) : a = avail[p]
      BY <2>2
    <3>2. PoolSound(p, fi, a)
      BY <2>3, <2>4, <3>1
    <3>3. PoolSound(p, fi2, Append(a, i))
      BY <1>1, <2>1, <3>0, <3>2, BufferReturned
    <3>4. QED
      BY <3>1, <3>3
  <2>5. QED
    BY <2>2, <2>4
<1>6. \A p \in Rk!Pool : av[p] \in Seq(Rk!Buffer)
  BY <1>1, <1>4, <1>5
<1>7. IsFiniteSet(DOMAIN fi2)
  BY <1>1, FS_RemoveElement
<1>8. av \in [Rk!Pool -> Seq(Rk!Buffer)]
  BY <1>4, <1>6
<1>9. QED
  BY <1>3, <1>5, <1>7, <1>8 DEF PoolsSound

\* Setting flags of an entry keeps the pools.
LEMMA FlagsKeepPools ==
    ASSUME NEW fi, NEW fi2, PoolsSound(active, mode, fi, avail), DOMAIN fi2 = DOMAIN fi,
           \A g \in DOMAIN fi : SameBuffers(fi2[g], fi[g])
    PROVE  PoolsSound(active, mode, fi2, avail)
<1>1. \A p \in PoolsOf(mode) : p \in Devices
  BY DEF PoolsOf, Rk!Pool, Devices
<1>2. \A p \in PoolsOf(mode) : \A g \in DOMAIN fi : fi2[g][p] = fi[g][p]
  BY <1>1 DEF SameBuffers
<1>3. ASSUME NEW p \in PoolsOf(mode), PoolSound(p, fi, avail[p]) PROVE PoolSound(p, fi2, avail[p])
  BY <1>2, <1>3 DEF PoolSound
<1>4. QED
  BY <1>3 DEF PoolsSound

\* The requests of the other frames keep their buffers.
OthersKeep(f, q) ==
    \A g \in DOMAIN frameInfo : g # f => q[frameInfo[g].request].pending = req[frameInfo[g].request].pending

Tried(q, D, cs, es) ==
    /\ EntriesSound(mode, frameInfo', req', D, cs, es)
    /\ PoolsSound(active, mode, frameInfo', avail')
    /\ DOMAIN frameInfo' \subseteq DOMAIN frameInfo
    /\ (pc' = "complete" /\ ret' = pc) \/ UNCHANGED <<pc, ret>>
    /\ \A r \in Request : req'[r].pending = q[r].pending

\* tryCompleteRequest() with the entry of frame f updated to info, requests to q.
LEMMA TryFrame ==
    ASSUME RkConstants, OrderInv, FrameInv, NEW f \in DOMAIN frameInfo, NEW info, NEW q,
           Rk!tryCompleteRequest(f, info, q),
           SameBuffers(info, frameInfo[f]), Shaped(mode, info), q \in [Request -> RequestState],
           OthersKeep(f, q),
           NEW D, NEW cs \in SUBSET CallRecords, NEW es \in SUBSET EventRecords,
           NewOf(f, frameInfo[f], InDevices, ToSet(calls), ToSet(events), D, cs, es),
           FrameSound(mode, f, info, q[frameInfo[f].request].pending, D, cs, es)
    PROVE  Tried(q, D, cs, es)
<1>1. Distinct(frameInfo)
  BY FramesDistinct
<1>2. PICK fi : fi = [frameInfo EXCEPT ![f] = info]
  OBVIOUS
<1>3. DOMAIN fi = DOMAIN frameInfo /\ fi[f] = info /\ \A g \in DOMAIN frameInfo : g # f => fi[g] = frameInfo[g]
  BY <1>2
<1>4. EntriesSound(mode, frameInfo, req, InDevices, ToSet(calls), ToSet(events))
  BY DEF FrameInv
<1>5. EntriesSound(mode, fi, q, D, cs, es)
  BY <1>1, <1>3, <1>4, OneFrameChanges DEF OthersKeep
<1>6. PoolsSound(active, mode, fi, avail)
  <2>1. \A g \in DOMAIN frameInfo : SameBuffers(fi[g], frameInfo[g])
    BY <1>3 DEF SameBuffers
  <2>2. PoolsSound(active, mode, frameInfo, avail)
    BY DEF FrameInv
  <2>3. QED
    BY <1>3, <2>1, <2>2, FlagsKeepPools
<1>7. CASE Rk!Incomplete(info, q)
  <2>1. frameInfo' = fi /\ req' = q /\ UNCHANGED <<avail, pc, ret>>
    BY <1>2, <1>7 DEF Rk!tryCompleteRequest
  <2>2. QED
    BY <1>3, <1>5, <1>6, <2>1 DEF Tried
<1>8. CASE ~Rk!Incomplete(info, q)
  <2>1. /\ frameInfo' = Rk!Restrict(frameInfo, DOMAIN frameInfo \ {f})
        /\ avail' = Rk!recycle(info)
        /\ req' = [q EXCEPT ![info.request].status = "Complete"]
        /\ pc' = "complete" /\ ret' = pc
    BY <1>8 DEF Rk!tryCompleteRequest
  <2>2. /\ DOMAIN frameInfo' = DOMAIN fi \ {f}
        /\ \A g \in DOMAIN frameInfo' : frameInfo'[g] = fi[g]
    BY <1>3, <2>1 DEF Rk!Restrict
  <2>3. \A r \in Request : req'[r].pending = q[r].pending
    BY <2>1 DEF RequestState
  <2>4. ASSUME NEW g \in DOMAIN fi PROVE fi[g].request \in Request
    <3>1. Shaped(mode, fi[g])
      BY <1>5 DEF EntriesSound
    <3>2. fi[g] \in Entries
      BY <3>1 DEF Shaped
    <3>3. QED
      BY <3>2 DEF Entries
  <2>5. q[fi[f].request].pending = {} /\ fi[f].metadataProcessed /\ (mode # "raw" => fi[f].paramDequeued)
    BY <1>3, <1>8 DEF Rk!Incomplete
  <2>6. Distinct(fi)
    <3>1. \A g \in DOMAIN frameInfo : fi[g].request = frameInfo[g].request /\ \A d \in Devices : fi[g][d] = frameInfo[g][d]
      BY <1>3 DEF SameBuffers
    <3>2. QED
      BY <1>1, <1>3, <3>1 DEF Distinct
  <2>7. \A g \in DOMAIN frameInfo' : req'[fi[g].request].pending = q[fi[g].request].pending
    BY <2>2, <2>3, <2>4
  <2>8. EntriesSound(mode, frameInfo', req', D, cs, es)
    BY <1>3, <1>5, <2>2, <2>5, <2>6, <2>7, CompletedIsGone
  <2>9. PoolsSound(active, mode, frameInfo', avail')
    BY <1>3, <1>6, <2>1, <2>2, RecycleSound
  <2>10. QED
    BY <1>3, <2>1, <2>2, <2>3, <2>8, <2>9 DEF Tried
<1>9. QED
  BY <1>7, <1>8

-----------------------------------------------------------------------------

\* Taking the first call, and posting one.
LEMMA CallTaken ==
    ASSUME NEW q \in Seq(CallRecords), IsInjective(q), FirstCalls(q), q # <<>>
    PROVE  /\ Tail(q) \in Seq(CallRecords) /\ IsInjective(Tail(q)) /\ FirstCalls(Tail(q))
           /\ ToSet(Tail(q)) = ToSet(q) \ {Head(q)} /\ Head(q) \in ToSet(q) /\ Head(q) \in CallRecords
           /\ Head(q).op # "queueRequest" => CallOf("queueRequest", Head(q).frame) \notin ToSet(q)
<1>1. /\ Tail(q) \in Seq(CallRecords) /\ IsInjective(Tail(q))
      /\ ToSet(Tail(q)) = ToSet(q) \ {Head(q)} /\ Head(q) \in ToSet(q) /\ Head(q) \in CallRecords
  BY HeadInToSet, ToSetOfTail
<1>2. PICK n \in Nat : n = Len(q) /\ n > 0 /\ DOMAIN q = 1 .. n /\ Head(q) = q[1]
  OBVIOUS
<1>3. DOMAIN Tail(q) = 1 .. n - 1 /\ \A i \in 1 .. n - 1 : Tail(q)[i] = q[i + 1] /\ i + 1 \in 1 .. n
  BY <1>2
<1>4. FirstCalls(Tail(q))
  <2> SUFFICES ASSUME NEW i \in 1 .. n - 1, NEW j \in 1 .. n - 1,
                      Tail(q)[i].op = "queueRequest", Tail(q)[j].frame = Tail(q)[i].frame
               PROVE  i <= j
    BY <1>3 DEF FirstCalls
  <2>1. i + 1 <= j + 1
    BY <1>2, <1>3 DEF FirstCalls
  <2>2. QED
    BY <1>2, <2>1
<1>5. ASSUME CallOf("queueRequest", Head(q).frame) \in ToSet(q) PROVE Head(q).op = "queueRequest"
  <2>1. PICK i \in 1 .. n : q[i] = CallOf("queueRequest", Head(q).frame)
    BY <1>2, <1>5 DEF ToSet
  <2>2. q[i].op = "queueRequest" /\ q[1].frame = q[i].frame
    BY <1>2, <2>1 DEF CallOf
  <2>3. 1 \in 1 .. n
    BY <1>2
  <2>4. i <= 1
    BY <1>2, <2>2, <2>3 DEF FirstCalls
  <2>5. i = 1
    BY <1>2, <2>4
  <2>6. QED
    BY <1>2, <2>2, <2>5
<1>6. QED
  BY <1>1, <1>4, <1>5

LEMMA CallPosted ==
    ASSUME NEW q \in Seq(CallRecords), IsInjective(q), FirstCalls(q), NEW c \in CallRecords, c \notin ToSet(q),
           c.op # "queueRequest" \/ \A x \in ToSet(q) : x.frame # c.frame
    PROVE  /\ Append(q, c) \in Seq(CallRecords) /\ IsInjective(Append(q, c)) /\ FirstCalls(Append(q, c))
           /\ ToSet(Append(q, c)) = ToSet(q) \cup {c}
<1>1. /\ Append(q, c) \in Seq(CallRecords) /\ IsInjective(Append(q, c))
      /\ ToSet(Append(q, c)) = ToSet(q) \cup {c}
  BY ToSetOfAppend, InjectiveAppend
<1>2. PICK n \in Nat : n = Len(q) /\ DOMAIN q = 1 .. n
  OBVIOUS
<1>3. PICK a : a = Append(q, c)
  OBVIOUS
<1>4. DOMAIN a = 1 .. n + 1 /\ a[n + 1] = c /\ \A i \in 1 .. n : a[i] = q[i]
  BY <1>2, <1>3
<1>5. FirstCalls(a)
  <2> SUFFICES ASSUME NEW i \in 1 .. n + 1, NEW j \in 1 .. n + 1,
                      a[i].op = "queueRequest", a[j].frame = a[i].frame
               PROVE  i <= j
    BY <1>4 DEF FirstCalls
  <2>1. CASE j = n + 1
    BY <1>2, <2>1
  <2>2. CASE i \in 1 .. n /\ j \in 1 .. n
    BY <1>2, <1>4, <2>2 DEF FirstCalls
  <2>3. CASE i = n + 1 /\ j \in 1 .. n
    <3>1. q[j] \in ToSet(q) /\ q[j].frame = c.frame /\ c.op = "queueRequest"
      BY <1>2, <1>4, <2>3 DEF ToSet
    <3>2. QED
      BY <3>1
  <2>4. QED
    BY <1>2, <2>1, <2>2, <2>3
<1>6. QED
  BY <1>1, <1>3, <1>5

\* A device returns its first buffer.
LEMMA BufferPopped ==
    ASSUME DevicesSound, NEW d \in Rk!Device, buffers[d] # <<>>, NEW new, new = Rk!Pop(d)
    PROVE  /\ DOMAIN new = Rk!Device /\ \A e \in Rk!Device : e # d => new[e] = buffers[e]
           /\ d \in Devices => new[d] \in Seq(DeviceBuffers)
           /\ d = "dewarp" => new[d] \in Seq(Request)
           /\ IsInjective(new[d])
           /\ ToSet(new[d]) = ToSet(buffers[d]) \ {Head(buffers[d])}
           /\ Head(buffers[d]) \in ToSet(buffers[d])
<1>1. /\ DOMAIN new = Rk!Device /\ new[d] = Tail(buffers[d])
      /\ \A e \in Rk!Device : e # d => new[e] = buffers[e]
  BY DEF DevicesSound, Rk!Pop
<1>2. IsInjective(buffers[d])
  BY DEF DevicesSound
<1>3. CASE d \in Devices
  <2>1. buffers[d] \in Seq(DeviceBuffers)
    BY <1>3 DEF DevicesSound
  <2>2. /\ new[d] \in Seq(DeviceBuffers) /\ IsInjective(new[d])
        /\ ToSet(new[d]) = ToSet(buffers[d]) \ {Head(buffers[d])} /\ Head(buffers[d]) \in ToSet(buffers[d])
    BY <1>1, <1>2, <2>1, HeadInToSet, ToSetOfTail
  <2>3. d # "dewarp"
    BY <1>3 DEF Devices
  <2>4. QED
    BY <1>1, <2>2, <2>3
<1>4. CASE d = "dewarp"
  <2>1. buffers[d] \in Seq(Request)
    BY <1>4 DEF DevicesSound
  <2>2. /\ new[d] \in Seq(Request) /\ IsInjective(new[d])
        /\ ToSet(new[d]) = ToSet(buffers[d]) \ {Head(buffers[d])} /\ Head(buffers[d]) \in ToSet(buffers[d])
    BY <1>1, <1>2, <2>1, HeadInToSet, ToSetOfTail
  <2>3. d \notin Devices
    BY <1>4 DEF Devices
  <2>4. QED
    BY <1>1, <2>2, <2>3
<1>5. QED
  BY <1>3, <1>4 DEF Rk!Device, Devices

\* Which kind of buffer is in which field of an entry.
Tags(d) ==
    CASE d = "param" -> {"param"}
      [] d = "stat" -> {"stat"}
      [] d = "main" -> {"main", "app main"}
      [] d = "self" -> {"app self"}

LEMMA TagOfBuffer ==
    ASSUME NEW x \in Entries, NEW d \in Devices, x[d] # Rk!None
    PROVE  x[d] \in DeviceBuffers /\ \E t \in Tags(d) : \E z : x[d] = <<t, z>>
<1>1. /\ x.param \in {Rk!None} \cup PoolBuffers("param") /\ x.stat \in {Rk!None} \cup PoolBuffers("stat")
      /\ x.main \in {Rk!None} \cup PoolBuffers("main") \cup AppBuffers("app main")
      /\ x.self \in {Rk!None} \cup AppBuffers("app self")
  BY DEF Entries
<1>2. CASE d = "param"
  BY <1>1, <1>2 DEF PoolBuffers, Tags, DeviceBuffers
<1>3. CASE d = "stat"
  BY <1>1, <1>3 DEF PoolBuffers, Tags, DeviceBuffers
<1>4. CASE d = "main"
  BY <1>1, <1>4 DEF PoolBuffers, AppBuffers, Tags, DeviceBuffers
<1>5. CASE d = "self"
  BY <1>1, <1>5 DEF AppBuffers, Tags, DeviceBuffers
<1>6. QED
  BY <1>2, <1>3, <1>4, <1>5 DEF Devices

\* find() finds the one frame that owns a buffer.
LEMMA OwnerFound ==
    ASSUME OrderInv, FrameInv, NEW d \in Devices, NEW b \in ToSet(buffers[d])
    PROVE  \E f \in DOMAIN frameInfo :
              /\ frameInfo[f][d] = b /\ Inside(frameInfo[f], d, InDevices)
              /\ Rk!FramesWith(b) # {} /\ Rk!First(Rk!FramesWith(b)) = f
<1>1. InDevices[d] = ToSet(buffers[d])
  BY DEF InDevices, Devices, Rk!Device
<1>2. PICK f \in DOMAIN frameInfo : frameInfo[f][d] = b /\ b # Rk!None
  BY <1>1 DEF FrameInv, EntriesSound, Owned
<1>3. \A g \in DOMAIN frameInfo : frameInfo[g] \in Entries
  BY DEF FrameInv, EntriesSound, Shaped
<1>4. ASSUME NEW g \in DOMAIN frameInfo, NEW k \in Devices, frameInfo[g][k] = b PROVE g = f
  <2>1. PICK t \in Tags(d) : \E z : b = <<t, z>>
    BY <1>2, <1>3, TagOfBuffer
  <2>2. PICK u \in Tags(k) : \E w : b = <<u, w>>
    BY <1>2, <1>3, <1>4, TagOfBuffer
  <2>3. t = u
    BY <2>1, <2>2
  <2>4. k = d
    <3>1. /\ Tags("param") = {"param"} /\ Tags("stat") = {"stat"}
          /\ Tags("main") = {"main", "app main"} /\ Tags("self") = {"app self"}
      BY DEF Tags
    <3>2. t \in Tags(d) /\ t \in Tags(k)
      BY <2>3
    <3>3. CASE d = "param"
      BY <3>1, <3>2, <3>3 DEF Devices
    <3>4. CASE d = "stat"
      BY <3>1, <3>2, <3>4 DEF Devices
    <3>5. CASE d = "main"
      BY <3>1, <3>2, <3>5 DEF Devices
    <3>6. CASE d = "self"
      BY <3>1, <3>2, <3>6 DEF Devices
    <3>7. QED
      BY <3>3, <3>4, <3>5, <3>6 DEF Devices
  <2>5. QED
    BY <1>2, <1>4, <2>4, FramesDistinct DEF Distinct
<1>5. Rk!FramesWith(b) = {f}
  BY <1>2, <1>4 DEF Rk!FramesWith, Devices
<1>6. Rk!First(Rk!FramesWith(b)) = f
  <2>1. Rk!FramesWith(b) \in SUBSET DOMAIN frameInfo /\ Rk!FramesWith(b) # {}
    BY <1>5
  <2>2. Rk!First(Rk!FramesWith(b)) \in Rk!FramesWith(b)
    BY <2>1, FirstFrame
  <2>3. QED
    BY <1>5, <2>2
<1>7. Inside(frameInfo[f], d, InDevices)
  BY <1>1, <1>2 DEF Inside
<1>8. QED
  BY <1>2, <1>5, <1>6, <1>7

\* A queue that must be empty stays empty.
StillEmpty ==
    /\ Stage \notin {"loop", "ipaStop"} => calls' = <<>>
    /\ Stage \notin {"loop", "ipaStop", "drain"} => events' = <<>>
    /\ \A d \in Emptied(Stage) : buffers'[d] = <<>>

\* The handler goes on, or calls completeRequest().
PlaceKept ==
    \/ pc \notin {"complete", "doQueue"} /\ pc' = "complete" /\ ret' = pc
    \/ UNCHANGED <<pc, ret>>

\* The parts of the invariant make the invariant of a handler's step.
LEMMA Assembled ==
    ASSUME OrderInv, FrameInv, CountersSound', frameNumber <= frameNumber',
           EntriesSound(mode, frameInfo', req', InDevices', ToSet(calls'), ToSet(events')),
           PoolsSound(active, mode, frameInfo', avail'),
           DOMAIN frameInfo' \subseteq DOMAIN frameInfo,
           CallsSound', DevicesSound', StillEmpty, PlaceKept,
           \A r \in ToSet(waiting) : req'[r].pending = req[r].pending,
           UNCHANGED <<mode, active, waiting>>
    PROVE  FrameInv'
<1>1. Stage' = Stage
  BY DEF Stage, PlaceKept
<1>2. pc \notin {"complete", "doQueue"} => pc \in Stages
  BY DEF FrameInv, PhasesSound
<1>3. PhasesSound'
  <2>1. PhasesSound
    BY DEF FrameInv
  <2>2. pc' \in Stages \cup {"complete", "doQueue"} /\ ret' \in Stages
    BY <1>2, <2>1 DEF PhasesSound, PlaceKept
  <2>3. /\ ~active => Stage' \in {"loop", "waiting"} /\ DOMAIN frameInfo' = {}
        /\ Stage' = "waiting" => ~active
        /\ waiting # <<>> => active /\ Stage' = "loop"
    BY <1>1, <2>1 DEF PhasesSound
  <2>4. \A d \in Emptied(Stage') : buffers'[d] = <<>>
    BY <1>1 DEF StillEmpty
  <2>5. \A r \in ToSet(waiting) : req'[r].pending \in (SUBSET Rk!Streams(mode)) \ {{}}
    BY <2>1 DEF PhasesSound
  <2>6. /\ Stage' \notin {"loop", "ipaStop"} => calls' = <<>>
        /\ Stage' \notin {"loop", "ipaStop", "drain"} => events' = <<>>
    BY <1>1 DEF StillEmpty
  <2>7. active \in BOOLEAN
    BY <2>1 DEF PhasesSound
  <2>8. QED
    BY <2>2, <2>3, <2>4, <2>5, <2>6, <2>7 DEF PhasesSound
<1>4. \A f \in DOMAIN frameInfo' : f < frameNumber'
  <2>1. \A f \in DOMAIN frameInfo : f < frameNumber /\ f \in Nat
    BY DEF FrameInv, OrderInv, FramesSound
  <2>2. frameNumber \in Nat /\ frameNumber' \in Nat
    BY DEF OrderInv, CountersSound
  <2>3. QED
    BY <2>1, <2>2
<1>5. QED
  BY <1>3, <1>4 DEF FrameInv

-----------------------------------------------------------------------------
(***************************************************************************)
(* What each step does to the frame it is about.                           *)
(***************************************************************************)

LEMMA NamesDiffer ==
    ASSUME NEW f
    PROVE  /\ \A a, b : a # b => CallOf(a, f) # CallOf(b, f)
           /\ \A a, b : a # b => EventOf(a, f) # EventOf(b, f)
<1>1. \A a : CallOf(a, f).op = a
  BY DEF CallOf
<1>2. \A a : EventOf(a, f).name = a
  BY DEF EventOf
<1>3. QED
  BY <1>1, <1>2

\* The sets of calls and events about frame f, by name.
LEMMA TokensChange ==
    ASSUME NEW f, NEW cs, NEW es
    PROVE  /\ \A a : \A b : a # b => (CallOf(b, f) \in cs \ {CallOf(a, f)} <=> CallOf(b, f) \in cs)
           /\ \A a : \A b : a # b => (CallOf(b, f) \in cs \cup {CallOf(a, f)} <=> CallOf(b, f) \in cs)
           /\ \A a : \A b : a # b => (EventOf(b, f) \in es \ {EventOf(a, f)} <=> EventOf(b, f) \in es)
           /\ \A a : \A b : a # b => (EventOf(b, f) \in es \cup {EventOf(a, f)} <=> EventOf(b, f) \in es)
  BY NamesDiffer

\* computeParams() answers with paramsComputed.
LEMMA SoundComputed ==
    ASSUME NEW m, NEW f, NEW x, NEW pend, NEW D, NEW cs, NEW es,
           FrameSound(m, f, x, pend, D, cs, es), CallOf("computeParams", f) \in cs,
           NEW cs2, cs2 = cs \ {CallOf("computeParams", f)}, NEW es2, es2 = es \cup {EventOf("paramsComputed", f)}
    PROVE  FrameSound(m, f, x, pend, D, cs2, es2) /\ EventOf("paramsComputed", f) \notin es
<1>1. /\ CallOf("queueRequest", f) \in cs2 <=> CallOf("queueRequest", f) \in cs
      /\ CallOf("processStats", f) \in cs2 <=> CallOf("processStats", f) \in cs
      /\ EventOf("metadataReady", f) \in es2 <=> EventOf("metadataReady", f) \in es
      /\ CallOf("computeParams", f) \notin cs2
  BY TokensChange
<1>2. Asked(f, cs, es) /\ StatsAsked(f, cs2, es2) = StatsAsked(f, cs, es)
  BY <1>1 DEF Asked, StatsAsked
<1>3. QED
  BY <1>1, <1>2 DEF FrameSound

\* processStats() answers with metadataReady.
LEMMA SoundProcessed ==
    ASSUME NEW m, NEW f, NEW x, NEW pend, NEW D, NEW cs, NEW es,
           FrameSound(m, f, x, pend, D, cs, es), CallOf("processStats", f) \in cs, CallOf("queueRequest", f) \notin cs,
           NEW cs2, cs2 = cs \ {CallOf("processStats", f)}, NEW es2, es2 = es \cup {EventOf("metadataReady", f)}
    PROVE  FrameSound(m, f, x, pend, D, cs2, es2) /\ EventOf("metadataReady", f) \notin es
<1>1. /\ CallOf("queueRequest", f) \notin cs2
      /\ CallOf("computeParams", f) \in cs2 <=> CallOf("computeParams", f) \in cs
      /\ EventOf("paramsComputed", f) \in es2 <=> EventOf("paramsComputed", f) \in es
      /\ CallOf("processStats", f) \notin cs2
  BY TokensChange
<1>2. StatsAsked(f, cs, es) /\ Asked(f, cs2, es2) = Asked(f, cs, es)
  BY <1>1 DEF Asked, StatsAsked
<1>3. QED
  BY <1>1, <1>2 DEF FrameSound

\* paramsComputed() queues the buffers of the frame.
LEMMA SoundQueued ==
    ASSUME NEW m, NEW f, NEW x, NEW pend, NEW D, NEW cs, NEW es,
           FrameSound(m, f, x, pend, D, cs, es), EventOf("paramsComputed", f) \in es,
           NEW es2, es2 = es \ {EventOf("paramsComputed", f)}, NEW D2, D2["dewarp"] = D["dewarp"]
    PROVE  FrameSound(m, f, x, pend, D2, cs, es2)
<1>1. EventOf("metadataReady", f) \in es2 <=> EventOf("metadataReady", f) \in es
  BY TokensChange
<1>2. Asked(f, cs, es) /\ StatsAsked(f, cs, es2) = StatsAsked(f, cs, es)
  BY <1>1 DEF Asked, StatsAsked
<1>3. ~Asked(f, cs, es2)
  BY DEF Asked, FrameSound
<1>4. QED
  BY <1>1, <1>2, <1>3 DEF FrameSound

\* metadataReady()
LEMMA SoundMetadata ==
    ASSUME NEW m, NEW f, NEW x, NEW pend, NEW D, NEW cs, NEW es,
           FrameSound(m, f, x, pend, D, cs, es), EventOf("metadataReady", f) \in es,
           NEW es2, es2 = es \ {EventOf("metadataReady", f)},
           NEW y, SameBuffers(y, x), y.paramDequeued = x.paramDequeued
    PROVE  FrameSound(m, f, y, pend, D, cs, es2)
<1>1. EventOf("paramsComputed", f) \in es2 <=> EventOf("paramsComputed", f) \in es
  BY TokensChange
<1>2. StatsAsked(f, cs, es) /\ Asked(f, cs, es2) = Asked(f, cs, es)
  BY <1>1 DEF Asked, StatsAsked
<1>3. ~StatsAsked(f, cs, es2) /\ ~Asked(f, cs, es) /\ CallOf("queueRequest", f) \notin cs
  BY <1>2 DEF StatsAsked, FrameSound
<1>4. /\ y.request = x.request /\ y.main = x.main /\ y.self = x.self
      /\ \A d \in Devices : Inside(y, d, D) = Inside(x, d, D)
  BY DEF SameBuffers, Inside, Devices
<1>5. /\ Inside(y, "param", D) = Inside(x, "param", D) /\ Inside(y, "stat", D) = Inside(x, "stat", D)
      /\ Inside(y, "main", D) = Inside(x, "main", D) /\ Inside(y, "self", D) = Inside(x, "self", D)
  BY <1>4 DEF Devices
<1>6. QED
  BY <1>1, <1>2, <1>3, <1>4, <1>5 DEF FrameSound

\* A buffer has left device d.
Left(D, D2, d, b) ==
    /\ d \in Devices /\ D2[d] = D[d] \ {b}
    /\ \A e \in Rk!Device : e # d => D2[e] = D[e]

AfterLeft(x, y, D, D2, d) ==
    /\ ~Inside(y, d, D2)
    /\ \A e \in Devices : e # d => Inside(y, e, D2) = Inside(x, e, D)
    /\ D2["dewarp"] = D["dewarp"] /\ y.request = x.request /\ y.main = x.main /\ y.self = x.self

LEMMA InsideAfter ==
    ASSUME NEW x, NEW y, SameBuffers(y, x), NEW D, NEW D2, NEW d, Left(D, D2, d, x[d])
    PROVE  AfterLeft(x, y, D, D2, d)
<1>1. d \in Devices /\ D2[d] = D[d] \ {x[d]} /\ \A e \in Rk!Device : e # d => D2[e] = D[e]
  BY DEF Left
<1>2. \A e \in Devices : e \in Rk!Device /\ y[e] = x[e] /\ e # "dewarp"
  BY DEF SameBuffers, Devices, Rk!Device
<1>3. QED
  BY <1>1, <1>2 DEF AfterLeft, Inside, SameBuffers, Devices, Rk!Device

LEMMA SoundParamDequeued ==
    ASSUME NEW m, NEW f, NEW x, NEW pend, NEW D, NEW cs, NEW es,
           FrameSound(m, f, x, pend, D, cs, es), Inside(x, "param", D),
           NEW D2, Left(D, D2, "param", x.param),
           NEW y, SameBuffers(y, x), y.metadataProcessed = x.metadataProcessed
    PROVE  FrameSound(m, f, y, pend, D2, cs, es)
<1>1. /\ ~Inside(y, "param", D2) /\ D2["dewarp"] = D["dewarp"]
      /\ y.request = x.request /\ y.main = x.main /\ y.self = x.self
      /\ Inside(y, "stat", D2) = Inside(x, "stat", D)
      /\ Inside(y, "main", D2) = Inside(x, "main", D) /\ Inside(y, "self", D2) = Inside(x, "self", D)
  <2>1. Left(D, D2, "param", x["param"])
    OBVIOUS
  <2>2. AfterLeft(x, y, D, D2, "param")
    BY <2>1, InsideAfter
  <2>3. QED
    BY <2>2 DEF AfterLeft, Devices
<1>2. ~Asked(f, cs, es)
  BY DEF FrameSound, Devices
<1>3. QED
  BY <1>1, <1>2 DEF FrameSound

\* statBufferReady(), with the statistics or without.
LEMMA SoundStatCancelled ==
    ASSUME NEW m, NEW f, NEW x, NEW pend, NEW D, NEW cs, NEW es,
           FrameSound(m, f, x, pend, D, cs, es), Inside(x, "stat", D), m # "raw", cs = {},
           NEW D2, Left(D, D2, "stat", x.stat),
           NEW y, SameBuffers(y, x), y.paramDequeued = x.paramDequeued
    PROVE  FrameSound(m, f, y, pend, D2, cs, es)
<1>1. /\ ~Inside(y, "stat", D2) /\ D2["dewarp"] = D["dewarp"]
      /\ y.request = x.request /\ y.main = x.main /\ y.self = x.self
      /\ Inside(y, "param", D2) = Inside(x, "param", D)
      /\ Inside(y, "main", D2) = Inside(x, "main", D) /\ Inside(y, "self", D2) = Inside(x, "self", D)
  <2>1. Left(D, D2, "stat", x["stat"])
    OBVIOUS
  <2>2. AfterLeft(x, y, D, D2, "stat")
    BY <2>1, InsideAfter
  <2>3. QED
    BY <2>2 DEF AfterLeft, Devices
<1>2. ~Asked(f, cs, es) /\ ~StatsAsked(f, cs, es)
  BY DEF FrameSound, Devices
<1>3. QED
  BY <1>1, <1>2 DEF FrameSound

LEMMA SoundStatDone ==
    ASSUME NEW m, NEW f, NEW x, NEW pend, NEW D, NEW cs, NEW es,
           FrameSound(m, f, x, pend, D, cs, es), Inside(x, "stat", D), m # "raw",
           NEW D2, Left(D, D2, "stat", x.stat), NEW cs2, cs2 = cs \cup {CallOf("processStats", f)}
    PROVE  FrameSound(m, f, x, pend, D2, cs2, es) /\ CallOf("processStats", f) \notin cs
<1>0. SameBuffers(x, x)
  BY DEF SameBuffers
<1>1. /\ ~Inside(x, "stat", D2) /\ D2["dewarp"] = D["dewarp"]
      /\ Inside(x, "param", D2) = Inside(x, "param", D)
      /\ Inside(x, "main", D2) = Inside(x, "main", D) /\ Inside(x, "self", D2) = Inside(x, "self", D)
  <2>1. Left(D, D2, "stat", x["stat"])
    OBVIOUS
  <2>2. AfterLeft(x, x, D, D2, "stat")
    BY <1>0, <2>1, InsideAfter
  <2>3. QED
    BY <2>2 DEF AfterLeft, Devices
<1>2. /\ CallOf("queueRequest", f) \in cs2 <=> CallOf("queueRequest", f) \in cs
      /\ CallOf("computeParams", f) \in cs2 <=> CallOf("computeParams", f) \in cs
  BY TokensChange
<1>3. ~Asked(f, cs, es) /\ ~StatsAsked(f, cs, es) /\ ~x.metadataProcessed
  BY DEF FrameSound, Devices
<1>4. ~Asked(f, cs2, es) /\ EventOf("metadataReady", f) \notin es /\ CallOf("processStats", f) \notin cs
  BY <1>2, <1>3 DEF Asked, StatsAsked
<1>5. QED
  BY <1>1, <1>2, <1>3, <1>4 DEF FrameSound

\* imageBufferReady(): of a stream that is not raw, of a raw one that succeeded, and
\* of a raw one that was cancelled.
LEMMA SoundImage ==
    ASSUME NEW m, NEW f, NEW x, NEW pend, NEW D, NEW cs, NEW es,
           FrameSound(m, f, x, pend, D, cs, es), NEW s \in {"main", "self"}, Inside(x, s, D),
           NEW D2, Left(D, D2, s, x[s]),
           NEW y, SameBuffers(y, x), y.paramDequeued = x.paramDequeued, y.metadataProcessed = x.metadataProcessed
    PROVE  FrameSound(m, f, y, pend \ {s}, D2, cs, es)
<1>1. /\ ~Inside(y, s, D2) /\ D2["dewarp"] = D["dewarp"]
      /\ y.request = x.request /\ y.main = x.main /\ y.self = x.self
      /\ \A e \in Devices : Inside(y, e, D2) => Inside(x, e, D)
      /\ \A e \in Devices : e # s => Inside(y, e, D2) = Inside(x, e, D)
  <2>1. AfterLeft(x, y, D, D2, s)
    BY InsideAfter
  <2>2. \A e \in Devices : Inside(y, e, D2) => Inside(x, e, D)
    BY <2>1 DEF AfterLeft
  <2>3. QED
    BY <2>1, <2>2 DEF AfterLeft
<1>2. /\ Inside(y, "stat", D2) = Inside(x, "stat", D) /\ Inside(y, "param", D2) = Inside(x, "param", D)
      /\ Inside(y, "main", D2) => Inside(x, "main", D)
      /\ Inside(y, "self", D2) => Inside(x, "self", D)
  BY <1>1 DEF Devices
<1>3. ~Asked(f, cs, es)
  BY DEF FrameSound, Devices
<1>4. x.main # Rk!None /\ "main" \notin pend \ {s} => ~Inside(y, "main", D2) /\ x.request \notin D["dewarp"]
  BY <1>1, <1>2 DEF FrameSound
<1>5. x.self # Rk!None /\ "self" \notin pend \ {s} => ~Inside(y, "self", D2)
  BY <1>1, <1>2 DEF FrameSound
<1>6. QED
  BY <1>1, <1>2, <1>3, <1>4, <1>5 DEF FrameSound

LEMMA SoundRawDone ==
    ASSUME NEW f, NEW x, NEW pend, NEW D, NEW cs, NEW es,
           FrameSound("raw", f, x, pend, D, cs, es), Inside(x, "main", D), x.stat = Rk!None,
           NEW D2, Left(D, D2, "main", x.main), NEW cs2, cs2 = cs \cup {CallOf("processStats", f)},
           NEW y, SameBuffers(y, x), y.paramDequeued = x.paramDequeued, y.metadataProcessed = x.metadataProcessed
    PROVE  FrameSound("raw", f, y, pend \ {"main"}, D2, cs2, es) /\ CallOf("processStats", f) \notin cs
<1>1. FrameSound("raw", f, y, pend \ {"main"}, D2, cs, es)
  <2>1. Inside(x, "main", D) /\ Left(D, D2, "main", x["main"])
    OBVIOUS
  <2>2. QED
    BY <2>1, SoundImage
<1>2. ~Asked(f, cs, es) /\ ~StatsAsked(f, cs, es) /\ ~y.metadataProcessed
  BY DEF FrameSound, Devices
<1>3. /\ CallOf("queueRequest", f) \in cs2 <=> CallOf("queueRequest", f) \in cs
      /\ CallOf("computeParams", f) \in cs2 <=> CallOf("computeParams", f) \in cs
  BY TokensChange
<1>4. ~Asked(f, cs2, es) /\ EventOf("metadataReady", f) \notin es /\ CallOf("processStats", f) \notin cs
  BY <1>2, <1>3 DEF Asked, StatsAsked
<1>5. ~Inside(y, "main", D2) /\ ~Inside(y, "stat", D2)
  <2>0. Left(D, D2, "main", x["main"])
    OBVIOUS
  <2>1. ~Inside(y, "main", D2)
    BY <2>0, InsideAfter DEF AfterLeft
  <2>2. y.stat = Rk!None
    BY DEF SameBuffers, Devices
  <2>3. QED
    BY <2>1, <2>2 DEF Inside
<1>6. QED
  BY <1>1, <1>2, <1>3, <1>4, <1>5 DEF FrameSound

LEMMA SoundRawCancelled ==
    ASSUME NEW f, NEW x, NEW pend, NEW D, NEW cs, NEW es,
           FrameSound("raw", f, x, pend, D, cs, es), Inside(x, "main", D), x.stat = Rk!None, cs = {},
           NEW D2, Left(D, D2, "main", x.main),
           NEW y, SameBuffers(y, x), y.paramDequeued = x.paramDequeued
    PROVE  FrameSound("raw", f, y, pend \ {"main"}, D2, cs, es)
<1>1. /\ ~Inside(y, "main", D2) /\ D2["dewarp"] = D["dewarp"]
      /\ y.request = x.request /\ y.main = x.main /\ y.self = x.self
      /\ Inside(y, "param", D2) = Inside(x, "param", D) /\ Inside(y, "self", D2) = Inside(x, "self", D)
  <2>1. Left(D, D2, "main", x["main"])
    OBVIOUS
  <2>2. AfterLeft(x, y, D, D2, "main")
    BY <2>1, InsideAfter
  <2>3. QED
    BY <2>2 DEF AfterLeft, Devices
<1>2. ~Asked(f, cs, es) /\ ~StatsAsked(f, cs, es) /\ x.request \notin D["dewarp"]
  BY DEF FrameSound, Devices
<1>3. ~Inside(y, "stat", D2)
  BY DEF Inside, SameBuffers, Devices
<1>4. "self" \notin pend \ {"main"} => "self" \notin pend
  OBVIOUS
<1>5. QED
  BY <1>1, <1>2, <1>3, <1>4 DEF FrameSound

\* The dewarper takes the buffer of the main path, and returns the request.
LEMMA SoundDewarpInput ==
    ASSUME NEW f, NEW x, NEW pend, NEW D, NEW cs, NEW es,
           FrameSound("dewarp", f, x, pend, D, cs, es), Inside(x, "main", D),
           NEW D2, D2["main"] = D["main"] \ {x.main}, \A e \in {"self", "stat", "param"} : D2[e] = D[e]
    PROVE  FrameSound("dewarp", f, x, pend, D2, cs, es)
<1>1. /\ ~Inside(x, "main", D2)
      /\ Inside(x, "param", D2) = Inside(x, "param", D)
      /\ Inside(x, "stat", D2) = Inside(x, "stat", D) /\ Inside(x, "self", D2) = Inside(x, "self", D)
  BY DEF Inside
<1>2. ~Asked(f, cs, es) /\ "main" \in pend
  BY DEF FrameSound, Devices, Inside
<1>3. QED
  BY <1>1, <1>2 DEF FrameSound

LEMMA SoundDewarpOutput ==
    ASSUME NEW m, NEW f, NEW x, NEW pend, NEW D, NEW cs, NEW es,
           FrameSound(m, f, x, pend, D, cs, es), x.request \in D["dewarp"],
           NEW D2, D2["dewarp"] = D["dewarp"] \ {x.request}, \A e \in Devices : D2[e] = D[e]
    PROVE  FrameSound(m, f, x, pend \ {"main"}, D2, cs, es)
<1>1. /\ Inside(x, "main", D2) = Inside(x, "main", D) /\ Inside(x, "param", D2) = Inside(x, "param", D)
      /\ Inside(x, "stat", D2) = Inside(x, "stat", D) /\ Inside(x, "self", D2) = Inside(x, "self", D)
  BY DEF Inside, Devices
<1>2. ~Asked(f, cs, es) /\ ~Inside(x, "main", D) /\ x.request \notin D2["dewarp"]
  BY DEF FrameSound
<1>3. "self" \notin pend \ {"main"} => "self" \notin pend
  OBVIOUS
<1>4. QED
  BY <1>1, <1>2, <1>3 DEF FrameSound

-----------------------------------------------------------------------------
(***************************************************************************)
(* One lemma per action.                                                   *)
(***************************************************************************)

\* The members of the queues.
LEMMA QueueMembers ==
    ASSUME FrameInv
    PROVE  /\ ToSet(calls) \subseteq CallRecords /\ ToSet(events) \subseteq EventRecords
           /\ \A d \in Rk!Device : InDevices[d] = ToSet(buffers[d])
           /\ \A c \in ToSet(calls) : c.frame \in DOMAIN frameInfo
           /\ \A e \in ToSet(events) : e.frame \in DOMAIN frameInfo
<1>1. ToSet(calls) \subseteq CallRecords /\ ToSet(events) \subseteq EventRecords
  BY DEF FrameInv, CallsSound, ToSet
<1>2. \A d \in Rk!Device : InDevices[d] = ToSet(buffers[d])
  BY DEF InDevices
<1>3. QED
  BY <1>1, <1>2 DEF FrameInv, EntriesSound, Owned

LEMMA EntryOf ==
    ASSUME FrameInv, NEW f \in DOMAIN frameInfo
    PROVE  /\ Shaped(mode, frameInfo[f]) /\ frameInfo[f] \in Entries
           /\ FrameSound(mode, f, frameInfo[f], req[frameInfo[f].request].pending, InDevices, ToSet(calls), ToSet(events))
  BY DEF FrameInv, EntriesSound, Shaped

\* A step that leaves the entry of its frame alone.
LEMMA EntryUntouched ==
    ASSUME OrderInv, FrameInv, NEW f \in DOMAIN frameInfo, NEW D, NEW cs, NEW es,
           NewOf(f, frameInfo[f], InDevices, ToSet(calls), ToSet(events), D, cs, es),
           FrameSound(mode, f, frameInfo[f], req[frameInfo[f].request].pending, D, cs, es)
    PROVE  EntriesSound(mode, frameInfo, req, D, cs, es)
<1>1. EntriesSound(mode, frameInfo, req, InDevices, ToSet(calls), ToSet(events)) /\ Shaped(mode, frameInfo[f])
  BY EntryOf DEF FrameInv
<1>2. SameBuffers(frameInfo[f], frameInfo[f])
  BY DEF SameBuffers
<1>3. QED
  BY <1>1, <1>2, FramesDistinct, OneFrameChanges

\* A step that only takes something out of a queue.
Fewer(D, cs, es, D2, cs2, es2) == cs2 \subseteq cs /\ es2 \subseteq es /\ \A d \in Rk!Device : D2[d] \subseteq D[d]

LEMMA FewerIsSound ==
    ASSUME NEW m, NEW fi, NEW rq, NEW D, NEW cs, NEW es, NEW D2, NEW cs2, NEW es2,
           EntriesSound(m, fi, rq, D, cs, es), Fewer(D, cs, es, D2, cs2, es2)
    PROVE  EntriesSound(m, fi, rq, D2, cs2, es2)
<1>1. \A d \in Devices : d \in Rk!Device /\ D2[d] \subseteq D[d]
  BY DEF Fewer, Devices, Rk!Device
<1>2. D2["dewarp"] \subseteq D["dewarp"]
  BY DEF Fewer, Rk!Device
<1>3. ASSUME NEW f \in DOMAIN fi PROVE FrameSound(m, f, fi[f], rq[fi[f].request].pending, D2, cs2, es2)
  <2>1. NothingNew(f, fi[f], D, cs, es, D2, cs2, es2)
    BY <1>1, <1>2 DEF Fewer, NothingNew, Inside
  <2>2. FrameSound(m, f, fi[f], rq[fi[f].request].pending, D, cs, es)
    BY DEF EntriesSound
  <2>3. QED
    BY <2>1, <2>2, LessIsSound
<1>4. Owned(fi, D2, cs2, es2)
  BY <1>1, <1>2 DEF EntriesSound, Owned, Fewer
<1>5. QED
  BY <1>3, <1>4 DEF EntriesSound

\* An event taken, and posted.
LEMMA EventTaken ==
    ASSUME FrameInv, events # <<>>
    PROVE  /\ Head(events) \in ToSet(events) /\ Head(events) \in EventRecords
           /\ Tail(events) \in Seq(EventRecords) /\ IsInjective(Tail(events))
           /\ ToSet(Tail(events)) = ToSet(events) \ {Head(events)}
  BY HeadInToSet, ToSetOfTail DEF FrameInv, CallsSound

LEMMA EventPosted ==
    ASSUME FrameInv, NEW e \in EventRecords, e \notin ToSet(events)
    PROVE  /\ Append(events, e) \in Seq(EventRecords) /\ IsInjective(Append(events, e))
           /\ ToSet(Append(events, e)) = ToSet(events) \cup {e}
  BY ToSetOfAppend, InjectiveAppend DEF FrameInv, CallsSound

\* IPARkISP1::computeParams() and processStats() answer.
Answered(op, name) ==
    \E f \in Nat :
        /\ Head(calls) = CallOf(op, f)
        /\ events' = Append(events, EventOf(name, f))

LEMMA IpaThreadEffect ==
    ASSUME FrameInv, Rk!IpaThread
    PROVE  /\ calls # <<>> /\ calls' = Tail(calls)
           /\ UNCHANGED <<mode, active, pc, ret, waiting, frameInfo, avail, req, frameNumber, buffers>>
           /\ \/ events' = events
              \/ Answered("computeParams", "paramsComputed")
              \/ Answered("processStats", "metadataReady")
<1>1. /\ calls # <<>> /\ calls' = Tail(calls)
      /\ UNCHANGED <<mode, active, pc, ret, waiting, frameInfo, avail, req, frameNumber, buffers>>
  BY DEF Rk!IpaThread, Rk!queueVars, Rk!frameVars
<1>2. Head(calls) \in CallRecords
  BY <1>1, HeadInToSet DEF FrameInv, CallsSound
<1>3. PICK f \in Nat, op \in {"queueRequest", "computeParams", "processStats"} : Head(calls) = CallOf(op, f)
  <2>1. Head(calls) = CallOf(Head(calls).op, Head(calls).frame)
    BY <1>2 DEF CallRecords, CallOf
  <2>2. Head(calls).op \in {"queueRequest", "computeParams", "processStats"} /\ Head(calls).frame \in Nat
    BY <1>2 DEF CallRecords
  <2>3. QED
    BY <2>1, <2>2
<1>4. Head(calls).op = op /\ Head(calls).frame = f
  BY <1>3 DEF CallOf
<1>5. \/ events' = events
      \/ /\ op # "queueRequest"
         /\ events' = Append(events, EventOf(IF op = "computeParams" THEN "paramsComputed" ELSE "metadataReady", f))
  BY <1>4 DEF Rk!IpaThread, EventOf
<1>6. CASE events' = events
  BY <1>1, <1>6
<1>7. CASE op = "computeParams" /\ events' = Append(events, EventOf("paramsComputed", f))
  BY <1>1, <1>3, <1>7 DEF Answered
<1>8. CASE op = "processStats" /\ events' = Append(events, EventOf("metadataReady", f))
  BY <1>1, <1>3, <1>8 DEF Answered
<1>9. QED
  BY <1>5, <1>6, <1>7, <1>8

LEMMA IpaThreadFrame ==
    ASSUME OrderInv, OrderInv', FrameInv, Rk!IpaThread
    PROVE  FrameInv'
<1>1. /\ calls # <<>> /\ calls' = Tail(calls)
      /\ UNCHANGED <<mode, active, pc, ret, waiting, frameInfo, avail, req, frameNumber, buffers>>
      /\ \/ events' = events
         \/ Answered("computeParams", "paramsComputed")
         \/ Answered("processStats", "metadataReady")
  BY IpaThreadEffect
<1>2. PICK c : c = Head(calls)
  OBVIOUS
<1>3. /\ calls' \in Seq(CallRecords) /\ IsInjective(calls') /\ FirstCalls(calls')
      /\ ToSet(calls') = ToSet(calls) \ {c} /\ c \in ToSet(calls)
      /\ c.op # "queueRequest" => CallOf("queueRequest", c.frame) \notin ToSet(calls)
  BY <1>1, <1>2, CallTaken DEF FrameInv, CallsSound
<1>4. InDevices' = InDevices /\ DevicesSound'
  BY <1>1 DEF InDevices, FrameInv, DevicesSound
<1>5. PoolsSound(active, mode, frameInfo', avail')
  BY <1>1 DEF FrameInv
<1>6. frameNumber <= frameNumber' /\ CountersSound'
  BY <1>1 DEF OrderInv, CountersSound
<1>7. StillEmpty
  <2>1. Stage \in {"loop", "ipaStop"}
    BY <1>1 DEF FrameInv, PhasesSound
  <2>2. QED
    BY <1>1, <2>1 DEF StillEmpty, FrameInv, PhasesSound
<1>8. ASSUME CallsSound', EntriesSound(mode, frameInfo, req, InDevices, ToSet(calls'), ToSet(events'))
      PROVE  FrameInv'
  <2>1. EntriesSound(mode, frameInfo', req', InDevices', ToSet(calls'), ToSet(events'))
    BY <1>1, <1>4, <1>8
  <2>2. PlaceKept
    BY <1>1 DEF PlaceKept
  <2>3. QED
    BY <1>1, <1>4, <1>5, <1>6, <1>7, <1>8, <2>1, <2>2, Assembled
<1>9. CASE events' = events
  <2>1. CallsSound'
    BY <1>3, <1>9 DEF CallsSound, FrameInv
  <2>2. PICK cs, es : cs = ToSet(calls') /\ es = ToSet(events')
    OBVIOUS
  <2>3. Fewer(InDevices, ToSet(calls), ToSet(events), InDevices, cs, es)
    BY <1>3, <1>9, <2>2 DEF Fewer
  <2>4. EntriesSound(mode, frameInfo, req, InDevices, cs, es)
    BY <2>3, FewerIsSound DEF FrameInv
  <2>5. QED
    BY <1>8, <2>1, <2>2, <2>4
<1>10. CASE Answered("computeParams", "paramsComputed")
  <2>1. PICK f \in Nat : c = CallOf("computeParams", f) /\ events' = Append(events, EventOf("paramsComputed", f))
    BY <1>2, <1>10 DEF Answered
  <2>2. c.frame = f /\ EventOf("paramsComputed", f).frame = f /\ EventOf("paramsComputed", f) \in EventRecords
    BY <2>1 DEF CallOf, EventOf, EventRecords
  <2>3. f \in DOMAIN frameInfo
    BY <1>3, <2>2, QueueMembers
  <2>4. PICK cs, es : cs = ToSet(calls) \ {CallOf("computeParams", f)} /\ es = ToSet(events) \cup {EventOf("paramsComputed", f)}
    OBVIOUS
  <2>5. /\ FrameSound(mode, f, frameInfo[f], req[frameInfo[f].request].pending, InDevices, cs, es)
        /\ EventOf("paramsComputed", f) \notin ToSet(events)
    BY <1>3, <2>1, <2>3, <2>4, EntryOf, SoundComputed
  <2>6. ToSet(events') = es /\ events' \in Seq(EventRecords) /\ IsInjective(events')
    BY <2>1, <2>2, <2>4, <2>5, EventPosted
  <2>7. NewOf(f, frameInfo[f], InDevices, ToSet(calls), ToSet(events), InDevices, cs, es)
    BY <2>2, <2>4 DEF NewOf
  <2>8. EntriesSound(mode, frameInfo, req, InDevices, cs, es)
    BY <2>3, <2>5, <2>7, EntryUntouched
  <2>9. CallsSound' /\ ToSet(calls') = cs
    BY <1>3, <2>1, <2>4, <2>6 DEF CallsSound
  <2>10. QED
    BY <1>8, <2>6, <2>8, <2>9
<1>11. CASE Answered("processStats", "metadataReady")
  <2>1. PICK f \in Nat : c = CallOf("processStats", f) /\ events' = Append(events, EventOf("metadataReady", f))
    BY <1>2, <1>11 DEF Answered
  <2>2. /\ c.frame = f /\ c.op = "processStats" /\ EventOf("metadataReady", f).frame = f
        /\ EventOf("metadataReady", f) \in EventRecords
    BY <2>1 DEF CallOf, EventOf, EventRecords
  <2>3. f \in DOMAIN frameInfo /\ CallOf("queueRequest", f) \notin ToSet(calls)
    BY <1>3, <2>2, QueueMembers
  <2>4. PICK cs, es : cs = ToSet(calls) \ {CallOf("processStats", f)} /\ es = ToSet(events) \cup {EventOf("metadataReady", f)}
    OBVIOUS
  <2>5. /\ FrameSound(mode, f, frameInfo[f], req[frameInfo[f].request].pending, InDevices, cs, es)
        /\ EventOf("metadataReady", f) \notin ToSet(events)
    BY <1>3, <2>1, <2>3, <2>4, EntryOf, SoundProcessed
  <2>6. ToSet(events') = es /\ events' \in Seq(EventRecords) /\ IsInjective(events')
    BY <2>1, <2>2, <2>4, <2>5, EventPosted
  <2>7. NewOf(f, frameInfo[f], InDevices, ToSet(calls), ToSet(events), InDevices, cs, es)
    BY <2>2, <2>4 DEF NewOf
  <2>8. EntriesSound(mode, frameInfo, req, InDevices, cs, es)
    BY <2>3, <2>5, <2>7, EntryUntouched
  <2>9. CallsSound' /\ ToSet(calls') = cs
    BY <1>3, <2>1, <2>4, <2>6 DEF CallsSound
  <2>10. QED
    BY <1>8, <2>6, <2>8, <2>9
<1>12. QED
  BY <1>1, <1>9, <1>10, <1>11

\* A handler that ends with tryCompleteRequest() keeps the invariant.
LEMMA TryAssembled ==
    ASSUME RkConstants, OrderInv, FrameInv, NEW f \in DOMAIN frameInfo, NEW info, NEW q,
           Rk!tryCompleteRequest(f, info, q),
           SameBuffers(info, frameInfo[f]), Shaped(mode, info), q \in [Request -> RequestState],
           \A r \in Request : r # frameInfo[f].request => q[r] = req[r],
           NewOf(f, frameInfo[f], InDevices, ToSet(calls), ToSet(events), InDevices', ToSet(calls'), ToSet(events')),
           FrameSound(mode, f, info, q[frameInfo[f].request].pending, InDevices', ToSet(calls'), ToSet(events')),
           CallsSound', DevicesSound', StillEmpty, CountersSound', frameNumber <= frameNumber',
           pc \notin {"complete", "doQueue"}, UNCHANGED <<mode, active, waiting>>
    PROVE  FrameInv'
<1>1. PICK D, cs, es : D = InDevices' /\ cs = ToSet(calls') /\ es = ToSet(events')
  OBVIOUS
<1>2. cs \in SUBSET CallRecords /\ es \in SUBSET EventRecords
  BY <1>1 DEF CallsSound, ToSet
<1>3. ASSUME NEW g \in DOMAIN frameInfo, g # f
      PROVE  q[frameInfo[g].request].pending = req[frameInfo[g].request].pending
  <2>1. frameInfo[g].request \in Request /\ frameInfo[g].request # frameInfo[f].request
    BY <1>3, EntryRequest DEF OrderInv, FramesSound
  <2>2. QED
    BY <2>1
<1>4. /\ NewOf(f, frameInfo[f], InDevices, ToSet(calls), ToSet(events), D, cs, es)
      /\ FrameSound(mode, f, info, q[frameInfo[f].request].pending, D, cs, es)
  BY <1>1
<1>5. /\ EntriesSound(mode, frameInfo', req', D, cs, es)
      /\ PoolsSound(active, mode, frameInfo', avail')
      /\ DOMAIN frameInfo' \subseteq DOMAIN frameInfo
      /\ (pc' = "complete" /\ ret' = pc) \/ UNCHANGED <<pc, ret>>
      /\ \A r \in Request : req'[r].pending = q[r].pending
  <2>1. OthersKeep(f, q)
    BY <1>3 DEF OthersKeep
  <2>2. Tried(q, D, cs, es)
    BY <1>2, <1>4, <2>1, TryFrame
  <2>3. QED
    BY <2>2 DEF Tried
<1>6. PlaceKept
  BY <1>5 DEF PlaceKept
<1>7. ASSUME NEW r \in ToSet(waiting) PROVE req'[r].pending = req[r].pending
  <2>0. ToSet(waiting) \subseteq Request
    BY DEF OrderInv, QueuesSound, ToSet
  <2>1. r \in Request /\ r # frameInfo[f].request
    BY <2>0, EntryRequest
  <2>2. QED
    BY <1>5, <2>1
<1>8. EntriesSound(mode, frameInfo', req', InDevices', ToSet(calls'), ToSet(events'))
  BY <1>1, <1>5
<1>9. QED
  BY <1>5, <1>6, <1>7, <1>8, Assembled

\* The entry of a frame with a flag set.
LEMMA FlagSet ==
    ASSUME FrameInv, NEW f \in DOMAIN frameInfo, NEW v \in BOOLEAN
    PROVE  /\ \E y : /\ y = [frameInfo[f] EXCEPT !.metadataProcessed = v]
                     /\ SameBuffers(y, frameInfo[f]) /\ Shaped(mode, y)
                     /\ y.paramDequeued = frameInfo[f].paramDequeued /\ y.metadataProcessed = v
           /\ \E y : /\ y = [frameInfo[f] EXCEPT !.paramDequeued = v]
                     /\ SameBuffers(y, frameInfo[f]) /\ Shaped(mode, y)
                     /\ y.metadataProcessed = frameInfo[f].metadataProcessed /\ y.paramDequeued = v
<1>1. PICK x \in Entries : x = frameInfo[f] /\ Shaped(mode, x)
  BY EntryOf
<1>2. PICK y : y = [x EXCEPT !.metadataProcessed = v]
  OBVIOUS
<1>3. /\ y \in Entries /\ y.request = x.request /\ y.param = x.param /\ y.stat = x.stat
      /\ y.main = x.main /\ y.self = x.self /\ y.paramDequeued = x.paramDequeued /\ y.metadataProcessed = v
  BY <1>2 DEF Entries
<1>4. SameBuffers(y, x) /\ Shaped(mode, y)
  BY <1>1, <1>3 DEF SameBuffers, Shaped, Devices
<1>5. PICK z : z = [x EXCEPT !.paramDequeued = v]
  OBVIOUS
<1>6. /\ z \in Entries /\ z.request = x.request /\ z.param = x.param /\ z.stat = x.stat
      /\ z.main = x.main /\ z.self = x.self /\ z.metadataProcessed = x.metadataProcessed /\ z.paramDequeued = v
  BY <1>5 DEF Entries
<1>7. SameBuffers(z, x) /\ Shaped(mode, z)
  BY <1>1, <1>6 DEF SameBuffers, Shaped, Devices
<1>8. QED
  BY <1>1, <1>2, <1>3, <1>4, <1>5, <1>6, <1>7

\* The buffers that paramsComputed() queues were in no device.
LEMMA BuffersQueued ==
    ASSUME FrameInv, NEW f \in DOMAIN frameInfo, EventOf("paramsComputed", f) \in ToSet(events),
           NEW refusing, buffers' = Rk!QueueBuffers(frameInfo[f], refusing)
    PROVE  /\ DevicesSound' /\ InDevices'["dewarp"] = InDevices["dewarp"]
           /\ \A d \in Devices : \A b \in InDevices'[d] :
                  b \in InDevices[d] \/ (b # Rk!None /\ b = frameInfo[f][d])
<1>1. /\ DOMAIN buffers' = Rk!Device /\ buffers'["dewarp"] = buffers["dewarp"]
      /\ \A d \in Devices : \/ buffers'[d] = buffers[d]
                            \/ frameInfo[f][d] # Rk!None /\ buffers'[d] = Append(buffers[d], frameInfo[f][d])
  BY DEF Rk!QueueBuffers, Devices, Rk!Device
<1>2. ASSUME NEW d \in Devices
      PROVE  /\ buffers'[d] \in Seq(DeviceBuffers) /\ IsInjective(buffers'[d])
             /\ \A b \in ToSet(buffers'[d]) : b \in ToSet(buffers[d]) \/ (b # Rk!None /\ b = frameInfo[f][d])
  <2>1. buffers[d] \in Seq(DeviceBuffers) /\ IsInjective(buffers[d]) /\ InDevices[d] = ToSet(buffers[d])
    BY QueueMembers DEF FrameInv, DevicesSound, Devices, Rk!Device
  <2>2. CASE buffers'[d] = buffers[d]
    BY <2>1, <2>2
  <2>3. CASE frameInfo[f][d] # Rk!None /\ buffers'[d] = Append(buffers[d], frameInfo[f][d])
    <3>1. PICK b \in DeviceBuffers : b = frameInfo[f][d]
      BY <2>3, EntryOf, TagOfBuffer
    <3>2. Asked(f, ToSet(calls), ToSet(events))
      BY DEF Asked
    <3>3. ~Inside(frameInfo[f], d, InDevices)
      BY <3>2, EntryOf DEF FrameSound
    <3>4. b \notin ToSet(buffers[d])
      BY <2>1, <2>3, <3>1, <3>3 DEF Inside
    <3>5. PICK q \in Seq(DeviceBuffers) : q = buffers[d] /\ IsInjective(q)
      BY <2>1
    <3>6. ToSet(Append(q, b)) = ToSet(q) \cup {b} /\ IsInjective(Append(q, b)) /\ Append(q, b) \in Seq(DeviceBuffers)
      BY <3>4, <3>5, ToSetOfAppend, InjectiveAppend
    <3>7. buffers'[d] = Append(q, b)
      BY <2>3, <3>1, <3>5
    <3>8. QED
      BY <2>3, <3>1, <3>5, <3>6, <3>7
  <2>4. QED
    BY <1>1, <2>2, <2>3
<1>3. DevicesSound'
  <2>1. IsInjective(buffers["dewarp"]) /\ buffers["dewarp"] \in Seq(Request)
    BY DEF FrameInv, DevicesSound, Rk!Device
  <2>2. \A d \in Rk!Device : d \in Devices \/ d = "dewarp"
    BY DEF Rk!Device, Devices
  <2>3. QED
    BY <1>1, <1>2, <2>1, <2>2 DEF DevicesSound
<1>4. \A d \in Rk!Device : InDevices'[d] = ToSet(buffers'[d]) /\ InDevices[d] = ToSet(buffers[d])
  BY DEF InDevices
<1>5. "dewarp" \in Rk!Device /\ \A d \in Devices : d \in Rk!Device
  BY DEF Rk!Device, Devices
<1>6. QED
  BY <1>1, <1>2, <1>3, <1>4, <1>5

LEMMA IpaEventEffect ==
    ASSUME FrameInv, Rk!IpaEvent
    PROVE  /\ pc \in {"loop", "drain"} /\ events # <<>> /\ events' = Tail(events)
           /\ UNCHANGED <<mode, active, waiting, frameNumber, calls>>
           /\ \E f \in DOMAIN frameInfo :
                \/ UNCHANGED <<frameInfo, avail, req, pc, ret, buffers>>
                \/ /\ Head(events) = EventOf("paramsComputed", f) /\ \E refusing : buffers' = Rk!QueueBuffers(frameInfo[f], refusing)
                   /\ UNCHANGED <<frameInfo, avail, req, pc, ret>>
                \/ /\ Head(events) = EventOf("metadataReady", f) /\ buffers' = buffers
                   /\ Rk!tryCompleteRequest(f, [frameInfo[f] EXCEPT !.metadataProcessed = TRUE], req)
<1>1. /\ pc \in {"loop", "drain"} /\ events # <<>> /\ events' = Tail(events)
      /\ UNCHANGED <<mode, active, waiting, frameNumber, calls>>
  BY DEF Rk!IpaEvent, Rk!queueVars
<1>2. Head(events) \in ToSet(events) /\ Head(events) \in EventRecords
  BY <1>1, EventTaken
<1>3. PICK f \in DOMAIN frameInfo : f = Head(events).frame
  BY <1>2, QueueMembers
<1>4. /\ Head(events) = EventOf(Head(events).name, f)
      /\ Head(events).name \in {"paramsComputed", "metadataReady"}
  BY <1>2, <1>3 DEF EventRecords, EventOf
<1>5. \/ UNCHANGED <<frameInfo, avail, req, pc, ret, buffers>>
      \/ Head(events).name = "paramsComputed" /\ Rk!paramsComputed(f)
      \/ Head(events).name # "paramsComputed" /\ Rk!metadataReady(f)
  BY <1>3 DEF Rk!IpaEvent, Rk!frameVars
<1>6. CASE UNCHANGED <<frameInfo, avail, req, pc, ret, buffers>>
  BY <1>1, <1>6, <1>3
<1>7. CASE Head(events).name = "paramsComputed" /\ Rk!paramsComputed(f)
  <2>1. UNCHANGED <<frameInfo, avail, req, pc, ret>> /\ \E refusing : buffers' = Rk!QueueBuffers(frameInfo[f], refusing)
    BY <1>7 DEF Rk!paramsComputed, Rk!frameVars
  <2>2. QED
    BY <1>1, <1>4, <1>7, <2>1
<1>8. CASE Head(events).name # "paramsComputed" /\ Rk!metadataReady(f)
  BY <1>1, <1>4, <1>8 DEF Rk!metadataReady
<1>9. QED
  BY <1>5, <1>6, <1>7, <1>8

LEMMA IpaEventFrame ==
    ASSUME RkConstants, OrderInv, OrderInv', FrameInv, Rk!IpaEvent
    PROVE  FrameInv'
<1>1. /\ pc \in {"loop", "drain"} /\ events # <<>> /\ events' = Tail(events)
      /\ UNCHANGED <<mode, active, waiting, frameNumber, calls>>
  BY IpaEventEffect
<1>2. PICK f \in DOMAIN frameInfo :
          \/ UNCHANGED <<frameInfo, avail, req, pc, ret, buffers>>
          \/ /\ Head(events) = EventOf("paramsComputed", f) /\ \E refusing : buffers' = Rk!QueueBuffers(frameInfo[f], refusing)
             /\ UNCHANGED <<frameInfo, avail, req, pc, ret>>
          \/ /\ Head(events) = EventOf("metadataReady", f) /\ buffers' = buffers
             /\ Rk!tryCompleteRequest(f, [frameInfo[f] EXCEPT !.metadataProcessed = TRUE], req)
  BY IpaEventEffect
<1>3. /\ Head(events) \in ToSet(events) /\ events' \in Seq(EventRecords) /\ IsInjective(events')
      /\ ToSet(events') = ToSet(events) \ {Head(events)}
  BY <1>1, EventTaken
<1>4. CallsSound'
  BY <1>1, <1>3 DEF FrameInv, CallsSound
<1>5. frameNumber <= frameNumber' /\ CountersSound'
  BY <1>1 DEF OrderInv, CountersSound
<1>6. Emptied(Stage) = {} /\ StillEmpty
  <2>1. Stage \in {"loop", "drain"} /\ Stage = pc
    BY <1>1 DEF Stage
  <2>2. Emptied(Stage) = {}
    BY <2>1 DEF Emptied
  <2>3. Stage = "drain" => calls = <<>>
    BY DEF FrameInv, PhasesSound
  <2>4. QED
    BY <1>1, <2>1, <2>2, <2>3 DEF StillEmpty
<1>7. PICK cs, es : cs = ToSet(calls) /\ es = ToSet(events')
  OBVIOUS
<1>8. ToSet(calls') = cs
  BY <1>1, <1>7
<1>9. CASE UNCHANGED <<frameInfo, avail, req, pc, ret, buffers>>
  <2>1. InDevices' = InDevices /\ DevicesSound'
    BY <1>9 DEF InDevices, FrameInv, DevicesSound
  <2>2. Fewer(InDevices, ToSet(calls), ToSet(events), InDevices, cs, es)
    BY <1>3, <1>7 DEF Fewer
  <2>3. EntriesSound(mode, frameInfo, req, InDevices, cs, es)
    BY <2>2, FewerIsSound DEF FrameInv
  <2>4. EntriesSound(mode, frameInfo', req', InDevices', ToSet(calls'), ToSet(events'))
    BY <1>7, <1>8, <1>9, <2>1, <2>3
  <2>5. PlaceKept /\ PoolsSound(active, mode, frameInfo', avail')
    BY <1>9 DEF PlaceKept, FrameInv
  <2>6. QED
    BY <1>1, <1>4, <1>5, <1>6, <1>9, <2>1, <2>4, <2>5, Assembled
<1>10. CASE /\ Head(events) = EventOf("paramsComputed", f) /\ \E refusing : buffers' = Rk!QueueBuffers(frameInfo[f], refusing)
            /\ UNCHANGED <<frameInfo, avail, req, pc, ret>>
  <2>1. PICK D : D = InDevices'
    OBVIOUS
  <2>2. /\ DevicesSound' /\ D["dewarp"] = InDevices["dewarp"]
        /\ \A d \in Devices : \A b \in D[d] : b \in InDevices[d] \/ (b # Rk!None /\ b = frameInfo[f][d])
    BY <1>3, <1>10, <2>1, BuffersQueued
  <2>3. es = ToSet(events) \ {EventOf("paramsComputed", f)} /\ EventOf("paramsComputed", f) \in ToSet(events)
    BY <1>3, <1>7, <1>10
  <2>4. FrameSound(mode, f, frameInfo[f], req[frameInfo[f].request].pending, D, cs, es)
    BY <1>7, <2>2, <2>3, EntryOf, SoundQueued
  <2>5. NewOf(f, frameInfo[f], InDevices, ToSet(calls), ToSet(events), D, cs, es)
    BY <1>7, <2>2, <2>3 DEF NewOf
  <2>6. EntriesSound(mode, frameInfo, req, D, cs, es)
    BY <2>4, <2>5, EntryUntouched
  <2>7. EntriesSound(mode, frameInfo', req', InDevices', ToSet(calls'), ToSet(events'))
    BY <1>7, <1>8, <1>10, <2>1, <2>6
  <2>8. PlaceKept /\ PoolsSound(active, mode, frameInfo', avail')
    BY <1>10 DEF PlaceKept, FrameInv
  <2>9. QED
    BY <1>1, <1>4, <1>5, <1>6, <1>10, <2>2, <2>7, <2>8, Assembled
<1>11. CASE /\ Head(events) = EventOf("metadataReady", f) /\ buffers' = buffers
            /\ Rk!tryCompleteRequest(f, [frameInfo[f] EXCEPT !.metadataProcessed = TRUE], req)
  <2>1. PICK y : /\ y = [frameInfo[f] EXCEPT !.metadataProcessed = TRUE]
                 /\ SameBuffers(y, frameInfo[f]) /\ Shaped(mode, y) /\ y.paramDequeued = frameInfo[f].paramDequeued
    BY FlagSet
  <2>2. InDevices' = InDevices /\ DevicesSound'
    BY <1>11 DEF InDevices, FrameInv, DevicesSound
  <2>3. es = ToSet(events) \ {EventOf("metadataReady", f)} /\ EventOf("metadataReady", f) \in ToSet(events)
    BY <1>3, <1>7, <1>11
  <2>4. FrameSound(mode, f, y, req[frameInfo[f].request].pending, InDevices, cs, es)
    BY <1>7, <2>1, <2>3, EntryOf, SoundMetadata
  <2>5. NewOf(f, frameInfo[f], InDevices, ToSet(calls), ToSet(events), InDevices, cs, es)
    BY <1>7, <2>3 DEF NewOf
  <2>6. req \in [Request -> RequestState] /\ pc \notin {"complete", "doQueue"}
    BY <1>1 DEF OrderInv
  <2>7. /\ FrameSound(mode, f, y, req[frameInfo[f].request].pending, InDevices', ToSet(calls'), ToSet(events'))
        /\ NewOf(f, frameInfo[f], InDevices, ToSet(calls), ToSet(events), InDevices', ToSet(calls'), ToSet(events'))
    BY <1>7, <1>8, <2>2, <2>4, <2>5
  <2>8. Rk!tryCompleteRequest(f, y, req)
    BY <1>11, <2>1
  <2>9. QED
    BY <1>1, <1>4, <1>5, <1>6, <2>1, <2>2, <2>6, <2>7, <2>8, TryAssembled
<1>12. QED
  BY <1>2, <1>9, <1>10, <1>11

\* A device returns the buffer of frame f to the pipeline thread.
Returned(d, f) ==
    /\ pc \notin {"complete", "doQueue"} /\ d \in Devices /\ f \in DOMAIN frameInfo
    /\ Inside(frameInfo[f], d, InDevices)
    /\ DevicesSound' /\ Left(InDevices, InDevices', d, frameInfo[f][d])
    /\ \A e \in Rk!Device : buffers[e] = <<>> => buffers'[e] = <<>>
    /\ UNCHANGED <<mode, active, waiting, events>>

\* Pop() and the queues of the devices.
LEMMA PopKeeps ==
    ASSUME FrameInv, NEW d \in Rk!Device, buffers[d] # <<>>, buffers' = Rk!Pop(d)
    PROVE  /\ DevicesSound' /\ Head(buffers[d]) \in ToSet(buffers[d])
           /\ InDevices'[d] = InDevices[d] \ {Head(buffers[d])}
           /\ \A e \in Rk!Device : e # d => InDevices'[e] = InDevices[e]
           /\ \A e \in Rk!Device : buffers[e] = <<>> => buffers'[e] = <<>>
<1>1. PICK new : new = Rk!Pop(d)
  OBVIOUS
<1>2. /\ DOMAIN new = Rk!Device /\ \A e \in Rk!Device : e # d => new[e] = buffers[e]
      /\ d \in Devices => new[d] \in Seq(DeviceBuffers)
      /\ d = "dewarp" => new[d] \in Seq(Request)
      /\ IsInjective(new[d])
      /\ ToSet(new[d]) = ToSet(buffers[d]) \ {Head(buffers[d])}
      /\ Head(buffers[d]) \in ToSet(buffers[d])
  BY <1>1, BufferPopped DEF FrameInv
<1>3. DevicesSound
  BY DEF FrameInv
<1>4. buffers' = new
  BY <1>1
<1>5. DevicesSound'
  <2>1. \A e \in Devices : e \in Rk!Device
    BY DEF Devices, Rk!Device
  <2>2. ASSUME NEW e \in Devices PROVE new[e] \in Seq(DeviceBuffers)
    <3>1. CASE e = d
      BY <1>2, <3>1
    <3>2. CASE e # d
      BY <1>2, <1>3, <2>1, <3>2 DEF DevicesSound
    <3>3. QED
      BY <3>1, <3>2
  <2>3. new["dewarp"] \in Seq(Request)
    <3>1. CASE d = "dewarp"
      BY <1>2, <3>1
    <3>2. CASE d # "dewarp"
      BY <1>2, <1>3, <3>2 DEF DevicesSound, Rk!Device
    <3>3. QED
      BY <3>1, <3>2
  <2>4. \A e \in Rk!Device : IsInjective(new[e])
    BY <1>2, <1>3 DEF DevicesSound
  <2>5. QED
    BY <1>2, <1>4, <2>2, <2>3, <2>4 DEF DevicesSound
<1>6. \A e \in Rk!Device : InDevices'[e] = ToSet(new[e]) /\ InDevices[e] = ToSet(buffers[e])
  BY <1>4 DEF InDevices
<1>7. \A e \in Rk!Device : buffers[e] = <<>> => new[e] = <<>>
  BY <1>2
<1>8. QED
  BY <1>2, <1>4, <1>5, <1>6, <1>7

LEMMA ReturnedFound ==
    ASSUME OrderInv, FrameInv, NEW d \in Devices, buffers[d] # <<>>, buffers' = Rk!Pop(d),
           pc \notin {"complete", "doQueue"}, UNCHANGED <<mode, active, waiting, events>>
    PROVE  \E f \in DOMAIN frameInfo :
              /\ Returned(d, f)
              /\ Rk!FramesWith(Head(buffers[d])) # {} /\ Rk!First(Rk!FramesWith(Head(buffers[d]))) = f
<1>1. d \in Rk!Device
  BY DEF Devices, Rk!Device
<1>2. PICK b : b = Head(buffers[d])
  OBVIOUS
<1>3. /\ DevicesSound' /\ b \in ToSet(buffers[d])
      /\ InDevices'[d] = InDevices[d] \ {b}
      /\ \A e \in Rk!Device : e # d => InDevices'[e] = InDevices[e]
      /\ \A e \in Rk!Device : buffers[e] = <<>> => buffers'[e] = <<>>
  BY <1>1, <1>2, PopKeeps
<1>4. PICK f \in DOMAIN frameInfo :
              /\ frameInfo[f][d] = b /\ Inside(frameInfo[f], d, InDevices)
              /\ Rk!FramesWith(b) # {} /\ Rk!First(Rk!FramesWith(b)) = f
  BY <1>3, OwnerFound
<1>5. Left(InDevices, InDevices', d, frameInfo[f][d])
  BY <1>3, <1>4 DEF Left
<1>6. Returned(d, f)
  BY <1>3, <1>4, <1>5 DEF Returned
<1>7. QED
  BY <1>2, <1>4, <1>6

LEMMA ReturnedNew ==
    ASSUME NEW d, NEW f, Returned(d, f), NEW cs, NEW c,
           cs = ToSet(calls) \/ (cs = ToSet(calls) \cup {c} /\ c.frame = f)
    PROVE  NewOf(f, frameInfo[f], InDevices, ToSet(calls), ToSet(events), InDevices', cs, ToSet(events'))
<1>1. \A e \in Rk!Device : InDevices'[e] \subseteq InDevices[e]
  BY DEF Returned, Left
<1>2. events' = events
  BY DEF Returned
<1>3. "dewarp" \in Rk!Device /\ \A e \in Devices : e \in Rk!Device
  BY DEF Rk!Device, Devices
<1>4. \A x \in cs : x \in ToSet(calls) \/ x.frame = f
  OBVIOUS
<1>5. PICK D : D = InDevices'
  OBVIOUS
<1>6. NewOf(f, frameInfo[f], InDevices, ToSet(calls), ToSet(events), D, cs, ToSet(events))
  BY <1>1, <1>3, <1>4, <1>5 DEF NewOf
<1>7. QED
  BY <1>2, <1>5, <1>6

LEMMA StagesEmptied ==
    ASSUME NEW stage
    PROVE  Emptied(stage) \subseteq Rk!Device /\ (stage = "loop" => Emptied(stage) = {})
  BY DEF Emptied, Devices, Rk!Device

LEMMA ReturnedStill ==
    ASSUME FrameInv, NEW d, NEW f, Returned(d, f), calls' = calls \/ pc = "loop"
    PROVE  StillEmpty
<1>1. Stage = pc /\ events' = events
  BY DEF Stage, Returned
<1>2. \A e \in Emptied(Stage) : buffers'[e] = <<>>
  BY StagesEmptied DEF Returned, FrameInv, PhasesSound
<1>3. (Stage \notin {"loop", "ipaStop"} => calls' = <<>>) /\ (Stage \notin {"loop", "ipaStop", "drain"} => events' = <<>>)
  BY <1>1 DEF FrameInv, PhasesSound
<1>4. QED
  BY <1>2, <1>3 DEF StillEmpty

\* processStats() posts a call.
LEMMA StatsPosted ==
    ASSUME OrderInv, FrameInv, NEW f \in DOMAIN frameInfo, CallOf("processStats", f) \notin ToSet(calls),
           Rk!processStats(f), events' = events
    PROVE  CallsSound' /\ ToSet(calls') = ToSet(calls) \cup {CallOf("processStats", f)}
<1>1. PICK c : c = CallOf("processStats", f)
  OBVIOUS
<1>2. f \in Nat
  BY DEF OrderInv, FramesSound
<1>3. c \in CallRecords /\ c.op = "processStats"
  BY <1>1, <1>2 DEF CallOf, CallRecords
<1>4. calls' = Append(calls, c)
  BY <1>1 DEF Rk!processStats, CallOf
<1>5. /\ Append(calls, c) \in Seq(CallRecords) /\ IsInjective(Append(calls, c)) /\ FirstCalls(Append(calls, c))
      /\ ToSet(Append(calls, c)) = ToSet(calls) \cup {c}
  BY <1>1, <1>3, CallPosted DEF FrameInv, CallsSound
<1>6. QED
  BY <1>1, <1>4, <1>5 DEF FrameInv, CallsSound

\* A returned buffer, and tryCompleteRequest().
Trying(f, info, q) ==
    /\ Rk!tryCompleteRequest(f, info, q)
    /\ SameBuffers(info, frameInfo[f]) /\ Shaped(mode, info) /\ q \in [Request -> RequestState]
    /\ \A r \in Request : r # frameInfo[f].request => q[r] = req[r]
    /\ FrameSound(mode, f, info, q[frameInfo[f].request].pending, InDevices', ToSet(calls'), ToSet(events))
    /\ frameNumber' = frameNumber /\ CallsSound'

LEMMA ReturnedTry ==
    ASSUME RkConstants, OrderInv, OrderInv', FrameInv, NEW d, NEW f, Returned(d, f), NEW info, NEW q,
           Trying(f, info, q),
           \/ calls' = calls
           \/ pc = "loop" /\ ToSet(calls') = ToSet(calls) \cup {CallOf("processStats", f)}
    PROVE  FrameInv'
<1>1. CallOf("processStats", f).frame = f
  BY DEF CallOf
<1>2. ToSet(calls') = ToSet(calls) \/ (ToSet(calls') = ToSet(calls) \cup {CallOf("processStats", f)})
  OBVIOUS
<1>3. NewOf(f, frameInfo[f], InDevices, ToSet(calls), ToSet(events), InDevices', ToSet(calls'), ToSet(events'))
  BY <1>1, <1>2, ReturnedNew
<1>4. StillEmpty
  BY ReturnedStill
<1>5. CountersSound' /\ frameNumber <= frameNumber'
  BY DEF OrderInv, CountersSound, Trying
<1>6. /\ f \in DOMAIN frameInfo /\ pc \notin {"complete", "doQueue"} /\ DevicesSound'
      /\ UNCHANGED <<mode, active, waiting>> /\ events' = events
  BY DEF Returned
<1>7. FrameSound(mode, f, info, q[frameInfo[f].request].pending, InDevices', ToSet(calls'), ToSet(events'))
  BY <1>6 DEF Trying
<1>8. QED
  BY <1>3, <1>4, <1>5, <1>6, <1>7, TryAssembled DEF Trying

\* A buffer comes back in the event loop, or in streamOff() once the IPA has stopped.
Returning(s) == (s = "Success" /\ pc = "loop") \/ (s = "Cancelled" /\ pc \in Rk!Device)

LEMMA NoCallsLeft ==
    ASSUME FrameInv, pc \in Rk!Device
    PROVE  calls = <<>> /\ events = <<>> /\ ToSet(calls) = {} /\ ToSet(events) = {}
<1>1. Stage = pc /\ pc \notin {"loop", "ipaStop", "drain"}
  BY DEF Stage, Rk!Device
<1>2. calls = <<>> /\ events = <<>>
  BY <1>1 DEF FrameInv, PhasesSound
<1>3. QED
  BY <1>2 DEF ToSet

\* completeBuffer() takes the buffer of a stream off the request.
LEMMA BufferCompleted ==
    ASSUME OrderInv, NEW f \in DOMAIN frameInfo, NEW s
    PROVE  \E q \in [Request -> RequestState] :
              /\ q = Rk!completeBuffer(frameInfo[f].request, s)
              /\ \A r \in Request : r # frameInfo[f].request => q[r] = req[r]
              /\ q[frameInfo[f].request].pending = req[frameInfo[f].request].pending \ {s}
<1>1. PICK r \in Request : r = frameInfo[f].request
  BY EntryRequest
<1>2. req \in [Request -> RequestState]
  BY DEF OrderInv
<1>3. PICK q : q = Rk!completeBuffer(r, s)
  OBVIOUS
<1>4. q \in [Request -> RequestState]
  BY <1>3, CompleteBufferEffect
<1>5. /\ \A x \in Request : x # r => q[x] = req[x]
      /\ q[r] = [req[r] EXCEPT !.pending = @ \ {s}]
  BY <1>2, <1>3 DEF Rk!completeBuffer
<1>6. req[r] \in RequestState
  BY <1>2
<1>7. q[r].pending = req[r].pending \ {s}
  BY <1>5, <1>6 DEF RequestState
<1>8. QED
  BY <1>1, <1>3, <1>4, <1>5, <1>7

LEMMA ParamReadyFrame ==
    ASSUME RkConstants, OrderInv, OrderInv', FrameInv, NEW f, Returned("param", f),
           Rk!tryCompleteRequest(f, [frameInfo[f] EXCEPT !.paramDequeued = TRUE], req),
           frameNumber' = frameNumber, calls' = calls
    PROVE  FrameInv'
<1>1. f \in DOMAIN frameInfo /\ events' = events /\ Inside(frameInfo[f], "param", InDevices)
  BY DEF Returned
<1>2. PICK y : /\ y = [frameInfo[f] EXCEPT !.paramDequeued = TRUE]
               /\ SameBuffers(y, frameInfo[f]) /\ Shaped(mode, y)
               /\ y.metadataProcessed = frameInfo[f].metadataProcessed
  BY <1>1, FlagSet
<1>3. PICK D : D = InDevices'
  OBVIOUS
<1>4. Left(InDevices, D, "param", frameInfo[f].param)
  BY <1>3 DEF Returned
<1>5. FrameSound(mode, f, frameInfo[f], req[frameInfo[f].request].pending, InDevices, ToSet(calls), ToSet(events))
  BY <1>1, EntryOf
<1>6. FrameSound(mode, f, y, req[frameInfo[f].request].pending, D, ToSet(calls), ToSet(events))
  BY <1>1, <1>2, <1>4, <1>5, SoundParamDequeued
<1>7. FrameSound(mode, f, y, req[frameInfo[f].request].pending, InDevices', ToSet(calls'), ToSet(events))
  BY <1>3, <1>6
<1>8. CallsSound' /\ req \in [Request -> RequestState]
  BY <1>1 DEF FrameInv, CallsSound, OrderInv
<1>9. Rk!tryCompleteRequest(f, y, req)
  BY <1>2
<1>10. Trying(f, y, req)
  BY <1>2, <1>7, <1>8, <1>9 DEF Trying
<1>11. QED
  BY <1>10, ReturnedTry

LEMMA StatCancelledFrame ==
    ASSUME RkConstants, OrderInv, OrderInv', FrameInv, NEW f, Returned("stat", f), mode # "raw", pc \in Rk!Device,
           Rk!tryCompleteRequest(f, [frameInfo[f] EXCEPT !.metadataProcessed = TRUE], req),
           frameNumber' = frameNumber, calls' = calls
    PROVE  FrameInv'
<1>1. f \in DOMAIN frameInfo /\ events' = events /\ Inside(frameInfo[f], "stat", InDevices)
  BY DEF Returned
<1>2. PICK y : /\ y = [frameInfo[f] EXCEPT !.metadataProcessed = TRUE]
               /\ SameBuffers(y, frameInfo[f]) /\ Shaped(mode, y)
               /\ y.paramDequeued = frameInfo[f].paramDequeued
  BY <1>1, FlagSet
<1>3. PICK D, cs, es : D = InDevices' /\ cs = ToSet(calls) /\ es = ToSet(events)
  OBVIOUS
<1>4. Left(InDevices, D, "stat", frameInfo[f].stat) /\ cs = {}
  BY <1>3, NoCallsLeft DEF Returned
<1>5. FrameSound(mode, f, frameInfo[f], req[frameInfo[f].request].pending, InDevices, cs, es)
  BY <1>1, <1>3, EntryOf
<1>6. FrameSound(mode, f, y, req[frameInfo[f].request].pending, D, cs, es)
  BY <1>1, <1>2, <1>4, <1>5, SoundStatCancelled
<1>7. FrameSound(mode, f, y, req[frameInfo[f].request].pending, InDevices', ToSet(calls'), ToSet(events))
  BY <1>3, <1>6
<1>8. CallsSound' /\ req \in [Request -> RequestState]
  BY <1>1 DEF FrameInv, CallsSound, OrderInv
<1>9. Rk!tryCompleteRequest(f, y, req)
  BY <1>2
<1>10. Trying(f, y, req)
  BY <1>2, <1>7, <1>8, <1>9 DEF Trying
<1>11. QED
  BY <1>10, ReturnedTry

LEMMA StatDoneFrame ==
    ASSUME OrderInv, OrderInv', FrameInv, NEW f, Returned("stat", f), mode # "raw", pc = "loop",
           Rk!processStats(f), UNCHANGED <<frameInfo, avail, req, pc, ret>>, frameNumber <= frameNumber'
    PROVE  FrameInv'
<1>1. /\ f \in DOMAIN frameInfo /\ events' = events /\ Inside(frameInfo[f], "stat", InDevices)
      /\ DevicesSound' /\ UNCHANGED <<mode, active, waiting>>
  BY DEF Returned
<1>2. PICK D, cs, es, cs2 : D = InDevices' /\ cs = ToSet(calls) /\ es = ToSet(events) /\ cs2 = cs \cup {CallOf("processStats", f)}
  OBVIOUS
<1>3. Left(InDevices, D, "stat", frameInfo[f].stat)
  BY <1>2 DEF Returned
<1>4. FrameSound(mode, f, frameInfo[f], req[frameInfo[f].request].pending, InDevices, cs, es)
  BY <1>1, <1>2, EntryOf
<1>5. /\ FrameSound(mode, f, frameInfo[f], req[frameInfo[f].request].pending, D, cs2, es)
      /\ CallOf("processStats", f) \notin cs
  BY <1>1, <1>2, <1>3, <1>4, SoundStatDone
<1>6. CallsSound' /\ ToSet(calls') = cs2
  BY <1>1, <1>2, <1>5, StatsPosted
<1>7. CallOf("processStats", f).frame = f
  BY DEF CallOf
<1>8. NewOf(f, frameInfo[f], InDevices, ToSet(calls), ToSet(events), InDevices', cs2, ToSet(events'))
  BY <1>2, <1>7, ReturnedNew
<1>9. NewOf(f, frameInfo[f], InDevices, ToSet(calls), ToSet(events), D, cs2, es)
  BY <1>1, <1>2, <1>8
<1>10. EntriesSound(mode, frameInfo, req, D, cs2, es)
  BY <1>1, <1>5, <1>9, EntryUntouched
<1>11. EntriesSound(mode, frameInfo', req', InDevices', ToSet(calls'), ToSet(events'))
  BY <1>1, <1>2, <1>6, <1>10
<1>12. StillEmpty
  BY ReturnedStill
<1>13. PlaceKept /\ PoolsSound(active, mode, frameInfo', avail') /\ CountersSound'
  BY DEF PlaceKept, FrameInv, OrderInv
<1>14. QED
  BY <1>1, <1>6, <1>11, <1>12, <1>13, Assembled

\* imageBufferReady(), and cancelDewarpRequest() after it.
LEMMA ImageFrame ==
    ASSUME RkConstants, OrderInv, OrderInv', FrameInv, NEW f, NEW s \in {"main", "self"}, Returned(s, f),
           NEW y, SameBuffers(y, frameInfo[f]), Shaped(mode, y),
           y.paramDequeued = frameInfo[f].paramDequeued, y.metadataProcessed = frameInfo[f].metadataProcessed,
           Rk!tryCompleteRequest(f, y, Rk!completeBuffer(frameInfo[f].request, s)),
           frameNumber' = frameNumber, calls' = calls
    PROVE  FrameInv'
<1>1. f \in DOMAIN frameInfo /\ events' = events /\ Inside(frameInfo[f], s, InDevices)
  BY DEF Returned
<1>2. PICK q \in [Request -> RequestState] :
              /\ q = Rk!completeBuffer(frameInfo[f].request, s)
              /\ \A r \in Request : r # frameInfo[f].request => q[r] = req[r]
              /\ q[frameInfo[f].request].pending = req[frameInfo[f].request].pending \ {s}
  BY <1>1, BufferCompleted
<1>3. PICK D, cs, es : D = InDevices' /\ cs = ToSet(calls) /\ es = ToSet(events)
  OBVIOUS
<1>4. Left(InDevices, D, s, frameInfo[f][s])
  BY <1>3 DEF Returned
<1>5. FrameSound(mode, f, frameInfo[f], req[frameInfo[f].request].pending, InDevices, cs, es)
  BY <1>1, <1>3, EntryOf
<1>6. FrameSound(mode, f, y, req[frameInfo[f].request].pending \ {s}, D, cs, es)
  <2>1. PICK x, pend : x = frameInfo[f] /\ pend = req[frameInfo[f].request].pending
    OBVIOUS
  <2>2. FrameSound(mode, f, x, pend, InDevices, cs, es) /\ Inside(x, s, InDevices) /\ Left(InDevices, D, s, x[s])
    BY <1>1, <1>4, <1>5, <2>1
  <2>3. SameBuffers(y, x) /\ y.paramDequeued = x.paramDequeued /\ y.metadataProcessed = x.metadataProcessed
    BY <2>1
  <2>4. FrameSound(mode, f, y, pend \ {s}, D, cs, es)
    BY <2>2, <2>3, SoundImage
  <2>5. QED
    BY <2>1, <2>4
<1>7. FrameSound(mode, f, y, q[frameInfo[f].request].pending, InDevices', ToSet(calls'), ToSet(events))
  BY <1>2, <1>3, <1>6
<1>8. CallsSound'
  BY <1>1 DEF FrameInv, CallsSound
<1>9. Rk!tryCompleteRequest(f, y, q)
  BY <1>2
<1>10. Trying(f, y, q)
  BY <1>2, <1>7, <1>8, <1>9 DEF Trying
<1>11. QED
  BY <1>10, ReturnedTry

LEMMA RawDoneFrame ==
    ASSUME RkConstants, OrderInv, OrderInv', FrameInv, mode = "raw", NEW f, Returned("main", f), pc = "loop",
           NEW y, SameBuffers(y, frameInfo[f]), Shaped(mode, y),
           y.paramDequeued = frameInfo[f].paramDequeued, y.metadataProcessed = frameInfo[f].metadataProcessed,
           Rk!tryCompleteRequest(f, y, Rk!completeBuffer(frameInfo[f].request, "main")),
           frameNumber' = frameNumber, Rk!processStats(f)
    PROVE  FrameInv'
<1>1. f \in DOMAIN frameInfo /\ events' = events /\ Inside(frameInfo[f], "main", InDevices)
  BY DEF Returned
<1>2. PICK q \in [Request -> RequestState] :
              /\ q = Rk!completeBuffer(frameInfo[f].request, "main")
              /\ \A r \in Request : r # frameInfo[f].request => q[r] = req[r]
              /\ q[frameInfo[f].request].pending = req[frameInfo[f].request].pending \ {"main"}
  BY <1>1, BufferCompleted
<1>3. PICK D, cs, es, cs2 : D = InDevices' /\ cs = ToSet(calls) /\ es = ToSet(events) /\ cs2 = cs \cup {CallOf("processStats", f)}
  OBVIOUS
<1>4. Left(InDevices, D, "main", frameInfo[f].main)
  BY <1>3 DEF Returned
<1>5. FrameSound("raw", f, frameInfo[f], req[frameInfo[f].request].pending, InDevices, cs, es) /\ frameInfo[f].stat = Rk!None
  BY <1>1, <1>3, EntryOf DEF Shaped
<1>6. /\ FrameSound("raw", f, y, req[frameInfo[f].request].pending \ {"main"}, D, cs2, es)
      /\ CallOf("processStats", f) \notin cs
  BY <1>1, <1>3, <1>4, <1>5, SoundRawDone
<1>7. CallsSound' /\ ToSet(calls') = cs2
  BY <1>1, <1>3, <1>6, StatsPosted
<1>8. FrameSound(mode, f, y, q[frameInfo[f].request].pending, InDevices', ToSet(calls'), ToSet(events))
  BY <1>2, <1>3, <1>6, <1>7
<1>9. Rk!tryCompleteRequest(f, y, q)
  BY <1>2
<1>10. Trying(f, y, q)
  BY <1>2, <1>3, <1>7, <1>8, <1>9 DEF Trying
<1>11. QED
  BY <1>3, <1>7, <1>10, ReturnedTry

LEMMA RawCancelledFrame ==
    ASSUME RkConstants, OrderInv, OrderInv', FrameInv, mode = "raw", NEW f, Returned("main", f), pc \in Rk!Device,
           NEW y, SameBuffers(y, frameInfo[f]), Shaped(mode, y), y.paramDequeued = frameInfo[f].paramDequeued,
           Rk!tryCompleteRequest(f, y, Rk!completeBuffer(frameInfo[f].request, "main")),
           frameNumber' = frameNumber, calls' = calls
    PROVE  FrameInv'
<1>1. f \in DOMAIN frameInfo /\ events' = events /\ Inside(frameInfo[f], "main", InDevices)
  BY DEF Returned
<1>2. PICK q \in [Request -> RequestState] :
              /\ q = Rk!completeBuffer(frameInfo[f].request, "main")
              /\ \A r \in Request : r # frameInfo[f].request => q[r] = req[r]
              /\ q[frameInfo[f].request].pending = req[frameInfo[f].request].pending \ {"main"}
  BY <1>1, BufferCompleted
<1>3. PICK D, cs, es : D = InDevices' /\ cs = ToSet(calls) /\ es = ToSet(events)
  OBVIOUS
<1>4. Left(InDevices, D, "main", frameInfo[f].main) /\ cs = {}
  BY <1>3, NoCallsLeft DEF Returned
<1>5. FrameSound("raw", f, frameInfo[f], req[frameInfo[f].request].pending, InDevices, cs, es) /\ frameInfo[f].stat = Rk!None
  BY <1>1, <1>3, EntryOf DEF Shaped
<1>6. FrameSound("raw", f, y, req[frameInfo[f].request].pending \ {"main"}, D, cs, es)
  BY <1>1, <1>4, <1>5, SoundRawCancelled
<1>7. FrameSound(mode, f, y, q[frameInfo[f].request].pending, InDevices', ToSet(calls'), ToSet(events))
  BY <1>2, <1>3, <1>6
<1>8. CallsSound'
  BY <1>1 DEF FrameInv, CallsSound
<1>9. Rk!tryCompleteRequest(f, y, q)
  BY <1>2
<1>10. Trying(f, y, q)
  BY <1>2, <1>7, <1>8, <1>9 DEF Trying
<1>11. QED
  BY <1>10, ReturnedTry

LEMMA ImageReadyFrame ==
    ASSUME RkConstants, OrderInv, OrderInv', FrameInv, NEW f, NEW d \in {"main", "self"}, Returned(d, f),
           NEW s, Returning(s), NEW b, Rk!First(Rk!FramesWith(b)) = f, Rk!imageBufferReady(b, d, s)
    PROVE  FrameInv'
<1>1. f \in DOMAIN frameInfo /\ Inside(frameInfo[f], d, InDevices)
  BY DEF Returned
<1>2. PICK v \in BOOLEAN : v = (frameInfo[f].metadataProcessed \/ (mode = "raw" /\ s = "Cancelled"))
  BY Zenon
<1>3. PICK y : /\ y = [frameInfo[f] EXCEPT !.metadataProcessed = v]
               /\ SameBuffers(y, frameInfo[f]) /\ Shaped(mode, y)
               /\ y.paramDequeued = frameInfo[f].paramDequeued /\ y.metadataProcessed = v
  BY <1>1, FlagSet
<1>4. /\ Rk!tryCompleteRequest(f, y, Rk!completeBuffer(frameInfo[f].request, d))
      /\ frameNumber' = frameNumber
      /\ IF mode = "raw" /\ s = "Success" THEN Rk!processStats(f) ELSE calls' = calls
  <2>1. y = [frameInfo[f] EXCEPT !.metadataProcessed = frameInfo[f].metadataProcessed \/ (mode = "raw" /\ s = "Cancelled")]
    BY <1>2, <1>3
  <2>2. QED
    BY <2>1, Zenon DEF Rk!imageBufferReady
<1>5. frameInfo[f].metadataProcessed \in BOOLEAN
  BY <1>1, EntryOf DEF Entries
<1>6. ~(mode = "raw" /\ s = "Cancelled") => y.metadataProcessed = frameInfo[f].metadataProcessed
  BY <1>2, <1>3, <1>5
<1>7. mode = "raw" => d = "main"
  BY <1>1, EntryOf DEF Shaped, Inside
<1>8. CASE mode # "raw"
  BY <1>3, <1>4, <1>6, <1>8, ImageFrame
<1>9. CASE mode = "raw" /\ s = "Success"
  <2>1. pc = "loop"
    BY <1>9 DEF Returning
  <2>2. QED
    BY <1>3, <1>4, <1>6, <1>7, <1>9, <2>1, RawDoneFrame
<1>10. CASE mode = "raw" /\ s = "Cancelled"
  <2>1. pc \in Rk!Device
    BY <1>10 DEF Returning
  <2>2. QED
    BY <1>3, <1>4, <1>7, <1>10, <2>1, RawCancelledFrame
<1>11. QED
  BY <1>8, <1>9, <1>10 DEF Returning

LEMMA BufferReadyFrame ==
    ASSUME RkConstants, OrderInv, OrderInv', FrameInv, NEW d, NEW s, Returning(s), Rk!BufferReady(d, s)
    PROVE  FrameInv'
<1>1. /\ d \in Devices /\ buffers[d] # <<>> /\ buffers' = Rk!Pop(d)
      /\ UNCHANGED <<mode, active, waiting, events>>
  BY DEF Rk!BufferReady, Rk!queueVars, Devices
<1>2. pc \notin {"complete", "doQueue"}
  BY DEF Returning, Rk!Device
<1>3. PICK b : b = Head(buffers[d])
  OBVIOUS
<1>4. PICK f \in DOMAIN frameInfo : Returned(d, f) /\ Rk!FramesWith(b) # {} /\ Rk!First(Rk!FramesWith(b)) = f
  BY <1>1, <1>2, <1>3, ReturnedFound
<1>5. CASE d = "param"
  <2>1. Rk!paramBufferReady(b)
    BY <1>3, <1>4, <1>5 DEF Rk!BufferReady
  <2>2. /\ Rk!tryCompleteRequest(f, [frameInfo[f] EXCEPT !.paramDequeued = TRUE], req)
        /\ UNCHANGED <<frameNumber, calls>>
    BY <1>4, <2>1 DEF Rk!paramBufferReady
  <2>3. QED
    BY <1>4, <1>5, <2>2, ParamReadyFrame
<1>6. CASE d = "stat"
  <2>0. mode # "raw"
    BY <1>4, <1>6, EntryOf DEF Returned, Inside, Shaped
  <2>1. PICK skip \in IF s = "Cancelled" THEN {0} ELSE 0 .. MaxSkip :
             Rk!statBufferReady(b, s, sequence + 1 + skip)
    BY <1>3, <1>4, <1>6 DEF Rk!BufferReady
  <2>2. PICK n \in Nat : n = sequence + 1 + skip
    <3>1. skip \in Nat
      BY DEF RkConstants
    <3>2. sequence \in Int /\ sequence >= -1
      BY DEF OrderInv, CountersSound
    <3>3. QED
      BY <3>1, <3>2
  <2>3. CASE s = "Cancelled"
    <3>1. /\ Rk!tryCompleteRequest(f, [frameInfo[f] EXCEPT !.metadataProcessed = TRUE], req)
          /\ UNCHANGED <<frameNumber, calls>>
      BY <1>4, <2>1, <2>3 DEF Rk!statBufferReady
    <3>2. pc \in Rk!Device
      BY <2>3 DEF Returning
    <3>3. QED
      BY <1>4, <1>6, <2>0, <3>1, <3>2, StatCancelledFrame
  <2>4. CASE s = "Success"
    <3>1. /\ frameNumber' = (IF frameNumber <= n THEN n + 1 ELSE frameNumber)
          /\ Rk!processStats(f) /\ UNCHANGED <<frameInfo, avail, req, pc, ret>>
      BY <1>4, <2>1, <2>2, <2>4 DEF Rk!statBufferReady, Rk!frameVars
    <3>2. frameNumber <= frameNumber'
      BY <3>1 DEF OrderInv, CountersSound
    <3>3. pc = "loop"
      BY <2>4 DEF Returning
    <3>4. QED
      BY <1>4, <1>6, <2>0, <3>1, <3>2, <3>3, StatDoneFrame
  <2>5. QED
    BY <2>3, <2>4 DEF Returning
<1>7. CASE d \in {"main", "self"}
  <2>1. Rk!imageBufferReady(b, d, s)
    BY <1>3, <1>4, <1>7 DEF Rk!BufferReady
  <2>2. QED
    BY <1>4, <1>7, <2>1, ImageReadyFrame
<1>8. QED
  BY <1>1, <1>5, <1>6, <1>7 DEF Devices

\* imageBufferReady() hands the buffer over to the dewarper.
LEMMA DewarpQueuedFrame ==
    ASSUME OrderInv, OrderInv', FrameInv, mode = "dewarp", pc = "loop", buffers["main"] # <<>>,
           NEW f \in DOMAIN frameInfo, frameInfo[f].main = Head(buffers["main"]), Inside(frameInfo[f], "main", InDevices),
           buffers' = [Rk!Pop("main") EXCEPT !["dewarp"] = Append(@, frameInfo[f].request)],
           UNCHANGED <<mode, active, waiting, events, frameInfo, avail, req, pc, ret, frameNumber, calls>>
    PROVE  FrameInv'
<1>0. PICK r \in Request : r = frameInfo[f].request
  BY EntryRequest
<1>1. PICK new, b : new = Rk!Pop("main") /\ b = Head(buffers["main"]) /\ r = frameInfo[f].request
  BY <1>0
<1>2. "main" \in Rk!Device /\ "dewarp" \in Rk!Device /\ "main" \in Devices /\ \A d \in Rk!Device : d \in Devices \/ d = "dewarp"
  BY DEF Rk!Device, Devices
<1>3. DevicesSound
  BY DEF FrameInv
<1>4. /\ DOMAIN new = Rk!Device /\ \A e \in Rk!Device : e # "main" => new[e] = buffers[e]
      /\ new["main"] \in Seq(DeviceBuffers) /\ IsInjective(new["main"])
      /\ ToSet(new["main"]) = ToSet(buffers["main"]) \ {b}
  <2>1. /\ DOMAIN new = Rk!Device /\ \A e \in Rk!Device : e # "main" => new[e] = buffers[e]
        /\ "main" \in Devices => new["main"] \in Seq(DeviceBuffers)
        /\ IsInjective(new["main"])
        /\ ToSet(new["main"]) = ToSet(buffers["main"]) \ {Head(buffers["main"])}
    <3>1. new = Rk!Pop("main")
      BY <1>1
    <3>2. "main" \in Rk!Device
      BY <1>2
    <3>3. QED
      BY <1>3, <3>1, <3>2, BufferPopped
  <2>2. QED
    BY <1>1, <1>2, <2>1
<1>5. \A d \in Rk!Device : InDevices[d] = ToSet(buffers[d])
  BY DEF InDevices
<1>6. FrameSound(mode, f, frameInfo[f], req[frameInfo[f].request].pending, InDevices, ToSet(calls), ToSet(events))
  BY EntryOf
<1>7. r \notin ToSet(buffers["dewarp"])
  BY <1>1, <1>2, <1>5, <1>6 DEF FrameSound
<1>8. PICK q \in Seq(Request) : q = buffers["dewarp"] /\ IsInjective(q)
  BY <1>2, <1>3 DEF DevicesSound
<1>9. Append(q, r) \in Seq(Request) /\ IsInjective(Append(q, r)) /\ ToSet(Append(q, r)) = ToSet(q) \cup {r}
  BY <1>7, <1>8, ToSetOfAppend, InjectiveAppend
<1>10. /\ DOMAIN buffers' = Rk!Device /\ buffers'["dewarp"] = Append(q, r) /\ buffers'["main"] = new["main"]
       /\ \A e \in Rk!Device \ {"main", "dewarp"} : buffers'[e] = buffers[e]
  BY <1>1, <1>2, <1>4, <1>8
<1>11. DevicesSound'
  <2>1. \A d \in Devices : buffers'[d] \in Seq(DeviceBuffers)
    BY <1>3, <1>4, <1>10 DEF DevicesSound, Devices, Rk!Device
  <2>2. \A d \in Rk!Device : IsInjective(buffers'[d])
    BY <1>3, <1>4, <1>9, <1>10 DEF DevicesSound
  <2>3. QED
    BY <1>9, <1>10, <2>1, <2>2 DEF DevicesSound
<1>12. PICK D, cs, es : D = InDevices' /\ cs = ToSet(calls) /\ es = ToSet(events)
  OBVIOUS
<1>13. \A d \in Rk!Device : D[d] = ToSet(buffers'[d])
  BY <1>12 DEF InDevices
<1>14. /\ D["main"] = InDevices["main"] \ {b} /\ D["dewarp"] = InDevices["dewarp"] \cup {r}
       /\ \A e \in Rk!Device \ {"main", "dewarp"} : D[e] = InDevices[e]
  BY <1>2, <1>4, <1>5, <1>8, <1>9, <1>10, <1>13
<1>15. \A e \in {"self", "stat", "param"} : D[e] = InDevices[e]
  BY <1>14 DEF Rk!Device
<1>16. FrameSound(mode, f, frameInfo[f], req[frameInfo[f].request].pending, D, cs, es)
  BY <1>1, <1>6, <1>12, <1>14, <1>15, SoundDewarpInput
<1>17. frameInfo[f].main # Rk!None
  BY DEF Inside
<1>18. NewOf(f, frameInfo[f], InDevices, ToSet(calls), ToSet(events), D, cs, es)
  BY <1>1, <1>12, <1>14, <1>15, <1>17 DEF NewOf, Devices
<1>19. EntriesSound(mode, frameInfo, req, D, cs, es)
  BY <1>16, <1>18, EntryUntouched
<1>20. EntriesSound(mode, frameInfo', req', InDevices', ToSet(calls'), ToSet(events'))
  BY <1>12, <1>19
<1>21. Stage = "loop"
  BY DEF Stage
<1>22. StillEmpty
  BY <1>21, StagesEmptied DEF StillEmpty
<1>23. PlaceKept /\ PoolsSound(active, mode, frameInfo', avail') /\ CallsSound' /\ CountersSound' /\ frameNumber <= frameNumber'
  BY DEF PlaceKept, FrameInv, CallsSound, OrderInv, CountersSound
<1>24. QED
  BY <1>11, <1>20, <1>22, <1>23, Assembled

LEMMA DewarpInputFrame ==
    ASSUME RkConstants, OrderInv, OrderInv', FrameInv, NEW s, Returning(s), Rk!DewarpInput(s)
    PROVE  FrameInv'
<1>1. /\ mode = "dewarp" /\ buffers["main"] # <<>>
      /\ UNCHANGED <<mode, active, waiting, events>>
  BY DEF Rk!DewarpInput, Rk!queueVars
<1>2. pc \notin {"complete", "doQueue"} /\ (s = "Success" => pc = "loop")
  BY DEF Returning, Rk!Device
<1>3. PICK b : b = Head(buffers["main"])
  OBVIOUS
<1>4. "main" \in Devices /\ "main" \in Rk!Device /\ b \in ToSet(buffers["main"])
  <2>1. buffers["main"] \in Seq(DeviceBuffers)
    BY DEF FrameInv, DevicesSound, Devices
  <2>2. QED
    BY <1>1, <1>3, <2>1, HeadInToSet DEF Devices, Rk!Device
<1>5. PICK f \in DOMAIN frameInfo :
              /\ frameInfo[f]["main"] = b /\ Inside(frameInfo[f], "main", InDevices)
              /\ Rk!FramesWith(b) # {} /\ Rk!First(Rk!FramesWith(b)) = f
  BY <1>4, OwnerFound
<1>6. \/ /\ s = "Success"
         /\ buffers' = [Rk!Pop("main") EXCEPT !["dewarp"] = Append(@, frameInfo[f].request)]
         /\ UNCHANGED <<frameInfo, avail, req, pc, ret, frameNumber, calls>>
      \/ /\ buffers' = Rk!Pop("main") /\ Rk!cancelDewarpRequest(f)
         /\ UNCHANGED <<frameNumber, calls>>
  BY <1>3, <1>5 DEF Rk!DewarpInput, Rk!frameVars
<1>7. CASE /\ s = "Success"
           /\ buffers' = [Rk!Pop("main") EXCEPT !["dewarp"] = Append(@, frameInfo[f].request)]
           /\ UNCHANGED <<frameInfo, avail, req, pc, ret, frameNumber, calls>>
  BY <1>1, <1>2, <1>3, <1>5, <1>7, DewarpQueuedFrame
<1>8. CASE /\ buffers' = Rk!Pop("main") /\ Rk!cancelDewarpRequest(f)
           /\ UNCHANGED <<frameNumber, calls>>
  <2>1. Returned("main", f)
    BY <1>1, <1>2, <1>3, <1>4, <1>5, <1>8, ReturnedFound
  <2>2. PICK y : y = frameInfo[f] /\ SameBuffers(y, frameInfo[f]) /\ Shaped(mode, y)
    BY EntryOf DEF SameBuffers
  <2>3. Rk!tryCompleteRequest(f, y, Rk!completeBuffer(frameInfo[f].request, "main"))
    BY <1>8, <2>2 DEF Rk!cancelDewarpRequest
  <2>4. QED
    BY <1>8, <2>1, <2>2, <2>3, ImageFrame
<1>9. QED
  BY <1>6, <1>7, <1>8

LEMMA DewarpOutputFrame ==
    ASSUME RkConstants, OrderInv, OrderInv', FrameInv, Rk!DewarpOutput, pc \notin {"complete", "doQueue"}
    PROVE  FrameInv'
<1>1. /\ buffers["dewarp"] # <<>> /\ buffers' = Rk!Pop("dewarp")
      /\ UNCHANGED <<mode, active, waiting, frameNumber, calls, events>>
  BY DEF Rk!DewarpOutput, Rk!queueVars, Rk!ipaVars
<1>2. PICK r : r = Head(buffers["dewarp"])
  OBVIOUS
<1>3. "dewarp" \in Rk!Device /\ \A d \in Devices : d \in Rk!Device /\ d # "dewarp"
  BY DEF Rk!Device, Devices
<1>4. PICK D : D = InDevices'
  OBVIOUS
<1>5. /\ DevicesSound' /\ r \in ToSet(buffers["dewarp"])
      /\ D["dewarp"] = InDevices["dewarp"] \ {r}
      /\ \A e \in Rk!Device : e # "dewarp" => D[e] = InDevices[e]
      /\ \A e \in Rk!Device : buffers[e] = <<>> => buffers'[e] = <<>>
  BY <1>1, <1>2, <1>3, <1>4, PopKeeps
<1>6. r \in InDevices["dewarp"]
  BY <1>3, <1>5, QueueMembers
<1>7. PICK f \in DOMAIN frameInfo : frameInfo[f].request = r
  BY <1>6 DEF FrameInv, EntriesSound, Owned
<1>8. PICK S : S = {g \in DOMAIN frameInfo : frameInfo[g].request = r}
  OBVIOUS
<1>9. S = {f}
  BY <1>7, <1>8 DEF OrderInv, FramesSound
<1>10. Rk!First(S) = f
  <2>1. S \in SUBSET DOMAIN frameInfo /\ S # {}
    BY <1>9
  <2>2. Rk!First(S) \in S
    BY <2>1, FirstFrame
  <2>3. QED
    BY <1>9, <2>2
<1>11. Rk!tryCompleteRequest(f, frameInfo[f], Rk!completeBuffer(r, "main"))
  BY <1>2, <1>8, <1>9, <1>10 DEF Rk!DewarpOutput
<1>12. PICK q \in [Request -> RequestState] :
              /\ q = Rk!completeBuffer(frameInfo[f].request, "main")
              /\ \A x \in Request : x # frameInfo[f].request => q[x] = req[x]
              /\ q[frameInfo[f].request].pending = req[frameInfo[f].request].pending \ {"main"}
  BY BufferCompleted
<1>13. PICK cs, es : cs = ToSet(calls) /\ es = ToSet(events)
  OBVIOUS
<1>14. PICK y : y = frameInfo[f] /\ SameBuffers(y, frameInfo[f]) /\ Shaped(mode, y)
  BY EntryOf DEF SameBuffers
<1>15. FrameSound(mode, f, y, req[frameInfo[f].request].pending, InDevices, cs, es)
  BY <1>13, <1>14, EntryOf
<1>16. \A e \in Devices : D[e] = InDevices[e]
  BY <1>3, <1>5
<1>17. FrameSound(mode, f, y, req[frameInfo[f].request].pending \ {"main"}, D, cs, es)
  BY <1>5, <1>6, <1>7, <1>14, <1>15, <1>16, SoundDewarpOutput
<1>18. FrameSound(mode, f, y, q[frameInfo[f].request].pending, InDevices', ToSet(calls'), ToSet(events'))
  BY <1>1, <1>4, <1>12, <1>13, <1>17
<1>19. NewOf(f, frameInfo[f], InDevices, ToSet(calls), ToSet(events), D, cs, es)
  BY <1>5, <1>13, <1>16 DEF NewOf
<1>20. NewOf(f, frameInfo[f], InDevices, ToSet(calls), ToSet(events), InDevices', ToSet(calls'), ToSet(events'))
  BY <1>1, <1>4, <1>13, <1>19
<1>21. StillEmpty
  <2>1. \A e \in Emptied(Stage) : buffers'[e] = <<>>
    BY <1>5, StagesEmptied DEF FrameInv, PhasesSound
  <2>2. QED
    BY <1>1, <2>1 DEF StillEmpty, FrameInv, PhasesSound
<1>22. CallsSound' /\ CountersSound' /\ frameNumber <= frameNumber'
  BY <1>1 DEF FrameInv, CallsSound, OrderInv, CountersSound
<1>23. Rk!tryCompleteRequest(f, y, q)
  BY <1>7, <1>11, <1>12, <1>14
<1>24. QED
  BY <1>1, <1>5, <1>12, <1>14, <1>18, <1>20, <1>21, <1>22, <1>23, TryAssembled

\* A step that has nothing to do with frames.
LEMMA FramesAlone ==
    ASSUME FrameInv, UNCHANGED <<mode, active, frameInfo, avail, buffers, calls, events, frameNumber>>,
           \A f \in DOMAIN frameInfo : req'[frameInfo[f].request].pending = req[frameInfo[f].request].pending,
           PhasesSound'
    PROVE  FrameInv'
<1>1. InDevices' = InDevices /\ DevicesSound' /\ CallsSound'
  BY DEF InDevices, FrameInv, DevicesSound, CallsSound
<1>2. PoolsSound(active', mode', frameInfo', avail') /\ \A f \in DOMAIN frameInfo' : f < frameNumber'
  BY DEF FrameInv
<1>3. PICK D, cs, es, rq : D = InDevices /\ cs = ToSet(calls) /\ es = ToSet(events) /\ rq = req'
  OBVIOUS
<1>4. EntriesSound(mode, frameInfo, req, D, cs, es)
  BY <1>3 DEF FrameInv
<1>5. EntriesSound(mode, frameInfo, rq, D, cs, es)
  BY <1>3, <1>4 DEF EntriesSound
<1>6. EntriesSound(mode', frameInfo', req', InDevices', ToSet(calls'), ToSet(events'))
  BY <1>1, <1>3, <1>5
<1>7. QED
  BY <1>1, <1>2, <1>6 DEF FrameInv

\* The requests of frames and the waiting requests are pending.
LEMMA PendingRequests ==
    ASSUME OrderInv
    PROVE  /\ ToSet(queued) \subseteq Request /\ ToSet(stopped) \subseteq Request /\ ToSet(waiting) \subseteq Request
           /\ \A f \in DOMAIN frameInfo : frameInfo[f].request \in Request /\ req[frameInfo[f].request].status = "Pending"
           /\ \A r \in ToSet(waiting) : req[r].status = "Pending"
           /\ req \in [Request -> RequestState]
<1>1. ToSet(queued) \subseteq Request /\ ToSet(stopped) \subseteq Request /\ ToSet(waiting) \subseteq Request
  BY DEF OrderInv, QueuesSound, ToSet
<1>2. QED
  BY <1>1, EntryRequest DEF OrderInv, NoneFree

LEMMA CompleteFrame ==
    ASSUME OrderInv, FrameInv, Rk!CompleteRequest
    PROVE  FrameInv'
<1>1. /\ pc = "complete"
      /\ UNCHANGED <<mode, active, ret, waiting, frameNumber, frameInfo, avail, buffers, calls, events>>
  BY DEF Rk!CompleteRequest, Rk!ipaVars
<1>2. \/ /\ queued # <<>> /\ req[Head(queued)].status # "Pending"
         /\ req' = [req EXCEPT ![Head(queued)] = [status |-> "Free", pending |-> {}]] /\ pc' = pc
      \/ pc' = "doQueue" /\ req' = req
  BY DEF Rk!CompleteRequest
<1>3. Stage' = Stage /\ pc' \in {"complete", "doQueue"}
  BY <1>1, <1>2 DEF Stage
<1>4. ASSUME NEW r \in Request, req[r].status = "Pending" PROVE req'[r].pending = req[r].pending
  <2>1. CASE req' = req
    BY <2>1
  <2>2. CASE /\ req[Head(queued)].status # "Pending"
             /\ req' = [req EXCEPT ![Head(queued)] = [status |-> "Free", pending |-> {}]]
    BY <1>4, <2>2, PendingRequests
  <2>3. QED
    BY <1>2, <2>1, <2>2
<1>5. /\ \A f \in DOMAIN frameInfo : req'[frameInfo[f].request].pending = req[frameInfo[f].request].pending
      /\ \A r \in ToSet(waiting) : req'[r].pending = req[r].pending
  BY <1>4, PendingRequests
<1>6. PhasesSound'
  BY <1>1, <1>3, <1>5 DEF FrameInv, PhasesSound
<1>7. QED
  BY <1>1, <1>5, <1>6, FramesAlone

LEMMA QueueFrame ==
    ASSUME OrderInv, FrameInv, NEW r \in Request, NEW S \in (SUBSET Rk!Streams(mode)) \ {{}}, Rk!QueueRequest(r, S)
    PROVE  FrameInv'
<1>1. /\ active /\ pc = "loop" /\ req[r].status = "Free" /\ waiting' = Append(waiting, r)
      /\ req' = [req EXCEPT ![r] = [status |-> "Pending", pending |-> S]]
      /\ pc' = "doQueue" /\ ret' = "loop"
      /\ UNCHANGED <<mode, active, frameNumber, frameInfo, avail, buffers, calls, events>>
  BY DEF Rk!QueueRequest, Rk!ipaVars
<1>2. Stage = "loop" /\ Stage' = "loop"
  BY <1>1 DEF Stage
<1>3. req'[r].pending = S /\ \A x \in Request : x # r => req'[x] = req[x]
  BY <1>1, PendingRequests
<1>4. \A f \in DOMAIN frameInfo : req'[frameInfo[f].request].pending = req[frameInfo[f].request].pending
  BY <1>1, <1>3, PendingRequests
<1>5. ToSet(waiting') = ToSet(waiting) \cup {r}
  BY <1>1, ToSetOfAppend DEF OrderInv, QueuesSound
<1>6. \A x \in ToSet(waiting') : req'[x].pending \in (SUBSET Rk!Streams(mode)) \ {{}}
  <2>1. \A x \in ToSet(waiting) : x \in Request /\ x # r
    BY <1>1, PendingRequests
  <2>2. QED
    BY <1>3, <1>5, <2>1 DEF FrameInv, PhasesSound
<1>7. PhasesSound'
  <2>1. "loop" \in Stages
    BY DEF Stages
  <2>2. QED
    BY <1>1, <1>2, <1>6, <2>1 DEF FrameInv, PhasesSound
<1>8. QED
  BY <1>1, <1>4, <1>7, FramesAlone

\* stop() goes on to the next place.
LEMMA StopFrame ==
    ASSUME OrderInv, FrameInv, Rk!Stop
    PROVE  FrameInv'
<1>1. /\ active /\ pc = "loop" /\ waiting' = <<>> /\ pc' = "ipaStop"
      /\ UNCHANGED <<mode, active, ret, frameNumber, frameInfo, avail, req, buffers, calls, events>>
  BY DEF Rk!Stop, Rk!frameVars
<1>2. Stage' = "ipaStop" /\ Emptied("ipaStop") = {} /\ "ipaStop" \in Stages /\ ToSet(waiting') = {}
  BY <1>1 DEF Stage, Emptied, Rk!Device, Stages, ToSet
<1>3. PhasesSound'
  BY <1>1, <1>2 DEF FrameInv, PhasesSound
<1>4. QED
  BY <1>1, <1>3, FramesAlone

LEMMA IpaStopFrame ==
    ASSUME OrderInv, FrameInv, Rk!IpaStop
    PROVE  FrameInv'
<1>1. /\ pc = "ipaStop" /\ calls = <<>> /\ pc' = "drain"
      /\ UNCHANGED <<mode, active, ret, waiting, frameNumber, frameInfo, avail, req, buffers, calls, events>>
  BY DEF Rk!IpaStop, Rk!frameVars, Rk!queueVars
<1>2. Stage = "ipaStop" /\ Stage' = "drain" /\ Emptied("drain") = {} /\ "drain" \in Stages
  BY <1>1 DEF Stage, Emptied, Rk!Device, Stages
<1>3. PhasesSound'
  BY <1>1, <1>2 DEF FrameInv, PhasesSound
<1>4. QED
  BY <1>1, <1>3, FramesAlone

LEMMA IpaStoppedFrame ==
    ASSUME OrderInv, FrameInv, Rk!IpaStopped
    PROVE  FrameInv'
<1>1. /\ pc = "drain" /\ events = <<>> /\ pc' = "self"
      /\ UNCHANGED <<mode, active, ret, waiting, frameNumber, frameInfo, avail, req, buffers, calls, events>>
  BY DEF Rk!IpaStopped, Rk!frameVars, Rk!queueVars
<1>2. Stage = "drain" /\ Stage' = "self" /\ Emptied("self") = {} /\ "self" \in Stages
  BY <1>1 DEF Stage, Emptied, Rk!Device, Stages
<1>3. PhasesSound'
  BY <1>1, <1>2 DEF FrameInv, PhasesSound
<1>4. QED
  BY <1>1, <1>3, FramesAlone

\* streamOff() is done with a device.
LEMMA NextOffFrame ==
    ASSUME OrderInv, FrameInv, pc \in Rk!Device, buffers[pc] = <<>>, pc' = Rk!NextOff[pc],
           UNCHANGED <<mode, active, ret, waiting, frameNumber, frameInfo, avail, req, buffers, calls, events>>
    PROVE  FrameInv'
<1>1. /\ Emptied("self") = {} /\ Emptied("main") = {"self"} /\ Emptied("stat") = {"self", "main"}
      /\ Emptied("param") = {"self", "main", "stat"} /\ Emptied("dewarp") = {"self", "main", "stat", "param"}
      /\ Emptied("clear") = {"self", "main", "stat", "param", "dewarp"}
  BY DEF Emptied, Devices, Rk!Device
<1>2. pc' \in {"main", "stat", "param", "dewarp", "clear"} /\ Emptied(pc') = Emptied(pc) \cup {pc}
  <2>1. CASE pc = "self"
    BY <1>1, <2>1 DEF Rk!NextOff
  <2>2. CASE pc = "main"
    BY <1>1, <2>2 DEF Rk!NextOff
  <2>3. CASE pc = "stat"
    BY <1>1, <2>3 DEF Rk!NextOff
  <2>4. CASE pc = "param"
    BY <1>1, <2>4 DEF Rk!NextOff
  <2>5. CASE pc = "dewarp"
    BY <1>1, <2>5 DEF Rk!NextOff
  <2>6. QED
    BY <2>1, <2>2, <2>3, <2>4, <2>5 DEF Rk!Device
<1>3. /\ Stage = pc /\ Stage' = pc' /\ pc' \in Stages
      /\ pc \notin {"loop", "ipaStop", "drain", "waiting"} /\ pc' \notin {"loop", "ipaStop", "drain", "waiting"}
  BY <1>2 DEF Stage, Stages, Rk!Device
<1>4. \A d \in Emptied(Stage') : buffers'[d] = <<>>
  BY <1>2, <1>3 DEF FrameInv, PhasesSound
<1>5. calls = <<>> /\ events = <<>> /\ active /\ waiting = <<>>
  BY <1>3 DEF FrameInv, PhasesSound
<1>6. PhasesSound'
  BY <1>3, <1>4, <1>5 DEF FrameInv, PhasesSound
<1>7. QED
  BY <1>6, FramesAlone

\* No frame is left while the camera is stopped.
LEMMA NoEntries ==
    ASSUME NEW fi, NEW m, NEW m2, NEW rq, NEW rq2, NEW D, NEW cs, NEW es,
           EntriesSound(m, fi, rq, D, cs, es), DOMAIN fi = {}
    PROVE  EntriesSound(m2, fi, rq2, D, cs, es)
  BY DEF EntriesSound

LEMMA StoppedState ==
    ASSUME FrameInv, ~active
    PROVE  /\ active = FALSE /\ DOMAIN frameInfo = {} /\ waiting = <<>> /\ ToSet(waiting) = {}
           /\ Stage \in {"loop", "waiting"}
           /\ avail \in [Rk!Pool -> Seq(Rk!Buffer)] /\ IsFiniteSet(DOMAIN frameInfo)
           /\ \A m, rq : EntriesSound(m, frameInfo, rq, InDevices, ToSet(calls), ToSet(events))
<1>1. /\ active = FALSE /\ DOMAIN frameInfo = {} /\ waiting = <<>> /\ Stage \in {"loop", "waiting"}
      /\ avail \in [Rk!Pool -> Seq(Rk!Buffer)] /\ IsFiniteSet(DOMAIN frameInfo)
  BY DEF FrameInv, PhasesSound, PoolsSound
<1>2. ToSet(waiting) = {}
  BY <1>1 DEF ToSet
<1>3. PICK D, cs, es : D = InDevices /\ cs = ToSet(calls) /\ es = ToSet(events)
  OBVIOUS
<1>4. EntriesSound(mode, frameInfo, req, D, cs, es)
  BY <1>3 DEF FrameInv
<1>5. \A m, rq : EntriesSound(m, frameInfo, rq, D, cs, es)
  BY <1>1, <1>4, NoEntries
<1>6. QED
  BY <1>1, <1>2, <1>3, <1>5

\* What a step with the camera stopped has to keep.
LEMMA StoppedKeeps ==
    ASSUME FrameInv, ~active, UNCHANGED <<frameInfo, buffers, calls, events>>,
           PoolsSound(active', mode', frameInfo', avail'), PhasesSound'
    PROVE  FrameInv'
<1>1. InDevices' = InDevices /\ DevicesSound' /\ CallsSound'
  BY DEF InDevices, FrameInv, DevicesSound, CallsSound
<1>2. DOMAIN frameInfo' = {} /\ \A m, rq : EntriesSound(m, frameInfo, rq, InDevices, ToSet(calls), ToSet(events))
  BY StoppedState
<1>3. PICK m, rq : m = mode' /\ rq = req'
  OBVIOUS
<1>4. EntriesSound(m, frameInfo, rq, InDevices, ToSet(calls), ToSet(events))
  BY <1>2
<1>5. EntriesSound(mode', frameInfo', req', InDevices', ToSet(calls'), ToSet(events'))
  BY <1>1, <1>3, <1>4
<1>6. QED
  BY <1>1, <1>2, <1>5 DEF FrameInv

LEMMA ConfigureFrame ==
    ASSUME FrameInv, NEW m, Rk!Configure(m)
    PROVE  FrameInv'
<1>1. ~active /\ UNCHANGED <<active, pc, ret, waiting, req, frameInfo, avail, buffers, calls, events>>
  BY DEF Rk!Configure, Rk!queueVars, Rk!frameVars
<1>2. Stage' = Stage
  BY <1>1 DEF Stage
<1>3. PoolsSound(active', mode', frameInfo', avail')
  BY <1>1, StoppedState DEF PoolsSound
<1>4. PhasesSound'
  BY <1>1, <1>2, StoppedState DEF FrameInv, PhasesSound
<1>5. QED
  BY <1>1, <1>3, <1>4, StoppedKeeps

\* allocateBuffers(): all the buffers are in their pool.
LEMMA FullPool ==
    ASSUME RkConstants, NEW p, NEW fi, DOMAIN fi = {}, NEW q, q = [i \in Rk!Buffer |-> i]
    PROVE  q \in Seq(Rk!Buffer) /\ PoolSound(p, fi, q)
<1>1. PICK n \in Nat : n = MaxQueued
  BY DEF RkConstants
<1>2. Rk!Buffer = 1 .. n /\ q = [i \in 1 .. n |-> i]
  BY <1>1 DEF Rk!Buffer
<1>3. q \in Seq(Rk!Buffer) /\ Len(q) = n
  BY <1>2
<1>4. IsInjective(q)
  BY <1>2 DEF IsInjective
<1>5. Cardinality(DOMAIN fi) = 0
  BY FS_EmptySet, Zenon
<1>6. Len(q) + Cardinality(DOMAIN fi) = MaxQueued
  BY <1>1, <1>3, <1>5
<1>7. QED
  BY <1>3, <1>4, <1>6 DEF PoolSound

LEMMA StartFrame ==
    ASSUME RkConstants, FrameInv, Rk!Start
    PROVE  FrameInv'
<1>1. /\ ~active /\ pc = "loop" /\ active' = TRUE
      /\ avail' = [p \in Rk!Pool |-> IF p \in Rk!Taken THEN [i \in Rk!Buffer |-> i] ELSE <<>>]
      /\ UNCHANGED <<mode, pc, ret, waiting, req, frameInfo, buffers, calls, events>>
  BY DEF Rk!Start, Rk!queueVars
<1>2. PICK full : full = [i \in Rk!Buffer |-> i]
  OBVIOUS
<1>3. full \in Seq(Rk!Buffer) /\ \A p : PoolSound(p, frameInfo, full)
  BY <1>1, <1>2, FullPool, StoppedState
<1>4. Rk!Taken = PoolsOf(mode) /\ PoolsOf(mode) \subseteq Rk!Pool
  BY DEF Rk!Taken, PoolsOf, Rk!Pool
<1>5. avail' \in [Rk!Pool -> Seq(Rk!Buffer)] /\ \A p \in PoolsOf(mode) : avail'[p] = full
  BY <1>1, <1>2, <1>3, <1>4
<1>6. PoolsSound(active', mode', frameInfo', avail')
  BY <1>1, <1>3, <1>5, StoppedState DEF PoolsSound
<1>7. Stage = "loop" /\ Stage' = "loop"
  BY <1>1 DEF Stage
<1>8. PhasesSound'
  BY <1>1, <1>7, StoppedState DEF FrameInv, PhasesSound
<1>9. QED
  BY <1>1, <1>6, <1>8, StoppedKeeps

LEMMA StartFailsFrame ==
    ASSUME FrameInv, Rk!StartFails
    PROVE  FrameInv'
<1>1. ~active /\ UNCHANGED <<mode, active, pc, ret, waiting, req, frameInfo, avail, buffers, calls, events>>
  BY DEF Rk!StartFails, Rk!queueVars, Rk!frameVars
<1>2. Stage' = Stage
  BY <1>1 DEF Stage
<1>3. PoolsSound(active', mode', frameInfo', avail')
  BY <1>1, StoppedState DEF PoolsSound
<1>4. PhasesSound'
  BY <1>1, <1>2, StoppedState DEF FrameInv, PhasesSound
<1>5. QED
  BY <1>1, <1>3, <1>4, StoppedKeeps

LEMMA StopWaitingFrame ==
    ASSUME FrameInv, Rk!StopWaiting
    PROVE  FrameInv'
<1>1. /\ pc = "waiting"
      /\ UNCHANGED <<mode, active, waiting, frameInfo, avail, buffers, calls, events>>
      /\ (pc' = "loop" /\ ret' = ret) \/ (pc' = "complete" /\ ret' = "waiting")
  BY DEF Rk!StopWaiting, Rk!ipaVars
<1>2. Stage = "waiting" /\ (Stage' = "loop" \/ Stage' = "waiting")
  BY <1>1 DEF Stage
<1>3. ~active
  BY <1>2 DEF FrameInv, PhasesSound
<1>4. PoolsSound(active', mode', frameInfo', avail')
  BY <1>1, <1>3, StoppedState DEF PoolsSound
<1>5. PhasesSound'
  <2>1. Emptied("loop") = {} /\ "loop" \in Stages /\ "waiting" \in Stages
    BY StagesEmptied DEF Stages
  <2>2. QED
    BY <1>1, <1>2, <1>3, <2>1, StoppedState DEF FrameInv, PhasesSound
<1>6. QED
  BY <1>1, <1>3, <1>4, <1>5, StoppedKeeps

\* Nothing anywhere.
LEMMA NothingSound ==
    ASSUME NEW m, NEW rq, NEW fi, DOMAIN fi = {}, NEW D, \A d \in Rk!Device : D[d] = {}
    PROVE  EntriesSound(m, fi, rq, D, {}, {})
<1>1. D["dewarp"] = {} /\ \A d \in Devices : D[d] = {}
  BY DEF Devices, Rk!Device
<1>2. Owned(fi, D, {}, {})
  BY <1>1 DEF Owned
<1>3. QED
  BY <1>2 DEF EntriesSound

LEMMA StopDeviceFrame ==
    ASSUME FrameInv, Rk!StopDevice
    PROVE  FrameInv'
<1>1. /\ pc = "clear" /\ frameInfo' = <<>> /\ avail' = [p \in Rk!Pool |-> <<>>] /\ active' = FALSE /\ pc' = "waiting"
      /\ UNCHANGED <<mode, ret, waiting, req, frameNumber, buffers, calls, events>>
  BY DEF Rk!StopDevice, Rk!queueVars, Rk!ipaVars
<1>2. /\ Stage = "clear" /\ Stage' = "waiting" /\ Emptied("clear") = Rk!Device /\ Emptied("waiting") = Rk!Device
      /\ "waiting" \in Stages
  BY <1>1 DEF Stage, Emptied, Rk!Device, Stages
<1>3. calls = <<>> /\ events = <<>> /\ waiting = <<>> /\ \A d \in Rk!Device : buffers[d] = <<>>
  BY <1>2 DEF FrameInv, PhasesSound
<1>4. DOMAIN frameInfo' = {} /\ ToSet(calls') = {} /\ ToSet(events') = {} /\ ToSet(waiting') = {}
  BY <1>1, <1>3 DEF ToSet
<1>5. PICK D, fi, rq : D = InDevices' /\ fi = frameInfo' /\ rq = req'
  OBVIOUS
<1>6. \A d \in Rk!Device : D[d] = {}
  BY <1>1, <1>3, <1>5 DEF InDevices, ToSet
<1>7. EntriesSound(mode, fi, rq, D, {}, {})
  BY <1>4, <1>5, <1>6, NothingSound
<1>8. EntriesSound(mode', frameInfo', req', InDevices', ToSet(calls'), ToSet(events'))
  BY <1>1, <1>4, <1>5, <1>7
<1>9. PoolsSound(active', mode', frameInfo', avail')
  <2>1. IsFiniteSet(DOMAIN frameInfo')
    BY <1>4, FS_EmptySet, Zenon
  <2>2. avail' \in [Rk!Pool -> Seq(Rk!Buffer)]
    BY <1>1
  <2>3. QED
    BY <1>1, <2>1, <2>2 DEF PoolsSound
<1>10. CallsSound' /\ DevicesSound'
  BY <1>1 DEF FrameInv, CallsSound, DevicesSound
<1>11. PhasesSound'
  BY <1>1, <1>2, <1>3, <1>4 DEF FrameInv, PhasesSound
<1>12. QED
  BY <1>4, <1>8, <1>9, <1>10, <1>11 DEF FrameInv

LEMMA InitFrame ==
    ASSUME Rk!Init
    PROVE  FrameInv
<1>1. /\ active = FALSE /\ pc = "loop" /\ ret = "loop" /\ waiting = <<>>
      /\ frameInfo = <<>> /\ avail = [p \in Rk!Pool |-> <<>>] /\ buffers = [d \in Rk!Device |-> <<>>]
      /\ calls = <<>> /\ events = <<>>
  BY DEF Rk!Init
<1>2. DOMAIN frameInfo = {} /\ ToSet(calls) = {} /\ ToSet(events) = {} /\ ToSet(waiting) = {}
  BY <1>1 DEF ToSet
<1>3. \A d \in Rk!Device : InDevices[d] = {}
  BY <1>1 DEF InDevices, ToSet
<1>4. EntriesSound(mode, frameInfo, req, InDevices, {}, {})
  BY <1>2, <1>3, NothingSound
<1>5. PoolsSound(active, mode, frameInfo, avail)
  <2>1. IsFiniteSet(DOMAIN frameInfo)
    BY <1>2, FS_EmptySet, Zenon
  <2>2. avail \in [Rk!Pool -> Seq(Rk!Buffer)]
    BY <1>1
  <2>3. QED
    BY <1>1, <2>1, <2>2 DEF PoolsSound
<1>6. CallsSound
  BY <1>1 DEF CallsSound, IsInjective, FirstCalls
<1>7. DevicesSound
  BY <1>1 DEF DevicesSound, IsInjective, Devices, Rk!Device
<1>8. Stage = "loop" /\ Emptied("loop") = {} /\ "loop" \in Stages
  BY <1>1, StagesEmptied DEF Stage, Stages
<1>9. PhasesSound
  BY <1>1, <1>2, <1>8 DEF PhasesSound
<1>10. QED
  BY <1>2, <1>4, <1>5, <1>6, <1>7, <1>9 DEF FrameInv

-----------------------------------------------------------------------------
(***************************************************************************)
(* create() and queueRequestDevice(): a new frame.                         *)
(***************************************************************************)

With(fi2, fi, f) == DOMAIN fi2 = DOMAIN fi \cup {f} /\ \A g \in DOMAIN fi : fi2[g] = fi[g]

LEMMA BufferTaken ==
    ASSUME RkConstants, NEW p, NEW fi, NEW q \in Seq(Rk!Buffer), q # <<>>, PoolSound(p, fi, q), IsFiniteSet(DOMAIN fi),
           NEW f, f \notin DOMAIN fi, NEW fi2, With(fi2, fi, f), fi2[f][p] = <<p, Head(q)>>
    PROVE  PoolSound(p, fi2, Tail(q))
<1>0. DOMAIN fi2 = DOMAIN fi \cup {f} /\ \A g \in DOMAIN fi : fi2[g] = fi[g]
  BY DEF With
<1>1. ToSet(Tail(q)) = ToSet(q) \ {Head(q)} /\ IsInjective(Tail(q)) /\ Head(q) \in ToSet(q)
  BY ToSetOfTail, HeadInToSet DEF PoolSound
<1>2. Len(Tail(q)) = Len(q) - 1 /\ Len(q) \in Nat
  OBVIOUS
<1>3. PICK n \in Nat, k \in Int : n = Cardinality(DOMAIN fi) /\ k = Cardinality(DOMAIN fi2) /\ k = n + 1
  <2>1. IsFiniteSet(DOMAIN fi2) /\ Cardinality(DOMAIN fi2) = Cardinality(DOMAIN fi) + 1
    BY <1>0, FS_AddElement, Zenon
  <2>2. Cardinality(DOMAIN fi) \in Nat /\ Cardinality(DOMAIN fi2) \in Nat
    BY <2>1, FS_CardinalityType
  <2>3. QED
    BY <2>1, <2>2
<1>4. Len(q) + n = MaxQueued
  BY <1>3 DEF PoolSound
<1>5. Len(Tail(q)) + Cardinality(DOMAIN fi2) = MaxQueued
  BY <1>2, <1>3, <1>4
<1>6. \A g \in DOMAIN fi : fi[g][p] # <<p, Head(q)>>
  BY <1>1 DEF PoolSound
<1>7. ASSUME NEW g \in DOMAIN fi2, NEW h \in DOMAIN fi2, g # h PROVE fi2[g][p] # fi2[h][p]
  <2>1. CASE g = f
    BY <1>0, <1>6, <1>7, <2>1
  <2>2. CASE h = f
    BY <1>0, <1>6, <1>7, <2>2
  <2>3. CASE g # f /\ h # f
    BY <1>0, <1>7, <2>3 DEF PoolSound
  <2>4. QED
    BY <2>1, <2>2, <2>3
<1>8. ASSUME NEW g \in DOMAIN fi2, NEW j \in ToSet(Tail(q)) PROVE fi2[g][p] # <<p, j>>
  <2>1. j \in ToSet(q) /\ j # Head(q)
    BY <1>1
  <2>2. CASE g = f
    BY <2>1, <2>2, SecondOfPair
  <2>3. CASE g # f
    BY <1>0, <2>1, <2>3 DEF PoolSound
  <2>4. QED
    BY <2>2, <2>3
<1>9. QED
  BY <1>1, <1>5, <1>7, <1>8 DEF PoolSound

\* What create() gives to a request.
NewSound(r, x) ==
    /\ r \in Request /\ r \in ToSet(waiting) /\ \A f \in DOMAIN frameInfo : frameInfo[f].request # r
    /\ Shaped(mode, x) /\ x.request = r /\ ~x.paramDequeued /\ ~x.metadataProcessed
    /\ x.main # Rk!None => "main" \in req[r].pending
    /\ x.self # Rk!None => "self" \in req[r].pending
    /\ mode = "raw" => x.main = <<"app main", r>>
    /\ \A p \in PoolsOf(mode) : avail[p] # <<>> /\ x[p] = <<p, Head(avail[p])>>

LEMMA PoolsNotEmpty ==
    ASSUME RkConstants, FrameInv, active, ~Rk!Underrun, NEW p \in PoolsOf(mode)
    PROVE  avail[p] # <<>> /\ avail[p] \in Seq(Rk!Buffer) /\ Head(avail[p]) \in Rk!Buffer /\ PoolSound(p, frameInfo, avail[p])
<1>1. avail \in [Rk!Pool -> Seq(Rk!Buffer)] /\ IsFiniteSet(DOMAIN frameInfo) /\ \A x \in PoolsOf(mode) : PoolSound(x, frameInfo, avail[x])
  BY DEF FrameInv, PoolsSound
<1>2. PoolsOf(mode) \subseteq Rk!Pool /\ mode # "raw" /\ "param" \in PoolsOf(mode)
  BY DEF PoolsOf, Rk!Pool
<1>3. avail[p] # <<>>
  <2>1. PICK n \in Nat : n = Cardinality(DOMAIN frameInfo)
    BY <1>1, FS_CardinalityType
  <2>2. PICK a \in Seq(Rk!Buffer), b \in Seq(Rk!Buffer) : a = avail["param"] /\ b = avail[p]
    BY <1>1, <1>2
  <2>3. Len(a) + n = MaxQueued /\ Len(b) + n = MaxQueued
    BY <1>1, <1>2, <2>1, <2>2 DEF PoolSound
  <2>4. a # <<>>
    BY <1>2, <2>2 DEF Rk!Underrun
  <2>5. Len(a) = Len(b) /\ Len(a) > 0
    BY <2>3, <2>4
  <2>6. QED
    BY <2>2, <2>5
<1>4. QED
  BY <1>1, <1>2, <1>3

LEMMA NewEntry ==
    ASSUME RkConstants, OrderInv, FrameInv, waiting # <<>>, ~Rk!Underrun
    PROVE  active /\ Stage = "loop" /\ NewSound(Head(waiting), Rk!NewInfo(Head(waiting)))
<1>1. active /\ Stage = "loop"
  BY DEF FrameInv, PhasesSound
<1>2. PICK r \in Request : r = Head(waiting) /\ r \in ToSet(waiting)
  BY HeadInToSet DEF OrderInv, QueuesSound
<1>3. \A f \in DOMAIN frameInfo : frameInfo[f].request # r
  BY <1>2, EntryRequest
<1>4. req[r].pending \in SUBSET Rk!Streams(mode) /\ req[r].pending # {}
  BY <1>2 DEF FrameInv, PhasesSound
<1>5. PICK pend : pend = req[r].pending /\ pend \in SUBSET Rk!Streams(mode) /\ pend # {}
  BY <1>4
<1>6. \A p \in PoolsOf(mode) : avail[p] # <<>> /\ Head(avail[p]) \in Rk!Buffer /\ Rk!Pick(p) = <<p, Head(avail[p])>>
  BY <1>1, PoolsNotEmpty DEF Rk!Pick
<1>7. PICK x : x = Rk!NewInfo(r)
  OBVIOUS
<1>8. /\ x = [request |-> x.request, param |-> x.param, stat |-> x.stat, main |-> x.main, self |-> x.self,
              paramDequeued |-> x.paramDequeued, metadataProcessed |-> x.metadataProcessed]
      /\ x.request = r /\ x.paramDequeued = FALSE /\ x.metadataProcessed = FALSE
      /\ x.param = (IF mode = "raw" THEN Rk!None ELSE Rk!Pick("param"))
      /\ x.stat = (IF mode = "raw" THEN Rk!None ELSE Rk!Pick("stat"))
      /\ x.self = (IF "self" \in pend THEN <<"app self", r>> ELSE Rk!None)
      /\ mode = "dewarp" => x.main = Rk!Pick("main")
      /\ mode # "dewarp" => x.main = (IF "main" \in pend THEN <<"app main", r>> ELSE Rk!None)
  BY <1>5, <1>7 DEF Rk!NewInfo
<1>9. /\ mode = "raw" => PoolsOf(mode) = {}
      /\ mode = "dewarp" => PoolsOf(mode) = {"param", "stat", "main"}
      /\ mode # "raw" /\ mode # "dewarp" => PoolsOf(mode) = {"param", "stat"}
  BY DEF PoolsOf, Rk!Pool
<1>10. \A p \in PoolsOf(mode) : x[p] = <<p, Head(avail[p])>>
  <2>1. CASE mode = "raw"
    BY <1>9, <2>1
  <2>2. CASE mode = "dewarp"
    BY <1>6, <1>8, <1>9, <2>2
  <2>3. CASE mode # "raw" /\ mode # "dewarp"
    BY <1>6, <1>8, <1>9, <2>3
  <2>4. QED
    BY <2>1, <2>2, <2>3
<1>11. \A p \in PoolsOf(mode) : x[p] \in PoolBuffers(p) /\ x[p] # Rk!None
  <2>1. \A p \in PoolsOf(mode) : p # "none"
    BY <1>9
  <2>2. QED
    BY <1>6, <1>10, <2>1 DEF PoolBuffers, Rk!None
<1>12. /\ mode = "raw" => x.param = Rk!None /\ x.stat = Rk!None
       /\ mode # "raw" => /\ x.param \in PoolBuffers("param") /\ x.param # Rk!None
                          /\ x.stat \in PoolBuffers("stat") /\ x.stat # Rk!None
       /\ mode = "dewarp" => x.main \in PoolBuffers("main")
  BY <1>8, <1>9, <1>11
<1>13. <<"app main", r>> \in AppBuffers("app main") /\ <<"app self", r>> \in AppBuffers("app self")
  BY DEF AppBuffers
<1>14. mode # "isp" => "self" \notin pend /\ "main" \in pend
  BY <1>5 DEF Rk!Streams
<1>15. /\ x.main \in {Rk!None} \cup PoolBuffers("main") \cup AppBuffers("app main")
       /\ x.self \in {Rk!None} \cup AppBuffers("app self")
       /\ x.param \in {Rk!None} \cup PoolBuffers("param") /\ x.stat \in {Rk!None} \cup PoolBuffers("stat")
  BY <1>8, <1>12, <1>13
<1>16. x \in Entries
  BY <1>8, <1>15 DEF Entries
<1>17. Shaped(mode, x)
  BY <1>8, <1>12, <1>14, <1>16 DEF Shaped
<1>18. /\ x.main # Rk!None => "main" \in pend
       /\ x.self # Rk!None => "self" \in pend
       /\ mode = "raw" => x.main = <<"app main", r>>
  BY <1>8, <1>14
<1>19. NewSound(r, x)
  BY <1>2, <1>3, <1>5, <1>6, <1>8, <1>10, <1>17, <1>18 DEF NewSound
<1>20. QED
  BY <1>1, <1>2, <1>7, <1>19

\* Nobody else has a buffer of the new frame.
Fresh(fi, x) == \A g \in DOMAIN fi : fi[g].request # x.request /\ \A d \in Devices : x[d] # Rk!None => fi[g][d] # x[d]

LEMMA NewIsFresh ==
    ASSUME RkConstants, OrderInv, FrameInv, active, ~Rk!Underrun, NEW r, NEW x, NewSound(r, x)
    PROVE  Fresh(frameInfo, x)
<1> SUFFICES ASSUME NEW g \in DOMAIN frameInfo, NEW d \in Devices, x[d] # Rk!None, frameInfo[g][d] = x[d]
             PROVE  FALSE
  BY DEF Fresh, NewSound
<1>1. PICK y : y = frameInfo[g] /\ Shaped(mode, y)
  BY EntryOf
<1>2. Shaped(mode, x) /\ y.request # x.request
  BY <1>1 DEF NewSound
<1>3. CASE d \in PoolsOf(mode)
  <2>1. x[d] = <<d, Head(avail[d])>>
    BY <1>3 DEF NewSound
  <2>2. avail[d] # <<>> /\ avail[d] \in Seq(Rk!Buffer) /\ PoolSound(d, frameInfo, avail[d])
    BY <1>3, PoolsNotEmpty
  <2>3. Head(avail[d]) \in ToSet(avail[d])
    BY <2>2, HeadInToSet
  <2>4. QED
    BY <2>1, <2>2, <2>3 DEF PoolSound
<1>4. CASE d \notin PoolsOf(mode)
  <2>1. \/ d = "main" /\ mode # "dewarp"
        \/ d = "self"
    <3>1. d \in {"param", "stat"} => mode = "raw"
      BY <1>4 DEF PoolsOf, Rk!Pool
    <3>2. d \notin {"param", "stat"}
      BY <1>2, <3>1 DEF Shaped
    <3>3. QED
      BY <1>4, <3>2 DEF Devices, PoolsOf, Rk!Pool
  <2>2. CASE d = "main" /\ mode # "dewarp"
    <3>1. x.main = <<"app main", x.request>> /\ y.main = <<"app main", y.request>>
      BY <1>1, <1>2, <2>2 DEF Shaped
    <3>2. QED
      BY <1>1, <1>2, <2>2, <3>1, SecondOfPair
  <2>3. CASE d = "self"
    <3>1. x.self = <<"app self", x.request>> /\ y.self = <<"app self", y.request>>
      BY <1>1, <1>2, <2>3 DEF Shaped
    <3>2. QED
      BY <1>1, <1>2, <2>3, <3>1, SecondOfPair
  <2>4. QED
    BY <2>1, <2>2, <2>3
<1>5. QED
  BY <1>3, <1>4

\* The calls and the buffers that queueRequestDevice() adds.
NewCalls(m, f) == {CallOf("queueRequest", f)} \cup (IF m = "raw" THEN {} ELSE {CallOf("computeParams", f)})
Added(m, x, D, D2) ==
    /\ \A d \in Rk!Device : d # "main" => D2[d] = D[d]
    /\ D2["main"] = D["main"] \/ (m = "raw" /\ D2["main"] = D["main"] \cup {x.main})

LEMMA NewFrameSound ==
    ASSUME NEW m, NEW fi, NEW f, f \notin DOMAIN fi, NEW x, Fresh(fi, x), NEW pend,
           ~x.paramDequeued, ~x.metadataProcessed,
           x.main # Rk!None => "main" \in pend, x.self # Rk!None => "self" \in pend,
           NEW D, NEW cs, NEW es, Owned(fi, D, cs, es), NEW D2, Added(m, x, D, D2),
           NEW cs2, cs2 = cs \cup NewCalls(m, f)
    PROVE  FrameSound(m, f, x, pend, D2, cs2, es)
<1>1. (\A op : CallOf(op, f) \notin cs) /\ (\A n : EventOf(n, f) \notin es)
  <2>1. (\A op : CallOf(op, f).frame = f) /\ (\A n : EventOf(n, f).frame = f)
    BY DEF CallOf, EventOf
  <2>2. QED
    BY <2>1 DEF Owned
<1>2. CallOf("processStats", f) \notin cs2 /\ (m = "raw" => CallOf("computeParams", f) \notin cs2)
  <2>1. /\ CallOf("processStats", f) # CallOf("queueRequest", f) /\ CallOf("processStats", f) # CallOf("computeParams", f)
        /\ CallOf("computeParams", f) # CallOf("queueRequest", f)
    BY NamesDiffer
  <2>2. QED
    BY <1>1, <2>1 DEF NewCalls
<1>3. ~StatsAsked(f, cs2, es) /\ (Asked(f, cs2, es) => m # "raw") /\ EventOf("paramsComputed", f) \notin es
      /\ EventOf("metadataReady", f) \notin es
  BY <1>1, <1>2 DEF StatsAsked, Asked
<1>4. \A d \in Devices : ~Inside(x, d, D)
  BY DEF Fresh, Owned, Inside
<1>5. m # "raw" => \A d \in Devices : ~Inside(x, d, D2)
  <2>1. m # "raw" => \A d \in Devices : D2[d] = D[d]
    BY DEF Added, Devices, Rk!Device
  <2>2. QED
    BY <1>4, <2>1 DEF Inside
<1>6. x.request \notin D2["dewarp"]
  BY DEF Added, Rk!Device, Owned, Fresh
<1>7. QED
  BY <1>3, <1>5, <1>6 DEF FrameSound

LEMMA OldFramesSound ==
    ASSUME NEW m, NEW fi, NEW f, f \notin DOMAIN fi, NEW g \in DOMAIN fi, NEW x, Fresh(fi, x),
           NEW D, NEW cs, NEW es, NEW D2, Added(m, x, D, D2), m = "raw" => x.main # Rk!None,
           NEW cs2, cs2 = cs \cup NewCalls(m, f)
    PROVE  NothingNew(g, fi[g], D, cs, es, D2, cs2, es)
<1>1. \A op : CallOf(op, g) \in cs2 => CallOf(op, g) \in cs
  <2>1. \A op : CallOf(op, g).frame = g /\ CallOf(op, f).frame = f
    BY DEF CallOf
  <2>2. \A c \in NewCalls(m, f) : c.frame = f
    BY <2>1 DEF NewCalls
  <2>3. QED
    BY <2>1, <2>2
<1>2. ASSUME NEW d \in Devices, Inside(fi[g], d, D2) PROVE Inside(fi[g], d, D)
  <2>1. CASE d = "main" /\ m = "raw"
    <3>1. fi[g].main # x.main
      BY <2>1 DEF Fresh
    <3>2. QED
      BY <1>2, <2>1, <3>1 DEF Inside, Added
  <2>2. CASE d # "main" \/ m # "raw"
    <3>1. D2[d] = D[d]
      BY <2>2 DEF Added, Devices, Rk!Device
    <3>2. QED
      BY <1>2, <3>1 DEF Inside
  <2>3. QED
    BY <2>1, <2>2
<1>3. D2["dewarp"] = D["dewarp"]
  BY DEF Added, Rk!Device
<1>4. QED
  BY <1>1, <1>2, <1>3 DEF NothingNew

LEMMA NewOwned ==
    ASSUME NEW m, NEW fi, NEW f, NEW fi2, With(fi2, fi, f), NEW x, fi2[f] = x, m = "raw" => x.main # Rk!None,
           NEW D, NEW cs, NEW es, Owned(fi, D, cs, es), NEW D2, Added(m, x, D, D2),
           NEW cs2, cs2 = cs \cup NewCalls(m, f)
    PROVE  Owned(fi2, D2, cs2, es)
<1>1. DOMAIN fi2 = DOMAIN fi \cup {f} /\ \A g \in DOMAIN fi : g \in DOMAIN fi2 /\ fi2[g] = fi[g]
  BY DEF With
<1>2. \A c \in NewCalls(m, f) : c.frame = f
  BY DEF NewCalls, CallOf
<1>3. (\A c \in cs2 : c.frame \in DOMAIN fi2) /\ (\A e \in es : e.frame \in DOMAIN fi2)
  BY <1>1, <1>2 DEF Owned
<1>4. ASSUME NEW d \in Devices, NEW b \in D2[d] PROVE b # Rk!None /\ \E g \in DOMAIN fi2 : fi2[g][d] = b
  <2>1. CASE b \in D[d]
    <3>1. PICK g \in DOMAIN fi : fi[g][d] = b /\ b # Rk!None
      BY <2>1 DEF Owned
    <3>2. QED
      BY <1>1, <3>1
  <2>2. CASE d = "main" /\ m = "raw" /\ b = x.main
    BY <1>1, <2>2
  <2>3. QED
    BY <2>1, <2>2 DEF Added, Devices, Rk!Device
<1>5. ASSUME NEW r \in D2["dewarp"] PROVE \E g \in DOMAIN fi2 : fi2[g].request = r /\ fi2[g].main # Rk!None
  <2>1. r \in D["dewarp"]
    BY DEF Added, Rk!Device
  <2>2. QED
    BY <1>1, <2>1 DEF Owned
<1>6. QED
  BY <1>3, <1>4, <1>5 DEF Owned

LEMMA NewCallsPosted ==
    ASSUME OrderInv, FrameInv, frameNumber \notin DOMAIN frameInfo,
           calls' = calls \o Rk!IpaCalls(frameNumber), events' = events
    PROVE  CallsSound' /\ ToSet(calls') = ToSet(calls) \cup NewCalls(mode, frameNumber)
<1>1. PICK f \in Nat : f = frameNumber /\ f \notin DOMAIN frameInfo
  BY DEF OrderInv, CountersSound
<1>2. PICK a, b : a = CallOf("queueRequest", f) /\ b = CallOf("computeParams", f)
  OBVIOUS
<1>3. /\ a \in CallRecords /\ b \in CallRecords /\ a.frame = f /\ b.frame = f /\ b.op = "computeParams" /\ a # b
  BY <1>2, NamesDiffer DEF CallOf, CallRecords
<1>4. PICK q \in Seq(CallRecords) : q = calls /\ IsInjective(q) /\ FirstCalls(q)
  BY DEF FrameInv, CallsSound
<1>5. \A c \in ToSet(q) : c.frame # f
  BY <1>1, <1>4, QueueMembers
<1>6. PICK qa : qa = Append(q, a)
  OBVIOUS
<1>7. qa \in Seq(CallRecords) /\ IsInjective(qa) /\ FirstCalls(qa) /\ ToSet(qa) = ToSet(q) \cup {a}
  <2>1. a \notin ToSet(q)
    BY <1>3, <1>5
  <2>2. \A c \in ToSet(q) : c.frame # a.frame
    BY <1>3, <1>5
  <2>3. a \in CallRecords /\ (a.op # "queueRequest" \/ \A c \in ToSet(q) : c.frame # a.frame)
    BY <1>3, <2>2
  <2>4. /\ Append(q, a) \in Seq(CallRecords) /\ IsInjective(Append(q, a)) /\ FirstCalls(Append(q, a))
        /\ ToSet(Append(q, a)) = ToSet(q) \cup {a}
    BY <1>4, <2>1, <2>3, CallPosted
  <2>5. QED
    BY <1>6, <2>4
<1>8. q \o <<a>> = qa
  <2>1. <<a>> = Append(<<>>, a) /\ <<>> \in Seq(CallRecords) /\ q \o <<>> = q
    OBVIOUS
  <2>2. q \o Append(<<>>, a) = Append(q \o <<>>, a)
    BY <1>3, <2>1, ConcatAppend
  <2>3. QED
    BY <1>6, <2>1, <2>2
<1>9. CASE mode = "raw"
  <2>1. Rk!IpaCalls(f) = <<a>>
    BY <1>2, <1>9 DEF Rk!IpaCalls, CallOf
  <2>2. calls' = qa
    BY <1>1, <1>4, <1>8, <2>1
  <2>3. NewCalls(mode, f) = {a}
    BY <1>2, <1>9 DEF NewCalls
  <2>4. QED
    BY <1>1, <1>4, <1>7, <2>2, <2>3 DEF FrameInv, CallsSound
<1>10. CASE mode # "raw"
  <2>1. PICK qb : qb = Append(qa, b)
    OBVIOUS
  <2>2. b \notin ToSet(qa)
    BY <1>3, <1>5, <1>7
  <2>3. qb \in Seq(CallRecords) /\ IsInjective(qb) /\ FirstCalls(qb) /\ ToSet(qb) = ToSet(qa) \cup {b}
    BY <1>3, <1>7, <2>1, <2>2, CallPosted
  <2>4. Rk!IpaCalls(f) = Append(<<a>>, b)
    <3>1. Rk!IpaCalls(f) = <<a>> \o <<b>>
      BY <1>2, <1>10 DEF Rk!IpaCalls, CallOf
    <3>2. <<a>> \o <<b>> = Append(<<a>>, b)
      OBVIOUS
    <3>3. QED
      BY <3>1, <3>2
  <2>5. q \o Append(<<a>>, b) = Append(q \o <<a>>, b)
    <3>1. <<a>> \in Seq(CallRecords)
      BY <1>3
    <3>2. QED
      BY <1>3, <3>1, ConcatAppend
  <2>6. calls' = qb
    BY <1>1, <1>4, <1>8, <2>1, <2>4, <2>5
  <2>7. NewCalls(mode, f) = {a, b}
    BY <1>2, <1>10 DEF NewCalls
  <2>8. QED
    BY <1>1, <1>4, <1>7, <2>3, <2>6, <2>7 DEF FrameInv, CallsSound
<1>11. QED
  BY <1>9, <1>10

LEMMA NewPools ==
    ASSUME RkConstants, FrameInv, active, ~Rk!Underrun, NEW r, NEW x, NewSound(r, x),
           NEW f, f \notin DOMAIN frameInfo, NEW fi, With(fi, frameInfo, f), fi[f] = x,
           NEW av, av = [p \in Rk!Pool |-> IF p \in Rk!Taken THEN Tail(avail[p]) ELSE avail[p]]
    PROVE  PoolsSound(TRUE, mode, fi, av)
<1>1. Rk!Taken = PoolsOf(mode) /\ PoolsOf(mode) \subseteq Rk!Pool
  BY DEF Rk!Taken, PoolsOf, Rk!Pool
<1>2. avail \in [Rk!Pool -> Seq(Rk!Buffer)] /\ IsFiniteSet(DOMAIN frameInfo)
  BY DEF FrameInv, PoolsSound
<1>3. ASSUME NEW p \in PoolsOf(mode) PROVE av[p] \in Seq(Rk!Buffer) /\ PoolSound(p, fi, av[p])
  <2>1. PICK q \in Seq(Rk!Buffer) : q = avail[p] /\ q # <<>> /\ PoolSound(p, frameInfo, q)
    BY <1>3, PoolsNotEmpty
  <2>2. fi[f][p] = <<p, Head(q)>>
    BY <1>3, <2>1 DEF NewSound
  <2>3. PoolSound(p, fi, Tail(q))
    BY <1>2, <2>1, <2>2, BufferTaken
  <2>4. av[p] = Tail(q) /\ Tail(q) \in Seq(Rk!Buffer)
    BY <1>1, <2>1, HeadInToSet
  <2>5. QED
    BY <2>3, <2>4
<1>4. \A p \in Rk!Pool \ PoolsOf(mode) : av[p] = avail[p]
  BY <1>1
<1>5. \A p \in Rk!Pool : av[p] \in Seq(Rk!Buffer)
  BY <1>2, <1>3, <1>4
<1>6. av \in [Rk!Pool -> Seq(Rk!Buffer)]
  BY <1>5
<1>7. IsFiniteSet(DOMAIN fi)
  <2>1. DOMAIN fi = DOMAIN frameInfo \cup {f}
    BY DEF With
  <2>2. QED
    BY <1>2, <2>1, FS_AddElement
<1>8. QED
  BY <1>3, <1>6, <1>7 DEF PoolsSound

LEMMA RawImage ==
    ASSUME NEW r, NEW x, NewSound(r, x), mode = "raw"
    PROVE  x.main \in DeviceBuffers /\ x.main # Rk!None
<1>1. x.main = <<"app main", r>> /\ r \in Request
  BY DEF NewSound
<1>2. <<"app main", r>> \in AppBuffers("app main")
  BY <1>1 DEF AppBuffers
<1>3. <<"app main", r>> # Rk!None
  BY DEF Rk!None
<1>4. QED
  BY <1>1, <1>2, <1>3 DEF DeviceBuffers

LEMMA NewDevices ==
    ASSUME FrameInv, NEW r, NEW x, NewSound(r, x), Fresh(frameInfo, x),
           buffers' = buffers \/ (mode = "raw" /\ buffers' = [buffers EXCEPT !["main"] = Append(@, x.main)])
    PROVE  DevicesSound' /\ Added(mode, x, InDevices, InDevices')
<1>1. DevicesSound
  BY DEF FrameInv
<1>2. "main" \in Rk!Device /\ "main" \in Devices /\ "dewarp" \in Rk!Device /\ \A d \in Devices : d \in Rk!Device /\ d # "dewarp"
  BY DEF Rk!Device, Devices
<1>3. \A d \in Rk!Device : InDevices[d] = ToSet(buffers[d]) /\ InDevices'[d] = ToSet(buffers'[d])
  BY DEF InDevices
<1>4. CASE buffers' = buffers
  <2>1. buffers' = buffers
    BY <1>4
  <2>2. DevicesSound'
    BY <1>1, <2>1 DEF DevicesSound
  <2>3. Added(mode, x, InDevices, InDevices')
    BY <1>2, <1>3, <1>4, <2>1 DEF Added
  <2>4. QED
    BY <2>2, <2>3
<1>5. CASE mode = "raw" /\ buffers' = [buffers EXCEPT !["main"] = Append(@, x.main)]
  <2>0. x.main \in DeviceBuffers /\ x.main # Rk!None
    BY <1>5, RawImage
  <2>1. PICK b \in DeviceBuffers : b = x.main /\ b # Rk!None
    BY <2>0
  <2>2. PICK q \in Seq(DeviceBuffers) : q = buffers["main"] /\ IsInjective(q)
    BY <1>1, <1>2 DEF DevicesSound
  <2>3. b \notin ToSet(q)
    <3>1. \A c \in InDevices["main"] : \E g \in DOMAIN frameInfo : frameInfo[g]["main"] = c
      BY <1>2 DEF FrameInv, EntriesSound, Owned
    <3>2. \A g \in DOMAIN frameInfo : frameInfo[g]["main"] # b
      BY <1>2, <2>1 DEF Fresh
    <3>3. QED
      BY <1>2, <1>3, <2>2, <3>1, <3>2
  <2>4. ToSet(Append(q, b)) = ToSet(q) \cup {b} /\ IsInjective(Append(q, b)) /\ Append(q, b) \in Seq(DeviceBuffers)
    BY <2>2, <2>3, ToSetOfAppend, InjectiveAppend
  <2>5. /\ DOMAIN buffers' = Rk!Device /\ buffers'["main"] = Append(q, b)
        /\ \A d \in Rk!Device : d # "main" => buffers'[d] = buffers[d]
    BY <1>1, <1>2, <1>5, <2>1, <2>2 DEF DevicesSound
  <2>6. DevicesSound'
    <3>1. \A d \in Devices : buffers'[d] \in Seq(DeviceBuffers)
      BY <1>1, <1>2, <2>4, <2>5 DEF DevicesSound
    <3>2. \A d \in Rk!Device : IsInjective(buffers'[d])
      BY <1>1, <2>4, <2>5 DEF DevicesSound
    <3>3. buffers'["dewarp"] \in Seq(Request)
      BY <1>1, <1>2, <2>5 DEF DevicesSound
    <3>4. QED
      BY <2>5, <3>1, <3>2, <3>3 DEF DevicesSound
  <2>7. Added(mode, x, InDevices, InDevices')
    BY <1>2, <1>3, <1>5, <2>1, <2>2, <2>4, <2>5 DEF Added
  <2>8. QED
    BY <2>6, <2>7
<1>6. QED
  BY <1>4, <1>5

LEMMA CreateFrame ==
    ASSUME RkConstants, OrderInv, OrderInv', FrameInv, waiting # <<>>, ~Rk!Underrun,
           Rk!queueRequestDevice(Head(waiting)), waiting' = Tail(waiting),
           UNCHANGED <<mode, active, pc, ret, req, events>>
    PROVE  FrameInv'
<1>1. PICK r, x : r = Head(waiting) /\ x = Rk!NewInfo(r)
  OBVIOUS
<1>2. active /\ Stage = "loop" /\ NewSound(r, x)
  BY <1>1, NewEntry
<1>3. Fresh(frameInfo, x)
  BY <1>2, NewIsFresh
<1>4. PICK f \in Nat : f = frameNumber /\ f \notin DOMAIN frameInfo /\ \A g \in DOMAIN frameInfo : g \in Nat /\ g < f
  BY DEF OrderInv, CountersSound, FramesSound, FrameInv
<1>5. PICK fi : fi = [g \in DOMAIN frameInfo \cup {f} |-> IF g = f THEN x ELSE frameInfo[g]]
  OBVIOUS
<1>6. With(fi, frameInfo, f) /\ fi[f] = x
  BY <1>4, <1>5 DEF With
<1>7. PICK av : av = [p \in Rk!Pool |-> IF p \in Rk!Taken THEN Tail(avail[p]) ELSE avail[p]]
  OBVIOUS
<1>8. /\ frameInfo' = fi /\ avail' = av /\ calls' = calls \o Rk!IpaCalls(frameNumber)
      /\ buffers' = buffers \/ (mode = "raw" /\ buffers' = [buffers EXCEPT !["main"] = Append(@, x.main)])
      /\ frameNumber' = f + 1
  BY <1>1, <1>4, <1>5, <1>7 DEF Rk!queueRequestDevice
<1>9. PoolsSound(TRUE, mode, fi, av)
  BY <1>2, <1>4, <1>6, <1>7, NewPools
<1>10. PICK D, cs, es, cs2 : D = InDevices' /\ cs = ToSet(calls) /\ es = ToSet(events) /\ cs2 = cs \cup NewCalls(mode, f)
  OBVIOUS
<1>11. CallsSound' /\ ToSet(calls') = cs2
  BY <1>4, <1>8, <1>10, NewCallsPosted
<1>12. DevicesSound' /\ Added(mode, x, InDevices, D)
  BY <1>2, <1>3, <1>8, <1>10, NewDevices
<1>13. mode = "raw" => x.main # Rk!None
  BY <1>2, RawImage
<1>14. EntriesSound(mode, frameInfo, req, InDevices, cs, es) /\ Owned(frameInfo, InDevices, cs, es)
  BY <1>10 DEF FrameInv, EntriesSound
<1>15. Owned(fi, D, cs2, es)
  BY <1>6, <1>10, <1>12, <1>13, <1>14, NewOwned
<1>16. ASSUME NEW g \in DOMAIN fi
       PROVE  Shaped(mode, fi[g]) /\ FrameSound(mode, g, fi[g], req[fi[g].request].pending, D, cs2, es)
  <2>1. CASE g = f
    <3>1. fi[g] = x /\ x.request = r /\ Shaped(mode, x) /\ ~x.paramDequeued /\ ~x.metadataProcessed
      BY <1>2, <1>6, <2>1 DEF NewSound
    <3>2. PICK pend : /\ pend = req[r].pending
                      /\ (x.main # Rk!None => "main" \in pend) /\ (x.self # Rk!None => "self" \in pend)
      BY <1>2 DEF NewSound
    <3>3. FrameSound(mode, f, x, pend, D, cs2, es)
      BY <1>3, <1>4, <1>10, <1>12, <1>14, <3>1, <3>2, NewFrameSound
    <3>4. QED
      BY <2>1, <3>1, <3>2, <3>3
  <2>2. CASE g # f
    <3>1. g \in DOMAIN frameInfo /\ fi[g] = frameInfo[g]
      BY <1>6, <2>2 DEF With
    <3>2. NothingNew(g, frameInfo[g], InDevices, cs, es, D, cs2, es)
      BY <1>3, <1>4, <1>10, <1>12, <1>13, <3>1, OldFramesSound
    <3>3. Shaped(mode, frameInfo[g]) /\ FrameSound(mode, g, frameInfo[g], req[frameInfo[g].request].pending, InDevices, cs, es)
      BY <1>10, <3>1, EntryOf
    <3>4. FrameSound(mode, g, frameInfo[g], req[frameInfo[g].request].pending, D, cs2, es)
      BY <3>2, <3>3, LessIsSound
    <3>5. QED
      BY <3>1, <3>3, <3>4
  <2>3. QED
    BY <2>1, <2>2
<1>17. EntriesSound(mode, fi, req, D, cs2, es)
  BY <1>15, <1>16 DEF EntriesSound
<1>18. EntriesSound(mode', frameInfo', req', InDevices', ToSet(calls'), ToSet(events'))
  BY <1>8, <1>10, <1>11, <1>17
<1>19. \A g \in DOMAIN frameInfo' : g < frameNumber'
  BY <1>4, <1>6, <1>8 DEF With
<1>20. active' = TRUE
  BY <1>2 DEF FrameInv, PhasesSound
<1>21. PoolsSound(active', mode', frameInfo', avail')
  BY <1>8, <1>9, <1>20
<1>22. ToSet(waiting') \subseteq ToSet(waiting)
  BY ToSetOfTail DEF OrderInv, QueuesSound
<1>23. Stage' = "loop" /\ Emptied("loop") = {}
  BY <1>2, StagesEmptied DEF Stage
<1>24. PhasesSound'
  BY <1>2, <1>20, <1>22, <1>23 DEF FrameInv, PhasesSound
<1>25. QED
  BY <1>11, <1>12, <1>18, <1>19, <1>21, <1>24 DEF FrameInv

LEMMA DoQueueFrame ==
    ASSUME RkConstants, OrderInv, OrderInv', FrameInv, Rk!DoQueueRequests
    PROVE  FrameInv'
<1>1. pc = "doQueue" /\ UNCHANGED <<mode, active, ret, events>>
  BY DEF Rk!DoQueueRequests
<1>2. \/ /\ pc' = ret /\ UNCHANGED <<waiting, req, frameNumber, frameInfo, avail, calls, buffers>>
      \/ /\ waiting # <<>> /\ waiting' = Tail(waiting) /\ pc' = "complete"
         /\ req' = [req EXCEPT ![Head(waiting)] = [status |-> "Cancelled", pending |-> {}]]
         /\ UNCHANGED <<frameNumber, frameInfo, avail, calls, buffers>>
      \/ /\ waiting # <<>> /\ waiting' = Tail(waiting) /\ ~Rk!Underrun
         /\ Rk!queueRequestDevice(Head(waiting)) /\ UNCHANGED <<req, pc>>
  BY DEF Rk!DoQueueRequests
<1>3. CASE pc' = ret /\ UNCHANGED <<waiting, req, frameNumber, frameInfo, avail, calls, buffers>>
  <2>1. ret \in Stages /\ ret \notin {"complete", "doQueue"}
    BY DEF FrameInv, PhasesSound, Stages, Rk!Device
  <2>2. Stage' = Stage
    BY <1>1, <1>3, <2>1 DEF Stage
  <2>3. PhasesSound'
    BY <1>1, <1>3, <2>1, <2>2 DEF FrameInv, PhasesSound
  <2>4. QED
    BY <1>1, <1>3, <2>3, FramesAlone
<1>4. CASE /\ waiting # <<>> /\ waiting' = Tail(waiting) /\ pc' = "complete"
           /\ req' = [req EXCEPT ![Head(waiting)] = [status |-> "Cancelled", pending |-> {}]]
           /\ UNCHANGED <<frameNumber, frameInfo, avail, calls, buffers>>
  <2>1. Stage' = Stage
    BY <1>1, <1>4 DEF Stage
  <2>2. PICK r \in Request : r = Head(waiting) /\ r \in ToSet(waiting) /\ ToSet(waiting') = ToSet(waiting) \ {r}
    BY <1>4, HeadInToSet, ToSetOfTail DEF OrderInv, QueuesSound
  <2>3. \A x \in Request : x # r => req'[x] = req[x]
    BY <1>4, <2>2, PendingRequests
  <2>4. \A f \in DOMAIN frameInfo : req'[frameInfo[f].request].pending = req[frameInfo[f].request].pending
    BY <2>2, <2>3, EntryRequest
  <2>5. \A x \in ToSet(waiting') : x \in ToSet(waiting) /\ req'[x].pending = req[x].pending
    BY <2>2, <2>3, PendingRequests
  <2>6. PhasesSound'
    BY <1>1, <1>4, <2>1, <2>5 DEF FrameInv, PhasesSound
  <2>7. QED
    BY <1>1, <1>4, <2>4, <2>6, FramesAlone
<1>5. CASE /\ waiting # <<>> /\ waiting' = Tail(waiting) /\ ~Rk!Underrun
           /\ Rk!queueRequestDevice(Head(waiting)) /\ UNCHANGED <<req, pc>>
  BY <1>1, <1>5, CreateFrame
<1>6. QED
  BY <1>2, <1>3, <1>4, <1>5

LEMMA FrameStep ==
    ASSUME RkConstants, OrderInv, OrderInv', FrameInv, [Rk!Next]_(Rk!vars)
    PROVE  FrameInv'
<1>1. CASE UNCHANGED Rk!vars
  <2>1. UNCHANGED <<mode, active, pc, ret, waiting, req, frameNumber, frameInfo, avail, buffers, calls, events>>
    BY <1>1 DEF Rk!vars, Rk!queueVars, Rk!frameVars, Rk!ipaVars
  <2>2. Stage' = Stage
    BY <2>1 DEF Stage
  <2>3. PhasesSound'
    BY <2>1, <2>2 DEF FrameInv, PhasesSound
  <2>4. QED
    BY <2>1, <2>3, FramesAlone
<1>2. CASE Rk!CompleteRequest
  BY <1>2, CompleteFrame
<1>3. CASE Rk!DoQueueRequests
  BY <1>3, DoQueueFrame
<1>4. CASE Rk!IpaEvent
  BY <1>4, IpaEventFrame
<1>5. CASE Rk!IpaStop
  BY <1>5, IpaStopFrame
<1>6. CASE Rk!IpaStopped
  BY <1>6, IpaStoppedFrame
<1>7. CASE Rk!StreamOff
  <2>1. pc \in Rk!Device /\ Returning("Cancelled") /\ pc \notin {"complete", "doQueue"}
    BY <1>7 DEF Rk!StreamOff, Returning, Rk!Device
  <2>2. \/ Rk!BufferReady(pc, "Cancelled")
        \/ Rk!DewarpInput("Cancelled")
        \/ Rk!DewarpOutput
        \/ /\ buffers[pc] = <<>> /\ pc' = Rk!NextOff[pc]
           /\ UNCHANGED <<mode, active, ret, waiting, frameNumber, frameInfo, avail, req, buffers, calls, events>>
    BY <1>7 DEF Rk!StreamOff, Rk!queueVars, Rk!frameVars, Rk!ipaVars
  <2>3. QED
    BY <2>1, <2>2, BufferReadyFrame, DewarpInputFrame, DewarpOutputFrame, NextOffFrame
<1>8. CASE Rk!StopDevice
  BY <1>8, StopDeviceFrame
<1>9. CASE Rk!StopWaiting
  BY <1>9, StopWaitingFrame
<1>10. CASE Rk!IpaThread
  BY <1>10, IpaThreadFrame
<1>11. CASE Rk!Capture
  <2>1. pc = "loop" /\ Returning("Success") /\ pc \notin {"complete", "doQueue"}
    BY <1>11 DEF Rk!Capture, Returning
  <2>2. QED
    BY <1>11, <2>1, BufferReadyFrame, DewarpInputFrame, DewarpOutputFrame DEF Rk!Capture
<1>12. CASE \E m \in Modes : Rk!Configure(m)
  BY <1>12, ConfigureFrame
<1>13. CASE Rk!Start \/ Rk!StartFails
  BY <1>13, StartFrame, StartFailsFrame
<1>14. CASE Rk!Stop
  BY <1>14, StopFrame
<1>15. CASE \E r \in Request : \E S \in (SUBSET Rk!Streams(mode)) \ {{}} : Rk!QueueRequest(r, S)
  BY <1>15, QueueFrame
<1>16. QED
  BY <1>1, <1>2, <1>3, <1>4, <1>5, <1>6, <1>7, <1>8, <1>9, <1>10, <1>11, <1>12, <1>13, <1>14, <1>15
     DEF Rk!Next, Rk!PipelineThread

LEMMA FrameInvMeans ==
    ASSUME OrderInv, FrameInv
    PROVE  Rk!BuffersAccounted
<1> SUFFICES ASSUME active PROVE Rk!BuffersAccounted
  BY DEF Rk!BuffersAccounted
<1>1. Rk!Taken = PoolsOf(mode) /\ PoolsOf(mode) \subseteq Rk!Pool
  BY DEF Rk!Taken, PoolsOf, Rk!Pool
<1>2. ASSUME NEW p \in Rk!Taken
      PROVE  /\ Rk!IsInjective(avail[p])
             /\ Len(avail[p]) + Cardinality(DOMAIN frameInfo) = MaxQueued
             /\ \A f, g \in DOMAIN frameInfo : f # g => frameInfo[f][p] # frameInfo[g][p]
             /\ \A i \in Rk!Range(avail[p]) : <<p, i>> \notin Rk!Lent(p)
  <2>1. PoolSound(p, frameInfo, avail[p])
    BY <1>1 DEF FrameInv, PoolsSound
  <2>2. Rk!Range(avail[p]) = ToSet(avail[p])
    BY DEF Rk!Range, ToSet
  <2>3. Rk!IsInjective(avail[p])
    BY <2>1 DEF PoolSound, IsInjective, Rk!IsInjective
  <2>4. QED
    BY <2>1, <2>2, <2>3 DEF PoolSound, Rk!Lent
<1>3. ASSUME NEW d \in Rk!Device \ {"dewarp"}, NEW i \in DOMAIN buffers[d] PROVE Rk!FramesWith(buffers[d][i]) # {}
  <2>1. d \in Devices /\ buffers[d][i] \in ToSet(buffers[d])
    BY DEF Rk!Device, Devices, ToSet
  <2>2. QED
    BY <2>1, OwnerFound
<1>4. ASSUME NEW i \in DOMAIN calls PROVE calls[i].frame \in DOMAIN frameInfo
  BY QueueMembers DEF ToSet
<1>5. ASSUME NEW i \in DOMAIN events PROVE events[i].frame \in DOMAIN frameInfo
  BY QueueMembers DEF ToSet
<1>6. Rk!Cardinality(DOMAIN frameInfo) = Cardinality(DOMAIN frameInfo)
  BY DEF Rk!Cardinality, Cardinality
<1>7. QED
  BY <1>2, <1>3, <1>4, <1>5, <1>6 DEF Rk!BuffersAccounted

\* RkBuffersAccounted: while the camera runs, an internal buffer of the rkisp1 pipeline
\* handler is in its pool, once, or lent to exactly one frame, and tryCompleteRequest()
\* never destroys a frame that a device still has a buffer of or the IPA a call or an
\* event about, for any number of requests, buffers, frame contexts and faults.
THEOREM RkBuffersKept ==
    ASSUME RkConstants
    PROVE  Rk!Spec => []Rk!BuffersAccounted /\ []RkBuffersAccounted
<1>1. Rk!Init => OrderInv /\ FrameInv
  BY InitFrame, InitOrder
<1>2. (OrderInv /\ FrameInv) /\ [Rk!Next]_(Rk!vars) => (OrderInv /\ FrameInv)'
  BY OrderStep, FrameStep
<1>3. OrderInv /\ FrameInv => Rk!BuffersAccounted /\ RkBuffersAccounted
  BY FrameInvMeans DEF RkBuffersAccounted
<1>4. QED
  BY <1>1, <1>2, <1>3, PTL DEF Rk!Spec
=============================================================================
