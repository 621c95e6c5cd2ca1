---------------------------- MODULE QueueLemmas ----------------------------
(***************************************************************************)
(* What Append and Tail do to the elements of a queue, and induction over   *)
(* the members of a finite set, stated once for the proofs about the queues *)
(* of requests, buffers and messages.                                       *)
(***************************************************************************)
EXTENDS Integers, Sequences, SequencesExt, SequenceTheorems, WellFoundedInduction, TLAPS

\* Pushing adds one element.
LEMMA ToSetOfAppend ==
    ASSUME NEW S, NEW q \in Seq(S), NEW x \in S
    PROVE  ToSet(Append(q, x)) = ToSet(q) \cup {x}
<1> DEFINE a == Append(q, x)
<1>1. Len(a) = Len(q) + 1 /\ a[Len(q) + 1] = x /\ \A i \in 1 .. Len(q) : a[i] = q[i]
  OBVIOUS
<1>2. Len(q) \in Nat /\ DOMAIN q = 1 .. Len(q) /\ DOMAIN a = 1 .. Len(a)
  OBVIOUS
<1> HIDE DEF a
<1>3. \A i \in 1 .. Len(q) + 1 : i \in 1 .. Len(q) \/ i = Len(q) + 1
  BY <1>2
<1>4. Len(q) + 1 \in 1 .. Len(q) + 1 /\ \A i \in 1 .. Len(q) : i \in 1 .. Len(q) + 1
  BY <1>2
<1>5. QED
  BY <1>1, <1>2, <1>3, <1>4 DEF a, ToSet

\* Pushing a new element keeps a queue free of repetitions.
LEMMA InjectiveAppend ==
    ASSUME NEW S, NEW q \in Seq(S), NEW x \in S, IsInjective(q), x \notin ToSet(q)
    PROVE  IsInjective(Append(q, x))
<1> DEFINE a == Append(q, x)
<1>1. Len(a) = Len(q) + 1 /\ a[Len(q) + 1] = x /\ \A i \in 1 .. Len(q) : a[i] = q[i]
  OBVIOUS
<1>2. Len(q) \in Nat /\ DOMAIN q = 1 .. Len(q) /\ DOMAIN a = 1 .. Len(a)
  OBVIOUS
<1> HIDE DEF a
<1>3. \A i \in 1 .. Len(q) + 1 : i \in 1 .. Len(q) \/ i = Len(q) + 1
  BY <1>2
<1>4. \A i \in 1 .. Len(q) : q[i] # x
  BY <1>2 DEF ToSet
<1>5. QED
  BY <1>1, <1>2, <1>3, <1>4 DEF a, IsInjective

\* The first element is an element.
LEMMA HeadInToSet ==
    ASSUME NEW S, NEW q \in Seq(S), q # <<>>
    PROVE  Head(q) \in ToSet(q) /\ Head(q) \in S /\ Tail(q) \in Seq(S)
<1>1. Len(q) \in Nat /\ Len(q) > 0 /\ DOMAIN q = 1 .. Len(q) /\ Head(q) = q[1]
  OBVIOUS
<1>2. QED
  BY <1>1 DEF ToSet

\* Popping removes the first element, and only that, from a queue without
\* repetitions, and leaves it without repetitions.
LEMMA ToSetOfTail ==
    ASSUME NEW S, NEW q \in Seq(S), q # <<>>, IsInjective(q)
    PROVE  /\ ToSet(Tail(q)) = ToSet(q) \ {Head(q)}
           /\ IsInjective(Tail(q))
<1> DEFINE t == Tail(q)
<1>1. /\ Len(q) \in Nat /\ Len(q) > 0 /\ DOMAIN q = 1 .. Len(q) /\ Head(q) = q[1]
      /\ Len(t) = Len(q) - 1 /\ DOMAIN t = 1 .. Len(q) - 1
      /\ \A i \in 1 .. Len(q) - 1 : t[i] = q[i + 1]
  OBVIOUS
<1> HIDE DEF t
<1>2. \A i \in 1 .. Len(q) - 1 : i + 1 \in 1 .. Len(q) /\ i + 1 # 1
  BY <1>1
<1>3. \A i \in 1 .. Len(q) : i = 1 \/ (i - 1 \in 1 .. Len(q) - 1 /\ (i - 1) + 1 = i)
  BY <1>1
<1>4. ToSet(t) \subseteq ToSet(q) \ {Head(q)}
  BY <1>1, <1>2 DEF ToSet, IsInjective
<1>5. ToSet(q) \ {Head(q)} \subseteq ToSet(t)
  <2>1. \A i \in 1 .. Len(q) : i # 1 => i - 1 \in DOMAIN t /\ q[i] = t[i - 1]
    BY <1>1, <1>3
  <2>2. QED
    BY <1>1, <2>1 DEF ToSet
<1>6. IsInjective(t)
  <2> SUFFICES ASSUME NEW i \in 1 .. Len(q) - 1, NEW j \in 1 .. Len(q) - 1, t[i] = t[j]
               PROVE  i = j
    BY <1>1 DEF IsInjective
  <2>1. i + 1 = j + 1
    BY <1>1, <1>2 DEF IsInjective
  <2>2. QED
    BY <1>1, <2>1
<1>7. QED
  BY <1>4, <1>5, <1>6 DEF t

\* The empty queue.
LEMMA ToSetOfEmpty == ToSet(<<>>) = {} /\ IsInjective(<<>>)
  BY DEF ToSet, IsInjective

\* Two queues in a row, q before s: pushing to the second one ...
LEMMA ConcatAppend ==
    ASSUME NEW S, NEW q \in Seq(S), NEW s \in Seq(S), NEW x \in S
    PROVE  q \o Append(s, x) = Append(q \o s, x)
<1> DEFINE a == q \o Append(s, x)
           b == Append(q \o s, x)
<1>1. Append(s, x) \in Seq(S) /\ q \o s \in Seq(S) /\ a \in Seq(S) /\ b \in Seq(S)
  BY ConcatProperties
<1>2. /\ Len(q) \in Nat /\ Len(s) \in Nat
      /\ Len(Append(s, x)) = Len(s) + 1 /\ Append(s, x)[Len(s) + 1] = x
      /\ \A i \in 1 .. Len(s) : Append(s, x)[i] = s[i]
  OBVIOUS
<1>3. /\ Len(q \o s) = Len(q) + Len(s)
      /\ \A i \in 1 .. Len(q) + Len(s) : (q \o s)[i] = IF i <= Len(q) THEN q[i] ELSE s[i - Len(q)]
  BY ConcatProperties
<1>4. /\ Len(a) = Len(q) + Len(s) + 1
      /\ \A i \in 1 .. Len(q) + Len(s) + 1 :
             a[i] = IF i <= Len(q) THEN q[i] ELSE Append(s, x)[i - Len(q)]
  BY <1>1, <1>2, ConcatProperties
<1>5. /\ Len(b) = Len(q \o s) + 1 /\ b[Len(q \o s) + 1] = x
      /\ \A i \in 1 .. Len(q \o s) : b[i] = (q \o s)[i]
  BY <1>1
<1> HIDE DEF a, b
<1>6. ASSUME NEW i \in 1 .. Len(a) PROVE a[i] = b[i]
  <2>1. CASE i <= Len(q)
    BY <1>2, <1>3, <1>4, <1>5, <2>1
  <2>2. CASE i > Len(q) /\ i <= Len(q) + Len(s)
    <3>1. i - Len(q) \in 1 .. Len(s)
      BY <1>2, <1>4, <2>2
    <3>2. QED
      BY <1>2, <1>3, <1>4, <1>5, <2>2, <3>1
  <2>3. CASE i = Len(q) + Len(s) + 1
    <3>1. i - Len(q) = Len(s) + 1 /\ ~(i <= Len(q))
      BY <1>2, <2>3
    <3>2. QED
      BY <1>2, <1>3, <1>4, <1>5, <2>3, <3>1
  <2>4. i \in 1 .. Len(q) + Len(s) + 1
    BY <1>4
  <2>5. QED
    BY <1>2, <2>1, <2>2, <2>3, <2>4
<1>7. QED
  BY <1>1, <1>3, <1>4, <1>5, <1>6, SeqEqual DEF a, b

\* ... moving the first element of the second one to the end of the first one ...
LEMMA ConcatShift ==
    ASSUME NEW S, NEW q \in Seq(S), NEW s \in Seq(S), s # <<>>
    PROVE  Append(q, Head(s)) \o Tail(s) = q \o s
<1> DEFINE h == Append(q, Head(s))
           t == Tail(s)
           a == h \o t
           b == q \o s
<1>1. /\ Head(s) \in S /\ t \in Seq(S) /\ Len(t) = Len(s) - 1
      /\ \A i \in 1 .. Len(s) - 1 : t[i] = s[i + 1]
  BY HeadTailProperties
<1>2. /\ h \in Seq(S) /\ Len(h) = Len(q) + 1 /\ h[Len(q) + 1] = Head(s)
      /\ \A i \in 1 .. Len(q) : h[i] = q[i]
      /\ Head(s) = s[1] /\ Len(q) \in Nat /\ Len(s) \in Nat /\ Len(s) > 0
  BY <1>1
<1> HIDE DEF h, t
<1>3. /\ a \in Seq(S) /\ Len(a) = Len(h) + Len(t)
      /\ \A i \in 1 .. Len(h) + Len(t) : a[i] = IF i <= Len(h) THEN h[i] ELSE t[i - Len(h)]
  <2>1. h \in Seq(S) /\ t \in Seq(S)
    BY <1>1, <1>2
  <2>2. QED
    BY <2>1, ConcatProperties
<1>4. /\ b \in Seq(S) /\ Len(b) = Len(q) + Len(s)
      /\ \A i \in 1 .. Len(q) + Len(s) : b[i] = IF i <= Len(q) THEN q[i] ELSE s[i - Len(q)]
  BY ConcatProperties
<1> HIDE DEF a, b
<1>5. ASSUME NEW i \in 1 .. Len(a) PROVE a[i] = b[i]
  <2>1. CASE i <= Len(q)
    BY <1>2, <1>3, <1>4, <2>1
  <2>2. CASE i = Len(q) + 1
    <3>1. i - Len(q) = 1
      BY <1>2, <2>2
    <3>2. a[i] = h[i]
      BY <1>1, <1>2, <1>3, <2>2
    <3>3. b[i] = s[i - Len(q)]
      <4>1. i \in 1 .. Len(q) + Len(s) /\ ~(i <= Len(q))
        BY <1>2, <2>2
      <4>2. QED
        BY <1>4, <4>1
    <3>4. h[i] = Head(s)
      BY <1>2, <2>2
    <3>5. QED
      BY <1>2, <3>1, <3>2, <3>3, <3>4
  <2>3. CASE i > Len(q) + 1
    <3>1. i - Len(h) \in 1 .. Len(s) - 1 /\ (i - Len(h)) + 1 = i - Len(q)
      BY <1>1, <1>2, <1>3, <2>3
    <3>2. a[i] = t[i - Len(h)]
      <4>1. i \in 1 .. Len(h) + Len(t) /\ ~(i <= Len(h))
        BY <1>2, <1>3, <2>3
      <4>2. QED
        BY <1>3, <4>1
    <3>3. b[i] = s[i - Len(q)]
      <4>1. i \in 1 .. Len(q) + Len(s) /\ ~(i <= Len(q))
        BY <1>1, <1>2, <1>3, <2>3
      <4>2. QED
        BY <1>4, <4>1
    <3>4. t[i - Len(h)] = s[(i - Len(h)) + 1]
      BY <1>1, <3>1
    <3>5. QED
      BY <3>1, <3>2, <3>3, <3>4
  <2>4. QED
    BY <1>2, <1>3, <2>1, <2>2, <2>3
<1>6. Len(a) = Len(b)
  BY <1>1, <1>2, <1>3, <1>4
<1>7. QED
  BY <1>3, <1>4, <1>5, <1>6, SeqEqual DEF a, b, h, t

\* ... and popping from the first one.
LEMMA ConcatPop ==
    ASSUME NEW S, NEW q \in Seq(S), NEW s \in Seq(S), q # <<>>
    PROVE  /\ q \o s # <<>>
           /\ Head(q \o s) = Head(q)
           /\ Tail(q) \o s = Tail(q \o s)
<1> DEFINE c == q \o s
           a == Tail(q) \o s
           b == Tail(c)
<1>1. /\ c \in Seq(S) /\ Len(c) = Len(q) + Len(s)
      /\ \A i \in 1 .. Len(q) + Len(s) : c[i] = IF i <= Len(q) THEN q[i] ELSE s[i - Len(q)]
  BY ConcatProperties
<1>2. /\ Len(q) \in Nat /\ Len(q) > 0 /\ Len(s) \in Nat /\ Head(q) = q[1]
      /\ Tail(q) \in Seq(S) /\ Len(Tail(q)) = Len(q) - 1
      /\ \A i \in 1 .. Len(q) - 1 : Tail(q)[i] = q[i + 1]
  BY HeadTailProperties
<1>3. /\ a \in Seq(S) /\ Len(a) = (Len(q) - 1) + Len(s)
      /\ \A i \in 1 .. (Len(q) - 1) + Len(s) :
             a[i] = IF i <= Len(q) - 1 THEN Tail(q)[i] ELSE s[i - (Len(q) - 1)]
  BY <1>2, ConcatProperties
<1> HIDE DEF c, a
<1>4. c # <<>> /\ Head(c) = c[1] /\ c[1] = q[1]
  BY <1>1, <1>2
<1>5. b \in Seq(S) /\ Len(b) = Len(c) - 1 /\ \A i \in 1 .. Len(c) - 1 : b[i] = c[i + 1]
  BY <1>1, <1>4, HeadTailProperties
<1> HIDE DEF b
<1>6. ASSUME NEW i \in 1 .. Len(a) PROVE a[i] = b[i]
  <2>1. CASE i <= Len(q) - 1
    BY <1>1, <1>2, <1>3, <1>5, <2>1
  <2>2. CASE i > Len(q) - 1
    <3>1. i - (Len(q) - 1) = (i + 1) - Len(q) /\ ~(i + 1 <= Len(q)) /\ i + 1 \in 1 .. Len(q) + Len(s)
      BY <1>2, <1>3, <2>2
    <3>2. QED
      <4>1. a[i] = s[i - (Len(q) - 1)]
        <5>1. i \in 1 .. (Len(q) - 1) + Len(s) /\ ~(i <= Len(q) - 1)
          BY <1>2, <1>3, <2>2
        <5>2. QED
          BY <1>3, <5>1
      <4>2. c[i + 1] = s[(i + 1) - Len(q)]
        BY <1>1, <3>1
      <4>3. b[i] = c[i + 1]
        BY <1>1, <1>2, <1>3, <1>5
      <4>4. QED
        BY <3>1, <4>1, <4>2, <4>3
  <2>3. QED
    BY <1>2, <1>3, <2>1, <2>2
<1>7. a = b
  <2>1. Len(a) = Len(b)
    BY <1>1, <1>2, <1>3, <1>5
  <2>2. QED
    BY <1>3, <1>5, <1>6, <2>1, SeqEqual
<1>8. QED
  BY <1>2, <1>4, <1>7 DEF a, b, c

\* The elements of two queues in a row.
LEMMA ToSetOfConcat ==
    ASSUME NEW S, NEW q \in Seq(S), NEW s \in Seq(S)
    PROVE  ToSet(q \o s) = ToSet(q) \cup ToSet(s)
<1> DEFINE c == q \o s
<1>1. /\ c \in Seq(S) /\ Len(c) = Len(q) + Len(s) /\ Len(q) \in Nat /\ Len(s) \in Nat
      /\ \A i \in 1 .. Len(q) + Len(s) : c[i] = IF i <= Len(q) THEN q[i] ELSE s[i - Len(q)]
  BY ConcatProperties
<1>2. DOMAIN c = 1 .. Len(q) + Len(s) /\ DOMAIN q = 1 .. Len(q) /\ DOMAIN s = 1 .. Len(s)
  BY <1>1
<1> HIDE DEF c
<1>3. ToSet(c) \subseteq ToSet(q) \cup ToSet(s)
  <2> SUFFICES ASSUME NEW i \in DOMAIN c PROVE c[i] \in ToSet(q) \cup ToSet(s)
    BY DEF ToSet
  <2>1. CASE i <= Len(q)
    BY <1>1, <1>2, <2>1 DEF ToSet
  <2>2. CASE ~(i <= Len(q))
    <3>1. i - Len(q) \in DOMAIN s /\ c[i] = s[i - Len(q)]
      BY <1>1, <1>2, <2>2
    <3>2. QED
      BY <3>1 DEF ToSet
  <2>3. QED
    BY <2>1, <2>2
<1>4. ToSet(q) \subseteq ToSet(c)
  BY <1>1, <1>2 DEF ToSet
<1>5. ToSet(s) \subseteq ToSet(c)
  <2> SUFFICES ASSUME NEW i \in DOMAIN s PROVE s[i] \in ToSet(c)
    BY DEF ToSet
  <2>1. i + Len(q) \in DOMAIN c /\ (i + Len(q)) - Len(q) = i /\ ~(i + Len(q) <= Len(q))
    BY <1>1, <1>2
  <2>2. s[i] = c[i + Len(q)]
    BY <1>1, <1>2, <2>1
  <2>3. QED
    BY <2>1, <2>2 DEF ToSet
<1>6. QED
  BY <1>3, <1>4, <1>5 DEF c

\* The elements of three queues in a row.
LEMMA ToSetOfThree ==
    ASSUME NEW S, NEW q \in Seq(S), NEW s \in Seq(S), NEW w \in Seq(S)
    PROVE  ToSet(q \o s \o w) = ToSet(q) \cup ToSet(s) \cup ToSet(w)
<1> DEFINE c == q \o s
<1>1. ToSet(c) = ToSet(q) \cup ToSet(s)
  BY ToSetOfConcat
<1>2. c \in Seq(S)
  BY ConcatProperties
<1> HIDE DEF c
<1>3. ToSet(c \o w) = ToSet(c) \cup ToSet(w)
  BY <1>2, ToSetOfConcat
<1>4. QED
  BY <1>1, <1>3 DEF c

\* Two queues without repetitions and without common elements, in a row.
LEMMA InjectiveConcat ==
    ASSUME NEW S, NEW q \in Seq(S), NEW s \in Seq(S), IsInjective(q), IsInjective(s),
           ToSet(q) \cap ToSet(s) = {}
    PROVE  IsInjective(q \o s)
<1> DEFINE c == q \o s
<1>1. /\ c \in Seq(S) /\ Len(c) = Len(q) + Len(s) /\ Len(q) \in Nat /\ Len(s) \in Nat
      /\ \A i \in 1 .. Len(q) + Len(s) : c[i] = IF i <= Len(q) THEN q[i] ELSE s[i - Len(q)]
  BY ConcatProperties
<1>2. DOMAIN c = 1 .. Len(q) + Len(s) /\ DOMAIN q = 1 .. Len(q) /\ DOMAIN s = 1 .. Len(s)
  BY <1>1
<1> HIDE DEF c
<1> SUFFICES ASSUME NEW i \in DOMAIN c, NEW j \in DOMAIN c, c[i] = c[j] PROVE i = j
  BY DEF c, IsInjective
<1>3. \A k \in DOMAIN c : \/ k <= Len(q) /\ k \in DOMAIN q /\ c[k] = q[k] /\ c[k] \in ToSet(q)
                          \/ /\ ~(k <= Len(q)) /\ k - Len(q) \in DOMAIN s
                             /\ c[k] = s[k - Len(q)] /\ c[k] \in ToSet(s)
  <2> SUFFICES ASSUME NEW k \in DOMAIN c
               PROVE  \/ k <= Len(q) /\ k \in DOMAIN q /\ c[k] = q[k] /\ c[k] \in ToSet(q)
                      \/ /\ ~(k <= Len(q)) /\ k - Len(q) \in DOMAIN s
                         /\ c[k] = s[k - Len(q)] /\ c[k] \in ToSet(s)
    OBVIOUS
  <2>1. CASE k <= Len(q)
    BY <1>1, <1>2, <2>1 DEF ToSet
  <2>2. CASE ~(k <= Len(q))
    <3>1. k - Len(q) \in DOMAIN s /\ c[k] = s[k - Len(q)]
      BY <1>1, <1>2, <2>2
    <3>2. QED
      BY <2>2, <3>1 DEF ToSet
  <2>3. QED
    BY <2>1, <2>2
<1>4. CASE i <= Len(q) /\ j <= Len(q)
  BY <1>3, <1>4 DEF IsInjective
<1>5. CASE ~(i <= Len(q)) /\ ~(j <= Len(q))
  <2>1. i - Len(q) = j - Len(q)
    BY <1>3, <1>5 DEF IsInjective
  <2>2. QED
    BY <1>1, <1>2, <2>1
<1>6. QED
  BY <1>3, <1>4, <1>5

\* A set of numbers that is not empty has a smallest member.
LEMMA SmallestMember ==
    ASSUME NEW S \in SUBSET Nat, S # {}
    PROVE  \E x \in S : \A y \in S : x <= y
<1> DEFINE R == {p \in Nat \X Nat : p[1] < p[2]}
<1>1. IsWellFoundedOn(R, Nat)
  BY NatLessThanWellFounded DEF OpToRel
<1> HIDE DEF R
<1>2. PICK x \in S : \A y \in S : ~(<<y, x>> \in R)
  BY <1>1, WFMin
<1>3. \A y \in S : y < x => <<y, x>> \in R
  BY DEF R
<1>4. \A y \in S : x <= y
  <2>1. \A y \in S : ~(y < x)
    BY <1>2, <1>3, Zenon
  <2>2. x \in Nat /\ \A y \in S : y \in Nat
    OBVIOUS
  <2>3. QED
    BY <2>1, <2>2
<1>5. QED
  BY <1>4

\* Min is a member that no other is below.
LEMMA MinProperties ==
    ASSUME NEW S \in SUBSET Nat, S # {}
    PROVE  Min(S) \in S /\ \A y \in S : Min(S) <= y
  BY SmallestMember DEF Min

\* Induction, for a set of numbers.
LEMMA SetInduction ==
    ASSUME NEW T, 0 \in T, \A n \in Nat : n \in T => n + 1 \in T
    PROVE  Nat \subseteq T
<1>1. SUFFICES ASSUME Nat \ T # {} PROVE FALSE
  OBVIOUS
<1>2. PICK x \in Nat \ T : \A y \in Nat \ T : x <= y
  BY <1>1, SmallestMember
<1>3. x # 0 /\ x - 1 \in Nat /\ x - 1 \in T
  BY <1>2
<1>4. QED
  BY <1>3

\* The elements of a sequence without its last one.
LEMMA FrontIndexing ==
    ASSUME NEW S, NEW q \in Seq(S), q # <<>>
    PROVE  /\ SubSeq(q, 1, Len(q) - 1) \in Seq(S) /\ Len(SubSeq(q, 1, Len(q) - 1)) = Len(q) - 1
           /\ \A i \in 1 .. Len(q) - 1 : SubSeq(q, 1, Len(q) - 1)[i] = q[i]
           /\ Len(q) \in Nat \ {0} /\ q[Len(q)] \in S
<1>1. Len(q) \in Nat /\ Len(q) > 0 /\ q[Len(q)] \in S
  OBVIOUS
<1>2. PICK n \in Nat : n = Len(q) - 1
  BY <1>1
<1>3. n <= Len(q) /\ \A i \in 1 .. n : q[i] \in S
  BY <1>1, <1>2
<1>4. SubSeq(q, 1, n) \in Seq(S) /\ Len(SubSeq(q, 1, n)) = n
  BY <1>3
<1>5. \A i \in 1 .. n : SubSeq(q, 1, n)[i] = q[i]
  BY <1>3
<1>6. QED
  BY <1>1, <1>2, <1>4, <1>5
=============================================================================
