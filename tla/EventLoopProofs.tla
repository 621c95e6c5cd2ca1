-------------------------- MODULE EventLoopProofs --------------------------
(***************************************************************************)
(* Theorems about the threads, their message queues and the calls of        *)
(* dispatchMessages(), for any number of threads, objects, posters and      *)
(* messages and any depth of recursion.                                     *)
(***************************************************************************)
EXTENDS EventLoop, QueueLemmas, FiniteSetTheorems, TLAPS

-----------------------------------------------------------------------------
(* Entries.                                                                 *)

\* f lists the members of P up to n in their order.
Enumerates(f, P, n, r) ==
    /\ f \in [1 .. Len(r) -> P \cap (1 .. n)]
    /\ \A i, j \in 1 .. Len(r) : i < j => f[i] < f[j]
    /\ \A k \in P \cap (1 .. n) : \E i \in 1 .. Len(r) : f[i] = k

\* r holds the entries of l at the members of P up to n, in their order.
Selected(l, P, n, r) ==
    \E f : Enumerates(f, P, n, r) /\ \A i \in 1 .. Len(r) : r[i] = l[f[i]]

\* One more position: the entry is kept ...
LEMMA EnumerateMore ==
    ASSUME NEW S, NEW l \in Seq(S), NEW P, NEW n \in Nat, n + 1 \in 1 .. Len(l), n + 1 \in P,
           NEW r \in Seq(S), Selected(l, P, n, r), NEW a, a = Append(r, l[n + 1])
    PROVE  a \in Seq(S) /\ Selected(l, P, n + 1, a)
<1>f. PICK f : Enumerates(f, P, n, r) /\ \A i \in 1 .. Len(r) : r[i] = l[f[i]]
  BY DEF Selected
<1> DEFINE x == l[n + 1]
           g == [i \in 1 .. Len(r) + 1 |-> IF i <= Len(r) THEN f[i] ELSE n + 1]
<1>1. x \in S
  OBVIOUS
<1>2. /\ a \in Seq(S) /\ Len(a) = Len(r) + 1 /\ a[Len(r) + 1] = x /\ Len(r) \in Nat
      /\ \A i \in 1 .. Len(r) : a[i] = r[i]
  BY <1>1
<1> HIDE DEF x
<1>3. \A i \in 1 .. Len(r) + 1 : i \in 1 .. Len(r) \/ (i = Len(r) + 1 /\ ~(i <= Len(r)))
  BY <1>2
<1>4. \A i \in 1 .. Len(r) : i \in 1 .. Len(r) + 1 /\ i <= Len(r)
  BY <1>2
<1>5. /\ \A i \in 1 .. Len(r) : g[i] = f[i]
      /\ g[Len(r) + 1] = n + 1
  BY <1>2, <1>4
<1>a. ASSUME NEW i \in 1 .. Len(r) PROVE f[i] \in P /\ f[i] \in 1 .. n /\ f[i] \in 1 .. n + 1
  <2>1. f[i] \in P \cap (1 .. n)
    BY <1>f DEF Enumerates
  <2>2. QED
    BY <2>1
<1>6. g \in [1 .. Len(a) -> P \cap (1 .. n + 1)]
  <2>1. ASSUME NEW i \in 1 .. Len(r) + 1 PROVE (IF i <= Len(r) THEN f[i] ELSE n + 1) \in P \cap (1 .. n + 1)
    <3>1. CASE i \in 1 .. Len(r)
      BY <1>4, <1>a, <3>1
    <3>2. CASE i = Len(r) + 1 /\ ~(i <= Len(r))
      BY <3>2
    <3>3. QED
      BY <1>3, <3>1, <3>2
  <2>2. QED
    BY <1>2, <2>1
<1> HIDE DEF g
<1>7. ASSUME NEW i \in 1 .. Len(a), NEW j \in 1 .. Len(a), i < j PROVE g[i] < g[j]
  <2>1. i \in 1 .. Len(r)
    BY <1>2, <1>7
  <2>2. CASE j \in 1 .. Len(r)
    BY <1>f, <1>5, <1>7, <2>1, <2>2 DEF Enumerates
  <2>3. CASE j = Len(r) + 1
    <3>1. g[j] = n + 1 /\ g[i] \in 1 .. n
      BY <1>5, <1>a, <2>1, <2>3
    <3>2. QED
      BY <3>1
  <2>4. QED
    BY <1>2, <1>3, <2>2, <2>3
<1>8. ASSUME NEW k \in P \cap (1 .. n + 1) PROVE \E i \in 1 .. Len(a) : g[i] = k
  <2>1. CASE k = n + 1
    <3>1. Len(r) + 1 \in 1 .. Len(a) /\ g[Len(r) + 1] = k
      BY <1>2, <1>5, <2>1
    <3>2. QED
      BY <3>1
  <2>2. CASE k # n + 1
    <3>1. k \in P \cap (1 .. n)
      BY <2>2
    <3>2. PICK i \in 1 .. Len(r) : f[i] = k
      BY <1>f, <3>1 DEF Enumerates
    <3>3. QED
      BY <1>2, <1>4, <1>5, <3>2
  <2>3. QED
    BY <2>1, <2>2
<1>9. \A i \in 1 .. Len(a) : a[i] = l[g[i]]
  BY <1>f, <1>2, <1>3, <1>5 DEF x
<1>10. Enumerates(g, P, n + 1, a)
  BY <1>6, <1>7, <1>8 DEF Enumerates
<1>11. QED
  BY <1>2, <1>9, <1>10 DEF Selected

\* ... or left out.
LEMMA EnumerateSame ==
    ASSUME NEW P, NEW n \in Nat, n + 1 \notin P, NEW l, NEW r, Selected(l, P, n, r)
    PROVE  Selected(l, P, n + 1, r)
<1>1. P \cap (1 .. n + 1) = P \cap (1 .. n)
  OBVIOUS
<1>2. QED
  BY <1>1 DEF Enumerates, Selected

\* The function that Entries takes its result from.
Accumulates(l, P, g, n) ==
    /\ DOMAIN g = 0 .. n
    /\ g[0] = <<>>
    /\ \A k \in 1 .. n : g[k] = IF k \in P THEN Append(g[k - 1], l[k]) ELSE g[k - 1]

\* There is such a function.
LEMMA AccumulatesExist ==
    ASSUME NEW l, NEW P, NEW n \in Nat
    PROVE  \E g : Accumulates(l, P, g, n)
<1> DEFINE T == {k \in Nat : \E g : Accumulates(l, P, g, k)}
<1>1. 0 \in T
  <2> DEFINE g == [k \in 0 .. 0 |-> <<>>]
  <2>1. Accumulates(l, P, g, 0)
    BY DEF Accumulates
  <2>2. QED
    BY <2>1
<1>2. ASSUME NEW k \in Nat, k \in T PROVE k + 1 \in T
  <2>1. PICK g : Accumulates(l, P, g, k)
    BY <1>2
  <2> DEFINE h == [i \in 0 .. k + 1 |-> IF i <= k THEN g[i]
                                       ELSE IF k + 1 \in P THEN Append(g[k], l[k + 1]) ELSE g[k]]
  <2>2. /\ \A i \in 0 .. k : h[i] = g[i]
        /\ h[k + 1] = IF k + 1 \in P THEN Append(g[k], l[k + 1]) ELSE g[k]
        /\ DOMAIN h = 0 .. k + 1
    OBVIOUS
  <2> HIDE DEF h
  <2>3. h[0] = <<>>
    BY <2>1, <2>2 DEF Accumulates
  <2>4. ASSUME NEW i \in 1 .. k + 1
        PROVE  h[i] = IF i \in P THEN Append(h[i - 1], l[i]) ELSE h[i - 1]
    <3>1. CASE i = k + 1
      <4>1. i - 1 = k /\ h[k] = g[k]
        BY <2>2, <3>1
      <4>2. QED
        BY <2>2, <3>1, <4>1
    <3>2. CASE i # k + 1
      <4>1. i \in 1 .. k /\ i \in 0 .. k /\ i - 1 \in 0 .. k
        BY <3>2
      <4>2. g[i] = IF i \in P THEN Append(g[i - 1], l[i]) ELSE g[i - 1]
        BY <2>1, <4>1 DEF Accumulates
      <4>3. QED
        BY <2>2, <4>1, <4>2
    <3>3. QED
      BY <3>1, <3>2
  <2>5. Accumulates(l, P, h, k + 1)
    BY <2>2, <2>3, <2>4 DEF Accumulates
  <2>6. QED
    BY <2>5
<1>3. Nat \subseteq T
  <2> HIDE DEF T
  <2>1. \A k \in Nat : k \in T => k + 1 \in T
    BY <1>2
  <2>2. QED
    BY <1>1, <2>1, SetInduction
<1>4. QED
  BY <1>3

\* Entries is the last prefix of such a function.
LEMMA EntriesIsPrefix ==
    ASSUME NEW S, NEW l \in Seq(S), NEW P
    PROVE  \E g : Accumulates(l, P, g, Len(l)) /\ Entries(l, P) = g[Len(l)]
<1> DEFINE Rec(g) == [n \in 0 .. Len(l) |-> IF n = 0 THEN <<>>
                                           ELSE IF n \in P THEN Append(g[n - 1], l[n]) ELSE g[n - 1]]
           first == CHOOSE g : g = Rec(g)
<1>1. Len(l) \in Nat
  OBVIOUS
<1>2. PICK g : Accumulates(l, P, g, Len(l))
  BY <1>1, AccumulatesExist
<1> DEFINE h == [n \in 0 .. Len(l) |-> g[n]]
<1>3. h = Rec(h)
  <2>1. ASSUME NEW n \in 0 .. Len(l)
        PROVE  h[n] = IF n = 0 THEN <<>> ELSE IF n \in P THEN Append(h[n - 1], l[n]) ELSE h[n - 1]
    <3>1. CASE n = 0
      BY <1>2, <3>1 DEF Accumulates
    <3>2. CASE n # 0
      <4>1. n \in 1 .. Len(l) /\ n - 1 \in 0 .. Len(l)
        BY <1>1, <3>2
      <4>2. h[n - 1] = g[n - 1] /\ h[n] = g[n]
        BY <4>1
      <4>3. QED
        BY <1>2, <3>2, <4>1, <4>2 DEF Accumulates
    <3>3. QED
      BY <3>1, <3>2
  <2> HIDE DEF h
  <2>2. Rec(h) = [n \in 0 .. Len(l) |-> h[n]]
    BY <2>1
  <2>3. h = [n \in 0 .. Len(l) |-> h[n]]
    BY DEF h
  <2>4. QED
    BY <2>2, <2>3
<1>4. first = Rec(first)
  BY <1>3
<1>5. Entries(l, P) = first[Len(l)]
  BY DEF Entries
<1> HIDE DEF first
<1>6. \A n \in 0 .. Len(l) : first[n] = Rec(first)[n]
  BY <1>4
<1>7. Accumulates(l, P, first, Len(l))
  <2>1. DOMAIN first = 0 .. Len(l)
    BY <1>4
  <2>2. first[0] = <<>>
    BY <1>1, <1>6
  <2>3. ASSUME NEW k \in 1 .. Len(l)
        PROVE  first[k] = IF k \in P THEN Append(first[k - 1], l[k]) ELSE first[k - 1]
    <3>1. k \in 0 .. Len(l) /\ k # 0
      BY <1>1
    <3>2. QED
      BY <1>6, <3>1
  <2>4. QED
    BY <2>1, <2>2, <2>3 DEF Accumulates
<1>8. QED
  BY <1>5, <1>7

\* r holds exactly the entries of l at P, in their order.
Keeps(l, P, r) ==
    \E f : /\ f \in [1 .. Len(r) -> P]
           /\ \A i, j \in 1 .. Len(r) : i < j => f[i] < f[j]
           /\ \A k \in P : \E i \in 1 .. Len(r) : f[i] = k
           /\ \A i \in 1 .. Len(r) : r[i] = l[f[i]]

\* That is what Entries does.
LEMMA EntriesKept ==
    ASSUME NEW S, NEW l \in Seq(S), NEW P, P \subseteq 1 .. Len(l)
    PROVE  Entries(l, P) \in Seq(S) /\ Keeps(l, P, Entries(l, P))
<1>1. PICK g : Accumulates(l, P, g, Len(l)) /\ Entries(l, P) = g[Len(l)]
  BY EntriesIsPrefix
<1>2. Len(l) \in Nat
  OBVIOUS
<1> DEFINE Kept(n) == g[n] \in Seq(S) /\ Selected(l, P, n, g[n])
           T == {n \in Nat : n <= Len(l) => Kept(n)}
<1>3. 0 \in T
  <2>1. g[0] = <<>>
    BY <1>1 DEF Accumulates
  <2>2. <<>> \in Seq(S) /\ Len(<<>>) = 0
    OBVIOUS
  <2>3. Enumerates([i \in 1 .. 0 |-> i], P, 0, <<>>)
    BY <2>2 DEF Enumerates
  <2>4. Kept(0)
    BY <2>1, <2>2, <2>3 DEF Selected
  <2>5. QED
    BY <2>4
<1>4. ASSUME NEW n \in Nat, n \in T PROVE n + 1 \in T
  <2> SUFFICES ASSUME n + 1 <= Len(l) PROVE Kept(n + 1)
    OBVIOUS
  <2>1. n + 1 \in 1 .. Len(l) /\ (n + 1) - 1 = n /\ n <= Len(l)
    BY <1>2
  <2>2. g[n + 1] = IF n + 1 \in P THEN Append(g[n], l[n + 1]) ELSE g[n]
    BY <1>1, <2>1 DEF Accumulates
  <2>3. Kept(n)
    BY <1>4, <2>1
  <2>5. CASE n + 1 \in P
    BY <2>1, <2>2, <2>3, <2>5, EnumerateMore
  <2>6. CASE n + 1 \notin P
    BY <2>2, <2>3, <2>6, EnumerateSame
  <2>7. QED
    BY <2>5, <2>6
<1>5. Nat \subseteq T
  <2> HIDE DEF T
  <2>1. \A n \in Nat : n \in T => n + 1 \in T
    BY <1>4
  <2>2. QED
    BY <1>3, <2>1, SetInduction
<1>6. Kept(Len(l))
  BY <1>2, <1>5
<1>7. P \cap (1 .. Len(l)) = P
  OBVIOUS
<1>8. QED
  BY <1>1, <1>6, <1>7 DEF Enumerates, Selected, Keeps

-----------------------------------------------------------------------------
(* The inductive invariant.                                                 *)

Entry == Message \cup {NoMessage}

\* A message passes the filters of a call of dispatchMessages().
Passes(f, m) == f.type \in {"None", m.type} /\ f.receiver \in {AnyObject, m.receiver}

\* What the iterators of the calls in progress have passed has been delivered, or is
\* not for them.  A call from a handler delivers invocations or, from processEvents(),
\* everything.
Iterators(l, fs) ==
    \A k \in 1 .. Len(fs) :
        /\ fs[k].pos <= Len(l)
        /\ \A i \in Pending(l) : i <= fs[k].pos => ~Passes(fs[k], l[i])
        /\ fs[k].message # NoMessage => Passes(fs[k], fs[k].message)
        /\ k < Len(fs) => fs[k].message # NoMessage
        /\ k > 1 => fs[k].type # "DeferredDelete"
        /\ fs[k].type = "None" => fs[k].receiver = AnyObject

\* The messages that a thread has, queued or being handled.
Held(l, fs) == {l[i] : i \in Pending(l)} \cup ({fs[k].message : k \in 1 .. Len(fs)} \ {NoMessage})

\* They are for objects of the thread.
Bound(m, t) == home[m.receiver] = t /\ m.id <= posted

\* No one waits for a message of an object that is to be deleted.
Deletions(l, fs) ==
    \A m, n \in Held(l, fs) :
        m.type = "DeferredDelete" /\ m.receiver = n.receiver => n.waiter = NoPoster

\* The messages of an object are queued in the order they were posted.
Ordered(l) ==
    \A i, j \in Pending(l) : i < j /\ l[i].receiver = l[j].receiver => l[i].id < l[j].id

\* Where a thread has a message that p waits for.
Waits(l, p) == {i \in Pending(l) : l[i].waiter = p}
Handles(fs, p) == {k \in 1 .. Len(fs) : fs[k].message # NoMessage /\ fs[k].message.waiter = p}

Nowhere(p, t) == Waits(list[t], p) = {} /\ Handles(frames[t], p) = {}
Somewhere(p, t) ==
    \E i : \/ Waits(list[t], p) = {i} /\ Handles(frames[t], p) = {}
           \/ Waits(list[t], p) = {} /\ Handles(frames[t], p) = {i}

Blocked(p) == poster[p].pc # "idle" /\ poster[p].blocking

\* The message a poster waits for is in one place, or it is done.
Caller(p) ==
    /\ poster[p].pc = "acquire" => poster[p].blocking
    /\ \/ Blocked(p) /\ poster[p].available = 1 /\ \A t \in Thread : Nowhere(p, t)
       \/ ~Blocked(p) /\ poster[p].available = 0 /\ \A t \in Thread : Nowhere(p, t)
       \/ Blocked(p) /\ poster[p].available = 0 /\ \E t \in Thread :
              Somewhere(p, t) /\ \A u \in Thread \ {t} : Nowhere(p, u)

\* A loop that sleeps over a message is going to be woken up, a thread in its loop has
\* a dispatcher, and the outermost call of a loop filters nothing.
Awake(t) ==
    /\ frames[t] # <<>> => pc[t] \in {"dispatch", "finish"}
    /\ pc[t] \in {"loop", "dispatch", "poll", "finish"} => dispatcher[t]
    /\ running[t] \/ pc[t] = "stopped"
    /\ pc[t] = "dispatch" /\ frames[t] # <<>> =>
           frames[t][1].type = "None" /\ frames[t][1].receiver = AnyObject
    /\ Asleep(t) /\ Pending(list[t]) # {} =>
           eventfd[t] \/ \E p \in Poster : poster[p].pc = "interrupt" /\ poster[p].thread = t

\* The shape of the variables.
Shape ==
    /\ pc \in [Thread -> {"stopped", "exec", "loop", "dispatch", "poll", "finish"}]
    /\ running \in [Thread -> BOOLEAN]
    /\ dispatcher \in [Thread -> BOOLEAN]
    /\ eventfd \in [Thread -> BOOLEAN]
    /\ list \in [Thread -> Seq(Entry)]
    /\ frames \in [Thread -> Seq(Frame)]
    /\ home \in [Object -> Thread]
    /\ alive \subseteq Object
    /\ pending \in [Object -> Int]
    /\ poster \in [Poster -> [pc : {"idle", "interrupt", "acquire"}, thread : Thread,
                              blocking : BOOLEAN, available : Int]]
    /\ posted \in 0 .. MaxMessages

\* The messages of each thread, and the calls that deliver them.
ThreadSound(t) ==
    /\ Iterators(list[t], frames[t])
    /\ \A m \in Held(list[t], frames[t]) : Bound(m, t)
    /\ Deletions(list[t], frames[t])
    /\ Ordered(list[t])

LoopInv ==
    /\ Shape
    /\ \A t \in Thread : ThreadSound(t)
    /\ \A t \in Thread : Awake(t)
    /\ \A o \in Object : pending[o] = Cardinality(For(list[home[o]], o))
    /\ \A p \in Poster : Caller(p)

-----------------------------------------------------------------------------
(* What the steps do to a list.                                             *)

\* A message is not a null entry.
LEMMA MessageFields ==
    ASSUME NEW m \in Message
    PROVE  /\ m # NoMessage /\ m \in Entry /\ m.id \in Nat /\ m.type \in Type
           /\ m.receiver \in Object /\ m.waiter \in Poster \cup {NoPoster}
<1>1. /\ m.id \in 1 .. MaxMessages /\ m.type \in Type
      /\ m.receiver \in Object /\ m.waiter \in Poster \cup {NoPoster}
  BY DEF Message
<1>2. m # NoMessage
  <2>1. NoMessage.id = 0
    BY DEF NoMessage
  <2>2. m.id # 0
    BY <1>1, LoopAssumption DEF LoopAssumption
  <2>3. QED
    BY <2>1, <2>2
<1>3. QED
  BY <1>1, <1>2, LoopAssumption DEF LoopAssumption, Entry

\* What is pending is a message.
LEMMA PendingFields ==
    ASSUME NEW l \in Seq(Entry), NEW i \in Pending(l)
    PROVE  i \in 1 .. Len(l) /\ i \in Nat /\ l[i] \in Message /\ l[i] # NoMessage /\ Len(l) \in Nat
<1>1. Len(l) \in Nat /\ i \in 1 .. Len(l) /\ l[i] # NoMessage
  BY DEF Pending
<1>2. l[i] \in Entry
  BY <1>1
<1>3. QED
  BY <1>1, <1>2 DEF Entry

\* A call of dispatchMessages() in progress.
LEMMA FrameFields ==
    ASSUME NEW fs \in Seq(Frame), NEW n \in 1 .. Len(fs)
    PROVE  /\ fs[n] \in Frame /\ fs[n].pos \in Nat /\ fs[n].message \in Entry
           /\ fs[n].message # NoMessage => fs[n].message \in Message
<1>1. fs[n] \in Frame
  OBVIOUS
<1>2. QED
  BY <1>1 DEF Frame, Entry

\* A call that delivers a message is not in poll().
LEMMA NotPolling ==
    ASSUME NEW m \in Message, NEW f, Passes(f, m)
    PROVE  f.type # "Poll"
<1>1. m.type # "Poll"
  BY MessageFields DEF Type
<1>2. QED
  BY <1>1 DEF Passes

\* A message at the end of a list.
Appended(l, m, k) ==
    /\ k \in Seq(Entry) /\ Len(k) = Len(l) + 1 /\ Len(l) \in Nat
    /\ k[Len(l) + 1] = m /\ Len(l) + 1 \notin Pending(l)
    /\ Pending(k) = Pending(l) \cup {Len(l) + 1}
    /\ \A i \in Pending(l) : k[i] = l[i] /\ i < Len(l) + 1

\* push()
LEMMA AppendEffect ==
    ASSUME NEW l \in Seq(Entry), NEW m \in Message
    PROVE  Appended(l, m, Append(l, m))
<1> DEFINE k == Append(l, m)
<1>1. m \in Entry /\ m # NoMessage
  BY MessageFields
<1>2. /\ k \in Seq(Entry) /\ Len(k) = Len(l) + 1 /\ Len(l) \in Nat /\ k[Len(l) + 1] = m
      /\ \A i \in 1 .. Len(l) : k[i] = l[i]
  BY <1>1
<1> HIDE DEF k
<1>3. \A i \in Pending(l) : i \in 1 .. Len(l) /\ i < Len(l) + 1
  BY <1>2 DEF Pending
<1>4. Len(l) + 1 \notin Pending(l)
  BY <1>2 DEF Pending
<1>5. Pending(k) \subseteq Pending(l) \cup {Len(l) + 1}
  <2>1. ASSUME NEW i \in 1 .. Len(l) + 1, i # Len(l) + 1 PROVE i \in 1 .. Len(l)
    BY <1>2, <2>1
  <2>2. QED
    BY <1>2, <2>1 DEF Pending
<1>6. Pending(l) \cup {Len(l) + 1} \subseteq Pending(k)
  <2>1. Len(l) + 1 \in Pending(k)
    BY <1>1, <1>2 DEF Pending
  <2>2. ASSUME NEW i \in Pending(l) PROVE i \in Pending(k)
    BY <1>2, <2>2 DEF Pending
  <2>3. QED
    BY <2>1, <2>2
<1>7. QED
  BY <1>2, <1>3, <1>4, <1>5, <1>6 DEF Appended, k

\* The entries at R become null.
Thinned(l, k, R) ==
    /\ k \in Seq(Entry) /\ Len(k) = Len(l)
    /\ Pending(k) = Pending(l) \ R
    /\ \A i \in Pending(k) : k[i] = l[i]

\* The message that is delivered.
LEMMA NullEffect ==
    ASSUME NEW l \in Seq(Entry), NEW i \in Pending(l), NEW k, k = [l EXCEPT ![i] = NoMessage]
    PROVE  Thinned(l, k, {i})
<1>1. i \in 1 .. Len(l) /\ NoMessage \in Entry
  BY DEF Pending, Entry
<1>2. /\ k \in Seq(Entry) /\ Len(k) = Len(l) /\ k[i] = NoMessage
      /\ \A j \in 1 .. Len(l) : j # i => k[j] = l[j]
  BY <1>1
<1>3. Pending(k) = Pending(l) \ {i}
  BY <1>1, <1>2 DEF Pending
<1>4. \A j \in Pending(k) : k[j] = l[j]
  BY <1>2, <1>3 DEF Pending
<1>5. QED
  BY <1>2, <1>3, <1>4 DEF Thinned

\* The messages of an object that is deleted or moved.
LEMMA WithoutEffect ==
    ASSUME NEW l \in Seq(Entry), NEW o
    PROVE  Thinned(l, Without(l, o), For(l, o))
<1> DEFINE k == Without(l, o)
<1>1. /\ Len(l) \in Nat
      /\ k = [j \in 1 .. Len(l) |-> IF j \in For(l, o) THEN NoMessage ELSE l[j]]
  BY DEF Without
<1>2. \A j \in 1 .. Len(l) : l[j] \in Entry /\ NoMessage \in Entry
  BY DEF Entry
<1> HIDE DEF k
<1>3. \A j \in 1 .. Len(l) : k[j] = IF j \in For(l, o) THEN NoMessage ELSE l[j]
  BY <1>1
<1>a. k \in [1 .. Len(l) -> Entry]
  BY <1>1, <1>2
<1>4. k \in Seq(Entry) /\ Len(k) = Len(l)
  BY <1>1, <1>a
<1>5. Pending(k) = Pending(l) \ For(l, o)
  BY <1>3, <1>4 DEF Pending, For
<1>6. \A j \in Pending(k) : k[j] = l[j]
  BY <1>3, <1>4, <1>5 DEF Pending
<1>7. QED
  BY <1>4, <1>5, <1>6 DEF Thinned, k

\* Null entries disturb nothing.
LEMMA ThinnedEffect ==
    ASSUME NEW l \in Seq(Entry), NEW k, NEW R, Thinned(l, k, R), NEW fs
    PROVE  /\ Iterators(l, fs) => Iterators(k, fs)
           /\ Ordered(l) => Ordered(k)
           /\ Held(k, fs) \subseteq Held(l, fs)
           /\ \A o : For(k, o) = For(l, o) \ R
           /\ \A p : Waits(k, p) = Waits(l, p) \ R
<1>1. Len(k) = Len(l) /\ Pending(k) = Pending(l) \ R /\ \A i \in Pending(k) : k[i] = l[i] /\ i \in Pending(l)
  BY DEF Thinned
<1>2. Iterators(l, fs) => Iterators(k, fs)
  BY <1>1 DEF Iterators
<1>3. Ordered(l) => Ordered(k)
  BY <1>1 DEF Ordered
<1>4. Held(k, fs) \subseteq Held(l, fs)
  BY <1>1 DEF Held
<1>5. \A o : For(k, o) = For(l, o) \ R
  BY <1>1 DEF For
<1>6. \A p : Waits(k, p) = Waits(l, p) \ R
  BY <1>1 DEF Waits
<1>7. QED
  BY <1>2, <1>3, <1>4, <1>5, <1>6

\* A list with one message more.
OneMore(l, m, k, fs) ==
    /\ Iterators(l, fs) => Iterators(k, fs)
    /\ Ordered(l) /\ (\A i \in Pending(l) : l[i].id < m.id) => Ordered(k)
    /\ Held(k, fs) = Held(l, fs) \cup {m}
    /\ \A o : For(k, o) = IF m.receiver = o THEN For(l, o) \cup {Len(l) + 1} ELSE For(l, o)
    /\ \A p : Waits(k, p) = IF m.waiter = p THEN Waits(l, p) \cup {Len(l) + 1} ELSE Waits(l, p)

\* The iterators have not reached it, and it is the last of its object.
LEMMA AppendSound ==
    ASSUME NEW l \in Seq(Entry), NEW m \in Message, NEW k, Appended(l, m, k), NEW fs \in Seq(Frame)
    PROVE  OneMore(l, m, k, fs)
<1>1. /\ k \in Seq(Entry) /\ Len(k) = Len(l) + 1 /\ Len(l) \in Nat
      /\ k[Len(l) + 1] = m /\ Len(l) + 1 \notin Pending(l)
      /\ Pending(k) = Pending(l) \cup {Len(l) + 1}
      /\ \A i \in Pending(l) : k[i] = l[i] /\ i < Len(l) + 1
  BY DEF Appended
<1>2. ASSUME Iterators(l, fs) PROVE Iterators(k, fs)
  <2> SUFFICES ASSUME NEW n \in 1 .. Len(fs)
               PROVE  /\ fs[n].pos <= Len(l) => fs[n].pos <= Len(k)
                      /\ \A i \in Pending(k) : i <= fs[n].pos => ~Passes(fs[n], k[i])
    BY <1>2 DEF Iterators
  <2>1. fs[n].pos <= Len(l) /\ \A i \in Pending(l) : i <= fs[n].pos => ~Passes(fs[n], l[i])
    BY <1>2 DEF Iterators
  <2>2. fs[n].pos \in Nat
    BY FrameFields
  <2>3. ~(Len(l) + 1 <= fs[n].pos) /\ fs[n].pos <= Len(k)
    BY <1>1, <2>1, <2>2
  <2>4. QED
    BY <1>1, <2>1, <2>3
<1>3. ASSUME Ordered(l), \A i \in Pending(l) : l[i].id < m.id PROVE Ordered(k)
  <2> SUFFICES ASSUME NEW i \in Pending(k), NEW j \in Pending(k), i < j, k[i].receiver = k[j].receiver
               PROVE  k[i].id < k[j].id
    BY DEF Ordered
  <2>1. i \in Pending(l)
    <3>1. CASE i = Len(l) + 1
      <4>1. j \in Pending(l) \/ j = Len(l) + 1
        BY <1>1
      <4>2. j < Len(l) + 1 \/ j = Len(l) + 1
        BY <1>1, <4>1
      <4>3. j \in Nat
        BY <1>1, <4>1, PendingFields
      <4>4. QED
        BY <1>1, <3>1, <4>2, <4>3
    <3>2. QED
      BY <1>1, <3>1
  <2>2. CASE j \in Pending(l)
    BY <1>1, <1>3, <2>1, <2>2 DEF Ordered
  <2>3. CASE j = Len(l) + 1
    BY <1>1, <1>3, <2>1, <2>3
  <2>4. QED
    BY <1>1, <2>2, <2>3
<1>4. Held(k, fs) = Held(l, fs) \cup {m}
  <2>1. {k[i] : i \in Pending(k)} \subseteq {l[i] : i \in Pending(l)} \cup {m}
    BY <1>1
  <2>2. {l[i] : i \in Pending(l)} \cup {m} \subseteq {k[i] : i \in Pending(k)}
    <3>1. \A i \in Pending(l) : i \in Pending(k) /\ k[i] = l[i]
      BY <1>1
    <3>2. Len(l) + 1 \in Pending(k) /\ k[Len(l) + 1] = m
      BY <1>1
    <3>3. m \in {k[i] : i \in Pending(k)}
      BY <3>2
    <3>4. QED
      BY <3>1, <3>3
  <2>3. QED
    BY <2>1, <2>2 DEF Held
<1>5. \A o : For(k, o) = IF m.receiver = o THEN For(l, o) \cup {Len(l) + 1} ELSE For(l, o)
  BY <1>1 DEF For
<1>6. \A p : Waits(k, p) = IF m.waiter = p THEN Waits(l, p) \cup {Len(l) + 1} ELSE Waits(l, p)
  BY <1>1 DEF Waits
<1>7. QED
  BY <1>2, <1>3, <1>4, <1>5, <1>6 DEF OneMore

\* f pairs the members of A with those of B.
OneToOne(f, A, B) ==
    /\ \A i \in A : f[i] \in B
    /\ \A i, j \in A : f[i] = f[j] => i = j
    /\ \A x \in B : \E i \in A : f[i] = x

\* Sets that can be paired have the same size.
LEMMA SameCount ==
    ASSUME NEW A, NEW B, NEW f, OneToOne(f, A, B), IsFiniteSet(A)
    PROVE  Cardinality(A) = Cardinality(B)
<1> DEFINE g == [i \in A |-> f[i]]
<1>1. g \in [A -> B]
  BY DEF OneToOne
<1>2. \A i, j \in A : g[i] = g[j] => i = j
  BY DEF OneToOne
<1>3. \A x \in B : \E i \in A : g[i] = x
  BY DEF OneToOne
<1> HIDE DEF g
<1>4. g \in Bijection(A, B)
  BY <1>1, <1>2, <1>3 DEF Bijection, Injection, Surjection, IsInjective
<1>5. QED
  BY <1>4, FS_Bijection DEF ExistsBijection

\* The entries of a list that are kept: every one is a message, and their order stays.
LEMMA EntriesEffect ==
    ASSUME NEW l \in Seq(Entry), NEW P, P \subseteq Pending(l), NEW k, k = Entries(l, P)
    PROVE  /\ k \in Seq(Entry) /\ Pending(k) = 1 .. Len(k) /\ Len(k) \in Nat
           /\ \E f : /\ OneToOne(f, 1 .. Len(k), P)
                     /\ \A i, j \in 1 .. Len(k) : i < j => f[i] < f[j]
                     /\ \A i \in 1 .. Len(k) : k[i] = l[f[i]]
<1>1. P \subseteq 1 .. Len(l)
  BY DEF Pending
<1>2. k \in Seq(Entry) /\ Keeps(l, P, k)
  BY <1>1, EntriesKept
<1>3. PICK f : /\ f \in [1 .. Len(k) -> P]
               /\ \A i, j \in 1 .. Len(k) : i < j => f[i] < f[j]
               /\ \A x \in P : \E i \in 1 .. Len(k) : f[i] = x
               /\ \A i \in 1 .. Len(k) : k[i] = l[f[i]]
  BY <1>2 DEF Keeps
<1>4. Len(k) \in Nat
  BY <1>2
<1>5. \A i \in 1 .. Len(k) : f[i] \in P /\ f[i] \in Nat /\ k[i] # NoMessage
  <2>1. ASSUME NEW x \in P PROVE x \in Nat /\ l[x] # NoMessage
    BY PendingFields
  <2>2. \A i \in 1 .. Len(k) : f[i] \in P
    BY <1>3
  <2>3. QED
    BY <1>3, <2>1, <2>2
<1>6. Pending(k) = 1 .. Len(k)
  BY <1>5 DEF Pending
<1>7. OneToOne(f, 1 .. Len(k), P)
  <2>1. ASSUME NEW i \in 1 .. Len(k), NEW j \in 1 .. Len(k), f[i] = f[j] PROVE i = j
    <3>1. ~(f[i] < f[j]) /\ ~(f[j] < f[i])
      BY <1>5, <2>1
    <3>2. ~(i < j) /\ ~(j < i)
      BY <1>3, <3>1
    <3>3. QED
      BY <1>4, <3>2
  <2>2. QED
    BY <1>3, <1>5, <2>1 DEF OneToOne
<1>8. QED
  BY <1>2, <1>3, <1>4, <1>6, <1>7

\* A part of a list is finite.
LEMMA PendingFinite ==
    ASSUME NEW l \in Seq(Entry), NEW P, P \subseteq Pending(l)
    PROVE  IsFiniteSet(P) /\ Cardinality(P) \in Nat
<1>1. Len(l) \in Nat /\ P \subseteq 1 .. Len(l)
  BY DEF Pending
<1>2. IsFiniteSet(1 .. Len(l))
  BY <1>1, FS_Interval
<1>3. IsFiniteSet(P)
  BY <1>1, <1>2, FS_Subset
<1>4. QED
  BY <1>3, FS_CardinalityType

\* k holds the messages of l at P, none lost or doubled.
Taken(l, P, k) ==
    /\ k \in Seq(Entry)
    /\ Ordered(l) => Ordered(k)
    /\ \A i \in Pending(k) : \E j \in P : k[i] = l[j]
    /\ \A o : Cardinality(For(k, o)) = Cardinality(P \cap For(l, o))
    /\ \A p : P \cap Waits(l, p) = {} => Waits(k, p) = {}
    /\ \A p, x : P \cap Waits(l, p) = {x} => \E y : Waits(k, p) = {y}

\* So does Entries.
LEMMA EntriesSound ==
    ASSUME NEW l \in Seq(Entry), NEW P, P \subseteq Pending(l), NEW k, k = Entries(l, P)
    PROVE  Taken(l, P, k)
<1>1. k \in Seq(Entry) /\ Pending(k) = 1 .. Len(k) /\ Len(k) \in Nat
  BY EntriesEffect
<1>2. PICK f : /\ OneToOne(f, 1 .. Len(k), P)
               /\ \A i, j \in 1 .. Len(k) : i < j => f[i] < f[j]
               /\ \A i \in 1 .. Len(k) : k[i] = l[f[i]]
  BY EntriesEffect
<1>3. \A i \in Pending(k) : f[i] \in P /\ f[i] \in Pending(l) /\ k[i] = l[f[i]]
  BY <1>1, <1>2 DEF OneToOne
<1>4. ASSUME Ordered(l) PROVE Ordered(k)
  <2> SUFFICES ASSUME NEW i \in Pending(k), NEW j \in Pending(k), i < j, k[i].receiver = k[j].receiver
               PROVE  k[i].id < k[j].id
    BY DEF Ordered
  <2>1. k[i] = l[f[i]] /\ k[j] = l[f[j]] /\ f[i] \in Pending(l) /\ f[j] \in Pending(l)
    BY <1>3
  <2>2. f[i] < f[j]
    BY <1>1, <1>2
  <2>3. QED
    BY <1>4, <2>1, <2>2 DEF Ordered
<1>5. ASSUME NEW o PROVE Cardinality(For(k, o)) = Cardinality(P \cap For(l, o))
  <2>1. \A i \in For(k, o) : f[i] \in P \cap For(l, o)
    BY <1>3 DEF For
  <2>2. \A i, j \in For(k, o) : f[i] = f[j] => i = j
    BY <1>1, <1>2 DEF OneToOne, For
  <2>3. ASSUME NEW x \in P \cap For(l, o) PROVE \E i \in For(k, o) : f[i] = x
    <3>1. PICK i \in 1 .. Len(k) : f[i] = x
      BY <1>2 DEF OneToOne
    <3>2. i \in For(k, o)
      BY <1>1, <1>2, <3>1 DEF For
    <3>3. QED
      BY <3>1, <3>2
  <2>4. OneToOne(f, For(k, o), P \cap For(l, o))
    BY <2>1, <2>2, <2>3 DEF OneToOne
  <2>5. IsFiniteSet(For(k, o))
    <3>1. For(k, o) \subseteq Pending(k)
      BY DEF For
    <3>2. QED
      BY <1>1, <3>1, PendingFinite
  <2>6. QED
    BY <2>4, <2>5, SameCount
<1>6. ASSUME NEW p PROVE OneToOne(f, Waits(k, p), P \cap Waits(l, p))
  <2>1. \A i \in Waits(k, p) : f[i] \in P \cap Waits(l, p)
    BY <1>3 DEF Waits
  <2>2. \A i, j \in Waits(k, p) : f[i] = f[j] => i = j
    BY <1>1, <1>2 DEF OneToOne, Waits
  <2>3. ASSUME NEW x \in P \cap Waits(l, p) PROVE \E i \in Waits(k, p) : f[i] = x
    <3>1. PICK i \in 1 .. Len(k) : f[i] = x
      BY <1>2 DEF OneToOne
    <3>2. i \in Waits(k, p)
      BY <1>1, <1>2, <3>1 DEF Waits
    <3>3. QED
      BY <3>1, <3>2
  <2>4. QED
    BY <2>1, <2>2, <2>3 DEF OneToOne
<1>7. ASSUME NEW p, P \cap Waits(l, p) = {} PROVE Waits(k, p) = {}
  BY <1>6, <1>7 DEF OneToOne
<1>8. ASSUME NEW p, NEW x, P \cap Waits(l, p) = {x} PROVE \E y : Waits(k, p) = {y}
  <2>1. PICK y \in Waits(k, p) : f[y] = x
    BY <1>6, <1>8 DEF OneToOne
  <2>2. \A z \in Waits(k, p) : f[z] = x
    BY <1>6, <1>8 DEF OneToOne
  <2>3. \A z \in Waits(k, p) : z = y
    BY <1>6, <2>1, <2>2 DEF OneToOne
  <2>4. Waits(k, p) = {y}
    BY <2>1, <2>3
  <2>5. QED
    BY <2>4
<1>9. QED
  BY <1>1, <1>3, <1>4, <1>5, <1>7, <1>8 DEF Taken

\* Two lists in a row.
Joined(l, e, k) ==
    /\ k \in Seq(Entry) /\ Len(k) = Len(l) + Len(e) /\ Len(l) \in Nat /\ Len(e) \in Nat
    /\ \A i \in Pending(l) : i \in Pending(k) /\ k[i] = l[i] /\ i <= Len(l) /\ i \in Nat
    /\ \A i \in Pending(e) : Len(l) + i \in Pending(k) /\ k[Len(l) + i] = e[i] /\ i \in Nat /\ i > 0
    /\ \A i \in Pending(k) : i \in Pending(l) \/ \E j \in Pending(e) : i = Len(l) + j

\* Messages at the end of a list.
LEMMA ConcatEffect ==
    ASSUME NEW l \in Seq(Entry), NEW e \in Seq(Entry)
    PROVE  Joined(l, e, l \o e)
<1> DEFINE k == l \o e
<1>1. /\ k \in Seq(Entry) /\ Len(k) = Len(l) + Len(e) /\ Len(l) \in Nat /\ Len(e) \in Nat
      /\ \A i \in 1 .. Len(l) + Len(e) : k[i] = IF i <= Len(l) THEN l[i] ELSE e[i - Len(l)]
  BY ConcatProperties
<1> HIDE DEF k
<1>2. ASSUME NEW i \in Pending(l)
      PROVE  i \in Pending(k) /\ k[i] = l[i] /\ i <= Len(l) /\ i \in Nat
  <2>1. i \in 1 .. Len(l) /\ l[i] # NoMessage
    BY DEF Pending
  <2>2. k[i] = l[i] /\ i \in 1 .. Len(k)
    BY <1>1, <2>1
  <2>3. QED
    BY <2>1, <2>2 DEF Pending
<1>3. ASSUME NEW i \in Pending(e)
      PROVE  Len(l) + i \in Pending(k) /\ k[Len(l) + i] = e[i] /\ i \in Nat /\ i > 0
  <2>1. i \in 1 .. Len(e) /\ e[i] # NoMessage
    BY DEF Pending
  <2>2. Len(l) + i \in 1 .. Len(k) /\ ~(Len(l) + i <= Len(l)) /\ (Len(l) + i) - Len(l) = i
    BY <1>1, <2>1
  <2>3. k[Len(l) + i] = e[i]
    BY <1>1, <2>2
  <2>4. QED
    BY <2>1, <2>2, <2>3 DEF Pending
<1>4. ASSUME NEW i \in Pending(k) PROVE i \in Pending(l) \/ \E j \in Pending(e) : i = Len(l) + j
  <2>1. i \in 1 .. Len(k) /\ k[i] # NoMessage
    BY DEF Pending
  <2>2. CASE i <= Len(l)
    BY <1>1, <2>1, <2>2 DEF Pending
  <2>3. CASE ~(i <= Len(l))
    <3>1. i - Len(l) \in 1 .. Len(e) /\ i = Len(l) + (i - Len(l)) /\ k[i] = e[i - Len(l)]
      BY <1>1, <2>1, <2>3
    <3>2. i - Len(l) \in Pending(e)
      BY <2>1, <3>1 DEF Pending
    <3>3. QED
      BY <3>1, <3>2
  <2>4. QED
    BY <2>2, <2>3
<1>5. QED
  BY <1>1, <1>2, <1>3, <1>4 DEF Joined, k

\* The iterators have not reached them, and they are those of one more object.
LEMMA ConcatSound ==
    ASSUME NEW l \in Seq(Entry), NEW e \in Seq(Entry), NEW k, Joined(l, e, k), NEW fs \in Seq(Frame)
    PROVE  /\ Iterators(l, fs) => Iterators(k, fs)
           /\ /\ Ordered(l) /\ Ordered(e)
              /\ \A i \in Pending(l), j \in Pending(e) : l[i].receiver # e[j].receiver
              => Ordered(k)
           /\ \A m \in Held(k, fs) : m \in Held(l, fs) \/ \E j \in Pending(e) : m = e[j]
           /\ \A o : For(e, o) = {} => For(k, o) = For(l, o)
           /\ \A o : For(l, o) = {} => Cardinality(For(k, o)) = Cardinality(For(e, o))
           /\ \A p : Waits(e, p) = {} => Waits(k, p) = Waits(l, p)
           /\ \A p, y : Waits(l, p) = {} /\ Waits(e, p) = {y} => Waits(k, p) = {Len(l) + y}
<1>1. /\ k \in Seq(Entry) /\ Len(k) = Len(l) + Len(e) /\ Len(l) \in Nat /\ Len(e) \in Nat
      /\ \A i \in Pending(l) : i \in Pending(k) /\ k[i] = l[i] /\ i <= Len(l) /\ i \in Nat
      /\ \A i \in Pending(e) : Len(l) + i \in Pending(k) /\ k[Len(l) + i] = e[i] /\ i \in Nat /\ i > 0
      /\ \A i \in Pending(k) : i \in Pending(l) \/ \E j \in Pending(e) : i = Len(l) + j
  BY DEF Joined
<1>2. ASSUME Iterators(l, fs) PROVE Iterators(k, fs)
  <2> SUFFICES ASSUME NEW n \in 1 .. Len(fs)
               PROVE  /\ fs[n].pos <= Len(k)
                      /\ \A i \in Pending(k) : i <= fs[n].pos => ~Passes(fs[n], k[i])
    BY <1>2 DEF Iterators
  <2>1. fs[n].pos <= Len(l) /\ \A i \in Pending(l) : i <= fs[n].pos => ~Passes(fs[n], l[i])
    BY <1>2 DEF Iterators
  <2>2. fs[n].pos \in Nat
    BY FrameFields
  <2>3. fs[n].pos <= Len(k)
    BY <1>1, <2>1, <2>2
  <2>4. ASSUME NEW j \in Pending(e) PROVE ~(Len(l) + j <= fs[n].pos)
    <3>1. j \in Nat /\ j > 0
      BY <1>1
    <3>2. QED
      BY <1>1, <2>1, <2>2, <3>1
  <2>5. QED
    BY <1>1, <2>1, <2>3, <2>4
<1>3. ASSUME Ordered(l), Ordered(e), \A i \in Pending(l), j \in Pending(e) : l[i].receiver # e[j].receiver
      PROVE  Ordered(k)
  <2> SUFFICES ASSUME NEW i \in Pending(k), NEW j \in Pending(k), i < j, k[i].receiver = k[j].receiver
               PROVE  k[i].id < k[j].id
    BY DEF Ordered
  <2>1. CASE i \in Pending(l) /\ j \in Pending(l)
    BY <1>1, <1>3, <2>1 DEF Ordered
  <2>2. ASSUME NEW x \in Pending(e), i = Len(l) + x, NEW y \in Pending(e), j = Len(l) + y
        PROVE  k[i].id < k[j].id
    <3>1. k[i] = e[x] /\ k[j] = e[y] /\ x \in Nat /\ y \in Nat
      BY <1>1, <2>2
    <3>2. x < y
      BY <1>1, <2>2, <3>1
    <3>3. QED
      BY <1>3, <3>1, <3>2 DEF Ordered
  <2>3. ASSUME NEW x \in Pending(e), NEW y \in Pending(l) PROVE k[Len(l) + x].receiver # k[y].receiver
    <3>1. k[Len(l) + x] = e[x] /\ k[y] = l[y]
      BY <1>1
    <3>2. QED
      BY <1>3, <3>1
  <2>4. QED
    BY <1>1, <2>1, <2>2, <2>3
<1>4. ASSUME NEW m \in Held(k, fs) PROVE m \in Held(l, fs) \/ \E j \in Pending(e) : m = e[j]
  <2>1. CASE m \in {fs[n].message : n \in 1 .. Len(fs)} \ {NoMessage}
    BY <2>1 DEF Held
  <2>2. ASSUME NEW i \in Pending(k), m = k[i] PROVE m \in Held(l, fs) \/ \E j \in Pending(e) : m = e[j]
    <3>1. CASE i \in Pending(l)
      BY <1>1, <2>2, <3>1 DEF Held
    <3>2. ASSUME NEW j \in Pending(e), i = Len(l) + j PROVE m = e[j]
      BY <1>1, <2>2, <3>2
    <3>3. QED
      BY <1>1, <3>1, <3>2
  <2>3. QED
    BY <2>1, <2>2 DEF Held
<1>5. ASSUME NEW o, For(e, o) = {} PROVE For(k, o) = For(l, o)
  <2>1. \A j \in Pending(e) : e[j].receiver # o
    BY <1>5 DEF For
  <2>2. For(k, o) \subseteq For(l, o)
    <3>1. ASSUME NEW i \in For(k, o) PROVE i \in For(l, o)
      <4>1. i \in Pending(k) /\ k[i].receiver = o
        BY DEF For
      <4>2. i \in Pending(l)
        BY <1>1, <2>1, <4>1
      <4>3. QED
        BY <1>1, <4>1, <4>2 DEF For
    <3>2. QED
      BY <3>1
  <2>3. For(l, o) \subseteq For(k, o)
    BY <1>1 DEF For
  <2>4. QED
    BY <2>2, <2>3
<1>6. ASSUME NEW o, For(l, o) = {} PROVE Cardinality(For(k, o)) = Cardinality(For(e, o))
  <2> DEFINE f == [j \in Pending(e) |-> Len(l) + j]
  <2>1. \A j \in Pending(e) : f[j] = Len(l) + j /\ j \in Nat
    BY <1>1
  <2> HIDE DEF f
  <2>2. \A i \in Pending(l) : l[i].receiver # o
    BY <1>6 DEF For
  <2>3. \A j \in For(e, o) : j \in Pending(e) /\ f[j] \in For(k, o)
    BY <1>1, <2>1 DEF For
  <2>4. \A i, j \in For(e, o) : f[i] = f[j] => i = j
    <3>1. ASSUME NEW i \in For(e, o), NEW j \in For(e, o), f[i] = f[j] PROVE i = j
      <4>1. f[i] = Len(l) + i /\ f[j] = Len(l) + j /\ i \in Nat /\ j \in Nat
        BY <2>1, <2>3
      <4>2. Len(l) \in Nat /\ Len(l) + i = Len(l) + j
        BY <1>1, <3>1, <4>1
      <4>3. QED
        BY <4>1, <4>2
    <3>2. QED
      BY <3>1
  <2>5. ASSUME NEW x \in For(k, o) PROVE \E j \in For(e, o) : f[j] = x
    <3>1. x \in Pending(k) /\ k[x].receiver = o
      BY DEF For
    <3>2. PICK j \in Pending(e) : x = Len(l) + j
      BY <1>1, <2>2, <3>1
    <3>3. j \in For(e, o)
      BY <1>1, <3>1, <3>2 DEF For
    <3>4. QED
      BY <2>1, <3>2, <3>3
  <2>6. OneToOne(f, For(e, o), For(k, o))
    BY <2>3, <2>4, <2>5 DEF OneToOne
  <2>7. IsFiniteSet(For(e, o))
    <3>1. For(e, o) \subseteq Pending(e)
      BY DEF For
    <3>2. QED
      BY <3>1, PendingFinite
  <2>8. QED
    BY <2>6, <2>7, SameCount
<1>7. ASSUME NEW p, Waits(e, p) = {} PROVE Waits(k, p) = Waits(l, p)
  <2>1. \A j \in Pending(e) : e[j].waiter # p
    BY <1>7 DEF Waits
  <2>2. Waits(k, p) \subseteq Waits(l, p)
    <3>1. ASSUME NEW i \in Waits(k, p) PROVE i \in Waits(l, p)
      <4>1. i \in Pending(k) /\ k[i].waiter = p
        BY DEF Waits
      <4>2. i \in Pending(l)
        BY <1>1, <2>1, <4>1
      <4>3. QED
        BY <1>1, <4>1, <4>2 DEF Waits
    <3>2. QED
      BY <3>1
  <2>3. Waits(l, p) \subseteq Waits(k, p)
    BY <1>1 DEF Waits
  <2>4. QED
    BY <2>2, <2>3
<1>8. ASSUME NEW p, NEW y, Waits(l, p) = {}, Waits(e, p) = {y} PROVE Waits(k, p) = {Len(l) + y}
  <2>1. \A i \in Pending(l) : l[i].waiter # p
    BY <1>8 DEF Waits
  <2>2. y \in Pending(e) /\ e[y].waiter = p /\ \A j \in Pending(e) : e[j].waiter = p => j = y
    BY <1>8 DEF Waits
  <2>3. Len(l) + y \in Waits(k, p)
    BY <1>1, <2>2 DEF Waits
  <2>4. ASSUME NEW x \in Waits(k, p) PROVE x = Len(l) + y
    <3>1. x \in Pending(k) /\ k[x].waiter = p
      BY DEF Waits
    <3>2. PICK j \in Pending(e) : x = Len(l) + j
      BY <1>1, <2>1, <3>1
    <3>3. j = y
      BY <1>1, <2>2, <3>1, <3>2
    <3>4. QED
      BY <3>2, <3>3
  <2>5. QED
    BY <2>3, <2>4
<1>9. QED
  BY <1>2, <1>3, <1>4, <1>5, <1>6, <1>7, <1>8

-----------------------------------------------------------------------------
(* What the steps do to the calls of dispatchMessages().                    *)

\* The innermost call.
LEMMA LastFrame ==
    ASSUME NEW fs \in Seq(Frame), fs # <<>>
    PROVE  /\ Len(fs) \in Nat /\ Len(fs) > 0 /\ Len(fs) \in 1 .. Len(fs)
           /\ Last(fs) = fs[Len(fs)] /\ Last(fs) \in Frame
<1>1. Len(fs) \in Nat /\ Len(fs) > 0
  OBVIOUS
<1>2. QED
  BY <1>1 DEF Last

\* The innermost call is replaced by g.
Replaced(fs, g, hs) ==
    /\ hs \in Seq(Frame) /\ Len(hs) = Len(fs) /\ hs[Len(fs)] = g
    /\ \A n \in 1 .. Len(fs) : n # Len(fs) => hs[n] = fs[n]

\* It goes on.
LEMMA ReplaceEffect ==
    ASSUME NEW fs \in Seq(Frame), fs # <<>>, NEW g \in Frame
    PROVE  Replaced(fs, g, [fs EXCEPT ![Len(fs)] = g])
<1>1. Len(fs) \in 1 .. Len(fs)
  BY LastFrame
<1>2. QED
  BY <1>1 DEF Replaced

\* The message handler returns.
LEMMA ReturnSound ==
    ASSUME NEW l \in Seq(Entry), NEW fs \in Seq(Frame), fs # <<>>, NEW g \in Frame, NEW hs, Replaced(fs, g, hs),
           g.pos = fs[Len(fs)].pos, g.type = fs[Len(fs)].type, g.receiver = fs[Len(fs)].receiver,
           g.message = NoMessage
    PROVE  /\ Iterators(l, fs) => Iterators(l, hs)
           /\ Held(l, hs) \subseteq Held(l, fs)
           /\ \A p : Handles(hs, p) = Handles(fs, p) \ {Len(fs)}
<1>1. /\ Len(hs) = Len(fs) /\ hs[Len(fs)] = g /\ Len(fs) \in 1 .. Len(fs)
      /\ \A n \in 1 .. Len(fs) : n # Len(fs) => hs[n] = fs[n]
  BY LastFrame DEF Replaced
<1>2. ASSUME Iterators(l, fs) PROVE Iterators(l, hs)
  <2>1. ASSUME NEW n \in 1 .. Len(fs)
        PROVE  /\ hs[n].pos <= Len(l)
               /\ \A i \in Pending(l) : i <= hs[n].pos => ~Passes(hs[n], l[i])
               /\ hs[n].message # NoMessage => Passes(hs[n], hs[n].message)
               /\ n < Len(hs) => hs[n].message # NoMessage
               /\ n > 1 => hs[n].type # "DeferredDelete"
               /\ hs[n].type = "None" => hs[n].receiver = AnyObject
    <3>1. CASE n = Len(fs)
      BY <1>1, <1>2, <3>1 DEF Iterators, Passes
    <3>2. CASE n # Len(fs)
      BY <1>1, <1>2, <3>2 DEF Iterators
    <3>3. QED
      BY <3>1, <3>2
  <2>2. QED
    BY <1>1, <2>1 DEF Iterators
<1>3. Held(l, hs) \subseteq Held(l, fs)
  BY <1>1 DEF Held
<1>4. \A p : Handles(hs, p) = Handles(fs, p) \ {Len(fs)}
  BY <1>1 DEF Handles
<1>5. QED
  BY <1>2, <1>3, <1>4

\* f finds its next message at i, and goes on as g.
Delivers(l, f, i, g) ==
    /\ f.message = NoMessage
    /\ i \in Matching(l, f) /\ \A j \in Matching(l, f) : i <= j
    /\ g.pos = i /\ g.type = f.type /\ g.receiver = f.receiver /\ g.message = l[i]

\* A call that has found a message delivers it.
LEMMA DeliverSound ==
    ASSUME NEW l \in Seq(Entry), NEW fs \in Seq(Frame), fs # <<>>, NEW i \in Pending(l),
           NEW k, Thinned(l, k, {i}), NEW g, Delivers(l, fs[Len(fs)], i, g),
           NEW hs, Replaced(fs, g, hs), Iterators(l, fs)
    PROVE  /\ Iterators(k, hs)
           /\ Held(k, hs) \subseteq Held(l, fs)
           /\ \A p : Handles(hs, p) = IF l[i].waiter = p THEN Handles(fs, p) \cup {Len(fs)} ELSE Handles(fs, p)
<1>0. /\ fs[Len(fs)].message = NoMessage
      /\ i \in Matching(l, fs[Len(fs)]) /\ \A j \in Matching(l, fs[Len(fs)]) : i <= j
      /\ g.pos = i /\ g.type = fs[Len(fs)].type /\ g.receiver = fs[Len(fs)].receiver /\ g.message = l[i]
  BY DEF Delivers
<1>1. /\ Len(hs) = Len(fs) /\ hs[Len(fs)] = g /\ Len(fs) \in 1 .. Len(fs)
      /\ \A n \in 1 .. Len(fs) : n # Len(fs) => hs[n] = fs[n]
  BY LastFrame DEF Replaced
<1>2. /\ Len(k) = Len(l) /\ Pending(k) = Pending(l) \ {i} /\ \A j \in Pending(k) : k[j] = l[j]
      /\ i \in 1 .. Len(l) /\ i \in Nat /\ Len(l) \in Nat /\ l[i] # NoMessage
  BY PendingFields DEF Thinned
<1>3. Iterators(k, fs)
  BY ThinnedEffect
<1>4. Passes(fs[Len(fs)], l[i])
  BY <1>0 DEF Matching, Passes
<1>5. ASSUME NEW j \in Pending(k), j <= i PROVE ~Passes(fs[Len(fs)], k[j])
  <2>1. j \in Pending(l) /\ j # i /\ k[j] = l[j] /\ j \in Nat
    BY <1>2, PendingFields
  <2>2. j \notin Matching(l, fs[Len(fs)])
    BY <1>0, <1>2, <1>5, <2>1
  <2>3. CASE j > fs[Len(fs)].pos
    BY <2>1, <2>2, <2>3 DEF Matching, Passes
  <2>4. CASE j <= fs[Len(fs)].pos
    BY <1>1, <2>1, <2>4 DEF Iterators
  <2>5. QED
    <3>1. fs[Len(fs)].pos \in Nat
      BY <1>1, FrameFields
    <3>2. QED
      BY <2>1, <2>3, <2>4, <3>1
<1>6. Iterators(k, hs)
  <2>1. ASSUME NEW n \in 1 .. Len(fs)
        PROVE  /\ hs[n].pos <= Len(k)
               /\ \A j \in Pending(k) : j <= hs[n].pos => ~Passes(hs[n], k[j])
               /\ hs[n].message # NoMessage => Passes(hs[n], hs[n].message)
               /\ n < Len(hs) => hs[n].message # NoMessage
               /\ n > 1 => hs[n].type # "DeferredDelete"
               /\ hs[n].type = "None" => hs[n].receiver = AnyObject
    <3>1. CASE n = Len(fs)
      <4>1. hs[n] = g /\ g.pos <= Len(k)
        BY <1>0, <1>1, <1>2, <3>1
      <4>2. Passes(g, g.message)
        BY <1>0, <1>4 DEF Passes
      <4>3. \A j \in Pending(k) : j <= i => ~Passes(g, k[j])
        BY <1>0, <1>5 DEF Passes
      <4>4. (n > 1 => g.type # "DeferredDelete") /\ (g.type = "None" => g.receiver = AnyObject)
            /\ g.message # NoMessage
        BY <1>0, <1>2, <3>1 DEF Iterators
      <4>5. QED
        BY <1>0, <4>1, <4>2, <4>3, <4>4
    <3>2. CASE n # Len(fs)
      BY <1>1, <1>3, <3>2 DEF Iterators
    <3>3. QED
      BY <3>1, <3>2
  <2>2. QED
    BY <1>1, <2>1 DEF Iterators
<1>7. Held(k, hs) \subseteq Held(l, fs)
  BY <1>0, <1>1, <1>2 DEF Held
<1>8. \A p : Handles(hs, p) = IF l[i].waiter = p THEN Handles(fs, p) \cup {Len(fs)} ELSE Handles(fs, p)
  BY <1>0, <1>1, <1>2 DEF Handles
<1>9. QED
  BY <1>6, <1>7, <1>8

\* A call that calls on: its frame is the innermost one.
Called(fs, c, hs) ==
    /\ hs \in Seq(Frame) /\ Len(hs) = Len(fs) + 1 /\ Len(fs) \in Nat /\ hs[Len(fs) + 1] = c
    /\ \A n \in 1 .. Len(fs) : hs[n] = fs[n]

\* dispatchMessages()
LEMMA CallEffect ==
    ASSUME NEW fs \in Seq(Frame), NEW c \in Frame
    PROVE  Called(fs, c, Append(fs, c))
<1>1. Len(fs) \in Nat
  OBVIOUS
<1>2. QED
  BY <1>1 DEF Called

\* It has not passed anything yet.
LEMMA CallSound ==
    ASSUME NEW l \in Seq(Entry), NEW fs \in Seq(Frame), NEW c \in Frame, NEW hs, Called(fs, c, hs),
           c.pos = 0, c.message = NoMessage, c.type = "None" => c.receiver = AnyObject,
           fs # <<>> => c.type # "DeferredDelete" /\ fs[Len(fs)].message # NoMessage
    PROVE  /\ Iterators(l, fs) => Iterators(l, hs)
           /\ Held(l, hs) = Held(l, fs)
           /\ \A p : Handles(hs, p) = Handles(fs, p)
<1>1. /\ Len(hs) = Len(fs) + 1 /\ Len(fs) \in Nat /\ hs[Len(fs) + 1] = c
      /\ \A n \in 1 .. Len(fs) : hs[n] = fs[n]
  BY DEF Called
<1>2. \A n \in 1 .. Len(fs) + 1 : n \in 1 .. Len(fs) \/ n = Len(fs) + 1
  BY <1>1
<1>3. \A n \in 1 .. Len(fs) : n \in 1 .. Len(fs) + 1
  BY <1>1
<1>4. ASSUME Iterators(l, fs) PROVE Iterators(l, hs)
  <2>1. ASSUME NEW n \in 1 .. Len(fs) + 1
        PROVE  /\ hs[n].pos <= Len(l)
               /\ \A i \in Pending(l) : i <= hs[n].pos => ~Passes(hs[n], l[i])
               /\ hs[n].message # NoMessage => Passes(hs[n], hs[n].message)
               /\ n < Len(hs) => hs[n].message # NoMessage
               /\ n > 1 => hs[n].type # "DeferredDelete"
               /\ hs[n].type = "None" => hs[n].receiver = AnyObject
    <3>1. CASE n = Len(fs) + 1
      <4>1. hs[n] = c /\ 0 <= Len(l)
        BY <1>1, <3>1
      <4>2. \A i \in Pending(l) : ~(i <= 0)
        BY DEF Pending
      <4>3. n > 1 => fs # <<>>
        BY <1>1, <3>1
      <4>4. QED
        BY <1>1, <3>1, <4>1, <4>2, <4>3
    <3>2. CASE n \in 1 .. Len(fs)
      <4>1. hs[n].message # NoMessage
        <5>1. CASE n = Len(fs)
          BY <1>1, <3>2, <5>1
        <5>2. CASE n # Len(fs)
          <6>1. n < Len(fs)
            BY <1>1, <3>2, <5>2
          <6>2. QED
            BY <1>1, <1>4, <3>2, <6>1 DEF Iterators
        <5>3. QED
          BY <5>1, <5>2
      <4>2. QED
        BY <1>1, <1>4, <3>2, <4>1 DEF Iterators
    <3>3. QED
      BY <1>2, <3>1, <3>2
  <2>2. QED
    BY <1>1, <2>1 DEF Iterators
<1>5. {hs[n].message : n \in 1 .. Len(hs)} \ {NoMessage} = {fs[n].message : n \in 1 .. Len(fs)} \ {NoMessage}
  <2>1. {hs[n].message : n \in 1 .. Len(hs)} \ {NoMessage} \subseteq {fs[n].message : n \in 1 .. Len(fs)}
    BY <1>1, <1>2
  <2>2. {fs[n].message : n \in 1 .. Len(fs)} \subseteq {hs[n].message : n \in 1 .. Len(hs)}
    BY <1>1, <1>3
  <2>3. QED
    BY <2>1, <2>2
<1>6. \A p : Handles(hs, p) = Handles(fs, p)
  BY <1>1, <1>2, <1>3 DEF Handles
<1>7. QED
  BY <1>4, <1>5, <1>6 DEF Held

\* The innermost call, which has no message, ends.
LEMMA FrontSound ==
    ASSUME NEW l \in Seq(Entry), NEW fs \in Seq(Frame), fs # <<>>, fs[Len(fs)].message = NoMessage,
           NEW hs, hs = Front(fs)
    PROVE  /\ hs \in Seq(Frame) /\ Len(hs) = Len(fs) - 1
           /\ \A n \in 1 .. Len(fs) - 1 : hs[n] = fs[n]
           /\ Iterators(l, fs) => Iterators(l, hs)
           /\ Held(l, hs) = Held(l, fs)
           /\ \A p : Handles(hs, p) = Handles(fs, p)
<1>1. Len(fs) \in Nat /\ Len(fs) > 0
  BY LastFrame
<1>2. /\ hs \in Seq(Frame) /\ Len(hs) = Len(fs) - 1
      /\ \A n \in 1 .. Len(fs) - 1 : hs[n] = fs[n]
  BY FrontIndexing DEF Front
<1>3. \A n \in 1 .. Len(fs) : n \in 1 .. Len(fs) - 1 \/ n = Len(fs)
  BY <1>1
<1>4. \A n \in 1 .. Len(fs) - 1 : n \in 1 .. Len(fs)
  BY <1>1
<1>5. Iterators(l, fs) => Iterators(l, hs)
  BY <1>2, <1>4 DEF Iterators
<1>6. {hs[n].message : n \in 1 .. Len(hs)} \ {NoMessage} = {fs[n].message : n \in 1 .. Len(fs)} \ {NoMessage}
  <2>1. {fs[n].message : n \in 1 .. Len(fs)} \ {NoMessage} \subseteq {hs[n].message : n \in 1 .. Len(hs)}
    BY <1>2, <1>3
  <2>2. {hs[n].message : n \in 1 .. Len(hs)} \subseteq {fs[n].message : n \in 1 .. Len(fs)}
    BY <1>2, <1>4
  <2>3. QED
    BY <2>1, <2>2
<1>7. \A p : Handles(hs, p) = Handles(fs, p)
  BY <1>2, <1>3, <1>4 DEF Handles
<1>8. QED
  BY <1>2, <1>5, <1>6, <1>7 DEF Held

-----------------------------------------------------------------------------
(* What the steps do to the threads and to the callers.                     *)

\* The messages of a thread, as the guards of the steps see them.
LEMMA HeldIsSeen ==
    ASSUME NEW t \in Thread, NEW m \in Held(list[t], frames[t])
    PROVE  /\ m.type = "DeferredDelete" => Deleting(m.receiver)
           /\ m.waiter # NoPoster => InUse(m.receiver)
<1>1. m \in {list[t][i] : i \in Pending(list[t])} \/ m \in Handling(t)
  BY DEF Held, Handling
<1>2. CASE m \in Handling(t)
  BY <1>2 DEF Deleting, InUse
<1>3. ASSUME NEW i \in Pending(list[t]), m = list[t][i]
      PROVE  /\ m.type = "DeferredDelete" => Deleting(m.receiver)
             /\ m.waiter # NoPoster => InUse(m.receiver)
  <2>1. i \in For(list[t], m.receiver)
    BY <1>3 DEF For
  <2>2. QED
    BY <1>3, <2>1 DEF Deleting, InUse
<1>4. QED
  BY <1>1, <1>2, <1>3

\* What a thread has is a set of messages.
LEMMA HeldFields ==
    ASSUME Shape, NEW t \in Thread, NEW m \in Held(list[t], frames[t])
    PROVE  m \in Message
<1>1. list[t] \in Seq(Entry) /\ frames[t] \in Seq(Frame)
  BY DEF Shape
<1>2. \A i \in Pending(list[t]) : list[t][i] \in Message
  BY <1>1, PendingFields
<1>3. \A n \in 1 .. Len(frames[t]) : frames[t][n].message # NoMessage => frames[t][n].message \in Message
  BY <1>1, FrameFields
<1>4. QED
  BY <1>2, <1>3 DEF Held

\* A thread that a step leaves alone.
LEMMA ThreadKept ==
    ASSUME NEW t \in Thread, ThreadSound(t), list'[t] = list[t], frames'[t] = frames[t],
           \A m \in Held(list[t], frames[t]) : Bound(m, t)'
    PROVE  ThreadSound(t)'
  BY DEF ThreadSound

\* A caller whose message stays in the place where it is, or in the same thread.
LEMMA CallerKept ==
    ASSUME NEW p \in Poster, Caller(p), poster'[p] = poster[p],
           \A t \in Thread : /\ Nowhere(p, t) => Nowhere(p, t)'
                             /\ Somewhere(p, t) => Somewhere(p, t)'
    PROVE  Caller(p)'
<1>1. Blocked(p)' = Blocked(p) /\ poster'[p].available = poster[p].available
  BY DEF Blocked
<1>2. poster'[p].pc = "acquire" => poster'[p].blocking
  BY DEF Caller
<1>3. CASE \A t \in Thread : Nowhere(p, t)
  <2>1. \A t \in Thread : Nowhere(p, t)'
    BY <1>3
  <2>2. CASE Thread = {}
    BY <2>2, LoopAssumption DEF LoopAssumption
  <2>3. ASSUME NEW t \in Thread PROVE ~Somewhere(p, t)
    BY <1>3 DEF Somewhere, Nowhere
  <2>4. (Blocked(p) /\ poster[p].available = 1) \/ (~Blocked(p) /\ poster[p].available = 0)
    BY <2>3 DEF Caller
  <2>5. QED
    BY <1>1, <1>2, <2>1, <2>4 DEF Caller
<1>4. CASE Blocked(p) /\ poster[p].available = 0 /\ \E t \in Thread :
              Somewhere(p, t) /\ \A u \in Thread \ {t} : Nowhere(p, u)
  <2>1. PICK t \in Thread : Somewhere(p, t) /\ \A u \in Thread \ {t} : Nowhere(p, u)
    BY <1>4
  <2>2. Somewhere(p, t)' /\ \A u \in Thread \ {t} : Nowhere(p, u)'
    BY <2>1
  <2>3. QED
    BY <1>1, <1>2, <1>4, <2>2 DEF Caller
<1>5. QED
  BY <1>3, <1>4 DEF Caller

\* A caller whose message has not been touched at all.
LEMMA CallerSame ==
    ASSUME NEW p \in Poster, Caller(p), poster'[p] = poster[p],
           \A t \in Thread : /\ Waits(list'[t], p) = Waits(list[t], p)
                             /\ Handles(frames'[t], p) = Handles(frames[t], p)
    PROVE  Caller(p)'
<1>1. ASSUME NEW t \in Thread
      PROVE  /\ Nowhere(p, t) => Nowhere(p, t)'
             /\ Somewhere(p, t) => Somewhere(p, t)'
  BY DEF Nowhere, Somewhere
<1>2. QED
  BY <1>1, CallerKept

\* A poster between two calls.
LEMMA IdleFields ==
    /\ IdlePoster \in [pc : {"idle", "interrupt", "acquire"}, thread : Thread,
                       blocking : BOOLEAN, available : Int]
    /\ IdlePoster.pc = "idle" /\ IdlePoster.available = 0
  BY LoopAssumption DEF LoopAssumption, IdlePoster

\* A message that w waits for is at the end of the list of t0, and all is well.
Pushed(t0, w) ==
    /\ list' \in [Thread -> Seq(Entry)] /\ pending' \in [Object -> Int] /\ posted' \in 0 .. MaxMessages
    /\ \A t \in Thread : t # t0 => list'[t] = list[t]
    /\ \A t \in Thread : ThreadSound(t)'
    /\ \A q \in Object : pending'[q] = Cardinality(For(list'[home'[q]], q))
    /\ \A p : Waits(list'[t0], p) = IF w = p THEN Waits(list[t0], p) \cup {Len(list[t0]) + 1}
                                             ELSE Waits(list[t0], p)

\* push(): the lists and the objects.
LEMMA PushSound ==
    ASSUME LoopInv, NEW o \in alive, NEW type \in Type, NEW w \in Poster \cup {NoPoster},
           push(o, type, w),
           IF type = "DeferredDelete" THEN w = NoPoster /\ ~InUse(o) ELSE ~Deleting(o),
           frames' = frames, home' = home, alive' = alive
    PROVE  Pushed(home[o], w)
<1>0. PICK t0 : t0 = home[o]
  OBVIOUS
<1>1. /\ o \in Object /\ t0 \in Thread /\ list \in [Thread -> Seq(Entry)] /\ frames \in [Thread -> Seq(Frame)]
      /\ posted \in 0 .. MaxMessages /\ pending \in [Object -> Int] /\ home \in [Object -> Thread]
  BY <1>0 DEF LoopInv, Shape
<1>2. posted' = posted + 1 /\ posted + 1 \in 1 .. MaxMessages
  BY <1>1, LoopAssumption DEF push, LoopAssumption
<1>3. PICK m \in Message : m = [id |-> posted + 1, type |-> type, receiver |-> o, waiter |-> w]
  BY <1>1, <1>2 DEF Message
<1>4. m.id = posted + 1 /\ m.type = type /\ m.receiver = o /\ m.waiter = w
  BY <1>3
<1>5. list' = [list EXCEPT ![t0] = Append(@, m)]
  BY <1>0, <1>3 DEF push
<1>6. pending' = [pending EXCEPT ![o] = @ + 1]
  BY DEF push
<1>7. PICK l \in Seq(Entry) : l = list[t0]
  BY <1>1
<1>8. PICK k : k = Append(l, m)
  OBVIOUS
<1>9. Appended(l, m, k)
  BY <1>3, <1>8, AppendEffect
<1>10. k \in Seq(Entry)
  BY <1>9 DEF Appended
<1>11. list'[t0] = k /\ (\A t \in Thread : t # t0 => list'[t] = list[t]) /\ list' \in [Thread -> Seq(Entry)]
  BY <1>1, <1>5, <1>7, <1>8, <1>10
<1>12. PICK fs \in Seq(Frame) : fs = frames[t0]
  BY <1>1
<1>13. /\ Iterators(l, fs) => Iterators(k, fs)
       /\ Ordered(l) /\ (\A i \in Pending(l) : l[i].id < m.id) => Ordered(k)
       /\ Held(k, fs) = Held(l, fs) \cup {m}
       /\ \A q : For(k, q) = IF m.receiver = q THEN For(l, q) \cup {Len(l) + 1} ELSE For(l, q)
       /\ \A p : Waits(k, p) = IF m.waiter = p THEN Waits(l, p) \cup {Len(l) + 1} ELSE Waits(l, p)
  <2>1. OneMore(l, m, k, fs)
    BY <1>3, <1>9, AppendSound
  <2>2. QED
    BY <2>1 DEF OneMore
<1>14. \A t \in Thread : ThreadSound(t)
  BY DEF LoopInv
<1>15. \A t \in Thread : \A n \in Held(list[t], frames[t]) : Bound(n, t) /\ n.id \in Nat
  BY <1>14, HeldFields, MessageFields DEF ThreadSound, LoopInv
<1>16. \A t \in Thread : \A n \in Held(list[t], frames[t]) : Bound(n, t)'
  BY <1>1, <1>2, <1>15 DEF Bound
<1>17. ASSUME NEW t \in Thread, t # t0 PROVE ThreadSound(t)'
  BY <1>11, <1>14, <1>16, <1>17, ThreadKept
<1>18. ThreadSound(t0)'
  <2>1. Iterators(l, fs) /\ Ordered(l) /\ Deletions(l, fs)
    BY <1>1, <1>7, <1>12, <1>14 DEF ThreadSound
  <2>2. \A i \in Pending(l) : l[i].id < m.id
    <3>1. ASSUME NEW i \in Pending(l) PROVE l[i].id < m.id
      <4>1. l[i] \in Held(l, fs)
        BY DEF Held
      <4>2. l[i].id <= posted /\ l[i].id \in Nat
        BY <1>1, <1>7, <1>12, <1>15, <4>1 DEF Bound
      <4>3. QED
        BY <1>1, <1>4, <4>2
    <3>2. QED
      BY <3>1
  <2>3. Iterators(k, fs) /\ Ordered(k)
    BY <1>13, <2>1, <2>2
  <2>4. Bound(m, t0)'
    BY <1>0, <1>1, <1>2, <1>4 DEF Bound
  <2>5. \A n \in Held(k, fs) : Bound(n, t0)'
    BY <1>1, <1>7, <1>12, <1>13, <1>16, <2>4
  <2>6. Deletions(k, fs)
    <3> SUFFICES ASSUME NEW x \in Held(k, fs), NEW y \in Held(k, fs),
                        x.type = "DeferredDelete", x.receiver = y.receiver
                 PROVE  y.waiter = NoPoster
      BY DEF Deletions
    <3>1. CASE x \in Held(l, fs) /\ y \in Held(l, fs)
      BY <2>1, <3>1 DEF Deletions
    <3>2. CASE x \in Held(l, fs) /\ y = m
      <4>1. Deleting(o)
        BY <1>1, <1>4, <1>7, <1>12, <3>2, HeldIsSeen
      <4>2. QED
        BY <1>4, <3>2, <4>1
    <3>3. CASE x = m /\ y \in Held(l, fs)
      BY <1>1, <1>4, <1>7, <1>12, <3>3, HeldIsSeen
    <3>4. CASE x = m /\ y = m
      BY <1>4, <3>4
    <3>5. QED
      BY <1>13, <3>1, <3>2, <3>3, <3>4
  <2>7. QED
    BY <1>11, <1>12, <2>3, <2>5, <2>6 DEF ThreadSound
<1>19. ASSUME NEW q \in Object PROVE pending'[q] = Cardinality(For(list'[home'[q]], q))
  <2>1. pending[q] = Cardinality(For(list[home[q]], q))
    BY DEF LoopInv
  <2>2. CASE q = o
    <3>1. pending'[q] = pending[q] + 1
      BY <1>1, <1>6, <2>2
    <3>2. list'[home'[q]] = k /\ list[home[q]] = l
      BY <1>0, <1>7, <1>11, <2>2
    <3>3. For(k, q) = For(l, q) \cup {Len(l) + 1} /\ Len(l) + 1 \notin For(l, q)
      BY <1>4, <1>9, <1>13, <2>2 DEF Appended, For
    <3>4. IsFiniteSet(For(l, q))
      <4>1. For(l, q) \subseteq Pending(l)
        BY DEF For
      <4>2. QED
        BY <4>1, PendingFinite
    <3>5. Cardinality(For(l, q) \cup {Len(l) + 1}) = Cardinality(For(l, q)) + 1
      BY <3>3, <3>4, FS_AddElement
    <3>6. QED
      BY <2>1, <3>1, <3>2, <3>3, <3>5
  <2>3. CASE q # o
    <3>1. pending'[q] = pending[q]
      BY <1>1, <1>6, <2>3
    <3>2. CASE home[q] = t0
      <4>1. For(k, q) = For(l, q)
        BY <1>4, <1>13, <2>3
      <4>2. QED
        BY <1>7, <1>11, <2>1, <3>1, <3>2, <4>1
    <3>3. CASE home[q] # t0
      <4>1. list'[home'[q]] = list[home[q]]
        BY <1>1, <1>11, <3>3
      <4>2. QED
        BY <2>1, <3>1, <4>1
    <3>4. QED
      BY <3>2, <3>3
  <2>4. QED
    BY <2>2, <2>3
<1>20. posted' \in 0 .. MaxMessages /\ pending' \in [Object -> Int]
  BY <1>1, <1>2, <1>6
<1>21. QED
  BY <1>0, <1>4, <1>7, <1>11, <1>13, <1>17, <1>18, <1>19, <1>20 DEF Pushed

\* Someone has woken the thread up, or is about to.
Woken(t) == eventfd[t] \/ \E p \in Poster : poster[p].pc = "interrupt" /\ poster[p].thread = t

\* A thread that does not go on.
LEMMA AwakeKept ==
    ASSUME NEW t \in Thread, Awake(t),
           pc'[t] = pc[t], dispatcher'[t] = dispatcher[t], running'[t] = running[t],
           frames'[t] = <<>> <=> frames[t] = <<>>,
           frames[t] # <<>> => /\ frames'[t][1].type = frames[t][1].type
                               /\ frames'[t][1].receiver = frames[t][1].receiver,
           Asleep(t)' => Asleep(t),
           Asleep(t) /\ Woken(t) => Woken(t)',
           Asleep(t) /\ Pending(list'[t]) # {} => Pending(list[t]) # {} \/ Woken(t)'
    PROVE  Awake(t)'
  BY DEF Awake, Woken

\* One that goes on.
LEMMA AwakeNow ==
    ASSUME NEW t \in Thread, Awake(t), ~Asleep(t)',
           pc'[t] = pc[t], dispatcher'[t] = dispatcher[t], running'[t] = running[t],
           frames'[t] = <<>> <=> frames[t] = <<>>,
           frames[t] # <<>> => /\ frames'[t][1].type = frames[t][1].type
                               /\ frames'[t][1].receiver = frames[t][1].receiver
    PROVE  Awake(t)'
  BY DEF Awake

\* One that sleeps has a dispatcher.
LEMMA AsleepDispatcher ==
    ASSUME NEW t \in Thread, Awake(t), Asleep(t)
    PROVE  dispatcher[t]
  BY DEF Awake, Asleep

\* postMessage(), under the lock.
LEMMA PostMessageStep ==
    ASSUME LoopInv, NEW p \in Poster, NEW o \in Object, NEW type \in Type,
           \E blocking \in BOOLEAN : PostMessage(p, o, type, blocking)
    PROVE  LoopInv'
<1>1. PICK b \in BOOLEAN : PostMessage(p, o, type, b)
  OBVIOUS
<1>2. PICK w \in Poster \cup {NoPoster} : w = IF b THEN p ELSE NoPoster
  OBVIOUS
<1>3. PICK t0 : t0 = home[o]
  OBVIOUS
<1>4. /\ poster[p].pc = "idle" /\ o \in alive /\ push(o, type, w)
      /\ IF type = "DeferredDelete" THEN ~b /\ ~InUse(o) ELSE ~Deleting(o)
      /\ pc' = pc /\ frames' = frames /\ running' = running /\ dispatcher' = dispatcher
      /\ eventfd' = eventfd /\ home' = home /\ alive' = alive
  BY <1>1, <1>2 DEF PostMessage, loopVars, threadVars, objectVars
<1>5. poster' = [poster EXCEPT ![p] = [pc |-> "interrupt", thread |-> t0, blocking |-> b, available |-> 0]]
  BY <1>1, <1>3 DEF PostMessage
<1>6. Shape /\ t0 \in Thread /\ home \in [Object -> Thread]
  BY <1>3 DEF LoopInv, Shape
<1>7. w # NoPoster => b
  BY <1>2
<1>8. /\ list' \in [Thread -> Seq(Entry)] /\ pending' \in [Object -> Int] /\ posted' \in 0 .. MaxMessages
      /\ \A t \in Thread : t # t0 => list'[t] = list[t]
      /\ \A t \in Thread : ThreadSound(t)'
      /\ \A q \in Object : pending'[q] = Cardinality(For(list'[home'[q]], q))
      /\ \A q : Waits(list'[t0], q) = IF w = q THEN Waits(list[t0], q) \cup {Len(list[t0]) + 1}
                                               ELSE Waits(list[t0], q)
  <2>1. Pushed(home[o], w)
    BY <1>4, <1>7, PushSound
  <2>2. QED
    BY <1>3, <2>1 DEF Pushed
<1>9. /\ poster'[p].pc = "interrupt" /\ poster'[p].thread = t0 /\ poster'[p].blocking = b
      /\ poster'[p].available = 0
      /\ \A q \in Poster : q # p => poster'[q] = poster[q]
      /\ poster' \in [Poster -> [pc : {"idle", "interrupt", "acquire"}, thread : Thread,
                                 blocking : BOOLEAN, available : Int]]
  BY <1>5, <1>6 DEF Shape
<1>10. Shape'
  BY <1>4, <1>6, <1>8, <1>9 DEF Shape
<1>11. ASSUME NEW t \in Thread PROVE Awake(t)'
  <2>1. Awake(t)
    BY DEF LoopInv
  <2>2. Woken(t) => Woken(t)'
    BY <1>4, <1>9 DEF Woken
  <2>3. t = t0 => Woken(t)'
    BY <1>9 DEF Woken
  <2>4. QED
    BY <1>4, <1>8, <2>1, <2>2, <2>3, AwakeKept DEF Asleep
<1>12. ASSUME NEW q \in Poster PROVE Caller(q)'
  <2>1. Caller(q)
    BY DEF LoopInv
  <2>2. CASE q # p
    <3>1. w # q
      BY <1>2, <2>2, LoopAssumption DEF LoopAssumption
    <3>2. \A t \in Thread : Waits(list'[t], q) = Waits(list[t], q)
      BY <1>8, <3>1
    <3>3. QED
      BY <1>4, <1>9, <2>1, <2>2, <3>2, CallerSame
  <2>3. CASE q = p
    <3>1. \A t \in Thread : Nowhere(p, t)
      BY <1>4, <2>1, <2>3 DEF Caller, Blocked
    <3>2. \A t \in Thread : t # t0 => Nowhere(p, t)'
      BY <1>4, <1>8, <3>1 DEF Nowhere
    <3>3. Handles(frames'[t0], p) = {} /\ Waits(list[t0], p) = {}
      BY <1>4, <1>6, <3>1 DEF Nowhere
    <3>4. CASE b
      <4>1. w = p
        BY <1>2, <3>4
      <4>2. Waits(list'[t0], p) = {Len(list[t0]) + 1}
        BY <1>8, <3>3, <4>1
      <4>3. Somewhere(p, t0)'
        BY <3>3, <4>2 DEF Somewhere
      <4>4. Blocked(p)'
        BY <1>9, <3>4 DEF Blocked
      <4>5. QED
        BY <1>6, <1>9, <2>3, <3>2, <4>3, <4>4 DEF Caller
    <3>5. CASE ~b
      <4>1. w # p
        BY <1>2, <3>5, LoopAssumption DEF LoopAssumption
      <4>2. Nowhere(p, t0)'
        BY <1>8, <3>3, <4>1 DEF Nowhere
      <4>3. ~Blocked(p)'
        BY <1>9, <3>5 DEF Blocked
      <4>4. QED
        BY <1>9, <2>3, <3>2, <4>2, <4>3 DEF Caller
    <3>6. QED
      BY <3>4, <3>5
  <2>4. QED
    BY <2>2, <2>3
<1>13. QED
  BY <1>8, <1>10, <1>11, <1>12 DEF LoopInv

\* An invoked method posts a message.
LEMMA MethodPostsStep ==
    ASSUME LoopInv, NEW t0 \in Thread, NEW o \in Object, MethodPosts(t0, o)
    PROVE  LoopInv'
<1>1. /\ o \in alive /\ ~Deleting(o) /\ home[o] = t0 /\ push(o, "InvokeMessage", NoPoster)
      /\ pc' = pc /\ frames' = frames /\ running' = running /\ dispatcher' = dispatcher
      /\ home' = home /\ alive' = alive /\ poster' = poster
      /\ eventfd' = [eventfd EXCEPT ![t0] = TRUE]
  BY DEF MethodPosts, loopVars, threadVars, objectVars
<1>2. Shape
  BY DEF LoopInv
<1>3. "InvokeMessage" \in Type
  BY DEF Type
<1>4. /\ list' \in [Thread -> Seq(Entry)] /\ pending' \in [Object -> Int] /\ posted' \in 0 .. MaxMessages
      /\ \A t \in Thread : t # t0 => list'[t] = list[t]
      /\ \A t \in Thread : ThreadSound(t)'
      /\ \A q \in Object : pending'[q] = Cardinality(For(list'[home'[q]], q))
      /\ \A q : Waits(list'[t0], q) = IF NoPoster = q THEN Waits(list[t0], q) \cup {Len(list[t0]) + 1}
                                                      ELSE Waits(list[t0], q)
  <2>1. "InvokeMessage" # "DeferredDelete" /\ NoPoster \in Poster \cup {NoPoster}
    OBVIOUS
  <2>2. Pushed(home[o], NoPoster)
    BY <1>1, <1>3, <2>1, PushSound
  <2>3. QED
    BY <1>1, <2>2 DEF Pushed
<1>5. eventfd' \in [Thread -> BOOLEAN] /\ eventfd'[t0] /\ \A t \in Thread : eventfd[t] => eventfd'[t]
  BY <1>1, <1>2 DEF Shape
<1>6. Shape'
  BY <1>1, <1>2, <1>4, <1>5 DEF Shape
<1>7. ASSUME NEW t \in Thread PROVE Awake(t)'
  <2>1. Awake(t)
    BY DEF LoopInv
  <2>2. (Woken(t) => Woken(t)') /\ (t = t0 => Woken(t)')
    BY <1>1, <1>5 DEF Woken
  <2>3. QED
    BY <1>1, <1>4, <2>1, <2>2, AwakeKept DEF Asleep
<1>8. ASSUME NEW q \in Poster PROVE Caller(q)'
  <2>1. q # NoPoster /\ Caller(q)
    BY LoopAssumption DEF LoopAssumption, LoopInv
  <2>2. \A t \in Thread : Waits(list'[t], q) = Waits(list[t], q)
    BY <1>4, <2>1
  <2>3. QED
    BY <1>1, <2>1, <2>2, CallerSame
<1>9. QED
  BY <1>4, <1>6, <1>7, <1>8 DEF LoopInv

\* Steps that change no list and no call.
LEMMA QuietThreads ==
    ASSUME LoopInv, list' = list, frames' = frames, home' = home, alive' = alive, posted' = posted,
           pending' = pending
    PROVE  /\ \A t \in Thread : ThreadSound(t)'
           /\ \A q \in Object : pending'[q] = Cardinality(For(list'[home'[q]], q))
<1>1. ASSUME NEW t \in Thread PROVE ThreadSound(t)'
  <2>1. ThreadSound(t)
    BY DEF LoopInv
  <2>2. \A m \in Held(list[t], frames[t]) : Bound(m, t)'
    BY <2>1 DEF ThreadSound, Bound
  <2>3. QED
    BY <2>1, <2>2, ThreadKept
<1>2. QED
  BY <1>1 DEF LoopInv

\* ... and that do not concern the posters.
LEMMA QuietStep ==
    ASSUME LoopInv, list' = list, frames' = frames, home' = home, alive' = alive, posted' = posted,
           pending' = pending, poster' = poster, Shape', \A t \in Thread : Awake(t)'
    PROVE  LoopInv'
<1>1. ASSUME NEW p \in Poster PROVE Caller(p)'
  <2>1. Caller(p)
    BY DEF LoopInv
  <2>2. QED
    BY <2>1, CallerSame
<1>2. QED
  BY <1>1, QuietThreads DEF LoopInv

\* postMessage(), after the lock.
LEMMA PostMessageInterruptStep ==
    ASSUME LoopInv, NEW p \in Poster, PostMessageInterrupt(p)
    PROVE  LoopInv'
<1>1. PICK t0 \in Thread : t0 = poster[p].thread
  BY DEF LoopInv, Shape
<1>2. /\ poster[p].pc = "interrupt"
      /\ pc' = pc /\ frames' = frames /\ running' = running /\ dispatcher' = dispatcher
      /\ list' = list /\ pending' = pending /\ posted' = posted /\ home' = home /\ alive' = alive
      /\ eventfd' = [eventfd EXCEPT ![t0] = @ \/ dispatcher[t0]]
  BY <1>1 DEF PostMessageInterrupt, loopVars, threadVars, queueVars, objectVars
<1>3. Shape
  BY DEF LoopInv
<1>4. PICK e : e = IF poster[p].blocking THEN [poster[p] EXCEPT !.pc = "acquire"] ELSE IdlePoster
  OBVIOUS
<1>5. poster' = [poster EXCEPT ![p] = e]
  BY <1>4 DEF PostMessageInterrupt
<1>6. poster[p] \in [pc : {"idle", "interrupt", "acquire"}, thread : Thread,
                     blocking : BOOLEAN, available : Int]
  BY <1>3 DEF Shape
<1>7. /\ e \in [pc : {"idle", "interrupt", "acquire"}, thread : Thread,
                blocking : BOOLEAN, available : Int]
      /\ poster[p].blocking => e.pc = "acquire" /\ e.blocking /\ e.available = poster[p].available
      /\ ~poster[p].blocking => e.pc = "idle" /\ e.available = 0
  BY <1>4, <1>6, IdleFields
<1>8. poster'[p] = e /\ \A q \in Poster : q # p => poster'[q] = poster[q]
  BY <1>3, <1>5 DEF Shape
<1>9. /\ eventfd' \in [Thread -> BOOLEAN] /\ (dispatcher[t0] => eventfd'[t0])
      /\ \A t \in Thread : eventfd[t] => eventfd'[t]
  BY <1>2, <1>3 DEF Shape
<1>10. Shape'
  <2>1. poster' \in [Poster -> [pc : {"idle", "interrupt", "acquire"}, thread : Thread,
                                blocking : BOOLEAN, available : Int]]
    BY <1>3, <1>5, <1>7 DEF Shape
  <2>2. QED
    BY <1>2, <1>3, <1>9, <2>1 DEF Shape
<1>11. ASSUME NEW t \in Thread PROVE Awake(t)'
  <2>1. Awake(t)
    BY DEF LoopInv
  <2>2. Asleep(t) /\ Woken(t) => Woken(t)'
    <3>1. SUFFICES ASSUME Asleep(t), Woken(t) PROVE Woken(t)'
      OBVIOUS
    <3>2. dispatcher[t]
      BY <2>1, <3>1, AsleepDispatcher
    <3>3. CASE t = t0
      BY <1>9, <3>2, <3>3 DEF Woken
    <3>4. CASE t # t0
      BY <1>1, <1>8, <1>9, <3>1, <3>4 DEF Woken
    <3>5. QED
      BY <3>3, <3>4
  <2>3. QED
    BY <1>2, <2>1, <2>2, AwakeKept DEF Asleep
<1>12. ASSUME NEW q \in Poster PROVE Caller(q)'
  <2>1. Caller(q)
    BY DEF LoopInv
  <2>2. CASE q # p
    BY <1>2, <1>8, <2>1, <2>2, CallerSame
  <2>3. CASE q = p
    <3>1. \A t \in Thread : /\ Nowhere(p, t)' <=> Nowhere(p, t)
                            /\ Somewhere(p, t)' <=> Somewhere(p, t)
      BY <1>2 DEF Nowhere, Somewhere
    <3>2. CASE poster[p].blocking
      <4>1. Blocked(p) /\ Blocked(p)' /\ poster'[p].available = poster[p].available /\ poster'[p].blocking
        BY <1>2, <1>7, <1>8, <3>2 DEF Blocked
      <4>2. QED
        BY <2>1, <2>3, <3>1, <4>1 DEF Caller
    <3>3. CASE ~poster[p].blocking
      <4>1. ~Blocked(p) /\ ~Blocked(p)' /\ poster'[p].available = 0 /\ poster'[p].pc # "acquire"
        BY <1>7, <1>8, <3>3 DEF Blocked
      <4>2. QED
        BY <2>1, <2>3, <3>1, <4>1 DEF Caller
    <3>4. QED
      BY <3>2, <3>3
  <2>4. QED
    BY <2>2, <2>3
<1>13. QED
  BY <1>2, <1>10, <1>11, <1>12, QuietThreads DEF LoopInv

\* The caller goes on.
LEMMA SemaphoreAcquireStep ==
    ASSUME LoopInv, NEW p \in Poster, SemaphoreAcquire(p)
    PROVE  LoopInv'
<1>1. /\ poster[p].pc = "acquire" /\ poster[p].available = 1 /\ poster' = [poster EXCEPT ![p] = IdlePoster]
      /\ pc' = pc /\ frames' = frames /\ running' = running /\ dispatcher' = dispatcher /\ eventfd' = eventfd
      /\ list' = list /\ pending' = pending /\ posted' = posted /\ home' = home /\ alive' = alive
  BY DEF SemaphoreAcquire, loopVars, threadVars, queueVars, objectVars
<1>2. Shape
  BY DEF LoopInv
<1>3. poster'[p] = IdlePoster /\ \A q \in Poster : q # p => poster'[q] = poster[q]
  BY <1>1, <1>2 DEF Shape
<1>4. Shape'
  <2>1. poster' \in [Poster -> [pc : {"idle", "interrupt", "acquire"}, thread : Thread,
                                blocking : BOOLEAN, available : Int]]
    BY <1>1, <1>2, IdleFields DEF Shape
  <2>2. QED
    BY <1>1, <1>2, <2>1 DEF Shape
<1>5. ASSUME NEW t \in Thread PROVE Awake(t)'
  <2>1. Awake(t)
    BY DEF LoopInv
  <2>2. Woken(t) => Woken(t)'
    BY <1>1, <1>3 DEF Woken
  <2>3. QED
    BY <1>1, <2>1, <2>2, AwakeKept DEF Asleep
<1>6. ASSUME NEW q \in Poster PROVE Caller(q)'
  <2>1. Caller(q)
    BY DEF LoopInv
  <2>2. CASE q # p
    BY <1>1, <1>3, <2>1, <2>2, CallerSame
  <2>3. CASE q = p
    <3>1. \A t \in Thread : Nowhere(p, t)
      BY <1>1, <2>1, <2>3 DEF Caller
    <3>2. \A t \in Thread : Nowhere(p, t)'
      BY <1>1, <3>1 DEF Nowhere
    <3>3. ~Blocked(p)' /\ poster'[p].available = 0 /\ poster'[p].pc # "acquire"
      BY <1>3, IdleFields DEF Blocked
    <3>4. QED
      BY <2>3, <3>2, <3>3 DEF Caller
  <2>4. QED
    BY <2>2, <2>3
<1>7. QED
  BY <1>1, <1>4, <1>5, <1>6, QuietThreads DEF LoopInv

\* The thread and its controller, but for LoopCheck.
LEMMA ThreadStep ==
    ASSUME LoopInv, NEW t0 \in Thread,
           Exec(t0) \/ Poll(t0) \/ Start(t0) \/ Exit(t0) \/ ExitInterrupt(t0) \/ Wait(t0)
    PROVE  LoopInv'
<1>1. /\ list' = list /\ frames' = frames /\ home' = home /\ alive' = alive /\ posted' = posted
      /\ pending' = pending /\ poster' = poster
  BY DEF Exec, Poll, Start, Exit, ExitInterrupt, Wait, loopVars, threadVars, queueVars, objectVars
<1>2. Shape
  BY DEF LoopInv
<1>3. \A t \in Thread : Awake(t)
  BY DEF LoopInv
<1>4. CASE Exec(t0)
  <2>1. /\ pc[t0] = "exec" /\ dispatcher' = [dispatcher EXCEPT ![t0] = TRUE]
        /\ pc' = [pc EXCEPT ![t0] = "loop"] /\ running' = running /\ eventfd' = eventfd
    BY <1>4 DEF Exec
  <2>2. Shape'
    BY <1>1, <1>2, <2>1 DEF Shape
  <2>3. Awake(t0)'
    <3>1. pc'[t0] = "loop" /\ dispatcher'[t0] /\ running'[t0] = running[t0] /\ frames'[t0] = frames[t0]
      BY <1>1, <1>2, <2>1 DEF Shape
    <3>2. frames[t0] = <<>> /\ running[t0]
      BY <1>3, <2>1 DEF Awake
    <3>3. QED
      BY <3>1, <3>2 DEF Awake, Asleep
  <2>4. ASSUME NEW t \in Thread, t # t0 PROVE Awake(t)'
    <3>1. /\ pc'[t] = pc[t] /\ dispatcher'[t] = dispatcher[t] /\ running'[t] = running[t]
          /\ eventfd'[t] = eventfd[t]
      BY <1>2, <2>1, <2>4 DEF Shape
    <3>2. QED
      BY <1>1, <1>3, <3>1 DEF Awake, Asleep
  <2>5. QED
    BY <1>1, <2>2, <2>3, <2>4, QuietStep
<1>5. CASE Poll(t0)
  <2>1. /\ pc[t0] = "poll" /\ frames[t0] = <<>> /\ eventfd' = [eventfd EXCEPT ![t0] = FALSE]
        /\ pc' = [pc EXCEPT ![t0] = "loop"] /\ running' = running /\ dispatcher' = dispatcher
    BY <1>5 DEF Poll, threadVars
  <2>2. Shape'
    BY <1>1, <1>2, <2>1 DEF Shape
  <2>3. Awake(t0)'
    <3>1. dispatcher[t0] /\ running[t0]
      BY <1>3, <2>1 DEF Awake
    <3>2. pc'[t0] = "loop" /\ dispatcher'[t0] /\ running'[t0] /\ frames'[t0] = <<>>
      BY <1>1, <1>2, <2>1, <3>1 DEF Shape
    <3>3. QED
      BY <3>2 DEF Awake, Asleep
  <2>4. ASSUME NEW t \in Thread, t # t0 PROVE Awake(t)'
    <3>1. /\ pc'[t] = pc[t] /\ dispatcher'[t] = dispatcher[t] /\ running'[t] = running[t]
          /\ eventfd'[t] = eventfd[t]
      BY <1>2, <2>1, <2>4 DEF Shape
    <3>2. QED
      BY <1>1, <1>3, <3>1 DEF Awake, Asleep
  <2>5. QED
    BY <1>1, <2>2, <2>3, <2>4, QuietStep
<1>6. CASE Start(t0)
  <2>1. /\ ~running[t0] /\ running' = [running EXCEPT ![t0] = TRUE]
        /\ pc' = [pc EXCEPT ![t0] = "exec"] /\ dispatcher' = dispatcher /\ eventfd' = eventfd
    BY <1>6 DEF Start
  <2>2. Shape'
    BY <1>1, <1>2, <2>1 DEF Shape
  <2>3. Awake(t0)'
    <3>1. frames[t0] = <<>>
      BY <1>3, <2>1 DEF Awake
    <3>2. QED
      <4>1. pc'[t0] = "exec" /\ running'[t0] /\ frames'[t0] = <<>>
        BY <1>1, <1>2, <2>1, <3>1 DEF Shape
      <4>2. QED
        BY <4>1 DEF Awake, Asleep
  <2>4. ASSUME NEW t \in Thread, t # t0 PROVE Awake(t)'
    <3>1. /\ pc'[t] = pc[t] /\ dispatcher'[t] = dispatcher[t] /\ running'[t] = running[t]
          /\ eventfd'[t] = eventfd[t]
      BY <1>2, <2>1, <2>4 DEF Shape
    <3>2. QED
      BY <1>1, <1>3, <3>1 DEF Awake, Asleep
  <2>5. QED
    BY <1>1, <2>2, <2>3, <2>4, QuietStep
<1>7. CASE Exit(t0) \/ Wait(t0)
  <2>1. pc' = pc /\ running' = running /\ dispatcher' = dispatcher /\ eventfd' = eventfd
    BY <1>7 DEF Exit, Wait, loopVars
  <2>2. Shape'
    BY <1>1, <1>2, <2>1 DEF Shape
  <2>3. \A t \in Thread : Awake(t)'
    BY <1>1, <1>3, <2>1 DEF Awake, Asleep
  <2>4. QED
    BY <1>1, <2>2, <2>3, QuietStep
<1>8. CASE ExitInterrupt(t0)
  <2>1. /\ pc' = pc /\ running' = running /\ dispatcher' = dispatcher
        /\ eventfd' = [eventfd EXCEPT ![t0] = @ \/ dispatcher[t0]]
    BY <1>8 DEF ExitInterrupt, loopVars, threadVars
  <2>2. Shape' /\ \A t \in Thread : eventfd[t] => eventfd'[t]
    BY <1>1, <1>2, <2>1 DEF Shape
  <2>3. \A t \in Thread : Awake(t)'
    BY <1>1, <1>3, <2>1, <2>2 DEF Awake, Asleep
  <2>4. QED
    BY <1>1, <2>2, <2>3, QuietStep
<1>9. QED
  BY <1>4, <1>5, <1>6, <1>7, <1>8

\* A step of one thread that adds no message.
LEMMA ThreadChanged ==
    ASSUME NEW t \in Thread, ThreadSound(t), NEW k, NEW hs, list'[t] = k, frames'[t] = hs,
           Iterators(k, hs), Ordered(k), Held(k, hs) \subseteq Held(list[t], frames[t]),
           \A m \in Held(k, hs) : Bound(m, t)'
    PROVE  ThreadSound(t)'
<1>1. Deletions(k, hs)
  BY DEF ThreadSound, Deletions
<1>2. QED
  BY <1>1 DEF ThreadSound

\* The other threads, when no object is deleted or moved.
LEMMA OtherThreads ==
    ASSUME LoopInv, NEW t0 \in Thread, home' = home, alive' = alive, posted' = posted,
           \A t \in Thread : t # t0 => list'[t] = list[t] /\ frames'[t] = frames[t]
    PROVE  /\ \A t \in Thread : t # t0 => ThreadSound(t)'
           /\ \A m \in Held(list[t0], frames[t0]) : Bound(m, t0)'
<1>1. \A t \in Thread : ThreadSound(t)
  BY DEF LoopInv
<1>2. \A t \in Thread : \A m \in Held(list[t], frames[t]) : Bound(m, t)'
  BY <1>1 DEF ThreadSound, Bound
<1>3. QED
  BY <1>1, <1>2, ThreadKept

\* A call c has begun in t0.
Begun(t0, fs, c) ==
    /\ frames' \in [Thread -> Seq(Frame)] /\ Called(fs, c, frames'[t0])
    /\ \A t \in Thread : t # t0 => frames'[t] = frames[t]
    /\ \A t \in Thread : ThreadSound(t)'
    /\ \A q \in Object : pending'[q] = Cardinality(For(list'[home'[q]], q))
    /\ \A p \in Poster : Caller(p)'

\* The callers and the lists do not see a call that begins.
LEMMA CallStep ==
    ASSUME LoopInv, NEW t0 \in Thread, NEW fs \in Seq(Frame), fs = frames[t0],
           NEW c \in Frame, c.pos = 0, c.message = NoMessage, c.type = "None" => c.receiver = AnyObject,
           fs # <<>> => c.type # "DeferredDelete" /\ fs[Len(fs)].message # NoMessage,
           frames' = [frames EXCEPT ![t0] = Append(fs, c)],
           list' = list, home' = home, alive' = alive, posted' = posted, pending' = pending, poster' = poster
    PROVE  Begun(t0, fs, c)
<1>1. PICK hs : hs = Append(fs, c)
  OBVIOUS
<1>2. Called(fs, c, hs)
  BY <1>1, CallEffect
<1>3. hs \in Seq(Frame)
  BY <1>2 DEF Called
<1>4. frames \in [Thread -> Seq(Frame)] /\ list[t0] \in Seq(Entry)
  BY DEF LoopInv, Shape
<1>5. /\ frames'[t0] = hs /\ frames' \in [Thread -> Seq(Frame)]
      /\ \A t \in Thread : t # t0 => frames'[t] = frames[t]
  BY <1>1, <1>3, <1>4
<1>6. PICK l \in Seq(Entry) : l = list[t0]
  BY <1>4
<1>7. /\ Iterators(l, fs) => Iterators(l, hs)
      /\ Held(l, hs) = Held(l, fs)
      /\ \A p : Handles(hs, p) = Handles(fs, p)
  BY <1>2, CallSound
<1>8. ThreadSound(t0)
  BY DEF LoopInv
<1>9. Iterators(l, hs) /\ Ordered(l) /\ Held(l, hs) = Held(list[t0], frames[t0])
  BY <1>6, <1>7, <1>8 DEF ThreadSound
<1>10. /\ \A t \in Thread : t # t0 => ThreadSound(t)'
       /\ \A m \in Held(l, hs) : Bound(m, t0)'
  BY <1>5, <1>9, OtherThreads
<1>11. list'[t0] = l
  BY <1>6
<1>12. ThreadSound(t0)'
  BY <1>5, <1>8, <1>9, <1>10, <1>11, ThreadChanged
<1>13. ASSUME NEW p \in Poster PROVE Caller(p)'
  <2>1. Caller(p)
    BY DEF LoopInv
  <2>2. \A t \in Thread : Handles(frames'[t], p) = Handles(frames[t], p)
    BY <1>5, <1>7
  <2>3. QED
    BY <2>1, <2>2, CallerSame
<1>14. \A q \in Object : pending'[q] = Cardinality(For(list'[home'[q]], q))
  BY DEF LoopInv
<1>15. QED
  BY <1>2, <1>5, <1>10, <1>12, <1>13, <1>14 DEF Begun

\* A frame of a call that begins.
LEMMA CallFields ==
    ASSUME NEW type \in Type \cup {"None", "Poll"}, NEW receiver \in Object \cup {AnyObject}
    PROVE  /\ Call(type, receiver) \in Frame
           /\ Call(type, receiver).pos = 0 /\ Call(type, receiver).message = NoMessage
           /\ Call(type, receiver).type = type /\ Call(type, receiver).receiver = receiver
  BY DEF Call, Frame

\* The loop goes round.
LEMMA LoopCheckStep ==
    ASSUME LoopInv, NEW t0 \in Thread, LoopCheck(t0)
    PROVE  LoopInv'
<1>1. PICK type : type = IF exit[t0] THEN "DeferredDelete" ELSE "None"
  OBVIOUS
<1>2. type \in Type \cup {"None", "Poll"} /\ (exit[t0] \/ type = "None")
  BY <1>1 DEF Type
<1>3. PICK c \in Frame : c = Call(type, AnyObject)
  BY <1>2, CallFields
<1>4. c.pos = 0 /\ c.message = NoMessage /\ c.type = type /\ c.receiver = AnyObject
  BY <1>2, <1>3, CallFields
<1>5. Shape /\ Awake(t0)
  BY DEF LoopInv
<1>6. /\ pc[t0] = "loop" /\ pc' = [pc EXCEPT ![t0] = IF exit[t0] THEN "finish" ELSE "dispatch"]
      /\ frames' = [frames EXCEPT ![t0] = <<c>>]
      /\ running' = running /\ dispatcher' = dispatcher /\ eventfd' = eventfd /\ list' = list
      /\ pending' = pending /\ posted' = posted /\ home' = home /\ alive' = alive /\ poster' = poster
  BY <1>1, <1>3 DEF LoopCheck, threadVars, queueVars, objectVars
<1>7. frames[t0] = <<>>
  BY <1>5, <1>6 DEF Awake
<1>8. PICK fs \in Seq(Frame) : fs = frames[t0]
  BY <1>5 DEF Shape
<1>9. frames' = [frames EXCEPT ![t0] = Append(fs, c)]
  <2>1. Append(<<>>, c) = <<c>>
    OBVIOUS
  <2>2. QED
    BY <1>6, <1>7, <1>8, <2>1
<1>10. /\ frames' \in [Thread -> Seq(Frame)] /\ Called(fs, c, frames'[t0])
       /\ \A t \in Thread : t # t0 => frames'[t] = frames[t]
       /\ \A t \in Thread : ThreadSound(t)'
       /\ \A q \in Object : pending'[q] = Cardinality(For(list'[home'[q]], q))
       /\ \A p \in Poster : Caller(p)'
  <2>1. Begun(t0, fs, c)
    BY <1>4, <1>6, <1>7, <1>8, <1>9, CallStep
  <2>2. QED
    BY <2>1 DEF Begun
<1>11. pc' \in [Thread -> {"stopped", "exec", "loop", "dispatch", "poll", "finish"}]
  BY <1>5, <1>6 DEF Shape
<1>12. Shape'
  BY <1>5, <1>6, <1>10, <1>11 DEF Shape
<1>13. Awake(t0)'
  <2>1. pc'[t0] = IF exit[t0] THEN "finish" ELSE "dispatch"
    BY <1>5, <1>6 DEF Shape
  <2>2. frames'[t0] = <<c>>
    BY <1>5, <1>6 DEF Shape
  <2>3. dispatcher[t0] /\ running[t0]
    BY <1>5, <1>6 DEF Awake
  <2>4. frames'[t0][1] = c
    BY <2>2
  <2>5. frames'[t0] # <<>> /\ Last(frames'[t0]) = c
    BY <2>2 DEF Last
  <2>6. c.type # "Poll"
    BY <1>1, <1>4
  <2>7. ~Asleep(t0)'
    BY <2>5, <2>6 DEF Asleep
  <2>8. QED
    BY <1>2, <1>4, <1>6, <2>1, <2>3, <2>4, <2>7 DEF Awake
<1>14. ASSUME NEW t \in Thread, t # t0 PROVE Awake(t)'
  <2>1. Awake(t) /\ pc'[t] = pc[t] /\ frames'[t] = frames[t]
    BY <1>5, <1>6, <1>10, <1>14 DEF LoopInv, Shape
  <2>2. QED
    BY <1>6, <2>1 DEF Awake, Asleep
<1>15. QED
  BY <1>10, <1>12, <1>13, <1>14 DEF LoopInv

\* A handler, its frame and its message.
LEMMA HandlerFields ==
    ASSUME LoopInv, NEW t \in Thread, InHandler(t)
    PROVE  /\ frames[t] # <<>> /\ frames[t] \in Seq(Frame) /\ Len(frames[t]) \in 1 .. Len(frames[t])
           /\ Len(frames[t]) \in Nat
           /\ Last(frames[t]) = frames[t][Len(frames[t])] /\ Last(frames[t]) \in Frame
           /\ Last(frames[t]).message \in Message /\ Last(frames[t]).message \in Held(list[t], frames[t])
           /\ Bound(Last(frames[t]).message, t)
           /\ Passes(Last(frames[t]), Last(frames[t]).message)
           /\ Last(frames[t]).type # "Poll"
<1>1. frames[t] # <<>> /\ Last(frames[t]).message # NoMessage
  BY DEF InHandler
<1>2. frames[t] \in Seq(Frame)
  BY DEF LoopInv, Shape
<1>3. /\ Len(frames[t]) \in 1 .. Len(frames[t]) /\ Len(frames[t]) \in Nat
      /\ Last(frames[t]) = frames[t][Len(frames[t])] /\ Last(frames[t]) \in Frame
  BY <1>1, <1>2, LastFrame
<1>4. Last(frames[t]).message \in Held(list[t], frames[t])
  BY <1>1, <1>3 DEF Held
<1>5. Last(frames[t]).message \in Message
  BY <1>4, HeldFields DEF LoopInv
<1>6. Bound(Last(frames[t]).message, t)
  BY <1>4 DEF LoopInv, ThreadSound
<1>7. Passes(Last(frames[t]), Last(frames[t]).message)
  BY <1>1, <1>3 DEF LoopInv, ThreadSound, Iterators
<1>8. Last(frames[t]).type # "Poll"
  BY <1>5, <1>7, NotPolling
<1>9. QED
  BY <1>1, <1>2, <1>3, <1>4, <1>5, <1>6, <1>7, <1>8

\* dispatchMessages() from a message handler, for invocations or for everything.
LEMMA NestedCallStep ==
    ASSUME LoopInv, NEW t0 \in Thread, InHandler(t0),
           NEW c \in Frame, c.pos = 0, c.message = NoMessage, c.type \in {"InvokeMessage", "None"},
           c.type = "None" => c.receiver = AnyObject,
           frames' = [frames EXCEPT ![t0] = Append(@, c)],
           pc' = pc, running' = running, dispatcher' = dispatcher, eventfd' = eventfd, list' = list,
           pending' = pending, posted' = posted, home' = home, alive' = alive, poster' = poster
    PROVE  LoopInv'
<1>1. c.type # "DeferredDelete" /\ c.type # "Poll"
  OBVIOUS
<1>7. Shape
  BY DEF LoopInv
<1>8. PICK fs \in Seq(Frame) : fs = frames[t0]
  BY <1>7 DEF Shape
<1>9. fs # <<>> /\ fs[Len(fs)].message # NoMessage /\ frames' = [frames EXCEPT ![t0] = Append(fs, c)]
  BY <1>8, HandlerFields DEF InHandler
<1>10. /\ frames' \in [Thread -> Seq(Frame)] /\ Called(fs, c, frames'[t0])
       /\ \A t \in Thread : t # t0 => frames'[t] = frames[t]
       /\ \A t \in Thread : ThreadSound(t)'
       /\ \A q \in Object : pending'[q] = Cardinality(For(list'[home'[q]], q))
       /\ \A p \in Poster : Caller(p)'
  <2>1. Begun(t0, fs, c)
    BY <1>1, <1>8, <1>9, CallStep
  <2>2. QED
    BY <2>1 DEF Begun
<1>11. Shape'
  BY <1>7, <1>10 DEF Shape
<1>12. ASSUME NEW t \in Thread PROVE Awake(t)'
  <2>1. Awake(t) /\ (Woken(t) => Woken(t)')
    BY DEF LoopInv, Woken
  <2>2. CASE t # t0
    BY <1>10, <2>1, <2>2, AwakeKept DEF Asleep
  <2>3. CASE t = t0
    <3>1. PICK hs : hs = frames'[t0]
      OBVIOUS
    <3>2. /\ Len(hs) = Len(fs) + 1 /\ Len(fs) \in Nat /\ Len(fs) > 0 /\ hs \in Seq(Frame)
          /\ hs[Len(fs) + 1] = c /\ \A n \in 1 .. Len(fs) : hs[n] = fs[n]
      BY <1>9, <1>10, <3>1, LastFrame DEF Called
    <3>3. hs # <<>> /\ hs[1] = fs[1] /\ Last(hs) = c
      BY <3>2 DEF Last
    <3>4. ~Asleep(t0)'
      BY <1>1, <3>1, <3>3 DEF Asleep
    <3>5. QED
      BY <1>8, <1>9, <2>1, <2>3, <3>1, <3>3, <3>4, AwakeKept
  <2>4. QED
    BY <2>2, <2>3
<1>13. QED
  BY <1>10, <1>11, <1>12 DEF LoopInv

\* A handler dispatches the invocations of its object, or calls processEvents().
LEMMA MethodDispatchesStep ==
    ASSUME LoopInv, NEW t0 \in Thread, MethodDispatches(t0) \/ MethodProcessesEvents(t0)
    PROVE  LoopInv'
<1>1. InHandler(t0)
  BY DEF MethodDispatches, MethodProcessesEvents, InInvoke
<1>2. /\ pc' = pc /\ running' = running /\ dispatcher' = dispatcher /\ eventfd' = eventfd /\ list' = list
      /\ pending' = pending /\ posted' = posted /\ home' = home /\ alive' = alive /\ poster' = poster
  BY DEF MethodDispatches, MethodProcessesEvents, threadVars, queueVars, objectVars
<1>3. CASE MethodDispatches(t0)
  <2>1. PICK receiver : receiver = Last(frames[t0]).message.receiver
    OBVIOUS
  <2>2. receiver \in Object \cup {AnyObject} /\ "InvokeMessage" \in Type \cup {"None", "Poll"}
    BY <1>1, <2>1, HandlerFields, MessageFields DEF Type
  <2>3. PICK c \in Frame : c = Call("InvokeMessage", receiver)
    BY <2>2, CallFields
  <2>4. c.pos = 0 /\ c.message = NoMessage /\ c.type = "InvokeMessage"
    BY <2>2, <2>3, CallFields
  <2>5. frames' = [frames EXCEPT ![t0] = Append(@, c)]
    BY <1>3, <2>1, <2>3 DEF MethodDispatches
  <2>6. QED
    BY <1>1, <1>2, <2>4, <2>5, NestedCallStep
<1>4. CASE MethodProcessesEvents(t0)
  <2>1. PICK c \in Frame : c = Call("None", AnyObject)
    BY CallFields
  <2>2. c.pos = 0 /\ c.message = NoMessage /\ c.type = "None" /\ c.receiver = AnyObject
    BY <2>1, CallFields
  <2>3. frames' = [frames EXCEPT ![t0] = Append(@, c)]
    BY <1>4, <2>1 DEF MethodProcessesEvents
  <2>4. QED
    BY <1>1, <1>2, <2>2, <2>3, NestedCallStep
<1>5. QED
  BY <1>3, <1>4

\* The handler returns: its frame.
LEMMA ReturnEffect ==
    ASSUME LoopInv, NEW t0 \in Thread, InHandler(t0), Return(t0)
    PROVE  /\ frames' \in [Thread -> Seq(Frame)]
           /\ \A t \in Thread : t # t0 => frames'[t] = frames[t]
           /\ Len(frames'[t0]) = Len(frames[t0]) /\ frames'[t0] # <<>>
           /\ frames'[t0][1].type = frames[t0][1].type /\ frames'[t0][1].receiver = frames[t0][1].receiver
           /\ frames'[t0][Len(frames[t0])].message = NoMessage
           /\ ~Asleep(t0)'
           /\ \A l \in Seq(Entry) : /\ Iterators(l, frames[t0]) => Iterators(l, frames'[t0])
                                    /\ Held(l, frames'[t0]) \subseteq Held(l, frames[t0])
           /\ \A p : Handles(frames'[t0], p) = Handles(frames[t0], p) \ {Len(frames[t0])}
<1>1. frames \in [Thread -> Seq(Frame)]
  BY DEF LoopInv, Shape
<1>2. PICK fs \in Seq(Frame) : fs = frames[t0]
  BY <1>1
<1>3. fs # <<>> /\ Len(fs) \in 1 .. Len(fs) /\ Len(fs) \in Nat
  BY <1>2, HandlerFields
<1>4. PICK g : g = [fs[Len(fs)] EXCEPT !.message = NoMessage]
  OBVIOUS
<1>5. fs[Len(fs)] \in Frame
  BY <1>3
<1>6. /\ g \in Frame /\ g.pos = fs[Len(fs)].pos /\ g.type = fs[Len(fs)].type
      /\ g.receiver = fs[Len(fs)].receiver /\ g.message = NoMessage
  BY <1>4, <1>5 DEF Frame
<1>7. PICK hs : hs = [fs EXCEPT ![Len(fs)] = g]
  OBVIOUS
<1>8. Replaced(fs, g, hs)
  BY <1>3, <1>6, <1>7, ReplaceEffect
<1>9. /\ hs \in Seq(Frame) /\ Len(hs) = Len(fs) /\ hs[Len(fs)] = g
      /\ \A n \in 1 .. Len(fs) : n # Len(fs) => hs[n] = fs[n]
  BY <1>8 DEF Replaced
<1>10. frames' = [frames EXCEPT ![t0] = hs]
  BY <1>1, <1>2, <1>4, <1>7 DEF Return
<1>11. /\ frames' \in [Thread -> Seq(Frame)] /\ frames'[t0] = hs
       /\ \A t \in Thread : t # t0 => frames'[t] = frames[t]
  BY <1>1, <1>9, <1>10
<1>12. hs # <<>> /\ hs[1].type = fs[1].type /\ hs[1].receiver = fs[1].receiver
  <2>1. hs # <<>> /\ 1 \in 1 .. Len(fs)
    BY <1>3, <1>9
  <2>2. CASE Len(fs) = 1
    BY <1>6, <1>9, <2>1, <2>2
  <2>3. CASE Len(fs) # 1
    BY <1>9, <2>1, <2>3
  <2>4. QED
    BY <2>1, <2>2, <2>3
<1>13. ASSUME NEW l \in Seq(Entry)
       PROVE  /\ Iterators(l, fs) => Iterators(l, hs)
              /\ Held(l, hs) \subseteq Held(l, fs)
              /\ \A p : Handles(hs, p) = Handles(fs, p) \ {Len(fs)}
  BY <1>3, <1>6, <1>8, ReturnSound
<1>14. \A p : Handles(hs, p) = Handles(fs, p) \ {Len(fs)}
  <2>1. list[t0] \in Seq(Entry)
    BY DEF LoopInv, Shape
  <2>2. QED
    BY <1>13, <2>1
<1>15. ~Asleep(t0)'
  <2>1. Last(hs) = g /\ g.type # "Poll"
    BY <1>2, <1>3, <1>6, <1>9, HandlerFields DEF Last
  <2>2. QED
    BY <1>11, <1>12, <2>1 DEF Asleep
<1>16. QED
  BY <1>2, <1>6, <1>9, <1>11, <1>12, <1>13, <1>14, <1>15

\* The method has been called.
LEMMA InvokeReturnStep ==
    ASSUME LoopInv, NEW t0 \in Thread, InvokeReturn(t0)
    PROVE  LoopInv'
<1>1. InHandler(t0) /\ Return(t0)
  BY DEF InvokeReturn
<1>2. PICK w : w = Last(frames[t0]).message.waiter
  OBVIOUS
<1>3. /\ pc' = pc /\ running' = running /\ dispatcher' = dispatcher /\ eventfd' = eventfd /\ list' = list
      /\ pending' = pending /\ posted' = posted /\ home' = home /\ alive' = alive
      /\ poster' = IF w = NoPoster THEN poster ELSE [poster EXCEPT ![w].available = @ + 1]
  BY <1>2 DEF InvokeReturn, threadVars, queueVars, objectVars
<1>4. Shape
  BY DEF LoopInv
<1>5. PICK l \in Seq(Entry) : l = list[t0]
  BY <1>4 DEF Shape
<1>6. PICK n : n = Len(frames[t0])
  OBVIOUS
<1>7. /\ n \in 1 .. Len(frames[t0]) /\ frames[t0][n].message # NoMessage /\ frames[t0][n].message.waiter = w
      /\ w \in Poster \cup {NoPoster} /\ frames[t0] # <<>>
  BY <1>1, <1>2, <1>6, HandlerFields, MessageFields
<1>8. /\ frames' \in [Thread -> Seq(Frame)]
      /\ \A t \in Thread : t # t0 => frames'[t] = frames[t]
      /\ frames'[t0] # <<>> /\ ~Asleep(t0)'
      /\ frames'[t0][1].type = frames[t0][1].type /\ frames'[t0][1].receiver = frames[t0][1].receiver
      /\ Iterators(l, frames[t0]) => Iterators(l, frames'[t0])
      /\ Held(l, frames'[t0]) \subseteq Held(l, frames[t0])
      /\ \A p : Handles(frames'[t0], p) = Handles(frames[t0], p) \ {n}
  BY <1>1, <1>6, ReturnEffect
<1>9. \A q \in Poster : /\ poster'[q].pc = poster[q].pc /\ poster'[q].thread = poster[q].thread
                        /\ poster'[q].blocking = poster[q].blocking
                        /\ poster'[q].available = IF q = w THEN poster[q].available + 1 ELSE poster[q].available
                        /\ q # w => poster'[q] = poster[q]
  <2>1. CASE w = NoPoster
    BY <1>3, <2>1, LoopAssumption DEF LoopAssumption
  <2>2. CASE w \in Poster
    <3>1. poster' = [poster EXCEPT ![w].available = @ + 1]
      BY <1>3, <2>2, LoopAssumption DEF LoopAssumption
    <3>2. PICK e : e = [poster[w] EXCEPT !.available = @ + 1]
      OBVIOUS
    <3>3. poster[w] \in [pc : {"idle", "interrupt", "acquire"}, thread : Thread,
                         blocking : BOOLEAN, available : Int]
      BY <1>4, <2>2 DEF Shape
    <3>4. /\ e.pc = poster[w].pc /\ e.thread = poster[w].thread /\ e.blocking = poster[w].blocking
          /\ e.available = poster[w].available + 1
      BY <3>2, <3>3
    <3>5. poster'[w] = e /\ \A q \in Poster : q # w => poster'[q] = poster[q]
      BY <1>4, <2>2, <3>1, <3>2 DEF Shape
    <3>6. QED
      BY <3>4, <3>5
  <2>3. QED
    BY <1>7, <2>1, <2>2
<1>10. poster' \in [Poster -> [pc : {"idle", "interrupt", "acquire"}, thread : Thread,
                               blocking : BOOLEAN, available : Int]]
  <2>1. CASE w = NoPoster
    BY <1>3, <1>4, <2>1 DEF Shape
  <2>2. CASE w # NoPoster
    <3>1. w \in Poster /\ poster' = [poster EXCEPT ![w] = [poster[w] EXCEPT !.available = @ + 1]]
      BY <1>3, <1>7, <2>2
    <3>2. poster[w] \in [pc : {"idle", "interrupt", "acquire"}, thread : Thread,
                         blocking : BOOLEAN, available : Int]
      BY <1>4, <3>1 DEF Shape
    <3>3. PICK x : x = poster[w]
      OBVIOUS
    <3>b. PICK a \in Int : a = poster[w].available + 1
      BY <3>2
    <3>4. [x EXCEPT !.available = a] \in [pc : {"idle", "interrupt", "acquire"}, thread : Thread,
                                          blocking : BOOLEAN, available : Int]
      BY <3>2, <3>3, Zenon
    <3>5. poster' = [poster EXCEPT ![w] = [x EXCEPT !.available = a]]
      BY <3>1, <3>3, <3>b
    <3>6. QED
      BY <1>4, <3>4, <3>5 DEF Shape
  <2>3. QED
    BY <2>1, <2>2
<1>11. Shape'
  BY <1>3, <1>4, <1>8, <1>10 DEF Shape
<1>12. /\ \A t \in Thread : t # t0 => ThreadSound(t)'
       /\ \A m \in Held(list[t0], frames[t0]) : Bound(m, t0)'
  BY <1>3, <1>8, OtherThreads
<1>13. ThreadSound(t0)'
  <2>1. ThreadSound(t0)
    BY DEF LoopInv
  <2>2. Iterators(l, frames'[t0]) /\ Ordered(l)
    BY <1>5, <1>8, <2>1 DEF ThreadSound
  <2>3. PICK hs : hs = frames'[t0]
    OBVIOUS
  <2>4. list'[t0] = l /\ Iterators(l, hs) /\ Held(l, hs) \subseteq Held(list[t0], frames[t0])
    BY <1>3, <1>5, <1>8, <2>2, <2>3
  <2>5. \A m \in Held(l, hs) : Bound(m, t0)'
    BY <1>12, <2>4
  <2>6. QED
    BY <2>1, <2>2, <2>3, <2>4, <2>5, ThreadChanged
<1>14. \A q \in Object : pending'[q] = Cardinality(For(list'[home'[q]], q))
  BY <1>3 DEF LoopInv
<1>15. ASSUME NEW t \in Thread PROVE Awake(t)'
  <2>1. Awake(t) /\ (Woken(t) => Woken(t)')
    BY <1>3, <1>9 DEF LoopInv, Woken
  <2>2. CASE t # t0
    BY <1>3, <1>8, <2>1, <2>2, AwakeKept DEF Asleep
  <2>3. CASE t = t0
    BY <1>3, <1>7, <1>8, <2>1, <2>3, AwakeKept
  <2>4. QED
    BY <2>2, <2>3
<1>16. ASSUME NEW q \in Poster PROVE Caller(q)'
  <2>1. Caller(q)
    BY DEF LoopInv
  <2>2. CASE q # w
    <3>1. n \notin Handles(frames[t0], q)
      BY <1>7, <2>2 DEF Handles
    <3>2. \A t \in Thread : Handles(frames'[t], q) = Handles(frames[t], q)
      <4>1. Handles(frames'[t0], q) = Handles(frames[t0], q) \ {n}
        BY <1>8
      <4>2. Handles(frames'[t0], q) = Handles(frames[t0], q)
        BY <3>1, <4>1
      <4>3. QED
        BY <1>8, <4>2
    <3>3. QED
      BY <1>3, <1>9, <2>1, <2>2, <3>2, CallerSame
  <2>3. CASE q = w
    <3>1. n \in Handles(frames[t0], q)
      BY <1>7, <2>3 DEF Handles
    <3>2. ~Nowhere(q, t0)
      BY <3>1 DEF Nowhere
    <3>3. PICK t \in Thread : /\ Blocked(q) /\ poster[q].available = 0
                              /\ Somewhere(q, t) /\ \A u \in Thread \ {t} : Nowhere(q, u)
      BY <2>1, <3>2 DEF Caller
    <3>4. t = t0
      BY <3>2, <3>3
    <3>5. Waits(list[t0], q) = {} /\ Handles(frames[t0], q) = {n}
      BY <3>1, <3>3, <3>4 DEF Somewhere
    <3>6. Nowhere(q, t0)'
      BY <1>3, <1>8, <3>5 DEF Nowhere
    <3>7. \A u \in Thread : Nowhere(q, u)'
      BY <1>3, <1>8, <3>3, <3>4, <3>6 DEF Nowhere
    <3>8. Blocked(q)' /\ poster'[q].available = 1
      BY <1>9, <2>3, <3>3 DEF Blocked
    <3>9. QED
      BY <1>9, <2>1, <3>7, <3>8 DEF Caller
  <2>4. QED
    BY <2>2, <2>3
<1>17. QED
  BY <1>11, <1>12, <1>13, <1>14, <1>15, <1>16 DEF LoopInv

\* The next message of the list is delivered.
LEMMA DispatchMessageStep ==
    ASSUME LoopInv, NEW t0 \in Thread, DispatchMessage(t0)
    PROVE  LoopInv'
<1>1. Shape
  BY DEF LoopInv
<1>2. PICK l \in Seq(Entry) : l = list[t0]
  BY <1>1 DEF Shape
<1>3. PICK fs \in Seq(Frame) : fs = frames[t0]
  BY <1>1 DEF Shape
<1>4. fs # <<>> /\ Last(fs).message = NoMessage /\ Matching(l, Last(fs)) # {}
  BY <1>2, <1>3 DEF DispatchMessage, InHandler
<1>5. Len(fs) \in 1 .. Len(fs) /\ Len(fs) \in Nat /\ Last(fs) = fs[Len(fs)] /\ fs[Len(fs)] \in Frame
  BY <1>4, LastFrame
<1>6. PICK i : i = Min(Matching(l, Last(fs)))
  OBVIOUS
<1>7. i \in Matching(l, Last(fs)) /\ \A j \in Matching(l, Last(fs)) : i <= j
  <2>1. Matching(l, Last(fs)) \subseteq Nat
    BY PendingFields DEF Matching
  <2>2. \E x \in Matching(l, Last(fs)) : \A y \in Matching(l, Last(fs)) : x <= y
    BY <1>4, <2>1, SmallestMember
  <2>3. QED
    BY <1>6, <2>2 DEF Min
<1>8. i \in Pending(l)
  BY <1>7 DEF Matching
<1>9. i \in 1 .. Len(l) /\ i \in Nat /\ l[i] \in Message
  BY <1>8, PendingFields
<1>10. PICK g : g = [fs[Len(fs)] EXCEPT !.pos = i, !.message = l[i]]
  OBVIOUS
<1>11. /\ g \in Frame /\ g.pos = i /\ g.type = fs[Len(fs)].type
       /\ g.receiver = fs[Len(fs)].receiver /\ g.message = l[i]
  BY <1>5, <1>9, <1>10 DEF Frame
<1>12. PICK hs : hs = [fs EXCEPT ![Len(fs)] = g]
  OBVIOUS
<1>13. PICK k : k = [l EXCEPT ![i] = NoMessage]
  OBVIOUS
<1>14. PICK r \in Object : r = l[i].receiver
  BY <1>9, MessageFields
<1>15. /\ frames' = [frames EXCEPT ![t0][Len(fs)] = g]
       /\ list' = [list EXCEPT ![t0][i] = NoMessage]
       /\ pending' = [pending EXCEPT ![r] = @ - 1]
       /\ pc' = pc /\ running' = running /\ dispatcher' = dispatcher /\ eventfd' = eventfd
       /\ posted' = posted /\ home' = home /\ alive' = alive /\ poster' = poster
  BY <1>2, <1>3, <1>5, <1>6, <1>10, <1>14 DEF DispatchMessage, threadVars, objectVars
<1>16. Replaced(fs, g, hs)
  BY <1>4, <1>11, <1>12, ReplaceEffect
<1>17. Thinned(l, k, {i})
  BY <1>8, <1>13, NullEffect
<1>18. hs \in Seq(Frame) /\ k \in Seq(Entry) /\ Len(hs) = Len(fs) /\ hs[Len(fs)] = g
  BY <1>16, <1>17 DEF Replaced, Thinned
<1>19. /\ frames'[t0] = hs /\ frames' \in [Thread -> Seq(Frame)]
       /\ \A t \in Thread : t # t0 => frames'[t] = frames[t]
  BY <1>1, <1>3, <1>12, <1>15, <1>18 DEF Shape
<1>20. /\ list'[t0] = k /\ list' \in [Thread -> Seq(Entry)]
       /\ \A t \in Thread : t # t0 => list'[t] = list[t]
  BY <1>1, <1>2, <1>13, <1>15, <1>18 DEF Shape
<1>21. ThreadSound(t0)
  BY DEF LoopInv
<1>22. Iterators(l, fs) /\ Ordered(l) /\ \A m \in Held(l, fs) : Bound(m, t0)
  BY <1>2, <1>3, <1>21 DEF ThreadSound
<1>23. /\ Iterators(k, hs)
       /\ Held(k, hs) \subseteq Held(l, fs)
       /\ \A p : Handles(hs, p) = IF l[i].waiter = p THEN Handles(fs, p) \cup {Len(fs)} ELSE Handles(fs, p)
  <2>1. Delivers(l, fs[Len(fs)], i, g)
    BY <1>4, <1>5, <1>7, <1>11 DEF Delivers
  <2>2. QED
    BY <1>4, <1>8, <1>16, <1>17, <1>22, <2>1, DeliverSound
<1>24. /\ Ordered(k)
       /\ \A o : For(k, o) = For(l, o) \ {i}
       /\ \A p : Waits(k, p) = Waits(l, p) \ {i}
  BY <1>17, <1>22, ThinnedEffect
<1>25. /\ \A t \in Thread : t # t0 => ThreadSound(t)'
       /\ \A m \in Held(list[t0], frames[t0]) : Bound(m, t0)'
  BY <1>15, <1>19, <1>20, OtherThreads
<1>26. ThreadSound(t0)'
  <2>1. Held(k, hs) \subseteq Held(list[t0], frames[t0]) /\ \A m \in Held(k, hs) : Bound(m, t0)'
    BY <1>2, <1>3, <1>23, <1>25
  <2>2. QED
    BY <1>19, <1>20, <1>21, <1>23, <1>24, <2>1, ThreadChanged
<1>27. Shape'
  <2>1. pending' \in [Object -> Int]
    BY <1>1, <1>14, <1>15 DEF Shape
  <2>2. QED
    BY <1>1, <1>15, <1>19, <1>20, <2>1 DEF Shape
<1>28. ASSUME NEW q \in Object PROVE pending'[q] = Cardinality(For(list'[home'[q]], q))
  <2>1. pending[q] = Cardinality(For(list[home[q]], q))
    BY DEF LoopInv
  <2>2. l[i] \in Held(l, fs)
    BY <1>8 DEF Held
  <2>3. home[r] = t0
    BY <1>14, <1>22, <2>2 DEF Bound
  <2>4. CASE q = r
    <3>1. i \in For(l, q)
      BY <1>8, <1>14, <2>4 DEF For
    <3>2. For(l, q) \subseteq Pending(l)
      BY DEF For
    <3>3. IsFiniteSet(For(l, q)) /\ Cardinality(For(l, q)) \in Nat
      BY <3>2, PendingFinite
    <3>4. Cardinality(For(l, q) \ {i}) = Cardinality(For(l, q)) - 1
      BY <3>1, <3>3, FS_RemoveElement
    <3>5. pending'[q] = pending[q] - 1
      BY <1>1, <1>15, <2>4 DEF Shape
    <3>6. list[home[q]] = l /\ list'[home'[q]] = k
      BY <1>2, <1>15, <1>20, <2>3, <2>4
    <3>7. QED
      BY <1>24, <2>1, <3>4, <3>5, <3>6
  <2>5. CASE q # r
    <3>1. pending'[q] = pending[q]
      BY <1>1, <1>15, <2>5 DEF Shape
    <3>2. For(k, q) = For(l, q)
      BY <1>14, <1>24, <2>5 DEF For
    <3>3. CASE home[q] = t0
      BY <1>2, <1>15, <1>20, <2>1, <3>1, <3>2, <3>3
    <3>4. CASE home[q] # t0
      <4>1. home[q] \in Thread
        BY <1>1 DEF Shape
      <4>2. list'[home'[q]] = list[home[q]]
        BY <1>15, <1>20, <3>4, <4>1
      <4>3. QED
        BY <2>1, <3>1, <4>2
    <3>5. QED
      BY <3>3, <3>4
  <2>6. QED
    BY <2>4, <2>5
<1>29. ASSUME NEW t \in Thread PROVE Awake(t)'
  <2>1. Awake(t) /\ (Woken(t) => Woken(t)')
    BY <1>15 DEF LoopInv, Woken
  <2>2. CASE t # t0
    BY <1>15, <1>19, <1>20, <2>1, <2>2, AwakeKept DEF Asleep
  <2>3. CASE t = t0
    <3>1. hs # <<>> /\ hs[1].type = fs[1].type /\ hs[1].receiver = fs[1].receiver
      <4>1. hs # <<>> /\ 1 \in 1 .. Len(fs)
        BY <1>5, <1>18
      <4>2. CASE Len(fs) = 1
        BY <1>11, <1>18, <4>1, <4>2
      <4>3. CASE Len(fs) # 1
        BY <1>16, <4>1, <4>3 DEF Replaced
      <4>4. QED
        BY <4>1, <4>2, <4>3
    <3>2. ~Asleep(t0)'
      <4>1. Passes(g, l[i])
        BY <1>7, <1>5, <1>11 DEF Matching, Passes
      <4>2. g.type # "Poll"
        BY <1>9, <4>1, NotPolling
      <4>3. Last(hs) = g
        BY <1>18 DEF Last
      <4>4. QED
        BY <1>19, <3>1, <4>2, <4>3 DEF Asleep
    <3>3. QED
      BY <1>3, <1>4, <1>15, <1>19, <2>1, <2>3, <3>1, <3>2, AwakeNow
  <2>4. QED
    BY <2>2, <2>3
<1>30. ASSUME NEW q \in Poster PROVE Caller(q)'
  <2>1. Caller(q)
    BY DEF LoopInv
  <2>2. \A t \in Thread : t # t0 => (Nowhere(q, t) => Nowhere(q, t)') /\ (Somewhere(q, t) => Somewhere(q, t)')
    BY <1>19, <1>20 DEF Nowhere, Somewhere
  <2>3. CASE l[i].waiter # q
    <3>1. Waits(k, q) = Waits(l, q) /\ Handles(hs, q) = Handles(fs, q)
      BY <1>23, <1>24, <2>3 DEF Waits
    <3>2. (Nowhere(q, t0) => Nowhere(q, t0)') /\ (Somewhere(q, t0) => Somewhere(q, t0)')
      BY <1>2, <1>3, <1>19, <1>20, <3>1 DEF Nowhere, Somewhere
    <3>3. QED
      BY <1>15, <2>1, <2>2, <3>2, CallerKept
  <2>4. CASE l[i].waiter = q
    <3>1. i \in Waits(l, q)
      BY <1>8, <2>4 DEF Waits
    <3>2. ~Nowhere(q, t0)
      BY <1>2, <3>1 DEF Nowhere
    <3>3. ASSUME Somewhere(q, t0) PROVE Somewhere(q, t0)'
      <4>1. Waits(l, q) = {i} /\ Handles(fs, q) = {}
        BY <1>2, <1>3, <3>1, <3>3 DEF Somewhere
      <4>2. Waits(k, q) = {} /\ Handles(hs, q) = {Len(fs)}
        BY <1>23, <1>24, <2>4, <4>1
      <4>3. QED
        BY <1>19, <1>20, <4>2 DEF Somewhere
    <3>4. QED
      BY <1>15, <2>1, <2>2, <3>2, <3>3, CallerKept
  <2>5. QED
    BY <2>3, <2>4
<1>31. QED
  BY <1>25, <1>26, <1>27, <1>28, <1>29, <1>30 DEF LoopInv

\* A call that ends inside another one.
LEMMA InnerReturnStep ==
    ASSUME LoopInv, NEW t0 \in Thread, DispatchReturn(t0) \/ NestedPoll(t0), Len(frames[t0]) > 1
    PROVE  LoopInv'
<1>1. Shape
  BY DEF LoopInv
<1>2. PICK l \in Seq(Entry) : l = list[t0]
  BY <1>1 DEF Shape
<1>3. PICK fs \in Seq(Frame) : fs = frames[t0]
  BY <1>1 DEF Shape
<1>4. fs # <<>> /\ Last(fs).message = NoMessage /\ Len(fs) > 1
  <2>1. CASE DispatchReturn(t0)
    BY <1>3, <2>1 DEF DispatchReturn, InHandler
  <2>2. CASE NestedPoll(t0)
    <3>1. fs # <<>> /\ Last(fs).type = "Poll" /\ Len(fs) > 1
      BY <1>3, <2>2 DEF NestedPoll
    <3>2. ~InHandler(t0)
      BY <1>3, <3>1, HandlerFields
    <3>3. QED
      BY <1>3, <3>1, <3>2 DEF InHandler
  <2>3. QED
    BY <2>1, <2>2
<1>5. Len(fs) \in Nat /\ Last(fs) = fs[Len(fs)] /\ fs[Len(fs)].message = NoMessage
  BY <1>4, LastFrame
<1>6. PICK hs : hs = Front(fs)
  OBVIOUS
<1>7. /\ frames' = [frames EXCEPT ![t0] = hs] /\ list' = list /\ pc' = pc /\ running' = running
      /\ dispatcher' = dispatcher /\ pending' = pending /\ posted' = posted
      /\ home' = home /\ alive' = alive /\ poster' = poster
      /\ eventfd' = eventfd \/ eventfd' = [eventfd EXCEPT ![t0] = FALSE]
  BY <1>3, <1>6 DEF DispatchReturn, NestedPoll, threadVars, queueVars, objectVars
<1>8. /\ hs \in Seq(Frame) /\ Len(hs) = Len(fs) - 1
      /\ \A n \in 1 .. Len(fs) - 1 : hs[n] = fs[n]
      /\ Iterators(l, fs) => Iterators(l, hs)
      /\ Held(l, hs) = Held(l, fs)
      /\ \A p : Handles(hs, p) = Handles(fs, p)
  BY <1>4, <1>5, <1>6, FrontSound
<1>9. hs # <<>> /\ hs[1] = fs[1] /\ Last(hs) = fs[Len(fs) - 1] /\ Len(fs) - 1 \in 1 .. Len(fs)
  BY <1>4, <1>5, <1>8 DEF Last
<1>10. /\ frames'[t0] = hs /\ frames' \in [Thread -> Seq(Frame)]
       /\ \A t \in Thread : t # t0 => frames'[t] = frames[t]
  BY <1>1, <1>7, <1>8 DEF Shape
<1>11. Shape'
  <2>1. eventfd' \in [Thread -> BOOLEAN]
    BY <1>1, <1>7 DEF Shape
  <2>2. QED
    BY <1>1, <1>7, <1>10, <2>1 DEF Shape
<1>12. ThreadSound(t0)
  BY DEF LoopInv
<1>13. /\ \A t \in Thread : t # t0 => ThreadSound(t)'
       /\ \A m \in Held(list[t0], frames[t0]) : Bound(m, t0)'
  BY <1>7, <1>10, OtherThreads
<1>14. ThreadSound(t0)'
  <2>1. /\ list'[t0] = l /\ Iterators(l, hs) /\ Ordered(l)
        /\ Held(l, hs) \subseteq Held(list[t0], frames[t0])
        /\ \A m \in Held(l, hs) : Bound(m, t0)'
    BY <1>2, <1>3, <1>7, <1>8, <1>12, <1>13 DEF ThreadSound
  <2>2. QED
    BY <1>10, <1>12, <2>1, ThreadChanged
<1>15. \A q \in Object : pending'[q] = Cardinality(For(list'[home'[q]], q))
  BY <1>7 DEF LoopInv
<1>16. ASSUME NEW t \in Thread PROVE Awake(t)'
  <2>1. Awake(t)
    BY DEF LoopInv
  <2>2. CASE t # t0
    <3>1. Woken(t) => Woken(t)'
      BY <1>1, <1>7, <2>2 DEF Shape, Woken
    <3>2. QED
      BY <1>7, <1>10, <2>1, <2>2, <3>1, AwakeKept DEF Asleep
  <2>3. CASE t = t0
    <3>1. Len(fs) - 1 < Len(fs)
      BY <1>5
    <3>2. fs[Len(fs) - 1].message # NoMessage /\ Passes(fs[Len(fs) - 1], fs[Len(fs) - 1].message)
      BY <1>3, <1>9, <1>12, <3>1 DEF ThreadSound, Iterators
    <3>3. fs[Len(fs) - 1].type # "Poll"
      BY <1>9, <3>2, NotPolling, FrameFields
    <3>4. ~Asleep(t0)'
      BY <1>9, <1>10, <3>3 DEF Asleep
    <3>5. ASSUME Asleep(t0) PROVE frames[t0] # <<>>
      BY <1>3, <1>4
    <3>6. QED
      BY <1>3, <1>4, <1>7, <1>9, <1>10, <2>1, <2>3, <3>4 DEF Awake
  <2>4. QED
    BY <2>2, <2>3
<1>17. ASSUME NEW q \in Poster PROVE Caller(q)'
  <2>1. Caller(q)
    BY DEF LoopInv
  <2>2. \A t \in Thread : Handles(frames'[t], q) = Handles(frames[t], q)
    BY <1>3, <1>8, <1>10
  <2>3. QED
    BY <1>7, <2>1, <2>2, CallerSame
<1>18. QED
  BY <1>11, <1>13, <1>14, <1>15, <1>16, <1>17 DEF LoopInv

\* processEvents() from a handler goes on to poll(): it leaves no message behind.
LEMMA ThenPollStep ==
    ASSUME LoopInv, NEW t0 \in Thread, DispatchThenPoll(t0)
    PROVE  LoopInv'
<1>1. Shape
  BY DEF LoopInv
<1>2. PICK l \in Seq(Entry) : l = list[t0]
  BY <1>1 DEF Shape
<1>3. PICK fs \in Seq(Frame) : fs = frames[t0]
  BY <1>1 DEF Shape
<1>4. Len(fs) > 1 /\ Last(fs).type = "None" /\ Matching(l, Last(fs)) = {} /\ ~InHandler(t0)
  BY <1>2, <1>3 DEF DispatchThenPoll, InProcessEvents
<1>5. fs # <<>>
  BY <1>4
<1>6. /\ Len(fs) \in 1 .. Len(fs) /\ Len(fs) \in Nat /\ Last(fs) = fs[Len(fs)] /\ fs[Len(fs)] \in Frame
      /\ Last(fs).message = NoMessage
  BY <1>3, <1>4, <1>5, LastFrame DEF InHandler
<1>7. PICK g : g = [fs[Len(fs)] EXCEPT !.type = "Poll"]
  OBVIOUS
<1>8. g \in Frame /\ g.pos = fs[Len(fs)].pos /\ g.type = "Poll" /\ g.message = NoMessage
  BY <1>6, <1>7 DEF Frame
<1>9. PICK hs : hs = [fs EXCEPT ![Len(fs)] = g]
  OBVIOUS
<1>10. /\ hs \in Seq(Frame) /\ Len(hs) = Len(fs) /\ hs[Len(fs)] = g
       /\ \A n \in 1 .. Len(fs) : n # Len(fs) => hs[n] = fs[n]
  BY <1>5, <1>8, <1>9, ReplaceEffect DEF Replaced
<1>11. /\ frames' = [frames EXCEPT ![t0] = hs]
       /\ pc' = pc /\ running' = running /\ dispatcher' = dispatcher /\ eventfd' = eventfd /\ list' = list
       /\ pending' = pending /\ posted' = posted /\ home' = home /\ alive' = alive /\ poster' = poster
  BY <1>1, <1>3, <1>7, <1>9 DEF DispatchThenPoll, Shape, threadVars, queueVars, objectVars
<1>12. /\ frames'[t0] = hs /\ frames' \in [Thread -> Seq(Frame)]
       /\ \A t \in Thread : t # t0 => frames'[t] = frames[t]
  BY <1>1, <1>10, <1>11 DEF Shape
<1>13. Shape'
  BY <1>1, <1>11, <1>12 DEF Shape
<1>14. ThreadSound(t0) /\ Awake(t0)
  BY DEF LoopInv
<1>15. Iterators(l, fs) /\ Ordered(l)
  BY <1>2, <1>3, <1>14 DEF ThreadSound
<1>16. Iterators(l, hs)
  <2>1. ASSUME NEW n \in 1 .. Len(fs)
        PROVE  /\ hs[n].pos <= Len(l)
               /\ \A i \in Pending(l) : i <= hs[n].pos => ~Passes(hs[n], l[i])
               /\ hs[n].message # NoMessage => Passes(hs[n], hs[n].message)
               /\ n < Len(hs) => hs[n].message # NoMessage
               /\ n > 1 => hs[n].type # "DeferredDelete"
               /\ hs[n].type = "None" => hs[n].receiver = AnyObject
    <3>1. CASE n = Len(fs)
      <4>1. \A i \in Pending(l) : ~Passes(g, l[i])
        BY <1>8, NotPolling, PendingFields
      <4>2. g.pos <= Len(l)
        BY <1>6, <1>8, <1>15 DEF Iterators
      <4>3. QED
        BY <1>6, <1>8, <1>10, <3>1, <4>1, <4>2
    <3>2. CASE n # Len(fs)
      BY <1>10, <1>15, <3>2 DEF Iterators
    <3>3. QED
      BY <3>1, <3>2
  <2>2. QED
    BY <1>10, <2>1 DEF Iterators
<1>17. Held(l, hs) \subseteq Held(l, fs)
  BY <1>6, <1>8, <1>10 DEF Held
<1>18. \A p : Handles(hs, p) = Handles(fs, p)
  BY <1>6, <1>8, <1>10 DEF Handles
<1>19. /\ \A t \in Thread : t # t0 => ThreadSound(t)'
       /\ \A m \in Held(list[t0], frames[t0]) : Bound(m, t0)'
  BY <1>11, <1>12, OtherThreads
<1>20. ThreadSound(t0)'
  <2>1. list'[t0] = l /\ Held(l, hs) \subseteq Held(list[t0], frames[t0]) /\ \A m \in Held(l, hs) : Bound(m, t0)'
    BY <1>2, <1>3, <1>11, <1>17, <1>19
  <2>2. QED
    BY <1>12, <1>14, <1>15, <1>16, <2>1, ThreadChanged
<1>21. \A q \in Object : pending'[q] = Cardinality(For(list'[home'[q]], q))
  BY <1>11 DEF LoopInv
<1>22. Pending(l) = {}
  <2>1. ASSUME NEW i \in Pending(l) PROVE FALSE
    <3>1. fs[Len(fs)].receiver = AnyObject
      BY <1>4, <1>6, <1>15 DEF Iterators
    <3>2. Passes(fs[Len(fs)], l[i])
      BY <1>4, <1>6, <3>1 DEF Passes
    <3>3. ~(i <= fs[Len(fs)].pos)
      BY <1>6, <1>15, <3>2 DEF Iterators
    <3>4. i \in Nat /\ fs[Len(fs)].pos \in Nat
      BY <1>6, PendingFields, FrameFields
    <3>5. i \in Matching(l, fs[Len(fs)])
      BY <3>2, <3>3, <3>4 DEF Matching, Passes
    <3>6. QED
      BY <1>4, <1>6, <3>5
  <2>2. QED
    BY <2>1
<1>23. ASSUME NEW t \in Thread PROVE Awake(t)'
  <2>1. Awake(t) /\ (Woken(t) => Woken(t)')
    BY <1>11 DEF LoopInv, Woken
  <2>2. CASE t # t0
    BY <1>11, <1>12, <2>1, <2>2, AwakeKept DEF Asleep
  <2>3. CASE t = t0
    <3>1. Pending(list'[t0]) = {}
      BY <1>2, <1>11, <1>22
    <3>2. hs # <<>> /\ hs[1] = fs[1]
      BY <1>4, <1>6, <1>10
    <3>3. QED
      BY <1>3, <1>5, <1>11, <1>12, <1>14, <2>3, <3>1, <3>2 DEF Awake
  <2>4. QED
    BY <2>2, <2>3
<1>24. ASSUME NEW q \in Poster PROVE Caller(q)'
  <2>1. Caller(q)
    BY DEF LoopInv
  <2>2. \A t \in Thread : Handles(frames'[t], q) = Handles(frames[t], q)
    BY <1>3, <1>12, <1>18
  <2>3. QED
    BY <1>11, <2>1, <2>2, CallerSame
<1>25. QED
  BY <1>13, <1>19, <1>20, <1>21, <1>23, <1>24 DEF LoopInv

\* The outermost call ends: a loop that goes to sleep leaves no message behind.
LEMMA OuterReturnStep ==
    ASSUME LoopInv, NEW t0 \in Thread, DispatchReturn(t0), ~(Len(frames[t0]) > 1)
    PROVE  LoopInv'
<1>1. Shape
  BY DEF LoopInv
<1>2. PICK l \in Seq(Entry) : l = list[t0]
  BY <1>1 DEF Shape
<1>3. PICK fs \in Seq(Frame) : fs = frames[t0]
  BY <1>1 DEF Shape
<1>4. fs # <<>> /\ Last(fs).message = NoMessage /\ ~(Len(fs) > 1) /\ Matching(l, Last(fs)) = {}
  BY <1>2, <1>3 DEF DispatchReturn, InHandler
<1>5. Len(fs) = 1 /\ Last(fs) = fs[1] /\ fs[Len(fs)].message = NoMessage /\ 1 \in 1 .. Len(fs)
  <2>1. Len(fs) \in Nat /\ Len(fs) > 0 /\ Last(fs) = fs[Len(fs)]
    BY <1>4, LastFrame
  <2>a. PICK n \in Nat : n = Len(fs)
    BY <2>1
  <2>b. ~(n > 1) /\ n > 0
    BY <1>4, <2>1, <2>a
  <2>2. Len(fs) = 1
    BY <2>a, <2>b
  <2>3. QED
    BY <1>4, <2>1, <2>2
<1>6. PICK hs : hs = Front(fs)
  OBVIOUS
<1>7. PICK k : k = Entries(l, Pending(l))
  OBVIOUS
<1>8. /\ frames' = [frames EXCEPT ![t0] = hs]
      /\ list' = [list EXCEPT ![t0] = k]
      /\ pc' = [pc EXCEPT ![t0] = IF @ = "dispatch" THEN "poll" ELSE "stopped"]
      /\ running' = [running EXCEPT ![t0] = @ /\ pc'[t0] # "stopped"]
      /\ dispatcher' = dispatcher /\ eventfd' = eventfd /\ pending' = pending /\ posted' = posted
      /\ home' = home /\ alive' = alive /\ poster' = poster
  BY <1>2, <1>3, <1>4, <1>6, <1>7 DEF DispatchReturn, objectVars
<1>9. /\ hs \in Seq(Frame) /\ Len(hs) = 0
      /\ Held(l, hs) = Held(l, fs)
      /\ \A p : Handles(hs, p) = Handles(fs, p)
  <2>1. /\ hs \in Seq(Frame) /\ Len(hs) = Len(fs) - 1
        /\ Held(l, hs) = Held(l, fs)
        /\ \A p : Handles(hs, p) = Handles(fs, p)
    BY <1>4, <1>5, <1>6, FrontSound
  <2>2. QED
    BY <1>5, <2>1
<1>10. hs = <<>>
  BY <1>9
<1>11. k \in Seq(Entry)
  BY <1>7, EntriesEffect
<1>12. /\ Ordered(l) => Ordered(k)
       /\ \A i \in Pending(k) : \E j \in Pending(l) : k[i] = l[j]
       /\ \A o : Cardinality(For(k, o)) = Cardinality(Pending(l) \cap For(l, o))
       /\ \A p : Pending(l) \cap Waits(l, p) = {} => Waits(k, p) = {}
       /\ \A p, x : Pending(l) \cap Waits(l, p) = {x} => \E y : Waits(k, p) = {y}
  <2>1. Pending(l) \subseteq Pending(l)
    OBVIOUS
  <2>2. Taken(l, Pending(l), k)
    BY <1>7, <2>1, EntriesSound
  <2>3. QED
    BY <2>2 DEF Taken
<1>13. /\ frames'[t0] = hs /\ frames' \in [Thread -> Seq(Frame)]
       /\ \A t \in Thread : t # t0 => frames'[t] = frames[t]
  BY <1>1, <1>8, <1>9 DEF Shape
<1>14. /\ list'[t0] = k /\ list' \in [Thread -> Seq(Entry)]
       /\ \A t \in Thread : t # t0 => list'[t] = list[t]
  BY <1>1, <1>8, <1>11 DEF Shape
<1>15. /\ pc' \in [Thread -> {"stopped", "exec", "loop", "dispatch", "poll", "finish"}]
       /\ running' \in [Thread -> BOOLEAN]
       /\ pc'[t0] = (IF pc[t0] = "dispatch" THEN "poll" ELSE "stopped")
       /\ running'[t0] = (running[t0] /\ pc'[t0] # "stopped")
       /\ \A t \in Thread : t # t0 => pc'[t] = pc[t] /\ running'[t] = running[t]
  BY <1>1, <1>8 DEF Shape
<1>16. Shape'
  BY <1>1, <1>8, <1>13, <1>14, <1>15 DEF Shape
<1>17. ThreadSound(t0) /\ Awake(t0)
  BY DEF LoopInv
<1>18. Iterators(l, fs) /\ Ordered(l)
  BY <1>2, <1>3, <1>17 DEF ThreadSound
<1>19. /\ \A t \in Thread : t # t0 => ThreadSound(t)'
       /\ \A m \in Held(list[t0], frames[t0]) : Bound(m, t0)'
  BY <1>8, <1>13, <1>14, OtherThreads
<1>20. ThreadSound(t0)'
  <2>1. Iterators(k, hs)
    BY <1>9 DEF Iterators
  <2>2. Held(k, hs) \subseteq Held(l, hs)
    <3>1. \A i \in Pending(k) : k[i] \in {l[j] : j \in Pending(l)}
      BY <1>12
    <3>2. QED
      BY <3>1 DEF Held
  <2>3. Held(k, hs) \subseteq Held(list[t0], frames[t0]) /\ \A m \in Held(k, hs) : Bound(m, t0)'
    BY <1>2, <1>3, <1>9, <1>19, <2>2
  <2>4. QED
    BY <1>12, <1>13, <1>14, <1>17, <1>18, <2>1, <2>3, ThreadChanged
<1>21. ASSUME NEW q \in Object PROVE pending'[q] = Cardinality(For(list'[home'[q]], q))
  <2>1. pending[q] = Cardinality(For(list[home[q]], q)) /\ home[q] \in Thread
    BY <1>1 DEF LoopInv, Shape
  <2>2. CASE home[q] = t0
    <3>1. Pending(l) \cap For(l, q) = For(l, q)
      BY DEF For
    <3>2. Cardinality(For(k, q)) = Cardinality(Pending(l) \cap For(l, q))
      BY <1>12
    <3>3. QED
      BY <1>2, <1>8, <1>14, <2>1, <2>2, <3>1, <3>2, Zenon
  <2>3. CASE home[q] # t0
    BY <1>8, <1>14, <2>1, <2>3
  <2>4. QED
    BY <2>2, <2>3
<1>22. Awake(t0)'
  <2>1. ASSUME pc[t0] = "dispatch" PROVE Pending(k) = {}
    <3>1. fs[1].type = "None" /\ fs[1].receiver = AnyObject
      BY <1>3, <1>4, <1>17, <2>1 DEF Awake
    <3>2. ASSUME NEW i \in Pending(l) PROVE FALSE
      <4>1. Passes(fs[1], l[i])
        BY <3>1 DEF Passes
      <4>2. ~(i <= fs[1].pos)
        BY <1>5, <1>18, <4>1 DEF Iterators
      <4>3. i \in Nat /\ fs[1].pos \in Nat
        BY <1>5, PendingFields, FrameFields
      <4>4. i \in Matching(l, fs[1])
        BY <4>1, <4>2, <4>3 DEF Matching, Passes
      <4>5. QED
        BY <1>4, <1>5, <4>4
    <3>3. QED
      BY <1>12, <3>2
  <2>2. pc[t0] \in {"dispatch", "finish"} /\ dispatcher[t0] /\ running[t0]
    BY <1>3, <1>4, <1>17 DEF Awake
  <2>3. QED
    BY <1>8, <1>10, <1>13, <1>14, <1>15, <2>1, <2>2 DEF Awake, Asleep
<1>23. ASSUME NEW t \in Thread, t # t0 PROVE Awake(t)'
  <2>1. Awake(t)
    BY DEF LoopInv
  <2>2. QED
    BY <1>8, <1>13, <1>14, <1>15, <1>23, <2>1 DEF Awake, Asleep
<1>24. ASSUME NEW q \in Poster PROVE Caller(q)'
  <2>1. Caller(q)
    BY DEF LoopInv
  <2>2. \A t \in Thread : t # t0 => (Nowhere(q, t) => Nowhere(q, t)') /\ (Somewhere(q, t) => Somewhere(q, t)')
    BY <1>13, <1>14 DEF Nowhere, Somewhere
  <2>3. Pending(l) \cap Waits(l, q) = Waits(l, q)
    BY DEF Waits
  <2>4. Waits(l, q) = {} => Waits(k, q) = {}
    BY <1>12, <2>3
  <2>5. \A x : Waits(l, q) = {x} => \E y : Waits(k, q) = {y}
    BY <1>12, <2>3
  <2>6. Nowhere(q, t0) => Nowhere(q, t0)'
    BY <1>2, <1>3, <1>9, <1>13, <1>14, <2>4 DEF Nowhere
  <2>7. Somewhere(q, t0) => Somewhere(q, t0)'
    BY <1>2, <1>3, <1>9, <1>13, <1>14, <2>4, <2>5 DEF Somewhere
  <2>8. QED
    BY <1>8, <2>1, <2>2, <2>6, <2>7, CallerKept
<1>25. QED
  BY <1>16, <1>19, <1>20, <1>21, <1>22, <1>23, <1>24 DEF LoopInv

\* ~Object(): the messages of the object that no one waits for go with it.
LEMMA DeleteStep ==
    ASSUME LoopInv, NEW t0 \in Thread, NEW o \in Object, home[o] = t0, deleteObject(o),
           frames' \in [Thread -> Seq(Frame)],
           \A t \in Thread : t # t0 => frames'[t] = frames[t],
           Iterators(list[t0], frames[t0]) => Iterators(list[t0], frames'[t0]),
           Held(list[t0], frames'[t0]) \subseteq Held(list[t0], frames[t0]),
           ~Asleep(t0)',
           \A i \in For(list[t0], o) : list[t0][i].waiter = NoPoster,
           \A q \in Poster : Handles(frames'[t0], q) = Handles(frames[t0], q),
           frames[t0] # <<>>, frames'[t0] # <<>>,
           frames'[t0][1].type = frames[t0][1].type, frames'[t0][1].receiver = frames[t0][1].receiver,
           pc' = pc, running' = running, dispatcher' = dispatcher, eventfd' = eventfd,
           posted' = posted, home' = home, poster' = poster
    PROVE  LoopInv'
<1>1. Shape
  BY DEF LoopInv
<1>2. PICK l \in Seq(Entry) : l = list[t0]
  BY <1>1 DEF Shape
<1>3. PICK hs \in Seq(Frame) : hs = frames'[t0]
  OBVIOUS
<1>4. PICK k : k = Without(l, o)
  OBVIOUS
<1>5. /\ alive' = alive \ {o} /\ list' = [list EXCEPT ![t0] = k] /\ pending' = [pending EXCEPT ![o] = 0]
  BY <1>2, <1>4 DEF deleteObject
<1>6. Thinned(l, k, For(l, o))
  BY <1>4, WithoutEffect
<1>7. k \in Seq(Entry) /\ Pending(k) = Pending(l) \ For(l, o) /\ \A i \in Pending(k) : k[i] = l[i]
  BY <1>6 DEF Thinned
<1>8. /\ list'[t0] = k /\ list' \in [Thread -> Seq(Entry)]
      /\ \A t \in Thread : t # t0 => list'[t] = list[t]
  BY <1>1, <1>5, <1>7 DEF Shape
<1>9. pending' \in [Object -> Int] /\ pending'[o] = 0 /\ \A q \in Object : q # o => pending'[q] = pending[q]
  BY <1>1, <1>5 DEF Shape
<1>10. Shape'
  BY <1>1, <1>5, <1>8, <1>9 DEF Shape
<1>11. \A t \in Thread : ThreadSound(t)
  BY DEF LoopInv
<1>12. ASSUME NEW t \in Thread, t # t0 PROVE ThreadSound(t)'
  <2>1. \A m \in Held(list[t], frames[t]) : Bound(m, t)'
    BY <1>5, <1>11, <1>12 DEF ThreadSound, Bound
  <2>2. QED
    BY <1>8, <1>11, <1>12, <2>1, ThreadKept
<1>13. /\ Iterators(l, hs) => Iterators(k, hs)
       /\ Ordered(l) => Ordered(k)
       /\ Held(k, hs) \subseteq Held(l, hs)
       /\ \A q : For(k, q) = For(l, q) \ For(l, o)
       /\ \A p : Waits(k, p) = Waits(l, p) \ For(l, o)
  BY <1>6, ThinnedEffect
<1>14. ThreadSound(t0)'
  <2>1. Iterators(l, hs) /\ Ordered(l)
    BY <1>2, <1>3, <1>11 DEF ThreadSound
  <2>2. Held(k, hs) \subseteq Held(list[t0], frames[t0])
    BY <1>2, <1>3, <1>13
  <2>4. \A m \in Held(k, hs) : Bound(m, t0)'
    BY <1>11, <2>2 DEF ThreadSound, Bound
  <2>5. QED
    BY <1>3, <1>8, <1>11, <1>13, <2>1, <2>2, <2>4, ThreadChanged
<1>15. ASSUME NEW q \in Object PROVE pending'[q] = Cardinality(For(list'[home'[q]], q))
  <2>1. pending[q] = Cardinality(For(list[home[q]], q)) /\ home[q] \in Thread
    BY <1>1 DEF LoopInv, Shape
  <2>2. CASE q = o
    <3>1. For(k, q) = {}
      BY <1>13, <2>2
    <3>2. QED
      BY <1>8, <1>9, <2>2, <3>1, FS_EmptySet
  <2>3. CASE q # o /\ home[q] = t0
    <3>1. For(k, q) = For(l, q)
      BY <1>13, <2>3 DEF For
    <3>2. QED
      BY <1>2, <1>8, <1>9, <2>1, <2>3, <3>1
  <2>4. CASE q # o /\ home[q] # t0
    BY <1>8, <1>9, <2>1, <2>4
  <2>5. QED
    BY <2>2, <2>3, <2>4
<1>16. ASSUME NEW t \in Thread PROVE Awake(t)'
  <2>1. Awake(t) /\ (Woken(t) => Woken(t)')
    BY DEF LoopInv, Woken
  <2>2. CASE t # t0
    BY <1>8, <2>1, <2>2, AwakeKept DEF Asleep
  <2>3. CASE t = t0
    BY <2>1, <2>3, AwakeNow
  <2>4. QED
    BY <2>2, <2>3
<1>17. ASSUME NEW q \in Poster PROVE Caller(q)'
  <2>1. Caller(q)
    BY DEF LoopInv
  <2>2. Waits(k, q) = Waits(l, q)
    <3>1. q # NoPoster
      BY LoopAssumption DEF LoopAssumption
    <3>2. \A i \in For(l, o) : l[i].waiter # q
      BY <1>2, <3>1
    <3>3. Waits(l, q) \cap For(l, o) = {}
      BY <3>2 DEF Waits
    <3>4. QED
      <4>1. Waits(k, q) = Waits(l, q) \ For(l, o)
        BY <1>13
      <4>2. QED
        BY <3>3, <4>1
  <2>3. \A t \in Thread : /\ Waits(list'[t], q) = Waits(list[t], q)
                          /\ Handles(frames'[t], q) = Handles(frames[t], q)
    BY <1>2, <1>8, <2>2
  <2>4. QED
    BY <2>1, <2>3, CallerSame
<1>18. QED
  BY <1>10, <1>12, <1>14, <1>15, <1>16, <1>17 DEF LoopInv

\* message(DeferredDelete): no one waits for a message of the object.
LEMMA DeferredDeleteStep ==
    ASSUME LoopInv, NEW t0 \in Thread, DeferredDelete(t0)
    PROVE  LoopInv'
<1>1. InHandler(t0) /\ Return(t0) /\ Last(frames[t0]).message.type = "DeferredDelete"
  BY DEF DeferredDelete
<1>2. PICK fs : fs = frames[t0]
  OBVIOUS
<1>3. PICK m : m = Last(fs).message
  OBVIOUS
<1>4. /\ fs # <<>> /\ fs \in Seq(Frame) /\ Len(fs) \in 1 .. Len(fs) /\ Len(fs) \in Nat
      /\ Last(fs) = fs[Len(fs)] /\ m \in Message /\ m \in Held(list[t0], fs) /\ Bound(m, t0) /\ Passes(Last(fs), m)
  BY <1>1, <1>2, <1>3, HandlerFields
<1>5. m.type = "DeferredDelete" /\ fs[Len(fs)].message = m
  BY <1>1, <1>2, <1>3, <1>4
<1>6. PICK o \in Object : o = m.receiver
  BY <1>4, MessageFields
<1>7. /\ deleteObject(o) /\ home[o] = t0
      /\ pc' = pc /\ running' = running /\ dispatcher' = dispatcher /\ eventfd' = eventfd
      /\ posted' = posted /\ home' = home /\ poster' = poster
  BY <1>2, <1>3, <1>4, <1>6 DEF DeferredDelete, threadVars, Bound
<1>8. PICK hs : hs = frames'[t0]
  OBVIOUS
<1>9. /\ frames' \in [Thread -> Seq(Frame)]
      /\ \A t \in Thread : t # t0 => frames'[t] = frames[t]
      /\ Len(hs) = Len(fs) /\ hs # <<>> /\ ~Asleep(t0)'
      /\ hs[1].type = fs[1].type /\ hs[1].receiver = fs[1].receiver
      /\ hs[Len(fs)].message = NoMessage
      /\ \A l \in Seq(Entry) : /\ Iterators(l, fs) => Iterators(l, hs)
                               /\ Held(l, hs) \subseteq Held(l, fs)
      /\ \A p : Handles(hs, p) = Handles(fs, p) \ {Len(fs)}
  BY <1>1, <1>2, <1>8, ReturnEffect
<1>10. Iterators(list[t0], fs) /\ Deletions(list[t0], fs) /\ list[t0] \in Seq(Entry)
  BY <1>2 DEF LoopInv, ThreadSound, Shape
<1>13. m.waiter = NoPoster /\ \A i \in For(list[t0], o) : list[t0][i].waiter = NoPoster
  <2>1. \A i \in For(list[t0], o) : list[t0][i] \in Held(list[t0], fs) /\ list[t0][i].receiver = o
    BY DEF For, Held
  <2>2. QED
    BY <1>4, <1>5, <1>6, <1>10, <2>1 DEF Deletions
<1>14. ASSUME NEW q \in Poster PROVE Handles(hs, q) = Handles(fs, q)
  <2>1. q # NoPoster
    BY LoopAssumption DEF LoopAssumption
  <2>2. Len(fs) \notin Handles(fs, q)
    BY <1>5, <1>13, <2>1 DEF Handles
  <2>3. QED
    BY <1>9, <2>2
<1>15. QED
  BY <1>2, <1>4, <1>7, <1>8, <1>9, <1>10, <1>13, <1>14, DeleteStep

\* A message handler deletes another object.
LEMMA MethodDeletesStep ==
    ASSUME LoopInv, NEW t0 \in Thread, NEW o \in Object, MethodDeletes(t0, o)
    PROVE  LoopInv'
<1>1. /\ InHandler(t0) /\ home[o] = t0 /\ ~InUse(o) /\ \A m \in Handling(t0) : m.receiver # o
      /\ deleteObject(o) /\ frames' = frames
      /\ pc' = pc /\ running' = running /\ dispatcher' = dispatcher /\ eventfd' = eventfd
      /\ posted' = posted /\ home' = home /\ poster' = poster
  BY DEF MethodDeletes, InInvoke, loopVars, threadVars
<1>2. frames[t0] # <<>> /\ frames \in [Thread -> Seq(Frame)]
  BY <1>1 DEF InHandler, LoopInv, Shape
<1>3. ~Asleep(t0)'
  BY <1>1, <1>2, HandlerFields DEF Asleep
<1>4. \A i \in For(list[t0], o) : list[t0][i].waiter = NoPoster
  BY <1>1 DEF InUse
<1>5. QED
  BY <1>1, <1>2, <1>3, <1>4, DeleteStep

\* moveToThread(): the messages of the object follow it, behind those of the other thread,
\* and the other thread is woken up.
LEMMA MethodMovesStep ==
    ASSUME LoopInv, NEW t0 \in Thread, NEW o \in Object, NEW u \in Thread, MethodMoves(t0, o, u)
    PROVE  LoopInv'
<1>1. Shape
  BY DEF LoopInv
<1>2. PICK l \in Seq(Entry) : l = list[t0]
  BY <1>1 DEF Shape
<1>3. PICK r \in Seq(Entry) : r = list[u]
  BY <1>1 DEF Shape
<1>4. PICK fs \in Seq(Frame) : fs = frames[t0]
  BY <1>1 DEF Shape
<1>5. PICK gs \in Seq(Frame) : gs = frames[u]
  BY <1>1 DEF Shape
<1>6. PICK e : e = Entries(l, For(l, o))
  OBVIOUS
<1>7. PICK k : k = Without(l, o)
  OBVIOUS
<1>8. PICK j : j = r \o e
  OBVIOUS
<1>9. /\ InHandler(t0) /\ o \in alive /\ home[o] = t0 /\ u # t0
      /\ \A m \in Handling(t0) : m.receiver # o
      /\ list' = [list EXCEPT ![u] = j, ![t0] = k]
      /\ home' = [home EXCEPT ![o] = u]
      /\ eventfd' = [eventfd EXCEPT ![u] = @ \/ (For(l, o) # {} /\ dispatcher[u])]
      /\ pc' = pc /\ frames' = frames /\ running' = running /\ dispatcher' = dispatcher
      /\ pending' = pending /\ posted' = posted /\ alive' = alive /\ poster' = poster
  BY <1>2, <1>3, <1>6, <1>7, <1>8 DEF MethodMoves, InInvoke, loopVars, threadVars
<1>10. For(l, o) \subseteq Pending(l)
  BY DEF For
<1>11. /\ e \in Seq(Entry)
       /\ Ordered(l) => Ordered(e)
       /\ \A i \in Pending(e) : \E x \in For(l, o) : e[i] = l[x]
       /\ \A q : Cardinality(For(e, q)) = Cardinality(For(l, o) \cap For(l, q))
       /\ \A p : For(l, o) \cap Waits(l, p) = {} => Waits(e, p) = {}
       /\ \A p, x : For(l, o) \cap Waits(l, p) = {x} => \E y : Waits(e, p) = {y}
  <2>1. Taken(l, For(l, o), e)
    BY <1>6, <1>10, EntriesSound
  <2>2. QED
    BY <2>1 DEF Taken
<1>12. Joined(r, e, j)
  BY <1>8, <1>11, ConcatEffect
<1>13. Thinned(l, k, For(l, o))
  BY <1>7, WithoutEffect
<1>14. k \in Seq(Entry) /\ Pending(k) = Pending(l) \ For(l, o) /\ \A i \in Pending(k) : k[i] = l[i]
  BY <1>13 DEF Thinned
<1>15. j \in Seq(Entry)
  BY <1>12 DEF Joined
<1>16. /\ list'[t0] = k /\ list'[u] = j /\ list' \in [Thread -> Seq(Entry)]
       /\ \A t \in Thread : t # t0 /\ t # u => list'[t] = list[t]
  BY <1>1, <1>9, <1>14, <1>15 DEF Shape
<1>17. /\ home'[o] = u /\ home' \in [Object -> Thread]
       /\ \A q \in Object : q # o => home'[q] = home[q]
  BY <1>1, <1>9 DEF Shape
<1>18. /\ eventfd' \in [Thread -> BOOLEAN]
       /\ \A t \in Thread : t # u => eventfd'[t] = eventfd[t]
       /\ eventfd'[u] = (eventfd[u] \/ (For(l, o) # {} /\ dispatcher[u]))
  BY <1>1, <1>9 DEF Shape
<1>19. Shape'
  BY <1>1, <1>9, <1>16, <1>17, <1>18 DEF Shape
<1>20. \A t \in Thread : ThreadSound(t)
  BY DEF LoopInv
<1>21. /\ Iterators(l, fs) => Iterators(k, fs)
       /\ Ordered(l) => Ordered(k)
       /\ Held(k, fs) \subseteq Held(l, fs)
       /\ \A q : For(k, q) = For(l, q) \ For(l, o)
       /\ \A p : Waits(k, p) = Waits(l, p) \ For(l, o)
  BY <1>13, ThinnedEffect
<1>22. ASSUME NEW t \in Thread, t # t0, NEW m \in Held(list[t], frames[t])
       PROVE  m.receiver # o /\ Bound(m, t)'
  <2>1. m.receiver \in Object
    BY <1>1, HeldFields, MessageFields
  <2>2. Bound(m, t)
    BY <1>20 DEF ThreadSound
  <2>3. m.receiver # o
    BY <1>9, <1>22, <2>2 DEF Bound
  <2>4. QED
    BY <1>9, <1>17, <2>1, <2>2, <2>3 DEF Bound
<1>23. ASSUME NEW t \in Thread, t # t0, t # u PROVE ThreadSound(t)'
  BY <1>9, <1>16, <1>20, <1>22, <1>23, ThreadKept
<1>24. ThreadSound(t0)'
  <2>1. Iterators(l, fs) /\ Ordered(l)
    BY <1>2, <1>4, <1>20 DEF ThreadSound
  <2>2. Held(k, fs) \subseteq Held(list[t0], frames[t0])
    BY <1>2, <1>4, <1>21
  <2>3. ASSUME NEW m \in Held(k, fs) PROVE m.receiver # o
    <3>1. CASE m \in {fs[n].message : n \in 1 .. Len(fs)} \ {NoMessage}
      BY <1>4, <1>9, <3>1 DEF Handling
    <3>2. ASSUME NEW i \in Pending(k), m = k[i] PROVE m.receiver # o
      BY <1>14, <3>2 DEF For
    <3>3. QED
      BY <3>1, <3>2 DEF Held
  <2>4. ASSUME NEW m \in Held(k, fs) PROVE Bound(m, t0)'
    <3>1. m.receiver \in Object
      BY <1>1, <2>2, HeldFields, MessageFields
    <3>2. Bound(m, t0)
      BY <1>20, <2>2 DEF ThreadSound
    <3>3. QED
      BY <1>9, <1>17, <2>3, <3>1, <3>2 DEF Bound
  <2>5. QED
    BY <1>4, <1>9, <1>16, <1>20, <1>21, <2>1, <2>2, <2>4, ThreadChanged
<1>25. ASSUME NEW i \in Pending(e) PROVE e[i] \in Held(l, fs) /\ e[i].receiver = o
  <2>1. PICK x \in For(l, o) : e[i] = l[x]
    BY <1>11
  <2>2. x \in Pending(l) /\ l[x].receiver = o
    BY DEF For
  <2>3. QED
    BY <2>1, <2>2 DEF Held
<1>26. ASSUME NEW i \in Pending(r) PROVE r[i] \in Held(r, gs) /\ r[i].receiver # o
  <2>1. r[i] \in Held(list[u], frames[u])
    BY <1>3 DEF Held
  <2>2. QED
    BY <1>3, <1>5, <1>9, <1>22, <2>1
<1>27. /\ Iterators(r, gs) => Iterators(j, gs)
       /\ Ordered(r) /\ Ordered(e) => Ordered(j)
       /\ \A m \in Held(j, gs) : m \in Held(r, gs) \/ \E i \in Pending(e) : m = e[i]
       /\ \A q : For(e, q) = {} => For(j, q) = For(r, q)
       /\ For(r, o) = {} => Cardinality(For(j, o)) = Cardinality(For(e, o))
       /\ \A p : Waits(e, p) = {} => Waits(j, p) = Waits(r, p)
       /\ \A p, y : Waits(r, p) = {} /\ Waits(e, p) = {y} => Waits(j, p) = {Len(r) + y}
  <2>1. \A x \in Pending(r), y \in Pending(e) : r[x].receiver # e[y].receiver
    BY <1>25, <1>26
  <2>2. QED
    BY <1>11, <1>12, <2>1, ConcatSound
<1>28. ThreadSound(u)'
  <2>1. Iterators(r, gs) /\ Ordered(r) /\ Deletions(r, gs)
    BY <1>3, <1>5, <1>20 DEF ThreadSound
  <2>2. Ordered(l) /\ Deletions(l, fs) /\ \A m \in Held(l, fs) : Bound(m, t0)
    BY <1>2, <1>4, <1>20 DEF ThreadSound
  <2>3. Iterators(j, gs) /\ Ordered(j)
    BY <1>11, <1>27, <2>1, <2>2
  <2>4. ASSUME NEW m \in Held(j, gs) PROVE m \in Held(r, gs) \/ (m \in Held(l, fs) /\ m.receiver = o)
    BY <1>25, <1>27
  <2>5. \A m \in Held(r, gs) : m.receiver # o /\ Bound(m, u)'
    BY <1>3, <1>5, <1>9, <1>22
  <2>6. \A m \in Held(j, gs) : Bound(m, u)'
    <3>1. ASSUME NEW m \in Held(l, fs), m.receiver = o PROVE Bound(m, u)'
      BY <1>9, <1>17, <2>2, <3>1 DEF Bound
    <3>2. QED
      BY <2>4, <2>5, <3>1
  <2>7. Deletions(j, gs)
    <3> SUFFICES ASSUME NEW m \in Held(j, gs), NEW n \in Held(j, gs),
                        m.type = "DeferredDelete", m.receiver = n.receiver
                 PROVE  n.waiter = NoPoster
      BY DEF Deletions
    <3>1. CASE m.receiver = o
      <4>1. m \in Held(l, fs) /\ n \in Held(l, fs)
        BY <2>4, <2>5, <3>1
      <4>2. QED
        BY <2>2, <4>1 DEF Deletions
    <3>2. CASE m.receiver # o
      <4>1. m \in Held(r, gs) /\ n \in Held(r, gs)
        BY <2>4, <3>2
      <4>2. QED
        BY <2>1, <4>1 DEF Deletions
    <3>3. QED
      BY <3>1, <3>2
  <2>8. QED
    BY <1>5, <1>9, <1>16, <2>3, <2>6, <2>7 DEF ThreadSound
<1>29. ASSUME NEW q \in Object PROVE pending'[q] = Cardinality(For(list'[home'[q]], q))
  <2>1. pending[q] = Cardinality(For(list[home[q]], q)) /\ home[q] \in Thread
    BY <1>1 DEF LoopInv, Shape
  <2>2. CASE q = o
    <3>1. For(r, o) = {}
      BY <1>26 DEF For
    <3>2. Cardinality(For(j, o)) = Cardinality(For(e, o))
      BY <1>27, <3>1
    <3>3. Cardinality(For(e, o)) = Cardinality(For(l, o) \cap For(l, o))
      BY <1>11
    <3>4. For(l, o) \cap For(l, o) = For(l, o)
      OBVIOUS
    <3>5. QED
      BY <1>2, <1>9, <1>16, <1>17, <2>1, <2>2, <3>2, <3>3, <3>4
  <2>3. CASE q # o /\ home[q] = t0
    <3>1. For(k, q) = For(l, q)
      BY <1>21, <2>3 DEF For
    <3>2. QED
      BY <1>2, <1>9, <1>16, <1>17, <2>1, <2>3, <3>1
  <2>4. CASE q # o /\ home[q] = u
    <3>1. For(e, q) = {}
      BY <1>25, <2>4 DEF For
    <3>2. For(j, q) = For(r, q)
      BY <1>27, <3>1
    <3>3. QED
      BY <1>3, <1>9, <1>16, <1>17, <2>1, <2>4, <3>2
  <2>5. CASE q # o /\ home[q] # t0 /\ home[q] # u
    BY <1>9, <1>16, <1>17, <2>1, <2>5
  <2>6. QED
    BY <2>2, <2>3, <2>4, <2>5
<1>30. ASSUME NEW t \in Thread PROVE Awake(t)'
  <2>1. Awake(t)
    BY DEF LoopInv
  <2>2. Woken(t) => Woken(t)'
    BY <1>9, <1>18 DEF Woken
  <2>3. CASE t # t0 /\ t # u
    BY <1>9, <1>16, <2>1, <2>2, <2>3, AwakeKept DEF Asleep
  <2>4. CASE t = t0
    <3>1. Pending(list'[t]) # {} => Pending(list[t]) # {}
      BY <1>2, <1>14, <1>16, <2>4
    <3>2. QED
      BY <1>9, <2>1, <2>2, <2>4, <3>1, AwakeKept DEF Asleep
  <2>5. CASE t = u
    <3>1. ASSUME Asleep(u), Pending(j) # {}, Pending(r) = {} PROVE Woken(u)'
      <4>1. PICK i \in Pending(e) : TRUE
        BY <1>12, <3>1 DEF Joined
      <4>2. For(l, o) # {}
        BY <1>11
      <4>3. dispatcher[u]
        BY <2>1, <2>5, <3>1, AsleepDispatcher
      <4>4. QED
        BY <1>18, <4>2, <4>3 DEF Woken
    <3>2. Asleep(t) /\ Pending(list'[t]) # {} => Pending(list[t]) # {} \/ Woken(t)'
      BY <1>3, <1>16, <2>5, <3>1
    <3>3. QED
      BY <1>9, <2>1, <2>2, <3>2, AwakeKept DEF Asleep
  <2>6. QED
    BY <2>3, <2>4, <2>5
<1>31. ASSUME NEW q \in Poster PROVE Caller(q)'
  <2>1. Caller(q)
    BY DEF LoopInv
  <2>2. CASE For(l, o) \cap Waits(l, q) = {}
    <3>1. Waits(k, q) = Waits(l, q) /\ Waits(j, q) = Waits(r, q)
      <4>1. Waits(l, q) \ For(l, o) = Waits(l, q)
        BY <2>2
      <4>2. Waits(k, q) = Waits(l, q)
        BY <1>21, <4>1
      <4>3. Waits(e, q) = {}
        BY <1>11, <2>2
      <4>4. QED
        BY <1>27, <4>2, <4>3
    <3>2. \A t \in Thread : /\ Waits(list'[t], q) = Waits(list[t], q)
                            /\ Handles(frames'[t], q) = Handles(frames[t], q)
      BY <1>2, <1>3, <1>9, <1>16, <3>1
    <3>3. QED
      BY <1>9, <2>1, <3>2, CallerSame
  <2>3. CASE For(l, o) \cap Waits(l, q) # {}
    <3>1. PICK x \in For(l, o) : x \in Waits(l, q)
      BY <2>3
    <3>2. ~Nowhere(q, t0)
      BY <1>2, <3>1 DEF Nowhere
    <3>3. PICK t \in Thread : /\ Blocked(q) /\ poster[q].available = 0
                              /\ Somewhere(q, t) /\ \A v \in Thread \ {t} : Nowhere(q, v)
      BY <2>1, <3>2 DEF Caller
    <3>4. t = t0
      BY <3>2, <3>3
    <3>5. Waits(l, q) = {x} /\ Handles(fs, q) = {}
      BY <1>2, <1>4, <3>1, <3>3, <3>4 DEF Somewhere
    <3>6. Waits(r, q) = {} /\ Handles(gs, q) = {}
      BY <1>3, <1>5, <1>9, <3>3, <3>4 DEF Nowhere
    <3>7. PICK y : Waits(e, q) = {y}
      <4>1. For(l, o) \cap Waits(l, q) = {x}
        BY <3>1, <3>5
      <4>2. QED
        BY <1>11, <4>1
    <3>8. Waits(j, q) = {Len(r) + y}
      BY <1>27, <3>6, <3>7
    <3>9. Waits(k, q) = {}
      BY <1>21, <3>1, <3>5
    <3>10. Somewhere(q, u)'
      BY <1>5, <1>9, <1>16, <3>6, <3>8 DEF Somewhere
    <3>11. Nowhere(q, t0)'
      BY <1>4, <1>9, <1>16, <3>5, <3>9 DEF Nowhere
    <3>12. \A v \in Thread \ {u} : Nowhere(q, v)'
      <4>1. ASSUME NEW v \in Thread, v # u, v # t0 PROVE Nowhere(q, v)'
        BY <1>9, <1>16, <3>3, <3>4, <4>1 DEF Nowhere
      <4>2. QED
        BY <3>11, <4>1
    <3>13. Blocked(q)' /\ poster'[q].available = 0 /\ (poster'[q].pc = "acquire" => poster'[q].blocking)
      BY <1>9, <2>1, <3>3 DEF Blocked, Caller
    <3>14. QED
      BY <3>10, <3>12, <3>13 DEF Caller
  <2>4. QED
    BY <2>2, <2>3
<1>32. QED
  BY <1>19, <1>23, <1>24, <1>28, <1>29, <1>30, <1>31 DEF LoopInv

-----------------------------------------------------------------------------
(* The invariant holds.                                                     *)

\* At first: nothing is posted and no thread runs.
LEMMA LoopInit == Init => LoopInv
<1> SUFFICES ASSUME Init PROVE LoopInv
  OBVIOUS
<1>1. <<>> \in Seq(Entry) /\ <<>> \in Seq(Frame) /\ Len(<<>>) = 0 /\ 1 .. 0 = {}
  OBVIOUS
<1>2. Pending(<<>>) = {}
  BY <1>1 DEF Pending
<1>3. \A t \in Thread : list[t] = <<>> /\ frames[t] = <<>> /\ pc[t] = "stopped"
  BY DEF Init
<1>4. Shape
  <2>1. \A p \in Poster : poster[p] = IdlePoster
    BY DEF Init
  <2>2. poster \in [Poster -> [pc : {"idle", "interrupt", "acquire"}, thread : Thread,
                              blocking : BOOLEAN, available : Int]]
    BY IdleFields DEF Init
  <2>3. posted \in 0 .. MaxMessages /\ home \in [Object -> Thread]
    BY LoopAssumption DEF Init, LoopAssumption
  <2>4. QED
    BY <1>1, <2>2, <2>3 DEF Init, Shape
<1>5. ASSUME NEW t \in Thread PROVE ThreadSound(t)
  <2>1. Held(list[t], frames[t]) = {}
    BY <1>1, <1>2, <1>3 DEF Held
  <2>2. Iterators(list[t], frames[t]) /\ Ordered(list[t])
    BY <1>1, <1>2, <1>3 DEF Iterators, Ordered
  <2>3. QED
    BY <2>1, <2>2 DEF ThreadSound, Deletions
<1>6. ASSUME NEW t \in Thread PROVE Awake(t)
  BY <1>3 DEF Awake, Asleep
<1>7. ASSUME NEW o \in Object PROVE pending[o] = Cardinality(For(list[home[o]], o))
  <2>1. home[o] \in Thread
    BY <1>4 DEF Shape
  <2>2. For(list[home[o]], o) = {}
    BY <1>2, <1>3, <2>1 DEF For
  <2>3. QED
    BY <2>2, FS_EmptySet DEF Init
<1>8. ASSUME NEW p \in Poster PROVE Caller(p)
  <2>1. \A t \in Thread : Nowhere(p, t)
    BY <1>1, <1>2, <1>3 DEF Nowhere, Waits, Handles
  <2>2. poster[p].pc = "idle" /\ poster[p].available = 0
    BY IdleFields DEF Init
  <2>3. QED
    BY <2>1, <2>2 DEF Caller, Blocked
<1>9. QED
  BY <1>4, <1>5, <1>6, <1>7, <1>8 DEF LoopInv

\* Every step: one lemma above for each.
LEMMA LoopInvariant == LoopInv /\ [Next]_vars => LoopInv'
<1> SUFFICES ASSUME LoopInv, [Next]_vars PROVE LoopInv'
  OBVIOUS
<1>1. CASE UNCHANGED vars
  <2>1. /\ list' = list /\ frames' = frames /\ home' = home /\ alive' = alive /\ posted' = posted
        /\ pending' = pending /\ poster' = poster /\ pc' = pc /\ running' = running
        /\ dispatcher' = dispatcher /\ eventfd' = eventfd
    BY <1>1 DEF vars, loopVars, threadVars, queueVars, objectVars
  <2>2. Shape'
    BY <2>1 DEF LoopInv, Shape
  <2>3. \A t \in Thread : Awake(t)'
    BY <2>1 DEF LoopInv, Awake, Asleep
  <2>4. QED
    BY <2>1, <2>2, <2>3, QuietStep
<1>2. ASSUME NEW p \in Poster,
             \/ \E o \in Object, type \in Type, blocking \in BOOLEAN : PostMessage(p, o, type, blocking)
             \/ PostMessageInterrupt(p)
             \/ SemaphoreAcquire(p)
      PROVE  LoopInv'
  BY <1>2, PostMessageStep, PostMessageInterruptStep, SemaphoreAcquireStep
<1>3. ASSUME NEW t \in Thread, Method(t) PROVE LoopInv'
  BY <1>3, InvokeReturnStep, DeferredDeleteStep, MethodDispatchesStep, MethodPostsStep, MethodDeletesStep,
     MethodMovesStep DEF Method
<1>4. ASSUME NEW t \in Thread, Loop(t) PROVE LoopInv'
  <2>1. NestedPoll(t) => Len(frames[t]) > 1
    BY DEF NestedPoll, InProcessEvents
  <2>2. QED
    BY <1>4, <2>1, ThreadStep, LoopCheckStep, DispatchMessageStep, InnerReturnStep, OuterReturnStep,
       ThenPollStep DEF Loop
<1>5. ASSUME NEW t \in Thread, Controller(t) PROVE LoopInv'
  BY <1>5, ThreadStep DEF Controller
<1>6. QED
  BY <1>1, <1>2, <1>3, <1>4, <1>5 DEF Next, Posting

\* A thread never sleeps over a message: Thread::postMessage() interrupts the dispatcher after
\* it has queued the message, moveObject() interrupts the target's, and the eventfd keeps an
\* interrupt that comes before poll().
THEOREM SleepersAreWoken == Spec => []NoLostWakeup
<1>1. LoopInv => NoLostWakeup
  BY DEF LoopInv, Awake, NoLostWakeup
<1>2. QED
  BY <1>1, LoopInit, LoopInvariant, PTL DEF Spec

\* The objects that the messages of a list are for live.
Lives(l) == \A i \in Pending(l) : l[i].receiver \in alive
Living == \A t \in Thread : Lives(list[t])

LEMMA LivingInit == Init => Living
<1>1. Pending(<<>>) = {}
  BY DEF Pending
<1>2. QED
  BY <1>1 DEF Init, Living, Lives

\* Only living objects get messages, and those of an object that is deleted go with it.
LEMMA LivingStep == LoopInv /\ Living /\ [Next]_vars => Living'
<1> SUFFICES ASSUME LoopInv, Living, [Next]_vars PROVE Living'
  OBVIOUS
<1>1. Shape
  BY DEF LoopInv
<1>2. ASSUME list' = list, alive' = alive PROVE Living'
  BY <1>2 DEF Living, Lives
<1>3. ASSUME NEW o \in alive, NEW type, NEW w, push(o, type, w), alive' = alive,
             NEW m \in Message, m = [id |-> posted + 1, type |-> type, receiver |-> o, waiter |-> w]
      PROVE  Living'
  <2>1. PICK t0 \in Thread : t0 = home[o]
    BY <1>1 DEF Shape
  <2>2. PICK l \in Seq(Entry) : l = list[t0]
    BY <1>1 DEF Shape
  <2>3. PICK k : k = Append(l, m)
    OBVIOUS
  <2>4. Appended(l, m, k)
    BY <2>3, AppendEffect
  <2>5. list' = [list EXCEPT ![t0] = k]
    BY <1>3, <2>1, <2>2, <2>3 DEF push
  <2>6. list'[t0] = k /\ \A t \in Thread : t # t0 => list'[t] = list[t]
    BY <1>1, <2>5 DEF Shape
  <2>7. m.receiver = o
    BY <1>3
  <2>8. Lives(k)'
    BY <1>3, <2>2, <2>4, <2>7 DEF Appended, Living, Lives
  <2>9. QED
    BY <1>3, <2>6, <2>8 DEF Living, Lives
<1>4. ASSUME NEW t0 \in Thread, NEW l, NEW k, NEW P, l = list[t0], Thinned(l, k, P), alive' = alive,
             list' = [list EXCEPT ![t0] = k]
      PROVE  Living'
  <2>1. list'[t0] = k /\ \A t \in Thread : t # t0 => list'[t] = list[t]
    BY <1>1, <1>4 DEF Shape
  <2>2. Lives(k)'
    BY <1>4 DEF Thinned, Living, Lives
  <2>3. QED
    BY <1>4, <2>1, <2>2 DEF Living, Lives
<1>5. ASSUME NEW o \in Object, deleteObject(o),
             \A t \in Thread : \A i \in Pending(list[t]) : list[t][i].receiver = o => t = home[o]
      PROVE  Living'
  <2>1. PICK t0 \in Thread : t0 = home[o]
    BY <1>1 DEF Shape
  <2>2. PICK l \in Seq(Entry) : l = list[t0]
    BY <1>1 DEF Shape
  <2>3. PICK k : k = Without(l, o)
    OBVIOUS
  <2>4. Thinned(l, k, For(l, o))
    BY <2>3, WithoutEffect
  <2>5. alive' = alive \ {o} /\ list' = [list EXCEPT ![t0] = k]
    BY <1>5, <2>1, <2>2, <2>3 DEF deleteObject
  <2>6. list'[t0] = k /\ \A t \in Thread : t # t0 => list'[t] = list[t]
    BY <1>1, <2>5 DEF Shape
  <2>7. Lives(k)'
    BY <2>2, <2>4, <2>5 DEF Thinned, For, Living, Lives
  <2>8. ASSUME NEW t \in Thread, t # t0 PROVE Lives(list[t])'
    BY <1>5, <2>1, <2>5, <2>6, <2>8 DEF Living, Lives
  <2>9. QED
    BY <2>6, <2>7, <2>8 DEF Living, Lives
<1>6. ASSUME NEW t \in Thread, NEW i \in Pending(list[t]) PROVE home[list[t][i].receiver] = t
  <2>1. list[t][i] \in Held(list[t], frames[t])
    BY DEF Held
  <2>2. QED
    BY <2>1 DEF LoopInv, ThreadSound, Bound
<1>7. CASE UNCHANGED vars
  BY <1>2, <1>7 DEF vars, queueVars, objectVars
<1>8. ASSUME NEW p \in Poster, NEW o \in Object, NEW type \in Type, NEW b \in BOOLEAN, PostMessage(p, o, type, b)
      PROVE  Living'
  <2>1. PICK w \in Poster \cup {NoPoster} : w = IF b THEN p ELSE NoPoster
    OBVIOUS
  <2>2. o \in alive /\ push(o, type, w) /\ alive' = alive
    BY <1>8, <2>1 DEF PostMessage, objectVars
  <2>3. posted + 1 \in 1 .. MaxMessages
    BY <1>1, <2>2, LoopAssumption DEF push, LoopAssumption, Shape
  <2>4. PICK m \in Message : m = [id |-> posted + 1, type |-> type, receiver |-> o, waiter |-> w]
    BY <2>3 DEF Message
  <2>5. QED
    BY <1>3, <2>2, <2>4
<1>9. ASSUME NEW p \in Poster, PostMessageInterrupt(p) \/ SemaphoreAcquire(p) PROVE Living'
  BY <1>2, <1>9 DEF PostMessageInterrupt, SemaphoreAcquire, queueVars, objectVars
<1>10. ASSUME NEW t \in Thread, NEW o \in Object, MethodPosts(t, o) PROVE Living'
  <2>1. o \in alive /\ push(o, "InvokeMessage", NoPoster) /\ alive' = alive
    BY <1>10 DEF MethodPosts, objectVars
  <2>2. posted + 1 \in 1 .. MaxMessages
    BY <1>1, <2>1, LoopAssumption DEF push, LoopAssumption, Shape
  <2>3. PICK m \in Message :
            m = [id |-> posted + 1, type |-> "InvokeMessage", receiver |-> o, waiter |-> NoPoster]
    BY <2>2 DEF Message, Type
  <2>4. QED
    BY <1>3, <2>1, <2>3
<1>11. ASSUME NEW t \in Thread, DispatchMessage(t) PROVE Living'
  <2>1. PICK l \in Seq(Entry) : l = list[t]
    BY <1>1 DEF Shape
  <2>2. PICK i : /\ i = Min(Matching(l, Last(frames[t]))) /\ Matching(l, Last(frames[t])) # {}
                 /\ list' = [list EXCEPT ![t][i] = NoMessage] /\ alive' = alive
    BY <1>11, <2>1 DEF DispatchMessage, objectVars
  <2>3. i \in Pending(l)
    <3>1. Matching(l, Last(frames[t])) \subseteq Nat
      BY PendingFields DEF Matching
    <3>2. \E x \in Matching(l, Last(frames[t])) : \A y \in Matching(l, Last(frames[t])) : x <= y
      BY <2>2, <3>1, SmallestMember
    <3>3. i \in Matching(l, Last(frames[t]))
      BY <2>2, <3>2 DEF Min
    <3>4. QED
      BY <3>3 DEF Matching
  <2>4. PICK k : k = [l EXCEPT ![i] = NoMessage]
    OBVIOUS
  <2>5. Thinned(l, k, {i})
    BY <2>3, <2>4, NullEffect
  <2>6. list' = [list EXCEPT ![t] = k]
    BY <1>1, <2>1, <2>2, <2>4 DEF Shape
  <2>7. QED
    BY <1>4, <2>1, <2>2, <2>5, <2>6
<1>12. ASSUME NEW t \in Thread, DispatchReturn(t) PROVE Living'
  <2>1. CASE Len(frames[t]) > 1
    BY <1>2, <1>12, <2>1 DEF DispatchReturn, objectVars
  <2>2. CASE ~(Len(frames[t]) > 1)
    <3>1. PICK l \in Seq(Entry) : l = list[t]
      BY <1>1 DEF Shape
    <3>2. PICK k : k = Entries(l, Pending(l))
      OBVIOUS
    <3>3. list' = [list EXCEPT ![t] = k] /\ alive' = alive
      BY <1>12, <2>2, <3>1, <3>2 DEF DispatchReturn, objectVars
    <3>4. \A i \in Pending(k) : \E j \in Pending(l) : k[i] = l[j]
      <4>1. Pending(l) \subseteq Pending(l)
        OBVIOUS
      <4>2. Taken(l, Pending(l), k)
        BY <3>2, <4>1, EntriesSound
      <4>3. QED
        BY <4>2 DEF Taken
    <3>5. list'[t] = k /\ \A u \in Thread : u # t => list'[u] = list[u]
      BY <1>1, <3>3 DEF Shape
    <3>6. Lives(k)'
      BY <3>1, <3>3, <3>4 DEF Living, Lives
    <3>7. QED
      BY <3>3, <3>5, <3>6 DEF Living, Lives
  <2>3. QED
    BY <2>1, <2>2
<1>13. ASSUME NEW t \in Thread, DeferredDelete(t) PROVE Living'
  <2>1. InHandler(t)
    BY <1>13 DEF DeferredDelete
  <2>2. PICK o \in Object : o = Last(frames[t]).message.receiver
    BY <2>1, HandlerFields, MessageFields
  <2>3. deleteObject(o)
    BY <1>13, <2>2 DEF DeferredDelete
  <2>4. QED
    BY <1>5, <1>6, <2>3
<1>14. ASSUME NEW t \in Thread, NEW o \in Object, MethodDeletes(t, o) PROVE Living'
  <2>1. deleteObject(o)
    BY <1>14 DEF MethodDeletes
  <2>2. QED
    BY <1>5, <1>6, <2>1
<1>15. ASSUME NEW t \in Thread, NEW o \in Object, NEW u \in Thread, MethodMoves(t, o, u) PROVE Living'
  <2>1. PICK l \in Seq(Entry) : l = list[t]
    BY <1>1 DEF Shape
  <2>2. PICK r \in Seq(Entry) : r = list[u]
    BY <1>1 DEF Shape
  <2>3. PICK e : e = Entries(l, For(l, o))
    OBVIOUS
  <2>4. PICK k : k = Without(l, o)
    OBVIOUS
  <2>5. PICK j : j = r \o e
    OBVIOUS
  <2>6. /\ o \in alive /\ u # t /\ alive' = alive
        /\ list' = [list EXCEPT ![u] = j, ![t] = k]
    BY <1>15, <2>1, <2>2, <2>3, <2>4, <2>5 DEF MethodMoves
  <2>7. e \in Seq(Entry) /\ \A i \in Pending(e) : \E x \in For(l, o) : e[i] = l[x]
    <3>1. For(l, o) \subseteq Pending(l)
      BY DEF For
    <3>2. Taken(l, For(l, o), e)
      BY <2>3, <3>1, EntriesSound
    <3>3. QED
      BY <3>2 DEF Taken
  <2>8. Joined(r, e, j) /\ Thinned(l, k, For(l, o))
    BY <2>4, <2>5, <2>7, ConcatEffect, WithoutEffect
  <2>9. list'[t] = k /\ list'[u] = j /\ \A v \in Thread : v # t /\ v # u => list'[v] = list[v]
    BY <1>1, <2>6 DEF Shape
  <2>10. Lives(k)'
    BY <2>1, <2>6, <2>8 DEF Thinned, Living, Lives
  <2>11. \A i \in Pending(e) : e[i].receiver \in alive
    BY <2>6, <2>7 DEF For
  <2>12. Lives(j)'
    BY <2>2, <2>6, <2>8, <2>11 DEF Joined, Living, Lives
  <2>13. ASSUME NEW v \in Thread PROVE Lives(list[v])'
    <3>1. CASE v = t
      BY <2>9, <2>10, <3>1
    <3>2. CASE v = u
      BY <2>9, <2>12, <3>2
    <3>3. CASE v # t /\ v # u
      <4>1. list'[v] = list[v] /\ alive' = alive
        BY <2>6, <2>9, <3>3
      <4>2. Lives(list[v])
        BY DEF Living
      <4>3. QED
        BY <4>1, <4>2 DEF Lives
    <3>4. QED
      BY <3>1, <3>2, <3>3
  <2>14. QED
    BY <2>13 DEF Living
<1>16. ASSUME NEW t \in Thread,
              \/ InvokeReturn(t) \/ MethodDispatches(t) \/ MethodProcessesEvents(t) \/ Exec(t) \/ LoopCheck(t)
              \/ Poll(t) \/ DispatchThenPoll(t) \/ NestedPoll(t) \/ Controller(t)
       PROVE  Living'
  BY <1>2, <1>16 DEF InvokeReturn, MethodDispatches, MethodProcessesEvents, Exec, LoopCheck, Poll, DispatchThenPoll,
     NestedPoll, Controller, Start, Exit, ExitInterrupt, Wait, queueVars, objectVars
<1>17. QED
  BY <1>7, <1>8, <1>9, <1>10, <1>11, <1>12, <1>13, <1>14, <1>15, <1>16 DEF Next, Posting, Method, Loop

\* Which objects a step deletes, and under which handlers.
LEMMA DeletedBy ==
    ASSUME LoopInv, [Next]_vars, NEW t \in Thread, NEW k \in 1 .. Len(frames[t]),
           frames[t][k].message # NoMessage, frames[t][k].message.type = "InvokeMessage",
           frames[t][k].message.receiver \in alive, frames[t][k].message.receiver \notin alive'
    PROVE  \E n \in k + 1 .. Len(frames[t]) : frames[t][n].type = "None"
<1>1. PICK fs \in Seq(Frame) : fs = frames[t]
  BY DEF LoopInv, Shape
<1>2. PICK o : o = fs[k].message.receiver
  OBVIOUS
<1>3. fs[k].message \in Held(list[t], frames[t])
  BY <1>1 DEF Held
<1>4. home[o] = t
  BY <1>1, <1>2, <1>3 DEF LoopInv, ThreadSound, Bound
<1>5. fs[k].message \in Handling(t)
  BY <1>1 DEF Handling
<1>6. alive' # alive
  OBVIOUS
<1>7. ASSUME NEW u \in Thread, NEW q \in Object, MethodDeletes(u, q) PROVE FALSE
  <2>1. alive' = alive \ {q} /\ home[q] = u /\ \A m \in Handling(u) : m.receiver # q
    BY <1>7 DEF MethodDeletes, deleteObject
  <2>2. q = o
    BY <1>1, <1>2, <2>1
  <2>3. QED
    BY <1>2, <1>4, <1>5, <2>1, <2>2
<1>8. ASSUME NEW u \in Thread, DeferredDelete(u)
      PROVE  \E n \in k + 1 .. Len(fs) : fs[n].type = "None"
  <2>1. InHandler(u) /\ Last(frames[u]).message.type = "DeferredDelete"
    BY <1>8 DEF DeferredDelete
  <2>2. alive' = alive \ {Last(frames[u]).message.receiver}
    BY <1>8 DEF DeferredDelete, deleteObject
  <2>3. Last(frames[u]).message.receiver = o
    BY <1>1, <1>2, <2>2
  <2>4. u = t
    BY <1>4, <2>1, <2>3, HandlerFields DEF Bound
  <2>5. /\ Len(fs) \in Nat /\ Len(fs) \in 1 .. Len(fs) /\ Last(fs) = fs[Len(fs)]
        /\ Passes(fs[Len(fs)], fs[Len(fs)].message)
    BY <1>1, <2>1, <2>4, HandlerFields
  <2>6. fs[Len(fs)].message.type = "DeferredDelete"
    BY <1>1, <2>1, <2>4, <2>5
  <2>7. k # Len(fs)
    BY <1>1, <2>6
  <2>8. Len(fs) > 1 /\ Len(fs) \in k + 1 .. Len(fs)
    <3>1. PICK n \in Nat : n = Len(fs)
      BY <2>5
    <3>2. k \in 1 .. n /\ k # n
      BY <1>1, <2>7, <3>1
    <3>3. n > 1 /\ n \in k + 1 .. n
      BY <3>2
    <3>4. QED
      BY <3>1, <3>3
  <2>9. fs[Len(fs)].type # "DeferredDelete"
    BY <1>1, <2>5, <2>8 DEF LoopInv, ThreadSound, Iterators
  <2>10. fs[Len(fs)].type = "None"
    BY <2>5, <2>6, <2>9 DEF Passes
  <2>11. QED
    BY <2>8, <2>10
<1>9. CASE UNCHANGED vars
  BY <1>6, <1>9 DEF vars, objectVars
<1>10. ASSUME Posting PROVE alive' = alive
  BY <1>10 DEF Posting, PostMessage, PostMessageInterrupt, SemaphoreAcquire, objectVars
<1>11. ASSUME NEW u \in Thread, Loop(u) \/ Controller(u) PROVE alive' = alive
  BY <1>11 DEF Loop, Controller, Exec, LoopCheck, Poll, DispatchMessage, DispatchReturn, DispatchThenPoll, NestedPoll,
     Start, Exit, ExitInterrupt, Wait, objectVars
<1>12. ASSUME NEW u \in Thread, Method(u) PROVE \E n \in k + 1 .. Len(fs) : fs[n].type = "None"
  <2>1. InvokeReturn(u) \/ MethodDispatches(u) \/ MethodProcessesEvents(u) => alive' = alive
    BY DEF InvokeReturn, MethodDispatches, MethodProcessesEvents, objectVars
  <2>2. \A q \in Object : MethodPosts(u, q) \/ (\E v \in Thread : MethodMoves(u, q, v)) => alive' = alive
    BY DEF MethodPosts, MethodMoves, objectVars
  <2>3. QED
    BY <1>6, <1>7, <1>8, <1>12, <2>1, <2>2 DEF Method
<1>13. QED
  BY <1>1, <1>6, <1>9, <1>10, <1>11, <1>12 DEF Next

\* Object::deleteLater() deletes an object whose handler runs only if that handler, or one
\* nested in it, calls processEvents(): a dispatchMessages() that is restricted to invocations
\* never does, and the loop's own call has no handler around it.
THEOREM HandlersKeepTheirObject == Spec => NotDeletedInHandler
<1>1. LoopInv /\ [Next]_vars =>
          [\A t \in Thread : \A k \in 1 .. Len(frames[t]) :
              LET m == frames[t][k].message
              IN  /\ m # NoMessage /\ m.type = "InvokeMessage"
                  /\ m.receiver \in alive /\ m.receiver \notin alive'
                  => \E n \in k + 1 .. Len(frames[t]) : frames[t][n].type = "None"]_vars
  BY DeletedBy
<1>2. QED
  BY <1>1, LoopInit, LoopInvariant, PTL DEF Spec, NotDeletedInHandler

\* The messages that p waits for, thread by thread.
LEMMA CallerPlaces ==
    ASSUME NEW p
    PROVE  /\ \A x \in QueuedFor(p) : \E t \in Thread : \E i \in Waits(list[t], p) : x = <<t, i>>
           /\ \A t \in Thread : \A i \in Waits(list[t], p) : <<t, i>> \in QueuedFor(p)
           /\ \A x \in HandledFor(p) : \E t \in Thread : \E i \in Handles(frames[t], p) : x = <<t, i>>
           /\ \A t \in Thread : \A i \in Handles(frames[t], p) : <<t, i>> \in HandledFor(p)
  BY DEF QueuedFor, HandledFor, Waits, Handles

\* So a blocked caller has one message or one unit of its semaphore.
LEMMA CallerCounted == LoopInv => CallerAccounted
<1> SUFFICES ASSUME LoopInv, NEW p \in Poster
             PROVE  Cardinality(QueuedFor(p)) + Cardinality(HandledFor(p)) + poster[p].available =
                        IF poster[p].pc # "idle" /\ poster[p].blocking THEN 1 ELSE 0
  BY DEF CallerAccounted
<1>1. Caller(p)
  BY DEF LoopInv
<1>2. Cardinality({}) = 0 /\ \A x : Cardinality({x}) = 1
  BY FS_EmptySet, FS_Singleton
<1>3. CASE \A t \in Thread : Nowhere(p, t)
  <2>1. QueuedFor(p) = {} /\ HandledFor(p) = {}
    BY <1>3, CallerPlaces DEF Nowhere
  <2>2. \A t \in Thread : ~Somewhere(p, t)
    BY <1>3 DEF Somewhere, Nowhere
  <2>3. (Blocked(p) /\ poster[p].available = 1) \/ (~Blocked(p) /\ poster[p].available = 0)
    BY <1>1, <2>2 DEF Caller
  <2>4. QED
    BY <1>2, <2>1, <2>3 DEF Blocked
<1>4. ASSUME NEW t \in Thread, Blocked(p), poster[p].available = 0, Somewhere(p, t),
             \A u \in Thread \ {t} : Nowhere(p, u)
      PROVE  Cardinality(QueuedFor(p)) + Cardinality(HandledFor(p)) = 1
  <2>1. PICK i : \/ Waits(list[t], p) = {i} /\ Handles(frames[t], p) = {}
                 \/ Waits(list[t], p) = {} /\ Handles(frames[t], p) = {i}
    BY <1>4 DEF Somewhere
  <2>2. \A u \in Thread : u # t => Waits(list[u], p) = {} /\ Handles(frames[u], p) = {}
    BY <1>4 DEF Nowhere
  <2>3. CASE Waits(list[t], p) = {i} /\ Handles(frames[t], p) = {}
    <3>1. HandledFor(p) = {}
      BY <2>2, <2>3, CallerPlaces
    <3>2. QueuedFor(p) = {<<t, i>>}
      <4>1. <<t, i>> \in QueuedFor(p)
        BY <2>3, CallerPlaces
      <4>2. \A x \in QueuedFor(p) : x = <<t, i>>
        BY <2>2, <2>3, CallerPlaces
      <4>3. QED
        BY <4>1, <4>2
    <3>3. Cardinality(QueuedFor(p)) = 1 /\ Cardinality(HandledFor(p)) = 0
      BY <1>2, <3>1, <3>2, Zenon
    <3>4. QED
      BY <3>3
  <2>4. CASE Waits(list[t], p) = {} /\ Handles(frames[t], p) = {i}
    <3>1. QueuedFor(p) = {}
      BY <2>2, <2>4, CallerPlaces
    <3>2. HandledFor(p) = {<<t, i>>}
      <4>1. <<t, i>> \in HandledFor(p)
        BY <2>4, CallerPlaces
      <4>2. \A x \in HandledFor(p) : x = <<t, i>>
        BY <2>2, <2>4, CallerPlaces
      <4>3. QED
        BY <4>1, <4>2
    <3>3. Cardinality(QueuedFor(p)) = 0 /\ Cardinality(HandledFor(p)) = 1
      BY <1>2, <3>1, <3>2, Zenon
    <3>4. QED
      BY <3>3
  <2>5. QED
    BY <2>1, <2>3, <2>4
<1>5. CASE Blocked(p) /\ poster[p].available = 0 /\ \E t \in Thread :
              Somewhere(p, t) /\ \A u \in Thread \ {t} : Nowhere(p, u)
  <2>1. Cardinality(QueuedFor(p)) + Cardinality(HandledFor(p)) = 1
    BY <1>4, <1>5
  <2>2. QED
    BY <1>5, <2>1 DEF Blocked
<1>6. QED
  BY <1>1, <1>3, <1>5 DEF Caller

\* No message is lost or doubled by dispatchMessages(), removeMessages() and moveObject(), nested
\* calls included: an object counts the messages it has in the queue of its thread, and the
\* semaphore of a blocking invocation is released once.
THEOREM MessagesStayCounted == Spec => []MessagesAccounted
<1>1. LoopInv /\ Living => MessagesCounted
  <2> SUFFICES ASSUME LoopInv, Living PROVE MessagesCounted
    OBVIOUS
  <2>1. ASSUME NEW t \in Thread, NEW i \in Pending(list[t])
        PROVE  list[t][i].receiver \in alive /\ home[list[t][i].receiver] = t
    <3>1. list[t][i] \in Held(list[t], frames[t])
      BY DEF Held
    <3>2. QED
      BY <3>1 DEF LoopInv, ThreadSound, Bound, Living, Lives
  <2>2. QED
    BY <2>1 DEF LoopInv, MessagesCounted
<1>2. LoopInv /\ Living => MessagesAccounted
  BY <1>1, CallerCounted DEF MessagesAccounted
<1>3. QED
  BY <1>2, LoopInit, LoopInvariant, LivingInit, LivingStep, PTL DEF Spec

\* The message of a handler that begins: no earlier one of its object and type is queued.
InOrder(t, m) ==
    m # NoMessage /\ m \notin Handling(t) =>
        \A i \in For(list[t], m.receiver) : m.type = list[t][i].type => m.id <= list[t][i].id

\* The next message of the list is the oldest of those for its object and of its type.
LEMMA DispatchInOrder ==
    ASSUME LoopInv, NEW t \in Thread, DispatchMessage(t)
    PROVE  InOrder(t, Last(frames'[t]).message)
<1>1. Shape
  BY DEF LoopInv
<1>2. PICK l \in Seq(Entry) : l = list[t]
  BY <1>1 DEF Shape
<1>3. PICK fs \in Seq(Frame) : fs = frames[t]
  BY <1>1 DEF Shape
<1>4. fs # <<>> /\ Matching(l, Last(fs)) # {}
  BY <1>2, <1>3 DEF DispatchMessage
<1>5. PICK n \in 1 .. Len(fs) : n = Len(fs)
  BY <1>4, LastFrame
<1>6. n \in Nat /\ Last(fs) = fs[n] /\ fs[n] \in Frame /\ fs[n].pos \in Nat
  BY <1>4, <1>5, LastFrame, FrameFields
<1>7. PICK i : i = Min(Matching(l, fs[n]))
  OBVIOUS
<1>8. i \in Matching(l, fs[n]) /\ \A j \in Matching(l, fs[n]) : i <= j
  <2>1. Matching(l, fs[n]) \subseteq Nat
    BY PendingFields DEF Matching
  <2>2. \E x \in Matching(l, fs[n]) : \A y \in Matching(l, fs[n]) : x <= y
    BY <1>4, <1>6, <2>1, SmallestMember
  <2>3. QED
    BY <1>7, <2>2 DEF Min
<1>9. i \in Pending(l) /\ Passes(fs[n], l[i])
  BY <1>8 DEF Matching, Passes
<1>10. i \in Nat /\ l[i] \in Message /\ l[i].id \in Nat
  BY <1>9, PendingFields, MessageFields
<1>11. PICK g : g = [fs[n] EXCEPT !.pos = i, !.message = l[i]]
  OBVIOUS
<1>12. g \in Frame /\ g.message = l[i]
  BY <1>6, <1>10, <1>11 DEF Frame
<1>13. PICK hs : hs = [fs EXCEPT ![Len(fs)] = g]
  OBVIOUS
<1>14. hs \in Seq(Frame) /\ Len(hs) = Len(fs) /\ hs[Len(fs)] = g
  BY <1>4, <1>12, <1>13, ReplaceEffect DEF Replaced
<1>15. frames' = [frames EXCEPT ![t][Len(fs)] = g]
  BY <1>2, <1>3, <1>5, <1>6, <1>7, <1>11 DEF DispatchMessage
<1>16. frames'[t] = hs
  BY <1>1, <1>3, <1>13, <1>15 DEF Shape
<1>17. Last(frames'[t]).message = l[i]
  BY <1>12, <1>14, <1>16 DEF Last
<1>18. Iterators(l, fs) /\ Ordered(l)
  BY <1>2, <1>3 DEF LoopInv, ThreadSound
<1>19. ASSUME NEW j \in For(l, l[i].receiver), l[i].type = l[j].type PROVE l[i].id <= l[j].id
  <2>1. j \in Pending(l) /\ l[j].receiver = l[i].receiver /\ j \in Nat
    BY PendingFields DEF For
  <2>2. Passes(fs[n], l[j])
    BY <1>9, <1>19, <2>1 DEF Passes
  <2>3. ~(j <= fs[n].pos)
    BY <1>18, <2>1, <2>2 DEF Iterators
  <2>4. j \in Matching(l, fs[n])
    BY <1>6, <2>1, <2>2, <2>3 DEF Matching, Passes
  <2>5. CASE i = j
    BY <1>10, <2>5
  <2>6. CASE i # j
    <3>1. i < j
      BY <1>8, <1>10, <2>1, <2>4, <2>6
    <3>2. l[i].id < l[j].id
      BY <1>9, <1>18, <2>1, <3>1 DEF Ordered
    <3>3. l[j].id \in Nat
      BY <2>1, PendingFields, MessageFields
    <3>4. QED
      BY <1>10, <3>2, <3>3
  <2>7. QED
    BY <2>5, <2>6
<1>20. QED
  BY <1>2, <1>17, <1>19 DEF InOrder

\* No other step begins a handler.
LEMMA OrderStep ==
    ASSUME LoopInv, [Next]_vars, NEW t \in Thread, frames[t] # <<>>, frames'[t] # <<>>
    PROVE  InOrder(t, Last(frames'[t]).message)
<1>1. frames \in [Thread -> Seq(Frame)] /\ frames[t] \in Seq(Frame) /\ list[t] \in Seq(Entry)
  BY DEF LoopInv, Shape
<1>2. ASSUME NEW n \in 1 .. Len(frames[t]) PROVE InOrder(t, frames[t][n].message)
  BY DEF InOrder, Handling
<1>3. CASE frames'[t] = frames[t]
  <2>1. Len(frames[t]) \in 1 .. Len(frames[t]) /\ Last(frames[t]) = frames[t][Len(frames[t])]
    BY <1>1, LastFrame
  <2>2. QED
    BY <1>2, <1>3, <2>1
<1>4. CASE DispatchMessage(t)
  BY <1>4, DispatchInOrder
<1>5. CASE DispatchReturn(t) \/ NestedPoll(t)
  <2>1. PICK fs \in Seq(Frame) : fs = frames[t]
    BY <1>1
  <2>2. PICK hs : hs = Front(fs)
    OBVIOUS
  <2>3. Last(fs).message = NoMessage /\ frames'[t] = hs
    <3>1. Last(fs).type = "Poll" => ~InHandler(t)
      BY <2>1, HandlerFields
    <3>2. QED
      BY <1>1, <1>5, <2>1, <2>2, <3>1 DEF DispatchReturn, NestedPoll, InHandler
  <2>4. fs # <<>> /\ fs[Len(fs)].message = NoMessage /\ Len(fs) \in Nat
    BY <2>1, <2>3, LastFrame
  <2>5. hs \in Seq(Frame) /\ Len(hs) = Len(fs) - 1 /\ \A n \in 1 .. Len(fs) - 1 : hs[n] = fs[n]
    BY <1>1, <2>2, <2>4, FrontSound
  <2>6. Len(hs) \in 1 .. Len(hs) /\ Last(hs) = hs[Len(hs)]
    BY <2>3, <2>5, LastFrame
  <2>7. Len(hs) \in 1 .. Len(fs) - 1 /\ Len(hs) \in 1 .. Len(fs)
    BY <2>4, <2>5, <2>6
  <2>8. Last(hs) = fs[Len(hs)]
    BY <2>5, <2>6, <2>7
  <2>9. QED
    BY <1>2, <2>1, <2>3, <2>7, <2>8
<1>6. CASE InHandler(t) /\ Return(t)
  <2>1. Len(frames'[t]) = Len(frames[t]) /\ frames'[t][Len(frames[t])].message = NoMessage
    BY <1>6, ReturnEffect
  <2>2. Last(frames'[t]).message = NoMessage
    BY <2>1 DEF Last
  <2>3. QED
    BY <2>2 DEF InOrder
<1>7. CASE MethodDispatches(t) \/ MethodProcessesEvents(t)
  <2>1. PICK c : /\ frames' = [frames EXCEPT ![t] = Append(@, c)]
                 /\ \/ c = Call("InvokeMessage", Last(frames[t]).message.receiver)
                    \/ c = Call("None", AnyObject)
    BY <1>7 DEF MethodDispatches, MethodProcessesEvents
  <2>2. frames'[t] = Append(frames[t], c)
    BY <1>1, <2>1
  <2>3. c.message = NoMessage
    BY <2>1 DEF Call
  <2>4. Last(frames'[t]) = c
    BY <1>1, <2>2 DEF Last
  <2>5. QED
    BY <2>3, <2>4 DEF InOrder
<1>8. CASE LoopCheck(t)
  BY <1>8 DEF LoopCheck, LoopInv, Awake
<1>8b. CASE DispatchThenPoll(t)
  <2>1. PICK fs \in Seq(Frame) : fs = frames[t]
    BY <1>1
  <2>2. fs # <<>> /\ Last(fs).message = NoMessage
    BY <1>8b, <2>1 DEF DispatchThenPoll, InHandler
  <2>3. Len(fs) \in 1 .. Len(fs) /\ Last(fs) = fs[Len(fs)] /\ Last(fs) \in Frame
    BY <2>2, LastFrame
  <2>4. PICK g : g = [fs[Len(fs)] EXCEPT !.type = "Poll"]
    OBVIOUS
  <2>5. g.message = NoMessage /\ g \in Frame
    BY <2>2, <2>3, <2>4 DEF Frame
  <2>6. frames'[t] = [fs EXCEPT ![Len(fs)] = g]
    BY <1>1, <1>8b, <2>1, <2>4 DEF DispatchThenPoll
  <2>7. Last(frames'[t]) = g
    BY <2>2, <2>5, <2>6, ReplaceEffect DEF Replaced, Last
  <2>8. QED
    BY <2>5, <2>7 DEF InOrder
<1>9. ASSUME NEW u \in Thread, u # t, Method(u) \/ Loop(u) PROVE frames'[t] = frames[t]
  BY <1>1, <1>9 DEF Method, Loop, InvokeReturn, DeferredDelete, Return, MethodDispatches, MethodProcessesEvents,
     MethodPosts, MethodDeletes, MethodMoves, Exec, LoopCheck, DispatchMessage, DispatchReturn, Poll, loopVars,
     DispatchThenPoll, NestedPoll
<1>10. ASSUME NEW u \in Thread, Controller(u) PROVE frames' = frames
  BY <1>10 DEF Controller, Start, Exit, ExitInterrupt, Wait, loopVars
<1>11. ASSUME Posting PROVE frames' = frames
  BY <1>11 DEF Posting, PostMessage, PostMessageInterrupt, SemaphoreAcquire, loopVars
<1>12. ASSUME Exec(t) \/ Poll(t) \/ \E o \in Object : MethodPosts(t, o) \/ MethodDeletes(t, o)
                                                \/ \E u \in Thread : MethodMoves(t, o, u)
       PROVE  frames' = frames
  BY <1>12 DEF Exec, Poll, MethodPosts, MethodDeletes, MethodMoves, loopVars
<1>13. ASSUME UNCHANGED vars PROVE frames' = frames
  BY <1>13 DEF vars, loopVars
<1>14. InvokeReturn(t) \/ DeferredDelete(t) => InHandler(t) /\ Return(t)
  BY DEF InvokeReturn, DeferredDelete
<1>15. Method(t) \/ Loop(t) => InOrder(t, Last(frames'[t]).message)
  BY <1>3, <1>4, <1>5, <1>6, <1>7, <1>8, <1>8b, <1>12, <1>14 DEF Method, Loop
<1>16. QED
  BY <1>3, <1>9, <1>10, <1>11, <1>13, <1>15 DEF Next

\* dispatchMessages() delivers the messages of an object in the order they were posted, nested
\* calls and moveToThread() included, but for the deletions that finishThread() puts first.
THEOREM MessagesDeliveredInOrder == Spec => DeliveredInOrder
<1>1. LoopInv /\ [Next]_vars =>
          [\A t \in Thread : frames[t] # <<>> /\ frames'[t] # <<>> =>
              LET m == Last(frames'[t]).message
              IN  m # NoMessage /\ m \notin Handling(t) =>
                      \A i \in For(list[t], m.receiver) : m.type = list[t][i].type => m.id <= list[t][i].id]_vars
  BY OrderStep DEF InOrder
<1>2. QED
  BY <1>1, LoopInit, LoopInvariant, PTL DEF Spec, DeliveredInOrder
=============================================================================
