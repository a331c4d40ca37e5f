---------------------------- MODULE EventStream_proofs ----------------------------
(***************************************************************************)
(* Proofs about EventStream for any clients, buffer and queue sizes, and   *)
(* any number of events, connections and restarts: the numbers the bus     *)
(* gives and what reaches a client across reconnections.                   *)
(***************************************************************************)
EXTENDS EventStream, SequenceTheorems, FiniteSetTheorems, TLAPS

--------------------------------------------------------------------------------
(* The numbers of the bus *)

\* The counter of the bus is not behind any number in its buffer: that, and not
\* NumbersAreFresh by itself, is what a publish relies on.
NumberInv ==
  /\ published \in Nat
  /\ sequence \in Nat
  /\ buffer \in Seq([id : Nat, seq : Nat, own : BOOLEAN])
  /\ \A i \in 1 .. Len(buffer) : buffer[i].seq <= sequence
  /\ NumbersAreFresh

\* Whatever is added at the end of the buffer, what it held before is still in
\* the same order, perhaps one place earlier.
LEMMA RememberKeepsOrder ==
  ASSUME NEW E, NEW e \in E, buffer \in Seq(E)
  PROVE  /\ Remember(e) \in Seq(E)
         /\ \E d \in {0, 1} :
              /\ Len(Remember(e)) <= Len(buffer) + 1 - d
              /\ \A i \in 1 .. Len(Remember(e)) :
                   \/ Remember(e)[i] = e /\ i = Len(Remember(e))
                   \/ i + d \in 1 .. Len(buffer) /\ Remember(e)[i] = buffer[i + d]
<1>1. CASE BufferSize = 0
  BY <1>1, StreamAssumption DEF Remember
<1>2. CASE BufferSize # 0 /\ Len(buffer) < BufferSize
  BY <1>2, StreamAssumption DEF Remember
<1>3. CASE BufferSize # 0 /\ ~(Len(buffer) < BufferSize)
  <2>1. buffer # <<>> /\ Tail(buffer) \in Seq(E) /\ Len(Tail(buffer)) = Len(buffer) - 1
    BY <1>3, StreamAssumption
  <2>2. \A i \in 1 .. Len(Tail(buffer)) : Tail(buffer)[i] = buffer[i + 1]
    BY <2>1
  <2>3. Remember(e) = Append(Tail(buffer), e)
    BY <1>3 DEF Remember
  <2>4. Len(Remember(e)) = Len(buffer) /\ Remember(e) \in Seq(E)
    BY <2>1, <2>3
  <2>5. \A i \in 1 .. Len(Remember(e)) :
          \/ Remember(e)[i] = e /\ i = Len(Remember(e))
          \/ i + 1 \in 1 .. Len(buffer) /\ Remember(e)[i] = buffer[i + 1]
    <3>1. \A i \in 1 .. Len(Tail(buffer)) : Remember(e)[i] = Tail(buffer)[i]
      BY <2>1, <2>3
    <3>2. Remember(e)[Len(buffer)] = e
      BY <2>1, <2>3
    <3>3. SUFFICES ASSUME NEW i \in 1 .. Len(Remember(e)), i # Len(Remember(e))
                   PROVE  i + 1 \in 1 .. Len(buffer) /\ Remember(e)[i] = buffer[i + 1]
      BY <2>4, <3>2
    <3>4. i \in 1 .. Len(Tail(buffer)) /\ i + 1 \in 1 .. Len(buffer)
      <4>1. Len(buffer) \in Nat
        OBVIOUS
      <4>2. i \in 1 .. Len(buffer) /\ i # Len(buffer)
        BY <2>4, <3>3
      <4>3. i \in Nat /\ 1 <= i /\ i <= Len(buffer) - 1
        BY <4>1, <4>2
      <4>4. Len(Tail(buffer)) = Len(buffer) - 1
        BY <2>1
      <4>5. i \in 1 .. Len(buffer) - 1 /\ i + 1 \in 1 .. Len(buffer)
        BY <4>1, <4>3
      <4>6. QED
        BY <4>4, <4>5
    <3>5. QED
      BY <2>1, <2>2, <3>1, <3>4
  <2>6. QED
    BY <2>4, <2>5
<1>4. QED
  BY <1>1, <1>2, <1>3

\* A number in the buffer is a number, and behind the counter.
LEMMA Held ==
  ASSUME NumberInv, NEW k \in 1 .. Len(buffer)
  PROVE  buffer[k].seq <= sequence /\ buffer[k].seq \in Nat
<1>1. buffer[k] \in [id : Nat, seq : Nat, own : BOOLEAN]
  BY ElementOfSeq DEF NumberInv
<1>2. QED
  BY <1>1 DEF NumberInv

\* Publishing keeps the counter ahead, with a number of its own or one that the
\* event brought.
LEMMA PublishNumbers ==
  ASSUME NumberInv, NEW n \in Nat, NEW own \in BOOLEAN,
         own \/ n > sequence, PublishNumbered(n, own)
  PROVE  NumberInv'
<1> DEFINE e == [id |-> published + 1, seq |-> n, own |-> own]
<1>1. /\ e \in [id : Nat, seq : Nat, own : BOOLEAN]
      /\ e.seq = n /\ e.own = own
  BY DEF NumberInv
<1>2. /\ published' = published + 1
      /\ sequence' = AtLeast(sequence, n)
      /\ buffer' = Remember(e)
  BY DEF PublishNumbered, AfterNumber
<1>3. sequence' \in Nat /\ sequence <= sequence' /\ n <= sequence'
  BY <1>2 DEF NumberInv, AtLeast
<1> HIDE DEF e
<1>4. buffer' \in Seq([id : Nat, seq : Nat, own : BOOLEAN])
  BY <1>1, <1>2, RememberKeepsOrder DEF NumberInv
<1>5. PICK d \in {0, 1} :
        /\ Len(buffer') <= Len(buffer) + 1 - d
        /\ \A i \in 1 .. Len(buffer') :
             \/ buffer'[i] = e /\ i = Len(buffer')
             \/ i + d \in 1 .. Len(buffer) /\ buffer'[i] = buffer[i + d]
  BY <1>1, <1>2, RememberKeepsOrder DEF NumberInv
<1>6. \A i \in 1 .. Len(buffer') : buffer'[i].seq <= sequence'
  <2> SUFFICES ASSUME NEW i \in 1 .. Len(buffer') PROVE buffer'[i].seq <= sequence'
    OBVIOUS
  <2>1. CASE buffer'[i] = e
    BY <2>1, <1>1, <1>3
  <2>2. CASE i + d \in 1 .. Len(buffer) /\ buffer'[i] = buffer[i + d]
    <3>1. buffer[i + d].seq <= sequence /\ buffer[i + d].seq \in Nat
      BY <2>2, Held
    <3>2. QED
      BY <3>1, <2>2, <1>3 DEF NumberInv
  <2>3. QED
    BY <2>1, <2>2, <1>5
<1>7. ASSUME NEW i \in 1 .. Len(buffer'), NEW j \in 1 .. Len(buffer'),
             i < j, ~buffer'[j].own
      PROVE  buffer'[i].seq < buffer'[j].seq
  <2>1. i + d \in 1 .. Len(buffer) /\ buffer'[i] = buffer[i + d]
    BY <1>4, <1>5, <1>7
  <2>2. CASE buffer'[j] = e
    <3>1. n > sequence
      BY <2>2, <1>1, <1>7
    <3>2. buffer[i + d].seq <= sequence /\ buffer[i + d].seq \in Nat
      BY <2>1, Held
    <3>3. QED
      BY <3>1, <3>2, <2>1, <2>2, <1>1 DEF NumberInv
  <2>3. CASE j + d \in 1 .. Len(buffer) /\ buffer'[j] = buffer[j + d]
    <3>1. i + d < j + d
      BY <1>7
    <3>2. QED
      BY <3>1, <2>1, <2>3, <1>7 DEF NumberInv, NumbersAreFresh
  <2>4. QED
    BY <2>2, <2>3, <1>5
<1>8. QED
  BY <1>2, <1>3, <1>4, <1>6, <1>7 DEF NumberInv, NumbersAreFresh

\* Nothing but a publish and a restart touches the bus.
LEMMA StepNumbers == ASSUME NumberInv, [Next]_vars PROVE NumberInv'
<1>1. CASE Publish
  <2>1. CASE PublishNumbered(sequence + 1, FALSE)
    <3>1. sequence + 1 \in Nat /\ sequence + 1 > sequence
      BY DEF NumberInv
    <3>2. QED
      BY <2>1, <3>1, PublishNumbers
  <2>2. ASSUME NEW n \in Supplied, PublishNumbered(n, TRUE) PROVE NumberInv'
    BY <2>2, PublishNumbers, StreamAssumption
  <2>3. QED
    BY <1>1, <2>1, <2>2 DEF Publish
<1>2. CASE Restart
  BY <1>2 DEF Restart, NumberInv, NumbersAreFresh
<1>3. CASE UNCHANGED busVars
  BY <1>3 DEF busVars, NumberInv, NumbersAreFresh
<1>4. ASSUME NEW c \in Client, Subscribe(c) PROVE UNCHANGED busVars
  BY <1>4 DEF Subscribe
<1>5. ASSUME NEW st \in Stream, StreamStep(st) \/ NeverBegins(st) \/ Disconnect(st)
      PROVE  UNCHANGED busVars
  BY <1>5 DEF StreamStep, SendConnected, SendBacklog, SendLive, EndStream,
     NeverBegins, Disconnect
<1>6. QED
  BY <1>1, <1>2, <1>3, <1>4, <1>5 DEF Next, vars, busVars

\* NumbersAreFresh of EventStream: a number the bus gives (core/events.py:38-46)
\* is larger than every number before it in the replay buffer, whatever numbers
\* publishers supplied, for any buffer size, also after restarts.
THEOREM NumbersStayFresh == Spec => []NumbersAreFresh
<1>1. Init => NumberInv
  BY DEF Init, NumberInv, NumbersAreFresh
<1>2. NumberInv /\ [Next]_vars => NumberInv'
  BY StepNumbers
<1>3. NumberInv => NumbersAreFresh
  BY DEF NumberInv
<1>4. QED
  BY <1>1, <1>2, <1>3, PTL DEF Spec

--------------------------------------------------------------------------------
(* What reaches a client *)

\* The parts of the name of a stream.
LEMMA StreamParts ==
  ASSUME NEW st \in Stream
  PROVE  st[1] \in Client /\ st[2] \in Nat /\ st[2] >= 1 /\ st = <<st[1], st[2]>>
BY StreamAssumption DEF Stream

\* The items of a list from place k + 1 on.
LEMMA ItemsFrom ==
  ASSUME NEW s, NEW n \in Nat, NEW k \in 0 .. n
  PROVE  ItemsAt(s, k + 1 .. n) = [m \in 1 .. n - k |-> s[k + m]]
<1> DEFINE K == k + 1 .. n
<1>1. \A a, b \in Int : Cardinality(a .. b) = IF a > b THEN 0 ELSE b - a + 1
  BY FS_Interval
<1>2. Cardinality(K) = n - k
  <2>1. k + 1 \in Int /\ n \in Int
    OBVIOUS
  <2>2. Cardinality(K) = IF k + 1 > n THEN 0 ELSE n - (k + 1) + 1
    BY <1>1, <2>1
  <2>3. QED
    BY <2>2
<1>3. ASSUME NEW i \in K
      PROVE  Cardinality({j \in K : j < i}) = i - 1 - k
  <2>1. {j \in K : j < i} = k + 1 .. i - 1
    OBVIOUS
  <2>2. k + 1 \in Int /\ i - 1 \in Int /\ k + 1 <= i
    OBVIOUS
  <2>3. Cardinality(k + 1 .. i - 1) = IF k + 1 > i - 1 THEN 0 ELSE i - 1 - (k + 1) + 1
    BY <1>1, <2>2
  <2>4. (IF k + 1 > i - 1 THEN 0 ELSE i - 1 - (k + 1) + 1) = i - 1 - k
    BY <2>2
  <2>5. Cardinality({j \in K : j < i}) = Cardinality(k + 1 .. i - 1)
    BY <2>1
  <2>6. QED
    BY <2>3, <2>4, <2>5
<1>4. ASSUME NEW m \in 1 .. n - k
      PROVE  (CHOOSE i \in K : Cardinality({j \in K : j < i}) = m - 1) = k + m
  <2>1. k + m \in K /\ k + m - 1 - k = m - 1
    OBVIOUS
  <2>2. Cardinality({j \in K : j < k + m}) = m - 1
    BY <1>3, <2>1
  <2>3. ASSUME NEW i \in K, Cardinality({j \in K : j < i}) = m - 1 PROVE i = k + m
    <3>1. i - 1 - k = m - 1
      BY <1>3, <2>3
    <3>2. QED
      BY <3>1
  <2> DEFINE at(i) == Cardinality({j \in K : j < i}) = m - 1
  <2>4. \A i \in K : at(i) <=> i = k + m
    BY <2>1, <2>2, <2>3
  <2> HIDE DEF K, at
  <2>5. (CHOOSE i \in K : at(i)) = k + m
    BY <2>1, <2>4
  <2>6. QED
    BY <2>5 DEF at
<1>5. ItemsAt(s, K) = [m \in 1 .. Cardinality(K) |->
        s[CHOOSE i \in K : Cardinality({j \in K : j < i}) = m - 1]]
  BY DEF ItemsAt
<1> HIDE DEF K
<1>6. ItemsAt(s, K) = [m \in 1 .. n - k |-> s[k + m]]
  BY <1>2, <1>4, <1>5
<1>7. QED
  BY <1>6 DEF K

Item == [id : Nat, seq : Nat, own : BOOLEAN]

\* The event a server that numbers all of its events publishes as its i-th.
Numbered(i) == [id |-> i, seq |-> i, own |-> FALSE]

\* A list of such events, the oldest first, none later than the n-th.
InOrder(L, n) ==
  /\ L \in Seq(Item)
  /\ \A k \in 1 .. Len(L) : L[k] = Numbered(L[k].id) /\ L[k].id \in 1 .. n
  /\ \A j, k \in 1 .. Len(L) : j < k => L[j].id < L[k].id

\* Ids r that a client received: in order, and with nothing missing between the first
\* and the last of them but what is in M.
Straight(r, M, n) ==
  /\ r \in Seq(Nat)
  /\ \A k \in 1 .. Len(r) : r[k] \in 1 .. n
  /\ \A j, k \in 1 .. Len(r) : j < k => r[j] < r[k]
  /\ \A id \in Nat : (\E k \in 1 .. Len(r) : r[k] < id) /\ id <= r[Len(r)] =>
       id \in M \/ \E k \in 1 .. Len(r) : r[k] = id

\* Everything published after the first event that the client received, or is about
\* to, has reached it, is on its way in L, or is in M.
Covered(r, L, M, n) ==
  \A id \in 1 .. n :
    (\E k \in 1 .. Len(r) : r[k] < id) \/ (\E k \in 1 .. Len(L) : L[k].id < id) =>
      \/ id \in M
      \/ \E k \in 1 .. Len(r) : r[k] = id
      \/ \E k \in 1 .. Len(L) : L[k].id = id

\* L continues what the client received.
Flow(r, L, M, n) ==
  /\ InOrder(L, n)
  /\ r # <<>> => \A k \in 1 .. Len(L) : r[Len(r)] < L[k].id
  /\ Covered(r, L, M, n)

\* The first event of L is received.
LEMMA FlowMoves ==
  ASSUME NEW n \in Nat, NEW M, NEW r, NEW L,
         Straight(r, M, n), Flow(r, L, M, n), L # <<>>
  PROVE  /\ Head(L).seq = Head(L).id /\ Head(L).id \in Nat
         /\ Straight(Append(r, Head(L).id), M, n)
         /\ Flow(Append(r, Head(L).id), Tail(L), M, n)
<1> DEFINE h == Head(L).id
<1> DEFINE r2 == Append(r, h)
<1> DEFINE T == Tail(L)
<1>1. L \in Seq(Item) /\ Len(L) \in Nat /\ Len(L) >= 1 /\ Head(L) = L[1]
  BY DEF Flow, InOrder
<1>2. h = L[1].id /\ L[1] = Numbered(h) /\ h \in 1 .. n /\ h \in Nat
  BY <1>1 DEF Flow, InOrder
<1>3. Head(L).seq = h
  BY <1>1, <1>2 DEF Numbered
<1>4. /\ T \in Seq(Item) /\ Len(T) = Len(L) - 1
      /\ \A k \in 1 .. Len(T) : T[k] = L[k + 1] /\ k + 1 \in 1 .. Len(L)
  BY <1>1
<1>5. /\ r \in Seq(Nat) /\ Len(r) \in Nat
      /\ r2 \in Seq(Nat) /\ Len(r2) = Len(r) + 1 /\ r2[Len(r) + 1] = h
      /\ \A k \in 1 .. Len(r) : r2[k] = r[k]
  BY <1>2 DEF Straight
<1>6. \A k \in 1 .. Len(r) : r[k] < h
  <2> SUFFICES ASSUME NEW k \in 1 .. Len(r) PROVE r[k] < h
    OBVIOUS
  <2>1. r # <<>> /\ r[Len(r)] < h
    BY <1>1, <1>2, <1>5 DEF Flow
  <2>2. k = Len(r) \/ r[k] < r[Len(r)]
    BY <1>5 DEF Straight
  <2>3. r[k] \in Nat /\ r[Len(r)] \in Nat
    BY <1>5
  <2>4. QED
    BY <1>2, <2>1, <2>2, <2>3
<1>7. \A k \in 1 .. Len(L) : L[k].id \in Nat /\ (k > 1 => h < L[k].id)
  BY <1>1, <1>2 DEF Flow, InOrder
<1>8. InOrder(T, n)
  BY <1>1, <1>4 DEF Flow, InOrder
<1>9. \A k \in 1 .. Len(T) : r2[Len(r2)] < T[k].id
  BY <1>4, <1>5, <1>7
<1>a. /\ Len(r) + 1 \in 1 .. Len(r2)
      /\ \A k \in 1 .. Len(r) : k \in 1 .. Len(r2)
      /\ \A k \in 1 .. Len(r2) : k \in 1 .. Len(r) \/ k = Len(r) + 1
  BY <1>5
<1>b. \A k \in 1 .. Len(r) : r[k] \in Nat
  BY <1>5
<1> HIDE DEF h, r2, T
<1>10. ASSUME NEW id \in 1 .. n,
              \/ id \in M
              \/ \E k \in 1 .. Len(r) : r[k] = id
              \/ \E k \in 1 .. Len(L) : L[k].id = id
       PROVE  \/ id \in M
              \/ \E k \in 1 .. Len(r2) : r2[k] = id
              \/ \E k \in 1 .. Len(T) : T[k].id = id
  <2>1. ASSUME NEW k \in 1 .. Len(r), r[k] = id PROVE \E j \in 1 .. Len(r2) : r2[j] = id
    BY <1>5, <1>a, <2>1
  <2>2. ASSUME NEW k \in 1 .. Len(L), L[k].id = id
        PROVE  \/ \E j \in 1 .. Len(r2) : r2[j] = id
               \/ \E j \in 1 .. Len(T) : T[j].id = id
    <3>1. CASE k = 1
      <4>1. r2[Len(r) + 1] = id
        BY <1>2, <1>5, <2>2, <3>1
      <4>2. QED
        BY <1>a, <4>1
    <3>2. CASE k # 1
      <4>1. k - 1 \in 1 .. Len(T) /\ T[k - 1] = L[k]
        BY <1>1, <1>4, <3>2
      <4>2. QED
        BY <2>2, <4>1
    <3>3. QED
      BY <3>1, <3>2
  <2>3. QED
    BY <1>10, <2>1, <2>2
<1>11. ASSUME NEW id \in 1 .. n,
              (\E k \in 1 .. Len(r2) : r2[k] < id) \/ (\E k \in 1 .. Len(T) : T[k].id < id)
       PROVE  (\E k \in 1 .. Len(r) : r[k] < id) \/ (\E k \in 1 .. Len(L) : L[k].id < id)
  <2>1. ASSUME NEW k \in 1 .. Len(r2), r2[k] < id
        PROVE  (\E j \in 1 .. Len(r) : r[j] < id) \/ L[1].id < id
    <3>1. CASE k \in 1 .. Len(r)
      BY <1>5, <2>1, <3>1
    <3>2. CASE k = Len(r) + 1
      BY <1>2, <1>5, <2>1, <3>2
    <3>3. QED
      BY <1>a, <3>1, <3>2
  <2>2. 1 \in 1 .. Len(L)
    BY <1>1
  <2>3. ASSUME NEW k \in 1 .. Len(T), T[k].id < id PROVE \E j \in 1 .. Len(L) : L[j].id < id
    BY <1>4, <2>3
  <2>4. QED
    BY <1>11, <2>1, <2>2, <2>3
<1>12. Covered(r2, T, M, n)
  <2>1. ASSUME NEW id \in 1 .. n,
               (\E k \in 1 .. Len(r2) : r2[k] < id) \/ (\E k \in 1 .. Len(T) : T[k].id < id)
        PROVE  \/ id \in M
               \/ \E k \in 1 .. Len(r2) : r2[k] = id
               \/ \E k \in 1 .. Len(T) : T[k].id = id
    <3>1. (\E k \in 1 .. Len(r) : r[k] < id) \/ (\E k \in 1 .. Len(L) : L[k].id < id)
      BY <1>11, <2>1
    <3>2. \/ id \in M
          \/ \E k \in 1 .. Len(r) : r[k] = id
          \/ \E k \in 1 .. Len(L) : L[k].id = id
      BY <3>1 DEF Flow, Covered
    <3>3. QED
      BY <1>10, <3>2
  <2>2. QED
    BY <2>1 DEF Covered
<1>13. \A k \in 1 .. Len(r2) : r2[k] \in 1 .. n
  BY <1>2, <1>5, <1>a DEF Straight
<1>14. \A j, k \in 1 .. Len(r2) : j < k => r2[j] < r2[k]
  <2> SUFFICES ASSUME NEW j \in 1 .. Len(r2), NEW k \in 1 .. Len(r2), j < k
               PROVE  r2[j] < r2[k]
    OBVIOUS
  <2>1. j \in 1 .. Len(r)
    BY <1>5, <1>a
  <2>2. CASE k \in 1 .. Len(r)
    BY <1>5, <2>1, <2>2 DEF Straight
  <2>3. CASE k = Len(r) + 1
    BY <1>5, <1>6, <2>1, <2>3
  <2>4. QED
    BY <1>a, <2>2, <2>3
<1>15. ASSUME NEW id \in Nat, NEW k \in 1 .. Len(r2), r2[k] < id, id <= h
       PROVE  id \in M \/ \E j \in 1 .. Len(r2) : r2[j] = id
  <2>1. id \in 1 .. n
    BY <1>2, <1>13, <1>15
  <2>2. \/ id \in M
        \/ \E j \in 1 .. Len(r2) : r2[j] = id
        \/ \E j \in 1 .. Len(T) : T[j].id = id
    BY <1>12, <1>15, <2>1 DEF Covered
  <2>3. ASSUME NEW j \in 1 .. Len(T), T[j].id = id PROVE FALSE
    <3>1. T[j].id > h
      <4>1. T[j] = L[j + 1] /\ j + 1 \in 1 .. Len(L) /\ j + 1 > 1
        BY <1>4
      <4>2. QED
        BY <1>2, <1>7, <4>1
    <3>2. QED
      BY <1>2, <1>15, <2>3, <3>1
  <2>4. QED
    BY <2>2, <2>3
<1>16. Straight(r2, M, n)
  <2>1. r2[Len(r2)] = h
    BY <1>5
  <2>2. QED
    BY <1>5, <1>13, <1>14, <1>15, <2>1 DEF Straight
<1>17. Flow(r2, T, M, n)
  BY <1>8, <1>9, <1>12 DEF Flow
<1>18. QED
  BY <1>2, <1>3, <1>16, <1>17 DEF h, r2, T

\* More is excused and more is published: what was received stays straight.
LEMMA StraightGrows ==
  ASSUME NEW n \in Nat, NEW n2 \in Nat, n <= n2, NEW M, NEW M2, M \subseteq M2,
         NEW r, Straight(r, M, n)
  PROVE  Straight(r, M2, n2)
<1>1. \A k \in 1 .. Len(r) : r[k] \in 1 .. n2
  BY DEF Straight
<1>2. QED
  BY <1>1 DEF Straight

\* An event that does not get into the line is excused.
LEMMA FlowSkips ==
  ASSUME NEW n \in Nat, NEW M, NEW M2, M \subseteq M2, n + 1 \in M2,
         NEW r, NEW L, Flow(r, L, M, n)
  PROVE  Flow(r, L, M2, n + 1)
<1>1. InOrder(L, n + 1)
  <2>1. \A k \in 1 .. Len(L) : L[k].id \in 1 .. n + 1
    BY DEF Flow, InOrder
  <2>2. QED
    BY <2>1 DEF Flow, InOrder
<1>2. Covered(r, L, M2, n + 1)
  <2>1. \A id \in 1 .. n + 1 : id \in 1 .. n \/ id = n + 1
    OBVIOUS
  <2>2. QED
    BY <2>1 DEF Flow, Covered
<1>3. QED
  BY <1>1, <1>2 DEF Flow

\* The event published next gets to the end of the line.
LEMMA FlowGrows ==
  ASSUME NEW n \in Nat, NEW M, NEW M2, M \subseteq M2,
         NEW r, NEW L, Straight(r, M, n), Flow(r, L, M, n)
  PROVE  Flow(r, Append(L, Numbered(n + 1)), M2, n + 1)
<1> DEFINE e == Numbered(n + 1)
<1> DEFINE T == Append(L, e)
<1>1. e \in Item /\ e.id = n + 1
  BY DEF Numbered, Item
<1>2. /\ L \in Seq(Item) /\ Len(L) \in Nat
      /\ \A k \in 1 .. Len(L) : L[k] = Numbered(L[k].id) /\ L[k].id \in 1 .. n
  BY DEF Flow, InOrder
<1> HIDE DEF e
<1>3. /\ T \in Seq(Item) /\ Len(T) = Len(L) + 1 /\ T[Len(L) + 1] = e
      /\ \A k \in 1 .. Len(L) : T[k] = L[k]
  BY <1>1, <1>2
<1> HIDE DEF T
<1>4. /\ Len(L) + 1 \in 1 .. Len(T)
      /\ \A k \in 1 .. Len(L) : k \in 1 .. Len(T)
      /\ \A k \in 1 .. Len(T) : k \in 1 .. Len(L) \/ k = Len(L) + 1
  BY <1>2, <1>3
<1>5. \A k \in 1 .. Len(L) : L[k].id < n + 1 /\ L[k].id \in 1 .. n + 1
  BY <1>2
<1>6. InOrder(T, n + 1)
  <2>1. \A k \in 1 .. Len(T) : T[k] = Numbered(T[k].id) /\ T[k].id \in 1 .. n + 1
    <3> SUFFICES ASSUME NEW k \in 1 .. Len(T)
                 PROVE  T[k] = Numbered(T[k].id) /\ T[k].id \in 1 .. n + 1
      OBVIOUS
    <3>1. CASE k \in 1 .. Len(L)
      BY <1>2, <1>3, <1>5, <3>1
    <3>2. CASE k = Len(L) + 1
      BY <1>1, <1>3, <3>2 DEF e
    <3>3. QED
      BY <1>4, <3>1, <3>2
  <2>2. ASSUME NEW j \in 1 .. Len(T), NEW k \in 1 .. Len(T), j < k
        PROVE  T[j].id < T[k].id
    <3>1. j \in 1 .. Len(L)
      BY <1>2, <1>3, <2>2
    <3>2. CASE k \in 1 .. Len(L)
      BY <1>3, <2>2, <3>1, <3>2 DEF Flow, InOrder
    <3>3. CASE k = Len(L) + 1
      BY <1>1, <1>3, <1>5, <3>1, <3>3
    <3>4. QED
      BY <1>4, <3>2, <3>3
  <2>3. QED
    BY <1>3, <2>1, <2>2 DEF InOrder
<1>7. ASSUME r # <<>>, NEW k \in 1 .. Len(T) PROVE r[Len(r)] < T[k].id
  <2>1. r[Len(r)] \in 1 .. n
    BY <1>7 DEF Straight
  <2>2. CASE k \in 1 .. Len(L)
    BY <1>3, <1>7, <2>2 DEF Flow
  <2>3. CASE k = Len(L) + 1
    BY <1>1, <1>3, <2>1, <2>3
  <2>4. QED
    BY <1>4, <2>2, <2>3
<1>8. ASSUME NEW id \in 1 .. n + 1,
             (\E k \in 1 .. Len(r) : r[k] < id) \/ (\E k \in 1 .. Len(T) : T[k].id < id)
      PROVE  \/ id \in M2
             \/ \E k \in 1 .. Len(r) : r[k] = id
             \/ \E k \in 1 .. Len(T) : T[k].id = id
  <2>1. CASE id = n + 1
    BY <1>1, <1>3, <1>4, <2>1
  <2>2. CASE id # n + 1
    <3>1. id \in 1 .. n
      BY <2>2
    <3>2. ASSUME NEW k \in 1 .. Len(T), T[k].id < id PROVE \E j \in 1 .. Len(L) : L[j].id < id
      <4>1. k # Len(L) + 1
        BY <1>1, <1>3, <3>1, <3>2
      <4>2. QED
        BY <1>3, <1>4, <3>2, <4>1
    <3>3. \/ id \in M
          \/ \E k \in 1 .. Len(r) : r[k] = id
          \/ \E k \in 1 .. Len(L) : L[k].id = id
      BY <1>8, <3>1, <3>2 DEF Flow, Covered
    <3>4. QED
      BY <1>3, <1>4, <3>3
  <2>3. QED
    BY <2>1, <2>2
<1>9. Covered(r, T, M2, n + 1)
  BY <1>8 DEF Covered
<1>10. QED
  BY <1>6, <1>7, <1>9 DEF Flow, T, e

\* A new line holds the latest events, and what lies between them and the last
\* event received is excused.
LEMMA FlowBegins ==
  ASSUME NEW n \in Nat, NEW k \in 0 .. n, NEW M, NEW r, Straight(r, M, n), r # <<>>,
         r[Len(r)] <= k, \A id \in 1 .. k : r[Len(r)] < id => id \in M
  PROVE  Flow(r, [m \in 1 .. n - k |-> Numbered(k + m)], M, n)
<1> DEFINE L == [m \in 1 .. n - k |-> Numbered(k + m)]
<1>1. \A m \in 1 .. n - k : Numbered(k + m) \in Item /\ Numbered(k + m).id = k + m
  BY DEF Numbered, Item
<1>2. L \in Seq(Item) /\ Len(L) = n - k
  BY <1>1
<1>3. \A m \in 1 .. Len(L) : L[m] = Numbered(k + m) /\ L[m].id = k + m
  BY <1>1, <1>2
<1>4. n - k \in Nat /\ r[Len(r)] \in Nat
  BY DEF Straight
<1> HIDE DEF L
<1>5. InOrder(L, n)
  BY <1>2, <1>3, <1>4 DEF InOrder
<1>6. \A m \in 1 .. Len(L) : r[Len(r)] < L[m].id
  BY <1>2, <1>3, <1>4
<1>7. ASSUME NEW id \in 1 .. n,
             (\E m \in 1 .. Len(r) : r[m] < id) \/ (\E m \in 1 .. Len(L) : L[m].id < id)
      PROVE  \/ id \in M
             \/ \E m \in 1 .. Len(r) : r[m] = id
             \/ \E m \in 1 .. Len(L) : L[m].id = id
  <2>1. CASE id > k
    <3>1. id - k \in 1 .. Len(L) /\ k + (id - k) = id
      BY <1>2, <2>1
    <3>2. QED
      BY <1>3, <3>1
  <2>2. CASE id <= k
    <3>1. CASE r[Len(r)] < id
      BY <2>2, <3>1
    <3>2. CASE id <= r[Len(r)]
      <4>1. \A m \in 1 .. Len(L) : ~(L[m].id < id)
        BY <1>2, <1>3, <2>2
      <4>2. \E m \in 1 .. Len(r) : r[m] < id
        BY <1>7, <4>1
      <4>3. QED
        BY <3>2, <4>2 DEF Straight
    <3>3. QED
      BY <1>4, <3>1, <3>2
  <2>3. QED
    BY <2>1, <2>2
<1>8. QED
  BY <1>5, <1>6, <1>7 DEF Flow, Covered, L

\* Before anything is received and with nothing under way, all is well.
LEMMA FlowOfNothing ==
  ASSUME NEW n \in Nat, NEW M PROVE Flow(<<>>, <<>>, M, n) /\ Straight(<<>>, M, n)
BY DEF Flow, InOrder, Covered, Straight

\* Between two neighbours of what was received there is nothing but what is excused.
LEMMA NoGap ==
  ASSUME NEW n \in Nat, NEW M, NEW r, Straight(r, M, n), NEW i \in 1 .. Len(r) - 1
  PROVE  r[i] < r[i + 1] /\ \A id \in (r[i] + 1) .. (r[i + 1] - 1) : id \in M
<1>1. Len(r) \in Nat /\ i \in 1 .. Len(r) /\ i + 1 \in 1 .. Len(r) /\ Len(r) \in 1 .. Len(r)
  BY DEF Straight
<1>2. /\ \A k \in 1 .. Len(r) : r[k] \in Nat
      /\ \A j, k \in 1 .. Len(r) : j < k => r[j] < r[k]
  BY DEF Straight
<1>3. r[i] < r[i + 1] /\ (i + 1 = Len(r) \/ r[i + 1] < r[Len(r)])
  BY <1>1, <1>2
<1>4. ASSUME NEW id \in (r[i] + 1) .. (r[i + 1] - 1) PROVE id \in M
  <2>1. /\ r[i] \in Nat /\ r[i + 1] \in Nat /\ r[Len(r)] \in Nat
    BY <1>1, <1>2
  <2>2. id \in Nat /\ r[i] < id /\ id < r[i + 1]
    BY <2>1
  <2>3. id <= r[Len(r)]
    BY <1>3, <2>1, <2>2
  <2>4. ASSUME NEW k \in 1 .. Len(r), r[k] = id PROVE FALSE
    <3>1. CASE k <= i
      <4>1. k = i \/ r[k] < r[i]
        BY <1>1, <1>2, <3>1
      <4>2. QED
        BY <2>1, <2>2, <2>4, <4>1
    <3>2. CASE k >= i + 1
      <4>1. k = i + 1 \/ r[i + 1] < r[k]
        BY <1>1, <1>2, <3>2
      <4>2. QED
        BY <2>1, <2>2, <2>4, <4>1
    <3>3. QED
      BY <1>1, <3>1, <3>2
  <2>5. QED
    BY <1>1, <2>2, <2>3, <2>4 DEF Straight
<1>5. QED
  BY <1>3, <1>4

\* The last BufferSize of n events, or all of them.
Latest(b, n) ==
  /\ b \in Seq(Item)
  /\ Len(b) = IF n < BufferSize THEN n ELSE BufferSize
  /\ \A i \in 1 .. Len(b) : b[i] = Numbered(n - Len(b) + i)

\* A bus that numbers everything itself, and its replay buffer.
BusInv ==
  /\ published \in Nat /\ sequence = published
  /\ Latest(buffer, published)

Excused(c) == dropped[c] \cup Evicted

\* What a stream has still to send.
Line(st) == backlog[st] \o queue[st]

Shape ==
  /\ restarts \in Nat /\ foreign \in BOOLEAN
  /\ connection \in [Client -> Nat]
  /\ open \in [Stream -> BOOLEAN]
  /\ DOMAIN queue = Stream /\ DOMAIN backlog = Stream
  /\ DOMAIN received = Client /\ DOMAIN lastId = Client /\ DOMAIN dropped = Client

\* Only the stream of a client's present connection can be open, and it is
\* subscribed; the queues of later connections are new.
FreshInv ==
  \A st \in Stream :
    /\ st[2] > connection[st[1]] => queue[st] = <<>> /\ st \notin subscribed
    /\ open[st] => st \in subscribed /\ st[2] = connection[st[1]]

\* Client c was given what it should have, and knows where it stands.
Reached(c) ==
  /\ Straight(received[c], Excused(c), published)
  /\ lastId[c] = IF received[c] = <<>> THEN NoId ELSE received[c][Len(received[c])]

\* Stream st will give its client what comes next.
OnItsWay(st) ==
  /\ backlog[st] \in Seq(Item) /\ queue[st] \in Seq(Item)
  /\ Flow(received[st[1]], Line(st), Excused(st[1]), published)

FlowInv ==
  /\ BusInv
  /\ \A c \in Client : Reached(c)
  /\ \A st \in Stream : open[st] => OnItsWay(st)

ReachInv == Shape /\ FreshInv /\ (ServerNumbered => FlowInv)

\* The first and the others of what a stream has to send.
LEMMA LineMoves ==
  ASSUME NEW b \in Seq(Item), NEW q \in Seq(Item)
  PROVE  /\ b \o q \in Seq(Item)
         /\ b # <<>> => /\ b \o q # <<>> /\ Head(b) = Head(b \o q)
                        /\ Tail(b) \in Seq(Item) /\ Tail(b) \o q = Tail(b \o q)
         /\ <<>> \o q = q
         /\ q # <<>> => Tail(q) \in Seq(Item)
         /\ \A e \in Item : Append(q, e) \in Seq(Item) /\ b \o Append(q, e) = Append(b \o q, e)
<1>1. b \o q \in Seq(Item) /\ <<>> \o q = q /\ (q # <<>> => Tail(q) \in Seq(Item))
  OBVIOUS
<1>2. ASSUME b # <<>>
      PROVE  /\ b \o q # <<>> /\ Head(b) = Head(b \o q)
             /\ Tail(b) \in Seq(Item) /\ Tail(b) \o q = Tail(b \o q)
  <2>1. Len(b) \in Nat /\ Len(b) >= 1 /\ Len(b \o q) = Len(b) + Len(q) /\ Len(q) \in Nat
    BY <1>2
  <2>2. b \o q # <<>> /\ Head(b) = Head(b \o q) /\ Tail(b) \in Seq(Item)
    BY <1>2, <2>1
  <2>3. Tail(b) \o q = Tail(b \o q)
    <3>1. /\ Tail(b) \o q \in Seq(Item) /\ Tail(b \o q) \in Seq(Item)
          /\ Len(Tail(b) \o q) = Len(b) + Len(q) - 1 /\ Len(Tail(b \o q)) = Len(b) + Len(q) - 1
      BY <1>1, <1>2, <2>1, <2>2
    <3>2. ASSUME NEW i \in 1 .. Len(b) + Len(q) - 1
          PROVE  (Tail(b) \o q)[i] = Tail(b \o q)[i]
      BY <1>1, <1>2, <2>1, <2>2
    <3>3. QED
      BY <3>1, <3>2, SeqEqual
  <2>4. QED
    BY <2>2, <2>3
<1>3. ASSUME NEW e \in Item
      PROVE  Append(q, e) \in Seq(Item) /\ b \o Append(q, e) = Append(b \o q, e)
  BY <1>1
<1>4. QED
  BY <1>1, <1>2, <1>3

\* One more event: the buffer holds the latest again.
LEMMA RememberLatest ==
  ASSUME BusInv
  PROVE  Latest(Remember(Numbered(published + 1)), published + 1)
<1> DEFINE e == Numbered(published + 1)
<1> DEFINE R == Remember(e)
<1> SUFFICES /\ R \in Seq(Item)
             /\ Len(R) = IF published + 1 < BufferSize THEN published + 1 ELSE BufferSize
             /\ \A i \in 1 .. Len(R) : R[i] = Numbered((published + 1) - Len(R) + i)
  BY DEF Latest
<1>0. /\ published \in Nat /\ BufferSize \in Nat /\ buffer \in Seq(Item) /\ e \in Item
      /\ Len(buffer) = IF published < BufferSize THEN published ELSE BufferSize
  BY StreamAssumption DEF BusInv, Latest, Numbered, Item
<1>1. CASE BufferSize = 0
  <2>1. R = buffer /\ Len(R) = 0
    BY <1>0, <1>1 DEF Remember
  <2>2. QED
    BY <1>0, <1>1, <2>1
<1>2. CASE BufferSize # 0 /\ Len(buffer) < BufferSize
  <2>1. R = Append(buffer, e) /\ Len(buffer) = published
    BY <1>0, <1>2 DEF Remember
  <2> HIDE DEF R, e
  <2>2. /\ Len(R) = published + 1 /\ R \in Seq(Item) /\ R[published + 1] = e
        /\ \A i \in 1 .. published : R[i] = buffer[i]
    BY <1>0, <2>1
  <2>3. ASSUME NEW i \in 1 .. published PROVE R[i] = Numbered(i)
    <3>1. R[i] = buffer[i] /\ buffer[i] = Numbered(published - Len(buffer) + i)
      BY <2>1, <2>2 DEF BusInv, Latest
    <3>2. published - Len(buffer) + i = i
      BY <1>0, <2>1
    <3>3. QED
      BY <3>1, <3>2
  <2>4. \A i \in 1 .. Len(R) : R[i] = Numbered(i)
    <3>1. \A i \in 1 .. Len(R) : i \in 1 .. published \/ i = published + 1
      BY <1>0, <2>2
    <3>2. QED
      BY <2>2, <2>3, <3>1 DEF e
  <2>5. \A i \in 1 .. Len(R) : (published + 1) - Len(R) + i = i
    BY <1>0, <2>2
  <2>6. Len(R) = IF published + 1 < BufferSize THEN published + 1 ELSE BufferSize
    BY <1>0, <1>2, <2>1, <2>2
  <2>7. \A i \in 1 .. Len(R) : R[i] = Numbered((published + 1) - Len(R) + i)
    BY <2>4, <2>5
  <2>8. QED
    BY <2>2, <2>6, <2>7
<1>3. CASE BufferSize # 0 /\ ~(Len(buffer) < BufferSize)
  <2>1. R = Append(Tail(buffer), e) /\ Len(buffer) = BufferSize /\ published >= BufferSize
    BY <1>0, <1>3 DEF Remember
  <2> DEFINE T == Tail(buffer)
  <2>2. /\ T \in Seq(Item) /\ Len(T) = BufferSize - 1
        /\ \A i \in 1 .. Len(T) : T[i] = buffer[i + 1] /\ i + 1 \in 1 .. Len(buffer)
    BY <1>0, <1>3, <2>1
  <2> HIDE DEF T, R, e
  <2>3. R = Append(T, e)
    BY <2>1 DEF T
  <2>4. /\ R \in Seq(Item) /\ Len(R) = BufferSize /\ R[BufferSize] = e
        /\ \A i \in 1 .. Len(T) : R[i] = T[i]
    BY <1>0, <2>2, <2>3
  <2>5. ASSUME NEW i \in 1 .. Len(R) PROVE R[i] = Numbered((published + 1) - Len(R) + i)
    <3>1. CASE i = BufferSize
      <4>1. (published + 1) - Len(R) + i = published + 1
        BY <1>0, <2>4, <3>1
      <4>2. QED
        BY <2>4, <3>1, <4>1 DEF e
    <3>2. CASE i # BufferSize
      <4>1. i \in 1 .. Len(T)
        BY <1>0, <2>2, <2>4, <3>2
      <4>2. R[i] = buffer[i + 1] /\ i + 1 \in 1 .. Len(buffer)
        BY <2>2, <2>4, <4>1
      <4>3. buffer[i + 1] = Numbered(published - Len(buffer) + (i + 1))
        BY <4>2 DEF BusInv, Latest
      <4>4. published - Len(buffer) + (i + 1) = (published + 1) - Len(R) + i
        <5>1. Len(buffer) = BufferSize /\ Len(R) = BufferSize
          BY <2>1, <2>4
        <5>2. i \in Nat
          BY <1>0, <2>4
        <5>3. published - BufferSize + (i + 1) = (published + 1) - BufferSize + i
          BY <1>0, <5>2
        <5>4. QED
          BY <5>1, <5>3
      <4>5. QED
        BY <4>2, <4>3, <4>4
    <3>3. QED
      BY <3>1, <3>2
  <2>6. Len(R) = IF published + 1 < BufferSize THEN published + 1 ELSE BufferSize
    BY <1>0, <2>1, <2>4
  <2>7. QED
    BY <2>4, <2>5, <2>6
<1>4. QED
  BY <1>1, <1>2, <1>3

\* What the buffer still holds is not yet evicted, and the rest is.
LEMMA HeldOrEvicted ==
  ASSUME BusInv
  PROVE  /\ \A i \in 1 .. Len(buffer) :
              /\ buffer[i].id = published - Len(buffer) + i
              /\ buffer[i].seq = published - Len(buffer) + i
              /\ published - Len(buffer) + i \notin Evicted
              /\ published - Len(buffer) + i \in 1 .. published
         /\ published - Len(buffer) \in 0 .. published /\ Len(buffer) \in Nat
         /\ \A id \in 1 .. published - Len(buffer) : id \in Evicted
<1>1. /\ published \in Nat /\ BufferSize \in Nat /\ Len(buffer) \in Nat
      /\ Len(buffer) = IF published < BufferSize THEN published ELSE BufferSize
  BY StreamAssumption DEF BusInv, Latest
<1>2. ASSUME NEW i \in 1 .. Len(buffer)
      PROVE  /\ buffer[i].id = published - Len(buffer) + i
             /\ buffer[i].seq = published - Len(buffer) + i
  <2>1. buffer[i] = Numbered(published - Len(buffer) + i)
    BY DEF BusInv, Latest
  <2>2. QED
    BY <2>1 DEF Numbered
<1>3. ASSUME NEW i \in 1 .. Len(buffer)
      PROVE  /\ published - Len(buffer) + i \notin Evicted
             /\ published - Len(buffer) + i \in 1 .. published
  BY <1>1 DEF Evicted
<1>4. published - Len(buffer) \in 0 .. published
  BY <1>1
<1>5. \A id \in 1 .. published - Len(buffer) : id \in Evicted
  BY <1>1 DEF Evicted
<1>6. QED
  BY <1>1, <1>2, <1>3, <1>4, <1>5

\* The replay after event id is everything later that the buffer holds.
LEMMA BacklogIsLater ==
  ASSUME BusInv, NEW id \in 1 .. published
  PROVE  \E k \in id .. published :
           /\ Backlog(id) = [m \in 1 .. published - k |-> Numbered(k + m)]
           /\ \A j \in 1 .. k : id < j => j \in Evicted
<1> DEFINE B == published - Len(buffer)
<1>1. /\ published \in Nat /\ B \in 0 .. published /\ Len(buffer) \in Nat
      /\ Len(buffer) = published - B
      /\ \A i \in 1 .. Len(buffer) :
           /\ buffer[i].seq = B + i /\ buffer[i] = Numbered(B + i)
      /\ \A j \in 1 .. B : j \in Evicted
  <2>1. published \in Nat /\ Len(buffer) \in Nat
    BY HeldOrEvicted DEF BusInv, Latest
  <2>2. Len(buffer) = published - B
    BY <2>1
  <2>3. \A i \in 1 .. Len(buffer) : buffer[i] = Numbered(B + i)
    BY DEF BusInv, Latest
  <2>4. QED
    BY <2>1, <2>2, <2>3, HeldOrEvicted
<1>2. id # NoId /\ id \in Nat
  BY <1>1, StreamAssumption
<1> HIDE DEF B
<1> DEFINE k == IF id < B THEN B ELSE id
<1>3. /\ k \in id .. published /\ k - B \in 0 .. Len(buffer) /\ Len(buffer) - (k - B) = published - k
      /\ \A i \in 1 .. Len(buffer) : B + i > id <=> i >= k - B + 1
      /\ \A m \in 1 .. published - k : k - B + m \in 1 .. Len(buffer) /\ B + (k - B + m) = k + m
      /\ \A j \in 1 .. k : id < j => j \in 1 .. B
  BY <1>1, <1>2
<1> HIDE DEF k
<1>4. {i \in 1 .. Len(buffer) : LaterThan(buffer[i], id)} = k - B + 1 .. Len(buffer)
  <2>1. {i \in 1 .. Len(buffer) : LaterThan(buffer[i], id)} = {i \in 1 .. Len(buffer) : B + i > id}
    BY <1>1 DEF LaterThan
  <2>2. {i \in 1 .. Len(buffer) : B + i > id} = {i \in 1 .. Len(buffer) : i >= k - B + 1}
    BY <1>3
  <2>3. {i \in 1 .. Len(buffer) : i >= k - B + 1} = k - B + 1 .. Len(buffer)
    <3>1. k - B \in Nat /\ Len(buffer) \in Nat
      BY <1>1, <1>3
    <3>2. QED
      BY <3>1
  <2>4. QED
    BY <2>1, <2>2, <2>3
<1>5. ItemsAt(buffer, k - B + 1 .. Len(buffer))
        = [m \in 1 .. Len(buffer) - (k - B) |-> buffer[k - B + m]]
  BY <1>1, <1>3, ItemsFrom
<1>6. Backlog(id) = [m \in 1 .. published - k |-> buffer[k - B + m]]
  BY <1>2, <1>3, <1>4, <1>5 DEF Backlog
<1>7. \A m \in 1 .. published - k : buffer[k - B + m] = Numbered(k + m)
  <2> SUFFICES ASSUME NEW m \in 1 .. published - k PROVE buffer[k - B + m] = Numbered(k + m)
    OBVIOUS
  <2>1. buffer[k - B + m] = Numbered(B + (k - B + m)) /\ B + (k - B + m) = k + m
    BY <1>1, <1>3
  <2>2. QED
    BY <2>1
<1>8. Backlog(id) = [m \in 1 .. published - k |-> Numbered(k + m)]
  BY <1>6, <1>7
<1>9. QED
  BY <1>1, <1>3, <1>8

\* Types that every step keeps, and numbering by the server is lost for good.
LEMMA ShapeKept ==
  ASSUME Shape, FreshInv, [Next]_vars PROVE Shape' /\ (ServerNumbered' => ServerNumbered)
<1> USE DEF Shape, ServerNumbered
<1>1. CASE Publish
  <2>1. PICK n \in Supplied \cup {sequence + 1}, own \in BOOLEAN : PublishNumbered(n, own)
    BY <1>1 DEF Publish
  <2>2. QED
    BY <2>1 DEF PublishNumbered
<1>2. ASSUME NEW c \in Client, Subscribe(c)
      PROVE  Shape' /\ (ServerNumbered' => ServerNumbered)
  <2>1. /\ connection' = [connection EXCEPT ![c] = @ + 1]
        /\ backlog' = [backlog EXCEPT ![<<c, connection[c] + 1>>] = Backlog(lastId[c])]
        /\ open' = [open EXCEPT ![<<c, connection[c] + 1>>] = TRUE]
        /\ UNCHANGED <<restarts, foreign, queue, received, lastId, dropped>>
    BY <1>2 DEF Subscribe, busVars
  <2>2. connection' \in [Client -> Nat]
    BY <2>1
  <2>3. open' \in [Stream -> BOOLEAN]
    BY <2>1
  <2>4. DOMAIN backlog' = Stream
    BY <2>1
  <2>5. QED
    BY <2>1, <2>2, <2>3, <2>4
<1>3. ASSUME NEW st \in Stream, SendConnected(st) \/ NeverBegins(st) \/ Disconnect(st) \/ EndStream(st)
      PROVE  Shape' /\ (ServerNumbered' => ServerNumbered)
  BY <1>3 DEF SendConnected, NeverBegins, Disconnect, EndStream, busVars, clientVars
<1>4. ASSUME NEW st \in Stream, SendBacklog(st) \/ SendLive(st)
      PROVE  Shape' /\ (ServerNumbered' => ServerNumbered)
  <2>1. DOMAIN received' = Client /\ DOMAIN lastId' = Client
    BY <1>4 DEF SendBacklog, SendLive, Receive
  <2>2. /\ UNCHANGED <<restarts, foreign, connection, dropped>>
        /\ open' \in [Stream -> BOOLEAN] /\ DOMAIN queue' = Stream /\ DOMAIN backlog' = Stream
    BY <1>4 DEF SendBacklog, SendLive, busVars
  <2>3. QED
    BY <2>1, <2>2
<1>5. CASE Restart
  BY <1>5 DEF Restart, clientVars
<1>6. CASE UNCHANGED vars
  BY <1>6 DEF vars
<1>7. QED
  BY <1>1, <1>2, <1>3, <1>4, <1>5, <1>6 DEF Next, StreamStep

\* No step opens a second stream of a client, or feeds one that is not there yet.
LEMMA FreshKept ==
  ASSUME Shape, FreshInv, [Next]_vars PROVE FreshInv'
<1> USE DEF Shape, FreshInv
<1>1. CASE Publish
  <2>1. PICK n \in Supplied \cup {sequence + 1}, own \in BOOLEAN : PublishNumbered(n, own)
    BY <1>1 DEF Publish
  <2>2. /\ UNCHANGED <<connection, subscribed, open>>
        /\ \A st \in Stream : st \notin subscribed => queue'[st] = queue[st]
    BY <2>1 DEF PublishNumbered
  <2>3. QED
    BY <2>2
<1>2. ASSUME NEW c \in Client, Subscribe(c) PROVE FreshInv'
  <2> DEFINE new == <<c, connection[c] + 1>>
  <2>1. /\ connection' = [connection EXCEPT ![c] = @ + 1]
        /\ subscribed' = subscribed \cup {new}
        /\ open' = [open EXCEPT ![new] = TRUE]
        /\ queue' = queue
        /\ connection[c] > 0 => ~open[<<c, connection[c]>>]
    BY <1>2 DEF Subscribe
  <2>2. new \in Stream /\ new[1] = c /\ new[2] = connection[c] + 1
    BY <1>2, StreamAssumption DEF Subscribe, Stream
  <2>3. ASSUME NEW st \in Stream
        PROVE  /\ st[2] > connection'[st[1]] => queue'[st] = <<>> /\ st \notin subscribed'
               /\ open'[st] => st \in subscribed' /\ st[2] = connection'[st[1]]
    <3>1. st[1] \in Client /\ st[2] \in Nat /\ st[2] >= 1 /\ st = <<st[1], st[2]>>
      BY StreamParts
    <3>2. CASE st[1] # c
      BY <2>1, <2>2, <3>1, <3>2
    <3>3. CASE st = new
      BY <2>1, <2>2, <3>3
    <3>4. CASE st[1] = c /\ st # new
      <4>1. ~open[st]
        <5>1. SUFFICES ASSUME open[st] PROVE FALSE
          OBVIOUS
        <5>2. st[2] = connection[c]
          BY <3>4, <5>1
        <5>3. st = <<c, connection[c]>> /\ connection[c] > 0
          BY <3>1, <3>4, <5>2
        <5>4. QED
          BY <2>1, <5>1, <5>3
      <4>2. connection'[c] = connection[c] + 1 /\ connection[c] \in Nat
        BY <2>1
      <4>3. st[2] > connection'[c] => st[2] > connection[c]
        BY <3>1, <4>2
      <4>4. QED
        BY <2>1, <3>4, <4>1, <4>3
    <3>5. QED
      BY <3>2, <3>3, <3>4
  <2>4. QED
    BY <2>3
<1>3. ASSUME NEW st \in Stream, SendConnected(st) \/ NeverBegins(st) \/ Disconnect(st)
      PROVE  FreshInv'
  BY <1>3 DEF SendConnected, NeverBegins, Disconnect, clientVars
<1>4. ASSUME NEW st \in Stream, SendBacklog(st) \/ SendLive(st) \/ EndStream(st)
      PROVE  FreshInv'
  <2>1. CASE EndStream(st) \/ (SendBacklog(st) /\ PastLimit(st))
    <3>1. /\ UNCHANGED connection
          /\ subscribed' = subscribed \ {st}
          /\ open' = [open EXCEPT ![st] = FALSE]
          /\ queue' = [queue EXCEPT ![st] = <<>>]
      BY <2>1 DEF EndStream, SendBacklog, AfterFinally, clientVars
    <3>2. QED
      BY <3>1
  <2>2. CASE SendBacklog(st) /\ ~PastLimit(st)
    BY <2>2 DEF SendBacklog
  <2>3. CASE SendLive(st)
    BY <2>3 DEF SendLive
  <2>4. QED
    BY <1>4, <2>1, <2>2, <2>3
<1>5. CASE Restart
  BY <1>5 DEF Restart, clientVars
<1>6. CASE UNCHANGED vars
  BY <1>6 DEF vars
<1>7. QED
  BY <1>1, <1>2, <1>3, <1>4, <1>5, <1>6 DEF Next, StreamStep

\* An event of the bus's own goes into the buffer, and into every open line or
\* among what its full queue refused.
LEMMA FlowPublish ==
  ASSUME Shape, FreshInv, FlowInv, Publish, ServerNumbered' PROVE FlowInv'
<1> DEFINE e == [id |-> published + 1, seq |-> sequence + 1, own |-> FALSE]
<1>1. PublishNumbered(sequence + 1, FALSE)
  BY DEF Publish, PublishNumbered, ServerNumbered
<1>0. published \in Nat /\ published' = published + 1 /\ published' \in Nat /\ published <= published'
  BY <1>1 DEF FlowInv, BusInv, PublishNumbered
<1>2. e = Numbered(published + 1) /\ e.id = published + 1 /\ e \in Item
  BY <1>0 DEF FlowInv, BusInv, Numbered, Item
<1>3. /\ sequence' = AfterNumber(sequence + 1)
      /\ buffer' = Remember(e)
      /\ queue' = [st \in Stream |->
           IF st \in subscribed /\ ~Full(st) THEN Append(queue[st], e) ELSE queue[st]]
      /\ dropped' = [c \in Client |->
           IF connection[c] > 0 /\ <<c, connection[c]>> \in subscribed
                /\ Full(<<c, connection[c]>>)
           THEN dropped[c] \cup {e.id} ELSE dropped[c]]
      /\ UNCHANGED <<backlog, connection, open, received, lastId>>
  BY <1>1 DEF PublishNumbered
<1> HIDE DEF e
<1>4. BusInv'
  <2>1. sequence' = published'
    BY <1>0, <1>3 DEF FlowInv, BusInv, AfterNumber, AtLeast
  <2>2. Latest(buffer', published')
    BY <1>0, <1>2, <1>3, RememberLatest DEF FlowInv
  <2>3. QED
    BY <1>0, <2>1, <2>2 DEF BusInv
<1>5. Evicted \subseteq Evicted'
  BY <1>0, StreamAssumption DEF Evicted
<1>6. ASSUME NEW c \in Client PROVE Excused(c) \subseteq Excused(c)'
  BY <1>3, <1>5 DEF Excused
<1>7. ASSUME NEW c \in Client PROVE Reached(c)'
  <2>1. Straight(received[c], Excused(c), published)
    BY DEF FlowInv, Reached
  <2>2. Straight(received[c], Excused(c)', published')
    BY <1>0, <1>6, <2>1, StraightGrows
  <2>3. QED
    BY <1>3, <2>2 DEF FlowInv, Reached
<1>8. ASSUME NEW st \in Stream, open'[st] PROVE OnItsWay(st)'
  <2> DEFINE c == st[1]
  <2>1. /\ c \in Client /\ st = <<c, connection[c]>> /\ connection[c] > 0
        /\ st \in subscribed
    <3>1. st[1] \in Client /\ st[2] \in Nat /\ st[2] >= 1 /\ st = <<st[1], st[2]>>
      BY StreamParts
    <3>2. st \in subscribed /\ st[2] = connection[st[1]]
      BY <1>3, <1>8 DEF FreshInv
    <3>3. QED
      BY <3>1, <3>2
  <2> HIDE DEF c
  <2>2. /\ backlog[st] \in Seq(Item) /\ queue[st] \in Seq(Item)
        /\ Flow(received[c], Line(st), Excused(c), published)
        /\ Straight(received[c], Excused(c), published)
    BY <1>3, <1>8, <2>1 DEF FlowInv, OnItsWay, Reached, c
  <2>3. Excused(c) \subseteq Excused(c)'
    BY <1>6, <2>1
  <2>4. CASE Full(st)
    <3>1. queue'[st] = queue[st] /\ published + 1 \in dropped'[c]
      BY <1>2, <1>3, <2>1, <2>4
    <3>2. published + 1 \in Excused(c)'
      BY <3>1 DEF Excused
    <3>3. Flow(received[c], Line(st), Excused(c)', published + 1)
      BY <1>0, <2>2, <2>3, <3>2, FlowSkips
    <3>4. Line(st)' = Line(st) /\ received'[c] = received[c]
      BY <1>3, <3>1 DEF Line
    <3>5. QED
      BY <1>0, <1>3, <2>2, <3>1, <3>3, <3>4 DEF OnItsWay, c
  <2>5. CASE ~Full(st)
    <3>1. queue'[st] = Append(queue[st], e)
      BY <1>3, <2>1, <2>5
    <3>2. queue'[st] \in Seq(Item) /\ Line(st)' = Append(Line(st), e)
      <4>1. /\ Append(queue[st], e) \in Seq(Item)
            /\ backlog[st] \o Append(queue[st], e) = Append(backlog[st] \o queue[st], e)
        <5>1. \A q \in Seq(Item) : \A d \in Item :
                Append(q, d) \in Seq(Item) /\ backlog[st] \o Append(q, d) = Append(backlog[st] \o q, d)
          BY <2>2, LineMoves
        <5>2. QED
          BY <1>2, <2>2, <5>1
      <4>2. QED
        BY <1>3, <3>1, <4>1 DEF Line
    <3>3. Flow(received[c], Append(Line(st), e), Excused(c)', published + 1)
      BY <1>0, <1>2, <2>2, <2>3, FlowGrows
    <3>4. QED
      BY <1>0, <1>3, <2>2, <3>2, <3>3 DEF OnItsWay, c
  <2>6. QED
    BY <2>4, <2>5
<1>9. QED
  BY <1>4, <1>7, <1>8 DEF FlowInv

\* What stands still: the bus, what clients got and the streams in S.
LEMMA FlowStands ==
  ASSUME FlowInv, UNCHANGED <<busVars, dropped, received, lastId>>, NEW S,
         \A st \in S : backlog'[st] = backlog[st] /\ queue'[st] = queue[st]
  PROVE  /\ BusInv'
         /\ \A c \in Client : Excused(c)' = Excused(c) /\ Reached(c)'
         /\ \A st \in S : OnItsWay(st) /\ st[1] \in Client => OnItsWay(st)'
<1>1. UNCHANGED <<published, sequence, buffer, dropped, received, lastId>>
  BY DEF busVars
<1>2. BusInv'
  BY <1>1 DEF FlowInv, BusInv, Latest
<1>3. Evicted' = Evicted
  BY <1>1 DEF Evicted
<1>4. ASSUME NEW c \in Client PROVE Excused(c)' = Excused(c) /\ Reached(c)'
  <2>1. Excused(c)' = Excused(c)
    BY <1>1, <1>3 DEF Excused
  <2>2. Reached(c)
    BY DEF FlowInv
  <2>3. QED
    BY <1>1, <2>1, <2>2 DEF Reached
<1>5. ASSUME NEW st \in S, OnItsWay(st), st[1] \in Client PROVE OnItsWay(st)'
  BY <1>1, <1>4, <1>5 DEF OnItsWay, Line
<1>6. QED
  BY <1>2, <1>4, <1>5

\* A new connection replays what comes after the last event received.
LEMMA FlowSubscribe ==
  ASSUME Shape, FreshInv, FlowInv, NEW c \in Client, Subscribe(c) PROVE FlowInv'
<1>2. PICK new \in Stream : new = <<c, connection[c] + 1>>
  BY StreamAssumption DEF Subscribe, Stream, Shape
<1>1. /\ connection' = [connection EXCEPT ![c] = @ + 1]
      /\ backlog' = [backlog EXCEPT ![new] = Backlog(lastId[c])]
      /\ open' = [open EXCEPT ![new] = TRUE]
      /\ UNCHANGED <<busVars, dropped, received, lastId, queue>>
  BY <1>2 DEF Subscribe
<1>a. new[1] = c /\ new[2] = connection[c] + 1 /\ connection[c] \in Nat
  BY <1>2 DEF Shape
<1>3. queue[new] = <<>> /\ backlog'[new] = Backlog(lastId[c])
  BY <1>1, <1>a DEF FreshInv, Shape
<1> DEFINE Others == Stream \ {new}
<1>4. \A st \in Others : backlog'[st] = backlog[st] /\ queue'[st] = queue[st]
  BY <1>1
<1>5. /\ BusInv'
      /\ \A d \in Client : Excused(d)' = Excused(d) /\ Reached(d)'
      /\ \A st \in Others : OnItsWay(st) /\ st[1] \in Client => OnItsWay(st)'
  BY <1>1, <1>4, FlowStands
<1>6. /\ published \in Nat /\ UNCHANGED <<published, received>>
      /\ Straight(received[c], Excused(c), published) /\ Reached(c) /\ BusInv
  BY <1>1 DEF FlowInv, BusInv, Reached, busVars
<1> DEFINE b == Backlog(lastId[c])
<1>7. b \in Seq(Item) /\ Flow(received[c], b, Excused(c), published)
  <2>1. CASE received[c] = <<>>
    <3>1. b = <<>>
      BY <1>6, <2>1 DEF Reached, Backlog
    <3>2. QED
      BY <1>6, <2>1, <3>1, FlowOfNothing
  <2>2. CASE received[c] # <<>>
    <3> DEFINE r == received[c]
    <3>1. lastId[c] = r[Len(r)]
      BY <1>6, <2>2 DEF Reached
    <3>2. Len(r) \in 1 .. Len(r) /\ r[Len(r)] \in 1 .. published
      BY <1>6, <2>2 DEF Straight
    <3>3. PICK k \in r[Len(r)] .. published :
             /\ Backlog(r[Len(r)]) = [m \in 1 .. published - k |-> Numbered(k + m)]
             /\ \A j \in 1 .. k : r[Len(r)] < j => j \in Evicted
      BY <1>6, <3>2, BacklogIsLater
    <3>4. k \in 0 .. published /\ r[Len(r)] <= k
      BY <1>6, <3>2
    <3>5. \A j \in 1 .. k : r[Len(r)] < j => j \in Excused(c)
      BY <3>3 DEF Excused
    <3> HIDE DEF r
    <3>6. Flow(r, [m \in 1 .. published - k |-> Numbered(k + m)], Excused(c), published)
      <4>1. Straight(r, Excused(c), published) /\ r # <<>>
        BY <1>6, <2>2 DEF r
      <4>2. QED
        BY <1>6, <3>4, <3>5, <4>1, FlowBegins
    <3>7. b = [m \in 1 .. published - k |-> Numbered(k + m)]
      BY <3>1, <3>3
    <3> HIDE DEF b
    <3>8. Flow(r, b, Excused(c), published)
      BY <3>6, <3>7
    <3>9. QED
      BY <3>8 DEF r, Flow, InOrder
  <2>3. QED
    BY <2>1, <2>2
<1>8. OnItsWay(new)'
  <2>1. backlog'[new] = b /\ queue'[new] = <<>>
    BY <1>1, <1>3
  <2> HIDE DEF b
  <2>2. b \o <<>> = b /\ <<>> \in Seq(Item)
    BY <1>7
  <2>3. Line(new)' = b
    BY <2>1, <2>2 DEF Line
  <2>4. Excused(c)' = Excused(c)
    BY <1>5
  <2>5. QED
    BY <1>a, <1>6, <1>7, <2>1, <2>2, <2>3, <2>4 DEF OnItsWay
<1>9. ASSUME NEW st \in Stream, open'[st] PROVE OnItsWay(st)'
  <2>1. CASE st = new
    BY <1>8, <2>1
  <2>2. CASE st # new
    <3>1. open[st] /\ st \in Others /\ st[1] \in Client
      BY <1>1, <1>9, <2>2, StreamParts DEF Shape
    <3>2. QED
      BY <1>5, <3>1 DEF FlowInv
  <2>3. QED
    BY <2>1, <2>2
<1>10. QED
  BY <1>5, <1>9 DEF FlowInv

\* The next event of an open stream reaches its client, or the stream is not read.
LEMMA FlowSend ==
  ASSUME Shape, FreshInv, FlowInv, NEW st \in Stream, SendBacklog(st) \/ SendLive(st)
  PROVE  FlowInv'
<1> DEFINE Others == Stream \ {st}
<1>1. /\ UNCHANGED <<busVars, connection, dropped>>
      /\ \A t \in Others : backlog'[t] = backlog[t] /\ queue'[t] = queue[t]
      /\ \A t \in Others : open'[t] = open[t]
      /\ open'[st] => open[st] /\ ~(SendBacklog(st) /\ PastLimit(st))
  BY DEF SendBacklog, SendLive, Shape
<1>2. CASE ~open[st]
  <2>1. UNCHANGED <<received, lastId>> /\ ~open'[st]
    BY <1>1, <1>2 DEF SendBacklog, SendLive, Receive
  <2>2. /\ BusInv'
        /\ \A c \in Client : Reached(c)'
        /\ \A t \in Others : OnItsWay(t) /\ t[1] \in Client => OnItsWay(t)'
    BY <1>1, <2>1, FlowStands
  <2>3. ASSUME NEW t \in Stream, open'[t] PROVE OnItsWay(t)'
    <3>1. t \in Others /\ open[t] /\ t[1] \in Client
      BY <1>1, <2>1, <2>3, StreamParts
    <3>2. QED
      BY <2>2, <3>1 DEF FlowInv
  <2>4. QED
    BY <2>2, <2>3 DEF FlowInv
<1>3. CASE open[st]
  <2> DEFINE c == st[1]
  <2> DEFINE r == received[c]
  <2> DEFINE h == Head(Line(st))
  <2>1. /\ c \in Client /\ st[2] = connection[c] /\ published \in Nat /\ BusInv
        /\ backlog[st] \in Seq(Item) /\ queue[st] \in Seq(Item)
        /\ Flow(r, Line(st), Excused(c), published)
        /\ Straight(r, Excused(c), published)
    BY <1>3, StreamParts DEF FlowInv, OnItsWay, Reached, FreshInv, BusInv
  <2>2. /\ Line(st) # <<>>
        /\ received' = [received EXCEPT ![c] = Append(@, h.id)]
        /\ lastId' = [lastId EXCEPT ![c] = h.seq]
        /\ open'[st] => /\ backlog'[st] \in Seq(Item) /\ queue'[st] \in Seq(Item)
                        /\ Line(st)' = Tail(Line(st))
    <3>1. CASE SendBacklog(st)
      <4>1. /\ Line(st) # <<>> /\ Head(backlog[st]) = h /\ Tail(backlog[st]) \in Seq(Item)
            /\ Tail(backlog[st]) \o queue[st] = Tail(Line(st))
        <5>1. backlog[st] # <<>>
          BY <3>1 DEF SendBacklog
        <5>2. QED
          BY <2>1, <5>1, LineMoves DEF Line
      <4>2. /\ received' = [received EXCEPT ![c] = Append(@, h.id)]
            /\ lastId' = [lastId EXCEPT ![c] = h.seq]
        BY <1>3, <3>1, <4>1 DEF SendBacklog, Receive
      <4>3. open'[st] => backlog'[st] = Tail(backlog[st]) /\ queue'[st] = queue[st]
        BY <1>1, <3>1 DEF SendBacklog, Shape
      <4>4. QED
        BY <2>1, <4>1, <4>2, <4>3 DEF Line
    <3>2. CASE SendLive(st)
      <4>1. backlog[st] = <<>> /\ queue[st] # <<>> /\ backlog' = backlog
            /\ queue'[st] = Tail(queue[st])
        BY <3>2 DEF SendLive, Waiting, Shape
      <4>2. Line(st) = queue[st] /\ Tail(queue[st]) \in Seq(Item) /\ <<>> \o Tail(queue[st]) = Tail(queue[st])
        BY <2>1, <4>1 DEF Line
      <4>3. /\ received' = [received EXCEPT ![c] = Append(@, h.id)]
            /\ lastId' = [lastId EXCEPT ![c] = h.seq]
        BY <1>3, <3>2, <4>2 DEF SendLive, Receive
      <4>4. Line(st)' = Tail(Line(st))
        BY <4>1, <4>2 DEF Line
      <4>5. QED
        BY <2>1, <4>1, <4>2, <4>3, <4>4
    <3>3. QED
      BY <3>1, <3>2
  <2> HIDE DEF h, c
  <2>3. /\ h.seq = h.id /\ h.id \in Nat
        /\ Straight(Append(r, h.id), Excused(c), published)
        /\ Flow(Append(r, h.id), Tail(Line(st)), Excused(c), published)
    BY <2>1, <2>2, FlowMoves DEF h
  <2>4. received'[c] = Append(r, h.id) /\ lastId'[c] = h.id
    BY <2>1, <2>2, <2>3 DEF Shape
  <2>5. UNCHANGED <<published, sequence, buffer>> /\ Evicted' = Evicted
    BY <1>1 DEF busVars, Evicted
  <2>6. BusInv'
    BY <2>1, <2>5 DEF BusInv, Latest
  <2>7. ASSUME NEW d \in Client
        PROVE  Excused(d)' = Excused(d)
    BY <1>1, <2>5 DEF Excused
  <2>8. Reached(c)'
    <3> DEFINE r2 == Append(r, h.id)
    <3>1. r2 # <<>> /\ r2[Len(r2)] = h.id
      BY <2>1, <2>3 DEF Straight
    <3> HIDE DEF r2, r
    <3>2. received'[c] = r2 /\ Straight(r2, Excused(c)', published')
      BY <2>1, <2>3, <2>4, <2>5, <2>7 DEF r2
    <3>3. QED
      BY <2>4, <3>1, <3>2 DEF Reached
  <2>9. ASSUME NEW d \in Client, d # c
        PROVE  Reached(d)' /\ received'[d] = received[d]
    <3>1. received'[d] = received[d] /\ lastId'[d] = lastId[d]
      BY <2>2, <2>9 DEF Shape
    <3>2. Reached(d)
      BY DEF FlowInv
    <3>3. QED
      BY <2>5, <2>7, <3>1, <3>2 DEF Reached
  <2>10. ASSUME NEW t \in Stream, open'[t] PROVE OnItsWay(t)'
    <3>1. CASE t = st
      BY <2>1, <2>2, <2>3, <2>4, <2>5, <2>7, <2>10, <3>1 DEF OnItsWay, c
    <3>2. CASE t # st
      <4>1. /\ open[t] /\ t[1] \in Client
            /\ backlog'[t] = backlog[t] /\ queue'[t] = queue[t]
        BY <1>1, <2>10, <3>2, StreamParts
      <4>2. t[1] # c
        <5>1. /\ t = <<t[1], t[2]>> /\ st = <<st[1], st[2]>>
          BY StreamParts
        <5>2. t[2] = connection[t[1]] /\ st[2] = connection[st[1]]
          BY <1>3, <4>1 DEF FreshInv
        <5>3. QED
          BY <3>2, <5>1, <5>2 DEF c
      <4>3. received'[t[1]] = received[t[1]] /\ Excused(t[1])' = Excused(t[1])
        BY <2>7, <2>9, <4>1, <4>2
      <4>4. OnItsWay(t)
        BY <4>1 DEF FlowInv
      <4>5. Line(t)' = Line(t)
        BY <4>1 DEF Line
      <4>6. QED
        BY <2>5, <4>1, <4>3, <4>4, <4>5 DEF OnItsWay
    <3>3. QED
      BY <3>1, <3>2
  <2>11. \A d \in Client : Reached(d)'
    BY <2>8, <2>9
  <2>12. QED
    BY <2>6, <2>10, <2>11 DEF FlowInv
<1>4. QED
  BY <1>2, <1>3

\* Every step of a bus that has kept its memory and numbers its events itself.
LEMMA FlowKept ==
  ASSUME Shape, FreshInv, FlowInv, [Next]_vars, ServerNumbered' PROVE FlowInv'
<1>1. CASE Publish
  BY <1>1, FlowPublish
<1>2. ASSUME NEW c \in Client, Subscribe(c) PROVE FlowInv'
  BY <1>2, FlowSubscribe
<1>3. ASSUME NEW st \in Stream, SendBacklog(st) \/ SendLive(st) PROVE FlowInv'
  BY <1>3, FlowSend
<1>4. ASSUME UNCHANGED <<busVars, dropped, received, lastId>>,
             NEW S, \A t \in S : backlog'[t] = backlog[t] /\ queue'[t] = queue[t],
             \A t \in Stream : open'[t] => open[t] /\ t \in S
      PROVE  FlowInv'
  <2>1. /\ BusInv'
        /\ \A c \in Client : Reached(c)'
        /\ \A t \in S : OnItsWay(t) /\ t[1] \in Client => OnItsWay(t)'
    BY <1>4, FlowStands
  <2>2. \A t \in Stream : open'[t] => OnItsWay(t)'
    BY <1>4, <2>1, StreamParts DEF FlowInv
  <2>3. QED
    BY <2>1, <2>2 DEF FlowInv
<1>5. ASSUME NEW st \in Stream, SendConnected(st) \/ NeverBegins(st) \/ Disconnect(st)
      PROVE  FlowInv'
  <2>1. /\ UNCHANGED <<busVars, dropped, received, lastId, backlog, queue>>
        /\ \A t \in Stream : open'[t] => open[t]
    BY <1>5 DEF SendConnected, NeverBegins, Disconnect, clientVars, Shape
  <2>2. QED
    BY <1>4, <2>1
<1>6. ASSUME NEW st \in Stream, EndStream(st) PROVE FlowInv'
  <2> DEFINE S == Stream \ {st}
  <2>1. /\ UNCHANGED <<busVars, dropped, received, lastId>>
        /\ \A t \in S : backlog'[t] = backlog[t] /\ queue'[t] = queue[t]
        /\ \A t \in Stream : open'[t] => open[t] /\ t \in S
    BY <1>6 DEF EndStream, clientVars, Shape
  <2> HIDE DEF S
  <2>2. QED
    BY <1>4, <2>1
<1>7. CASE Restart
  BY <1>7 DEF Restart, ServerNumbered, Shape
<1>8. CASE UNCHANGED vars
  <2>1. /\ UNCHANGED <<busVars, dropped, received, lastId, backlog, queue, open>>
    BY <1>8 DEF vars, busVars
  <2>2. QED
    BY <1>4, <2>1
<1>9. QED
  BY <1>1, <1>2, <1>3, <1>5, <1>6, <1>7, <1>8 DEF Next, StreamStep

\* Before the first event nothing is under way.
LEMMA InitReach == Init => ReachInv
<1> SUFFICES ASSUME Init PROVE ReachInv
  OBVIOUS
<1> USE DEF Init
<1>1. Shape
  BY DEF Shape
<1>2. FreshInv
  BY DEF FreshInv
<1>3. BusInv
  BY StreamAssumption DEF BusInv, Latest
<1>4. \A c \in Client : Reached(c)
  BY FlowOfNothing DEF Reached
<1>5. QED
  BY <1>1, <1>2, <1>3, <1>4 DEF ReachInv, FlowInv

\* ReachInv is inductive.
LEMMA NextReach == ReachInv /\ [Next]_vars => ReachInv'
<1> SUFFICES ASSUME ReachInv, [Next]_vars PROVE ReachInv'
  OBVIOUS
<1>1. Shape' /\ (ServerNumbered' => ServerNumbered) /\ FreshInv'
  BY ShapeKept, FreshKept DEF ReachInv
<1>2. ServerNumbered' => FlowInv'
  BY <1>1, FlowKept DEF ReachInv
<1>3. QED
  BY <1>1, <1>2 DEF ReachInv

\* ReplayHasNoGap of EventStream: on one connection or across reconnections with
\* Last-Event-ID (core/events.py:55-68, routes/sandboxes.py:69-118) a client misses,
\* between two events that it receives, only what its full queue refused or the
\* buffer let go, and receives nothing twice or out of order, for any buffer and
\* queue sizes.
THEOREM ReplayIsGapless == Spec => []ReplayHasNoGap
<1>1. ReachInv => ReplayHasNoGap
  <2> SUFFICES ASSUME ReachInv, ServerNumbered, NEW c \in Client,
                      NEW i \in 1 .. Len(received[c]) - 1
               PROVE  /\ received[c][i] < received[c][i + 1]
                      /\ \A id \in (received[c][i] + 1) .. (received[c][i + 1] - 1) :
                           id \in dropped[c] \cup Evicted
    BY DEF ReplayHasNoGap
  <2>1. published \in Nat /\ Straight(received[c], Excused(c), published)
    BY DEF ReachInv, FlowInv, BusInv, Reached
  <2>2. QED
    BY <2>1, NoGap DEF Excused
<1>2. QED
  BY <1>1, InitReach, NextReach, PTL DEF Spec

\* NothingOutOfReach of EventStream: while no queue overflows, an event that the
\* buffer holds and that is later than the first one a client received has reached
\* the client, or a reconnection with Last-Event-ID would replay it.
THEOREM NothingIsOutOfReach == Spec => []NothingOutOfReach
<1>1. ReachInv => NothingOutOfReach
  <2> SUFFICES ASSUME ReachInv, ServerNumbered, NEW c \in Client, dropped[c] = {},
                      NEW i \in 1 .. Len(buffer), received[c] # <<>>,
                      buffer[i].id > received[c][1]
               PROVE  \/ \E k \in 1 .. Len(received[c]) : received[c][k] = buffer[i].id
                      \/ LaterThan(buffer[i], lastId[c])
    BY DEF NothingOutOfReach, Replayable
  <2> DEFINE r == received[c]
  <2> DEFINE id == buffer[i].id
  <2>1. /\ BusInv /\ Straight(r, Excused(c), published) /\ lastId[c] = r[Len(r)]
    BY DEF ReachInv, FlowInv, Reached
  <2>2. /\ id \in 1 .. published /\ id = buffer[i].seq /\ id \notin Evicted /\ published \in Nat
    BY <2>1, HeldOrEvicted DEF BusInv
  <2>3. /\ Len(r) \in 1 .. Len(r) /\ 1 \in 1 .. Len(r) /\ r[Len(r)] \in Nat
    BY <2>1 DEF Straight
  <2>4. CASE id > lastId[c]
    BY <2>2, <2>4 DEF LaterThan
  <2>5. CASE id <= lastId[c]
    <3>1. (\E k \in 1 .. Len(r) : r[k] < id) /\ id <= r[Len(r)] /\ id \in Nat
      <4>1. r[1] \in Nat
        BY <2>1, <2>3 DEF Straight
      <4>2. r[1] < id
        BY <2>2, <4>1
      <4>3. QED
        BY <2>1, <2>2, <2>3, <2>5, <4>2
    <3>2. id \in Excused(c) \/ \E k \in 1 .. Len(r) : r[k] = id
      BY <2>1, <3>1 DEF Straight
    <3>3. id \notin Excused(c)
      BY <2>2 DEF Excused
    <3>4. QED
      BY <3>2, <3>3
  <2>6. QED
    BY <2>1, <2>2, <2>3, <2>4, <2>5
<1>2. QED
  BY <1>1, InitReach, NextReach, PTL DEF Spec

--------------------------------------------------------------------------------
(* Types *)

\* Every number below the size of a finite set of numbers is the rank of one of them.
LEMMA Ranks ==
  ASSUME NEW n \in Nat, NEW P \in SUBSET (1 .. n)
  PROVE  /\ Cardinality(P) \in Nat
         /\ \A k \in 1 .. Cardinality(P) :
              \E i \in P : Cardinality({j \in P : j < i}) = k - 1
<1> DEFINE Below(i) == {j \in P : j < i}
<1>1. IsFiniteSet(P) /\ Cardinality(P) \in Nat
  <2>1. 1 \in Int /\ n \in Int
    OBVIOUS
  <2>2. IsFiniteSet(1 .. n)
    BY <2>1, FS_Interval
  <2>3. IsFiniteSet(P)
    BY <2>2, FS_Subset
  <2>4. QED
    BY <2>3, FS_CardinalityType
<1> DEFINE c == Cardinality(P)
<1>2. ASSUME NEW S \in SUBSET P, NEW x \in P, x \notin S
      PROVE  IsFiniteSet(S) /\ Cardinality(S) \in Nat /\ Cardinality(S) < Cardinality(P)
  <2>1. IsFiniteSet(S) /\ Cardinality(S) <= Cardinality(P) /\ Cardinality(P) # Cardinality(S)
    BY <1>1, <1>2, FS_Subset
  <2>2. Cardinality(S) \in Nat
    BY <2>1, FS_CardinalityType
  <2>3. QED
    BY <1>1, <2>1, <2>2
<1>3. ASSUME NEW i \in P PROVE Cardinality(Below(i)) \in 0 .. c - 1
  <2>1. Below(i) \in SUBSET P /\ i \notin Below(i)
    OBVIOUS
  <2>2. Cardinality(Below(i)) \in Nat /\ Cardinality(Below(i)) < c
    BY <1>2, <2>1
  <2>3. QED
    BY <1>1, <2>2
<1>4. ASSUME NEW i \in P, NEW k \in P, i < k
      PROVE  Cardinality(Below(i)) # Cardinality(Below(k))
  <2>1. Below(i) \in SUBSET Below(k) /\ i \in Below(k) /\ i \notin Below(i)
    <3>1. \A j \in P : j \in Int
      OBVIOUS
    <3>2. \A j \in P : j < i => j < k
      BY <1>4, <3>1
    <3>3. Below(i) \in SUBSET Below(k)
      BY <3>2
    <3>4. i \in Below(k) /\ i \notin Below(i)
      BY <1>4, <3>1
    <3>5. QED
      BY <3>3, <3>4
  <2>2. IsFiniteSet(Below(k))
    <3>1. Below(k) \in SUBSET P
      OBVIOUS
    <3>2. QED
      BY <1>1, <3>1, FS_Subset
  <2> HIDE DEF Below
  <2>3. Cardinality(Below(k)) = Cardinality(Below(i)) => Below(k) = Below(i)
    BY <2>1, <2>2, FS_Subset
  <2>4. QED
    BY <2>1, <2>3
<1> DEFINE T == 0 .. c - 1
<1> DEFINE f == [i \in P |-> Cardinality(Below(i))]
<1>5. f \in Injection(P, T)
  <2>1. f \in [P -> T]
    BY <1>3
  <2>2. ASSUME NEW i \in P, NEW k \in P, f[i] = f[k] PROVE i = k
    <3>1. i < k \/ k < i \/ i = k
      OBVIOUS
    <3>2. QED
      BY <1>4, <2>2, <3>1
  <2> HIDE DEF f, T
  <2>3. QED
    BY <2>1, <2>2 DEF Injection, IsInjective
<1>6. IsFiniteSet(T) /\ Cardinality(T) = c
  <2>1. 0 \in Int /\ c - 1 \in Int
    BY <1>1
  <2>2. IsFiniteSet(T) /\ Cardinality(T) = IF 0 > c - 1 THEN 0 ELSE c - 1 - 0 + 1
    BY <2>1, FS_Interval
  <2>3. QED
    BY <1>1, <2>2
<1> HIDE DEF f, T
<1>7. f \in Surjection(P, T)
  BY <1>5, <1>6, FS_Injection
<1>8. \A k \in 1 .. c : \E i \in P : f[i] = k - 1
  <2>1. \A k \in 1 .. c : k - 1 \in T
    BY <1>1 DEF T
  <2>2. \A t \in T : \E i \in P : f[i] = t
    BY <1>7 DEF Surjection
  <2>3. QED
    BY <2>1, <2>2
<1>9. QED
  BY <1>1, <1>8 DEF f

\* Items of a list are a list of the same kind.
LEMMA ItemsAtType ==
  ASSUME NEW E, NEW s \in Seq(E), NEW P \in SUBSET (1 .. Len(s))
  PROVE  ItemsAt(s, P) \in Seq(E)
<1> DEFINE rank(i) == Cardinality({j \in P : j < i})
<1> DEFINE at(k) == CHOOSE i \in P : rank(i) = k - 1
<1>1. /\ Cardinality(P) \in Nat
      /\ \A k \in 1 .. Cardinality(P) : \E i \in P : rank(i) = k - 1
  <2>1. Len(s) \in Nat
    OBVIOUS
  <2>2. QED
    BY <2>1, Ranks
<1> HIDE DEF rank
<1>2. \A k \in 1 .. Cardinality(P) : at(k) \in P
  BY <1>1
<1> HIDE DEF at
<1>3. \A k \in 1 .. Cardinality(P) : s[at(k)] \in E
  BY <1>2, ElementOfSeq
<1>4. [k \in 1 .. Cardinality(P) |-> s[at(k)]] \in Seq(E)
  BY <1>1, <1>3
<1>5. QED
  BY <1>4 DEF ItemsAt, at, rank

\* What is replayed was in the buffer.
LEMMA BacklogType == ASSUME NEW E, buffer \in Seq(E), NEW id PROVE Backlog(id) \in Seq(E)
<1>1. {i \in 1 .. Len(buffer) : LaterThan(buffer[i], id)} \in SUBSET (1 .. Len(buffer))
  OBVIOUS
<1>2. QED
  BY <1>1, ItemsAtType DEF Backlog

\* The types of what a publish changes.
LEMMA PublishTypes ==
  ASSUME TypeOK, Publish PROVE TypeOK'
<1>1. PICK n \in Nat, own \in BOOLEAN : PublishNumbered(n, own)
  <2>1. sequence + 1 \in Nat
    BY DEF TypeOK
  <2>2. QED
    BY <2>1, StreamAssumption DEF Publish
<1> DEFINE e == [id |-> published + 1, seq |-> n, own |-> own]
<1> DEFINE Id == 1 .. MaxEvents
<1>2. /\ published' = published + 1 /\ published' \in 0 .. MaxEvents
      /\ e \in Event /\ e.id \in Id
  BY <1>1, StreamAssumption DEF PublishNumbered, TypeOK, Event
<1>3. /\ sequence' = AfterNumber(n)
      /\ buffer' = Remember(e)
      /\ foreign' = (foreign \/ own)
      /\ queue' = [st \in Stream |->
           IF st \in subscribed /\ ~Full(st) THEN Append(queue[st], e) ELSE queue[st]]
      /\ dropped' = [c \in Client |->
           IF connection[c] > 0 /\ <<c, connection[c]>> \in subscribed
                /\ Full(<<c, connection[c]>>)
           THEN dropped[c] \cup {e.id} ELSE dropped[c]]
      /\ UNCHANGED <<subscribed, backlog, pc, limit, emitted, connection, open,
                     received, lastId, restarts>>
  BY <1>1 DEF PublishNumbered
<1> HIDE DEF e
<1>4. sequence' \in Nat /\ foreign' \in BOOLEAN
  BY <1>3 DEF TypeOK, AfterNumber, AtLeast
<1>5. buffer' \in Seq(Event) /\ Len(buffer') <= BufferSize
  <2>1. buffer \in Seq(Event) /\ Len(buffer) <= BufferSize /\ Len(buffer) \in Nat
    BY DEF TypeOK
  <2>2. CASE BufferSize = 0
    BY <1>3, <2>1, <2>2 DEF Remember
  <2>3. CASE BufferSize # 0 /\ Len(buffer) < BufferSize
    <3>1. buffer' = Append(buffer, e)
      BY <1>3, <2>3 DEF Remember
    <3>2. QED
      BY <1>2, <2>1, <2>3, <3>1, StreamAssumption
  <2>4. CASE BufferSize # 0 /\ ~(Len(buffer) < BufferSize)
    <3>1. buffer' = Append(Tail(buffer), e)
      BY <1>3, <2>4 DEF Remember
    <3>2. buffer # <<>> /\ Tail(buffer) \in Seq(Event) /\ Len(Tail(buffer)) = Len(buffer) - 1
      BY <2>1, <2>4, StreamAssumption
    <3>3. QED
      BY <1>2, <2>1, <3>1, <3>2, StreamAssumption
  <2>5. QED
    BY <2>2, <2>3, <2>4
<1>6. queue' \in [Stream -> Seq(Event)] /\ \A st \in Stream : Len(queue'[st]) <= QueueSize
  <2>1. ASSUME NEW st \in Stream
        PROVE  queue'[st] \in Seq(Event) /\ Len(queue'[st]) <= QueueSize
    <3>1. queue[st] \in Seq(Event) /\ Len(queue[st]) <= QueueSize /\ Len(queue[st]) \in Nat
      BY DEF TypeOK
    <3>2. CASE st \in subscribed /\ ~Full(st)
      <4>1. queue'[st] = Append(queue[st], e) /\ Len(queue[st]) < QueueSize
        BY <1>3, <3>1, <3>2, StreamAssumption DEF Full
      <4>2. QED
        BY <1>2, <3>1, <4>1, StreamAssumption
    <3>3. CASE ~(st \in subscribed /\ ~Full(st))
      BY <1>3, <3>1, <3>3
    <3>4. QED
      BY <3>2, <3>3
  <2>2. DOMAIN queue' = Stream /\ queue' = [st \in Stream |-> queue'[st]]
    BY <1>3
  <2> HIDE DEF e
  <2>3. QED
    BY <2>1, <2>2
<1>7. dropped' \in [Client -> SUBSET Id]
  <2>1. dropped \in [Client -> SUBSET Id]
    BY DEF TypeOK
  <2> HIDE DEF Id
  <2>2. QED
    BY <1>2, <1>3, <2>1
<1>8. QED
  BY <1>2, <1>3, <1>4, <1>5, <1>6, <1>7 DEF TypeOK

\* The types of what a stream changes, and of what its client receives.
LEMMA StreamTypes ==
  ASSUME TypeOK, NEW st \in Stream, StreamStep(st) \/ NeverBegins(st) \/ Disconnect(st)
  PROVE  TypeOK'
<1> DEFINE Id == 1 .. MaxEvents
<1>0. /\ st[1] \in Client
      /\ received \in [Client -> Seq(Id)] /\ lastId \in [Client -> Nat \cup {NoId}]
      /\ backlog \in [Stream -> Seq(Event)] /\ queue \in [Stream -> Seq(Event)]
      /\ \A t \in Stream : Len(queue[t]) <= QueueSize
      /\ pc \in [Stream -> StreamPC] /\ open \in [Stream -> BOOLEAN]
      /\ emitted \in [Stream -> Nat] /\ subscribed \subseteq Stream
      /\ \A x \in Event : x.id \in Id /\ x.seq \in Nat
  BY StreamParts DEF TypeOK, Event
<1> HIDE DEF Id
<1>1. CASE SendConnected(st)
  <2>1. pc' \in [Stream -> StreamPC] /\ emitted' \in [Stream -> Nat]
    BY <1>0, <1>1 DEF SendConnected, StreamPC
  <2>2. QED
    BY <1>1, <2>1 DEF SendConnected, busVars, clientVars, TypeOK
<1>2. ASSUME NEW x \in Event, Receive(st, x)
      PROVE  received' \in [Client -> Seq(Id)] /\ lastId' \in [Client -> Nat \cup {NoId}]
  <2>1. Append(received[st[1]], x.id) \in Seq(Id) /\ x.seq \in Nat
    BY <1>0
  <2>2. CASE open[st]
    BY <1>0, <1>2, <2>1, <2>2 DEF Receive
  <2>3. CASE ~open[st]
    BY <1>0, <1>2, <2>3 DEF Receive
  <2>4. QED
    BY <2>2, <2>3
<1>3. CASE SendBacklog(st) \/ EndStream(st)
  <2>1. received' \in [Client -> Seq(Id)] /\ lastId' \in [Client -> Nat \cup {NoId}]
    <3>1. CASE SendBacklog(st)
      <4>1. Head(backlog[st]) \in Event /\ Receive(st, Head(backlog[st]))
        BY <1>0, <3>1 DEF SendBacklog
      <4>2. QED
        BY <1>2, <4>1
    <3>2. CASE EndStream(st)
      BY <1>0, <3>2 DEF EndStream, clientVars
    <3>3. QED
      BY <1>3, <3>1, <3>2
  <2>2. pc' \in [Stream -> StreamPC] /\ open' \in [Stream -> BOOLEAN] /\ subscribed' \subseteq Stream
    BY <1>0, <1>3 DEF SendBacklog, EndStream, AfterFinally, StreamPC
  <2>3. backlog' \in [Stream -> Seq(Event)]
    <3>1. backlog[st] # <<>> => Tail(backlog[st]) \in Seq(Event)
      BY <1>0
    <3>2. CASE backlog' = [backlog EXCEPT ![st] = <<>>]
      BY <1>0, <3>2
    <3>3. CASE backlog[st] # <<>> /\ backlog' = [backlog EXCEPT ![st] = Tail(@)]
      BY <1>0, <3>1, <3>3
    <3>4. QED
      BY <1>3, <3>2, <3>3 DEF SendBacklog, EndStream
  <2>4. queue' \in [Stream -> Seq(Event)] /\ \A t \in Stream : Len(queue'[t]) <= QueueSize
    <3>1. queue' = queue \/ queue' = [queue EXCEPT ![st] = <<>>]
      BY <1>3 DEF SendBacklog, EndStream
    <3>2. CASE queue' = queue
      BY <1>0, <3>2
    <3>3. CASE queue' = [queue EXCEPT ![st] = <<>>]
      BY <1>0, <3>3, StreamAssumption
    <3>4. QED
      BY <3>1, <3>2, <3>3
  <2>5. emitted' \in [Stream -> Nat]
    <3>1. emitted' = [emitted EXCEPT ![st] = @ + 1] \/ emitted' = emitted
      BY <1>3 DEF SendBacklog, EndStream
    <3>2. emitted[st] + 1 \in Nat
      BY <1>0
    <3>3. CASE emitted' = [emitted EXCEPT ![st] = @ + 1]
      BY <1>0, <3>2, <3>3
    <3>4. CASE emitted' = emitted
      BY <1>0, <3>4
    <3>5. QED
      BY <3>1, <3>3, <3>4
  <2>6. UNCHANGED <<published, sequence, buffer, foreign, limit, connection, dropped, restarts>>
    BY <1>3 DEF SendBacklog, EndStream, busVars, clientVars
  <2>7. QED
    BY <2>1, <2>2, <2>3, <2>4, <2>5, <2>6 DEF TypeOK, Id
<1>4. CASE SendLive(st)
  <2>1. queue[st] # <<>> /\ queue[st] \in Seq(Event) /\ Receive(st, Head(queue[st]))
    BY <1>0, <1>4 DEF SendLive
  <2>2. received' \in [Client -> Seq(Id)] /\ lastId' \in [Client -> Nat \cup {NoId}]
    BY <1>2, <2>1
  <2>3. queue' \in [Stream -> Seq(Event)] /\ \A t \in Stream : Len(queue'[t]) <= QueueSize
    <3>1. Tail(queue[st]) \in Seq(Event) /\ Len(Tail(queue[st])) <= QueueSize
      <4>1. Len(Tail(queue[st])) = Len(queue[st]) - 1 /\ Len(queue[st]) \in Nat /\ Len(queue[st]) <= QueueSize
        BY <1>0, <2>1
      <4>2. QED
        BY <2>1, <4>1, StreamAssumption
    <3>2. queue' = [queue EXCEPT ![st] = Tail(@)]
      BY <1>4 DEF SendLive
    <3>3. QED
      BY <1>0, <3>1, <3>2
  <2>4. emitted' \in [Stream -> Nat]
    BY <1>0, <1>4 DEF SendLive
  <2>5. UNCHANGED <<published, sequence, buffer, foreign, limit, connection, dropped, restarts,
                    subscribed, backlog, pc, open>>
    BY <1>4 DEF SendLive, busVars
  <2>6. QED
    BY <2>2, <2>3, <2>4, <2>5 DEF TypeOK, Id
<1>5. CASE NeverBegins(st)
  <2>1. pc' \in [Stream -> StreamPC]
    BY <1>0, <1>5 DEF NeverBegins, StreamPC
  <2>2. QED
    BY <1>5, <2>1 DEF NeverBegins, busVars, clientVars, TypeOK
<1>6. CASE Disconnect(st)
  <2>1. open' \in [Stream -> BOOLEAN]
    BY <1>0, <1>6 DEF Disconnect
  <2>2. QED
    BY <1>6, <2>1 DEF Disconnect, busVars, clientVars, TypeOK
<1>7. QED
  BY <1>1, <1>3, <1>4, <1>5, <1>6 DEF StreamStep

\* Every reachable state of EventStream is well typed, for any sizes of the buffer and
\* of the queues: neither ever holds more than core/events.py:45 and :61 give it.
THEOREM TypeCorrect == Spec => []TypeOK
<1>1. Init => TypeOK
  <2> SUFFICES ASSUME Init PROVE TypeOK
    OBVIOUS
  <2>1. \A c \in Client : received[c] \in Seq(1 .. MaxEvents) /\ dropped[c] \in SUBSET (1 .. MaxEvents)
    BY DEF Init
  <2>2. QED
    <3>1. /\ queue \in [Stream -> Seq(Event)] /\ \A st \in Stream : Len(queue[st]) <= QueueSize
          /\ backlog \in [Stream -> Seq(Event)]
          /\ buffer \in Seq(Event) /\ Len(buffer) <= BufferSize
      BY StreamAssumption DEF Init
    <3>2. /\ pc \in [Stream -> StreamPC] /\ limit \in [Stream -> Limits \cup {NoLimit}]
          /\ emitted \in [Stream -> Nat] /\ open \in [Stream -> BOOLEAN] /\ subscribed \subseteq Stream
      BY DEF Init, StreamPC
    <3>3. /\ received \in [Client -> Seq(1 .. MaxEvents)] /\ lastId \in [Client -> Nat \cup {NoId}]
          /\ dropped \in [Client -> SUBSET (1 .. MaxEvents)]
      BY DEF Init
    <3>4. /\ published \in 0 .. MaxEvents /\ sequence \in Nat /\ foreign \in BOOLEAN
          /\ connection \in [Client -> 0 .. MaxConnections] /\ restarts \in 0 .. MaxRestarts
      <4>1. MaxEvents \in Nat /\ MaxConnections \in Nat /\ MaxRestarts \in Nat
        BY StreamAssumption
      <4>2. 0 \in 0 .. MaxEvents /\ 0 \in 0 .. MaxConnections /\ 0 \in 0 .. MaxRestarts
        BY <4>1
      <4>3. QED
        BY <4>2 DEF Init
    <3>5. QED
      BY <3>1, <3>2, <3>3, <3>4 DEF TypeOK
<1>2. TypeOK /\ [Next]_vars => TypeOK'
  <2> SUFFICES ASSUME TypeOK, [Next]_vars PROVE TypeOK'
    OBVIOUS
  <2>1. ASSUME NEW c \in Client, Subscribe(c) PROVE TypeOK'
    <3>0. PICK new \in Stream : new = <<c, connection[c] + 1>>
      BY <2>1, StreamAssumption DEF Subscribe, Stream, TypeOK
    <3>1. PICK m \in Limits : limit' = [limit EXCEPT ![new] = m]
      BY <2>1, <3>0 DEF Subscribe
    <3>2. /\ connection' = [connection EXCEPT ![c] = @ + 1]
          /\ connection[c] < MaxConnections
          /\ subscribed' = subscribed \cup {new}
          /\ backlog' = [backlog EXCEPT ![new] = Backlog(lastId[c])]
          /\ pc' = [pc EXCEPT ![new] = "accepted"]
          /\ open' = [open EXCEPT ![new] = TRUE]
          /\ UNCHANGED <<busVars, queue, emitted, received, lastId, dropped, restarts>>
      BY <2>1, <3>0 DEF Subscribe
    <3>3. Backlog(lastId[c]) \in Seq(Event)
      BY BacklogType DEF TypeOK
    <3>4. backlog' \in [Stream -> Seq(Event)]
      BY <3>2, <3>3 DEF TypeOK
    <3>5. connection' \in [Client -> 0 .. MaxConnections]
      BY <3>2, StreamAssumption DEF TypeOK
    <3>6. pc' \in [Stream -> StreamPC] /\ limit' \in [Stream -> Limits \cup {NoLimit}]
      BY <3>1, <3>2 DEF TypeOK, StreamPC
    <3>7. open' \in [Stream -> BOOLEAN] /\ subscribed' \subseteq Stream
      BY <3>2 DEF TypeOK
    <3>8. QED
      BY <3>2, <3>4, <3>5, <3>6, <3>7 DEF TypeOK, busVars
  <2>2. CASE Restart
    <3>1. /\ restarts' \in 0 .. MaxRestarts /\ sequence' \in Nat
          /\ buffer' = <<>> /\ subscribed' = {}
      BY <2>2, StreamAssumption DEF Restart, TypeOK
    <3>2. /\ queue' \in [Stream -> Seq(Event)] /\ \A st \in Stream : Len(queue'[st]) <= QueueSize
          /\ backlog' \in [Stream -> Seq(Event)]
          /\ open' \in [Stream -> BOOLEAN]
      BY <2>2, StreamAssumption DEF Restart
    <3>3. pc' \in [Stream -> StreamPC]
      BY <2>2 DEF Restart, TypeOK, StreamPC
    <3>4. UNCHANGED <<published, foreign, connection, received, lastId, limit, emitted, dropped>>
      BY <2>2 DEF Restart, clientVars
    <3>5. buffer' \in Seq(Event) /\ Len(buffer') <= BufferSize
      BY <3>1, StreamAssumption
    <3>6. QED
      BY <3>1, <3>2, <3>3, <3>4, <3>5 DEF TypeOK
  <2>3. CASE UNCHANGED vars
    BY <2>3 DEF vars, TypeOK
  <2>4. QED
    BY <2>1, <2>2, <2>3, PublishTypes, StreamTypes DEF Next
<1>3. QED
  BY <1>1, <1>2, PTL DEF Spec
================================================================================
