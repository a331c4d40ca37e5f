------------------------ MODULE RabbitConnection_proofs ------------------------
(* Proofs about RabbitConnection, for any callers and any number of outages. *)
EXTENDS RabbitConnection, FiniteSetTheorems, TLAPS

\* What OneConnection and HalfOpenIsExplained rest on: the opening of the connection
\* is exclusive as long as nobody raced, and connect() sets its parts in order.
Types ==
  /\ {connection, channel, events, raced, abandoned} \subseteq BOOLEAN
  /\ pc \in [Caller -> PC]
  /\ opened \in Nat

OpensAlone ==
  ~raced =>
    /\ \A p, q \in Caller : pc[p] = "opening" /\ pc[q] = "opening" => p = q
    /\ \A p \in Caller : pc[p] = "opening" => ~connection
    /\ opened = IF connection THEN 1 ELSE 0

\* Who is past its channel has set it, and the last step of connect() sets the rest.
PartsInOrder ==
  /\ \A p \in Caller : pc[p] \in {"qos", "queue", "exchange"} => channel
  /\ HalfOpenIsExplained

IInv == Types /\ OpensAlone /\ PartsInOrder

\* The startup hook is a caller, and none of the requests.
LEMMA CallerSets == Startup \in Caller /\ Startup \notin Request /\ Request \subseteq Caller
  BY RabbitAssumption DEF Caller, Request

\* Nothing is connected before the startup hook runs.
LEMMA InitIInv == Init => IInv
  <1> SUFFICES ASSUME Init PROVE IInv
    OBVIOUS
  <1>1. Types
    BY DEF Init, Types, PC
  <1>2. OpensAlone /\ PartsInOrder
    BY CallerSets DEF Init, OpensAlone, PartsInOrder, HalfOpenIsExplained, HalfOpen
  <1> QED
    BY <1>1, <1>2 DEF IInv

\* A caller that moves and is not in the middle of connect(), before or after, explains
\* as much as it did.
LEMMA OutsideStep ==
  ASSUME IInv, NEW p \in Caller, NEW label \in PC \ ({"opening"} \cup Finishing),
         Goto(p, label), pc[p] \notin Finishing,
         UNCHANGED <<connection, channel, events, opened, raced, abandoned>>
  PROVE  IInv'
<1> USE DEF IInv, Goto
<1>1. Types'
  BY DEF Types
<1>2. OpensAlone'
  BY DEF OpensAlone, Types
<1>3. PartsInOrder'
  <2>1. \A q \in Caller : pc'[q] \in Finishing <=> pc[q] \in Finishing
    BY DEF Types
  <2>2. QED
    BY <2>1 DEF PartsInOrder, HalfOpenIsExplained, HalfOpen, Finishing
<1>4. QED
  BY <1>1, <1>2, <1>3

\* Every await of connect(), every publish and every failure keeps IInv.
LEMMA StepIInv == ASSUME IInv, [Next]_vars PROVE IInv'
<1> USE CallerSets DEF IInv, PC, Connecting, Consuming, Finishing
<1>1. ASSUME NEW p \in Caller, BeginConnecting(p) PROVE IInv'
  <2> USE <1>1 DEF BeginConnecting, Ready, AlreadyConnected, Goto
  <2>1. Types'
    BY DEF Types
  <2>2. OpensAlone'
    BY DEF OpensAlone, Types
  <2>3. PartsInOrder'
    BY DEF PartsInOrder, HalfOpenIsExplained, HalfOpen, Types
  <2>4. QED
    BY <2>1, <2>2, <2>3
<1>2. ASSUME NEW p \in Caller, BeginPublishing(p) \/ AssertFails(p) \/ Publish(p) PROVE IInv'
  BY <1>2, OutsideStep DEF BeginPublishing, AssertFails, Publish, Ready
<1>3. ASSUME NEW p \in Caller, Open(p) PROVE IInv'
  <2> USE <1>3 DEF Open, Goto
  <2>1. Types'
    BY DEF Types
  <2>2. OpensAlone'
    BY DEF OpensAlone, Types
  <2>3. pc'[p] \in Finishing /\ \A q \in Caller : q # p => pc'[q] = pc[q]
    BY DEF Types
  <2>4. PartsInOrder'
    BY <2>3 DEF PartsInOrder, HalfOpenIsExplained, Types
  <2>5. QED
    BY <2>1, <2>2, <2>4
<1>4. ASSUME NEW p \in Caller, OpenChannel(p) \/ SetQos(p) \/ DeclareQueue(p) PROVE IInv'
  <2> USE <1>4 DEF OpenChannel, SetQos, DeclareQueue, Goto
  <2>1. /\ pc' \in [Caller -> PC] /\ pc'[p] \in {"qos", "queue", "exchange"}
        /\ \A q \in Caller : q # p => pc'[q] = pc[q]
        /\ \A q \in Caller : pc'[q] = "opening" => pc[q] = "opening"
    BY DEF Types
  <2>2. UNCHANGED <<connection, opened, raced, abandoned>> /\ channel' /\ events' \in BOOLEAN
    BY DEF PartsInOrder, Types
  <2>3. Types' /\ OpensAlone'
    BY <2>1, <2>2 DEF Types, OpensAlone
  <2>4. PartsInOrder'
    BY <2>1, <2>2 DEF PartsInOrder, HalfOpenIsExplained
  <2>5. QED
    BY <2>3, <2>4
<1>5. ASSUME NEW p \in Caller, DeclareExchange(p) PROVE IInv'
  <2> USE <1>5 DEF DeclareExchange, Goto
  <2>1. /\ pc' \in [Caller -> PC] /\ \A q \in Caller : pc'[q] = "opening" => pc[q] = "opening"
        /\ \A q \in Caller : pc'[q] \in Finishing => pc'[q] = pc[q]
    BY DEF Types
  <2>2. UNCHANGED <<connection, opened, raced, abandoned>> /\ channel' /\ events'
    BY DEF PartsInOrder, Types
  <2>3. Types' /\ OpensAlone'
    BY <2>1, <2>2 DEF Types, OpensAlone
  <2>4. PartsInOrder'
    BY <2>1, <2>2 DEF PartsInOrder, HalfOpenIsExplained, HalfOpen
  <2>5. QED
    BY <2>3, <2>4
<1>6. ASSUME NEW p \in Caller, NEW label \in {"gaveUp", "refused"}, Goto(p, label),
             abandoned' = (abandoned \/ pc[p] \in Finishing),
             UNCHANGED <<connection, channel, events, opened, raced>>
      PROVE  IInv'
  <2> USE <1>6 DEF Goto
  <2>1. /\ pc' \in [Caller -> PC] /\ \A q \in Caller : pc'[q] = "opening" => pc[q] = "opening"
        /\ \A q \in Caller : pc'[q] \in Finishing => pc'[q] = pc[q]
        /\ \A q \in Caller : q # p => pc'[q] = pc[q]
    BY DEF Types
  <2>2. Types' /\ OpensAlone'
    BY <2>1 DEF Types, OpensAlone
  <2>3. PartsInOrder'
    BY <2>1 DEF PartsInOrder, HalfOpenIsExplained, HalfOpen
  <2>4. QED
    BY <2>2, <2>3
<1>7. ASSUME NEW p \in Caller, Fail(p) PROVE IInv'
  BY <1>7, <1>6 DEF Fail, FailureLeaves
<1>8. CASE TimeOut
  BY <1>8, <1>6 DEF TimeOut
<1>9. CASE Consume
  BY <1>9, OutsideStep DEF Consume, BeginConsuming, AwaitConsuming
<1>10. CASE Outage \/ BrokerReturns \/ UNCHANGED vars
  BY <1>10 DEF Outage, BrokerReturns, vars, Types, OpensAlone, PartsInOrder,
     HalfOpenIsExplained, HalfOpen
<1> QED
  BY <1>1, <1>2, <1>3, <1>4, <1>5, <1>7, <1>8, <1>9, <1>10 DEF Next, Step

\* The client keeps its types; unless two callers have raced, at most one opens the
\* connection; and connect() sets the parts of the connection in order
\* (core/rabbitmq.py:34).
THEOREM Invariance == Spec => []IInv
  BY InitIInv, StepIInv, PTL DEF Spec

\* connect() opens a second connection only if two callers were inside
\* connect_robust at once (core/rabbitmq.py:34-38).
THEOREM OneConnectionHolds == Spec => []OneConnection
<1>1. IInv => OneConnection
  BY DEF IInv, Types, OpensAlone, OneConnection
<1> QED
  BY <1>1, Invariance, PTL

\* Whatever a publish finds missing (the assertions of core/rabbitmq.py:59 and 66), it is
\* because a caller of connect() is between its awaits, or did not finish them.
THEOREM HalfOpenExplained == Spec => []HalfOpenIsExplained
<1>1. IInv => HalfOpenIsExplained
  BY DEF IInv, PartsInOrder
<1> QED
  BY <1>1, Invariance, PTL

--------------------------------------------------------------------------------
(* How many connections there can be *)

Opening == {p \in Caller : pc[p] = "opening"}

\* With the first connection nobody begins to open another: whoever is still at it
\* is all there will be.
CountInv ==
  /\ ~connection => opened = 0
  /\ connection => opened + Cardinality(Opening) <= Cardinality(Caller)

\* A step that opens nothing, and after which nobody else opens.
LEMMA CountStays ==
  ASSUME IsFiniteSet(Caller), Types, CountInv, UNCHANGED <<connection, opened>>,
         connection => Opening' \subseteq Opening
  PROVE  CountInv'
<1>1. IsFiniteSet(Opening) /\ Cardinality(Opening) \in Nat /\ Cardinality(Caller) \in Nat
  <2>1. Opening \in SUBSET Caller
    BY DEF Opening
  <2>2. QED
    BY <2>1, FS_Subset, FS_CardinalityType
<1>2. CASE connection
  <2>1. Opening' \in SUBSET Opening
    BY <1>2
  <2>2. IsFiniteSet(Opening') /\ Cardinality(Opening') <= Cardinality(Opening)
    BY <1>1, <2>1, FS_Subset
  <2>3. Cardinality(Opening') \in Nat
    BY <2>2, FS_CardinalityType
  <2>4. opened \in Nat
    BY DEF Types
  <2>5. opened + Cardinality(Opening') <= Cardinality(Caller)
    BY <1>1, <1>2, <2>2, <2>3, <2>4 DEF CountInv
  <2>6. QED
    BY <1>2, <2>5 DEF CountInv
<1>3. CASE ~connection
  BY <1>3 DEF CountInv
<1>4. QED
  BY <1>2, <1>3

\* Whoever opens a connection is no longer opening one.
LEMMA CountOpens ==
  ASSUME IsFiniteSet(Caller), Types, CountInv, NEW p \in Caller, Open(p) PROVE CountInv'
<1>1. /\ p \in Opening /\ Opening' = Opening \ {p}
      /\ connection' /\ opened' = opened + 1 /\ opened \in Nat
  BY DEF Open, Opening, Goto, Types, PC, Connecting, Finishing
<1>2. Opening \in SUBSET Caller /\ Opening \ {p} \in SUBSET Caller
  BY DEF Opening
<1>3. /\ IsFiniteSet(Opening) /\ Cardinality(Opening) <= Cardinality(Caller)
      /\ Cardinality(Caller) \in Nat
  BY <1>2, FS_Subset, FS_CardinalityType
<1>4. Cardinality(Opening \ {p}) = Cardinality(Opening) - 1 /\ Cardinality(Opening) \in Nat
  BY <1>1, <1>3, FS_RemoveElement, FS_CardinalityType
<1>5. connection \/ opened = 0
  BY DEF CountInv
<1>6. opened + 1 + (Cardinality(Opening) - 1) <= Cardinality(Caller)
  <2>1. CASE connection
    BY <1>1, <1>3, <1>4, <2>1 DEF CountInv
  <2>2. CASE opened = 0
    BY <1>3, <1>4, <2>2
  <2>3. QED
    BY <1>5, <2>1, <2>2
<1>7. QED
  BY <1>1, <1>4, <1>6 DEF CountInv

\* CountInv is inductive over the types.
LEMMA StepCount ==
  ASSUME IsFiniteSet(Caller), Types, CountInv, [Next]_vars PROVE CountInv'
<1>1. ASSUME NEW p \in Caller, BeginConnecting(p) PROVE CountInv'
  BY <1>1, CountStays DEF BeginConnecting, AlreadyConnected
<1>2. ASSUME NEW p \in Caller, Open(p) PROVE CountInv'
  BY <1>2, CountOpens
<1>3. ASSUME NEW p \in Caller,
             \/ BeginPublishing(p) \/ OpenChannel(p) \/ SetQos(p) \/ DeclareQueue(p)
             \/ DeclareExchange(p) \/ AssertFails(p) \/ Fail(p) \/ Publish(p)
      PROVE  CountInv'
  <2> USE <1>3 DEF BeginPublishing, AssertFails, OpenChannel, SetQos, DeclareQueue, DeclareExchange,
          Fail, FailureLeaves, Publish, Goto
  <2>1. UNCHANGED <<connection, opened>>
    OBVIOUS
  <2>2. Opening' \subseteq Opening
    BY DEF Opening, Types
  <2>3. QED
    BY <2>1, <2>2, CountStays
<1>4. CASE Consume \/ TimeOut
  <2>1. UNCHANGED <<connection, opened>>
    BY <1>4 DEF Consume, BeginConsuming, AwaitConsuming, TimeOut
  <2>2. Opening' \subseteq Opening
    BY <1>4 DEF Consume, BeginConsuming, AwaitConsuming, TimeOut, Goto, Opening, Types
  <2>3. QED
    BY <2>1, <2>2, CountStays
<1>5. ASSUME UNCHANGED <<connection, opened, pc>> PROVE CountInv'
  BY <1>5, CountStays DEF Opening
<1>6. QED
  BY <1>1, <1>2, <1>3, <1>4, <1>5 DEF Next, Step, Outage, BrokerReturns, vars

\* Every reachable state of RabbitConnection is well typed, for any finite set of callers.
\* In particular connect() (core/rabbitmq.py:34-38) has opened at most one connection
\* for each of them, however often they try again and the broker goes away.
THEOREM TypeCorrect == ASSUME IsFiniteSet(Caller) PROVE Spec => []TypeOK
<1> DEFINE Outages == up \in BOOLEAN /\ outages \in 0 .. MaxOutages
<1>1. Init => CountInv /\ Outages
  BY RabbitAssumption DEF Init, CountInv
<1>2. IInv /\ CountInv /\ Outages /\ [Next]_vars => CountInv' /\ Outages'
  <2>1. IInv /\ CountInv /\ [Next]_vars => CountInv'
    BY StepCount DEF IInv
  <2>2. Outages /\ [Next]_vars => Outages'
    <3>1. ASSUME NEW p \in Caller, Step(p) \/ TimeOut PROVE UNCHANGED <<up, outages>>
      BY <3>1 DEF Step, BeginConnecting, BeginPublishing, AssertFails, Open, OpenChannel,
         SetQos, DeclareQueue, DeclareExchange, Fail, TimeOut, Consume, BeginConsuming,
         AwaitConsuming, Publish
    <3>2. ASSUME Outages, Outage \/ BrokerReturns PROVE Outages'
      <4>1. up' \in BOOLEAN
        BY <3>2 DEF Outage, BrokerReturns
      <4>2. outages' = outages \/ (outages < MaxOutages /\ outages' = outages + 1)
        BY <3>2 DEF Outage, BrokerReturns
      <4>3. outages' \in 0 .. MaxOutages
        BY <3>2, <4>2, RabbitAssumption
      <4>4. QED
        BY <4>1, <4>3
    <3>3. QED
      BY <3>1, <3>2, CallerSets DEF Next, vars
  <2>3. QED
    BY <2>1, <2>2
<1>3. IInv /\ CountInv /\ Outages => TypeOK
  <2> SUFFICES ASSUME IInv, CountInv, Outages PROVE TypeOK
    OBVIOUS
  <2>1. Opening \in SUBSET Caller
    BY DEF Opening
  <2>2. Cardinality(Opening) \in Nat /\ Cardinality(Caller) \in Nat
    BY <2>1, FS_Subset, FS_CardinalityType
  <2>3. opened \in Nat /\ connection \in BOOLEAN
    BY DEF IInv, Types
  <2>4. opened \in 0 .. Cardinality(Caller)
    BY <2>2, <2>3 DEF CountInv
  <2>5. QED
    BY <2>4 DEF IInv, Types, TypeOK
<1>4. QED
  BY <1>1, <1>2, <1>3, Invariance, PTL DEF Spec
================================================================================
