----------------------------- MODULE Dashboard_proofs -----------------------------
(***************************************************************************)
(* Proofs about Dashboard for any number of updates, charts, crashes and   *)
(* lost connections: the types, that a chart artifact shows its data, and  *)
(* that neither the reader nor the events of a dashboard go back.          *)
(***************************************************************************)
EXTENDS Dashboard, SequenceTheorems, TLAPS

--------------------------------------------------------------------------------
(* Types *)

\* What the constants give.
LEMMA Constants ==
  /\ MaxUpdates \in Nat /\ MaxCrashes \in Nat /\ MaxDrops \in Nat
  /\ 0 \in Job /\ Job \subseteq Nat
  /\ Charts \cup {<<>>} \subseteq Seq(Name)
<1>1. Charts \subseteq Seq(Name)
  BY DashboardAssumption DEF DashboardAssumption
<1>2. MaxUpdates \in Nat /\ MaxCrashes \in Nat /\ MaxDrops \in Nat
  BY DashboardAssumption DEF DashboardAssumption
<1>3. 0 \in Job /\ Job \subseteq Nat
  BY <1>2 DEF Job
<1>4. <<>> \in Seq(Name)
  OBVIOUS
<1>5. QED
  BY <1>1, <1>2, <1>3, <1>4

\* A function of two arguments changed at one place.
LEMMA ExceptTypes ==
  ASSUME NEW S, NEW T, NEW V, NEW f \in [S -> [T -> V]], NEW x \in S, NEW y \in T, NEW v \in V
  PROVE  [f EXCEPT ![x][y] = v] \in [S -> [T -> V]]
OBVIOUS

\* A sequence without one of its elements.
LEMMA RemoveAtTypes ==
  ASSUME NEW S, NEW s \in Seq(S), NEW i \in 1 .. Len(s)
  PROVE  RemoveAt(s, i) \in Seq(S)
<1>1. SubSeq(s, 1, i - 1) \in Seq(S) /\ SubSeq(s, i + 1, Len(s)) \in Seq(S)
  BY SubSeqProperties
<1>2. QED
  BY <1>1, ConcatProperties DEF RemoveAt

\* Settling a message leaves messages that were there.
LEMMA SettleTypes ==
  ASSUME NEW S, unacked \in Seq(S), NEW u, NEW a, Settle(u, a)
  PROVE  unacked' \in Seq(S)
<1> DEFINE held == {i \in DOMAIN unacked : a = attempts[u] /\ unacked[i] = u}
<1>1. unacked' = unacked \/ \E i \in held : unacked' = RemoveAt(unacked, i)
  BY DEF Settle
<1>2. \A i \in held : i \in 1 .. Len(unacked)
  OBVIOUS
<1> HIDE DEF held
<1>3. QED
  BY <1>1, <1>2, RemoveAtTypes

\* The initial state is well typed.
LEMMA InitTypeOK == Init => TypeOK
BY Constants DEF Init, TypeOK, HandlerPC, Place, Picture, NoPicture

\* Every step keeps the types.
LEMMA NextTypeOK == TypeOK /\ [Next]_vars => TypeOK'
<1> SUFFICES ASSUME TypeOK, [Next]_vars PROVE TypeOK'
  OBVIOUS
<1> USE Constants DEF TypeOK, faultVars, brokerVars, apiVars, chartVars, diskVars, Goto,
        HandlerPC, Place
<1>1. ASSUME Post PROVE TypeOK'
  <2>1. posted + 1 \in Job
    BY <1>1 DEF Post, Job
  <2>2. Append(queue, posted + 1) \in Seq(Job)
    BY <2>1
  <2>3. charts' \in [Job -> Charts \cup {<<>>}]
    BY <1>1 DEF Post
  <2>4. QED
    BY <1>1, <2>1, <2>2, <2>3 DEF Post
<1>2. ASSUME Provision PROVE TypeOK'
  <2>1. queue' \in Seq(Job) /\ unacked' \in Seq(Job)
    BY <1>2 DEF Provision, Take
  <2>2. attempts' \in [Job -> Nat]
    BY <1>2 DEF Provision, Take
  <2>3. QED
    BY <1>2, <2>1, <2>2 DEF Provision
<1>3. ASSUME NEW u \in Job, Store(u) PROVE TypeOK'
  <2>1. queue' \in Seq(Job) /\ unacked' \in Seq(Job)
    BY <1>3 DEF Store, Take
  <2>2. attempts' \in [Job -> Nat] /\ snapshot' \in [Place -> Job]
    BY <1>3 DEF Store, Take
  <2>3. QED
    BY <1>3, <2>1, <2>2 DEF Store
<1>4. ASSUME NEW u \in Job, StoreFails(u) PROVE TypeOK'
  <2>1. queue' \in Seq(Job) /\ attempts' \in [Job -> Nat]
    BY <1>4 DEF StoreFails, Take
  <2>2. QED
    BY <1>4, <2>1 DEF StoreFails
<1>5. ASSUME Crash PROVE TypeOK'
  <2>1. queue' \in Seq(Job) /\ unacked' \in Seq(Job)
    BY <1>5 DEF Crash, Requeue
  <2>2. handler' \in [Job -> [Attempt -> HandlerPC]]
    BY <1>5 DEF Crash
  <2>3. QED
    BY <1>5, <2>1, <2>2, SMTT(30) DEF Crash
<1>6. ASSUME ConnectionLost PROVE TypeOK'
  <2>1. queue' \in Seq(Job) /\ unacked' \in Seq(Job)
    BY <1>6 DEF ConnectionLost, Requeue
  <2>2. QED
    BY <1>6, <2>1, SMTT(30) DEF ConnectionLost
<1>7. ASSUME NEW a \in Attempt, Provisioned(a) PROVE TypeOK'
  <2>1. unacked' \in Seq(Job)
    BY <1>7, SettleTypes DEF Provisioned
  <2>2. QED
    BY <1>7, <2>1 DEF Provisioned
<1>8. ASSUME NEW u \in Job, NEW a \in Attempt, Announce(u, a) PROVE TypeOK'
  BY <1>8 DEF Announce
<1>9. ASSUME NEW u \in Job, NEW a \in Attempt, DrawChart(u, a) PROVE TypeOK'
  <2> DEFINE i == drawn[u][a] + 1
  <2> DEFINE f == Folder(u, a)
  <2> DEFINE n == charts[u][i]
  <2>1. f \in Job \X Attempt /\ i \in 1 .. Len(charts[u])
    BY <1>9, SMTT(30) DEF Folder, DrawChart, MoreCharts
  <2>2. n \in Name /\ <<u, i>> \in Picture
    <3>1. charts[u] \in Seq(Name)
      OBVIOUS
    <3>2. n \in Name
      BY <2>1, <3>1, ElementOfSeq
    <3>3. i \in Nat
      OBVIOUS
    <3>4. QED
      BY <3>2, <3>3 DEF Picture
  <2>3. Output(u, a, i) \subseteq Picture
    <3>1. Output(u, a, i) \subseteq {<<u, i>>, images[f][n]}
      BY DEF Output
    <3>2. images[f] \in [Name -> Picture]
      BY <2>1
    <3>3. images[f][n] \in Picture
      <4> HIDE DEF f, n
      <4>1. QED
        BY <2>2, <3>2
    <3>4. QED
      BY <2>2, <3>1, <3>3
  <2>4. images' = images \/ \E p \in Picture : images' = [images EXCEPT ![f][n] = p]
    BY <1>9, <2>3 DEF DrawChart, Rendered, RenderFailed
  <2>5. images' \in [Job \X Attempt -> [Name -> Picture]]
    <3>1. f \in Job \X Attempt /\ n \in Name
      BY <2>1, <2>2
    <3>2. images \in [Job \X Attempt -> [Name -> Picture]]
      OBVIOUS
    <3> HIDE DEF f, n
    <3>3. ASSUME NEW p \in Picture
          PROVE  [images EXCEPT ![f][n] = p] \in [Job \X Attempt -> [Name -> Picture]]
      BY <3>1, <3>2, ExceptTypes
    <3>4. CASE images' = images
      BY <3>2, <3>4
    <3>5. ASSUME NEW p \in Picture, images' = [images EXCEPT ![f][n] = p]
          PROVE  images' \in [Job \X Attempt -> [Name -> Picture]]
      BY <3>3, <3>5, Zenon
    <3>6. QED
      BY <2>4, <3>4, <3>5
  <2>6. rows' \in [Job -> [Attempt -> SUBSET Nat]]
    <3>1. rows' = rows \/ rows' = [rows EXCEPT ![u][a] = @ \cup {i}]
      BY <1>9 DEF DrawChart, Rendered, RenderFailed
    <3>2. i \in Nat
      OBVIOUS
    <3> HIDE DEF i
    <3>3. rows[u][a] \cup {i} \in SUBSET Nat /\ rows \in [Job -> [Attempt -> SUBSET Nat]]
      BY <3>2, SMTT(30)
    <3> DEFINE x == rows[u][a] \cup {i}
    <3>4. rows' = rows \/ rows' = [rows EXCEPT ![u][a] = x]
      BY <3>1
    <3> HIDE DEF x
    <3>5. [rows EXCEPT ![u][a] = x] \in [Job -> [Attempt -> SUBSET Nat]]
      BY <3>3, ExceptTypes DEF x
    <3>6. QED
      BY <3>3, <3>4, <3>5
  <2>7. drawn' \in [Job -> [Attempt -> Nat]]
    BY <1>9, SMTT(30) DEF DrawChart
  <2>8. QED
    BY <1>9, <2>5, <2>6, <2>7 DEF DrawChart
<1>10. ASSUME NEW u \in Job, NEW a \in Attempt, Return(u, a) PROVE TypeOK'
  <2>1. unacked' \in Seq(Job)
    BY <1>10, SettleTypes DEF Return
  <2>2. QED
    BY <1>10, <2>1 DEF Return
<1>11. ASSUME UNCHANGED vars PROVE TypeOK'
  BY <1>11 DEF vars
<1>12. QED
  BY <1>1, <1>2, <1>3, <1>4, <1>5, <1>6, <1>7, <1>8, <1>9, <1>10, <1>11
     DEF Next, Delivery, HandlerStep

\* Every reachable state is well typed, for any number of updates and faults.
THEOREM TypeCorrect == Spec => []TypeOK
<1>1. QED
  BY InitTypeOK, NextTypeOK, PTL DEF Spec

--------------------------------------------------------------------------------
(* Charts *)

\* What has not been posted is not in the broker and has no handler.
Unposted ==
  /\ queue \in Seq(0 .. posted) /\ unacked \in Seq(0 .. posted)
  /\ \A u \in Job, a \in Attempt : u > posted =>
       handler[u][a] = "none" /\ drawn[u][a] = 0 /\ rows[u][a] = {} /\ charts[u] = <<>>

\* A chart that has not been drawn has no image; one that was has its own or none.
DrawnInv ==
  \A u \in Job, a \in Attempt : DistinctNames(charts[u]) =>
    /\ drawn[u][a] <= Len(charts[u])
    /\ \A i \in rows[u][a] :
         1 <= i /\ i <= drawn[u][a] /\ images[<<u, a>>][charts[u][i]] = <<u, i>>
    /\ \A n \in Name : (\A i \in 1 .. drawn[u][a] : charts[u][i] # n)
                      => images[<<u, a>>][n] = NoPicture

ChartInv == TypeOK /\ Unposted /\ DrawnInv

\* Nothing has been posted or drawn.
LEMMA InitChartInv == Init => ChartInv
<1> SUFFICES ASSUME Init PROVE ChartInv
  OBVIOUS
<1>1. TypeOK
  BY InitTypeOK
<1>2. Unposted
  <2>1. queue = <<0>> /\ unacked = <<>> /\ posted = 0
    BY DEF Init
  <2>2. <<0>> \in Seq(0 .. 0) /\ <<>> \in Seq(0 .. 0)
    OBVIOUS
  <2>3. QED
    BY <2>1, <2>2, Constants DEF Init, Unposted
<1>3. DrawnInv
  BY Constants DEF Init, DrawnInv
<1>4. QED
  BY <1>1, <1>2, <1>3 DEF ChartInv

\* Only what was posted is taken, and only what was taken is worked on.
LEMMA NextUnposted == TypeOK /\ Unposted /\ [Next]_vars => Unposted'
<1> SUFFICES ASSUME TypeOK, Unposted, [Next]_vars PROVE Unposted'
  OBVIOUS
<1> USE Constants DEF TypeOK, Unposted, faultVars, brokerVars, apiVars, chartVars, diskVars, Goto
<1>1. ASSUME Post PROVE Unposted'
  <2>1. posted' = posted + 1 /\ posted \in Nat
    BY <1>1 DEF Post
  <2>2. queue \in Seq(0 .. posted + 1) /\ unacked \in Seq(0 .. posted + 1)
    <3>1. 0 .. posted \subseteq 0 .. posted + 1
      BY <2>1
    <3>2. QED
      BY <3>1, SeqMonotonic
  <2>3. posted + 1 \in 0 .. posted + 1
    BY <2>1
  <2>4. queue' \in Seq(0 .. posted') /\ unacked' \in Seq(0 .. posted')
    BY <1>1, <2>1, <2>2, <2>3 DEF Post
  <2>5. \A u \in Job : u > posted' => charts'[u] = charts[u] /\ u > posted
    BY <1>1, <2>1 DEF Post
  <2>6. QED
    BY <1>1, <2>4, <2>5 DEF Post
<1>2. ASSUME Provision PROVE Unposted'
  <2>1. queue' \in Seq(0 .. posted) /\ unacked' \in Seq(0 .. posted)
    BY <1>2 DEF Provision, Take
  <2>2. \A u \in Job, a \in Attempt : u > posted => handler'[u][a] = handler[u][a]
    BY <1>2 DEF Provision
  <2>3. QED
    BY <1>2, <2>1, <2>2 DEF Provision
<1>3. ASSUME NEW u \in Job, Store(u) PROVE Unposted'
  <2>1. u \in 0 .. posted
    BY <1>3, SMTT(30) DEF Store, Take
  <2>2. queue' \in Seq(0 .. posted) /\ unacked' \in Seq(0 .. posted)
    BY <1>3, <2>1 DEF Store, Take
  <2>3. \A v \in Job, a \in Attempt : v > posted => handler'[v][a] = handler[v][a]
    BY <1>3, <2>1 DEF Store
  <2>4. QED
    BY <1>3, <2>2, <2>3 DEF Store
<1>4. ASSUME NEW u \in Job, StoreFails(u) PROVE Unposted'
  <2>1. u \in 0 .. posted
    BY <1>4 DEF StoreFails, Take
  <2>2. queue' \in Seq(0 .. posted)
    BY <1>4, <2>1 DEF StoreFails, Take
  <2>3. \A v \in Job, a \in Attempt : v > posted => handler'[v][a] = handler[v][a]
    BY <1>4, <2>1 DEF StoreFails
  <2>4. QED
    BY <1>4, <2>2, <2>3, SMTT(30) DEF StoreFails
<1>5. ASSUME Crash PROVE Unposted'
  <2>1. queue' \in Seq(0 .. posted) /\ unacked' \in Seq(0 .. posted)
    BY <1>5 DEF Crash, Requeue
  <2>2. \A u \in Job, a \in Attempt : u > posted => handler'[u][a] = handler[u][a]
    BY <1>5 DEF Crash, Active
  <2>3. QED
    BY <1>5, <2>1, <2>2 DEF Crash
<1>6. ASSUME ConnectionLost PROVE Unposted'
  <2>1. queue' \in Seq(0 .. posted) /\ unacked' \in Seq(0 .. posted)
    BY <1>6 DEF ConnectionLost, Requeue
  <2>2. QED
    BY <1>6, <2>1 DEF ConnectionLost
<1>7. ASSUME NEW a \in Attempt, Provisioned(a) PROVE Unposted'
  <2>1. unacked' \in Seq(0 .. posted)
    BY <1>7, SettleTypes DEF Provisioned
  <2>2. QED
    BY <1>7, <2>1 DEF Provisioned
<1>8. ASSUME NEW u \in Job, NEW a \in Attempt, Announce(u, a) PROVE Unposted'
  <2>1. u <= posted
    BY <1>8 DEF Announce
  <2>2. \A v \in Job, b \in Attempt : v > posted => handler'[v][b] = handler[v][b]
    BY <1>8, <2>1 DEF Announce
  <2>3. UNCHANGED <<posted, queue, unacked, drawn, rows, charts>>
    BY <1>8 DEF Announce
  <2>4. queue' \in Seq(0 .. posted') /\ unacked' \in Seq(0 .. posted')
    BY <2>3
  <2>5. ASSUME NEW v \in Job, NEW b \in Attempt, v > posted'
        PROVE  handler'[v][b] = "none" /\ drawn'[v][b] = 0 /\ rows'[v][b] = {} /\ charts'[v] = <<>>
    <3>1. v > posted /\ drawn' = drawn /\ rows' = rows /\ charts' = charts
      BY <2>3, <2>5
    <3>2. handler[v][b] = "none" /\ drawn[v][b] = 0 /\ rows[v][b] = {} /\ charts[v] = <<>>
      BY ONLY <3>1, Unposted DEF Unposted
    <3>3. handler'[v][b] = handler[v][b]
      BY ONLY <2>2, <3>1
    <3>4. QED
      BY ONLY <3>1, <3>2, <3>3
  <2>6. QED
    BY ONLY <2>4, <2>5 DEF Unposted
<1>9. ASSUME NEW u \in Job, NEW a \in Attempt, DrawChart(u, a) PROVE Unposted'
  <2>1. u <= posted
    BY <1>9 DEF DrawChart
  <2>2. drawn' = [drawn EXCEPT ![u][a] = @ + 1]
    BY <1>9 DEF DrawChart
  <2>3. \/ rows' = rows
        \/ rows' = [rows EXCEPT ![u][a] = @ \cup {drawn[u][a] + 1}]
    BY <1>9 DEF DrawChart, Rendered, RenderFailed
  <2>4. ASSUME NEW v \in Job, NEW b \in Attempt, v > posted
        PROVE  drawn'[v][b] = drawn[v][b] /\ rows'[v][b] = rows[v][b]
    <3>1. v # u
      BY <2>1, <2>4
    <3>2. drawn'[v] = drawn[v] /\ rows'[v] = rows[v]
      BY <2>2, <2>3, <3>1
    <3>3. QED
      BY <3>2
  <2>5. UNCHANGED <<posted, queue, unacked, handler, charts>>
    BY <1>9 DEF DrawChart
  <2>6. queue' \in Seq(0 .. posted') /\ unacked' \in Seq(0 .. posted')
    BY <2>5
  <2>7. ASSUME NEW v \in Job, NEW b \in Attempt, v > posted'
        PROVE  handler'[v][b] = "none" /\ drawn'[v][b] = 0 /\ rows'[v][b] = {} /\ charts'[v] = <<>>
    <3>1. v > posted /\ handler' = handler /\ charts' = charts
      BY <2>5, <2>7
    <3>2. handler[v][b] = "none" /\ drawn[v][b] = 0 /\ rows[v][b] = {} /\ charts[v] = <<>>
      BY ONLY <3>1, Unposted DEF Unposted
    <3>3. drawn'[v][b] = drawn[v][b] /\ rows'[v][b] = rows[v][b]
      BY ONLY <2>4, <3>1
    <3>4. QED
      BY ONLY <3>1, <3>2, <3>3
  <2>8. QED
    BY ONLY <2>6, <2>7 DEF Unposted
<1>10. ASSUME NEW u \in Job, NEW a \in Attempt, Return(u, a) PROVE Unposted'
  <2>1. unacked' \in Seq(0 .. posted)
    BY <1>10, SettleTypes DEF Return
  <2>2. QED
    BY <1>10, <2>1, SMTT(30) DEF Return
<1>11. ASSUME UNCHANGED vars PROVE Unposted'
  BY <1>11 DEF vars
<1>12. QED
  BY <1>1, <1>2, <1>3, <1>4, <1>5, <1>6, <1>7, <1>8, <1>9, <1>10, <1>11
     DEF Next, Delivery, HandlerStep

\* A chart is drawn over nothing: its name is not that of a chart drawn before.
LEMMA DrawChartInv ==
  ASSUME ChartInv, NEW u \in Job, NEW a \in Attempt, DrawChart(u, a)
  PROVE  DrawnInv'
<1> DEFINE i == drawn[u][a] + 1
<1> DEFINE f == <<u, a>>
<1> DEFINE n == charts[u][i]
<1>1. /\ charts' = charts /\ drawn' = [drawn EXCEPT ![u][a] = i]
      /\ i \in 1 .. Len(charts[u]) /\ drawn[u][a] \in Nat
  <2>1. charts[u] \in Seq(Name) /\ drawn[u][a] \in Nat
    BY Constants DEF ChartInv, TypeOK
  <2>2. Len(charts[u]) \in Nat /\ drawn[u][a] < Len(charts[u])
    BY <2>1 DEF DrawChart, MoreCharts
  <2>3. charts' = charts /\ drawn' = [drawn EXCEPT ![u][a] = i]
    BY DEF DrawChart, apiVars
  <2>4. QED
    BY <2>1, <2>2, <2>3
<1>2. \/ images' = images /\ rows' = rows
      \/ /\ \E p \in {<<u, i>>, images[f][n]} :
             /\ images' = [images EXCEPT ![f][n] = p]
             /\ rows' = rows \/ (p # NoPicture /\ rows' = [rows EXCEPT ![u][a] = @ \cup {i}])
  BY DEF DrawChart, Rendered, RenderFailed, Output, Folder
<1>3. n \in Name /\ f \in Job \X Attempt
  <2>1. charts[u] \in Seq(Name)
    BY Constants DEF ChartInv, TypeOK
  <2>2. QED
    BY <1>1, <2>1, ElementOfSeq
<1>4. /\ drawn \in [Job -> [Attempt -> Nat]] /\ rows \in [Job -> [Attempt -> SUBSET Nat]]
      /\ images \in [Job \X Attempt -> [Name -> Picture]]
  BY DEF ChartInv, TypeOK
<1> SUFFICES ASSUME NEW v \in Job, NEW b \in Attempt, DistinctNames(charts[v])
             PROVE  /\ drawn'[v][b] <= Len(charts[v])
                    /\ \A j \in rows'[v][b] :
                         1 <= j /\ j <= drawn'[v][b] /\ images'[<<v, b>>][charts[v][j]] = <<v, j>>
                    /\ \A m \in Name : (\A j \in 1 .. drawn'[v][b] : charts[v][j] # m)
                                      => images'[<<v, b>>][m] = NoPicture
  BY <1>1 DEF DrawnInv
<1>5. CASE v = u /\ b = a
  <2>1. drawn'[u][a] = i /\ i <= Len(charts[u])
    BY <1>1, <1>4
  <2>2. \A j \in 1 .. drawn[u][a] : charts[u][j] # n
    BY <1>1, <1>5 DEF DistinctNames
  <2>3. images[f][n] = NoPicture
    BY <1>3, <1>5, <2>2 DEF ChartInv, DrawnInv
  <2>4. \A m \in Name : m # n => images'[f][m] = images[f][m]
    <3>1. images' = images \/ \E p : images' = [images EXCEPT ![f][n] = p]
      BY <1>2
    <3> HIDE DEF f, n
    <3>2. QED
      BY <1>3, <1>4, <3>1
  <2>5. \A j \in rows[u][a] : 1 <= j /\ j <= drawn[u][a] /\ images[f][charts[u][j]] = <<u, j>>
    BY <1>5 DEF ChartInv, DrawnInv
  <2>6. \A j \in rows[u][a] : charts[u][j] \in Name /\ charts[u][j] # n
    <3>1. charts[u] \in Seq(Name)
      BY Constants DEF ChartInv, TypeOK
    <3>2. \A j \in rows[u][a] : j \in 1 .. drawn[u][a] /\ j \in 1 .. Len(charts[u])
      BY <1>1, <1>4, <2>5
    <3>3. QED
      BY <2>2, <3>1, <3>2, ElementOfSeq
  <2>7. \/ rows'[u][a] = rows[u][a]
        \/ rows'[u][a] = rows[u][a] \cup {i} /\ images'[f][n] = <<u, i>>
    <3>1. CASE rows' = rows
      BY <3>1
    <3>2. CASE images' = [images EXCEPT ![f][n] = <<u, i>>] /\ rows' = [rows EXCEPT ![u][a] = @ \cup {i}]
      <4>1. rows'[u][a] = rows[u][a] \cup {i}
        BY <1>4, <3>2
      <4> DEFINE p == <<u, i>>
      <4>2. images' = [images EXCEPT ![f][n] = p]
        BY <3>2
      <4>3. images'[f][n] = p
        <5> HIDE DEF f, n, p
        <5>1. QED
          BY <1>3, <1>4, <4>2
      <4>4. QED
        BY <4>1, <4>3
    <3>3. QED
      BY <1>2, <2>3, <3>1, <3>2
  <2>8. \A j \in rows'[u][a] :
          1 <= j /\ j <= i /\ images'[f][charts[u][j]] = <<u, j>>
    <3>1. ASSUME NEW j \in rows[u][a]
          PROVE  1 <= j /\ j <= i /\ images'[f][charts[u][j]] = <<u, j>>
      <4>1. j \in Nat /\ 1 <= j /\ j <= drawn[u][a] /\ images[f][charts[u][j]] = <<u, j>>
        BY <1>4, <2>5
      <4>2. images'[f][charts[u][j]] = images[f][charts[u][j]]
        BY <2>4, <2>6
      <4>3. QED
        BY <1>1, <4>1, <4>2
    <3>2. 1 <= i
      BY <1>1
    <3>3. CASE rows'[u][a] = rows[u][a]
      BY <3>1, <3>3
    <3>4. CASE rows'[u][a] = rows[u][a] \cup {i} /\ images'[f][n] = <<u, i>>
      <4>1. ASSUME NEW j \in rows'[u][a], j \notin rows[u][a]
            PROVE  j = i
        BY <3>4, <4>1
      <4>2. images'[f][charts[u][i]] = <<u, i>>
        BY <3>4
      <4>3. i <= i
        BY <1>1
      <4> HIDE DEF i, f, n
      <4>4. QED
        BY <3>1, <3>2, <4>1, <4>2, <4>3
    <3>5. QED
      BY <2>7, <3>3, <3>4
  <2>9. ASSUME NEW m \in Name, \A j \in 1 .. i : charts[u][j] # m
        PROVE  images'[f][m] = NoPicture
    <3>1. m # n /\ \A j \in 1 .. drawn[u][a] : charts[u][j] # m
      BY <1>1, <2>9
    <3>2. images[f][m] = NoPicture
      BY <1>5, <3>1 DEF ChartInv, DrawnInv
    <3>3. QED
      BY <2>4, <3>1, <3>2
  <2>10. QED
    BY <1>5, <2>1, <2>8, <2>9
<1>6. CASE ~(v = u /\ b = a)
  <2>1. drawn'[v][b] = drawn[v][b]
    BY <1>1, <1>4, <1>6
  <2>2. rows'[v][b] = rows[v][b]
    BY <1>2, <1>4, <1>6
  <2>3. images'[<<v, b>>] = images[<<v, b>>]
    <3>1. <<v, b>> # f
      BY <1>6
    <3>2. images' = images \/ \E p : images' = [images EXCEPT ![f][n] = p]
      BY <1>2
    <3>3. <<v, b>> \in Job \X Attempt
      OBVIOUS
    <3> HIDE DEF f, n
    <3>4. QED
      BY <1>4, <3>1, <3>2, <3>3
  <2>4. QED
    BY <2>1, <2>2, <2>3 DEF ChartInv, DrawnInv
<1>7. QED
  BY <1>5, <1>6

\* Nothing but drawing and posting touches charts.
LEMMA NextChartInv == ChartInv /\ [Next]_vars => ChartInv'
<1> SUFFICES ASSUME ChartInv, [Next]_vars PROVE ChartInv'
  OBVIOUS
<1>1. TypeOK' /\ Unposted'
  BY NextTypeOK, NextUnposted DEF ChartInv
<1>2. CASE Post
  <2>1. /\ posted' = posted + 1 /\ posted \in Nat
        /\ UNCHANGED <<drawn, rows, images>>
        /\ \A u \in Job : u # posted + 1 => charts'[u] = charts[u]
    BY <1>2, Constants DEF Post, chartVars, ChartInv, TypeOK
  <2>2. ASSUME NEW u \in Job, NEW a \in Attempt, u = posted + 1
        PROVE  drawn[u][a] = 0 /\ rows[u][a] = {} /\ \A n \in Name : images[<<u, a>>][n] = NoPicture
    <3>1. drawn[u][a] = 0 /\ rows[u][a] = {} /\ charts[u] = <<>>
      BY <2>1, <2>2, Constants DEF ChartInv, Unposted
    <3>2. DistinctNames(charts[u])
      BY <3>1 DEF DistinctNames
    <3>3. QED
      BY <3>1, <3>2 DEF ChartInv, DrawnInv
  <2>3. \A u \in Job : charts'[u] \in Seq(Name)
    BY <1>1, Constants DEF TypeOK
  <2>4. ASSUME NEW u \in Job, NEW a \in Attempt, DistinctNames(charts'[u])
        PROVE  /\ drawn[u][a] <= Len(charts'[u])
               /\ \A i \in rows[u][a] :
                    1 <= i /\ i <= drawn[u][a] /\ images[<<u, a>>][charts'[u][i]] = <<u, i>>
               /\ \A n \in Name : (\A i \in 1 .. drawn[u][a] : charts'[u][i] # n)
                                 => images[<<u, a>>][n] = NoPicture
    <3>1. CASE u = posted + 1
      <4>1. Len(charts'[u]) \in Nat
        BY <2>3
      <4>2. QED
        BY <2>2, <3>1, <4>1
    <3>2. CASE u # posted + 1
      <4>1. charts'[u] = charts[u]
        BY <2>1, <3>2
      <4>2. DistinctNames(charts[u])
        BY <2>4, <4>1
      <4>3. /\ drawn[u][a] <= Len(charts[u])
            /\ \A i \in rows[u][a] :
                 1 <= i /\ i <= drawn[u][a] /\ images[<<u, a>>][charts[u][i]] = <<u, i>>
            /\ \A n \in Name : (\A i \in 1 .. drawn[u][a] : charts[u][i] # n)
                              => images[<<u, a>>][n] = NoPicture
        BY <4>2 DEF ChartInv, DrawnInv
      <4>4. QED
        BY <4>1, <4>3
    <3>3. QED
      BY <3>1, <3>2
  <2>5. DrawnInv'
    BY <2>1, <2>4 DEF DrawnInv
  <2>6. QED
    BY <1>1, <2>5 DEF ChartInv
<1>3. CASE \E u \in Job, a \in Attempt : DrawChart(u, a)
  BY <1>1, <1>3, DrawChartInv DEF ChartInv
<1>4. CASE UNCHANGED <<charts, drawn, rows, images>>
  BY <1>1, <1>4 DEF ChartInv, DrawnInv
<1>5. QED
  BY <1>2, <1>3, <1>4 DEF Next, Delivery, HandlerStep, Provision, Store, StoreFails, Crash,
     ConnectionLost, Provisioned, Announce, Return, vars, apiVars, chartVars

\* A chart artifact never points to the image of another chart or update, through
\* any number of deliveries side by side.
THEOREM ChartsShow == Spec => []ChartsShowTheirData
<1>1. ChartInv => ChartsShowTheirData
  BY DEF ChartInv, DrawnInv, ChartsShowTheirData, Folder
<1>2. QED
  BY <1>1, InitChartInv, NextChartInv, PTL DEF Spec

--------------------------------------------------------------------------------
(* The order of updates *)

\* The jobs that are not settled, in the order of their delivery.
Line == unacked \o queue

Rising(s) == \A i, j \in DOMAIN s : i < j => s[i] < s[j]
NotAhead(n, s) == \A i \in DOMAIN s : n <= s[i]

\* With one message at a time the jobs come in their order, nothing was stored that
\* is later than a job still to come, and, until a connection is lost, the job that
\* is handled is the first of them and nothing later was told.
OneAtATime == Prefetch = 1 =>
  /\ Len(unacked) <= 1
  /\ Rising(Line)
  /\ \A p \in Place : NotAhead(snapshot[p], Line)
  /\ drops = 0 =>
       /\ NotAhead(told, Line)
       /\ \A u \in Job, a \in Attempt :
            Active(handler[u][a]) => unacked = <<u>> /\ a = attempts[u]

\* What a longer or a shorter line keeps.
LEMMA LineFacts ==
  ASSUME NEW s \in Seq(Nat), NEW n \in Nat
  PROVE  /\ Rising(<<>>) /\ NotAhead(n, <<>>)
         /\ s # <<>> /\ Rising(s) => Rising(Tail(s))
         /\ s # <<>> /\ NotAhead(n, s) => NotAhead(n, Tail(s)) /\ n <= Head(s)
         /\ s # <<>> /\ Rising(s) => NotAhead(Head(s), s)
         /\ \A m \in Nat : Rising(s) /\ (\A i \in DOMAIN s : s[i] < m) => Rising(Append(s, m))
         /\ \A m \in Nat : NotAhead(n, s) /\ n <= m => NotAhead(n, Append(s, m))
<1>1. Rising(<<>>) /\ NotAhead(n, <<>>)
  BY DEF Rising, NotAhead
<1>2. ASSUME s # <<>>
      PROVE  /\ Tail(s) \in Seq(Nat) /\ Len(Tail(s)) = Len(s) - 1 /\ Len(s) \in Nat \ {0}
             /\ \A i \in 1 .. Len(s) - 1 : Tail(s)[i] = s[i + 1]
             /\ Head(s) = s[1]
  BY <1>2
<1>3. ASSUME s # <<>>, Rising(s) PROVE Rising(Tail(s))
  <2> DEFINE t == Tail(s)
  <2>1. DOMAIN t = 1 .. Len(s) - 1 /\ \A i \in DOMAIN t : t[i] = s[i + 1] /\ i + 1 \in DOMAIN s
    BY <1>2, <1>3
  <2> HIDE DEF t
  <2>2. \A i, j \in DOMAIN t : i < j => t[i] < t[j]
    BY <1>3, <2>1 DEF Rising
  <2>3. QED
    BY <2>2 DEF Rising, t
<1>4. ASSUME s # <<>>, NotAhead(n, s) PROVE NotAhead(n, Tail(s)) /\ n <= Head(s)
  <2> DEFINE t == Tail(s)
  <2>1. /\ \A i \in DOMAIN t : t[i] = s[i + 1] /\ i + 1 \in DOMAIN s
        /\ Head(s) = s[1] /\ 1 \in DOMAIN s
    BY <1>2, <1>4
  <2> HIDE DEF t
  <2>2. \A i \in DOMAIN t : n <= t[i]
    BY <1>4, <2>1 DEF NotAhead
  <2>3. QED
    BY <1>4, <2>1, <2>2 DEF NotAhead, t
<1>5. ASSUME s # <<>>, Rising(s) PROVE NotAhead(Head(s), s)
  <2>1. Head(s) = s[1] /\ s[1] \in Nat /\ 1 \in DOMAIN s
    BY <1>2, <1>5
  <2>2. \A i \in DOMAIN s : i = 1 \/ s[1] < s[i]
    BY <1>5, <2>1 DEF Rising
  <2>3. \A i \in DOMAIN s : s[i] \in Nat
    OBVIOUS
  <2>4. QED
    BY <2>1, <2>2, <2>3 DEF NotAhead
<1>6. ASSUME NEW m \in Nat
      PROVE  LET t == Append(s, m) IN
             /\ DOMAIN t = 1 .. Len(s) + 1 /\ t[Len(s) + 1] = m /\ Len(s) \in Nat
             /\ \A i \in 1 .. Len(s) : t[i] = s[i] /\ i \in DOMAIN s
  OBVIOUS
<1>7. ASSUME NEW m \in Nat, Rising(s), \A i \in DOMAIN s : s[i] < m PROVE Rising(Append(s, m))
  <2> DEFINE t == Append(s, m)
  <2>1. /\ DOMAIN t = 1 .. Len(s) + 1 /\ t[Len(s) + 1] = m /\ Len(s) \in Nat
        /\ \A i \in 1 .. Len(s) : t[i] = s[i] /\ i \in DOMAIN s
    BY <1>6
  <2> HIDE DEF t
  <2> SUFFICES ASSUME NEW i \in DOMAIN t, NEW j \in DOMAIN t, i < j PROVE t[i] < t[j]
    BY DEF Rising, t
  <2>2. i \in 1 .. Len(s)
    BY <2>1
  <2>3. CASE j = Len(s) + 1
    BY <1>7, <2>1, <2>2, <2>3
  <2>4. CASE j # Len(s) + 1
    <3>1. j \in 1 .. Len(s)
      BY <2>1, <2>4
    <3>2. QED
      BY <1>7, <2>1, <2>2, <3>1 DEF Rising
  <2>5. QED
    BY <2>3, <2>4
<1>8. ASSUME NEW m \in Nat, NotAhead(n, s), n <= m PROVE NotAhead(n, Append(s, m))
  <2> DEFINE t == Append(s, m)
  <2>1. /\ DOMAIN t = 1 .. Len(s) + 1 /\ t[Len(s) + 1] = m /\ Len(s) \in Nat
        /\ \A i \in 1 .. Len(s) : t[i] = s[i] /\ i \in DOMAIN s
    BY <1>6
  <2> HIDE DEF t
  <2>2. \A i \in DOMAIN t : i = Len(s) + 1 \/ i \in 1 .. Len(s)
    BY <2>1
  <2>3. QED
    BY <1>8, <2>1, <2>2 DEF NotAhead, t
<1>9. QED
  BY <1>1, <1>3, <1>4, <1>5, <1>7, <1>8

\* The line is one of jobs that were posted.
LEMMA LineTypes ==
  ASSUME TypeOK, Unposted
  PROVE  /\ Line \in Seq(Nat) /\ \A i \in DOMAIN Line : Line[i] <= posted
         /\ queue \in Seq(Nat) /\ unacked \in Seq(Nat) /\ posted \in Nat
<1>1. posted \in Nat
  BY Constants DEF TypeOK
<1>2. queue \in Seq(0 .. posted) /\ unacked \in Seq(0 .. posted)
  BY DEF Unposted
<1>3. Line \in Seq(0 .. posted)
  BY <1>2 DEF Line
<1>4. \A i \in DOMAIN Line : Line[i] \in 0 .. posted
  <2>1. DOMAIN Line = 1 .. Len(Line)
    BY <1>3
  <2>2. QED
    BY <1>3, <2>1, ElementOfSeq
<1>5. 0 .. posted \subseteq Nat
  BY <1>1
<1>6. Line \in Seq(Nat) /\ queue \in Seq(Nat) /\ unacked \in Seq(Nat)
  BY <1>2, <1>3, <1>5, SeqMonotonic
<1>7. QED
  BY <1>1, <1>4, <1>6

\* The first of the line is settled, or nothing is.
LEMMA SettleLine ==
  ASSUME TypeOK, Unposted, Len(unacked) <= 1, NEW u \in Job, NEW a \in Attempt, Settle(u, a),
         queue' = queue
  PROVE  /\ \/ unacked' = unacked /\ ~(unacked = <<u>> /\ a = attempts[u])
            \/ unacked' = <<>> /\ unacked # <<>>
         /\ Line' = Line \/ (Line # <<>> /\ Line' = Tail(Line))
         /\ Len(unacked') <= 1
<1>1. unacked \in Seq(Nat) /\ queue \in Seq(Nat)
  BY LineTypes
<1> DEFINE held == {i \in DOMAIN unacked : a = attempts[u] /\ unacked[i] = u}
<1>2. CASE held = {}
  <2>1. unacked' = unacked
    BY <1>2 DEF Settle
  <2>2. ~(unacked = <<u>> /\ a = attempts[u])
    <3> SUFFICES ASSUME unacked = <<u>>, a = attempts[u] PROVE FALSE
      OBVIOUS
    <3>1. 1 \in DOMAIN unacked /\ unacked[1] = u
      OBVIOUS
    <3>2. QED
      BY <1>2, <3>1
  <2>3. QED
    BY <2>1, <2>2 DEF Line
<1>3. CASE held # {}
  <2>1. PICK i \in held : unacked' = RemoveAt(unacked, i)
    BY <1>3 DEF Settle
  <2>2. i = 1 /\ Len(unacked) = 1
    <3> DEFINE n == Len(unacked)
    <3>1. i \in 1 .. n /\ n \in Nat /\ n <= 1
      BY <1>1
    <3> HIDE DEF n
    <3>2. i = 1 /\ n = 1
      BY <3>1
    <3>3. QED
      BY <3>2 DEF n
  <2>3. unacked' = <<>>
    <3>1. unacked' = SubSeq(unacked, 1, 0) \o SubSeq(unacked, 2, 1)
      BY <2>1, <2>2 DEF RemoveAt
    <3>2. SubSeq(unacked, 1, 0) = <<>> /\ SubSeq(unacked, 2, 1) = <<>>
      BY <1>1
    <3>3. QED
      BY <3>1, <3>2
  <2>4. unacked = <<unacked[1]>>
    BY <1>1, <2>2
  <2>5. Line' = queue
    BY <1>1, <2>3 DEF Line
  <2>6. Line # <<>> /\ Tail(Line) = queue
    <3>1. PICK x \in Nat : unacked = <<x>>
      <4>1. unacked[1] \in Nat
        BY <1>1, <2>2
      <4>2. QED
        BY <2>4, <4>1
    <3>2. Line = <<x>> \o queue
      BY <3>1 DEF Line
    <3>3. <<x>> \o queue # <<>> /\ Tail(<<x>> \o queue) = queue
      <4>1. <<x>> \o queue \in Seq(Nat) /\ Len(<<x>> \o queue) = Len(queue) + 1 /\ Len(queue) \in Nat
        BY <1>1, <3>1
      <4>2. \A j \in 1 .. Len(queue) : (<<x>> \o queue)[j + 1] = queue[j]
        BY <1>1, <3>1
      <4> DEFINE t == <<x>> \o queue
      <4>3. t \in Seq(Nat) /\ Len(t) = Len(queue) + 1
        BY <4>1
      <4> HIDE DEF t
      <4>4. t # <<>> /\ Tail(t) \in Seq(Nat) /\ Len(Tail(t)) = Len(queue)
            /\ \A j \in 1 .. Len(queue) : Tail(t)[j] = t[j + 1]
        BY <4>1, <4>3
      <4>5. \A j \in 1 .. Len(queue) : Tail(t)[j] = queue[j]
        BY <4>2, <4>4 DEF t
      <4>6. Tail(t) = queue
        BY <1>1, <4>4, <4>5, SeqEqual
      <4>7. QED
        BY <4>4, <4>6 DEF t
    <3>4. QED
      BY <3>2, <3>3
  <2>7. unacked # <<>> /\ Len(unacked') <= 1
    BY <2>2, <2>3
  <2>8. QED
    BY <2>3, <2>5, <2>6, <2>7
<1>4. QED
  BY <1>2, <1>3

\* The next job is taken from the head of the line.
LEMMA TakeLine ==
  ASSUME TypeOK, Unposted, Prefetch = 1, NEW u, Take(u)
  PROVE  /\ unacked = <<>> /\ Line = queue /\ Line # <<>>
         /\ u = Head(Line) /\ queue' = Tail(Line)
         /\ unacked' = Append(unacked, u) => unacked' = <<u>> /\ Line' = Line
         /\ unacked' = unacked => unacked' = <<>> /\ Line' = Tail(Line)
<1>1. unacked \in Seq(Nat) /\ queue \in Seq(Nat)
  BY LineTypes
<1>2. Len(unacked) < 1 /\ Len(unacked) \in Nat
  BY <1>1 DEF Take
<1>3. unacked = <<>>
  BY <1>1, <1>2
<1>4. Line = queue /\ queue # <<>> /\ u = Head(queue) /\ queue' = Tail(queue)
  BY <1>1, <1>3 DEF Line, Take
<1>5. Tail(queue) \in Seq(Nat) /\ <<Head(queue)>> \o Tail(queue) = queue
  BY <1>1, <1>4
<1>6. ASSUME unacked' = Append(unacked, u) PROVE unacked' = <<u>> /\ Line' = Line
  <2>1. unacked' = <<u>>
    BY <1>3, <1>6
  <2>2. QED
    BY <1>4, <1>5, <2>1 DEF Line
<1>7. ASSUME unacked' = unacked PROVE unacked' = <<>> /\ Line' = Tail(Line)
  BY <1>3, <1>4, <1>5, <1>7 DEF Line
<1>8. QED
  BY <1>3, <1>4, <1>6, <1>7

\* A returned job is in its place again.
LEMMA RequeueLine ==
  ASSUME TypeOK, Unposted, Requeue PROVE Line' = Line /\ unacked' = <<>>
<1>1. Line \in Seq(Nat) /\ unacked' = <<>> /\ queue' = Line
  BY LineTypes DEF Requeue, Line
<1>2. QED
  BY <1>1 DEF Line

\* A job is posted at the end of the line, later than all of it.
LEMMA PostLine ==
  ASSUME TypeOK, Unposted, Post
  PROVE  Line' = Append(Line, posted + 1) /\ unacked' = unacked
<1>1. unacked \in Seq(Nat) /\ queue \in Seq(Nat) /\ posted \in Nat
  BY LineTypes
<1>2. queue' = Append(queue, posted + 1) /\ unacked' = unacked
  BY DEF Post
<1>3. unacked \o Append(queue, posted + 1) = Append(unacked \o queue, posted + 1)
  <2>1. PICK s \in Seq(Nat), t \in Seq(Nat), x \in Nat : s = unacked /\ t = queue /\ x = posted + 1
    BY <1>1
  <2>2. <<x>> \in Seq(Nat) /\ s \o t \in Seq(Nat)
    OBVIOUS
  <2>3. Append(t, x) = t \o <<x>> /\ Append(s \o t, x) = (s \o t) \o <<x>>
    BY <2>2, AppendIsConcat
  <2>4. s \o (t \o <<x>>) = (s \o t) \o <<x>>
    BY <2>2, ConcatAssociative
  <2>5. QED
    BY <2>1, <2>3, <2>4
<1>4. QED
  BY <1>2, <1>3 DEF Line

\* Nothing is stored or told that was not posted.
NotPosted == (\A p \in Place : snapshot[p] <= posted) /\ told <= posted

\* Handlers work on what was posted.
LEMMA NextNotPosted == TypeOK /\ Unposted /\ NotPosted /\ [Next]_vars => NotPosted'
<1> SUFFICES ASSUME TypeOK, Unposted, NotPosted, [Next]_vars PROVE NotPosted'
  OBVIOUS
<1>1. /\ snapshot \in [Place -> Job] /\ told \in Nat /\ posted \in Nat /\ home \in Place
      /\ \A p \in Place : snapshot[p] \in Nat
  BY Constants DEF TypeOK
<1> USE DEF faultVars, brokerVars, apiVars, chartVars, diskVars
<1>2. CASE UNCHANGED <<snapshot, told>> /\ posted' \in {posted, posted + 1}
  BY <1>1, <1>2 DEF NotPosted
<1>3. ASSUME NEW u \in Job, Store(u) PROVE NotPosted'
  <2>1. u <= posted
    <3>1. queue \in Seq(0 .. posted) /\ queue # <<>> /\ u = Head(queue)
      BY <1>3 DEF Unposted, Store, Take
    <3>2. u \in 0 .. posted
      <4> DEFINE S == 0 .. posted
      <4>1. queue \in Seq(S) /\ queue # <<>> /\ u = Head(queue)
        BY <3>1
      <4> HIDE DEF S
      <4>2. u \in S
        BY <4>1
      <4>3. QED
        BY <4>2 DEF S
    <3>3. QED
      BY <3>2
  <2>2. UNCHANGED <<posted, told>> /\ snapshot' = [snapshot EXCEPT ![home] = u]
    BY <1>3 DEF Store
  <2>3. QED
    BY <1>1, <2>1, <2>2 DEF NotPosted
<1>4. ASSUME NEW u \in Job, NEW a \in Attempt, Announce(u, a) PROVE NotPosted'
  <2>1. u <= posted
    <3>1. handler[u][a] # "none" /\ u \in Nat
      BY <1>4, Constants DEF Announce
    <3>2. QED
      BY <1>1, <3>1 DEF Unposted
  <2>2. UNCHANGED <<posted, snapshot>> /\ told' \in {told, u}
    BY <1>4 DEF Announce
  <2>3. QED
    BY <1>1, <2>1, <2>2 DEF NotPosted
<1>5. Post => UNCHANGED <<snapshot, told>> /\ posted' \in {posted, posted + 1}
  BY DEF Post
<1>6. QED
  BY <1>2, <1>3, <1>4, <1>5 DEF Next, Delivery, HandlerStep, Provision, StoreFails, Crash,
     ConnectionLost, Provisioned, DrawChart, Return, vars

\* How a step moves the line, what is stored and what is told.
LEMMA NextOneAtATime ==
  TypeOK /\ Unposted /\ NotPosted /\ OneAtATime /\ [Next]_vars =>
    /\ OneAtATime'
    /\ Prefetch = 1 =>
         /\ View' >= View \/ (drops > 0 /\ home' # home)
         /\ drops' = 0 => told' >= told
<1> SUFFICES ASSUME TypeOK, Unposted, NotPosted, OneAtATime, [Next]_vars, Prefetch = 1
             PROVE  /\ OneAtATime'
                    /\ View' >= View \/ (drops > 0 /\ home' # home)
                    /\ drops' = 0 => told' >= told
  BY DEF OneAtATime
<1> DEFINE Ordered ==
      /\ OneAtATime'
      /\ View' >= View \/ (drops > 0 /\ home' # home)
      /\ drops' = 0 => told' >= told
<1>0. /\ snapshot \in [Place -> Job] /\ told \in Nat /\ home \in Place
      /\ \A p \in Place : snapshot[p] \in Nat
      /\ handler \in [Job -> [Attempt -> HandlerPC]] /\ attempts \in [Job -> Nat]
      /\ drops \in Nat
  <2>1. drops \in Nat
    BY Constants DEF TypeOK
  <2>2. QED
    BY <2>1, Constants DEF TypeOK
<1>1. /\ Len(unacked) <= 1 /\ Rising(Line)
      /\ \A p \in Place : NotAhead(snapshot[p], Line)
      /\ drops = 0 => NotAhead(told, Line)
      /\ drops = 0 => \A u \in Job, a \in Attempt :
           Active(handler[u][a]) => unacked = <<u>> /\ a = attempts[u]
  BY DEF OneAtATime
<1>2. /\ Line \in Seq(Nat) /\ posted \in Nat /\ \A i \in DOMAIN Line : Line[i] <= posted
      /\ unacked \in Seq(Nat)
  BY LineTypes
<1>3. View \in Nat
  BY <1>0 DEF View
\* A line that has lost its first, or nothing, is bound by what it was bound by.
<1>4. ASSUME Line' = Line \/ (Line # <<>> /\ Line' = Tail(Line))
      PROVE  Rising(Line') /\ \A n \in Nat : NotAhead(n, Line) => NotAhead(n, Line')
  <2>1. PICK s \in Seq(Nat) : s = Line
    BY <1>2
  <2>2. s # <<>> => /\ Rising(s) => Rising(Tail(s))
                    /\ \A n \in Nat : NotAhead(n, s) => NotAhead(n, Tail(s))
    BY LineFacts
  <2>3. CASE Line' = Line
    BY <1>1, <2>3
  <2>4. CASE Line # <<>> /\ Line' = Tail(Line)
    <3>1. PICK t : t = Tail(s)
      OBVIOUS
    <3>2. Line' = t
      BY <2>1, <2>4, <3>1
    <3>3. QED
      BY <1>1, <2>1, <2>2, <2>4, <3>1, <3>2
  <2>5. QED
    BY <1>4, <2>3, <2>4
\* A step that stores and tells nothing.
<1>5. ASSUME Line' = Line \/ (Line # <<>> /\ Line' = Tail(Line)), Len(unacked') <= 1,
             snapshot' = snapshot, home' = home, told' = told, drops' >= drops, drops' \in Nat,
             drops' = 0 => \A u \in Job, a \in Attempt :
                Active(handler'[u][a]) => unacked' = <<u>> /\ a = attempts'[u]
      PROVE  Ordered
  <2>1. Rising(Line') /\ \A p \in Place : NotAhead(snapshot'[p], Line')
    BY <1>0, <1>1, <1>4, <1>5
  <2>2. drops' = 0 => drops = 0 /\ NotAhead(told', Line')
    BY <1>0, <1>1, <1>4, <1>5
  <2>3. OneAtATime'
    BY <1>5, <2>1, <2>2 DEF OneAtATime
  <2>4. View' = View
    BY <1>5 DEF View
  <2>5. QED
    BY <1>0, <1>3, <1>5, <2>3, <2>4
<1> USE DEF faultVars, brokerVars, apiVars, chartVars, diskVars, Goto
\* Nothing is active when a job is taken.
<1>6. ASSUME NEW u, Take(u), drops = 0, NEW v \in Job, NEW a \in Attempt
      PROVE  ~Active(handler[v][a])
  <2>1. unacked = <<>>
    BY <1>6, TakeLine
  <2>2. <<>> # <<v>>
    OBVIOUS
  <2>3. QED
    BY <1>1, <1>6, <2>1, <2>2
<1>7. ASSUME NEW u \in Job, Take(u), NEW pc,
             handler' = [handler EXCEPT ![u][attempts[u] + 1] = pc], drops = 0,
             NEW v \in Job, NEW a \in Attempt, Active(handler'[v][a])
      PROVE  v = u /\ a = attempts'[u] /\ Active(pc)
  <2>1. attempts'[u] = attempts[u] + 1
    BY <1>0, <1>7 DEF Take
  <2>2. CASE v = u /\ a = attempts[u] + 1
    <3>1. handler'[v][a] = pc
      BY <1>0, <1>7, <2>2
    <3>2. QED
      BY <1>7, <2>1, <2>2, <3>1
  <2>3. CASE ~(v = u /\ a = attempts[u] + 1)
    <3>1. handler'[v][a] = handler[v][a]
      BY <1>0, <1>7, <2>3
    <3>2. QED
      BY <1>6, <1>7, <3>1
  <2>4. QED
    BY <2>2, <2>3
<1>8. CASE Post
  <2>1. Line' = Append(Line, posted + 1) /\ unacked' = unacked
    BY <1>8, PostLine
  <2>2. UNCHANGED <<snapshot, home, told, drops, handler, attempts>>
    BY <1>8 DEF Post
  <2>3. PICK s \in Seq(Nat), m \in Nat : s = Line /\ m = posted + 1
    BY <1>2
  <2>4. /\ Rising(s) => Rising(Append(s, m))
        /\ \A n \in Nat : NotAhead(n, s) /\ n <= m => NotAhead(n, Append(s, m))
    <3>1. \A i \in DOMAIN s : s[i] < m
      <4>1. \A i \in DOMAIN s : s[i] <= posted /\ s[i] \in Nat
        BY <1>2, <2>3
      <4>2. QED
        BY <1>2, <2>3, <4>1
    <3>2. QED
      BY <3>1, LineFacts
  <2>5. PICK t : t = Append(s, m)
    OBVIOUS
  <2>6. Line' = t
    BY <2>1, <2>3, <2>5
  <2>7. Rising(Line')
    BY <1>1, <2>3, <2>4, <2>5, <2>6
  <2>8. ASSUME NEW n \in Nat, n <= posted, NotAhead(n, Line) PROVE NotAhead(n, Line')
    <3>1. n <= m
      BY <1>2, <2>3, <2>8
    <3>2. QED
      BY <2>3, <2>4, <2>5, <2>6, <2>8, <3>1
  <2>9. \A p \in Place : NotAhead(snapshot'[p], Line')
    BY <1>0, <1>1, <2>2, <2>8 DEF NotPosted
  <2>10. drops' = 0 => NotAhead(told', Line')
    BY <1>0, <1>1, <2>2, <2>8 DEF NotPosted
  <2>11. OneAtATime'
    <3>1. drops' = 0 => \A u \in Job, a \in Attempt :
            Active(handler'[u][a]) => unacked' = <<u>> /\ a = attempts'[u]
      BY <1>1, <2>1, <2>2
    <3>2. QED
      BY <1>1, <2>1, <2>7, <2>9, <2>10, <3>1 DEF OneAtATime
  <2>12. View' = View
    BY <2>2 DEF View
  <2>13. QED
    BY <1>0, <1>3, <2>2, <2>11, <2>12
<1>9. CASE Provision
  <2>1. Take(0) /\ unacked' = Append(unacked, 0) /\ handler' = [handler EXCEPT ![0][attempts[0] + 1] = "provisioning"]
        /\ UNCHANGED <<snapshot, home, told, drops>>
    BY <1>9 DEF Provision
  <2>2. Line' = Line /\ unacked' = <<0>> /\ Len(unacked') <= 1
    BY <2>1, TakeLine
  <2>3. ASSUME drops = 0, NEW v \in Job, NEW a \in Attempt, Active(handler'[v][a])
        PROVE  unacked' = <<v>> /\ a = attempts'[v]
    BY <1>7, <2>1, <2>2, <2>3, Constants
  <2>4. QED
    BY <1>0, <1>5, <2>1, <2>2, <2>3
<1>10. ASSUME NEW u \in Job, Store(u) PROVE Ordered
  <2>1. /\ Take(u) /\ unacked' = Append(unacked, u) /\ handler' = [handler EXCEPT ![u][attempts[u] + 1] = "announcing"]
        /\ snapshot' = [snapshot EXCEPT ![home] = u]
        /\ UNCHANGED <<home, told, drops>>
    BY <1>10 DEF Store
  <2>2. Line' = Line /\ unacked' = <<u>> /\ Len(unacked') <= 1 /\ u = Head(Line) /\ Line # <<>>
    BY <2>1, TakeLine
  <2>3. ASSUME drops = 0, NEW v \in Job, NEW a \in Attempt, Active(handler'[v][a])
        PROVE  unacked' = <<v>> /\ a = attempts'[v]
    BY <1>7, <2>1, <2>2, <2>3
  <2>4. NotAhead(u, Line)
    BY <1>1, <1>2, <2>2, LineFacts
  <2>5. snapshot[home] <= u
    <3>1. PICK n \in Nat, s \in Seq(Nat) : n = snapshot[home] /\ s = Line
      BY <1>0, <1>2
    <3>2. NotAhead(n, s) /\ s # <<>>
      BY <1>0, <1>1, <2>2, <3>1
    <3>3. n <= Head(s)
      BY <3>2, LineFacts
    <3>4. QED
      BY <2>2, <3>1, <3>3
  <2>6. \A p \in Place : NotAhead(snapshot'[p], Line')
    BY <1>0, <1>1, <2>1, <2>2, <2>4
  <2>7. Rising(Line') /\ (drops' = 0 => NotAhead(told', Line'))
    BY <1>1, <2>1, <2>2
  <2>8. OneAtATime'
    BY <2>1, <2>2, <2>3, <2>6, <2>7 DEF OneAtATime
  <2>9. View' = u /\ View = snapshot[home] /\ u \in Nat
    BY <1>0, <2>1, Constants DEF View
  <2>10. QED
    BY <1>0, <1>3, <2>1, <2>5, <2>8, <2>9
<1>11. ASSUME NEW u \in Job, StoreFails(u) PROVE Ordered
  <2>1. /\ Take(u) /\ unacked' = unacked /\ handler' = [handler EXCEPT ![u][attempts[u] + 1] = "raised"]
        /\ UNCHANGED <<snapshot, home, told, drops>>
    BY <1>11 DEF StoreFails
  <2>2. Line # <<>> /\ Line' = Tail(Line) /\ Len(unacked') <= 1
    BY <1>1, <2>1, TakeLine
  <2>3. ASSUME drops = 0, NEW v \in Job, NEW a \in Attempt, Active(handler'[v][a])
        PROVE  FALSE
    <3>1. Active("raised")
      BY <1>7, <2>1, <2>3
    <3>2. QED
      BY <3>1 DEF Active
  <2>4. QED
    BY <1>0, <1>5, <2>1, <2>2, <2>3
<1>12. CASE Crash
  <2>1. /\ Requeue /\ UNCHANGED <<snapshot, home, told, drops, attempts>>
        /\ \A u \in Job, a \in Attempt : ~Active(handler'[u][a])
    BY <1>12 DEF Crash, Active
  <2>2. Line' = Line /\ unacked' = <<>>
    BY <2>1, RequeueLine
  <2>3. Len(unacked') <= 1
    BY <2>2
  <2>4. QED
    BY <1>0, <1>5, <2>1, <2>2, <2>3
<1>13. CASE ConnectionLost
  <2>1. Requeue /\ UNCHANGED <<snapshot, home, told>> /\ drops' = drops + 1
    BY <1>13 DEF ConnectionLost
  <2>2. Line' = Line /\ unacked' = <<>>
    BY <2>1, RequeueLine
  <2>3. Len(unacked') <= 1 /\ drops' \in Nat /\ drops' >= drops /\ drops' # 0
    BY <1>0, <2>1, <2>2
  <2>4. QED
    BY <1>5, <2>1, <2>2, <2>3
\* A handler that ends settles its message, if its connection has it still.
<1>14. ASSUME NEW u \in Job, NEW a \in Attempt, Settle(u, a), queue' = queue, attempts' = attempts,
              handler' = [handler EXCEPT ![u][a] = "returned"], drops = 0,
              NEW v \in Job, NEW b \in Attempt, Active(handler'[v][b]), Active(handler[u][a])
       PROVE  FALSE
  <2>1. unacked = <<u>> /\ a = attempts[u]
    BY <1>1, <1>14
  <2>2. ~Active("returned")
    BY DEF Active
  <2>3. ~(v = u /\ b = a)
    <3>1. handler'[u][a] = "returned"
      BY <1>0, <1>14
    <3>2. QED
      BY <1>14, <2>2, <3>1
  <2>4. handler'[v][b] = handler[v][b]
    BY <1>0, <1>14, <2>3
  <2>5. unacked = <<v>> /\ b = attempts[v]
    BY <1>1, <1>14, <2>4
  <2>6. v = u
    <3>1. <<u>>[1] = u /\ <<v>>[1] = v
      OBVIOUS
    <3>2. QED
      BY <2>1, <2>5, <3>1
  <2>7. QED
    BY <2>1, <2>3, <2>5, <2>6
<1>15. ASSUME NEW a \in Attempt, Provisioned(a) PROVE Ordered
  <2>1. /\ handler[0][a] = "provisioning" /\ handler' = [handler EXCEPT ![0][a] = "returned"]
        /\ home' \in {home, "own"} /\ Settle(0, a)
        /\ UNCHANGED <<queue, attempts, snapshot, told, drops>>
    BY <1>15 DEF Provisioned
  <2>2. (Line' = Line \/ (Line # <<>> /\ Line' = Tail(Line))) /\ Len(unacked') <= 1
    BY <1>1, <2>1, SettleLine, Constants
  <2>3. Active(handler[0][a])
    BY <2>1 DEF Active
  <2>4. ASSUME drops = 0, NEW v \in Job, NEW b \in Attempt, Active(handler'[v][b]) PROVE FALSE
    BY <1>14, <2>1, <2>3, <2>4, Constants
  <2>5. CASE home' = home
    BY <1>0, <1>5, <2>1, <2>2, <2>4, <2>5
  <2>6. CASE home' # home
    <3>1. Rising(Line') /\ \A p \in Place : NotAhead(snapshot'[p], Line')
      BY <1>0, <1>1, <1>4, <2>1, <2>2
    <3>2. drops' = 0 => NotAhead(told', Line')
      BY <1>0, <1>1, <1>4, <2>1, <2>2
    <3>3. OneAtATime'
      BY <2>1, <2>2, <2>4, <3>1, <3>2 DEF OneAtATime
    <3>4. ASSUME drops = 0 PROVE View' >= View
      <4>1. unacked = <<0>>
        BY <1>1, <2>3, <3>4, Constants
      <4>2. Line # <<>> /\ Head(Line) = 0
        <5>1. Line = <<0>> \o queue /\ queue \in Seq(Nat)
          BY <4>1, LineTypes DEF Line
        <5>2. QED
          BY <5>1
      <4>3. snapshot[home] = 0
        <5>1. PICK n \in Nat, s \in Seq(Nat) : n = snapshot[home] /\ s = Line
          BY <1>0, <1>2
        <5>2. NotAhead(n, s) /\ s # <<>>
          BY <1>0, <1>1, <4>2, <5>1
        <5>3. n <= Head(s)
          BY <5>2, LineFacts
        <5>4. QED
          BY <4>2, <5>1, <5>3
      <4>4. View = 0 /\ View' \in Nat
        BY <1>0, <2>1, <4>3 DEF View, Place
      <4>5. QED
        BY <4>4
    <3>5. QED
      BY <1>0, <2>1, <2>6, <3>3, <3>4
  <2>7. QED
    BY <2>5, <2>6
<1>16. ASSUME NEW u \in Job, NEW a \in Attempt, Announce(u, a) PROVE Ordered
  <2>1. /\ handler[u][a] = "announcing" /\ handler' = [handler EXCEPT ![u][a] = "rendering"]
        /\ told' = u \/ told' = told
        /\ UNCHANGED <<queue, unacked, attempts, snapshot, home, drops>>
    BY <1>16 DEF Announce
  <2>2. Line' = Line /\ Active(handler[u][a])
    BY <2>1 DEF Line, Active
  <2>3. ASSUME drops = 0, NEW v \in Job, NEW b \in Attempt, Active(handler'[v][b])
        PROVE  unacked' = <<v>> /\ b = attempts'[v]
    <3>1. Active(handler[v][b])
      <4>1. CASE v = u /\ b = a
        BY <2>2, <4>1
      <4>2. CASE ~(v = u /\ b = a)
        <5>1. handler'[v][b] = handler[v][b]
          BY <1>0, <2>1, <4>2
        <5>2. QED
          BY <2>3, <5>1
      <4>3. QED
        BY <4>1, <4>2
    <3>2. QED
      BY <1>1, <2>1, <2>3, <3>1
  <2>4. ASSUME drops = 0 PROVE NotAhead(told', Line') /\ told' >= told
    <3>1. unacked = <<u>>
      BY <1>1, <2>2, <2>4
    <3>2. Line # <<>> /\ Head(Line) = u
      <4>1. Line = <<u>> \o queue /\ queue \in Seq(Nat)
        BY <3>1, LineTypes DEF Line
      <4>2. QED
        BY <4>1
    <3>3. PICK n \in Nat, s \in Seq(Nat) : n = told /\ s = Line
      BY <1>0, <1>2
    <3>4. NotAhead(Head(s), s) /\ (NotAhead(n, s) => n <= Head(s))
      BY <1>1, <3>2, <3>3, LineFacts
    <3>5. NotAhead(told, Line)
      BY <1>1, <2>4
    <3>6. CASE told' = u
      BY <2>2, <3>2, <3>3, <3>4, <3>5, <3>6
    <3>7. CASE told' = told
      BY <1>0, <2>2, <3>5, <3>7
    <3>8. QED
      BY <2>1, <3>6, <3>7
  <2>5. OneAtATime'
    <3>1. \A p \in Place : NotAhead(snapshot'[p], Line')
      BY <1>1, <2>1, <2>2
    <3>2. QED
      BY <1>1, <2>1, <2>2, <2>3, <2>4, <3>1 DEF OneAtATime
  <2>6. View' = View
    BY <2>1 DEF View
  <2>7. QED
    BY <1>3, <2>1, <2>4, <2>5, <2>6
<1>17. ASSUME NEW u \in Job, NEW a \in Attempt, DrawChart(u, a) PROVE Ordered
  <2>1. UNCHANGED <<queue, unacked, attempts, handler, snapshot, home, told, drops>>
    BY <1>17 DEF DrawChart
  <2>2. Line' = Line
    BY <2>1 DEF Line
  <2>3. QED
    BY <1>0, <1>1, <1>5, <2>1, <2>2
<1>18. ASSUME NEW u \in Job, NEW a \in Attempt, Return(u, a) PROVE Ordered
  <2>1. /\ handler[u][a] = "rendering" /\ handler' = [handler EXCEPT ![u][a] = "returned"]
        /\ Settle(u, a)
        /\ UNCHANGED <<queue, attempts, snapshot, home, told, drops>>
    BY <1>18 DEF Return
  <2>2. (Line' = Line \/ (Line # <<>> /\ Line' = Tail(Line))) /\ Len(unacked') <= 1
    BY <1>1, <2>1, SettleLine
  <2>3. Active(handler[u][a])
    BY <2>1 DEF Active
  <2>4. ASSUME drops = 0, NEW v \in Job, NEW b \in Attempt, Active(handler'[v][b]) PROVE FALSE
    BY <1>14, <2>1, <2>3, <2>4
  <2>5. QED
    BY <1>0, <1>5, <2>1, <2>2, <2>4
<1>19. CASE UNCHANGED vars
  <2>1. UNCHANGED <<queue, unacked, attempts, handler, snapshot, home, told, drops>>
    BY <1>19 DEF vars
  <2>2. Line' = Line
    BY <2>1 DEF Line
  <2>3. QED
    BY <1>0, <1>1, <1>5, <2>1, <2>2
<1>20. QED
  BY <1>8, <1>9, <1>10, <1>11, <1>12, <1>13, <1>15, <1>16, <1>17, <1>18, <1>19
     DEF Next, Delivery, HandlerStep

OrderInv == TypeOK /\ Unposted /\ NotPosted /\ OneAtATime

\* The provision job is the first, nothing is stored or told.
LEMMA InitOrderInv == Init => OrderInv
<1> SUFFICES ASSUME Init PROVE OrderInv
  OBVIOUS
<1>1. TypeOK /\ Unposted
  BY InitChartInv DEF ChartInv
<1>2. NotPosted
  BY DEF Init, NotPosted
<1>3. Line = <<0>> /\ unacked = <<>> /\ told = 0 /\ snapshot = [p \in Place |-> 0]
  BY DEF Init, Line
<1>4. Rising(<<0>>) /\ NotAhead(0, <<0>>)
  BY DEF Rising, NotAhead
<1>5. \A u \in Job, a \in Attempt : ~Active(handler[u][a])
  BY DEF Init, Active
<1>6. OneAtATime
  BY <1>3, <1>4, <1>5 DEF OneAtATime
<1>7. QED
  BY <1>1, <1>2, <1>6 DEF OrderInv

\* Every step keeps the order of updates.
LEMMA NextOrderInv == OrderInv /\ [Next]_vars => OrderInv'
BY NextTypeOK, NextUnposted, NextNotPosted, NextOneAtATime DEF OrderInv

\* With one message at a time a reader never gets an older update after a newer one,
\* through any number of redeliveries and deaths of the worker.
THEOREM NoOlderSnapshot == Spec => ReaderNeverGoesBack
<1>1. OrderInv /\ [Next]_vars => [Prefetch = 1 => View' >= View \/ (drops > 0 /\ home' # home)]_vars
  BY NextOneAtATime DEF OrderInv
<1>2. QED
  BY <1>1, InitOrderInv, NextOrderInv, PTL DEF Spec, ReaderNeverGoesBack

\* Nor do the events of the dashboard go back while its connection lasts.
THEOREM NoOlderEvent == Spec => EventsNeverGoBack
<1>1. OrderInv /\ [Next]_vars => [Prefetch = 1 /\ drops' = 0 => told' >= told]_vars
  BY NextOneAtATime DEF OrderInv
<1>2. QED
  BY <1>1, InitOrderInv, NextOrderInv, PTL DEF Spec, EventsNeverGoBack

================================================================================
