---------------------------- MODULE Commands_proofs ----------------------------
(* Proofs about Commands, for any commands, caps and number of faults. *)
EXTENDS Commands, TLAPS, FiniteSetTheorems

\* A message has been delivered at most once, and once more for each time it was
\* requeued; what waits in the queue is yet to be delivered.
DeliveriesCounted ==
  \A c \in Command :
    /\ job[c] = "none" => attempts[c] = 0
    /\ job[c] = "queued" => attempts[c] <= crashes + drops
    /\ attempts[c] <= 1 + crashes + drops

\* A request publishes its job once.
JobIsNew == \A c \in Command : request[c] \in {"none", "checked"} => job[c] = "none"

\* A thread that adds a row has an artifact left to register.
RegistersInTurn ==
  \A c \in Command : \A a \in Attempt :
    handler[c][a] = "registering" => made[c][a] < Produces

IType == TypeOK /\ DeliveriesCounted /\ JobIsNew /\ RegistersInTurn

\* While no connection has been lost, the handler that works on a command is that of
\* the last delivery, and holds the message.
OneWorks ==
  drops = 0 =>
    \A c \in Command : \A a \in Attempt :
      Active(handler[c][a]) => a = attempts[c] /\ job[c] = "unacked"

\* So what a handler saw when it counted the rows is still true when it adds one.
RoomForOne ==
  drops = 0 /\ RunCap > 0 =>
    \A c \in Command : \A a \in Attempt :
      handler[c][a] = "registering" => Cardinality(rows[c]) < RunCap

IInv == IType /\ OneWorks /\ RoomForOne /\ CapIsKept

\* The deliveries of a job are numbered.
LEMMA AttemptSet == Attempt \subseteq Nat
  BY CommandAssumption DEF Attempt

\* An update two levels down keeps the type of a function of functions.
LEMMA NestedUpdate ==
  ASSUME NEW A, NEW B, NEW S, NEW f \in [A -> [B -> S]], NEW a \in A, NEW b \in B, NEW x \in S
  PROVE  [f EXCEPT ![a][b] = x] \in [A -> [B -> S]]
  OBVIOUS

\* No command has been asked for at the start.
LEMMA InitIType == Init => IType
  BY CommandAssumption
     DEF Init, IType, TypeOK, DeliveriesCounted, JobIsNew, RegistersInTurn, RequestPC, HandlerPC

\* Whatever publish_event does, the log stays a set of statuses.
LEMMA AnnounceType ==
  ASSUME TypeOK, NEW c \in Command, NEW s \in {"queued", "running"} \cup Outcome,
         NEW names \in SUBSET Artifact, Announce(c, s, names) \/ Logged(c, s, names)
  PROVE  log' \in [Command -> SUBSET Status]
<1>1. ASSUME NEW t \in {"queued", "running", "unsaid"} \cup Outcome,
             NEW ns \in SUBSET Artifact, Logged(c, t, ns)
      PROVE  log' \in [Command -> SUBSET Status]
  <2> DEFINE e == [status |-> t, names |-> ns]
  <2>1. e \in Status
    BY DEF Status
  <2>2. log \in [Command -> SUBSET Status] /\ log' = [log EXCEPT ![c] = @ \cup {e}]
    BY <1>1 DEF TypeOK, Logged
  <2> HIDE DEF e
  <2> QED
    BY <2>1, <2>2
<1>2. CASE Logged(c, s, names)
  BY <1>1, <1>2
<1>3. CASE Logged(c, "unsaid", {})
  BY <1>1, <1>3
<1>4. CASE UNCHANGED log
  BY <1>4 DEF TypeOK
<1> QED
  BY <1>2, <1>3, <1>4 DEF Announce

\* The request's steps: at most one message per command.
LEMMA RequestIType ==
  ASSUME IType, NEW c \in Command, CheckReady(c) \/ RequestStep(c) PROVE IType'
<1> USE DEF IType, RequestPC
<1>1. CASE CheckReady(c)
  BY <1>1 DEF CheckReady, TypeOK, DeliveriesCounted, JobIsNew, RegistersInTurn, runVars, faultVars
<1>2. CASE PublishJob(c) \/ PublishJobFails(c)
  <2>1. request[c] = "checked" /\ job[c] = "none" /\ attempts[c] = 0
    BY <1>2 DEF PublishJob, PublishJobFails, DeliveriesCounted, JobIsNew
  <2>2. job' = job \/ job' = [job EXCEPT ![c] = "queued"]
    BY <1>2 DEF PublishJob, PublishJobFails
  <2>3. /\ request' \in [Command -> RequestPC] /\ request'[c] \in {"sent", "refused"}
        /\ \A d \in Command : d # c => request'[d] = request[d]
    BY <1>2 DEF PublishJob, PublishJobFails, TypeOK
  <2>4. UNCHANGED <<ready, attempts, handler, made, result, rows, starved, log, crashes, drops>>
    BY <1>2 DEF PublishJob, PublishJobFails, runVars, faultVars
  <2>5. job' \in [Command -> {"none", "queued", "unacked", "done"}]
    BY <2>2 DEF TypeOK
  <2>6. TypeOK'
    BY <2>3, <2>4, <2>5 DEF TypeOK
  <2>7. crashes \in Nat /\ drops \in Nat
    BY CommandAssumption DEF TypeOK
  <2>8. \A d \in Command : job'[d] = job[d] \/ (d = c /\ job'[d] = "queued")
    BY <2>2 DEF TypeOK
  <2>9. DeliveriesCounted' /\ JobIsNew' /\ RegistersInTurn'
    BY <2>1, <2>3, <2>4, <2>7, <2>8 DEF DeliveriesCounted, JobIsNew, RegistersInTurn
  <2> QED
    BY <2>6, <2>9
<1>3. CASE PublishQueued(c)
  <2>1. log' \in [Command -> SUBSET Status]
    BY <1>3, AnnounceType DEF PublishQueued
  <2> QED
    BY <1>3, <2>1
       DEF PublishQueued, TypeOK, DeliveriesCounted, JobIsNew, RegistersInTurn, runVars, faultVars
<1>4. CASE PublishQueuedFails(c)
  BY <1>4 DEF PublishQueuedFails, TypeOK, DeliveriesCounted, JobIsNew, RegistersInTurn, runVars, faultVars
<1> QED
  BY <1>1, <1>2, <1>3, <1>4 DEF RequestStep

\* Deliveries and the faults that requeue.
LEMMA BrokerIType ==
  ASSUME IType, (\E c \in Command : Deliver(c)) \/ Crash \/ ConnectionLost \/ Terminate
  PROVE  IType'
<1> USE CommandAssumption DEF IType
<1>1. ASSUME NEW c \in Command, Deliver(c) PROVE IType'
  <2>1. attempts[c] + 1 \in 0 .. 1 + MaxCrashes + MaxDrops /\ attempts[c] <= crashes + drops
    BY <1>1 DEF Deliver, TypeOK, DeliveriesCounted
  <2>2. handler' \in [Command -> [Attempt -> HandlerPC]]
    BY <1>1 DEF Deliver, TypeOK, HandlerPC
  <2>3. TypeOK'
    BY <1>1, <2>1, <2>2 DEF Deliver, TypeOK, runVars, faultVars
  <2>4. DeliveriesCounted' /\ JobIsNew'
    <3>1. \A d \in Command : d # c => job'[d] = job[d] /\ attempts'[d] = attempts[d]
      BY <1>1 DEF Deliver, TypeOK
    <3>2. job'[c] = "unacked" /\ attempts'[c] = attempts[c] + 1 /\ job[c] = "queued"
      BY <1>1 DEF Deliver, TypeOK
    <3>3. UNCHANGED <<request, crashes, drops>>
      BY <1>1 DEF Deliver, faultVars
    <3>4. attempts[c] + 1 <= 1 + crashes + drops
      BY <2>1 DEF TypeOK
    <3> QED
      BY <3>1, <3>2, <3>3, <3>4 DEF DeliveriesCounted, JobIsNew
  <2>5. RegistersInTurn'
    BY <1>1 DEF Deliver, TypeOK, RegistersInTurn, runVars
  <2> QED
    BY <2>3, <2>4, <2>5
<1>2. CASE Crash
  <2>1. handler' \in [Command -> [Attempt -> HandlerPC]]
    BY <1>2 DEF Crash, TypeOK, HandlerPC
  <2>2. /\ UNCHANGED <<request, attempts, made, drops>> /\ crashes' = crashes + 1
        /\ \A d \in Command : job'[d] = Requeue(job[d])
    BY <1>2 DEF Crash, runVars
  <2>3. /\ job' \in [Command -> {"none", "queued", "unacked", "done"}]
        /\ crashes' \in 0 .. MaxCrashes
    BY <1>2 DEF Crash, Requeue, TypeOK
  <2>4. TypeOK'
    BY <1>2, <2>1, <2>3 DEF Crash, TypeOK, runVars
  <2>5. crashes \in Nat /\ drops \in Nat /\ \A d \in Command : attempts[d] \in Nat
    BY DEF TypeOK
  <2>6. DeliveriesCounted'
    BY <2>2, <2>5 DEF Requeue, DeliveriesCounted
  <2>7. JobIsNew'
    BY <2>2 DEF Requeue, JobIsNew
  <2>8. RegistersInTurn'
    BY <1>2, <2>2 DEF Crash, Active, RegistersInTurn
  <2> QED
    BY <2>4, <2>6, <2>7, <2>8
<1>3. CASE ConnectionLost
  <2>0. /\ job' \in [Command -> {"none", "queued", "unacked", "done"}]
        /\ drops' \in 0 .. MaxDrops
    BY <1>3 DEF ConnectionLost, Requeue, TypeOK
  <2>1. TypeOK'
    BY <1>3, <2>0 DEF ConnectionLost, TypeOK, runVars
  <2>2. /\ UNCHANGED <<request, attempts, handler, made, crashes>> /\ drops' = drops + 1
        /\ \A d \in Command : job'[d] = Requeue(job[d])
    BY <1>3 DEF ConnectionLost, runVars
  <2>3. crashes \in Nat /\ drops \in Nat /\ \A d \in Command : attempts[d] \in Nat
    BY DEF TypeOK
  <2>4. DeliveriesCounted'
    BY <2>2, <2>3 DEF Requeue, DeliveriesCounted
  <2>5. JobIsNew' /\ RegistersInTurn'
    BY <2>2 DEF Requeue, JobIsNew, RegistersInTurn
  <2> QED
    BY <2>1, <2>4, <2>5
<1>4. CASE Terminate
  BY <1>4 DEF Terminate, TypeOK, DeliveriesCounted, JobIsNew, RegistersInTurn, faultVars
<1> QED
  BY <1>1, <1>2, <1>3, <1>4

\* A handler changes its position, its registrations and the log, and acknowledges.
LEMMA HandlerIType ==
  ASSUME IType, NEW c \in Command, NEW a \in Attempt, HandlerStep(c, a) PROVE IType'
<1> USE DEF IType
<1>1. handler' \in [Command -> [Attempt -> HandlerPC]]
  <2>1. ASSUME NEW pc \in HandlerPC, Goto(c, a, pc)
        PROVE  handler' \in [Command -> [Attempt -> HandlerPC]]
    BY <2>1 DEF Goto, TypeOK
  <2>2. CASE Begin(c, a)
    <3>1. (IF ready THEN "starting" ELSE "refusing") \in HandlerPC
      BY DEF HandlerPC
    <3> QED
      BY <2>1, <2>2, <3>1 DEF Begin
  <2>3. CASE Skip(c, a)
    BY <2>1, <2>3 DEF Skip, HandlerPC, TypeOK
  <2>4. CASE Refuse(c, a) \/ Start(c, a) \/ PassCap(c, a) \/ Register(c, a)
    BY <2>1, <2>4 DEF Refuse, Start, PassCap, Register, HandlerPC
  <2>5. CASE Complete(c, a) \/ Raise(c, a) \/ Report(c, a) \/ Return(c, a)
    BY <2>1, <2>5 DEF Complete, Raise, Report, Return, HandlerPC
  <2> QED
    BY <2>2, <2>3, <2>4, <2>5 DEF HandlerStep
<1>2. log' \in [Command -> SUBSET Status]
  <2>0. Names(c, a) \in SUBSET Artifact
    BY DEF Names, TypeOK
  <2>1. CASE Refuse(c, a) \/ Start(c, a) \/ Report(c, a)
    BY <2>0, <2>1, AnnounceType DEF Refuse, Start, Report, Outcome
  <2>2. CASE UNCHANGED log
    BY <2>2 DEF TypeOK
  <2> QED
    BY <2>1, <2>2 DEF HandlerStep, Begin, Skip, PassCap, Register, Complete, Raise, Return
<1>3. made' \in [Command -> [Attempt -> 0 .. Produces]]
  <2>1. made[c][a] \in Nat /\ made[c][a] <= Produces
    BY CommandAssumption DEF TypeOK
  <2>2. CASE Skip(c, a) \/ Register(c, a)
    <3>1. made[c][a] + 1 \in 0 .. Produces
      BY <2>1, <2>2, CommandAssumption DEF Skip, Register, RegistersInTurn
    <3>2. made' = made \/ made' = [made EXCEPT ![c][a] = made[c][a] + 1]
      BY <2>2 DEF Skip, Register
    <3>3. made \in [Command -> [Attempt -> 0 .. Produces]]
      BY DEF TypeOK
    <3>4. [made EXCEPT ![c][a] = made[c][a] + 1] \in [Command -> [Attempt -> 0 .. Produces]]
      BY <3>1, <3>3, NestedUpdate
    <3> QED
      BY <3>2, <3>3, <3>4
  <2>3. CASE UNCHANGED made
    BY <2>3 DEF TypeOK
  <2> QED
    BY <2>2, <2>3
       DEF HandlerStep, Begin, Refuse, Start, PassCap, Complete, Raise, Report, Return, runVars
<1>4. /\ rows' \in [Command -> SUBSET Artifact] /\ starved' \subseteq Command
      /\ result' \in [Command -> [Attempt -> SUBSET Artifact]]
  <2>1. CASE Register(c, a)
    <3> DEFINE new == {<<a, made[c][a] + 1>>}
    <3>1. new \subseteq Artifact
      BY <2>1, CommandAssumption DEF Register, TypeOK, RegistersInTurn, Artifact
    <3>2. /\ rows' = [rows EXCEPT ![c] = @ \cup new] /\ UNCHANGED starved
          /\ result' = [result EXCEPT ![c][a] = new]
      BY <2>1 DEF Register
    <3> HIDE DEF new
    <3>3. result' \in [Command -> [Attempt -> SUBSET Artifact]]
      BY <3>1, <3>2, NestedUpdate DEF TypeOK
    <3> QED
      BY <3>1, <3>2, <3>3 DEF TypeOK
  <2>2. CASE Skip(c, a)
    <3>1. result' \in [Command -> [Attempt -> SUBSET Artifact]]
      BY <2>2, NestedUpdate DEF Skip, TypeOK
    <3> QED
      BY <2>2, <3>1 DEF Skip, TypeOK
  <2>3. CASE UNCHANGED runVars
    BY <2>3 DEF runVars, TypeOK
  <2> QED
    BY <2>1, <2>2, <2>3 DEF HandlerStep, Begin, Refuse, Start, PassCap, Complete, Raise,
       Report, Return
<1>5. job' \in [Command -> {"none", "queued", "unacked", "done"}]
  BY DEF HandlerStep, Begin, Refuse, Start, Skip, PassCap, Register, Complete, Raise,
     Report, Return, TypeOK
<1>6. UNCHANGED <<ready, request, attempts, crashes, drops>>
  BY DEF HandlerStep, Begin, Refuse, Start, Skip, PassCap, Register, Complete, Raise,
     Report, Return, runVars, faultVars
<1>7. TypeOK'
  BY <1>1, <1>2, <1>3, <1>4, <1>5, <1>6 DEF TypeOK
<1>8. \A d \in Command : job'[d] = job[d] \/ (job[d] = "unacked" /\ job'[d] = "done")
  BY DEF HandlerStep, Begin, Refuse, Start, Skip, PassCap, Register, Complete, Raise,
     Report, Return, Acks, TypeOK
<1>9. DeliveriesCounted' /\ JobIsNew'
  BY <1>6, <1>8 DEF DeliveriesCounted, JobIsNew
<1>10. RegistersInTurn'
  <2> SUFFICES ASSUME NEW d \in Command, NEW b \in Attempt, handler'[d][b] = "registering"
      PROVE  made'[d][b] < Produces
    BY DEF RegistersInTurn
  <2>1. CASE d = c /\ b = a
    BY <2>1, CommandAssumption
       DEF HandlerStep, Begin, Refuse, Start, Skip, PassCap, Register, Complete, Raise,
           Report, Return, Goto, runVars, TypeOK, RegistersInTurn, HandlerPC, Outcome
  <2>2. CASE ~(d = c /\ b = a)
    <3>1. handler'[d][b] = handler[d][b] /\ made'[d][b] = made[d][b]
      BY <2>2
         DEF HandlerStep, Begin, Refuse, Start, Skip, PassCap, Register, Complete, Raise,
             Report, Return, Goto, runVars, TypeOK
    <3> QED
      BY <3>1 DEF RegistersInTurn
  <2> QED
    BY <2>1, <2>2
<1> QED
  BY <1>7, <1>9, <1>10

\* Every command keeps its types, its deliveries are counted, and a job is published
\* before it is delivered (worker.py, the command handlers).
THEOREM TypeInvariance == Spec => []IType
<1>1. ASSUME IType, [Next]_vars PROVE IType'
  <2>1. CASE UNCHANGED vars
    BY <1>1, <2>1
       DEF vars, IType, TypeOK, DeliveriesCounted, JobIsNew, RegistersInTurn
  <2> QED
    BY <1>1, <2>1, RequestIType, BrokerIType, HandlerIType DEF Next
<1> QED
  BY <1>1, InitIType, PTL DEF Spec

\* Every variable of the command pipeline keeps its type, for any bounds.
THEOREM TypeCorrect == Spec => []TypeOK
<1>1. IType => TypeOK
  BY DEF IType
<1> QED
  BY <1>1, TypeInvariance, PTL

--------------------------------------------------------------------------------
(* The cap. *)

\* A handler's step concerns its own position, and its command's rows and message.
LEMMA HandlerFrame ==
  ASSUME IType, NEW c \in Command, NEW a \in Attempt, HandlerStep(c, a)
  PROVE  /\ UNCHANGED <<attempts, drops>>
         /\ \A d \in Command : d # c => job'[d] = job[d] /\ rows'[d] = rows[d]
         /\ \A d \in Command : \A b \in Attempt :
              ~(d = c /\ b = a) => handler'[d][b] = handler[d][b]
<1>1. UNCHANGED <<attempts, drops>>
  BY DEF HandlerStep, Begin, Refuse, Start, Skip, PassCap, Register, Complete, Raise,
     Report, Return, faultVars
<1>2. \A d \in Command : d # c => job'[d] = job[d] /\ rows'[d] = rows[d]
  BY DEF HandlerStep, Begin, Refuse, Start, Skip, PassCap, Register, Complete, Raise,
     Report, Return, runVars, IType, TypeOK
<1>3. \A d \in Command : \A b \in Attempt :
         ~(d = c /\ b = a) => handler'[d][b] = handler[d][b]
  BY DEF HandlerStep, Begin, Refuse, Start, Skip, PassCap, Register, Complete, Raise,
     Report, Return, Goto, IType, TypeOK
<1> QED
  BY <1>1, <1>2, <1>3

\* The rows of a run can be counted, and one row more counts for at most one.
LEMMA RowsCounted ==
  ASSUME NEW R \in SUBSET Artifact
  PROVE  /\ Cardinality(R) \in Nat
         /\ \A x : Cardinality(R \cup {x}) <= Cardinality(R) + 1
<1>1. IsFiniteSet(Attempt) /\ IsFiniteSet(1 .. Produces)
  BY FS_Interval, CommandAssumption DEF Attempt
<1>2. IsFiniteSet(Artifact)
  BY <1>1, FS_Product DEF Artifact
<1>3. IsFiniteSet(R)
  BY <1>2, FS_Subset
<1>4. Cardinality(R) \in Nat
  BY <1>3, FS_CardinalityType
<1>5. \A x : Cardinality(R \cup {x}) <= Cardinality(R) + 1
  BY <1>3, <1>4, FS_AddElement
<1> QED
  BY <1>4, <1>5

\* At the start no sandbox has a command.
LEMMA InitIInv == Init => IInv
<1>1. Init => IType
  BY InitIType
<1>2. Init => OneWorks /\ RoomForOne /\ CapIsKept
  BY CommandAssumption, FS_EmptySet DEF Init, OneWorks, RoomForOne, CapIsKept, Active
<1> QED
  BY <1>1, <1>2 DEF IInv

\* A handler that works holds the message of the last delivery, so nobody else adds
\* rows between its count and its insert.
LEMMA HandlerIInv ==
  ASSUME IInv, NEW c \in Command, NEW a \in Attempt, HandlerStep(c, a)
  PROVE  OneWorks' /\ RoomForOne' /\ CapIsKept'
<1> SUFFICES ASSUME drops = 0 PROVE OneWorks' /\ RoomForOne' /\ CapIsKept'
  BY HandlerFrame DEF IInv, OneWorks, RoomForOne, CapIsKept
<1> USE DEF IInv
<1>1. Active(handler[c][a])
  BY DEF HandlerStep, Begin, Refuse, Start, Skip, PassCap, Register, Complete, Raise,
     Report, Return, Active, Outcome
<1>2. a = attempts[c] /\ job[c] = "unacked"
  BY <1>1 DEF OneWorks
<1>3. \A b \in Attempt : Active(handler[c][b]) => b = a
  BY <1>2 DEF OneWorks
<1>4. job'[c] = "unacked" \/ ~Active(handler'[c][a])
  BY <1>2 DEF HandlerStep, Begin, Refuse, Start, Skip, PassCap, Register, Complete, Raise,
     Report, Return, Goto, Active, IType, TypeOK
<1>5. OneWorks'
  BY <1>2, <1>3, <1>4, HandlerFrame DEF OneWorks
<1>6. /\ \/ rows'[c] = rows[c]
         \/ /\ handler[c][a] = "registering" /\ handler'[c][a] # "registering"
            /\ \E x : rows'[c] = rows[c] \cup {x}
      /\ handler'[c][a] = "registering" =>
           rows'[c] = rows[c] /\ (~AtCap(c) \/ handler[c][a] = "registering")
  <2>1. CASE Register(c, a)
    <3>1. rows'[c] = rows[c] \cup {<<a, made[c][a] + 1>>}
      BY <2>1 DEF Register, IType, TypeOK
    <3> QED
      BY <2>1, <3>1 DEF Register, Goto, IType, TypeOK
  <2>2. CASE ~Register(c, a)
    BY <2>2 DEF HandlerStep, Begin, Refuse, Start, Skip, PassCap, Complete, Raise,
       Report, Return, Goto, runVars, IType, TypeOK, Outcome
  <2> QED
    BY <2>1, <2>2
<1>7. /\ Cardinality(rows[c]) \in Nat /\ RunCap \in Nat
      /\ \A x : Cardinality(rows[c] \cup {x}) <= Cardinality(rows[c]) + 1
      /\ Cardinality(rows'[c]) \in Nat
  <2>1. rows[c] \in SUBSET Artifact /\ rows'[c] \in SUBSET Artifact
    BY HandlerIType DEF IType, TypeOK
  <2> QED
    BY <2>1, RowsCounted, CommandAssumption
<1>8. RoomForOne'
  <2> SUFFICES ASSUME RunCap > 0, NEW d \in Command, NEW b \in Attempt,
                      handler'[d][b] = "registering"
               PROVE  Cardinality(rows'[d]) < RunCap
    BY DEF RoomForOne
  <2>1. CASE d = c /\ b = a
    BY <2>1, <1>6, <1>7 DEF RoomForOne, AtCap
  <2>2. CASE d = c /\ b # a
    BY <2>2, <1>3, HandlerFrame DEF Active
  <2>3. CASE d # c
    BY <2>3, HandlerFrame DEF RoomForOne
  <2> QED
    BY <2>1, <2>2, <2>3
<1>9. CapIsKept'
  <2> SUFFICES ASSUME RunCap > 0, NEW d \in Command PROVE Cardinality(rows'[d]) <= RunCap
    BY DEF CapIsKept
  <2>1. CASE d = c
    <3>1. CASE rows'[c] = rows[c]
      BY <2>1, <3>1 DEF CapIsKept
    <3>2. ASSUME handler[c][a] = "registering", NEW x, rows'[c] = rows[c] \cup {x}
          PROVE  Cardinality(rows'[d]) <= RunCap
      <4>1. Cardinality(rows[c]) < RunCap
        BY <3>2 DEF RoomForOne
      <4>2. Cardinality(rows'[c]) <= Cardinality(rows[c]) + 1
        BY <1>7, <3>2
      <4> QED
        BY <1>7, <2>1, <4>1, <4>2
    <3> QED
      BY <1>6, <3>1, <3>2
  <2>2. CASE d # c
    BY <2>2, HandlerFrame DEF CapIsKept
  <2> QED
    BY <2>1, <2>2
<1> QED
  BY <1>5, <1>8, <1>9

\* The other steps start no registration.
LEMMA OthersIInv ==
  ASSUME IInv,
         \/ \E c \in Command : CheckReady(c) \/ RequestStep(c) \/ Deliver(c)
         \/ Crash \/ ConnectionLost \/ Terminate \/ UNCHANGED vars
  PROVE  OneWorks' /\ RoomForOne' /\ CapIsKept'
<1> USE DEF IInv, OneWorks, RoomForOne, CapIsKept
<1>1. CASE \E c \in Command : CheckReady(c) \/ RequestStep(c)
  <2>1. UNCHANGED <<handler, attempts, rows, drops>>
    BY <1>1 DEF CheckReady, RequestStep, PublishJob, PublishJobFails, PublishQueued,
       PublishQueuedFails, runVars, faultVars
  <2>2. \A d \in Command : job[d] = "unacked" => job'[d] = "unacked"
    BY <1>1 DEF CheckReady, RequestStep, PublishJob, PublishJobFails, PublishQueued,
       PublishQueuedFails, IType, TypeOK, JobIsNew
  <2> QED
    BY <2>1, <2>2
<1>2. ASSUME NEW c \in Command, Deliver(c) PROVE OneWorks' /\ RoomForOne' /\ CapIsKept'
  <2>1. UNCHANGED <<rows, drops>>
    BY <1>2 DEF Deliver, runVars, faultVars
  <2>2. \A d \in Command : d # c =>
          job'[d] = job[d] /\ attempts'[d] = attempts[d] /\ handler'[d] = handler[d]
    BY <1>2 DEF Deliver, IType, TypeOK
  <2>3. /\ job[c] = "queued" /\ job'[c] = "unacked"
        /\ attempts'[c] = attempts[c] + 1
        /\ \A b \in Attempt : handler'[c][b] =
             IF b = attempts[c] + 1 THEN "delivered" ELSE handler[c][b]
    BY <1>2 DEF Deliver, IType, TypeOK
  <2> QED
    BY <2>1, <2>2, <2>3 DEF Active
<1>3. CASE Crash
  <2>1. \A d \in Command : \A b \in Attempt : ~Active(handler'[d][b])
    BY <1>3 DEF Crash, Active
  <2>2. UNCHANGED <<rows, drops>>
    BY <1>3 DEF Crash, runVars
  <2> QED
    BY <2>1, <2>2 DEF Active
<1>4. CASE ConnectionLost
  <2>1. drops' # 0
    BY <1>4 DEF ConnectionLost, IType, TypeOK
  <2> QED
    BY <2>1
<1>5. CASE Terminate
  <2>1. UNCHANGED <<handler, attempts, job, drops>> /\ \A d \in Command : rows'[d] = {}
    BY <1>5 DEF Terminate, faultVars
  <2>2. Cardinality({}) = 0 /\ RunCap \in Nat
    BY FS_EmptySet, CommandAssumption
  <2>3. \A d \in Command : Cardinality(rows'[d]) = 0
    BY <2>1, <2>2
  <2> QED
    BY <2>1, <2>2, <2>3
<1>6. CASE UNCHANGED vars
  BY <1>6 DEF vars
<1> QED
  BY <1>1, <1>2, <1>3, <1>4, <1>5, <1>6

\* The cap per run holds through crashes and redeliveries (artifacts.py:364), as long
\* as the worker's connection is not lost.
THEOREM CapHolds == Spec => []CapIsKept
<1>1. ASSUME IInv, IType', [Next]_vars PROVE IInv'
  <2>1. OneWorks' /\ RoomForOne' /\ CapIsKept'
    BY <1>1, HandlerIInv, OthersIInv DEF Next
  <2> QED
    BY <1>1, <2>1 DEF IInv
<1>2. IInv => CapIsKept
  BY DEF IInv
<1> QED
  BY <1>1, <1>2, InitIInv, TypeInvariance, PTL DEF Spec

--------------------------------------------------------------------------------
(* What a reported success rests on. *)

\* What the last registration of a thread returned has its row, and a Strict command
\* is not done with its artifacts when that was None: so what it announces with a
\* success has its row, until the purge that ends "ready".
Backed(c) ==
  ready =>
    /\ \A a \in Attempt : result[c][a] \subseteq rows[c]
    /\ \A a \in Attempt : made[c][a] = Produces => result[c][a] # {}
    /\ \A a \in Attempt : handler[c][a] = "completed" => made[c][a] = Produces
    /\ \A e \in log[c] :
         e.status = "completed" => e.names # {} /\ e.names \subseteq rows[c]

AllBacked == \A c \in Strict : Backed(c)

\* No command has ended at the start.
LEMMA InitBacked == Init => AllBacked
  BY CommandAssumption DEF Init, AllBacked, Backed

\* What is announced is added, unless it is refused, and nothing else is a success.
LEMMA AnnounceAdds ==
  ASSUME TypeOK, NEW c \in Command, NEW s, NEW names,
         Announce(c, s, names) \/ Logged(c, s, names)
  PROVE  \A d \in Command : \A e \in log'[d] :
           \/ e \in log[d]
           \/ d = c /\ e = [status |-> s, names |-> names]
           \/ e.status = "unsaid"
<1>1. ASSUME NEW t, NEW ns, Logged(c, t, ns)
      PROVE  \A d \in Command : \A e \in log'[d] :
               e \in log[d] \/ (d = c /\ e = [status |-> t, names |-> ns])
  BY <1>1 DEF TypeOK, Logged
<1>2. CASE Logged(c, s, names)
  BY <1>1, <1>2
<1>3. CASE Logged(c, "unsaid", {})
  BY <1>1, <1>3
<1>4. CASE UNCHANGED log
  BY <1>4
<1> QED
  BY <1>2, <1>3, <1>4 DEF Announce

\* A command's own thread: registering adds the row it returns, and where the result
\* is used the cap does not let the thread pass.
LEMMA HandlerBacked ==
  ASSUME IType, AllBacked, NEW c \in Command, NEW a \in Attempt, HandlerStep(c, a)
  PROVE  AllBacked'
<1> USE DEF IType
<1> SUFFICES ASSUME NEW d \in Strict, ready' PROVE Backed(d)'
  BY DEF AllBacked, Backed
<1>0. d \in Command /\ ready /\ Backed(d) /\ Produces > 0 /\ Produces \in Nat
  BY CommandAssumption
     DEF AllBacked, HandlerStep, Begin, Refuse, Start, Skip, PassCap, Register, Complete,
         Raise, Report, Return
<1>1. rows[d] \subseteq rows'[d]
  <2>1. \/ UNCHANGED rows
        \/ rows' = [rows EXCEPT ![c] = @ \cup {<<a, made[c][a] + 1>>}]
    BY DEF HandlerStep, Begin, Refuse, Start, Skip, PassCap, Register, Complete, Raise,
           Report, Return, runVars
  <2> QED
    BY <1>0, <2>1 DEF TypeOK
<1>2. ASSUME NEW b \in Attempt
      PROVE  /\ result'[d][b] \subseteq rows'[d]
             /\ made'[d][b] = Produces => result'[d][b] # {}
  <2>1. CASE Register(c, a)
    <3> DEFINE new == {<<a, made[c][a] + 1>>}
    <3>1. /\ rows' = [rows EXCEPT ![c] = @ \cup new]
          /\ result' = [result EXCEPT ![c][a] = new]
          /\ made' = [made EXCEPT ![c][a] = @ + 1]
      BY <2>1 DEF Register
    <3>2. new # {}
      OBVIOUS
    <3> HIDE DEF new
    <3>3. CASE d = c /\ b = a
      BY <1>0, <3>1, <3>2, <3>3 DEF TypeOK
    <3>4. CASE ~(d = c /\ b = a)
      <4>1. result'[d][b] = result[d][b] /\ made'[d][b] = made[d][b]
        BY <1>0, <3>1, <3>4 DEF TypeOK
      <4> QED
        BY <1>0, <1>1, <4>1 DEF Backed
    <3> QED
      BY <3>3, <3>4
  <2>2. CASE Skip(c, a)
    <3>1. CASE d = c /\ b = a
      <4>1. result'[d][b] = {} /\ made[d][b] < Produces /\ made[d][b] \in Nat
        BY <1>0, <2>2, <3>1, CommandAssumption DEF Skip, TypeOK
      <4>2. CASE UsesResult(c, a)
        <5>1. UNCHANGED made
          BY <2>2, <4>2 DEF Skip
        <5> QED
          BY <4>1, <5>1
      <4>3. CASE ~UsesResult(c, a)
        <5>1. made'[d][b] = made[d][b] + 1
          BY <1>0, <2>2, <3>1, <4>3 DEF Skip, TypeOK
        <5> QED
          BY <3>1, <4>1, <4>3, <5>1 DEF UsesResult
      <4> QED
        BY <4>2, <4>3
    <3>2. CASE ~(d = c /\ b = a)
      <4>1. result'[d][b] = result[d][b] /\ made'[d][b] = made[d][b]
        BY <1>0, <2>2, <3>2 DEF Skip, TypeOK
      <4> QED
        BY <1>0, <1>1, <4>1 DEF Backed
    <3> QED
      BY <3>1, <3>2
  <2>3. CASE UNCHANGED runVars
    BY <1>0, <2>3 DEF runVars, Backed
  <2> QED
    BY <2>1, <2>2, <2>3 DEF HandlerStep, Begin, Refuse, Start, PassCap, Complete, Raise,
       Report, Return
<1>3. ASSUME NEW b \in Attempt, handler'[d][b] = "completed" PROVE made'[d][b] = Produces
  <2>1. CASE Skip(c, a) \/ Register(c, a)
    <3>1. handler[d][b] = "completed" /\ ~(d = c /\ b = a)
      BY <1>0, <1>3, <2>1 DEF Skip, Register, Goto, TypeOK
    <3>2. made'[d][b] = made[d][b]
      BY <1>0, <2>1, <3>1 DEF Skip, Register, TypeOK
    <3> QED
      BY <1>0, <3>1, <3>2 DEF Backed
  <2>2. CASE Complete(c, a)
    BY <1>0, <1>3, <2>2 DEF Complete, Goto, runVars, TypeOK, Backed
  <2>3. CASE ~(Skip(c, a) \/ Register(c, a) \/ Complete(c, a))
    <3>1. UNCHANGED made
      BY <2>3 DEF HandlerStep, Begin, Refuse, Start, PassCap, Raise, Report, Return, runVars
    <3>2. handler[d][b] = "completed"
      <4>1. ASSUME NEW pc \in HandlerPC \ {"completed"}, Goto(c, a, pc)
            PROVE  handler[d][b] = "completed"
        BY <1>0, <1>3, <4>1 DEF Goto, TypeOK
      <4>2. \E pc \in HandlerPC \ {"completed"} : Goto(c, a, pc)
        BY <2>3
           DEF HandlerStep, Begin, Refuse, Start, PassCap, Raise, Report, Return, HandlerPC
      <4> QED
        BY <4>1, <4>2
    <3> QED
      BY <1>0, <3>1, <3>2 DEF Backed
  <2> QED
    BY <2>1, <2>2, <2>3
<1>4. ASSUME NEW e \in log'[d], e.status = "completed"
      PROVE  e.names # {} /\ e.names \subseteq rows'[d]
  <2>1. CASE e \in log[d]
    BY <1>0, <1>1, <1>4, <2>1 DEF Backed
  <2>2. CASE e \notin log[d]
    <3>1. CASE Refuse(c, a) \/ Start(c, a)
      <4>1. Announce(c, "failed", {}) \/ Announce(c, "running", {})
        BY <3>1 DEF Refuse, Start
      <4>2. \/ e = [status |-> "failed", names |-> {}]
            \/ e = [status |-> "running", names |-> {}]
        BY <1>0, <1>4, <2>2, <4>1, AnnounceAdds
      <4> QED
        BY <1>4, <4>2
    <3>2. CASE Report(c, a)
      <4>1. d = c /\ e = [status |-> handler[c][a], names |-> Names(c, a)]
        BY <1>0, <1>4, <2>2, <3>2, AnnounceAdds DEF Report
      <4>2. handler[d][a] = "completed" /\ e.names = result[d][a]
        BY <1>4, <4>1 DEF Names
      <4> QED
        BY <1>0, <1>1, <4>2 DEF Backed
    <3>3. CASE UNCHANGED log
      BY <2>2, <3>3
    <3> QED
      BY <3>1, <3>2, <3>3
         DEF HandlerStep, Begin, Skip, PassCap, Register, Complete, Raise, Return
  <2> QED
    BY <2>1, <2>2
<1> QED
  BY <1>2, <1>3, <1>4 DEF Backed

\* The other steps complete nothing; Terminate ends what the purge could belie.
LEMMA OthersBacked ==
  ASSUME IType, AllBacked,
         \/ \E c \in Command : CheckReady(c) \/ RequestStep(c) \/ Deliver(c)
         \/ Crash \/ ConnectionLost \/ Terminate \/ UNCHANGED vars
  PROVE  AllBacked'
<1> USE DEF IType
<1>1. CASE Terminate
  BY <1>1 DEF Terminate, AllBacked, Backed
<1>2. CASE ~Terminate
  <2>1. UNCHANGED <<ready, rows, made, result>>
    BY <1>2 DEF CheckReady, RequestStep, PublishJob, PublishJobFails, PublishQueued,
       PublishQueuedFails, Deliver, Crash, ConnectionLost, vars, runVars
  <2>2. \A d \in Command : \A b \in Attempt :
          handler'[d][b] = "completed" => handler[d][b] = "completed"
    <3>1. CASE Crash
      BY <3>1 DEF Crash
    <3>2. CASE \E c \in Command : Deliver(c)
      BY <3>2 DEF Deliver, TypeOK
    <3>3. CASE UNCHANGED handler
      BY <3>3
    <3> QED
      BY <1>2, <3>1, <3>2, <3>3
         DEF CheckReady, RequestStep, PublishJob, PublishJobFails, PublishQueued,
             PublishQueuedFails, ConnectionLost, vars
  <2>3. \A d \in Command : \A e \in log'[d] : e.status = "completed" => e \in log[d]
    <3>1. CASE \E c \in Command : PublishQueued(c)
      BY <3>1, AnnounceAdds DEF PublishQueued
    <3>2. CASE UNCHANGED log
      BY <3>2
    <3> QED
      BY <1>2, <3>1, <3>2 DEF CheckReady, RequestStep, PublishJob, PublishJobFails,
         PublishQueuedFails, Deliver, Crash, ConnectionLost, vars
  <2> QED
    BY <2>1, <2>2, <2>3, CommandAssumption DEF AllBacked, Backed
<1> QED
  BY <1>1, <1>2

\* SuccessIsBacked of Commands: a command that names the artifact it registers
\* (handle_command's screenshot, worker.py:1446, for one) reports "completed" only with
\* an artifact of its own whose row is there, whatever the cap refuses and however
\* often the job is delivered again.
THEOREM SuccessHasItsRow == Spec => []SuccessIsBacked
<1>1. ASSUME IType, AllBacked, [Next]_vars PROVE AllBacked'
  BY <1>1, HandlerBacked, OthersBacked DEF Next
<1>2. IType /\ AllBacked => SuccessIsBacked
  BY CommandAssumption DEF SuccessIsBacked, AllBacked, Backed
<1> QED
  BY <1>1, <1>2, InitBacked, TypeInvariance, PTL DEF Spec
================================================================================
