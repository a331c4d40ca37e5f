------------------------ MODULE SandboxLifecycle_proofs ------------------------
(***************************************************************************)
(* Proofs about SandboxLifecycle for every set of sandboxes, every backend,*)
(* every number of crashes and lost connections, and every choice of       *)
(* faults.                                                                 *)
(***************************************************************************)
EXTENDS SandboxLifecycle, TLAPS

\* A job is delivered once more only after a crash or a lost connection, and it
\* is in the broker only once the request published it.
DeliveriesCounted ==
  \A s \in Sandbox :
    /\ attempts[s] <= crashes + drops + (IF job[s] \in {"none", "queued"} THEN 0 ELSE 1)
    /\ request[s] \in {"none", "committed"} => job[s] = "none"

\* A delivery that has not happened has no handler.
UndeliveredIdle ==
  \A s \in Sandbox, a \in Attempt : handler[s][a] # "none" => a <= attempts[s]

\* With the connection never lost, a handler that runs is the one that will
\* acknowledge the job.
HandlerHoldsJob ==
  drops = 0 =>
    \A s \in Sandbox, a \in Attempt :
      InFlight(handler[s][a]) => job[s] = "unacked" /\ attempts[s] = a

\* Whoever will write the next outcome over "provisioning".
OwnedWithoutCrash ==
  crashes = 0 =>
    \A s \in Sandbox : status[s] = "provisioning" => Working_(s)
OwnedWithoutDrop ==
  drops = 0 =>
    \A s \in Sandbox : status[s] = "provisioning" =>
      \/ Working_(s)
      \/ job[s] = "queued"
      \/ job[s] = "unacked" /\ handler[s][attempts[s]] = "delivered"

\* A handler that still has its backend to make ready has its TTL task asleep.
HandlerIsWatched ==
  crashes = 0 =>
    \A s \in Sandbox, a \in Attempt :
      handler[s][a] \in {"creating", "probing", "provisioned"} /\ ~expired[s]
        => ttl[s][a] = "sleeping"

TypeInv == TypeOK /\ DeliveriesCounted
OwnerInv == UndeliveredIdle /\ HandlerHoldsJob /\ OwnedWithoutCrash /\ OwnedWithoutDrop
WatchInv == HandlerIsWatched /\ ReadyIsWatched

--------------------------------------------------------------------------------
\* The constants the arithmetic below needs, and the range of Attempt.
LEMMA AttemptRange ==
  /\ MaxCrashes \in Nat /\ MaxDrops \in Nat
  /\ \A n \in Nat : n \in Attempt <=> 1 <= n /\ n <= 1 + MaxCrashes + MaxDrops
  /\ Attempt \subseteq Nat
BY LifecycleAssumption DEF LifecycleAssumption, Attempt

\* The initial state is well typed.
LEMMA InitTypeInv == Init => TypeInv
BY AttemptRange DEF Init, TypeInv, TypeOK, DeliveriesCounted, Status, RequestPC,
   JobState, HandlerPC, TtlPC

\* Provisioner calls leave the sandbox with resources of its own attempts only.
LEMMA BackendTypes ==
  ASSUME NEW l \in SUBSET Attempt, NEW a \in Attempt, NEW r
  PROVE  /\ AfterCreate(l, a) \in SUBSET Attempt
         /\ AfterGiveUp(l) \in SUBSET Attempt
         /\ AfterStop(l, r) \in SUBSET Attempt
BY DEF AfterCreate, AfterGiveUp, AfterStop

\* Every step keeps the types and the count of deliveries: a job in the queue
\* has a delivery number left.
LEMMA NextTypeInv == TypeInv /\ [Next]_vars => TypeInv'
<1> SUFFICES ASSUME TypeInv, [Next]_vars PROVE TypeInv'
  OBVIOUS
<1> USE AttemptRange DEF TypeInv, TypeOK, DeliveriesCounted, Status, RequestPC,
        JobState, HandlerPC, TtlPC
<1>0. backend' = backend
  BY DEF Next, vars
<1> USE <1>0
<1>1. ASSUME NEW s \in Sandbox, CreateRow(s) PROVE TypeInv'
  BY <1>1 DEF CreateRow
<1>2. ASSUME NEW s \in Sandbox, PublishJob(s) PROVE TypeInv'
  BY <1>2 DEF PublishJob
<1>3. ASSUME NEW s \in Sandbox, PublishFails(s) PROVE TypeInv'
  BY <1>3 DEF PublishFails
<1>4. ASSUME NEW s \in Sandbox, RefuseRequest(s) PROVE TypeInv'
  BY <1>4 DEF RefuseRequest
<1>5. ASSUME NEW s \in Sandbox, ApiCrash(s) PROVE TypeInv'
  BY <1>5 DEF ApiCrash
<1>6. ASSUME NEW s \in Sandbox, Expire(s) PROVE TypeInv'
  BY <1>6 DEF Expire
<1>7. ASSUME NEW s \in Sandbox, Deliver(s) PROVE TypeInv'
  BY <1>7 DEF Deliver
<1>8. ASSUME NEW s \in Sandbox, NEW a \in Attempt, StartProvision(s, a) PROVE TypeInv'
  BY <1>8 DEF StartProvision
<1>9. ASSUME NEW s \in Sandbox, NEW a \in Attempt, StartTtl(s, a) PROVE TypeInv'
  BY <1>9 DEF StartTtl
<1>10. ASSUME NEW s \in Sandbox, NEW a \in Attempt, CreateBackend(s, a) PROVE TypeInv'
  BY <1>10, BackendTypes DEF CreateBackend
<1>11. ASSUME NEW s \in Sandbox, NEW a \in Attempt, CreateFails(s, a) PROVE TypeInv'
  <2>1. live' \in [Sandbox -> SUBSET Attempt]
    <3>1. AfterCreate(live[s], a) \in SUBSET Attempt
      BY BackendTypes
    <3>2. \/ live' = live
          \/ live' = [live EXCEPT ![s] = live[s]]
          \/ live' = [live EXCEPT ![s] = AfterCreate(live[s], a)]
      BY <1>11 DEF CreateFails
    <3>3. QED
      BY <3>1, <3>2
  <2>2. UNCHANGED <<status, ref, expired, request, job, attempts, ttl, stopRef,
                    announced, crashes, drops>>
    BY <1>11 DEF CreateFails
  <2>3. handler' \in [Sandbox -> [Attempt -> HandlerPC]]
    BY <1>11 DEF CreateFails
  <2>4. QED
    BY <2>1, <2>2, <2>3
<1>12. ASSUME NEW s \in Sandbox, NEW a \in Attempt, Probe(s, a) PROVE TypeInv'
  BY <1>12 DEF Probe
<1>13. ASSUME NEW s \in Sandbox, NEW a \in Attempt, GiveUp(s, a) PROVE TypeInv'
  <2>1. live' \in [Sandbox -> SUBSET Attempt]
    <3>1. AfterGiveUp(live[s]) \in SUBSET Attempt
      BY BackendTypes
    <3>2. live' = live \/ live' = [live EXCEPT ![s] = AfterGiveUp(live[s])]
      BY <1>13 DEF GiveUp
    <3>3. QED
      BY <3>1, <3>2
  <2>2. /\ handler' \in [Sandbox -> [Attempt -> HandlerPC]]
        /\ UNCHANGED <<status, ref, expired, request, job, attempts, ttl, stopRef,
                       announced, crashes, drops>>
    BY <1>13 DEF GiveUp
  <2>3. QED
    BY <2>1, <2>2
<1>14. ASSUME NEW s \in Sandbox, NEW a \in Attempt, SetReady(s, a) PROVE TypeInv'
  BY <1>14 DEF SetReady
<1>24. ASSUME NEW s \in Sandbox, NEW a \in Attempt, SetError(s, a) PROVE TypeInv'
  BY <1>24 DEF SetError
<1>15. ASSUME NEW s \in Sandbox, NEW a \in Attempt, Return(s, a) PROVE TypeInv'
  BY <1>15 DEF Return, Acks
<1>16. ASSUME NEW s \in Sandbox, NEW a \in Attempt, TtlWake(s, a) PROVE TypeInv'
  <2>1. /\ ttl' \in [Sandbox -> [Attempt -> TtlPC]]
        /\ status' \in [Sandbox -> Status \cup {"absent"}]
        /\ stopRef' \in [Sandbox -> [Attempt -> Attempt \cup {NoRef}]]
    <3>1. CASE ttl' = [ttl EXCEPT ![s][a] = "done"] /\ UNCHANGED <<status, stopRef>>
      BY <3>1
    <3>2. CASE /\ ttl' = [ttl EXCEPT ![s][a] = "stopping"]
               /\ stopRef' = [stopRef EXCEPT ![s][a] = ref[s]]
               /\ UNCHANGED status
      BY <3>2
    <3>3. CASE /\ \E end \in AfterPurgeLog : ttl' = [ttl EXCEPT ![s][a] = end]
               /\ status' = [status EXCEPT ![s] = "terminated"]
               /\ UNCHANGED stopRef
      BY <3>3 DEF AfterPurgeLog
    <3>4. QED
      BY <1>16, <3>1, <3>2, <3>3 DEF TtlWake
  <2>2. UNCHANGED <<ref, expired, request, job, attempts, handler, live, announced,
                    crashes, drops>>
    BY <1>16 DEF TtlWake
  <2>3. QED
    BY <2>1, <2>2
<1>17. ASSUME NEW s \in Sandbox, NEW a \in Attempt, TtlStop(s, a) PROVE TypeInv'
  <2>1. live' \in [Sandbox -> SUBSET Attempt]
    <3>1. AfterStop(live[s], stopRef[s][a]) \in SUBSET Attempt
      BY BackendTypes
    <3>2. \/ live' = live
          \/ live' = [live EXCEPT ![s] = AfterStop(live[s], stopRef[s][a])]
      BY <1>17 DEF TtlStop
    <3>3. QED
      BY <3>1, <3>2
  <2>2. ttl' \in [Sandbox -> [Attempt -> TtlPC]]
    BY <1>17 DEF TtlStop
  <2>3. UNCHANGED <<status, ref, expired, request, job, attempts, handler, stopRef,
                    announced, crashes, drops>>
    BY <1>17 DEF TtlStop
  <2>4. QED
    BY <2>1, <2>2, <2>3
<1>18. ASSUME NEW s \in Sandbox, NEW a \in Attempt, TtlTerminate(s, a) PROVE TypeInv'
  BY <1>18 DEF TtlTerminate, AfterPurgeLog
<1>19. ASSUME NEW s \in Sandbox, NEW a \in Attempt, TtlAnnounce(s, a) PROVE TypeInv'
  BY <1>19 DEF TtlAnnounce
<1>20. ASSUME Crash PROVE TypeInv'
  BY <1>20 DEF Crash, Requeue
<1>21. ASSUME ConnectionLost PROVE TypeInv'
  BY <1>21 DEF ConnectionLost, Requeue
<1>22. ASSUME UNCHANGED vars PROVE TypeInv'
  BY <1>22 DEF vars
<1>23. QED
  BY <1>1, <1>2, <1>3, <1>4, <1>5, <1>6, <1>7, <1>8, <1>9, <1>10, <1>11, <1>12, <1>13, <1>14, <1>15, <1>16, <1>17, <1>18, <1>19, <1>20, <1>21, <1>22, <1>24
     DEF Next, Step, ApiStep, HandlerStep, TtlStep

--------------------------------------------------------------------------------
\* No sandbox is stuck in "provisioning".

\* A handler appears only with the delivery that starts it.
LEMMA NextUndeliveredIdle ==
  TypeInv /\ UndeliveredIdle /\ [Next]_vars => UndeliveredIdle'
<1> SUFFICES ASSUME TypeInv, UndeliveredIdle, [Next]_vars PROVE UndeliveredIdle'
  OBVIOUS
<1> USE AttemptRange DEF TypeInv, TypeOK, DeliveriesCounted, UndeliveredIdle
<1>1. ASSUME NEW s \in Sandbox, NEW a \in Attempt, NEW pc,
             handler[s][a] # "none",
             handler' = [handler EXCEPT ![s][a] = pc],
             UNCHANGED attempts
      PROVE UndeliveredIdle'
  BY <1>1
<1>2. ASSUME UNCHANGED <<handler, attempts>> PROVE UndeliveredIdle'
  BY <1>2
<1>3. ASSUME NEW s \in Sandbox, Deliver(s) PROVE UndeliveredIdle'
  BY <1>3 DEF Deliver
<1>4. ASSUME Crash PROVE UndeliveredIdle'
  BY <1>4 DEF Crash, InFlight, Working
<1>5. ASSUME NEW s \in Sandbox, NEW a \in Attempt, HandlerStep(s, a)
      PROVE UndeliveredIdle'
  BY <1>1, <1>5, ZenonT(40) DEF HandlerStep, StartProvision, StartTtl, CreateBackend,
     CreateFails, Probe, GiveUp, SetReady, SetError, Return
<1>6. ASSUME NEW s \in Sandbox, NEW a \in Attempt, TtlStep(s, a)
      PROVE UndeliveredIdle'
  BY <1>2, <1>6 DEF TtlStep, TtlWake, TtlStop, TtlTerminate, TtlAnnounce
<1>7. ASSUME NEW s \in Sandbox,
             CreateRow(s) \/ ApiStep(s) \/ ApiCrash(s) \/ Expire(s)
      PROVE UndeliveredIdle'
  BY <1>2, <1>7 DEF CreateRow, ApiStep, PublishJob, PublishFails, RefuseRequest,
     ApiCrash, Expire
<1>8. ASSUME ConnectionLost \/ UNCHANGED vars PROVE UndeliveredIdle'
  BY <1>2, <1>8 DEF ConnectionLost, vars
<1>9. QED
  BY <1>3, <1>4, <1>5, <1>6, <1>7, <1>8 DEF Next, Step

\* A handler runs only while its own delivery holds the job, if the connection
\* is never lost: a crash ends all handlers as it requeues their jobs.
LEMMA NextHandlerHoldsJob ==
  TypeInv /\ HandlerHoldsJob /\ [Next]_vars => HandlerHoldsJob'
<1> SUFFICES ASSUME TypeInv, HandlerHoldsJob, [Next]_vars PROVE HandlerHoldsJob'
  OBVIOUS
<1> USE AttemptRange DEF TypeInv, TypeOK, DeliveriesCounted, HandlerHoldsJob,
        InFlight, Working
<1>1. ASSUME NEW s \in Sandbox,
             CreateRow(s) \/ RefuseRequest(s) \/ ApiCrash(s) \/ Expire(s)
      PROVE HandlerHoldsJob'
  BY <1>1 DEF CreateRow, RefuseRequest, ApiCrash, Expire
<1>2. ASSUME NEW s \in Sandbox,
             PublishJob(s) \/ PublishFails(s)
      PROVE HandlerHoldsJob'
  BY <1>2 DEF PublishJob, PublishFails
<1>3. ASSUME NEW s \in Sandbox, Deliver(s) PROVE HandlerHoldsJob'
  BY <1>3 DEF Deliver
<1>4. ASSUME NEW s \in Sandbox, NEW a \in Attempt, NEW pc \in HandlerPC,
             InFlight(handler[s][a]),
             handler' = [handler EXCEPT ![s][a] = pc],
             UNCHANGED <<job, attempts, drops>>
      PROVE HandlerHoldsJob'
  BY <1>4
<1>5. ASSUME NEW s \in Sandbox, NEW a \in Attempt, HandlerStep(s, a), ~Return(s, a)
      PROVE HandlerHoldsJob'
  <2>1. InFlight(handler[s][a])
    BY <1>5 DEF HandlerStep, StartProvision, StartTtl, CreateBackend, CreateFails,
       Probe, GiveUp, SetReady, SetError
  <2>2. \E pc \in HandlerPC : handler' = [handler EXCEPT ![s][a] = pc]
    BY <1>5 DEF HandlerStep, StartProvision, StartTtl, CreateBackend, CreateFails,
       Probe, GiveUp, SetReady, SetError, HandlerPC
  <2>3. UNCHANGED <<job, attempts, drops>>
    BY <1>5 DEF HandlerStep, StartProvision, StartTtl, CreateBackend, CreateFails,
       Probe, GiveUp, SetReady, SetError
  <2>4. QED
    BY <1>4, <2>1, <2>2, <2>3
<1>6. ASSUME NEW s \in Sandbox, NEW a \in Attempt, Return(s, a) PROVE HandlerHoldsJob'
  BY <1>6 DEF Return, Acks
<1>7. ASSUME NEW s \in Sandbox, NEW a \in Attempt,
             TtlWake(s, a) \/ TtlStop(s, a) \/ TtlTerminate(s, a) \/ TtlAnnounce(s,
             a)
      PROVE HandlerHoldsJob'
  BY <1>7 DEF TtlWake, TtlStop, TtlTerminate, TtlAnnounce
<1>8. ASSUME Crash PROVE HandlerHoldsJob'
  BY <1>8 DEF Crash, Requeue, HandlerPC
<1>9. ASSUME ConnectionLost PROVE HandlerHoldsJob'
  BY <1>9 DEF ConnectionLost
<1>10. ASSUME UNCHANGED vars PROVE HandlerHoldsJob'
  BY <1>10 DEF vars
<1>11. QED
  BY <1>1, <1>2, <1>3, <1>5, <1>6, <1>7, <1>8, <1>9, <1>10
     DEF Next, Step, ApiStep, TtlStep

\* Without a crash, "provisioning" is written by a handler that will replace it.
LEMMA NextOwnedWithoutCrash ==
  TypeInv /\ UndeliveredIdle /\ OwnedWithoutCrash /\ [Next]_vars => OwnedWithoutCrash'
<1> SUFFICES ASSUME TypeInv, UndeliveredIdle, OwnedWithoutCrash, [Next]_vars
             PROVE  OwnedWithoutCrash'
  OBVIOUS
<1> USE AttemptRange DEF TypeInv, TypeOK, OwnedWithoutCrash, Working_, Working
<1>1. ASSUME NEW s \in Sandbox,
             CreateRow(s) \/ RefuseRequest(s)
      PROVE OwnedWithoutCrash'
  BY <1>1 DEF CreateRow, RefuseRequest
<1>2. ASSUME NEW s \in Sandbox,
             PublishJob(s) \/ PublishFails(s) \/ ApiCrash(s) \/ Expire(s)
      PROVE OwnedWithoutCrash'
  BY <1>2 DEF PublishJob, PublishFails, ApiCrash, Expire
<1>3. ASSUME NEW s \in Sandbox, Deliver(s) PROVE OwnedWithoutCrash'
  <2>1. attempts[s] + 1 \in Attempt /\ handler[s][attempts[s] + 1] = "none"
    BY <1>3 DEF Deliver, DeliveriesCounted, UndeliveredIdle
  <2>2. handler' = [handler EXCEPT ![s][attempts[s] + 1] = "delivered"]
    BY <1>3 DEF Deliver
  <2>3. UNCHANGED <<status, crashes>>
    BY <1>3 DEF Deliver
  <2>4. QED
    BY <2>1, <2>2, <2>3
<1>4. ASSUME NEW s \in Sandbox, NEW a \in Attempt, StartProvision(s, a) PROVE OwnedWithoutCrash'
  BY <1>4 DEF StartProvision
<1>5. ASSUME NEW s \in Sandbox, NEW a \in Attempt,
             StartTtl(s, a) \/ CreateBackend(s, a) \/ CreateFails(s, a) \/
             Probe(s, a) \/ GiveUp(s, a)
      PROVE OwnedWithoutCrash'
  <2>1. \E pc \in {"creating", "probing", "provisioned", "failing"} :
          handler' = [handler EXCEPT ![s][a] = pc]
    BY <1>5 DEF StartTtl, CreateBackend, CreateFails, Probe, GiveUp
  <2>2. UNCHANGED <<status, crashes>>
    BY <1>5 DEF StartTtl, CreateBackend, CreateFails, Probe, GiveUp
  <2>3. QED
    BY <2>1, <2>2
<1>6. ASSUME NEW s \in Sandbox, NEW a \in Attempt,
             SetError(s, a) \/ SetReady(s, a)
      PROVE OwnedWithoutCrash'
  BY <1>6 DEF SetError, SetReady
<1>7. ASSUME NEW s \in Sandbox, NEW a \in Attempt, Return(s, a) PROVE OwnedWithoutCrash'
  BY <1>7 DEF Return
<1>8. ASSUME NEW s \in Sandbox, NEW a \in Attempt, TtlWake(s, a) PROVE OwnedWithoutCrash'
  BY <1>8 DEF TtlWake
<1>9. ASSUME NEW s \in Sandbox, NEW a \in Attempt,
             TtlStop(s, a) \/ TtlAnnounce(s, a)
      PROVE OwnedWithoutCrash'
  BY <1>9 DEF TtlStop, TtlAnnounce
<1>10. ASSUME NEW s \in Sandbox, NEW a \in Attempt, TtlTerminate(s, a) PROVE OwnedWithoutCrash'
  BY <1>10 DEF TtlTerminate
<1>11. ASSUME Crash PROVE OwnedWithoutCrash'
  BY <1>11 DEF Crash
<1>12. ASSUME ConnectionLost PROVE OwnedWithoutCrash'
  BY <1>12 DEF ConnectionLost
<1>13. ASSUME UNCHANGED vars PROVE OwnedWithoutCrash'
  BY <1>13 DEF vars
<1>14. QED
  BY <1>1, <1>2, <1>3, <1>4, <1>5, <1>6, <1>7, <1>8, <1>9, <1>10, <1>11, <1>12, <1>13
     DEF Next, Step, ApiStep, HandlerStep, TtlStep

\* Without a lost connection, a handler lost in a crash leaves its job behind.
LEMMA NextOwnedWithoutDrop ==
  TypeInv /\ HandlerHoldsJob /\ OwnedWithoutDrop /\ [Next]_vars => OwnedWithoutDrop'
<1> SUFFICES ASSUME TypeInv, HandlerHoldsJob, OwnedWithoutDrop, [Next]_vars
             PROVE  OwnedWithoutDrop'
  OBVIOUS
<1> USE AttemptRange DEF TypeInv, TypeOK, OwnedWithoutDrop, Working_, Working
<1>1. ASSUME NEW s \in Sandbox,
             CreateRow(s) \/ ApiStep(s) \/ ApiCrash(s) \/ Expire(s)
      PROVE OwnedWithoutDrop'
  <2>1. UNCHANGED <<handler, attempts, drops>>
    BY <1>1 DEF CreateRow, ApiStep, PublishJob, PublishFails, RefuseRequest,
       ApiCrash, Expire
  <2>2. \/ UNCHANGED <<status, job>>
        \/ UNCHANGED status /\ job' = [job EXCEPT ![s] = "queued"]
        \/ UNCHANGED job /\ status' = [status EXCEPT ![s] = "requested"]
        \/ UNCHANGED job /\ status' = [status EXCEPT ![s] = "error"]
    BY <1>1 DEF CreateRow, ApiStep, PublishJob, PublishFails, RefuseRequest,
       ApiCrash, Expire
  <2>3. QED
    BY <2>1, <2>2
<1>2. ASSUME NEW s \in Sandbox, Deliver(s) PROVE OwnedWithoutDrop'
  <2>1. attempts[s] + 1 \in Attempt
    BY <1>2 DEF Deliver, DeliveriesCounted
  <2>2. /\ job'[s] = "unacked"
        /\ attempts'[s] = attempts[s] + 1
        /\ handler'[s][attempts[s] + 1] = "delivered"
    BY <1>2, <2>1 DEF Deliver
  <2>3. \A r \in Sandbox \ {s} :
          /\ job'[r] = job[r] /\ attempts'[r] = attempts[r]
          /\ handler'[r] = handler[r] /\ status'[r] = status[r]
    BY <1>2 DEF Deliver
  <2>4. QED
    BY <1>2, <2>2, <2>3 DEF Deliver
<1>3. ASSUME NEW s \in Sandbox, NEW a \in Attempt,
             StartProvision(s, a) \/ StartTtl(s, a) \/ CreateBackend(s, a) \/
             CreateFails(s, a) \/ Probe(s, a) \/ GiveUp(s, a)
      PROVE OwnedWithoutDrop'
  <2>1. /\ Working(handler'[s][a])
        /\ \A r \in Sandbox \ {s} : handler'[r] = handler[r]
    BY <1>3 DEF StartProvision, StartTtl, CreateBackend, CreateFails,
       Probe, GiveUp
  <2>2. \A r \in Sandbox \ {s} : status'[r] = status[r]
    BY <1>3 DEF StartProvision, StartTtl, CreateBackend, CreateFails,
       Probe, GiveUp
  <2>3. UNCHANGED <<job, attempts, drops>>
    BY <1>3 DEF StartProvision, StartTtl, CreateBackend, CreateFails,
       Probe, GiveUp
  <2>4. ASSUME drops = 0, NEW r \in Sandbox, status'[r] = "provisioning"
        PROVE  \/ \E b \in Attempt : Working(handler'[r][b])
               \/ job[r] = "queued"
               \/ job[r] = "unacked" /\ handler'[r][attempts[r]] = "delivered"
    <3>1. CASE r = s
      BY <2>1, <3>1
    <3>2. CASE r # s
      <4>1. status[r] = "provisioning" /\ handler'[r] = handler[r]
        BY <2>1, <2>2, <2>4, <3>2
      <4>2. QED
        BY <4>1, <2>4
    <3>3. QED
      BY <3>1, <3>2
  <2>5. QED
    BY <2>3, <2>4
<1>4. ASSUME NEW s \in Sandbox, NEW a \in Attempt,
             SetError(s, a) \/ SetReady(s, a)
      PROVE OwnedWithoutDrop'
  <2>1. /\ status'[s] # "provisioning"
        /\ \A r \in Sandbox \ {s} : status'[r] = status[r] /\ handler'[r] = handler[r]
    BY <1>4 DEF SetError, SetReady
  <2>2. UNCHANGED <<job, attempts, drops>>
    BY <1>4 DEF SetError, SetReady
  <2>3. QED
    BY <2>1, <2>2
<1>5. ASSUME NEW s \in Sandbox, NEW a \in Attempt, Return(s, a)
      PROVE OwnedWithoutDrop'
  <2>1. /\ \A r \in Sandbox \ {s} : job'[r] = job[r] /\ handler'[r] = handler[r]
        /\ UNCHANGED <<status, attempts, drops>>
    BY <1>5 DEF Return
  <2>2. drops = 0 => status[s] # "provisioning"
    <3>1. SUFFICES ASSUME drops = 0, status[s] = "provisioning" PROVE FALSE
      OBVIOUS
    <3>2. job[s] = "unacked" /\ attempts[s] = a
      BY <1>5, <3>1 DEF Return, HandlerHoldsJob, InFlight
    <3>3. handler[s][a] # "delivered" /\ ~Working(handler[s][a])
      BY <1>5 DEF Return
    <3>4. \A b \in Attempt : Working(handler[s][b]) => b = a
      BY <3>1, <3>2 DEF HandlerHoldsJob, InFlight
    <3>5. QED
      BY <3>1, <3>2, <3>3, <3>4
  <2>3. QED
    BY <2>1, <2>2, SMTT(30)
<1>6. ASSUME NEW s \in Sandbox, NEW a \in Attempt, TtlStep(s, a)
      PROVE OwnedWithoutDrop'
  <2>1. UNCHANGED <<handler, job, attempts, drops>>
    BY <1>6 DEF TtlStep, TtlWake, TtlStop, TtlTerminate, TtlAnnounce
  <2>2. \/ UNCHANGED status
        \/ status' = [status EXCEPT ![s] = "terminated"]
    BY <1>6 DEF TtlStep, TtlWake, TtlStop, TtlTerminate, TtlAnnounce
  <2>3. QED
    BY <2>1, <2>2
<1>7. ASSUME Crash PROVE OwnedWithoutDrop'
  <2>1. ASSUME NEW s \in Sandbox, drops = 0, status[s] = "provisioning"
        PROVE job[s] \in {"queued", "unacked"}
    BY <2>1 DEF HandlerHoldsJob, InFlight
  <2>2. QED
    BY <1>7, <2>1 DEF Crash, Requeue
<1>8. ASSUME ConnectionLost PROVE OwnedWithoutDrop'
  BY <1>8 DEF ConnectionLost
<1>9. ASSUME UNCHANGED vars PROVE OwnedWithoutDrop'
  BY <1>9 DEF vars
<1>10. QED
  BY <1>1, <1>2, <1>3, <1>4, <1>5, <1>6, <1>7, <1>8, <1>9 DEF Next, Step, HandlerStep

\* The four facts about handlers, jobs and "provisioning" hold together.
LEMMA InitOwnerInv == Init => OwnerInv
BY DEF Init, OwnerInv, UndeliveredIdle, HandlerHoldsJob, OwnedWithoutCrash,
   OwnedWithoutDrop, InFlight, Working

\* Each part of OwnerInv is kept by every step.
LEMMA NextOwnerInv == TypeInv /\ OwnerInv /\ [Next]_vars => OwnerInv'
BY NextUndeliveredIdle, NextHandlerHoldsJob, NextOwnedWithoutCrash,
   NextOwnedWithoutDrop DEF OwnerInv

--------------------------------------------------------------------------------
\* No sandbox that has time left runs without a TTL task.

\* The TTL task starts before the provisioner and sleeps until the time is over.
LEMMA NextWatchInv == TypeInv /\ WatchInv /\ [Next]_vars => WatchInv'
<1> SUFFICES ASSUME TypeInv, WatchInv, [Next]_vars PROVE WatchInv'
  OBVIOUS
<1> USE AttemptRange DEF TypeInv, TypeOK, WatchInv, HandlerIsWatched,
        ReadyIsWatched, Watched
<1>1. ASSUME NEW s \in Sandbox,
             CreateRow(s) \/ ApiStep(s) \/ ApiCrash(s) \/ Expire(s)
      PROVE WatchInv'
  <2>1. UNCHANGED <<handler, ttl, crashes>>
    BY <1>1 DEF CreateRow, ApiStep, PublishJob, PublishFails, RefuseRequest,
       ApiCrash, Expire
  <2>2. \A r \in Sandbox : /\ expired[r] => expired'[r]
                           /\ status'[r] = "ready" => status[r] = "ready"
    BY <1>1 DEF CreateRow, ApiStep, PublishJob, PublishFails, RefuseRequest,
       ApiCrash, Expire
  <2>3. QED
    BY <2>1, <2>2
<1>2. ASSUME NEW s \in Sandbox, Deliver(s) PROVE WatchInv'
  <2>1. \A r \in Sandbox, a \in Attempt :
          handler'[r][a] \in {handler[r][a], "delivered"}
    BY <1>2 DEF Deliver, HandlerPC
  <2>2. UNCHANGED <<status, expired, ttl, crashes>>
    BY <1>2 DEF Deliver
  <2>3. QED
    BY <2>1, <2>2
<1>3. ASSUME NEW s \in Sandbox, NEW a \in Attempt, StartTtl(s, a) PROVE WatchInv'
  BY <1>3 DEF StartTtl
<1>4. ASSUME NEW s \in Sandbox, NEW a \in Attempt, SetReady(s, a) PROVE WatchInv'
  <2>1. crashes = 0 /\ ~expired[s] => ttl[s][a] = "sleeping"
    BY <1>4 DEF SetReady
  <2>2. \A r \in Sandbox, b \in Attempt :
          handler'[r][b] \in {handler[r][b], "ready"}
    <3>1. handler' = [handler EXCEPT ![s][a] = "ready"]
      BY <1>4 DEF SetReady
    <3>2. QED
      BY <3>1
  <2>3. /\ \A r \in Sandbox \ {s} : status'[r] = status[r]
        /\ UNCHANGED <<expired, ttl, crashes>>
    BY <1>4 DEF SetReady
  <2>4. HandlerIsWatched'
    BY <2>2, <2>3
  <2>5. ASSUME crashes = 0, NEW r \in Sandbox, status'[r] = "ready", ~expired[r]
        PROVE  \E b \in Attempt : ttl[r][b] = "sleeping"
    <3>1. CASE r = s
      BY <2>1, <2>5, <3>1
    <3>2. CASE r # s
      BY <2>3, <2>5, <3>2
    <3>3. QED
      BY <3>1, <3>2
  <2>6. QED
    BY <2>3, <2>4, <2>5
<1>5. ASSUME NEW s \in Sandbox, NEW a \in Attempt,
             CreateBackend(s, a) \/ Probe(s, a)
      PROVE WatchInv'
  <2>1. \A r \in Sandbox, b \in Attempt :
          handler'[r][b] \in {"creating", "probing", "provisioned"} =>
          handler[r][b] \in {"creating", "probing", "provisioned"}
    <3>1. /\ handler[s][a] \in {"creating", "probing"}
          /\ \E pc \in HandlerPC : handler' = [handler EXCEPT ![s][a] = pc]
      BY <1>5 DEF CreateBackend, Probe, HandlerPC
    <3>2. QED
      BY <3>1
  <2>2. UNCHANGED <<status, expired, ttl, crashes>>
    BY <1>5 DEF CreateBackend, Probe
  <2>3. QED
    BY <2>1, <2>2
<1>6. ASSUME NEW s \in Sandbox, NEW a \in Attempt,
             StartProvision(s, a) \/ CreateFails(s, a) \/ GiveUp(s, a) \/
             SetError(s, a) \/ Return(s, a)
      PROVE WatchInv'
  <2>1. \A r \in Sandbox, b \in Attempt :
          handler'[r][b] \in {handler[r][b], "started", "failing", "failed", "returned"}
    <3>1. \E pc \in {"started", "failing", "failed", "returned"} :
            handler' = [handler EXCEPT ![s][a] = pc]
      BY <1>6 DEF StartProvision, CreateFails, GiveUp, SetError, Return
    <3>2. QED
      BY <3>1
  <2>2. \A r \in Sandbox : status'[r] = "ready" => status[r] = "ready"
    BY <1>6 DEF StartProvision, CreateFails, GiveUp, SetError, Return
  <2>3. UNCHANGED <<expired, ttl, crashes>>
    BY <1>6 DEF StartProvision, CreateFails, GiveUp, SetError, Return
  <2>4. QED
    BY <2>1, <2>2, <2>3
<1>7. ASSUME NEW s \in Sandbox, NEW a \in Attempt, TtlStep(s, a) PROVE WatchInv'
  <2>1. \A r \in Sandbox, b \in Attempt :
          ttl[r][b] = "sleeping" /\ ~expired[r] => ttl'[r][b] = "sleeping"
    <3>1. ttl[s][a] # "sleeping" \/ expired[s]
      BY <1>7 DEF TtlStep, TtlWake, DelayOver, TtlStop, TtlTerminate, TtlAnnounce
    <3>2. \E pc : ttl' = [ttl EXCEPT ![s][a] = pc]
      BY <1>7 DEF TtlStep, TtlWake, TtlStop, TtlTerminate, TtlAnnounce
    <3>3. QED
      BY <3>1, <3>2 DEF TypeInv, TypeOK
  <2>2. \A r \in Sandbox : status'[r] = "ready" => status[r] = "ready"
    BY <1>7 DEF TtlStep, TtlWake, TtlStop, TtlTerminate, TtlAnnounce
  <2>3. UNCHANGED <<handler, expired, crashes>>
    BY <1>7 DEF TtlStep, TtlWake, TtlStop, TtlTerminate, TtlAnnounce
  <2>4. QED
    BY <2>1, <2>2, <2>3
<1>8. ASSUME Crash PROVE WatchInv'
  BY <1>8 DEF Crash
<1>9. ASSUME ConnectionLost \/ UNCHANGED vars PROVE WatchInv'
  BY <1>9 DEF ConnectionLost, vars
<1>10. QED
  BY <1>1, <1>2, <1>3, <1>4, <1>5, <1>6, <1>7, <1>8, <1>9 DEF Next, Step, HandlerStep

--------------------------------------------------------------------------------
\* The theorems.

\* The state of the three processes keeps its types: in particular a job is
\* delivered at most once more per crash and per lost connection.
THEOREM TypeCorrect == Spec => []TypeOK
<1>1. TypeInv => TypeOK
  BY DEF TypeInv
<1>2. QED
  BY InitTypeInv, NextTypeInv, <1>1, PTL DEF Spec

\* No sandbox is left in "provisioning": someone works on it or its job will be
\* delivered again, unless the worker has both crashed and lost a connection.
THEOREM ProvisioningNotAbandoned == Spec => []ProvisioningIsOwned
<1>1. TypeInv /\ OwnerInv => ProvisioningIsOwned
  BY AttemptRange DEF TypeInv, TypeOK, OwnerInv, OwnedWithoutCrash,
     OwnedWithoutDrop, ProvisioningIsOwned, Pending
<1>2. QED
  BY InitTypeInv, NextTypeInv, InitOwnerInv, NextOwnerInv, <1>1, PTL DEF Spec

\* As long as the worker has not crashed, a ready sandbox with time left has a
\* TTL task asleep that will terminate it.
THEOREM ReadyAlwaysWatched == Spec => []ReadyIsWatched
<1>1. Init => WatchInv
  BY DEF Init, WatchInv, HandlerIsWatched, ReadyIsWatched
<1>2. WatchInv => ReadyIsWatched
  BY DEF WatchInv
<1>3. QED
  BY InitTypeInv, NextTypeInv, NextWatchInv, <1>1, <1>2, PTL DEF Spec

--------------------------------------------------------------------------------
(* The implementation of SandboxContract *)

\* What the mapping of SandboxLifecycle makes of a request and of a handler.
Answered == [s \in Sandbox |-> request[s] \in {"accepted", "refused", "lost"}]
Phase == [s \in Sandbox |-> [a \in Attempt |-> AttemptPhase(handler[s][a])]]

\* Nothing happens to a sandbox before its row exists, and a TTL task gets past its
\* sleep only when the time is over.
RowInv == \A s \in Sandbox :
  /\ request[s] = "none" =>
       status[s] = "absent" /\ \A a \in Attempt : handler[s][a] = "none" /\ ttl[s][a] = "none"
  /\ \A a \in Attempt : ttl[s][a] \in {"stopping", "stopped"} => expired[s]

\* RowInv survives every step: whatever moves a sandbox has its request made before.
LEMMA NextRowInv == TypeInv /\ RowInv /\ [Next]_vars => RowInv'
<1> SUFFICES ASSUME TypeInv, RowInv, [Next]_vars PROVE RowInv'
  OBVIOUS
<1> USE AttemptRange DEF TypeInv, TypeOK, RowInv
<1>1. ASSUME NEW s \in Sandbox, CreateRow(s) \/ ApiStep(s) \/ ApiCrash(s) PROVE RowInv'
  BY <1>1 DEF CreateRow, ApiStep, PublishJob, PublishFails, RefuseRequest, ApiCrash
<1>2. ASSUME NEW s \in Sandbox, Expire(s) PROVE RowInv'
  BY <1>2 DEF Expire
<1>3. ASSUME NEW s \in Sandbox, request[s] # "none",
             \A r \in Sandbox : r # s => handler'[r] = handler[r] /\ status'[r] = status[r],
             UNCHANGED <<request, ttl, expired>>
      PROVE RowInv'
  <2>1. \A r \in Sandbox : request'[r] = "none" =>
          status'[r] = "absent" /\ \A a \in Attempt : handler'[r][a] = "none" /\ ttl'[r][a] = "none"
    <3>1. SUFFICES ASSUME NEW r \in Sandbox, request[r] = "none"
                   PROVE  status'[r] = "absent" /\ \A a \in Attempt :
                            handler'[r][a] = "none" /\ ttl[r][a] = "none"
      BY <1>3
    <3>2. r # s /\ handler'[r] = handler[r] /\ status'[r] = status[r]
      BY <1>3, <3>1
    <3>3. QED
      BY <3>1, <3>2
  <2>2. QED
    BY <1>3, <2>1
<1>4. ASSUME NEW s \in Sandbox, Deliver(s) PROVE RowInv'
  <2>1. request[s] # "none"
    BY <1>4 DEF Deliver, DeliveriesCounted
  <2>2. /\ \A r \in Sandbox : r # s => handler'[r] = handler[r] /\ status'[r] = status[r]
        /\ UNCHANGED <<request, ttl, expired>>
    BY <1>4 DEF Deliver
  <2>3. QED
    BY <1>3, <2>1, <2>2
<1>5. ASSUME NEW s \in Sandbox, NEW a \in Attempt, StartTtl(s, a) PROVE RowInv'
  BY <1>5 DEF StartTtl
<1>6. ASSUME NEW s \in Sandbox, NEW a \in Attempt, HandlerStep(s, a), ~StartTtl(s, a)
      PROVE RowInv'
  <2>1. handler[s][a] # "none"
    BY <1>6 DEF HandlerStep, StartProvision, CreateBackend, CreateFails, Probe,
       GiveUp, SetReady, SetError, Return
  <2>2. \A r \in Sandbox : r # s => handler'[r] = handler[r]
    BY <1>6 DEF HandlerStep, StartProvision, CreateBackend, CreateFails, Probe,
       GiveUp, SetReady, SetError, Return
  <2>3. \A r \in Sandbox : r # s => status'[r] = status[r]
    BY <1>6 DEF HandlerStep, StartProvision, CreateBackend, CreateFails, Probe,
       GiveUp, SetReady, SetError, Return
  <2>4. UNCHANGED <<request, ttl, expired>>
    BY <1>6 DEF HandlerStep, StartProvision, CreateBackend, CreateFails, Probe,
       GiveUp, SetReady, SetError, Return
  <2>5. request[s] # "none"
    BY <2>1
  <2>6. QED
    BY <1>3, <2>2, <2>3, <2>4, <2>5
<1>7. ASSUME NEW s \in Sandbox, NEW a \in Attempt, TtlStep(s, a) PROVE RowInv'
  <2>1. request[s] # "none"
    BY <1>7 DEF TtlStep, TtlWake, TtlStop, TtlTerminate, TtlAnnounce
  <2>2. /\ UNCHANGED <<request, expired, handler>>
        /\ \A r \in Sandbox : r # s => ttl'[r] = ttl[r] /\ status'[r] = status[r]
    BY <1>7 DEF TtlStep, TtlWake, TtlStop, TtlTerminate, TtlAnnounce
  <2>3. expired[s] \/ \A b \in Attempt : ttl'[s][b] \in {ttl[s][b], "done"}
    BY <1>7 DEF TtlStep, TtlWake, TtlStop, TtlTerminate, TtlAnnounce, DelayOver
  <2>4. QED
    BY <2>1, <2>2, <2>3
<1>8. CASE Crash
  BY <1>8 DEF Crash, InFlight, Working
<1>9. CASE ConnectionLost \/ UNCHANGED vars
  BY <1>9 DEF ConnectionLost, vars
<1>10. ASSUME NEW s \in Sandbox, NEW a \in Attempt, HandlerStep(s, a) PROVE RowInv'
  BY <1>5, <1>6, <1>10
<1> HIDE DEF RowInv, TypeInv, TypeOK
<1>11. QED
  BY <1>1, <1>2, <1>4, <1>7, <1>8, <1>9, <1>10 DEF Next, Step

\* A handler that moves changes the phase of its own attempt only.
LEMMA PhaseMoves ==
  ASSUME TypeOK, NEW s \in Sandbox, NEW a \in Attempt, NEW pc,
         handler' = [handler EXCEPT ![s][a] = pc]
  PROVE  /\ Phase' = [Phase EXCEPT ![s][a] = AttemptPhase(pc)]
         /\ AttemptPhase(pc) = AttemptPhase(handler[s][a]) => Phase' = Phase
<1> DEFINE P == AttemptPhase(pc)
<1>1. \A r \in Sandbox, b \in Attempt :
        handler'[r][b] = IF r = s /\ b = a THEN pc ELSE handler[r][b]
  BY DEF TypeOK
<1>2. \A r \in Sandbox, b \in Attempt :
        AttemptPhase(handler'[r][b]) = IF r = s /\ b = a THEN P ELSE AttemptPhase(handler[r][b])
  BY <1>1
<1> HIDE DEF P
<1>3. Phase' = [r \in Sandbox |-> [b \in Attempt |->
                  IF r = s /\ b = a THEN P ELSE AttemptPhase(handler[r][b])]]
  BY <1>2 DEF Phase
<1>4. [Phase EXCEPT ![s][a] = P]
        = [r \in Sandbox |-> [b \in Attempt |->
             IF r = s /\ b = a THEN P ELSE AttemptPhase(handler[r][b])]]
  BY DEF Phase
<1>5. P = AttemptPhase(handler[s][a]) => Phase' = Phase
  BY <1>3 DEF Phase
<1>6. QED
  BY <1>3, <1>4, <1>5 DEF P

\* KeepsContract of SandboxLifecycle: for every set of sandboxes, every backend and any
\* number of crashes and lost connections, the three processes implement
\* SandboxContract: each write of storage.py to the status is the begin or the end of
\* an attempt, the answer of the API, or a termination after the time is over.
THEOREM ContractKept == Spec => KeepsContract
<1>1. Init => Contract!Init /\ RowInv
  <2> SUFFICES ASSUME Init PROVE Contract!Init /\ RowInv
    OBVIOUS
  <2>1. [s \in Sandbox |-> request[s] \in {"accepted", "refused", "lost"}]
          = [s \in Sandbox |-> FALSE]
    <3>1. \A s \in Sandbox : request[s] = "none"
      BY DEF Init
    <3>2. \A s \in Sandbox : (request[s] \in {"accepted", "refused", "lost"}) = FALSE
      BY <3>1
    <3>3. QED
      BY <3>2
  <2>2. AttemptPhase("none") = "idle"
    BY DEF AttemptPhase, Working
  <2>3. \A s \in Sandbox, a \in Attempt : handler[s][a] = "none"
    BY DEF Init
  <2>4. [s \in Sandbox |-> [a \in Attempt |-> AttemptPhase(handler[s][a])]]
          = [s \in Sandbox |-> [a \in Attempt |-> "idle"]]
    BY <2>2, <2>3
  <2>5. RowInv
    BY DEF Init, RowInv
  <2>6. QED
    BY <2>1, <2>4, <2>5 DEF Init, Contract!Init
<1>2. TypeInv /\ OwnerInv /\ RowInv /\ [Next]_vars => [Contract!Next]_(Contract!vars)
  <2> SUFFICES ASSUME TypeInv, OwnerInv, RowInv, [Next]_vars
               PROVE  [Contract!Next]_(Contract!vars)
    OBVIOUS
  <2> USE DEF TypeInv, TypeOK
  <2>s. ASSUME UNCHANGED <<status, expired>>, Answered' = Answered, Phase' = Phase
        PROVE  UNCHANGED Contract!vars
    BY <2>s DEF Contract!vars, Answered, Phase
  <2>p. UNCHANGED handler => Phase' = Phase
    BY DEF Phase
  <2>q. UNCHANGED request => Answered' = Answered
    BY DEF Answered
  \* A handler's step between two writes of the status.
  <2>h. ASSUME NEW s \in Sandbox, NEW a \in Attempt, NEW pc,
               handler' = [handler EXCEPT ![s][a] = pc],
               AttemptPhase(pc) = AttemptPhase(handler[s][a]),
               UNCHANGED <<status, expired, request>>
        PROVE  UNCHANGED Contract!vars
    BY PhaseMoves, <2>h, <2>s, <2>q
  <2>1. ASSUME NEW s \in Sandbox, CreateRow(s) PROVE Contract!Request(s)
    <3>1. status[s] = "absent"
      BY <2>1 DEF CreateRow, RowInv
    <3>2. Answered' = Answered
      BY <2>1 DEF CreateRow, Answered
    <3>3. Phase' = Phase
      BY <2>1, <2>p DEF CreateRow
    <3>4. QED
      BY <2>1, <3>1, <3>2, <3>3 DEF CreateRow, Contract!Request, Answered, Phase
  <2>2. ASSUME NEW s \in Sandbox, PublishJob(s) \/ RefuseRequest(s) \/ ApiCrash(s)
        PROVE  Contract!Answer(s)
    <3>1. ~Answered[s] /\ Answered' = [Answered EXCEPT ![s] = TRUE]
      BY <2>2 DEF PublishJob, RefuseRequest, ApiCrash, Answered
    <3>2. Phase' = Phase
      BY <2>2, <2>p DEF PublishJob, RefuseRequest, ApiCrash
    <3>3. status' \in {status, [status EXCEPT ![s] = "error"]} /\ UNCHANGED expired
      BY <2>2 DEF PublishJob, RefuseRequest, ApiCrash
    <3>4. QED
      BY <3>1, <3>2, <3>3 DEF Contract!Answer, Answered, Phase
  <2>3. ASSUME NEW s \in Sandbox, PublishFails(s) PROVE UNCHANGED Contract!vars
    <3>1. Answered' = Answered
      BY <2>3 DEF PublishFails, Answered
    <3>2. QED
      BY <2>3, <2>s, <2>p, <3>1 DEF PublishFails
  <2>4. ASSUME NEW s \in Sandbox, Expire(s) PROVE Contract!TimeOver(s)
    <3>1. Answered' = Answered /\ Phase' = Phase
      BY <2>4, <2>p, <2>q DEF Expire
    <3>2. QED
      BY <2>4, <3>1 DEF Expire, Contract!TimeOver, Answered, Phase
  <2>5. ASSUME NEW s \in Sandbox, Deliver(s) PROVE UNCHANGED Contract!vars
    <3>1. attempts[s] + 1 \in Attempt /\ handler[s][attempts[s] + 1] = "none"
      BY <2>5, AttemptRange DEF Deliver, DeliveriesCounted, OwnerInv, UndeliveredIdle
    <3>2. AttemptPhase("delivered") = AttemptPhase("none")
      BY DEF AttemptPhase, Working
    <3>3. handler' = [handler EXCEPT ![s][attempts[s] + 1] = "delivered"]
      BY <2>5 DEF Deliver
    <3>4. UNCHANGED <<status, expired, request>>
      BY <2>5 DEF Deliver
    <3>5. QED
      BY <3>1, <3>2, <3>3, <3>4, <2>h
  <2>6. ASSUME NEW s \in Sandbox, NEW a \in Attempt, StartProvision(s, a)
        PROVE  Contract!Begin(s, a)
    <3>1. handler' = [handler EXCEPT ![s][a] = "started"] /\ handler[s][a] = "delivered"
      BY <2>6 DEF StartProvision
    <3>2. AttemptPhase("delivered") = "idle" /\ AttemptPhase("started") = "open"
      BY DEF AttemptPhase, Working
    <3>3. Phase[s][a] = "idle" /\ Phase' = [Phase EXCEPT ![s][a] = "open"]
      <4>1. Phase[s][a] = AttemptPhase(handler[s][a])
        BY DEF Phase
      <4>2. Phase' = [Phase EXCEPT ![s][a] = AttemptPhase("started")]
        BY <3>1, PhaseMoves
      <4>3. QED
        BY <3>1, <3>2, <4>1, <4>2
    <3>4. Answered' = Answered
      BY <2>6, <2>q DEF StartProvision
    <3>5. status' = [status EXCEPT ![s] = "provisioning"] /\ UNCHANGED expired
      BY <2>6 DEF StartProvision
    <3>6. QED
      BY <3>3, <3>4, <3>5 DEF Contract!Begin, Answered, Phase
  <2>7. ASSUME NEW s \in Sandbox, NEW a \in Attempt, SetReady(s, a) \/ SetError(s, a)
        PROVE  Contract!Conclude(s, a)
    <3>1. /\ handler[s][a] \in {"provisioned", "failing"}
          /\ \E pc \in {"ready", "failed"} : handler' = [handler EXCEPT ![s][a] = pc]
      BY <2>7 DEF SetReady, SetError
    <3>2. /\ AttemptPhase("provisioned") = "open" /\ AttemptPhase("failing") = "open"
          /\ AttemptPhase("ready") = "closed" /\ AttemptPhase("failed") = "closed"
      BY DEF AttemptPhase, Working
    <3>3. Phase[s][a] = "open" /\ Phase' = [Phase EXCEPT ![s][a] = "closed"]
      <4>1. Phase[s][a] = AttemptPhase(handler[s][a])
        BY DEF Phase
      <4>2. PICK pc \in {"ready", "failed"} : handler' = [handler EXCEPT ![s][a] = pc]
        BY <3>1
      <4>3. Phase' = [Phase EXCEPT ![s][a] = AttemptPhase(pc)]
        BY <4>2, PhaseMoves
      <4>4. AttemptPhase(pc) = "closed"
        BY <3>2
      <4>5. QED
        BY <3>1, <3>2, <4>1, <4>3, <4>4
    <3>4. Answered' = Answered
      BY <2>7, <2>q DEF SetReady, SetError
    <3>5. /\ \E outcome \in {"ready", "error"} : status' = [status EXCEPT ![s] = outcome]
          /\ UNCHANGED expired
      BY <2>7 DEF SetReady, SetError
    <3>6. QED
      BY <3>3, <3>4, <3>5 DEF Contract!Conclude, Answered, Phase
  <2>8. ASSUME NEW s \in Sandbox, NEW a \in Attempt,
               StartTtl(s, a) \/ CreateBackend(s, a) \/ CreateFails(s, a) \/
               Probe(s, a) \/ GiveUp(s, a)
        PROVE  UNCHANGED Contract!vars
    <3>1. /\ Working(handler[s][a])
          /\ \E pc \in {"creating", "probing", "provisioned", "failing"} :
               handler' = [handler EXCEPT ![s][a] = pc]
      BY <2>8 DEF StartTtl, CreateBackend, CreateFails, Probe, GiveUp, Working
    <3>2. UNCHANGED <<status, expired, request>>
      BY <2>8 DEF StartTtl, CreateBackend, CreateFails, Probe, GiveUp
    <3>3. \A pc : Working(pc) => AttemptPhase(pc) = "open"
      BY DEF AttemptPhase, Working
    <3>4. PICK pc \in {"creating", "probing", "provisioned", "failing"} :
            handler' = [handler EXCEPT ![s][a] = pc]
      BY <3>1
    <3>5. Working(pc)
      BY DEF Working
    <3>6. AttemptPhase(pc) = AttemptPhase(handler[s][a])
      BY <3>1, <3>3, <3>5
    <3>7. QED
      BY <2>h, <3>2, <3>4, <3>6
  <2>9. ASSUME NEW s \in Sandbox, NEW a \in Attempt, Return(s, a)
        PROVE  UNCHANGED Contract!vars
    <3>1. /\ handler[s][a] \in {"ready", "failed"}
          /\ handler' = [handler EXCEPT ![s][a] = "returned"]
      BY <2>9 DEF Return
    <3>2. UNCHANGED <<status, expired, request>>
      BY <2>9 DEF Return
    <3>3. \A pc \in {"ready", "failed", "returned"} : AttemptPhase(pc) = "closed"
      BY DEF AttemptPhase, Working
    <3>4. QED
      BY <2>h, <3>1, <3>2, <3>3
  <2>10. ASSUME NEW s \in Sandbox, NEW a \in Attempt, TtlStep(s, a)
         PROVE  Contract!Terminate(s) \/ UNCHANGED Contract!vars
    <3>1. Answered' = Answered /\ Phase' = Phase
      BY <2>10, <2>p, <2>q DEF TtlStep, TtlWake, TtlStop, TtlTerminate, TtlAnnounce
    <3>2. UNCHANGED expired
      BY <2>10 DEF TtlStep, TtlWake, TtlStop, TtlTerminate, TtlAnnounce
    <3>3. \/ UNCHANGED status
          \/ expired[s] /\ status' = [status EXCEPT ![s] = "terminated"]
      BY <2>10 DEF TtlStep, TtlWake, TtlStop, TtlTerminate, TtlAnnounce, DelayOver, RowInv
    <3>4. CASE UNCHANGED status
      BY <2>s, <3>1, <3>2, <3>4
    <3>5. CASE expired[s] /\ status' = [status EXCEPT ![s] = "terminated"]
      BY <3>1, <3>2, <3>5 DEF Contract!Terminate, Answered, Phase
    <3>6. QED
      BY <3>3, <3>4, <3>5
  <2>11. ASSUME Crash PROVE Contract!Lose
    <3>1. \A pc : AttemptPhase(pc) \in {"idle", "open", "closed"}
      BY DEF AttemptPhase
    <3>2. AttemptPhase("dead") = "closed"
      BY DEF AttemptPhase, Working
    <3>3. Phase' = [s \in Sandbox |-> [a \in Attempt |-> AttemptPhase(handler'[s][a])]]
      BY DEF Phase
    <3>4. Phase' \in [Sandbox -> [Attempt -> {"idle", "open", "closed"}]]
      BY <3>1, <3>3
    <3>5. \A s \in Sandbox, a \in Attempt : handler'[s][a] \in {handler[s][a], "dead"}
      BY <2>11 DEF Crash
    <3>6. \A s \in Sandbox, a \in Attempt : Phase'[s][a] \in {Phase[s][a], "closed"}
      BY <3>2, <3>3, <3>5 DEF Phase
    <3>7. Answered' = Answered
      BY <2>11, <2>q DEF Crash
    <3>8. QED
      BY <2>11, <3>4, <3>6, <3>7 DEF Crash, Contract!Lose, Answered, Phase
  <2>12. ASSUME ConnectionLost \/ UNCHANGED vars PROVE UNCHANGED Contract!vars
    BY <2>12, <2>s, <2>p, <2>q DEF ConnectionLost, vars
  <2>13. QED
    BY <2>1, <2>2, <2>3, <2>4, <2>5, <2>6, <2>7, <2>8, <2>9, <2>10, <2>11, <2>12
       DEF Next, Step, ApiStep, HandlerStep, Contract!Next
<1>3. QED
  BY InitTypeInv, NextTypeInv, InitOwnerInv, NextOwnerInv, NextRowInv, <1>1, <1>2,
     PTL DEF Spec, KeepsContract, Contract!Spec

--------------------------------------------------------------------------------
(* What a stop reaches. *)

\* A sandbox's resources, and the one its row names, come from deliveries that happened.
OwnNames ==
  \A s \in Sandbox :
    /\ live[s] \subseteq 1 .. attempts[s]
    /\ ref[s] \in {NoRef} \cup (1 .. attempts[s])
    /\ backend = "local" => live[s] = {}

\* The handler has created its backend and not stored or given it up yet.
Holding(s, a) == handler[s][a] \in {"probing", "provisioned"}

\* What exists is the backend of the handler that holds one, or the stored backend_ref
\* leads to it.
StopReaches(s) ==
  /\ \A a \in Attempt : Holding(s, a) => live[s] \subseteq {a}
  /\ AfterStop(live[s], ref[s]) = {} \/ \E a \in Attempt : Holding(s, a)

FewFaults ==
  BackendCallsClean /\ drops = 0 /\ crashes <= (IF backend = "docker" THEN 1 ELSE 0)
StopInv == FewFaults => \A s \in Sandbox : StopReaches(s)

\* An action of one sandbox leaves the others, and the faults so far, alone.
Elsewhere(s) ==
  /\ UNCHANGED <<crashes, drops, backend>>
  /\ \A r \in Sandbox : r # s =>
       /\ handler'[r] = handler[r] /\ ttl'[r] = ttl[r] /\ stopRef'[r] = stopRef[r]
       /\ live'[r] = live[r] /\ ref'[r] = ref[r] /\ status'[r] = status[r]
       /\ attempts'[r] = attempts[r]

\* The API works on one sandbox and on none of its handlers.
LEMMA ApiElsewhere ==
  ASSUME TypeInv, UNCHANGED backend, NEW s \in Sandbox,
         CreateRow(s) \/ ApiStep(s) \/ ApiCrash(s) \/ Expire(s)
  PROVE  Elsewhere(s) /\ UNCHANGED <<handler, ttl, stopRef, live, ref, attempts>>
BY DEF TypeInv, TypeOK, Elsewhere, CreateRow, ApiStep, PublishJob, PublishFails,
   RefuseRequest, ApiCrash, Expire

\* Deliver changes the new delivery's handler only, which was not there before.
LEMMA DeliverElsewhere ==
  ASSUME TypeInv, UndeliveredIdle, UNCHANGED backend, NEW s \in Sandbox, Deliver(s)
  PROVE  /\ Elsewhere(s)
         /\ UNCHANGED <<ttl, stopRef, live, ref, status>>
         /\ attempts'[s] = attempts[s] + 1 /\ attempts[s] + 1 \in Attempt
         /\ handler[s][attempts[s] + 1] = "none"
         /\ \A a \in Attempt :
              handler'[s][a] = IF a = attempts[s] + 1 THEN "delivered" ELSE handler[s][a]
<1> USE AttemptRange DEF TypeInv, TypeOK
<1>1. attempts[s] \in Nat /\ attempts[s] + 1 \in Attempt /\ handler[s][attempts[s] + 1] = "none"
  BY DEF Deliver, DeliveriesCounted, UndeliveredIdle
<1>2. QED
  BY <1>1 DEF Deliver, Elsewhere

\* A handler's step moves that handler, which was already there.
LEMMA HandlerElsewhere ==
  ASSUME TypeInv, UNCHANGED backend, NEW s \in Sandbox, NEW a \in Attempt, HandlerStep(s, a)
  PROVE  /\ Elsewhere(s)
         /\ handler[s][a] # "none" /\ InFlight(handler[s][a])
         /\ UNCHANGED <<attempts, stopRef>>
         /\ \A b \in Attempt : b # a => handler'[s][b] = handler[s][b] /\ ttl'[s][b] = ttl[s][b]
<1> USE DEF TypeInv, TypeOK
<1>1. UNCHANGED <<attempts, stopRef, crashes, drops, backend>>
  BY DEF HandlerStep, StartProvision, StartTtl, CreateBackend, CreateFails, Probe,
     GiveUp, SetReady, SetError, Return
<1>2. /\ handler[s][a] # "none" /\ InFlight(handler[s][a])
      /\ \E pc : handler' = [handler EXCEPT ![s][a] = pc]
  BY DEF HandlerStep, StartProvision, StartTtl, CreateBackend, CreateFails, Probe,
     GiveUp, SetReady, SetError, Return, InFlight, Working
<1>3. ttl' = ttl \/ ttl' = [ttl EXCEPT ![s][a] = "sleeping"]
  BY DEF HandlerStep, StartProvision, StartTtl, CreateBackend, CreateFails, Probe,
     GiveUp, SetReady, SetError, Return
<1>4. \E l : live' = live \/ live' = [live EXCEPT ![s] = l]
  <2>1. CASE CreateBackend(s, a)
    BY <2>1 DEF CreateBackend
  <2>2. CASE CreateFails(s, a)
    BY <2>2 DEF CreateFails
  <2>3. CASE GiveUp(s, a)
    BY <2>3 DEF GiveUp
  <2>4. QED
    BY <2>1, <2>2, <2>3 DEF HandlerStep, StartProvision, StartTtl, Probe, SetReady,
       SetError, Return
<1>5. ref' = ref \/ ref' = [ref EXCEPT ![s] = a]
  BY DEF HandlerStep, StartProvision, StartTtl, CreateBackend, CreateFails, Probe,
     GiveUp, SetReady, SetError, Return
<1>6. \E x : status' = status \/ status' = [status EXCEPT ![s] = x]
  BY DEF HandlerStep, StartProvision, StartTtl, CreateBackend, CreateFails, Probe,
     GiveUp, SetReady, SetError, Return
<1>7. QED
  BY <1>1, <1>2, <1>3, <1>4, <1>5, <1>6 DEF Elsewhere

\* A TTL task's step removes what its stop removes, and creates nothing.
LEMMA TtlElsewhere ==
  ASSUME TypeInv, UNCHANGED backend, NEW s \in Sandbox, NEW a \in Attempt, TtlStep(s, a)
  PROVE  /\ Elsewhere(s)
         /\ UNCHANGED <<handler, ref, attempts>>
         /\ live'[s] = live[s] \/ live'[s] = AfterStop(live[s], stopRef[s][a])
         /\ \A b \in Attempt :
              b # a => ttl'[s][b] = ttl[s][b] /\ stopRef'[s][b] = stopRef[s][b]
<1> USE DEF TypeInv, TypeOK
<1>1. CASE TtlWake(s, a)
  BY <1>1 DEF TtlWake, Elsewhere
<1>2. CASE TtlStop(s, a)
  <2>1. live' = live \/ live' = [live EXCEPT ![s] = AfterStop(live[s], stopRef[s][a])]
    BY <1>2 DEF TtlStop
  <2>2. QED
    BY <1>2, <2>1 DEF TtlStop, Elsewhere
<1>3. CASE TtlTerminate(s, a) \/ TtlAnnounce(s, a)
  BY <1>3 DEF TtlTerminate, TtlAnnounce, Elsewhere
<1>4. QED
  BY <1>1, <1>2, <1>3 DEF TtlStep

\* A stop removes and never adds, and reaches no less when less is there.
LEMMA StopShrinks ==
  ASSUME NEW l, NEW m \in SUBSET l, NEW r
  PROVE  AfterStop(l, r) \subseteq l /\ (AfterStop(l, r) = {} => AfterStop(m, r) = {})
BY DEF AfterStop

\* A handler creates and stores under its own delivery's name.
LEMMA NextOwnNames ==
  ASSUME TypeInv, UndeliveredIdle, OwnNames, [Next]_vars PROVE OwnNames'
<1> USE AttemptRange DEF OwnNames
<1>0. backend' = backend /\ \A s \in Sandbox : attempts[s] \in Nat
  BY DEF Next, vars, TypeInv, TypeOK
<1>1. ASSUME NEW s \in Sandbox, CreateRow(s) \/ ApiStep(s) \/ ApiCrash(s) \/ Expire(s)
      PROVE  OwnNames'
  BY <1>0, <1>1, ApiElsewhere
<1>2. ASSUME NEW s \in Sandbox, Deliver(s) PROVE OwnNames'
  <2>1. 1 .. attempts[s] \subseteq 1 .. (attempts[s] + 1)
    BY <1>0
  <2>2. QED
    BY <1>0, <1>2, <2>1, DeliverElsewhere DEF Elsewhere
<1>3. ASSUME NEW s \in Sandbox, NEW a \in Attempt, HandlerStep(s, a) PROVE OwnNames'
  <2>1. Elsewhere(s) /\ UNCHANGED attempts /\ handler[s][a] # "none"
    BY <1>0, <1>3, HandlerElsewhere
  <2>2. a \in 1 .. attempts[s]
    BY <1>0, <2>1 DEF UndeliveredIdle
  <2>3. ref'[s] \in {ref[s], a}
    BY <1>3 DEF HandlerStep, StartProvision, StartTtl, CreateBackend, CreateFails,
       Probe, GiveUp, SetReady, SetError, Return, TypeInv, TypeOK
  <2>4. \/ live'[s] = live[s] \/ live'[s] = AfterCreate(live[s], a)
        \/ live'[s] = AfterGiveUp(live[s])
    <3>1. CASE CreateBackend(s, a)
      BY <3>1 DEF CreateBackend, TypeInv, TypeOK
    <3>2. CASE CreateFails(s, a)
      BY <3>2 DEF CreateFails, TypeInv, TypeOK
    <3>3. CASE GiveUp(s, a)
      BY <3>3 DEF GiveUp, TypeInv, TypeOK
    <3>4. QED
      BY <1>3, <3>1, <3>2, <3>3 DEF HandlerStep, StartProvision, StartTtl, Probe,
         SetReady, SetError, Return
  <2>5. /\ live'[s] \subseteq 1 .. attempts[s]
        /\ backend = "local" => live'[s] = {}
    BY <2>2, <2>4 DEF AfterCreate, AfterGiveUp
  <2>6. ref'[s] \in {NoRef} \cup (1 .. attempts[s])
    BY <2>2, <2>3
  <2>7. QED
    BY <1>0, <2>1, <2>5, <2>6 DEF Elsewhere
<1>4. ASSUME NEW s \in Sandbox, NEW a \in Attempt, TtlStep(s, a) PROVE OwnNames'
  <2>1. live'[s] \subseteq live[s]
    BY <1>0, <1>4, TtlElsewhere, StopShrinks
  <2>2. Elsewhere(s) /\ UNCHANGED <<ref, attempts>>
    BY <1>0, <1>4, TtlElsewhere
  <2>3. QED
    BY <1>0, <2>1, <2>2 DEF Elsewhere
<1>5. ASSUME Crash \/ ConnectionLost \/ UNCHANGED vars PROVE OwnNames'
  BY <1>0, <1>5 DEF Crash, ConnectionLost, vars
<1>6. QED
  BY <1>1, <1>2, <1>3, <1>4, <1>5 DEF Next, Step

\* While the faults are few, one handler at a time works on a sandbox: what exists is
\* its backend or the stored one.
LEMMA NextStopInv ==
  ASSUME TypeInv, OwnerInv, OwnNames, StopInv, [Next]_vars PROVE StopInv'
<1> SUFFICES ASSUME FewFaults' PROVE (\A s \in Sandbox : StopReaches(s))'
  BY DEF StopInv
<1> USE AttemptRange
<1>0. /\ backend' = backend /\ backend \in {"local", "docker", "browserbase"}
      /\ \A s \in Sandbox : attempts[s] \in Nat
      /\ crashes \in Nat /\ drops \in Nat
  BY BackendAssumption DEF Next, vars, TypeInv, TypeOK
<1>1. ASSUME UNCHANGED <<crashes, drops>> PROVE FewFaults /\ drops = 0
  BY <1>0, <1>1 DEF FewFaults, BackendCallsClean
<1>2. ASSUME NEW s \in Sandbox, CreateRow(s) \/ ApiStep(s) \/ ApiCrash(s) \/ Expire(s)
      PROVE  (\A r \in Sandbox : StopReaches(r))'
  <2>1. UNCHANGED <<handler, live, ref, crashes, drops, backend>>
    BY <1>0, <1>2, ApiElsewhere DEF Elsewhere
  <2>2. QED
    BY <1>1, <2>1 DEF StopInv, StopReaches, Holding, AfterStop
\* What is left to show of a step that concerns one sandbox.
<1>3. ASSUME NEW s \in Sandbox, Elsewhere(s), FewFaults => StopReaches(s)'
      PROVE  (\A r \in Sandbox : StopReaches(r))'
  <2>1. FewFaults
    BY <1>1, <1>3 DEF Elsewhere
  <2>2. ASSUME NEW r \in Sandbox, r # s PROVE StopReaches(r)'
    BY <1>0, <1>3, <2>1, <2>2 DEF Elsewhere, StopInv, StopReaches, Holding, AfterStop
  <2>3. QED
    BY <1>3, <2>1, <2>2
<1>4. ASSUME NEW s \in Sandbox, Deliver(s) PROVE (\A r \in Sandbox : StopReaches(r))'
  <2>1. Elsewhere(s) /\ \A a \in Attempt : (Holding(s, a))' <=> Holding(s, a)
    BY <1>0, <1>4, DeliverElsewhere DEF OwnerInv, Holding
  <2>2. UNCHANGED <<live, ref>>
    BY <1>0, <1>4, DeliverElsewhere DEF OwnerInv
  <2>3. QED
    BY <1>0, <1>3, <2>1, <2>2 DEF StopInv, StopReaches, AfterStop
<1>5. ASSUME NEW s \in Sandbox, NEW a \in Attempt, HandlerStep(s, a)
      PROVE  (\A r \in Sandbox : StopReaches(r))'
  <2>1. /\ Elsewhere(s) /\ InFlight(handler[s][a]) /\ handler[s][a] # "none"
        /\ \A b \in Attempt : b # a => handler'[s][b] = handler[s][b]
    BY <1>0, <1>5, HandlerElsewhere
  <2>2. FewFaults /\ drops = 0 /\ StopReaches(s)
    BY <1>1, <2>1 DEF Elsewhere, StopInv
  <2>3. \A b \in Attempt : InFlight(handler[s][b]) => b = a
    <3>1. \A b \in Attempt : InFlight(handler[s][b]) => attempts[s] = b
      BY <2>2 DEF OwnerInv, HandlerHoldsJob
    <3>2. attempts[s] = a
      BY <2>1, <3>1
    <3>3. QED
      BY <3>1, <3>2
  <2>4. \A b \in Attempt : Holding(s, b) => b = a
    BY <2>3 DEF Holding, InFlight, Working
  <2>5. \A b \in Attempt : (Holding(s, b))' => b = a
    BY <2>1, <2>4 DEF Holding
  <2>6. a # NoRef
    BY NoRefAssumption
  <2>7. CASE CreateBackend(s, a)
    <3>1. /\ CanCreate(live[s]) /\ live'[s] = AfterCreate(live[s], a)
          /\ (Holding(s, a))' /\ ~Holding(s, a)
      BY <2>7 DEF CreateBackend, Holding, TypeInv, TypeOK
    <3>2. live'[s] \subseteq {a}
      <4>1. CASE backend = "local"
        BY <3>1, <4>1 DEF AfterCreate, OwnNames
      <4>2. CASE backend = "docker"
        BY <3>1, <4>2 DEF AfterCreate, CanCreate
      <4>3. CASE backend = "browserbase"
        <5>1. attempts[s] <= 1
          BY <1>0, <2>2, <4>3 DEF FewFaults, TypeInv, DeliveriesCounted
        <5>2. a <= attempts[s]
          BY <2>1 DEF OwnerInv, UndeliveredIdle
        <5>3. live[s] \subseteq {a}
          BY <1>0, <5>1, <5>2 DEF OwnNames
        <5>4. QED
          BY <3>1, <5>3 DEF AfterCreate
      <4>4. QED
        BY <1>0, <4>1, <4>2, <4>3
    <3>3. StopReaches(s)'
      BY <2>5, <3>1, <3>2 DEF StopReaches
    <3>4. QED
      BY <1>3, <2>1, <3>3
  <2>8. CASE Probe(s, a)
    <3>1. /\ live'[s] = live[s] /\ Holding(s, a) /\ (Holding(s, a))'
      BY <2>8 DEF Probe, Holding, TypeInv, TypeOK
    <3>2. StopReaches(s)'
      BY <2>2, <2>5, <3>1 DEF StopReaches
    <3>3. QED
      BY <1>3, <2>1, <3>2
  <2>9. CASE GiveUp(s, a)
    <3>1. live[s] \subseteq {a} /\ ~(Holding(s, a))'
      BY <2>2, <2>9 DEF GiveUp, StopReaches, Holding, TypeInv, TypeOK
    <3>2. live'[s] = AfterGiveUp(live[s])
      BY <2>2, <2>9 DEF GiveUp, FewFaults, BackendCallsClean, TypeInv, TypeOK
    <3>3. live'[s] = {}
      <4>1. CASE backend = "local"
        BY <3>2, <4>1 DEF AfterGiveUp, OwnNames
      <4>2. CASE backend = "docker"
        BY <3>2, <4>2 DEF AfterGiveUp
      <4>3. CASE backend = "browserbase"
        BY <2>2, <2>9, <3>1, <3>2, <4>3
           DEF GiveUp, FewFaults, BackendCallsClean, ProbesAlive, AfterGiveUp
      <4>4. QED
        BY <1>0, <4>1, <4>2, <4>3
    <3>4. StopReaches(s)'
      BY <2>5, <3>1, <3>3 DEF StopReaches, AfterStop
    <3>5. QED
      BY <1>3, <2>1, <3>4
  <2>10. CASE SetReady(s, a)
    <3>1. live[s] \subseteq {a} /\ ~(Holding(s, a))'
      BY <2>2, <2>10 DEF SetReady, StopReaches, Holding, TypeInv, TypeOK
    <3>2. live'[s] = live[s] /\ ref'[s] = a
      BY <2>10 DEF SetReady, TypeInv, TypeOK
    <3>3. backend = "local" => live[s] = {}
      BY DEF OwnNames
    <3>4. StopReaches(s)'
      BY <1>0, <2>5, <2>6, <3>1, <3>2, <3>3 DEF StopReaches, AfterStop
    <3>5. QED
      BY <1>3, <2>1, <3>4
  <2>11. CASE StartProvision(s, a) \/ StartTtl(s, a) \/ CreateFails(s, a) \/ SetError(s, a)
              \/ Return(s, a)
    <3>1. ~Holding(s, a) /\ ~(Holding(s, a))' /\ ref' = ref
      BY <2>11 DEF StartProvision, StartTtl, CreateFails, SetError, Return, Holding,
         TypeInv, TypeOK
    <3>2. live'[s] = live[s]
      <4>1. CASE CreateFails(s, a)
        BY <2>2, <4>1 DEF CreateFails, FewFaults, BackendCallsClean, TypeInv, TypeOK
      <4>2. QED
        BY <2>11, <4>1 DEF StartProvision, StartTtl, SetError, Return
    <3>3. StopReaches(s)'
      BY <1>0, <2>2, <2>4, <2>5, <3>1, <3>2 DEF StopReaches, AfterStop
    <3>4. QED
      BY <1>3, <2>1, <3>3
  <2>12. QED
    BY <1>5, <2>7, <2>8, <2>9, <2>10, <2>11 DEF HandlerStep
<1>6. ASSUME NEW s \in Sandbox, NEW a \in Attempt, TtlStep(s, a)
      PROVE  (\A r \in Sandbox : StopReaches(r))'
  <2>1. Elsewhere(s) /\ UNCHANGED <<handler, ref>>
    BY <1>0, <1>6, TtlElsewhere
  <2>2. live'[s] \subseteq live[s]
    BY <1>0, <1>6, TtlElsewhere, StopShrinks
  <2>3. AfterStop(live[s], ref[s]) = {} => AfterStop(live'[s], ref[s]) = {}
    BY <2>2, StopShrinks
  <2>4. FewFaults => StopReaches(s)'
    BY <1>0, <2>1, <2>2, <2>3 DEF StopInv, StopReaches, Holding, AfterStop
  <2>5. QED
    BY <1>3, <2>1, <2>4
\* A crash ends the handler; the only backend there can be then is the first delivery's.
<1>7. CASE Crash
  <2>1. crashes' = crashes + 1 /\ UNCHANGED <<attempts, live, ref, drops>>
    BY <1>7 DEF Crash
  <2>2. backend = "docker" /\ crashes = 0 /\ drops = 0
    BY <1>0, <2>1 DEF FewFaults
  <2>3. ASSUME NEW s \in Sandbox PROVE StopReaches(s)'
    <3>1. attempts[s] <= 1
      BY <1>0, <2>2 DEF TypeInv, DeliveriesCounted
    <3>2. live[s] \subseteq {1} /\ ref[s] \in {NoRef, 1}
      BY <1>0, <3>1 DEF OwnNames
    <3>3. AfterStop(live[s], ref[s]) = {}
      BY <2>2, <3>2 DEF AfterStop
    <3>4. \A a \in Attempt : ~(Holding(s, a))'
      BY <1>7 DEF Crash, Holding, InFlight, Working
    <3>5. QED
      BY <1>0, <2>1, <3>3, <3>4 DEF StopReaches, AfterStop
  <2>4. QED
    BY <2>3
<1>8. CASE ConnectionLost
  BY <1>0, <1>8 DEF ConnectionLost, FewFaults
<1>9. CASE UNCHANGED vars
  BY <1>0, <1>1, <1>9 DEF vars, StopInv, StopReaches, Holding, AfterStop
<1>10. QED
  BY <1>2, <1>4, <1>5, <1>6, <1>7, <1>8, <1>9 DEF Next, Step

\* StopReachesAll of SandboxLifecycle: for every backend and any choice of the other
\* faults, what create_session or `docker run` made is never lost from sight: once no
\* delivery is under way, provisioner.stop with the stored backend_ref removes all of it.
THEOREM NothingIsLost == Spec => []StopReachesAll
<1>1. Init => OwnNames /\ StopInv
  BY DEF Init, OwnNames, StopInv, StopReaches, Holding, AfterStop
<1>2. StopInv => StopReachesAll
  BY DEF StopInv, FewFaults, StopReachesAll, StopReaches, Holding, InFlight_, InFlight, Working
<1>3. OwnerInv => UndeliveredIdle
  BY DEF OwnerInv
<1>4. QED
  BY InitTypeInv, NextTypeInv, InitOwnerInv, NextOwnerInv, NextOwnNames, NextStopInv,
     <1>1, <1>2, <1>3, PTL DEF Spec

--------------------------------------------------------------------------------
(* The release of a Browserbase session. *)

NoFaults == backend = "browserbase" /\ crashes = 0 /\ drops = 0 /\ BackendCallsClean

\* Once backend_ref is stored the handler creates nothing more; a TTL task that stops
\* a session stops the stored one; a row that says "terminated" beside a session has
\* the handler's set_ready or set_error still before it.
Releases(s) ==
  /\ ref[s] # NoRef => \A a \in Attempt : handler[s][a] \in {"none", "ready", "returned"}
  /\ \A a \in Attempt : ttl[s][a] = "stopping" => ref[s] # NoRef /\ stopRef[s][a] = ref[s]
  /\ \A a \in Attempt : ttl[s][a] = "stopped" => ref[s] # NoRef /\ live[s] = {}
  /\ status[s] = "terminated" /\ live[s] # {} => \E a \in Attempt : Holding(s, a)

ReleaseInv == NoFaults => \A s \in Sandbox : Releases(s)

\* Releases survives a step of its sandbox's handler: there is only the first delivery.
LEMMA HandlerReleases ==
  ASSUME TypeInv, OwnerInv, OwnNames, StopInv, NoFaults, UNCHANGED backend,
         NEW s \in Sandbox, Releases(s), NEW a \in Attempt, HandlerStep(s, a)
  PROVE  Releases(s)'
<1> USE AttemptRange
<1>1. /\ InFlight(handler[s][a]) /\ handler[s][a] # "none" /\ UNCHANGED stopRef
      /\ \A b \in Attempt : b # a => handler'[s][b] = handler[s][b] /\ ttl'[s][b] = ttl[s][b]
  BY HandlerElsewhere
<1>2. attempts[s] \in Nat /\ attempts[s] <= 1
  BY DEF NoFaults, TypeInv, TypeOK, DeliveriesCounted
<1>3. a = 1 /\ \A b \in Attempt : b # a => handler[s][b] = "none"
  BY <1>1, <1>2 DEF OwnerInv, UndeliveredIdle
<1>4. live[s] \subseteq {a}
  BY <1>2, <1>3 DEF OwnNames
<1>5. StopReaches(s)
  BY DEF StopInv, FewFaults, NoFaults
<1>6. ~Return(s, a) => ref[s] = NoRef
  BY DEF Releases, HandlerStep, StartProvision, StartTtl, CreateBackend, CreateFails,
     Probe, GiveUp, SetReady, SetError
<1>7. ref[s] = NoRef => \A b \in Attempt : ttl[s][b] \notin {"stopping", "stopped"}
  BY DEF Releases
<1>8. CASE SetReady(s, a)
  <2>1. /\ handler'[s][a] = "ready" /\ status'[s] = "ready" /\ ttl' = ttl
    BY <1>8 DEF SetReady, TypeInv, TypeOK
  <2>2. QED
    BY <1>1, <1>3, <1>6, <1>7, <1>8, <2>1 DEF Releases, SetReady
<1>9. CASE Return(s, a)
  <2>1. /\ handler'[s][a] = "returned" /\ handler[s][a] \in {"ready", "failed"}
        /\ UNCHANGED <<status, live, ref, ttl>>
    BY <1>9 DEF Return, TypeInv, TypeOK
  <2>2. \A b \in Attempt : ~Holding(s, b)
    BY <1>3, <2>1 DEF Holding
  <2>3. QED
    BY <1>1, <2>1, <2>2 DEF Releases
<1>10. CASE ~SetReady(s, a) /\ ~Return(s, a)
  <2>1. ref[s] = NoRef /\ UNCHANGED ref
    BY <1>6, <1>10 DEF HandlerStep, StartProvision, StartTtl, CreateBackend, CreateFails,
       Probe, GiveUp, SetError
  <2>2. \A b \in Attempt : ttl'[s][b] \notin {"stopping", "stopped"}
    BY <1>7, <1>10, <2>1 DEF HandlerStep, StartProvision, StartTtl, CreateBackend,
       CreateFails, Probe, GiveUp, SetError, TypeInv, TypeOK
  <2>3. ASSUME status'[s] = "terminated", live'[s] # {} PROVE (Holding(s, a))'
    <3>1. CASE CreateBackend(s, a) \/ Probe(s, a)
      BY <3>1 DEF CreateBackend, Probe, Holding, TypeInv, TypeOK
    <3>2. CASE GiveUp(s, a)
      BY <1>4, <2>3, <3>2 DEF GiveUp, NoFaults, BackendCallsClean, ProbesAlive, AfterGiveUp,
         TypeInv, TypeOK
    <3>3. CASE CreateFails(s, a)
      <4>1. live'[s] = live[s] /\ status' = status /\ handler[s][a] = "creating"
        BY <3>3 DEF CreateFails, NoFaults, BackendCallsClean, TypeInv, TypeOK
      <4>2. QED
        BY <1>3, <2>3, <4>1 DEF Releases, Holding
    <3>4. CASE StartProvision(s, a) \/ SetError(s, a)
      BY <2>3, <3>4 DEF StartProvision, SetError, TypeInv, TypeOK
    <3>5. CASE StartTtl(s, a)
      BY <1>3, <2>3, <3>5 DEF StartTtl, Releases, Holding
    <3>6. QED
      BY <1>10, <3>1, <3>2, <3>3, <3>4, <3>5 DEF HandlerStep
  <2>4. QED
    BY <2>1, <2>2, <2>3 DEF Releases
<1>11. QED
  BY <1>8, <1>9, <1>10

\* Releases survives a step of a TTL task: no set_ready falls between its stop and its
\* set_terminated.
LEMMA TtlReleases ==
  ASSUME TypeInv, OwnerInv, OwnNames, StopInv, NoFaults, UNCHANGED backend,
         NEW s \in Sandbox, Releases(s), NEW a \in Attempt, TtlStep(s, a)
  PROVE  Releases(s)'
<1> USE AttemptRange
<1>1. /\ UNCHANGED <<handler, ref>>
      /\ \A b \in Attempt : b # a => ttl'[s][b] = ttl[s][b] /\ stopRef'[s][b] = stopRef[s][b]
  BY TtlElsewhere
<1>2. live'[s] \subseteq live[s]
  BY TtlElsewhere, StopShrinks
<1>3. StopReaches(s) /\ attempts[s] \in Nat /\ attempts[s] <= 1
  BY DEF StopInv, FewFaults, NoFaults, TypeInv, TypeOK, DeliveriesCounted
<1>4. CASE TtlWake(s, a)
  <2>1. UNCHANGED live
    BY <1>4 DEF TtlWake
  <2>2. CASE ttl' = [ttl EXCEPT ![s][a] = "done"] /\ UNCHANGED <<status, stopRef>>
    BY <1>1, <2>1, <2>2 DEF Releases, Holding, TypeInv, TypeOK
  <2>3. CASE /\ StopSuspends(ref[s]) /\ UNCHANGED status
             /\ ttl' = [ttl EXCEPT ![s][a] = "stopping"]
             /\ stopRef' = [stopRef EXCEPT ![s][a] = ref[s]]
    BY <1>1, <2>1, <2>3 DEF Releases, Holding, StopSuspends, NoFaults, TypeInv, TypeOK
  <2>4. CASE /\ ~StopSuspends(ref[s]) /\ UNCHANGED stopRef
             /\ \E end \in AfterPurgeLog : ttl' = [ttl EXCEPT ![s][a] = end]
             /\ status' = [status EXCEPT ![s] = "terminated"]
    <3>1. ref[s] = NoRef
      BY <2>4 DEF StopSuspends, NoFaults
    <3>2. live[s] # {} => \E b \in Attempt : Holding(s, b)
      BY <1>3, <3>1, NoRefAssumption DEF StopReaches, AfterStop, NoFaults, OwnNames
    <3>3. ttl'[s][a] \notin {"stopping", "stopped"}
      BY <2>4 DEF AfterPurgeLog, TypeInv, TypeOK
    <3>4. QED
      BY <1>1, <2>1, <2>4, <3>2, <3>3 DEF Releases, Holding
  <2>5. QED
    BY <1>4, <2>2, <2>3, <2>4 DEF TtlWake
<1>5. CASE TtlStop(s, a)
  <2>1. /\ ref[s] # NoRef /\ stopRef[s][a] = ref[s] /\ ttl'[s][a] = "stopped"
        /\ live'[s] = AfterStop(live[s], ref[s]) /\ UNCHANGED <<status, stopRef>>
    BY <1>5 DEF TtlStop, Releases, NoFaults, BackendCallsClean, TypeInv, TypeOK
  <2>2. live'[s] = {}
    <3>1. live[s] \subseteq {1} /\ ref[s] = 1
      BY <1>3, <2>1 DEF OwnNames
    <3>2. QED
      BY <2>1, <3>1 DEF AfterStop, NoFaults
  <2>3. QED
    BY <1>1, <2>1, <2>2 DEF Releases, Holding
<1>6. CASE TtlTerminate(s, a)
  <2>1. /\ ref[s] # NoRef /\ live[s] = {} /\ UNCHANGED <<live, stopRef>>
        /\ ttl'[s][a] \notin {"stopping", "stopped"}
    BY <1>6 DEF TtlTerminate, Releases, AfterPurgeLog, TypeInv, TypeOK
  <2>2. QED
    BY <1>1, <2>1 DEF Releases, Holding
<1>7. CASE TtlAnnounce(s, a)
  <2>1. UNCHANGED <<live, stopRef, status>> /\ ttl'[s][a] = "done"
    BY <1>7 DEF TtlAnnounce, TypeInv, TypeOK
  <2>2. QED
    BY <1>1, <2>1 DEF Releases, Holding
<1>8. QED
  BY <1>4, <1>5, <1>6, <1>7 DEF TtlStep

\* Every step keeps the way open to the release of a session, as long as nothing fails.
LEMMA NextReleaseInv ==
  ASSUME TypeInv, OwnerInv, OwnNames, StopInv, ReleaseInv, [Next]_vars PROVE ReleaseInv'
<1> SUFFICES ASSUME NoFaults' PROVE (\A s \in Sandbox : Releases(s))'
  BY DEF ReleaseInv
<1>0. backend' = backend /\ crashes \in Nat /\ drops \in Nat
  BY AttemptRange DEF Next, vars, TypeInv, TypeOK
<1>1. ASSUME UNCHANGED <<crashes, drops>> PROVE NoFaults
  BY <1>0, <1>1 DEF NoFaults, BackendCallsClean
<1>2. ASSUME NEW s \in Sandbox, Elsewhere(s), NoFaults /\ Releases(s) => Releases(s)'
      PROVE  (\A r \in Sandbox : Releases(r))'
  <2>1. NoFaults /\ Releases(s)
    BY <1>1, <1>2 DEF Elsewhere, ReleaseInv
  <2>2. ASSUME NEW r \in Sandbox, r # s PROVE Releases(r)'
    BY <1>2, <2>1, <2>2 DEF Elsewhere, ReleaseInv, Releases, Holding
  <2>3. QED
    BY <1>2, <2>1, <2>2
<1>3. ASSUME NEW s \in Sandbox, CreateRow(s) \/ ApiStep(s) \/ ApiCrash(s) \/ Expire(s)
      PROVE  (\A r \in Sandbox : Releases(r))'
  <2>1. Elsewhere(s) /\ UNCHANGED <<handler, ttl, stopRef, live, ref>>
    BY <1>0, <1>3, ApiElsewhere
  <2>2. status'[s] = "terminated" => status[s] = "terminated"
    BY <1>3 DEF CreateRow, ApiStep, PublishJob, PublishFails, RefuseRequest, ApiCrash,
       Expire, TypeInv, TypeOK
  <2>3. Releases(s) => Releases(s)'
    BY <2>1, <2>2 DEF Releases, Holding
  <2>4. QED
    BY <1>2, <2>1, <2>3
<1>4. ASSUME NEW s \in Sandbox, Deliver(s) PROVE (\A r \in Sandbox : Releases(r))'
  <2>1. /\ Elsewhere(s) /\ UNCHANGED <<ttl, stopRef, live, ref, status>>
        /\ attempts[s] + 1 \in Attempt
        /\ \A a \in Attempt :
             handler'[s][a] = IF a = attempts[s] + 1 THEN "delivered" ELSE handler[s][a]
        /\ handler[s][attempts[s] + 1] = "none"
    BY <1>0, <1>4, DeliverElsewhere DEF OwnerInv
  \* A delivery is the first one: no backend_ref is stored yet.
  <2>2. NoFaults => ref[s] = NoRef
    BY <1>4, NoRefAssumption, AttemptRange
       DEF NoFaults, Deliver, TypeInv, TypeOK, DeliveriesCounted, OwnNames
  <2>3. \A a \in Attempt : (Holding(s, a))' <=> Holding(s, a)
    BY <2>1 DEF Holding
  <2>4. NoFaults /\ Releases(s) => Releases(s)'
    BY <2>1, <2>2, <2>3 DEF Releases
  <2>5. QED
    BY <1>2, <2>1, <2>4
<1>5. ASSUME NEW s \in Sandbox, NEW a \in Attempt, HandlerStep(s, a)
      PROVE  (\A r \in Sandbox : Releases(r))'
  BY <1>0, <1>2, <1>5, HandlerElsewhere, HandlerReleases
<1>6. ASSUME NEW s \in Sandbox, NEW a \in Attempt, TtlStep(s, a)
      PROVE  (\A r \in Sandbox : Releases(r))'
  BY <1>0, <1>2, <1>6, TtlElsewhere, TtlReleases
<1>7. CASE Crash \/ ConnectionLost
  BY <1>0, <1>7 DEF Crash, ConnectionLost, NoFaults
<1>8. CASE UNCHANGED vars
  BY <1>0, <1>1, <1>8 DEF vars, ReleaseInv, Releases, Holding
<1>9. QED
  BY <1>3, <1>4, <1>5, <1>6, <1>7, <1>8 DEF Next, Step

\* TerminatedReleasesSession of SandboxLifecycle: a terminated row whose delivery has
\* ended leaves no Browserbase session open, whatever the order of the TTL task's stop
\* and the handler's set_ready.
THEOREM SessionIsReleased == Spec => []TerminatedReleasesSession
<1>1. Init => OwnNames /\ StopInv /\ ReleaseInv
  BY DEF Init, OwnNames, StopInv, StopReaches, ReleaseInv, Releases, Holding, AfterStop
<1>2. ReleaseInv => TerminatedReleasesSession
  BY DEF ReleaseInv, Releases, NoFaults, TerminatedReleasesSession, Holding, InFlight_,
     InFlight, Working
<1>3. OwnerInv => UndeliveredIdle
  BY DEF OwnerInv
<1>4. QED
  BY InitTypeInv, NextTypeInv, InitOwnerInv, NextOwnerInv, NextOwnNames, NextStopInv,
     NextReleaseInv, <1>1, <1>2, <1>3, PTL DEF Spec
================================================================================
