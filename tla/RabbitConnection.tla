--------------------------- MODULE RabbitConnection ---------------------------
(***************************************************************************)
(* The RabbitMQ object that the API process shares (core/rabbitmq.py): the *)
(* startup hook connects and starts the event consumer, each within a      *)
(* timeout; requests that publish connect lazily.  connect() and           *)
(* consume_events() are sequences of awaits, and other coroutines run      *)
(* between them.  The broker goes away and comes back.                     *)
(***************************************************************************)
EXTENDS Naturals, FiniteSets

CONSTANTS
  JobRequest,      \* requests that call publish_job
  EventRequest,    \* requests that call publish_event
  Startup,         \* the startup hook
  TimeoutFires,    \* the startup timeout may fire
  FailsLate,       \* awaits after connect_robust may fail
  MaxOutages       \* bound: outages of the broker

Request == JobRequest \cup EventRequest
Caller == Request \cup {Startup}

ASSUME RabbitAssumption ==
  /\ JobRequest \cap EventRequest = {}
  /\ Startup \notin Request
  /\ {TimeoutFires, FailsLate} \subseteq BOOLEAN
  /\ MaxOutages \in Nat

VARIABLES
  connection, \* _connection is set
  channel,    \* _channel is set
  events,     \* _events is set
  pc,         \* [Caller -> PC]
  opened,     \* connections opened by connect_robust
  raced,      \* two callers have been inside connect_robust at once
  abandoned,  \* a connect() ended after connect_robust without finishing
  up,         \* the broker is there
  outages

vars == <<connection, channel, events, pc, opened, raced, abandoned,
          up, outages>>

\* The awaits of connect(), in order, of which the first sets _connection;
\* "connected" is its return.  Then those of consume_events().
Finishing == {"channel", "qos", "queue", "exchange"}
Connecting == {"opening"} \cup Finishing
Consuming == {"declaring", "binding", "subscribing"}
PC == {"idle", "refused", "connected", "accepted", "consumer", "gaveUp"}
        \cup Connecting \cup Consuming

TypeOK ==
  /\ {connection, channel, events, raced, abandoned, up} \subseteq BOOLEAN
  /\ pc \in [Caller -> PC]
  /\ opened \in 0 .. Cardinality(Caller)
  /\ outages \in 0 .. MaxOutages

Init ==
  /\ connection = FALSE
  /\ channel = FALSE
  /\ events = FALSE
  /\ pc = [p \in Caller |-> "idle"]
  /\ opened = 0
  /\ raced = FALSE
  /\ abandoned = FALSE
  /\ up \in BOOLEAN
  /\ outages = 0

Goto(p, label) == pc' = [pc EXCEPT ![p] = label]

--------------------------------------------------------------------------------
(* connect() *)

\* The server accepts requests only after the startup hook has returned.
Started == pc[Startup] \in {"consumer", "gaveUp"}
ChecksChannel == channel
AlreadyConnected == connection

\* publish_job needs the channel, publish_event the exchange.
Usable(p) == IF p \in JobRequest THEN channel ELSE events

Ready(p) == pc[p] \in {"idle", "refused"} /\ (p = Startup \/ Started)

\* connect() returns at once if there is a connection, whatever else there is.
BeginConnecting(p) ==
  /\ Ready(p) /\ ~AlreadyConnected
  /\ Goto(p, "opening")
  /\ raced' = (raced \/ \E q \in Caller : pc[q] = "opening")
  /\ UNCHANGED <<connection, channel, events, opened, abandoned, up, outages>>

BeginPublishing(p) ==
  /\ Ready(p) /\ AlreadyConnected /\ Usable(p)
  /\ Goto(p, "connected")
  /\ UNCHANGED <<connection, channel, events, opened, raced, abandoned,
                 up, outages>>

\* The assertion of publish_job or publish_event raises AssertionError: the client is
\* refused, with 503 by the routes that catch it and 500 by publish_agent_event.
AssertFails(p) ==
  /\ Ready(p) /\ AlreadyConnected /\ ~Usable(p)
  /\ Goto(p, "refused")
  /\ UNCHANGED <<connection, channel, events, opened, raced, abandoned, up, outages>>

\* connect_robust returns: _connection is set, channel() is awaited.
Open(p) ==
  /\ pc[p] = "opening" /\ up
  /\ Goto(p, "channel")
  /\ connection' = TRUE
  /\ opened' = opened + 1
  /\ UNCHANGED <<channel, events, raced, abandoned, up, outages>>

OpenChannel(p) ==
  /\ pc[p] = "channel" /\ up
  /\ Goto(p, "qos")
  /\ channel' = TRUE
  /\ UNCHANGED <<connection, events, opened, raced, abandoned, up,
                 outages>>

SetQos(p) ==
  /\ pc[p] = "qos" /\ up
  /\ Goto(p, "queue")
  /\ UNCHANGED <<connection, channel, events, opened, raced, abandoned,
                 up, outages>>

DeclareQueue(p) ==
  /\ pc[p] = "queue" /\ up
  /\ Goto(p, "exchange")
  /\ UNCHANGED <<connection, channel, events, opened, raced, abandoned,
                 up, outages>>

DeclareExchangeUnset(p) ==
  /\ pc[p] = "exchange" /\ up
  /\ Goto(p, "connected")
  /\ UNCHANGED <<connection, channel, events, opened, raced, abandoned,
                 up, outages>>
DeclareExchange(p) ==
  /\ pc[p] = "exchange" /\ up
  /\ Goto(p, "connected")
  /\ events' = TRUE
  /\ UNCHANGED <<connection, channel, opened, raced, abandoned, up,
                 outages>>

\* The awaited call raises: what is set stays set.  The startup hook logs it and
\* goes on without a consumer; a request is refused and its client tries again.
FailureDropsChannel(p) == channel' = FALSE /\ UNCHANGED <<connection, events>>
FailureLeaves(p) == UNCHANGED <<connection, channel, events>>

Fail(p) ==
  /\ ~up
  /\ \/ pc[p] = "opening"
     \/ FailsLate /\ pc[p] \in Finishing \cup Consuming
     \/ p # Startup /\ pc[p] = "connected"
  /\ Goto(p, IF p = Startup THEN "gaveUp" ELSE "refused")
  /\ abandoned' = (abandoned \/ pc[p] \in Finishing)
  /\ FailureLeaves(p)
  /\ UNCHANGED <<opened, raced, up, outages>>

\* asyncio.wait_for cancels the startup hook inside connect or consume_events.
TimeOut ==
  /\ TimeoutFires
  /\ pc[Startup] \in Connecting \cup Consuming
  /\ Goto(Startup, "gaveUp")
  /\ abandoned' = (abandoned \/ pc[Startup] \in Finishing)
  /\ UNCHANGED <<connection, channel, events, opened, raced, up, outages>>

--------------------------------------------------------------------------------
(* What callers do with the connection. *)

\* consume_events: its own connect() finds the connection, then it asserts that there
\* are a channel and an exchange before its first await.
BeginConsuming ==
  /\ pc[Startup] = "connected"
  /\ Goto(Startup, IF channel /\ events THEN "declaring" ELSE "gaveUp")
  /\ UNCHANGED <<connection, channel, events, opened, raced, abandoned, up, outages>>

\* It declares a queue of its own, binds it to the exchange and consumes it.
AwaitConsuming(at, next) ==
  /\ pc[Startup] = at /\ up
  /\ Goto(Startup, next)
  /\ UNCHANGED <<connection, channel, events, opened, raced, abandoned, up, outages>>
Consume ==
  \/ BeginConsuming
  \/ AwaitConsuming("declaring", "binding")
  \/ AwaitConsuming("binding", "subscribing")
  \/ AwaitConsuming("subscribing", "consumer")

Publish(p) ==
  /\ pc[p] = "connected" /\ p # Startup /\ up
  /\ Goto(p, "accepted")
  /\ UNCHANGED <<connection, channel, events, opened, raced, abandoned,
                 up, outages>>

--------------------------------------------------------------------------------
Outage ==
  /\ up /\ outages < MaxOutages
  /\ up' = FALSE
  /\ outages' = outages + 1
  /\ UNCHANGED <<connection, channel, events, pc, opened, raced, abandoned>>

BrokerReturns ==
  /\ ~up
  /\ up' = TRUE
  /\ UNCHANGED <<connection, channel, events, pc, opened, raced,
                 abandoned, outages>>

Step(p) ==
  \/ BeginConnecting(p) \/ BeginPublishing(p) \/ AssertFails(p)
  \/ Open(p) \/ OpenChannel(p) \/ SetQos(p) \/ DeclareQueue(p) \/ DeclareExchange(p)
  \/ Fail(p)
  \/ p = Startup /\ Consume
  \/ Publish(p)

Next == (\E p \in Caller : Step(p)) \/ TimeOut \/ Outage \/ BrokerReturns

Spec == Init /\ [][Next]_vars

\* Calls to a broker that is there return; clients that were refused try again; the
\* broker comes back.
FairSpec ==
  Spec /\ WF_vars(BrokerReturns) /\ \A p \in Caller : WF_vars(Step(p))

--------------------------------------------------------------------------------
(* Properties. *)

\* A second connection, which nobody would close, is opened only if two callers
\* were inside connect_robust at once.
OneConnection == opened > 1 => raced

\* A connection without a channel or without an exchange, on which publishing asserts.
HalfOpen == connection /\ ~(channel /\ events)

\* A connection is half open only while somebody is in the middle of connect(), or
\* because somebody was and did not finish: never because of what the others did.
HalfOpenIsExplained ==
  HalfOpen => abandoned \/ \E p \in Caller : pc[p] \in Finishing

\* A client that tries again is accepted in the end, however often the broker goes
\* away, whoever made the connection and whatever assertions it met on the way; unless
\* an unfinished connect() has left the connection half open for ever.
ServedUnlessAbandoned ==
  \A p \in Request : <>(pc[p] = "accepted") \/ <>[](HalfOpen /\ abandoned)

\* routes/sandboxes.py:43 "Queue unavailable. Try again later.": a client that
\* tries again while the broker is there is accepted in the end.
TryAgainHelps == \A p \in Request : <>(pc[p] = "accepted")
================================================================================
