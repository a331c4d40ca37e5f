------------------------------ MODULE EventStream ------------------------------
(***************************************************************************)
(* The events of one sandbox on their way to SSE clients:                  *)
(*   - EventBus (core/events.py) numbers the events the API consumes from  *)
(*     the broker, keeps the last BufferSize of them and puts each into    *)
(*     the queue of every subscriber;                                      *)
(*   - sandbox_events (api/routes/sandboxes.py) subscribes a request and   *)
(*     streams the backlog and then the queue, at most max_events frames;  *)
(*   - a client reconnects with the id of the last event it received.      *)
(* All of it runs on the event loop of the API process, so each operation  *)
(* of the bus is one step.                                                 *)
(***************************************************************************)
EXTENDS Naturals, Sequences, FiniteSets

CONSTANTS
  Client,          \* SSE clients
  BufferSize,      \* SANDBOX_EVENT_BUFFER_SIZE
  QueueSize,       \* asyncio.Queue(maxsize=100)
  Limits,          \* values of ?max_events=, with NoLimit for none
  Supplied,        \* sequence numbers that publishers may put into an event
  MaxEvents,       \* bound: events published
  MaxConnections,  \* bound: connections of a client
  MaxRestarts,     \* bound: restarts of the API process
  NoLimit, NoId

ASSUME StreamAssumption ==
  /\ BufferSize \in Nat
  /\ QueueSize \in Nat \ {0}
  /\ Limits \subseteq (Nat \ {0}) \cup {NoLimit}
  /\ Supplied \subseteq Nat
  /\ {MaxEvents, MaxConnections, MaxRestarts} \subseteq Nat
  /\ NoLimit \notin Nat /\ NoId \notin Nat

Stream == Client \X (1 .. MaxConnections)

VARIABLES
  published,  \* events published so far; the n-th event has id n
  sequence,   \* EventBus._sequences of the sandbox
  buffer,     \* EventBus._buffers of the sandbox
  subscribed, \* EventBus._queues of the sandbox: streams with a queue in it
  queue,      \* [Stream -> Seq(Event)]: the asyncio.Queue
  backlog,    \* [Stream -> Seq(Event)]: what is left of the replay
  pc,         \* [Stream -> StreamPC]: the generator event_stream
  limit,      \* [Stream -> Limits]
  emitted,    \* [Stream -> Nat]: the generator's counter
  connection, \* [Client -> 0 .. MaxConnections]: connections made so far
  open,       \* [Stream -> BOOLEAN]: the client still reads from it
  received,   \* [Client -> Seq(ids)]: events that reached the client
  lastId,     \* [Client -> Nat or NoId]: the id of the last of them
  dropped,    \* [Client -> SUBSET ids]: events its full queues refused
  restarts,
  foreign     \* history: an event has brought its own number

busVars == <<published, sequence, buffer, foreign>>
clientVars == <<connection, received, lastId>>
vars == <<published, sequence, buffer, subscribed, queue, backlog, pc, limit,
          emitted, connection, open, received, lastId, dropped, restarts, foreign>>

Event == [id : 1 .. MaxEvents, seq : Nat, own : BOOLEAN]
StreamPC == {"none", "accepted", "streaming", "ended", "abandoned"}

TypeOK ==
  /\ published \in 0 .. MaxEvents
  /\ sequence \in Nat
  /\ buffer \in Seq(Event) /\ Len(buffer) <= BufferSize
  /\ subscribed \subseteq Stream
  /\ queue \in [Stream -> Seq(Event)]
  /\ \A st \in Stream : Len(queue[st]) <= QueueSize
  /\ backlog \in [Stream -> Seq(Event)]
  /\ pc \in [Stream -> StreamPC]
  /\ limit \in [Stream -> Limits \cup {NoLimit}]
  /\ emitted \in [Stream -> Nat]
  /\ connection \in [Client -> 0 .. MaxConnections]
  /\ open \in [Stream -> BOOLEAN]
  /\ received \in [Client -> Seq(1 .. MaxEvents)]
  /\ lastId \in [Client -> Nat \cup {NoId}]
  /\ dropped \in [Client -> SUBSET (1 .. MaxEvents)]
  /\ restarts \in 0 .. MaxRestarts
  /\ foreign \in BOOLEAN

Init ==
  /\ published = 0
  /\ sequence = 0
  /\ buffer = <<>>
  /\ subscribed = {}
  /\ queue = [st \in Stream |-> <<>>]
  /\ backlog = [st \in Stream |-> <<>>]
  /\ pc = [st \in Stream |-> "none"]
  /\ limit = [st \in Stream |-> NoLimit]
  /\ emitted = [st \in Stream |-> 0]
  /\ connection = [c \in Client |-> 0]
  /\ open = [st \in Stream |-> FALSE]
  /\ received = [c \in Client |-> <<>>]
  /\ lastId = [c \in Client |-> NoId]
  /\ dropped = [c \in Client |-> {}]
  /\ restarts = 0
  /\ foreign = FALSE

--------------------------------------------------------------------------------
(* EventBus.publish *)

AtLeast(m, n) == IF m < n THEN n ELSE m

\* The counter follows the numbers that events bring along.
LastSupplied(n) == n
AfterNumber(n) == AtLeast(sequence, n)

\* deque(maxlen=BufferSize).append
Remember(e) ==
  IF BufferSize = 0 THEN buffer
  ELSE IF Len(buffer) < BufferSize THEN Append(buffer, e)
  ELSE Append(Tail(buffer), e)

Full(st) == Len(queue[st]) >= QueueSize

PublishNumbered(n, own) ==
  LET e == [id |-> published + 1, seq |-> n, own |-> own]
  IN  /\ published < MaxEvents
      /\ published' = published + 1
      /\ sequence' = AfterNumber(n)
      /\ buffer' = Remember(e)
      /\ foreign' = (foreign \/ own)
      /\ queue' = [st \in Stream |->
           IF st \in subscribed /\ ~Full(st) THEN Append(queue[st], e) ELSE queue[st]]
      /\ dropped' = [c \in Client |->
           IF connection[c] > 0 /\ <<c, connection[c]>> \in subscribed
                /\ Full(<<c, connection[c]>>)
           THEN dropped[c] \cup {e.id} ELSE dropped[c]]
      /\ UNCHANGED <<subscribed, backlog, pc, limit, emitted, connection, open,
                     received, lastId, restarts>>

\* An event without a sequence, or with one that is no number, gets the next
\* one; an event of POST /events/agent may bring its own.
Publish ==
  \/ PublishNumbered(sequence + 1, FALSE)
  \/ \E n \in Supplied : PublishNumbered(n, TRUE)

--------------------------------------------------------------------------------
(* sandbox_events *)

\* The replay for Last-Event-ID: what the buffer holds of later events, nothing
\* without the header.
NotBefore(e, id) == e.seq >= id
LaterThan(e, id) == e.seq > id
NoReplay(id) == <<>>
ItemsAt(s, places) ==
  [n \in 1 .. Cardinality(places) |->
     s[CHOOSE i \in places : Cardinality({j \in places : j < i}) = n - 1]]
Backlog(id) ==
  IF id = NoId THEN <<>>
  ELSE ItemsAt(buffer, {i \in 1 .. Len(buffer) : LaterThan(buffer[i], id)})

\* A client that is not connected subscribes; the response is under way.
Subscribe(c) ==
  LET st == <<c, connection[c] + 1>>
  IN  /\ connection[c] < MaxConnections
      /\ connection[c] > 0 => ~open[<<c, connection[c]>>]
      /\ connection' = [connection EXCEPT ![c] = @ + 1]
      /\ subscribed' = subscribed \cup {st}
      /\ backlog' = [backlog EXCEPT ![st] = Backlog(lastId[c])]
      /\ pc' = [pc EXCEPT ![st] = "accepted"]
      /\ open' = [open EXCEPT ![st] = TRUE]
      /\ \E m \in Limits : limit' = [limit EXCEPT ![st] = m]
      /\ UNCHANGED <<busVars, queue, emitted, received, lastId, dropped, restarts>>

\* The first frame, "connected", carries no id and counts as one.
SendConnected(st) ==
  /\ pc[st] = "accepted"
  /\ pc' = [pc EXCEPT ![st] = "streaming"]
  /\ emitted' = [emitted EXCEPT ![st] = 1]
  /\ UNCHANGED <<busVars, clientVars, subscribed, queue, backlog, limit, open,
                 dropped, restarts>>

\* The frame of event e reaches the client if it still reads.
Receive(st, e) ==
  IF open[st]
  THEN /\ received' = [received EXCEPT ![st[1]] = Append(@, e.id)]
       /\ lastId' = [lastId EXCEPT ![st[1]] = e.seq]
  ELSE UNCHANGED <<received, lastId>>

\* The generator returns; "finally" unsubscribes the queue.
KeepSubscribed(st) == subscribed
AfterFinally(st) == subscribed \ {st}

\* The backlog compares with ">" after it has counted, the loop with ">=".
PastLimit(st) == limit[st] # NoLimit /\ emitted[st] + 1 > limit[st]
SendBacklog(st) ==
  /\ pc[st] = "streaming" /\ backlog[st] # <<>>
  /\ Receive(st, Head(backlog[st]))
  /\ emitted' = [emitted EXCEPT ![st] = @ + 1]
  /\ \/ /\ PastLimit(st)
        /\ pc' = [pc EXCEPT ![st] = "ended"]
        /\ subscribed' = AfterFinally(st)
        /\ open' = [open EXCEPT ![st] = FALSE]
        /\ backlog' = [backlog EXCEPT ![st] = <<>>]
        /\ queue' = [queue EXCEPT ![st] = <<>>]
     \/ /\ ~PastLimit(st)
        /\ backlog' = [backlog EXCEPT ![st] = Tail(@)]
        /\ UNCHANGED <<pc, subscribed, open, queue>>
  /\ UNCHANGED <<busVars, connection, limit, dropped, restarts>>

\* The loop after the backlog: it ends at the limit or once it notices that the
\* client is gone.  A wait of 15 seconds without an event sends a comment only.
AtLimit(st) == limit[st] # NoLimit /\ emitted[st] >= limit[st]
Waiting(st) == pc[st] = "streaming" /\ backlog[st] = <<>>

SendLive(st) ==
  /\ Waiting(st) /\ ~AtLimit(st)
  /\ queue[st] # <<>>
  /\ Receive(st, Head(queue[st]))
  /\ emitted' = [emitted EXCEPT ![st] = @ + 1]
  /\ queue' = [queue EXCEPT ![st] = Tail(@)]
  /\ UNCHANGED <<busVars, subscribed, backlog, pc, limit, connection, open,
                 dropped, restarts>>

EndStream(st) ==
  /\ \/ Waiting(st) /\ AtLimit(st)
     \/ pc[st] = "streaming" /\ ~open[st]
  /\ pc' = [pc EXCEPT ![st] = "ended"]
  /\ subscribed' = AfterFinally(st)
  /\ open' = [open EXCEPT ![st] = FALSE]
  /\ backlog' = [backlog EXCEPT ![st] = <<>>]
  /\ queue' = [queue EXCEPT ![st] = <<>>]
  /\ UNCHANGED <<busVars, clientVars, limit, emitted, dropped, restarts>>

\* The client goes away before the generator's first step: a generator that
\* never began has no "finally" to run, and its queue stays subscribed.
NeverBegins(st) ==
  /\ pc[st] = "accepted" /\ ~open[st]
  /\ pc' = [pc EXCEPT ![st] = "abandoned"]
  /\ UNCHANGED <<busVars, clientVars, subscribed, queue, backlog, limit, emitted,
                 open, dropped, restarts>>

--------------------------------------------------------------------------------
(* The environment. *)

Disconnect(st) ==
  /\ open[st]
  /\ open' = [open EXCEPT ![st] = FALSE]
  /\ UNCHANGED <<busVars, clientVars, subscribed, queue, backlog, pc, limit,
                 emitted, dropped, restarts>>

\* The bus is in memory: numbering starts again, every stream is cut.
Restart ==
  /\ restarts < MaxRestarts
  /\ restarts' = restarts + 1
  /\ sequence' = 0
  /\ buffer' = <<>>
  /\ subscribed' = {}
  /\ queue' = [st \in Stream |-> <<>>]
  /\ backlog' = [st \in Stream |-> <<>>]
  /\ pc' = [st \in Stream |-> IF pc[st] = "none" THEN "none" ELSE "ended"]
  /\ open' = [st \in Stream |-> FALSE]
  /\ UNCHANGED <<published, foreign, clientVars, limit, emitted, dropped>>

StreamStep(st) ==
  SendConnected(st) \/ SendBacklog(st) \/ SendLive(st) \/ EndStream(st)

Next ==
  \/ Publish
  \/ \E c \in Client : Subscribe(c)
  \/ \E st \in Stream : StreamStep(st) \/ NeverBegins(st) \/ Disconnect(st)
  \/ Restart

Spec == Init /\ [][Next]_vars

\* The event loop runs every stream that can go on; events, clients and restarts
\* come when they like.
FairSpec == Spec /\ \A st \in Stream : WF_vars(StreamStep(st))

--------------------------------------------------------------------------------
(* Properties. *)

\* Numbers are the server's and the bus has not lost its memory.
ServerNumbered == restarts = 0 /\ ~foreign

\* Events the buffer has already let go.
Evicted == {i \in 1 .. published : i + BufferSize <= published}

\* README.md:25 "replay from Last-Event-ID": between two events a client receives,
\* on one connection or across reconnections, it misses only what a full queue
\* refused or the buffer let go, and it receives nothing twice or out of order.
ReplayHasNoGap ==
  ServerNumbered =>
    \A c \in Client : \A i \in 1 .. Len(received[c]) - 1 :
      /\ received[c][i] < received[c][i + 1]
      /\ \A id \in (received[c][i] + 1) .. (received[c][i + 1] - 1) :
           id \in dropped[c] \cup Evicted

\* Event e is on its way to client c over its present connection.
UnderWay(c, e) ==
  /\ connection[c] > 0
  /\ LET st == <<c, connection[c]>>
     IN  \E i \in 1 .. Len(backlog[st]) + Len(queue[st]) :
           (backlog[st] \o queue[st])[i] = e

\* A client that has received something and lacks a later event of the buffer
\* would get it by reconnecting now.
Replayable(c) ==
  \A i \in 1 .. Len(buffer) :
    received[c] # <<>> /\ buffer[i].id > received[c][1] =>
      \/ \E k \in 1 .. Len(received[c]) : received[c][k] = buffer[i].id
      \/ UnderWay(c, buffer[i])
      \/ LaterThan(buffer[i], lastId[c])

\* As long as no queue overflowed, no event of the buffer is out of a client's reach.
NothingOutOfReach ==
  ServerNumbered => \A c \in Client : dropped[c] = {} => Replayable(c)

\* core/events.py:52 "Drop event if subscriber is too slow; SSE client can
\* reconnect.": also an event that a full queue refused can be had again.
DropsAreReplayable == \A c \in Client : Replayable(c)

\* A number the bus gives to an event is larger than that of every event before
\* it in the buffer, also of those that brought their own.
NumbersAreFresh ==
  \A i, j \in 1 .. Len(buffer) :
    i < j /\ ~buffer[j].own => buffer[i].seq < buffer[j].seq

\* README.md:25 "bounded streams via ?max_events=" and routes/sandboxes.py:87 "the
\* connected frame counts toward max_events": a stream sends no more frames than
\* that.  The replay compares after it has sent (routes/sandboxes.py:95-96).
LimitIsKept ==
  \A st \in Stream : limit[st] # NoLimit => emitted[st] <= limit[st]

\* A stream that began gives its queue back once the client is gone or it has
\* reached its limit.
SubscriptionReleased ==
  \A st \in Stream :
    (pc[st] = "streaming" /\ (~open[st] \/ AtLimit(st))) ~> (st \notin subscribed)
================================================================================
