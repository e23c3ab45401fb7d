--------------------------- MODULE ConsumerEngine ---------------------------
(***************************************************************************)
(* One consumer of a topic (src/consumer.rs, TopicConsumer and             *)
(* ConsumerEngine): the engine task between the connection and the         *)
(* application, its flow control, the messages it keeps track of until     *)
(* they are acknowledged, its reconnection, the tasks that close the       *)
(* consumer, and the application that owns it.  The broker is external;    *)
(* connections and the pool are reduced to what the engine sees of the     *)
(* modules Connection and ConnectionManager.                               *)
(*                                                                         *)
(* A subscription is one successful ConnectionSender::subscribe.  Its      *)
(* number names the stream of messages it feeds and the task that closes   *)
(* it.  A connection is named by the order in which it was opened.         *)
(***************************************************************************)
EXTENDS Naturals, Integers, Sequences, FiniteSets, Functions

CONSTANTS
  batch_size,   \* ConsumerConfig::batch_size
  Width,        \* bits of remaining_messages, 32 in the code
  Sizes,        \* Sizes[e]: messages in entry e of the topic, 1 if not a batch
  Bad,          \* entries whose payload cannot be decoded
  DeadLetter,   \* dead_letter_policy: max_redeliver_count, or NoPolicy
  Delay,        \* unacked_message_redelivery_delay.is_some()
  Capacity,     \* messages the channel to the application holds
  AppActs,      \* what the application does besides polling
  MaxDispatch,  \* bound: entries dispatched by the broker
  MaxCloses,    \* bound: CloseConsumer commands of the broker
  MaxOther,     \* bound: other commands routed to the consumer
  MaxBreaks,    \* bound: connections that fail
  Others,       \* other engines use the connections too
  NoPolicy

ASSUME EngineAssumption ==
  /\ batch_size \in Nat /\ Width \in Nat /\ 2^Width \in Nat /\ batch_size < 2^Width
  /\ Sizes \in Seq(Nat \ {0})
  /\ Bad \subseteq 1..Len(Sizes)
  /\ DeadLetter \in Nat \cup {NoPolicy} /\ NoPolicy \notin Nat
  /\ Delay \in BOOLEAN /\ Others \in BOOLEAN
  /\ Capacity \in Nat \ {0}
  /\ AppActs \subseteq {"ack", "cumulative", "nack", "ask", "drop"}
  /\ {MaxDispatch, MaxCloses, MaxOther, MaxBreaks} \subseteq Nat

Entries == 1..Len(Sizes)
Numbered(e) == [i \in 1..Sizes[e] |-> <<e, i>>]
Ids     == UNION {{<<e, i>> : i \in 1..Sizes[e]} : e \in Entries}
Conns   == 1..(MaxBreaks + 1)
Subs    == 1..(MaxBreaks + MaxCloses + 1)
None    == 0
Failure == <<None, None>>   \* an error for the application

VARIABLES
  \* the engine
  pc,                  \* what the engine task does next
  caller,              \* the place reconnect was called from
  connection,          \* its connection
  messages_rx,         \* the stream in the engine, or None
  held,                \* the stream in messages_or_ack_f, or None
  remaining_messages,
  unacked_messages,    \* ids, their deadlines left out
  out,                 \* ids still to be sent to the application
  signal,              \* the subscription of its _drop_signal
  \* the application
  tx,                  \* channel to the application: ids and Failure
  engine_rx,           \* channel of EngineMessage values
  received,            \* ids the application has received, in order
  errors,              \* the application was given an error
  asking,              \* it awaits TopicConsumer::connection
  dropped,             \* it dropped the consumer
  \* connections and the pool
  conn,                \* "none", "open", "silent", "failed" or "ended"
  error_set,           \* SharedError of each connection
  pool,                \* the connection in the manager's map, or None
  \* subscriptions
  home,                \* the connection of each subscription, or None
  stream,              \* items on their way to the engine
  channel,             \* the Receiver holds the sender of the stream
  task,                \* the task that closes it: "none", "armed", ...
  \* the broker
  subscribed,          \* subscriptions the broker serves
  permits,             \* flow permits of each
  backlog,             \* entries to dispatch
  dispatched,          \* how often each entry was dispatched
  acked,               \* ids acknowledged
  dead,                \* entries published to the dead letter topic
  closes, other        \* CloseConsumer and other commands sent

engine  == <<pc, caller, connection, messages_rx, held, remaining_messages,
             unacked_messages, out, signal>>
app     == <<tx, engine_rx, received, errors, asking, dropped>>
conns   == <<conn, error_set, pool>>
subs    == <<home, stream, channel, task>>
broker  == <<subscribed, permits, backlog, dispatched, acked, dead, closes, other>>
vars    == <<engine, app, conns, subs, broker>>

-----------------------------------------------------------------------------
(* Values *)

\* BatchedMessageIterator: a batch becomes one id per message it holds.
IdsShort(e) == [i \in 1..(Sizes[e] - 1) |-> <<e, i>>]
IdsOf(e) == [i \in 1..Sizes[e] |-> <<e, i>>]

\* Items of a stream: a CommandMessage, or a command without messages.
Commands == {"close_consumer", "active_consumer_change", "reached_end_of_topic"}

Message(e) == [kind |-> "message", entry |-> e, redelivery_count |-> dispatched[e]]
Command(kind) == [kind |-> kind, entry |-> None, redelivery_count |-> 0]

\* num_messages_in_batch.unwrap_or(1), whatever the item is
CountOne(item) == 1
Count(item) == IF item.kind = "message" THEN Sizes[item.entry] ELSE 1

\* u32 subtraction of a release build
Minus(m, n) == (m - n) % 2^Width

\* cumulative acknowledgement covers every earlier id
UpTo(id) == {x \in Ids : x[1] < id[1] \/ (x[1] = id[1] /\ x[2] <= id[2])}

Over    == {"ended", "panicked"}
Running == pc \notin Over

\* The messages in a sequence of items, and the ids in a sequence of entries
Total(q) ==
  LET sum[i \in 0..Len(q)] == IF i = 0 THEN 0 ELSE sum[i - 1] + Count(q[i])
  IN  sum[Len(q)]

Flat(q) ==
  LET flat[i \in 0..Len(q)] == IF i = 0 THEN <<>> ELSE flat[i - 1] \o Numbered(q[i])
  IN  flat[Len(q)]

InFlight(s) == Total(stream[s])

-----------------------------------------------------------------------------
(* The broker and the connections, as the engine's commands reach them *)

\* The subscriptions on connection k
On(k) == {s \in Subs : home[s] = k}

\* The sender task has ended, and commands are answered Disconnected.
Refuses == conn[connection] \in {"failed", "ended"}

\* CommandFlow
Grant(n) ==
  permits' = [s \in Subs |->
                IF s \in subscribed /\ home[s] = connection /\ conn[connection] = "open"
                THEN permits[s] + n ELSE permits[s]]

\* CommandRedeliverUnacknowledgedMessages, for the entries the ids are of
Redeliver(ids) ==
  backlog' = IF conn[connection] = "open"
             THEN backlog \cup {id[1] : id \in ids \ acked} ELSE backlog

\* CommandAck
Acknowledge(ids) ==
  acked' = IF conn[connection] = "open" THEN acked \cup ids ELSE acked

\* Entries not acknowledged are dispatched again to another subscription.
Unsettled ==
  {e \in Entries : dispatched[e] > 0 /\ ~(Range(IdsOf(e)) \subseteq acked)}

\* The pool: what get_connection returns, and the pool after it.
Pooled == pool # None /\ ~error_set[pool]

GetConnection(k) ==
  \/ /\ Pooled
     /\ k = pool
     /\ UNCHANGED <<pool, conn>>
  \/ /\ ~Pooled
     /\ conn[k] = "none" /\ \A j \in Conns : j < k => conn[j] # "none"
     /\ pool' = k
     /\ conn' = [conn EXCEPT ![k] = "open"]

-----------------------------------------------------------------------------
(* The engine *)

\* The future ends: the drop signal is dropped with the engine.
EndsQuietly(how) ==
  /\ pc' = how
  /\ task' = [task EXCEPT ![signal] = "stopped"]
  /\ messages_rx' = None /\ held' = None
  /\ out' = <<>>
  /\ engine_rx' = <<>>
  /\ asking' = FALSE
  /\ UNCHANGED <<caller, connection, remaining_messages, unacked_messages, signal>>

Ends(how) ==
  /\ pc' = how
  /\ task' = [task EXCEPT ![signal] = "closing"]
  /\ messages_rx' = None /\ held' = None
  /\ out' = <<>>
  /\ engine_rx' = <<>>
  /\ asking' = FALSE
  /\ UNCHANGED <<caller, connection, remaining_messages, unacked_messages, signal>>

\* Connection::error takes the error away, for every user of the connection.
TakeError(k) == error_set' = [error_set EXCEPT ![k] = FALSE]

\* The connection is looked at once per turn of the loop.
NeverChecked ==
  /\ pc = "check"
  /\ pc' = "flow"
  /\ UNCHANGED <<caller, connection, messages_rx, held, remaining_messages,
                 unacked_messages, out, signal, app, conns, subs, broker>>

CheckConnection ==
  /\ pc = "check"
  /\ \/ /\ error_set[connection]
        /\ TakeError(connection)
        /\ pc' = "reconnect"
        /\ caller' = "check"
     \/ /\ ~error_set[connection]
        /\ pc' = "flow"
        /\ UNCHANGED <<error_set, caller>>
  /\ UNCHANGED <<connection, messages_rx, held, remaining_messages,
                 unacked_messages, out, signal, app, conn, pool, subs, broker>>

\* messages_or_ack_f.take(): the future that was waiting before is used again.
Select ==
  /\ pc' = "select"
  /\ held' = IF held = None THEN messages_rx ELSE held
  /\ messages_rx' = IF held = None THEN None ELSE messages_rx

\* More permits are asked for when half of them are used.
NeedsPermitsLate == remaining_messages < batch_size \div 4
NeedsPermits == remaining_messages < batch_size \div 2

Refill ==
  /\ pc = "flow"
  /\ \/ /\ ~NeedsPermits
        /\ Select
        /\ UNCHANGED <<caller, remaining_messages, permits>>
     \/ /\ NeedsPermits
        /\ Grant(batch_size - remaining_messages)
        /\ remaining_messages' = batch_size
        /\ Select
        /\ UNCHANGED caller
     \/ /\ NeedsPermits
        /\ Refuses
        /\ pc' = "reconnect"
        /\ caller' = "flow"
        /\ UNCHANGED <<messages_rx, held, remaining_messages, permits>>
  /\ UNCHANGED <<connection, unacked_messages, out, signal, app, conns, subs,
                 subscribed, backlog, dispatched, acked, dead, closes, other>>

\* Nothing for a second: back to the top of the loop, the future kept.
Tick ==
  /\ pc = "select"
  /\ stream[held] = <<>> /\ channel[held]
  /\ engine_rx = <<>> /\ (Delay \/ ~dropped)
  /\ pc' = "check"
  /\ UNCHANGED <<caller, connection, messages_rx, held, remaining_messages,
                 unacked_messages, out, signal, app, conns, subs, broker>>

\* The stream and engine_rx go back into the engine.
PutBack == messages_rx' = held /\ held' = None

\* The dead letter policy is for messages that are not in a batch.
IsDead(item) ==
  /\ DeadLetter # NoPolicy
  /\ Sizes[item.entry] = 1
  /\ item.redelivery_count >= DeadLetter

\* process_message and process_payload, up to their first await
CloseIgnored(item) ==
  /\ pc' = IF item.kind = "message" THEN "deliver" ELSE "check"
  /\ out' = IF item.kind = "message" THEN IdsOf(item.entry) ELSE out
  /\ UNCHANGED caller

Process(item) ==
  \/ /\ item.kind = "close_consumer"
     /\ pc' = "reconnect" /\ caller' = "close"
     /\ UNCHANGED out
  \/ /\ item.kind = "active_consumer_change"
     /\ pc' = "check"
     /\ UNCHANGED <<caller, out>>
  \/ /\ item.kind = "message" /\ item.entry \in Bad
     /\ pc' = "report"
     /\ UNCHANGED <<caller, out>>
  \/ /\ item.kind = "message" /\ item.entry \notin Bad
     /\ pc' = IF IsDead(item) THEN "dead_letter" ELSE "deliver"
     /\ out' = IdsOf(item.entry)
     /\ UNCHANGED caller

\* A message of the stream; the stream is polled before engine_rx.
PollMessage ==
  /\ pc = "select"
  /\ stream[held] # <<>>
  /\ stream' = [stream EXCEPT ![held] = Tail(@)]
  /\ LET item == Head(stream[held])
     IN  \/ /\ item.kind = "reached_end_of_topic"
            /\ Ends("ended")
         \/ /\ item.kind # "reached_end_of_topic"
            /\ remaining_messages' = Minus(remaining_messages, Count(item))
            /\ PutBack
            /\ Process(item)
            /\ UNCHANGED <<connection, unacked_messages, signal, engine_rx,
                           asking, task>>
  /\ UNCHANGED <<tx, received, errors, dropped, conns, home, channel, broker>>

\* The stream has ended: the Receiver dropped its sender.
PollDisconnected ==
  /\ pc = "select"
  /\ stream[held] = <<>> /\ ~channel[held]
  /\ Ends("panicked")
  /\ UNCHANGED <<tx, received, errors, dropped, conns, home, stream, channel,
                 broker>>

TrackNone(id) == unacked_messages
Track(id) ==
  IF Delay THEN unacked_messages \cup {id} ELSE unacked_messages

\* send_to_consumer: waits for room in the channel, then starts the delay.
Deliver ==
  /\ pc = "deliver"
  /\ \/ /\ dropped
        /\ Ends("ended")
        /\ UNCHANGED tx
     \/ /\ ~dropped
        /\ Len(tx) < Capacity
        /\ tx' = Append(tx, Head(out))
        /\ unacked_messages' = Track(Head(out))
        /\ out' = Tail(out)
        /\ pc' = IF Len(out) = 1 THEN "check" ELSE "deliver"
        /\ UNCHANGED <<caller, connection, messages_rx, held,
                       remaining_messages, signal, engine_rx, asking, task>>
  /\ UNCHANGED <<received, errors, dropped, conns, home, stream, channel, broker>>

\* An error of process_message is sent to the application.
Report ==
  /\ pc = "report"
  /\ \/ /\ dropped
        /\ Ends("ended")
        /\ UNCHANGED tx
     \/ /\ ~dropped
        /\ Len(tx) < Capacity
        /\ tx' = Append(tx, Failure)
        /\ pc' = "check"
        /\ UNCHANGED <<caller, connection, messages_rx, held, out, signal,
                       remaining_messages, unacked_messages, engine_rx, asking,
                       task>>
  /\ UNCHANGED <<received, errors, dropped, conns, home, stream, channel, broker>>

\* ConsumerEngine::ack
AckKept(id, cumulative) ==
  /\ UNCHANGED unacked_messages
  /\ Acknowledge(IF cumulative THEN UpTo(id) ELSE {id})

Ack(id, cumulative) ==
  /\ unacked_messages' = unacked_messages \ {id}
  /\ Acknowledge(IF cumulative THEN UpTo(id) ELSE {id})

\* A message redelivered too often is published to the dead letter topic.  The
\* receipt may get lost: the message is published, and an error is reported.
PublishAfterAck ==
  /\ pc = "dead_letter"
  /\ Ack(Head(out), FALSE)
  /\ \/ /\ pc' = "dead_ack"
        /\ dead' = dead \cup {Head(out)[1]}
        /\ UNCHANGED out
     \/ /\ pc' = "report"
        /\ dead' \in {dead, dead \cup {Head(out)[1]}}
        /\ out' = <<>>
  /\ UNCHANGED <<caller, connection, messages_rx, held, remaining_messages,
                 signal, app, conns, subs, subscribed, permits, backlog,
                 dispatched, closes, other>>

PublishDeadLetter ==
  /\ pc = "dead_letter"
  /\ \/ /\ pc' = "dead_ack"
        /\ dead' = dead \cup {Head(out)[1]}
        /\ UNCHANGED out
     \/ /\ pc' = "report"
        /\ dead' \in {dead, dead \cup {Head(out)[1]}}
        /\ out' = <<>>
  /\ UNCHANGED <<caller, connection, messages_rx, held, remaining_messages,
                 unacked_messages, signal, app, conns, subs, subscribed, permits,
                 backlog, dispatched, acked, closes, other>>

\* With its receipt, it is acknowledged.
AckDeadLetter ==
  /\ pc = "dead_ack"
  /\ Ack(Head(out), FALSE)
  /\ out' = <<>>
  /\ pc' = "check"
  /\ UNCHANGED <<caller, connection, messages_rx, held, remaining_messages,
                 signal, app, conns, subs, subscribed, permits, backlog,
                 dispatched, dead, closes, other>>

\* The messages of the application, handled when the stream has none.
NoAnswer(m) == UNCHANGED <<unacked_messages, backlog, acked, asking>>

Handle(m) ==
  \/ /\ m.type = "Ack"
     /\ Ack(m.id, m.cumulative)
     /\ UNCHANGED <<backlog, asking>>
  \/ /\ m.type = "Nack"
     /\ Redeliver({m.id})
     /\ UNCHANGED <<unacked_messages, acked, asking>>
  \/ /\ m.type = "UnackedRedelivery"
     /\ \E expired \in SUBSET unacked_messages :
          \/ /\ Redeliver(expired)
             /\ unacked_messages' = unacked_messages \ expired
          \/ /\ Refuses /\ expired # {}
             /\ UNCHANGED <<unacked_messages, backlog>>
     /\ UNCHANGED <<acked, asking>>
  \/ /\ m.type = "GetConnection"
     /\ asking' = FALSE
     /\ UNCHANGED <<unacked_messages, backlog, acked>>

PollEngineMessage ==
  /\ pc = "select"
  /\ stream[held] = <<>> /\ channel[held]
  /\ engine_rx # <<>>
  /\ engine_rx' = Tail(engine_rx)
  /\ PutBack
  /\ pc' = "check"
  /\ Handle(Head(engine_rx))
  /\ UNCHANGED <<caller, connection, remaining_messages, out, signal, tx,
                 received, errors, dropped, conns, subs, subscribed, permits,
                 dispatched, dead, closes, other>>

\* engine_rx has ended: the consumer was dropped, and no ticker has a sender.
PollClosed ==
  /\ pc = "select"
  /\ stream[held] = <<>> /\ channel[held]
  /\ engine_rx = <<>> /\ dropped /\ ~Delay
  /\ Ends("ended")
  /\ UNCHANGED <<tx, received, errors, dropped, conns, home, stream, channel,
                 broker>>

-----------------------------------------------------------------------------
(* ConsumerEngine::reconnect *)

\* An error of reconnect ends the engine, or is reported like any other error of
\* process_message.
Failed ==
  \/ /\ caller \in {"check", "flow"}
     /\ Ends("ended")
  \/ /\ caller = "close"
     /\ pc' = "report"
     /\ UNCHANGED <<caller, connection, messages_rx, held, remaining_messages,
                    unacked_messages, out, signal, engine_rx, asking, task>>

\* lookup_topic and get_connection
Lookup ==
  /\ pc = "reconnect"
  /\ \/ /\ Failed
        /\ UNCHANGED <<conn, pool>>
     \/ /\ \E k \in Conns : GetConnection(k) /\ connection' = k
        /\ pc' = "subscribe"
        /\ UNCHANGED <<caller, messages_rx, held, remaining_messages,
                       unacked_messages, out, signal, engine_rx, asking, task>>
  /\ UNCHANGED <<tx, received, errors, dropped, error_set, home, stream,
                 channel, broker>>

\* A subscription starts on connection k: its channel replaces the one the
\* consumer had there, and send_flow gives it batch_size permits.
Subscribes(s, k) ==
  /\ home' = [home EXCEPT ![s] = k]
  /\ channel' = [t \in Subs |-> IF t = s THEN TRUE ELSE channel[t] /\ home[t] # k]
  /\ subscribed' = (subscribed \ On(k)) \cup {s}

\* The number of the next subscription
Fresh(s) == home[s] = None /\ \A t \in Subs : t < s => home[t] # None

\* A subscribe that fails has replaced the channel of the consumer on the
\* connection too, unless the Receiver is gone.  When its answer or the permits
\* after it were lost, the broker serves a subscription nobody reads.
GivenUp ==
  /\ error_set' = [error_set EXCEPT ![connection] = @ \/ conn[connection] = "ended"]
  /\ channel' = [t \in Subs |-> channel[t] /\ home[t] # connection]
  /\ \/ UNCHANGED <<home, subscribed>>
     \/ /\ conn[connection] = "open"
        /\ \E s \in Subs :
             /\ Fresh(s)
             /\ home' = [home EXCEPT ![s] = connection]
             /\ subscribed' = (subscribed \ On(connection)) \cup {s}
  /\ UNCHANGED permits

\* The subscriptions no task will close
Orphans == {s \in Subs : home[s] # None /\ task[s] = "none"}

\* The new stream replaces messages_rx, and the task of the old subscription is
\* told to stop.
Installed(s) == s
NotStopped == "closing"
Stopped == "stopped"

Subscribe ==
  /\ pc = "subscribe"
  /\ \/ \E s \in Subs :
          /\ Fresh(s)
          /\ conn[connection] = "open"
          /\ Subscribes(s, connection)
          /\ signal' = s
          /\ task' = [task EXCEPT ![s] = "armed", ![signal] = Stopped]
          /\ \/ /\ caller = "check"
                /\ messages_rx' = Installed(s)
                /\ pc' = "flow"
                /\ permits' = [permits EXCEPT ![s] = batch_size]
                /\ UNCHANGED <<held, remaining_messages>>
             \/ /\ caller = "close"
                /\ messages_rx' = Installed(s)
                /\ pc' = "check"
                /\ permits' = [permits EXCEPT ![s] = batch_size]
                /\ UNCHANGED <<held, remaining_messages>>
             \/ /\ caller = "flow"
                /\ permits' = [permits EXCEPT ![s] =
                                 batch_size + (batch_size - remaining_messages)]
                /\ remaining_messages' = batch_size
                /\ pc' = "select"
                /\ held' = IF held = None THEN Installed(s) ELSE held
                /\ messages_rx' = IF held = None THEN None ELSE Installed(s)
          /\ UNCHANGED <<caller, connection, unacked_messages, out, engine_rx,
                         asking, error_set>>
     \/ /\ Failed
        /\ GivenUp
  /\ UNCHANGED <<tx, received, errors, dropped, conn, pool, stream, backlog,
                 dispatched, acked, dead, closes, other>>

-----------------------------------------------------------------------------
(* The application, and the tasks TopicConsumer::new spawns *)

EngineMessage(type, id, cumulative) ==
  [type |-> type, id |-> id, cumulative |-> cumulative]

\* TopicConsumer::poll_next
Receive ==
  /\ ~dropped /\ ~asking
  /\ tx # <<>>
  /\ tx' = Tail(tx)
  /\ \/ /\ Head(tx) = Failure
        /\ errors' = TRUE
        /\ UNCHANGED received
     \/ /\ Head(tx) # Failure
        /\ received' = Append(received, Head(tx))
        /\ UNCHANGED errors
  /\ UNCHANGED <<engine, engine_rx, asking, dropped, conns, subs, broker>>

\* Bound: messages of the application waiting in engine_rx
Mailbox == 2

\* ack, cumulative_ack and nack of a message received
Settle(id) ==
  /\ Running /\ ~dropped /\ ~asking
  /\ Len(engine_rx) < Mailbox
  /\ \/ /\ "ack" \in AppActs
        /\ engine_rx' = Append(engine_rx, EngineMessage("Ack", id, FALSE))
     \/ /\ "cumulative" \in AppActs
        /\ engine_rx' = Append(engine_rx, EngineMessage("Ack", id, TRUE))
     \/ /\ "nack" \in AppActs
        /\ engine_rx' = Append(engine_rx, EngineMessage("Nack", id, FALSE))
  /\ UNCHANGED <<engine, tx, received, errors, asking, dropped, conns, subs, broker>>

\* TopicConsumer::connection: the application waits for the engine's answer and
\* cannot poll meanwhile.
Ask ==
  /\ "ask" \in AppActs
  /\ Running /\ ~dropped /\ ~asking
  /\ asking' = TRUE
  /\ engine_rx' = Append(engine_rx, EngineMessage("GetConnection", <<>>, FALSE))
  /\ UNCHANGED <<engine, tx, received, errors, dropped, conns, subs, broker>>

DropConsumer ==
  /\ "drop" \in AppActs
  /\ ~dropped /\ ~asking
  /\ dropped' = TRUE
  /\ tx' = <<>>
  /\ UNCHANGED <<engine, engine_rx, received, errors, asking, conns, subs, broker>>

\* The ticker, while the engine is there to receive from it; a tick that would
\* queue behind another one is left out.
Ticker ==
  /\ Delay /\ Running
  /\ \A m \in Range(engine_rx) : m.type # "UnackedRedelivery"
  /\ engine_rx' = Append(engine_rx, EngineMessage("UnackedRedelivery", <<>>, FALSE))
  /\ UNCHANGED <<engine, tx, received, errors, asking, dropped, conns, subs, broker>>

\* The task of a subscription whose drop signal was dropped: close_consumer
\* names the consumer, which has one id for all its subscriptions.
CloseTask(s) ==
  /\ task[s] = "closing"
  /\ task' = [task EXCEPT ![s] = "closed"]
  /\ subscribed' = IF conn[home[s]] = "open" THEN subscribed \ On(home[s])
                                             ELSE subscribed
  /\ UNCHANGED <<engine, app, conns, home, stream, channel, permits, backlog,
                 dispatched, acked, dead, closes, other>>

-----------------------------------------------------------------------------
(* The broker, external, and the connections *)

\* A command is routed to the stream, if the Receiver has its sender.
Push(s, item) ==
  stream' = IF channel[s] THEN [stream EXCEPT ![s] = Append(@, item)] ELSE stream

\* The broker respects the permits, and dispatches entries in order.
Dispatch(s) ==
  /\ s \in subscribed
  /\ FoldFunction(+, 0, dispatched) < MaxDispatch
  /\ \E e \in backlog :
       /\ \A f \in backlog : e <= f
       /\ Sizes[e] <= permits[s]
       /\ permits' = [permits EXCEPT ![s] = @ - Sizes[e]]
       /\ backlog' = backlog \ {e}
       /\ dispatched' = [dispatched EXCEPT ![e] = @ + 1]
       /\ Push(s, Message(e))
  /\ UNCHANGED <<engine, app, conns, home, channel, task, subscribed, acked,
                 dead, closes, other>>

\* The broker closes the consumer, and dispatches its entries again.
BrokerCloses(s) ==
  /\ s \in subscribed
  /\ closes < MaxCloses
  /\ closes' = closes + 1
  /\ subscribed' = subscribed \ {s}
  /\ backlog' = backlog \cup Unsettled
  /\ Push(s, Command("close_consumer"))
  /\ UNCHANGED <<engine, app, conns, home, channel, task, permits, dispatched,
                 acked, dead, other>>

BrokerPushes(s) ==
  /\ s \in subscribed
  /\ other < MaxOther
  /\ other' = other + 1
  /\ \E kind \in Commands \ {"close_consumer"} : Push(s, Command(kind))
  /\ UNCHANGED <<engine, app, conns, home, channel, task, subscribed, permits,
                 backlog, dispatched, acked, dead, closes>>

\* A connection breaks: its Receiver ends, its sender task fails to write, or
\* its peer is silent until a heartbeat fails.  The broker takes its entries back.
Broken == Cardinality({k \in Conns : conn[k] \notin {"none", "open"}})

Breaks(k) ==
  /\ conn[k] = "open"
  /\ Broken < MaxBreaks
  /\ subscribed' = subscribed \ On(k)
  /\ backlog' = backlog \cup Unsettled
  /\ \/ /\ conn' = [conn EXCEPT ![k] = "silent"]
        /\ UNCHANGED <<error_set, channel>>
     \/ /\ conn' = [conn EXCEPT ![k] = "failed"]
        /\ error_set' = [error_set EXCEPT ![k] = TRUE]
        /\ UNCHANGED channel
     \/ /\ conn' = [conn EXCEPT ![k] = "ended"]
        /\ error_set' = [error_set EXCEPT ![k] = TRUE]
        /\ channel' = [s \in Subs |-> channel[s] /\ home[s] # k]
  /\ UNCHANGED <<engine, app, pool, home, stream, task, permits, dispatched,
                 acked, dead, closes, other>>

\* The heartbeat of the pool fails, once.
HeartbeatFails(k) ==
  /\ conn[k] = "silent"
  /\ conn' = [conn EXCEPT ![k] = "failed"]
  /\ error_set' = [error_set EXCEPT ![k] = TRUE]
  /\ UNCHANGED <<engine, app, pool, subs, broker>>

\* The last owner of the connection is gone: so is its Receiver.
Released(k) ==
  /\ conn[k] \in {"silent", "failed"}
  /\ connection # k /\ pool # k
  /\ \A s \in On(k) : task[s] \in {"stopped", "closed"}
  /\ conn' = [conn EXCEPT ![k] = "ended"]
  /\ channel' = [s \in Subs |-> channel[s] /\ home[s] # k]
  /\ UNCHANGED <<engine, app, error_set, pool, home, stream, task, broker>>

\* Another engine on the same connection takes the error first.
OtherTakesError(k) ==
  /\ Others
  /\ error_set[k]
  /\ TakeError(k)
  /\ UNCHANGED <<engine, app, conn, pool, subs, broker>>

\* ConnectionManager::check_connections
CheckConnections ==
  /\ pool # None /\ error_set[pool]
  /\ pool' = None
  /\ UNCHANGED <<engine, app, conn, error_set, subs, broker>>

-----------------------------------------------------------------------------
\* TopicConsumer::new has subscribed and asked for batch_size messages.
Init ==
  /\ pc = "check" /\ caller = "check"
  /\ connection = 1
  /\ messages_rx = 1 /\ held = None
  /\ remaining_messages = batch_size
  /\ unacked_messages = {}
  /\ out = <<>>
  /\ signal = 1
  /\ tx = <<>> /\ engine_rx = <<>> /\ received = <<>>
  /\ errors = FALSE /\ asking = FALSE /\ dropped = FALSE
  /\ conn = [k \in Conns |-> IF k = 1 THEN "open" ELSE "none"]
  /\ error_set = [k \in Conns |-> FALSE]
  /\ pool = 1
  /\ home = [s \in Subs |-> IF s = 1 THEN 1 ELSE None]
  /\ stream = [s \in Subs |-> <<>>]
  /\ channel = [s \in Subs |-> s = 1]
  /\ task = [s \in Subs |-> IF s = 1 THEN "armed" ELSE "none"]
  /\ subscribed = {1}
  /\ permits = [s \in Subs |-> IF s = 1 THEN batch_size ELSE 0]
  /\ backlog = Entries
  /\ dispatched = [e \in Entries |-> 0]
  /\ acked = {} /\ dead = {}
  /\ closes = 0 /\ other = 0

Engine ==
  \/ CheckConnection \/ Refill \/ Tick \/ PollMessage \/ PollDisconnected
  \/ Deliver \/ Report \/ PublishDeadLetter \/ AckDeadLetter \/ PollEngineMessage
  \/ PollClosed \/ Lookup \/ Subscribe

Application ==
  \/ Receive \/ Ask \/ DropConsumer \/ \E id \in Range(received) : Settle(id)

Broker ==
  \E s \in Subs : Dispatch(s) \/ BrokerCloses(s) \/ BrokerPushes(s)

Connections ==
  \/ \E k \in Conns : \/ Breaks(k) \/ HeartbeatFails(k) \/ Released(k)
                       \/ OtherTakesError(k)
  \/ CheckConnections

Next ==
  \/ Engine \/ Application \/ Ticker \/ Broker \/ Connections
  \/ \E s \in Subs : CloseTask(s)

Spec == Init /\ [][Next]_vars

\* The executor runs the engine, the ticker and the tasks; the application
\* polls; the broker dispatches what the permits allow; heartbeats are sent.
Fairness ==
  /\ WF_vars(Engine)
  /\ WF_vars(Receive)
  /\ WF_vars(Ticker)
  /\ \A s \in Subs : WF_vars(CloseTask(s)) /\ WF_vars(Dispatch(s))
  /\ \A k \in Conns : WF_vars(HeartbeatFails(k)) /\ WF_vars(Released(k))
  /\ WF_vars(CheckConnections)

FairSpec == Spec /\ Fairness

-----------------------------------------------------------------------------
(* Properties *)

Items ==
  [kind : {"message"}, entry : Entries, redelivery_count : Nat]
    \cup {Command(kind) : kind \in Commands}

EngineMessages ==
  [type : {"Ack", "Nack"}, id : Ids, cumulative : BOOLEAN]
    \cup [type : {"UnackedRedelivery", "GetConnection"}, id : {<<>>},
          cumulative : {FALSE}]

\* Every variable keeps its type; remaining_messages is a u32; the engine
\* selects on a stream only when it has one.
TypeOK ==
  /\ pc \in {"check", "flow", "select", "deliver", "report", "dead_letter",
              "dead_ack", "reconnect", "subscribe"} \cup Over
  /\ caller \in {"check", "flow", "close"}
  /\ connection \in Conns
  /\ messages_rx \in Subs \cup {None} /\ held \in Subs \cup {None}
  /\ pc = "select" => held # None
  /\ remaining_messages \in 0..(2^Width - 1)
  /\ unacked_messages \subseteq Ids
  /\ out \in Seq(Ids)
  /\ signal \in Subs
  /\ tx \in Seq(Ids \cup {Failure}) /\ Len(tx) <= Capacity
  /\ engine_rx \in Seq(EngineMessages)
  /\ received \in Seq(Ids)
  /\ errors \in BOOLEAN /\ asking \in BOOLEAN /\ dropped \in BOOLEAN
  /\ conn \in [Conns -> {"none", "open", "silent", "failed", "ended"}]
  /\ error_set \in [Conns -> BOOLEAN]
  /\ pool \in Conns \cup {None}
  /\ home \in [Subs -> Conns \cup {None}]
  /\ stream \in [Subs -> Seq(Items)]
  /\ channel \in [Subs -> BOOLEAN]
  /\ task \in [Subs -> {"none", "armed", "stopped", "closing", "closed"}]
  /\ subscribed \subseteq Subs
  /\ permits \in [Subs -> Nat]
  /\ backlog \subseteq Entries /\ dead \subseteq Entries /\ acked \subseteq Ids
  /\ dispatched \in [Entries -> Nat]
  /\ closes \in 0..MaxCloses /\ other \in 0..MaxOther

\* The flow control of one subscription is exact: remaining_messages is what
\* the broker may still send plus what is on its way, so the broker is never
\* given more than batch_size messages to send.
FlowExact ==
  (Running /\ 1 \in subscribed /\ other = 0)
    => remaining_messages = permits[1] + InFlight(1)

\* What an engine that was not told of a redelivery has done with the entries
\* dispatched so far: every message of every batch is received, waits for the
\* application or is on its way, once, in the order of the topic.
InOrder ==
  LET entry(item) == item.entry
      sent == Cardinality({e \in Entries : dispatched[e] > 0})
  IN  (/\ Running /\ ~dropped /\ signal = 1 /\ closes = 0 /\ other = 0
       /\ \A e \in Entries : dispatched[e] <= 1)
        => received \o tx \o out
             \o Flat([i \in 1..Len(stream[1]) |-> entry(stream[1][i])])
           = Flat([e \in 1..sent |-> e])

\* Every message of the topic reaches the application while the connection works:
\* the permits are renewed before the broker runs out of them.  It holds for
\* entries of at most batch_size \div 2 messages while no other command comes: a
\* batch_size of 1 starves (MCConsumerStarve), and a command that is counted as a
\* message makes remaining_messages wrap (MCConsumerWrap).
Flowing == <>(Ids = Range(received) \/ pc = "ended" \/ Broken > 0)

\* Streams the engine will still read
Reachable == {messages_rx, held} \ {None}

\* With a redelivery delay, a message that the application was given and has
\* not acknowledged is tracked until the broker has it again, as long as no
\* connection has failed (StreamCurrent tells why it is not when one has) and
\* no subscribe was executed whose answer got lost (the broker then dispatches to
\* a subscription nobody reads).
NotForgotten ==
  (Delay /\ Running /\ Broken = 0 /\ Orphans = {})
    => \A id \in Range(received) \cup Range(tx) :
         \/ id = Failure \/ id \in acked \/ id \in unacked_messages
         \/ id[1] \in backlog
         \/ id \in Range(out)
         \/ \E s \in Reachable : \E item \in Range(stream[s]) : item.entry = id[1]

\* A message dispatched once and acknowledged by ack is not kept for redelivery,
\* in whatever order the engine gets the messages of the application and of the
\* ticker.  It is about ack alone: cumulative_ack removes one message of those it
\* acknowledges (the FIXME of ConsumerEngine::ack, MCConsumerCumulative).
AckedForgotten ==
  \A id \in acked : dispatched[id[1]] = 1 => id \notin unacked_messages

\* The engine acknowledges on its own only what the dead letter topic has: a
\* failed publication, or one whose receipt is lost, leaves the message with the
\* broker.
DeadLetterFirst ==
  AppActs \cap {"ack", "cumulative"} = {} => \A id \in acked : id[1] \in dead

\* The engine waits for messages of its current subscription, never of one that
\* a reconnection has replaced.
StreamCurrent == pc = "select" => held = signal

\* A running engine on a working connection, its consumer not dropped, is
\* subscribed, or its stream holds the broker's notice, or the application is
\* told: the task of an old subscription never closes the consumer under a live
\* engine.
NotAbandoned ==
  (/\ Running /\ ~dropped /\ pc \notin {"reconnect", "subscribe", "report"}
   /\ conn[connection] = "open")
    => \/ signal \in subscribed
       \/ Command("close_consumer") \in Range(stream[signal])
       \/ errors \/ Failure \in Range(tx)

\* The application waits for the engine, which waits for room in the channel
\* that the application alone empties.
Deadlocked ==
  asking /\ pc \in {"deliver", "report"} /\ Len(tx) = Capacity

\* After a CloseConsumer of the broker, or the failure of its connection, the
\* engine subscribes again, or sends the application the error that it could not,
\* unless the two wait for each other.
Recovered ==
  (Running /\ signal \notin subscribed)
    ~> \/ signal \in subscribed \/ errors \/ Failure \in Range(tx)
       \/ ~Running \/ Deadlocked

\* Without a redelivery delay, a consumer that is dropped is closed at the broker,
\* whatever its engine was doing: only a subscription whose subscribe was given up
\* is left.  With a delay the ticker holds a sender of engine_rx, and the engine of
\* a dropped consumer ends only if another message comes (DropEnds).
DropCloses ==
  (dropped /\ ~Delay) ~> (~Running /\ subscribed \subseteq Orphans)

\* The engine of a consumer that is dropped ends, with a redelivery delay or not:
\* false of an engine whose ticker runs (MCConsumerTicker).
DropEnds == dropped ~> ~Running

\* TopicConsumer::connection, on which check_connection rests, gets its answer,
\* unless the application and the engine wait for each other: nothing else, and
\* no end of the engine, leaves the application waiting.
Answered == asking ~> (~asking \/ Deadlocked)

\* TopicConsumer::connection gets its answer: false once the channel to the
\* application is full (MCConsumerAsk).
AlwaysAnswered == asking ~> ~asking

\* The engine does not stay on a connection whose heartbeat has failed, as long as
\* it alone uses the connection: another engine may take the error away
\* (MCConsumerOthers).
HeartbeatNoticed ==
  \A k \in Conns :
    (Running /\ connection = k /\ conn[k] = "failed")
      ~> (connection # k \/ ~Running)

\* A connection that ends is replaced: the engine runs on an open one again.
Reconnects ==
  (Running /\ conn[connection] = "ended") ~> (conn[connection] = "open")
=============================================================================
