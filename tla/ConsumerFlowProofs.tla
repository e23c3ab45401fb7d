------------------------- MODULE ConsumerFlowProofs -------------------------
(***************************************************************************)
(* Proofs about what the application of a ConsumerEngine gets: the flow    *)
(* control of its first subscription and the order of its messages.        *)
(***************************************************************************)
EXTENDS ConsumerEngineProofs

USE ZenonT(8), SMTT(60) DEF engine, app, conns, subs, broker

-----------------------------------------------------------------------------
(* The inductive invariant *)

\* While the broker serves the first subscription, the engine is on it, and its
\* commands reach the stream.
OnFirst ==
  Running /\ 1 \in subscribed =>
    /\ signal = 1 /\ connection = 1 /\ channel[1]
    /\ pc \notin {"reconnect", "subscribe"}
    /\ {messages_rx, held} \subseteq {1, None}

\* No other command is on its way.
OnlyMessages ==
  other = 0 => \A s \in Subs : \A item \in Range(stream[s]) :
                 item.kind \in {"message", "close_consumer"}

\* FlowExact, and that the counter never exceeds what was asked for.
FlowInv ==
  (Running /\ 1 \in subscribed /\ other = 0)
    => /\ remaining_messages = permits[1] + InFlight(1)
       /\ remaining_messages <= batch_size

\* Nothing has made the broker dispatch an entry again, or sent another command.
Calm ==
  /\ Running /\ ~dropped /\ signal = 1 /\ closes = 0 /\ other = 0
  /\ \A e \in Entries : dispatched[e] <= 1

\* The entries of the messages in a sequence of items
EntriesOf(q) == [i \in 1..Len(q) |-> q[i].entry]

\* The first n entries of the topic
First(n) == [e \in 1..n |-> e]

\* The first n entries of the topic are those that were dispatched.
Sent(n) == {e \in Entries : dispatched[e] > 0} = 1..n

\* The broker dispatches the topic from its start, and keeps what it has not
\* dispatched; a message carries how often its entry was dispatched before.
FromStart ==
  /\ \E n \in 0..Len(Sizes) : Sent(n)
  /\ \A e \in Entries : dispatched[e] = 0 => e \in backlog
  /\ \A s \in Subs : \A item \in Range(stream[s]) :
       item.kind = "message" => item.redelivery_count < dispatched[item.entry]

\* Until a reconnection succeeds or the broker closes it, there is one
\* subscription, and the engine reconnects for other reasons.
StillFirst ==
  /\ Running /\ signal = 1 /\ closes = 0 =>
       /\ \A s \in Subs \ {1} : home[s] = None
       /\ {messages_rx, held} \subseteq {1, None}
  /\ closes = 0 => /\ \A s \in Subs : \A item \in Range(stream[s]) :
                        item.kind # "close_consumer"
                   /\ ~(pc \in {"reconnect", "subscribe"} /\ caller = "close")

\* The messages the application has, waits for or is about to be sent are those
\* of the topic, in its order.
Ordered ==
  (Calm /\ Bad = {} /\ DeadLetter # 0) =>
    /\ pc \notin {"report", "dead_letter", "dead_ack"} /\ Failure \notin Range(tx)
    /\ \A n \in 0..Len(Sizes) : Sent(n) =>
         received \o (tx \o (out \o Flat(EntriesOf(stream[1])))) = Flat(First(n))

\* What the proofs add to EngineInv
StreamInv ==
  /\ OnFirst /\ OnlyMessages /\ FlowInv
  /\ FromStart /\ StillFirst /\ Ordered

-----------------------------------------------------------------------------
(* The first subscription *)

\* The broker serves the first subscription only as long as nothing ends it.
LEMMA FirstBefore ==
  ASSUME TypeOK, Served, OnFirst, [Next]_vars, 1 \in subscribed', Running'
  PROVE  /\ Running /\ 1 \in subscribed
         /\ signal = 1 /\ connection = 1 /\ pc \notin {"reconnect", "subscribe"}
         /\ messages_rx \in {1, None} /\ held \in {1, None}
         /\ home[1] = 1 /\ channel[1] /\ conn[1] = "open" /\ ~error_set[1]
         /\ ~Lookup /\ ~Subscribe
  <1>1. Running
    BY RunningStep
  <1>2. ASSUME 1 \in subscribed
        PROVE  /\ signal = 1 /\ connection = 1 /\ pc \notin {"reconnect", "subscribe"}
               /\ messages_rx \in {1, None} /\ held \in {1, None}
               /\ home[1] = 1 /\ channel[1] /\ conn[1] = "open" /\ ~error_set[1]
               /\ ~Lookup /\ ~Subscribe
    BY <1>1, <1>2, Numbers DEF OnFirst, Served, Lookup, Subscribe
  <1>3. CASE Subscribe
    <2>0. \A s \in Subs : home[s] = None => s # 1
      BY Numbers DEF Served, None
    <2>1. ASSUME NEW s \in Subs, NewSubscription(s) PROVE 1 \in subscribed
      BY <2>0, <2>1 DEF NewSubscription, Subscribes
    <2>2. ASSUME GivenUp PROVE 1 \in subscribed
      BY <2>0, <2>2, GivenUpFacts
    <2>3. 1 \in subscribed
      BY <1>3, <2>1, <2>2, SubscribeCases
    <2> QED
      BY <1>1, <1>2, <2>3
  <1>4. CASE Lookup
    BY <1>1, <1>2, <1>4 DEF Lookup
  <1>5. CASE Engine /\ ~Lookup /\ ~Subscribe
    BY <1>1, <1>2, <1>5, EngineStays
  <1>6. ASSUME NEW s \in Subs, Dispatch(s) \/ BrokerCloses(s) \/ BrokerPushes(s)
        PROVE  1 \in subscribed
    BY <1>6, DispatchCases DEF Dispatches, BrokerCloses, BrokerPushes
  <1>7. CASE \/ Application \/ Ticker \/ Connections \/ UNCHANGED vars
             \/ \E s \in Subs : CloseTask(s)
    BY <1>1, <1>2, <1>7, OutsideStreams
  <1> QED
    BY <1>1, <1>2, <1>3, <1>4, <1>5, <1>6, <1>7 DEF Next, Broker

\* Every step keeps OnFirst.
LEMMA OnFirstStep ==
  ASSUME TypeOK, Served, Notices, OnFirst, [Next]_vars
  PROVE  OnFirst'
  <1> SUFFICES ASSUME 1 \in subscribed', Running'
               PROVE  /\ signal' = 1 /\ connection' = 1 /\ channel'[1]
                      /\ pc' \notin {"reconnect", "subscribe"}
                      /\ messages_rx' \in {1, None} /\ held' \in {1, None}
    BY DEF OnFirst
  <1>7. channel'[1]
    <2>0. /\ home[1] = 1 /\ channel[1] /\ conn[1] = "open" /\ ~Lookup /\ ~Subscribe
          /\ 1 \in Subs
      BY FirstBefore, Numbers
    <2>1. CASE Engine
      BY <2>0, <2>1, EngineStays
    <2>2. ASSUME NEW s \in Subs, Dispatch(s) \/ BrokerCloses(s) \/ BrokerPushes(s) \/ CloseTask(s)
          PROVE  UNCHANGED channel
      BY <2>2, DispatchCases DEF Dispatches, BrokerCloses, BrokerPushes, CloseTask
    <2>3. ASSUME NEW k \in Conns,
                 Breaks(k) \/ HeartbeatFails(k) \/ Released(k) \/ OtherTakesError(k)
          PROVE  channel'[1]
      BY <2>0, <2>3 DEF Breaks, HeartbeatFails, Released, OtherTakesError, On, TypeOK
    <2>4. CASE Application \/ Ticker \/ CheckConnections \/ UNCHANGED vars
      BY <2>0, <2>4 DEF Application, Receive, Ask, DropConsumer, Settle, Ticker,
                        CheckConnections, vars
    <2> QED
      BY <2>0, <2>1, <2>2, <2>3, <2>4 DEF Next, Broker, Connections
  <1>0. /\ Running /\ 1 \in subscribed
        /\ signal = 1 /\ connection = 1 /\ pc \notin {"reconnect", "subscribe"}
        /\ messages_rx \in {1, None} /\ held \in {1, None}
        /\ conn[1] = "open" /\ ~error_set[1]
        /\ ~Lookup /\ ~Subscribe
    BY FirstBefore
  <1>1. CASE UNCHANGED engine
    BY <1>0, <1>1, <1>7
  <1>2. CASE CheckConnection \/ Refill \/ Tick
    <2>1. ~Refuses
      BY <1>0 DEF Refuses
    <2> QED
      BY <1>0, <1>2, <1>7, <2>1 DEF CheckConnection, Refill, Select, Tick
  <1>3. CASE PollMessage
    <2>1. ~Ends("ended")
      BY DEF Ends, Running, Over
    <2>2. PutBack /\ Process(Taken) /\ UNCHANGED <<connection, signal>>
      BY <1>3, <2>1 DEF PollMessage, Taken
    <2>3. held = 1 /\ Taken \in Range(stream[held])
      BY <1>0, <1>3, TakenType
    <2>4. Taken.kind # "close_consumer"
      BY <1>0, <2>3 DEF Notices
    <2>5. pc' \notin {"reconnect", "subscribe"}
      BY <2>2, <2>4 DEF Process
    <2> QED
      BY <1>0, <1>7, <2>2, <2>5 DEF PutBack
  <1>4. CASE PollDisconnected \/ PollClosed
    BY <1>4 DEF PollDisconnected, PollClosed, Ends, Running, Over
  <1>5. CASE Deliver \/ Report \/ PublishDeadLetter \/ AckDeadLetter
    <2>1. ~Ends("ended")
      BY DEF Ends, Running, Over
    <2> QED
      BY <1>0, <1>5, <1>7, <2>1 DEF Deliver, Report, PublishDeadLetter, AckDeadLetter
  <1>6. CASE PollEngineMessage
    BY <1>0, <1>6, <1>7 DEF PollEngineMessage, PutBack
  <1> QED
    BY <1>0, <1>1, <1>2, <1>3, <1>4, <1>5, <1>6, OutsideEngine DEF Next, Engine

\* An item of a stream was there before, or the broker sends it.
LEMMA ItemStep ==
  ASSUME TypeOK, [Next]_vars, NEW t \in Subs, NEW item \in Range(stream'[t])
  PROVE  \/ item \in Range(stream[t])
         \/ \E s \in Subs, e \in Entries : Dispatches(s, e) /\ item = Message(e)
         \/ item.kind = "close_consumer" /\ closes' = closes + 1
         \/ item.kind \notin {"message", "close_consumer"} /\ other' = other + 1
  <1>1. CASE UNCHANGED stream
    BY <1>1
  <1>2. CASE PollMessage
    BY <1>2, TakenType
  <1>3. ASSUME NEW s \in Subs, NEW x \in Items, Push(s, x)
        PROVE  item \in Range(stream[t]) \/ item = x
    BY <1>3, PushGrows
  <1>4. ASSUME NEW s \in Subs, Dispatch(s)
        PROVE  \/ item \in Range(stream[t])
               \/ \E e \in Entries : Dispatches(s, e) /\ item = Message(e)
    <2>1. PICK e \in Entries : Dispatches(s, e)
      BY <1>4, DispatchCases
    <2>2. Message(e) \in Items /\ Push(s, Message(e))
      BY <2>1 DEF Dispatches, Message, Items, TypeOK
    <2> QED
      BY <1>3, <2>1, <2>2
  <1>5. ASSUME NEW s \in Subs, BrokerCloses(s)
        PROVE  \/ item \in Range(stream[t])
               \/ item.kind = "close_consumer" /\ closes' = closes + 1
    <2>1. /\ Push(s, Command("close_consumer")) /\ Command("close_consumer") \in Items
          /\ Command("close_consumer").kind = "close_consumer" /\ closes' = closes + 1
      BY <1>5, ValueTypes DEF BrokerCloses, Command, Commands
    <2> QED
      BY <1>3, <2>1
  <1>6. ASSUME NEW s \in Subs, BrokerPushes(s)
        PROVE  \/ item \in Range(stream[t])
               \/ item.kind \notin {"message", "close_consumer"} /\ other' = other + 1
    <2>1. PICK kind \in Commands \ {"close_consumer"} : Push(s, Command(kind))
      BY <1>6 DEF BrokerPushes
    <2>2. /\ Command(kind) \in Items
          /\ Command(kind).kind \notin {"message", "close_consumer"} /\ other' = other + 1
      BY <1>6, ValueTypes DEF BrokerPushes, Command, Commands
    <2> QED
      BY <1>3, <2>1, <2>2
  <1>7. CASE Engine
    BY <1>1, <1>2, <1>7, EngineStays DEF Lookup, Subscribe
  <1> QED
    BY <1>1, <1>4, <1>5, <1>6, <1>7, OutsideStreams DEF Next, Broker

\* The broker counts the commands that it sends.
LEMMA OtherStep ==
  ASSUME TypeOK, [Next]_vars
  PROVE  /\ other \in Nat /\ (other' = other \/ other' = other + 1)
         /\ closes \in Nat /\ (closes' = closes \/ closes' = closes + 1)
  <1> SUFFICES /\ other' = other \/ other' = other + 1
               /\ closes' = closes \/ closes' = closes + 1
    BY DEF TypeOK
  <1>1. CASE Lookup \/ Subscribe
    BY <1>1 DEF Lookup, Subscribe
  <1>2. CASE Engine /\ ~Lookup /\ ~Subscribe
    BY <1>2, EngineStays
  <1>3. ASSUME NEW s \in Subs, Dispatch(s) \/ BrokerCloses(s) \/ BrokerPushes(s)
        PROVE  /\ other' = other \/ other' = other + 1
               /\ closes' = closes \/ closes' = closes + 1
    BY <1>3, DispatchCases DEF Dispatches, BrokerCloses, BrokerPushes
  <1>4. CASE Application \/ Ticker \/ UNCHANGED vars \/ \E s \in Subs : CloseTask(s)
    BY <1>4 DEF Application, Receive, Ask, DropConsumer, Settle, Ticker, vars, CloseTask
  <1>5. CASE Connections
    BY <1>5 DEF Connections, Breaks, HeartbeatFails, Released, OtherTakesError,
         CheckConnections
  <1> QED
    BY <1>1, <1>2, <1>3, <1>4, <1>5 DEF Next, Broker

\* Every step keeps OnlyMessages.
LEMMA OnlyMessagesStep ==
  ASSUME TypeOK, OnlyMessages, [Next]_vars
  PROVE  OnlyMessages'
  <1> SUFFICES ASSUME other' = 0, NEW s \in Subs, NEW item \in Range(stream'[s])
               PROVE  item.kind \in {"message", "close_consumer"}
    BY DEF OnlyMessages
  <1>1. other = 0 /\ other' # other + 1
    BY OtherStep
  <1>2. \A e \in Entries : Message(e).kind = "message"
    BY DEF Message
  <1> QED
    BY <1>1, <1>2, ItemStep DEF OnlyMessages

-----------------------------------------------------------------------------
(* What the broker dispatches *)

\* An entry leaves the backlog when it is dispatched.
LEMMA BacklogStep ==
  ASSUME TypeOK, [Next]_vars, NEW e \in backlog
  PROVE  e \in backlog' \/ \E s \in Subs : Dispatches(s, e)
  <1>1. CASE Engine
    <2>1. CASE PollEngineMessage
      BY <2>1 DEF PollEngineMessage, Handle, Redeliver
    <2>2. CASE CheckConnection \/ Refill \/ Tick \/ PollMessage \/ PollDisconnected \/ PollClosed
      BY <2>2 DEF CheckConnection, Refill, Tick, PollMessage, PollDisconnected, PollClosed
    <2>3. CASE Deliver \/ Report \/ PublishDeadLetter \/ AckDeadLetter \/ Lookup \/ Subscribe
      BY <2>3 DEF Deliver, Report, PublishDeadLetter, AckDeadLetter, Lookup, Subscribe
    <2> QED
      BY <1>1, <2>1, <2>2, <2>3 DEF Engine
  <1>2. ASSUME NEW s \in Subs, Dispatch(s)
        PROVE  e \in backlog' \/ Dispatches(s, e)
    BY <1>2, DispatchCases DEF Dispatches
  <1>3. ASSUME NEW s \in Subs, BrokerCloses(s) \/ BrokerPushes(s) \/ CloseTask(s)
        PROVE  e \in backlog'
    BY <1>3 DEF BrokerCloses, BrokerPushes, CloseTask
  <1>4. CASE Application \/ Ticker \/ UNCHANGED vars
    BY <1>4 DEF Application, Receive, Ask, DropConsumer, Settle, Ticker, vars
  <1>5. CASE Connections
    BY <1>5 DEF Connections, Breaks, HeartbeatFails, Released, OtherTakesError,
         CheckConnections
  <1> QED
    BY <1>1, <1>2, <1>3, <1>4, <1>5 DEF Next, Broker

\* The entry that is dispatched was dispatched before, or is the next one.
LEMMA NextSent ==
  ASSUME TypeOK, FromStart, [Next]_vars, NEW n \in 0..Len(Sizes), Sent(n),
         NEW s \in Subs, NEW e \in Entries, Dispatches(s, e)
  PROVE  \/ dispatched[e] > 0 /\ Sent(n)'
         \/ dispatched[e] = 0 /\ e = n + 1 /\ Sent(n + 1)'
  <1>1. /\ \A f \in Entries : dispatched[f] \in Nat
        /\ dispatched'[e] = dispatched[e] + 1
        /\ \A f \in Entries \ {e} : dispatched'[f] = dispatched[f]
    BY DEF Dispatches, TypeOK
  <1>2. \A f \in Entries : dispatched[f] > 0 <=> f \in 1..n
    BY <1>1 DEF Sent
  <1>3. Entries = 1..Len(Sizes) /\ Len(Sizes) \in Nat
    BY EngineAssumption DEF Entries
  <1>4. CASE dispatched[e] > 0
    <2>1. \A f \in Entries : dispatched'[f] > 0 <=> f \in 1..n
      BY <1>1, <1>2, <1>4
    <2>2. 1..n \subseteq Entries
      BY <1>3
    <2> QED
      BY <1>4, <2>1, <2>2 DEF Sent
  <1>5. CASE dispatched[e] = 0
    <2>1. e > n /\ e \in 1..Len(Sizes)
      BY <1>2, <1>3, <1>5
    <2>2. n + 1 \in Entries /\ n + 1 \notin 1..n
      BY <1>3, <2>1
    <2>3. dispatched[n + 1] = 0
      BY <1>1, <1>2, <2>2
    <2>4. n + 1 \in backlog
      BY <2>2, <2>3 DEF FromStart
    <2>5. e = n + 1
      BY <1>3, <2>1, <2>4 DEF Dispatches
    <2>6. \A f \in Entries : dispatched'[f] > 0 <=> f \in 1..(n + 1)
      BY <1>1, <1>2, <1>3, <1>5, <2>5
    <2>7. 1..(n + 1) \subseteq Entries
      BY <1>3, <2>2
    <2> QED
      BY <1>5, <2>5, <2>6, <2>7 DEF Sent
  <1> QED
    BY <1>1, <1>4, <1>5

\* Every step keeps FromStart.
LEMMA FromStartStep ==
  ASSUME TypeOK, FromStart, [Next]_vars
  PROVE  FromStart'
  <1>1. \E n \in 0..Len(Sizes) : Sent(n)'
    <2>1. PICK n \in 0..Len(Sizes) : Sent(n)
      BY DEF FromStart
    <2>2. CASE \E s \in Subs : \E e \in Entries : Dispatches(s, e)
      <3>1. PICK s \in Subs, e \in Entries : Dispatches(s, e)
        BY <2>2
      <3>2. CASE Sent(n)'
        BY <3>2
      <3>3. CASE e = n + 1 /\ Sent(n + 1)'
        <4>1. n + 1 \in 0..Len(Sizes)
          BY <3>3, EngineAssumption DEF Entries
        <4> QED
          BY <3>3, <4>1
      <3> QED
        BY <2>1, <3>1, <3>2, <3>3, NextSent
    <2>3. CASE ~\E s \in Subs : \E e \in Entries : Dispatches(s, e)
      <3>1. \A e \in Entries : dispatched'[e] = dispatched[e]
        BY <2>3, CountsStep
      <3> QED
        BY <2>1, <3>1 DEF Sent
    <2> QED
      BY <2>2, <2>3
  <1>2. ASSUME NEW e \in Entries, dispatched'[e] = 0 PROVE e \in backlog'
    <2>1. dispatched[e] = 0 /\ \A s \in Subs : ~Dispatches(s, e)
      BY <1>2, CountsStep
    <2> QED
      BY <2>1, BacklogStep DEF FromStart
  <1>3. ASSUME NEW t \in Subs, NEW item \in Range(stream'[t]), item.kind = "message"
        PROVE  item.redelivery_count < dispatched'[item.entry]
    <2>1. CASE item \in Range(stream[t])
      <3>1. stream[t] \in Seq(Items)
        BY DEF TypeOK
      <3>2. item \in Items
        BY <2>1, <3>1, RangeType
      <3>3. item.entry \in Entries /\ item.redelivery_count \in Nat
        BY <1>3, <3>2, ValueTypes
      <3>4. item.redelivery_count < dispatched[item.entry]
        BY <1>3, <2>1 DEF FromStart
      <3> QED
        BY <3>3, <3>4, CountsStep
    <2>2. ASSUME NEW s \in Subs, NEW e \in Entries, Dispatches(s, e), item = Message(e)
          PROVE  item.redelivery_count < dispatched'[item.entry]
      <3>1. item.entry = e /\ item.redelivery_count = dispatched[e]
        BY <2>2 DEF Message
      <3>2. dispatched'[e] = dispatched[e] + 1 /\ dispatched[e] \in Nat
        BY <2>2 DEF Dispatches, TypeOK
      <3> QED
        BY <3>1, <3>2
    <2> QED
      BY <1>3, <2>1, <2>2, ItemStep
  <1> QED
    BY <1>1, <1>2, <1>3 DEF FromStart

\* Without a new subscription, the engine keeps the streams that it has.
LEMMA SameStreams ==
  ASSUME TypeOK, [Next]_vars
  PROVE  \/ \E s \in Subs : NewSubscription(s)
         \/ pc = "subscribe" /\ Failed /\ UNCHANGED signal
         \/ /\ UNCHANGED <<signal, home>>
            /\ messages_rx' \in {messages_rx, held, None}
            /\ held' \in {messages_rx, held, None}
  <1>1. CASE CheckConnection \/ Refill \/ Tick
    BY <1>1 DEF CheckConnection, Refill, Select, Tick
  <1>2. CASE PollMessage \/ PollDisconnected \/ PollClosed \/ PollEngineMessage
    BY <1>2 DEF PollMessage, PollDisconnected, PollClosed, PollEngineMessage, PutBack, Ends
  <1>3. CASE Deliver \/ Report \/ PublishDeadLetter \/ AckDeadLetter
    BY <1>3 DEF Deliver, Report, PublishDeadLetter, AckDeadLetter, Ends
  <1>4. CASE Lookup
    BY <1>4, LookupCases DEF NewConnection, Failed, Ends
  <1>5. CASE Subscribe
    BY <1>5, SubscribeCases DEF Failed, Ends
  <1>6. CASE Broker
    <2>1. ASSUME NEW s \in Subs, Dispatch(s) \/ BrokerCloses(s) \/ BrokerPushes(s)
          PROVE  UNCHANGED <<signal, home, messages_rx, held>>
      BY <2>1, DispatchCases DEF Dispatches, BrokerCloses, BrokerPushes
    <2> QED
      BY <1>6, <2>1 DEF Broker
  <1>7. CASE \/ Application \/ Ticker \/ Connections \/ UNCHANGED vars
             \/ \E s \in Subs : CloseTask(s)
    BY <1>7, OutsideStreams, OutsideEngine
  <1> QED
    BY <1>1, <1>2, <1>3, <1>4, <1>5, <1>6, <1>7 DEF Next, Engine

\* Every step keeps StillFirst.
LEMMA StillFirstStep ==
  ASSUME TypeOK, Served, StillFirst, [Next]_vars
  PROVE  StillFirst'
  <1>1. ASSUME Running', signal' = 1, closes' = 0
        PROVE  /\ \A s \in Subs \ {1} : home'[s] = None
               /\ {messages_rx', held'} \subseteq {1, None}
    <2>1. ASSUME NEW s \in Subs, NewSubscription(s) PROVE FALSE
      BY <1>1, <2>1, Numbers DEF NewSubscription, Served, None
    <2>2. Running /\ closes = 0
      BY <1>1, RunningStep, OtherStep
    <2>3. ~(pc = "subscribe" /\ Failed)
      BY <1>1, <2>2 DEF StillFirst, Failed, Ends, Running, Over
    <2> QED
      BY <1>1, <2>1, <2>2, <2>3, SameStreams DEF StillFirst
  <1>2. ASSUME closes' = 0
        PROVE  /\ \A s \in Subs : \A item \in Range(stream'[s]) :
                    item.kind # "close_consumer"
               /\ ~(pc' \in {"reconnect", "subscribe"} /\ caller' = "close")
    <2>1. closes = 0 /\ closes' # closes + 1
      BY <1>2, OtherStep
    <2>2. ASSUME NEW s \in Subs, NEW item \in Range(stream'[s])
          PROVE  item.kind # "close_consumer"
      <3>1. \A e \in Entries : Message(e).kind = "message"
        BY DEF Message
      <3> QED
        BY <2>1, <2>2, <3>1, ItemStep DEF StillFirst
    <2>3. ASSUME pc' \in {"reconnect", "subscribe"}, caller' = "close" PROVE FALSE
      <3>1. CASE UNCHANGED engine
        BY <2>1, <2>3, <3>1 DEF StillFirst
      <3>2. CASE CheckConnection \/ Refill \/ Tick
        BY <2>3, <3>2 DEF CheckConnection, Refill, Select, Tick
      <3>3. CASE PollMessage
        <4>1. ~Ends("ended")
          BY <2>3 DEF Ends
        <4>2. Process(Taken)
          BY <3>3, <4>1 DEF PollMessage, Taken
        <4>3. Taken.kind # "close_consumer"
          BY <2>1, <3>3, TakenType DEF StillFirst
        <4> QED
          BY <2>3, <4>2, <4>3 DEF Process
      <3>4. CASE \/ PollDisconnected \/ Deliver \/ Report \/ PublishDeadLetter
                 \/ AckDeadLetter \/ PollEngineMessage \/ PollClosed
        BY <2>3, <3>4 DEF PollDisconnected, Deliver, Report, PublishDeadLetter,
             AckDeadLetter, PollEngineMessage, PollClosed, Ends
      <3>5. CASE Lookup
        <4>1. caller = "close" /\ pc = "reconnect"
          BY <2>3, <3>5, LookupCases DEF NewConnection, Failed, Ends
        <4> QED
          BY <2>1, <4>1 DEF StillFirst
      <3>6. CASE Subscribe
        BY <2>3, <3>6, SubscribeCases DEF NewSubscription, Failed, Ends
      <3> QED
        BY <3>1, <3>2, <3>3, <3>4, <3>5, <3>6, OutsideEngine DEF Next, Engine
    <2> QED
      BY <2>2, <2>3
  <1> QED
    BY <1>1, <1>2 DEF StillFirst

\* A dropped consumer stays dropped.
LEMMA DroppedStep ==
  ASSUME TypeOK, [Next]_vars, ~dropped'
  PROVE  ~dropped
  <1>1. CASE CheckConnection \/ Refill \/ Tick \/ PollMessage \/ PollDisconnected \/ PollClosed
    BY <1>1 DEF CheckConnection, Refill, Tick, PollMessage, PollDisconnected, PollClosed
  <1>2. CASE \/ Deliver \/ Report \/ PublishDeadLetter \/ AckDeadLetter \/ PollEngineMessage
             \/ Lookup \/ Subscribe
    BY <1>2 DEF Deliver, Report, PublishDeadLetter, AckDeadLetter, PollEngineMessage, Lookup,
                Subscribe
  <1>3. ASSUME NEW s \in Subs,
               Dispatch(s) \/ BrokerCloses(s) \/ BrokerPushes(s) \/ CloseTask(s)
        PROVE  ~dropped
    BY <1>3, DispatchCases DEF Dispatches, BrokerCloses, BrokerPushes, CloseTask
  <1>4. CASE Application \/ Ticker \/ UNCHANGED vars
    BY <1>4 DEF Application, Receive, Ask, DropConsumer, Settle, Ticker, vars
  <1>5. CASE Connections
    BY <1>5 DEF Connections, Breaks, HeartbeatFails, Released, OtherTakesError,
         CheckConnections
  <1> QED
    BY <1>1, <1>2, <1>3, <1>4, <1>5 DEF Next, Engine, Broker

\* A consumer that is calm has been calm.
LEMMA CalmStep ==
  ASSUME TypeOK, Served, [Next]_vars, Calm'
  PROVE  /\ Calm /\ closes' = closes /\ other' = other
         /\ \A s \in Subs : ~NewSubscription(s)
         /\ \A s \in Subs : ~BrokerCloses(s) /\ ~BrokerPushes(s)
         /\ \A s \in Subs, e \in Entries : Dispatches(s, e) => dispatched[e] = 0
  <1>0. /\ Running' /\ ~dropped' /\ signal' = 1 /\ closes' = 0 /\ other' = 0
        /\ \A e \in Entries : dispatched'[e] <= 1
    BY DEF Calm
  <1>1. closes = 0 /\ other = 0
    BY <1>0, OtherStep
  <1>2. \A s \in Subs : ~NewSubscription(s)
    BY <1>0, Numbers DEF NewSubscription, Served, None
  <1>3. signal = 1
    BY <1>0, <1>2, SameStreams
  <1>4. Running /\ ~dropped
    BY <1>0, RunningStep, DroppedStep
  <1>5. \A e \in Entries : /\ dispatched[e] <= 1
                           /\ \A s \in Subs : Dispatches(s, e) => dispatched[e] = 0
    BY <1>0, CountsStep
  <1>6. \A s \in Subs : ~BrokerCloses(s) /\ ~BrokerPushes(s)
    BY <1>0, <1>1 DEF BrokerCloses, BrokerPushes
  <1> QED
    BY <1>0, <1>1, <1>2, <1>3, <1>4, <1>5, <1>6 DEF Calm

\* In a calm consumer's first stream there are messages only.
LEMMA CalmStream ==
  ASSUME TypeOK, StillFirst, OnlyMessages, Calm
  PROVE  /\ \A item \in Range(stream[1]) : item.kind = "message" /\ item.entry \in Entries
         /\ EntriesOf(stream[1]) \in Seq(Entries)
         /\ stream[1] \in Seq(Items)
  <1>1. stream[1] \in Seq(Items)
    BY Numbers DEF TypeOK
  <1>2. ASSUME NEW item \in Range(stream[1])
        PROVE  item.kind = "message" /\ item.entry \in Entries
    <2>1. item.kind = "message"
      BY Numbers DEF Calm, OnlyMessages, StillFirst
    <2> QED
      BY <1>1, <2>1, ValueTypes, RangeType
  <1>3. \A i \in 1..Len(stream[1]) : stream[1][i].entry \in Entries
    BY <1>1, <1>2, RangeType
  <1> QED
    BY <1>1, <1>2, <1>3 DEF EntriesOf

\* The entries of a stream that is read, and of one that grows
LEMMA EntriesTail ==
  ASSUME NEW q \in Seq(Items), EntriesOf(q) \in Seq(Entries), q # <<>>
  PROVE  /\ EntriesOf(q) # <<>> /\ Head(EntriesOf(q)) = Head(q).entry
         /\ EntriesOf(Tail(q)) = Tail(EntriesOf(q))
  <1> DEFINE a == EntriesOf(q)
             b == EntriesOf(Tail(q))
  <1>1. Len(q) \in Nat \ {0} /\ Len(a) = Len(q) /\ \A i \in 1..Len(q) : a[i] = q[i].entry
    BY DEF EntriesOf
  <1>2. /\ Tail(q) \in Seq(Items) /\ Len(Tail(q)) = Len(q) - 1 /\ Head(q) = q[1]
        /\ \A i \in 1..(Len(q) - 1) : Tail(q)[i] = q[i + 1]
    OBVIOUS
  <1>3. b = [i \in 1..(Len(q) - 1) |-> q[i + 1].entry]
    BY <1>2 DEF EntriesOf
  <1> HIDE DEF a, b
  <1>4. a \in Seq(Entries) /\ a # <<>>
    BY <1>1 DEF a
  <1>5. /\ Tail(a) \in Seq(Entries) /\ Len(Tail(a)) = Len(q) - 1 /\ Head(a) = a[1]
        /\ \A i \in 1..(Len(q) - 1) : Tail(a)[i] = a[i + 1]
    BY <1>1, <1>4
  <1>6. \A i \in 1..(Len(q) - 1) : q[i + 1].entry = a[i + 1] /\ a[i + 1] \in Entries
    BY <1>1, <1>4
  <1>7. b \in Seq(Entries) /\ Len(b) = Len(q) - 1
    BY <1>1, <1>3, <1>6
  <1>8. \A i \in 1..Len(b) : b[i] = Tail(a)[i]
    BY <1>3, <1>5, <1>6, <1>7
  <1>9. b = Tail(a)
    BY <1>5, <1>7, <1>8, SeqSame
  <1>10. Head(a) = Head(q).entry
    BY <1>1, <1>2, <1>5
  <1> QED
    BY <1>4, <1>9, <1>10 DEF a, b

\* The entries of a stream that grows
LEMMA EntriesAppend ==
  ASSUME NEW q \in Seq(Items), EntriesOf(q) \in Seq(Entries), NEW x \in Items,
         x.entry \in Entries
  PROVE  EntriesOf(Append(q, x)) = Append(EntriesOf(q), x.entry)
  <1> DEFINE a == EntriesOf(q)
             b == EntriesOf(Append(q, x))
             c == Append(a, x.entry)
  <1>1. Len(q) \in Nat /\ Len(a) = Len(q) /\ \A i \in 1..Len(q) : a[i] = q[i].entry
    BY DEF EntriesOf
  <1>2. /\ Append(q, x) \in Seq(Items) /\ Len(Append(q, x)) = Len(q) + 1
        /\ Append(q, x)[Len(q) + 1] = x
        /\ \A i \in 1..Len(q) : Append(q, x)[i] = q[i]
    OBVIOUS
  <1>3. b = [i \in 1..(Len(q) + 1) |-> Append(q, x)[i].entry]
    BY <1>2 DEF EntriesOf
  <1>4. a \in Seq(Entries)
    OBVIOUS
  <1> HIDE DEF a, b
  <1>5. /\ c \in Seq(Entries) /\ Len(c) = Len(q) + 1 /\ c[Len(q) + 1] = x.entry
        /\ \A i \in 1..Len(q) : c[i] = a[i]
    BY <1>1, <1>4
  <1> HIDE DEF c
  <1>6. \A i \in 1..(Len(q) + 1) : Append(q, x)[i].entry = c[i] /\ c[i] \in Entries
    BY <1>1, <1>2, <1>5
  <1>7. b \in Seq(Entries) /\ Len(b) = Len(q) + 1
    BY <1>1, <1>3, <1>6
  <1>8. \A i \in 1..Len(b) : b[i] = c[i]
    BY <1>3, <1>6, <1>7
  <1>9. b = c
    BY <1>5, <1>7, <1>8, SeqSame
  <1> QED
    BY <1>9 DEF a, b, c

-----------------------------------------------------------------------------
(* The number of messages in a sequence of items *)

LOCAL W == INSTANCE WellFoundedInduction

\* A set of numbers has a least one.
LEMMA LeastNat ==
  ASSUME NEW T \in SUBSET Nat, T # {}
  PROVE  \E x \in T : \A y \in T : x <= y
  <1>1. PICK x \in T : \A y \in T : ~(<<y, x>> \in W!OpToRel(<, Nat))
    BY W!WFMin, W!NatLessThanWellFounded
  <1>2. ASSUME NEW y \in T PROVE x <= y
    <2>1. ~(y < x)
      BY <1>1 DEF W!OpToRel
    <2> QED
      BY <2>1
  <1> QED
    BY <1>2

\* f holds the sums of the first 0 to n items of q.
Sums(q, n, f) ==
  f = [i \in 0..n |-> IF i = 0 THEN 0 ELSE f[i - 1] + Count(q[i])]

\* The sums of a sequence are numbers, and each is the one before and an item.
LEMMA SumsStep ==
  ASSUME NEW q \in Seq(Items), NEW n \in 0..Len(q), NEW f, Sums(q, n, f)
  PROVE  /\ f[0] = 0
         /\ \A i \in 1..n : f[i] = f[i - 1] + Count(q[i])
         /\ \A i \in 0..n : f[i] \in Nat
  <1>1. \A i \in 0..n : f[i] = IF i = 0 THEN 0 ELSE f[i - 1] + Count(q[i])
    BY Zenon DEF Sums
  <1>2. f[0] = 0 /\ \A i \in 1..n : f[i] = f[i - 1] + Count(q[i])
    BY <1>1
  <1> DEFINE T == {i \in 0..n : f[i] \notin Nat}
  <1>3. ASSUME T # {} PROVE FALSE
    <2>1. PICK x \in T : \A y \in T : x <= y
      <3>1. T \in SUBSET Nat
        OBVIOUS
      <3> HIDE DEF T
      <3> QED
        BY <1>3, <3>1, LeastNat
    <2>2. x \in 1..n /\ x - 1 \in 0..n /\ x - 1 \notin T
      BY <1>2, <2>1
    <2>3. q[x] \in Items
      BY <2>2
    <2>4. f[x - 1] \in Nat /\ Count(q[x]) \in Nat
      BY <2>2, <2>3, CountType
    <2> QED
      BY <1>2, <2>1, <2>2, <2>4
  <1> QED
    BY <1>2, <1>3

\* There are such sums.
LEMMA SumsExist ==
  ASSUME NEW q \in Seq(Items), NEW n \in 0..Len(q)
  PROVE  \E f : Sums(q, n, f)
  <1> DEFINE T == {m \in 0..Len(q) : ~\E f : Sums(q, m, f)}
  <1>1. ASSUME T # {} PROVE FALSE
    <2>1. PICK x \in T : \A y \in T : x <= y
      <3>1. T \in SUBSET Nat
        OBVIOUS
      <3> HIDE DEF T
      <3> QED
        BY <1>1, <3>1, LeastNat
    <2>2. CASE x = 0
      <3> DEFINE g == [i \in 0..0 |-> 0]
      <3>1. Sums(q, 0, g)
        BY DEF Sums
      <3> QED
        BY <2>1, <2>2, <3>1
    <2>3. CASE x # 0
      <3>1. x \in 1..Len(q) /\ x - 1 \in 0..Len(q) /\ x - 1 \notin T
        BY <2>1, <2>3
      <3>2. PICK f : Sums(q, x - 1, f)
        BY <3>1
      <3>3. f[0] = 0 /\ \A i \in 1..(x - 1) : f[i] = f[i - 1] + Count(q[i])
        BY <3>1, <3>2, SumsStep
      <3> DEFINE g == [i \in 0..x |-> IF i = x THEN f[x - 1] + Count(q[x]) ELSE f[i]]
      <3>4. ASSUME NEW i \in 0..x
            PROVE  g[i] = IF i = 0 THEN 0 ELSE g[i - 1] + Count(q[i])
        <4>1. CASE i = 0
          BY <3>1, <3>3, <4>1
        <4>2. CASE i = x
          BY <3>1, <4>2
        <4>3. CASE i # 0 /\ i # x
          <5>1. i \in 1..(x - 1) /\ i - 1 \in 0..x /\ i - 1 # x
            BY <3>1, <4>3
          <5>2. g[i] = f[i] /\ g[i - 1] = f[i - 1]
            BY <4>3, <5>1
          <5> QED
            BY <3>3, <4>3, <5>1, <5>2
        <4> QED
          BY <4>1, <4>2, <4>3
      <3>5. g = [i \in 0..x |-> g[i]]
        OBVIOUS
      <3> HIDE DEF g
      <3>6. g = [i \in 0..x |-> IF i = 0 THEN 0 ELSE g[i - 1] + Count(q[i])]
        BY <3>4, <3>5, Zenon
      <3> QED
        BY <2>1, <3>6 DEF Sums
    <2> QED
      BY <2>2, <2>3
  <1> QED
    BY <1>1

\* Sequences that start with the same items have the same sums there.
LEMMA SumsAgree ==
  ASSUME NEW q \in Seq(Items), NEW r \in Seq(Items), NEW m \in 0..Len(q), NEW n \in 0..Len(r),
         NEW f, NEW g, Sums(q, m, f), Sums(r, n, g),
         NEW k \in Nat, k <= m, k <= n, \A i \in 1..k : q[i] = r[i]
  PROVE  f[k] = g[k]
  <1>1. f[0] = 0 /\ \A i \in 1..m : f[i] = f[i - 1] + Count(q[i])
    BY SumsStep
  <1>2. g[0] = 0 /\ \A i \in 1..n : g[i] = g[i - 1] + Count(r[i])
    BY SumsStep
  <1> DEFINE T == {i \in 0..k : f[i] # g[i]}
  <1>3. ASSUME T # {} PROVE FALSE
    <2>1. PICK x \in T : \A y \in T : x <= y
      <3>1. T \in SUBSET Nat
        OBVIOUS
      <3> HIDE DEF T
      <3> QED
        BY <1>3, <3>1, LeastNat
    <2>2. x \in 1..k /\ x - 1 \in 0..k /\ x - 1 \notin T
      BY <1>1, <1>2, <2>1
    <2>3. f[x - 1] = g[x - 1] /\ q[x] = r[x] /\ x \in 1..m /\ x \in 1..n
      BY <2>2
    <2> QED
      BY <1>1, <1>2, <2>1, <2>3
  <1> QED
    BY <1>3

\* The total is the last of the sums.
LEMMA TotalIs ==
  ASSUME NEW q \in Seq(Items)
  PROVE  \E f : Sums(q, Len(q), f) /\ Total(q) = f[Len(q)]
  <1> DEFINE g == CHOOSE f : Sums(q, Len(q), f)
  <1>1. \E f : Sums(q, Len(q), f)
    BY SumsExist
  <1>2. Sums(q, Len(q), g)
    BY <1>1
  <1>3. Total(q) = g[Len(q)]
    BY DEF Total, Sums
  <1> QED
    BY <1>2, <1>3

\* A total is a number.
LEMMA TotalType ==
  ASSUME NEW q \in Seq(Items)
  PROVE  Total(q) \in Nat
  <1>1. PICK f : Sums(q, Len(q), f) /\ Total(q) = f[Len(q)]
    BY TotalIs
  <1> QED
    BY <1>1, SumsStep

\* A sequence that grows by an item has its messages too.
LEMMA TotalAppend ==
  ASSUME NEW q \in Seq(Items), NEW e \in Items
  PROVE  Total(Append(q, e)) = Total(q) + Count(e)
  <1> DEFINE r == Append(q, e)
  <1>1. /\ r \in Seq(Items) /\ Len(r) = Len(q) + 1 /\ Len(q) \in Nat
        /\ r[Len(q) + 1] = e /\ \A i \in 1..Len(q) : r[i] = q[i]
    OBVIOUS
  <1> HIDE DEF r
  <1>2. PICK f : Sums(q, Len(q), f) /\ Total(q) = f[Len(q)]
    BY TotalIs
  <1>3. PICK g : Sums(r, Len(r), g) /\ Total(r) = g[Len(r)]
    BY <1>1, TotalIs
  <1>4. g[Len(q)] = f[Len(q)]
    BY <1>1, <1>2, <1>3, SumsAgree
  <1>5. g[Len(q) + 1] = g[Len(q)] + Count(r[Len(q) + 1])
    <2>1. \A i \in 1..Len(r) : g[i] = g[i - 1] + Count(r[i])
      BY <1>1, <1>3, SumsStep
    <2> QED
      BY <1>1, <2>1
  <1> QED
    BY <1>1, <1>2, <1>3, <1>4, <1>5 DEF r

\* A sequence that loses its first item loses its messages.
LEMMA TotalTail ==
  ASSUME NEW q \in Seq(Items), q # <<>>
  PROVE  Total(q) = Count(Head(q)) + Total(Tail(q))
  <1> DEFINE r == Tail(q)
  <1>1. /\ r \in Seq(Items) /\ Len(r) = Len(q) - 1 /\ Len(q) \in Nat \ {0}
        /\ Head(q) = q[1] /\ \A i \in 1..Len(r) : r[i] = q[i + 1]
    OBVIOUS
  <1> HIDE DEF r
  <1>2. PICK f : Sums(q, Len(q), f) /\ Total(q) = f[Len(q)]
    BY TotalIs
  <1>3. PICK g : Sums(r, Len(r), g) /\ Total(r) = g[Len(r)]
    BY <1>1, TotalIs
  <1>4. /\ f[0] = 0 /\ \A i \in 1..Len(q) : f[i] = f[i - 1] + Count(q[i])
        /\ \A i \in 0..Len(q) : f[i] \in Nat
    BY <1>2, SumsStep
  <1>5. /\ g[0] = 0 /\ \A i \in 1..Len(r) : g[i] = g[i - 1] + Count(r[i])
        /\ \A i \in 0..Len(r) : g[i] \in Nat
    BY <1>1, <1>3, SumsStep
  <1>6. Count(q[1]) \in Nat /\ f[1] = Count(q[1])
    BY <1>1, <1>4, CountType
  <1> DEFINE T == {i \in 0..Len(r) : f[i + 1] # Count(q[1]) + g[i]}
  <1>7. ASSUME T # {} PROVE FALSE
    <2>1. PICK x \in T : \A y \in T : x <= y
      <3>1. T \in SUBSET Nat
        OBVIOUS
      <3> HIDE DEF T
      <3> QED
        BY <1>7, <3>1, LeastNat
    <2>2. x \in 1..Len(r) /\ x - 1 \in 0..Len(r) /\ x - 1 \notin T
      BY <1>1, <1>5, <1>6, <2>1
    <2>3. f[x] = Count(q[1]) + g[x - 1]
      BY <1>1, <2>2
    <2>4. f[x + 1] = f[x] + Count(q[x + 1])
      BY <1>1, <1>4, <2>2
    <2>5. g[x] = g[x - 1] + Count(q[x + 1])
      BY <1>1, <1>5, <2>2
    <2>6. g[x - 1] \in Nat /\ Count(q[x + 1]) \in Nat
      <3>1. q[x + 1] \in Items
        BY <1>1, <2>2
      <3> QED
        BY <1>5, <2>2, <3>1, CountType
    <2>7. f[x + 1] = Count(q[1]) + g[x]
      BY <1>6, <2>3, <2>4, <2>5, <2>6
    <2> QED
      BY <2>1, <2>7
  <1>8. Len(r) \in 0..Len(r) /\ Len(r) + 1 = Len(q)
    BY <1>1
  <1>9. f[Len(r) + 1] = Count(q[1]) + g[Len(r)]
    BY <1>7, <1>8
  <1> QED
    BY <1>1, <1>2, <1>3, <1>8, <1>9 DEF r

-----------------------------------------------------------------------------
(* The ids of a sequence of entries *)

\* The ids of entry e after those in q
Joined(q, e) == q \o Numbered(e)

\* f holds the ids of the first 0 to n entries of q.
Flats(q, n, f) ==
  f = [i \in 0..n |-> IF i = 0 THEN <<>> ELSE Joined(f[i - 1], q[i])]

\* The ids of an entry, as BatchedMessageIterator numbers them
LEMMA NumberedType ==
  ASSUME NEW e \in Entries
  PROVE  Numbered(e) = IdsOf(e) /\ Numbered(e) \in Seq(Ids)
  BY IdsOfTypes DEF Numbered, IdsOf

\* Ids after ids, and after those
LEMMA JoinedType ==
  ASSUME NEW q \in Seq(Ids), NEW e \in Entries
  PROVE  Joined(q, e) \in Seq(Ids)
  BY NumberedType, ConcatType DEF Joined

\* It makes no difference which ids are put together first.
LEMMA JoinedAfter ==
  ASSUME NEW h \in Seq(Ids), NEW q \in Seq(Ids), NEW e \in Entries
  PROVE  Joined(h \o q, e) = h \o Joined(q, e)
  <1> DEFINE n == Numbered(e)
  <1>1. n \in Seq(Ids)
    BY NumberedType
  <1> HIDE DEF n
  <1>2. (h \o q) \o n = h \o (q \o n)
    BY <1>1, ConcatAssoc
  <1> QED
    BY <1>2 DEF Joined, n

\* The ids of the first entries are sequences, each the one before and an entry.
LEMMA FlatsStep ==
  ASSUME NEW q \in Seq(Entries), NEW n \in 0..Len(q), NEW f, Flats(q, n, f)
  PROVE  /\ f[0] = <<>>
         /\ \A i \in 1..n : f[i] = Joined(f[i - 1], q[i])
         /\ \A i \in 0..n : f[i] \in Seq(Ids)
  <1>1. \A i \in 0..n : f[i] = IF i = 0 THEN <<>> ELSE Joined(f[i - 1], q[i])
    BY Zenon DEF Flats
  <1>2. f[0] = <<>> /\ \A i \in 1..n : f[i] = Joined(f[i - 1], q[i])
    BY <1>1
  <1> DEFINE T == {i \in 0..n : f[i] \notin Seq(Ids)}
  <1>3. ASSUME T # {} PROVE FALSE
    <2>1. PICK x \in T : \A y \in T : x <= y
      <3>1. T \in SUBSET Nat
        OBVIOUS
      <3> HIDE DEF T
      <3> QED
        BY <1>3, <3>1, LeastNat
    <2>2. x \in 1..n /\ x - 1 \in 0..n /\ x - 1 \notin T
      <3>1. x # 0
        BY <1>2, <2>1, EmptyType
      <3> QED
        BY <2>1, <3>1
    <2>3. q[x] \in Entries
      BY <2>2
    <2>4. f[x - 1] \in Seq(Ids)
      BY <2>2
    <2>5. Joined(f[x - 1], q[x]) \in Seq(Ids)
      BY <2>3, <2>4, JoinedType
    <2> QED
      BY <1>2, <2>1, <2>2, <2>5
  <1> QED
    BY <1>2, <1>3

\* There are such sequences.
LEMMA FlatsExist ==
  ASSUME NEW q \in Seq(Entries), NEW n \in 0..Len(q)
  PROVE  \E f : Flats(q, n, f)
  <1> DEFINE T == {m \in 0..Len(q) : ~\E f : Flats(q, m, f)}
  <1>1. ASSUME T # {} PROVE FALSE
    <2>1. PICK x \in T : \A y \in T : x <= y
      <3>1. T \in SUBSET Nat
        OBVIOUS
      <3> HIDE DEF T
      <3> QED
        BY <1>1, <3>1, LeastNat
    <2>2. CASE x = 0
      <3> DEFINE g == [i \in 0..0 |-> <<>>]
      <3>1. Flats(q, 0, g)
        BY DEF Flats
      <3> QED
        BY <2>1, <2>2, <3>1
    <2>3. CASE x # 0
      <3>1. x \in 1..Len(q) /\ x - 1 \in 0..Len(q) /\ x - 1 \notin T
        BY <2>1, <2>3
      <3>2. PICK f : Flats(q, x - 1, f)
        BY <3>1
      <3>3. f[0] = <<>> /\ \A i \in 1..(x - 1) : f[i] = Joined(f[i - 1], q[i])
        BY <3>1, <3>2, FlatsStep
      <3> DEFINE g == [i \in 0..x |-> IF i = x THEN Joined(f[x - 1], q[x]) ELSE f[i]]
      <3>4. ASSUME NEW i \in 0..x
            PROVE  g[i] = IF i = 0 THEN <<>> ELSE Joined(g[i - 1], q[i])
        <4>1. CASE i = 0
          BY <3>1, <3>3, <4>1
        <4>2. CASE i = x
          BY <3>1, <4>2
        <4>3. CASE i # 0 /\ i # x
          <5>1. i \in 1..(x - 1) /\ i - 1 \in 0..x /\ i - 1 # x
            BY <3>1, <4>3
          <5>2. g[i] = f[i] /\ g[i - 1] = f[i - 1]
            BY <4>3, <5>1
          <5> QED
            BY <3>3, <4>3, <5>1, <5>2
        <4> QED
          BY <4>1, <4>2, <4>3
      <3>5. g = [i \in 0..x |-> g[i]]
        OBVIOUS
      <3> HIDE DEF g
      <3>6. g = [i \in 0..x |-> IF i = 0 THEN <<>> ELSE Joined(g[i - 1], q[i])]
        BY <3>4, <3>5, Zenon
      <3> QED
        BY <2>1, <3>6 DEF Flats
    <2> QED
      BY <2>2, <2>3
  <1> QED
    BY <1>1

\* Sequences that start with the same entries have the same ids there.
LEMMA FlatsAgree ==
  ASSUME NEW q \in Seq(Entries), NEW r \in Seq(Entries),
         NEW m \in 0..Len(q), NEW n \in 0..Len(r),
         NEW f, NEW g, Flats(q, m, f), Flats(r, n, g),
         NEW k \in Nat, k <= m, k <= n, \A i \in 1..k : q[i] = r[i]
  PROVE  f[k] = g[k]
  <1>1. f[0] = <<>> /\ \A i \in 1..m : f[i] = Joined(f[i - 1], q[i])
    BY FlatsStep
  <1>2. g[0] = <<>> /\ \A i \in 1..n : g[i] = Joined(g[i - 1], r[i])
    BY FlatsStep
  <1> DEFINE T == {i \in 0..k : f[i] # g[i]}
  <1>3. ASSUME T # {} PROVE FALSE
    <2>1. PICK x \in T : \A y \in T : x <= y
      <3>1. T \in SUBSET Nat
        OBVIOUS
      <3> HIDE DEF T
      <3> QED
        BY <1>3, <3>1, LeastNat
    <2>2. x \in 1..k /\ x - 1 \in 0..k /\ x - 1 \notin T
      BY <1>1, <1>2, <2>1
    <2>3. f[x - 1] = g[x - 1] /\ q[x] = r[x] /\ x \in 1..m /\ x \in 1..n
      BY <2>2
    <2> QED
      BY <1>1, <1>2, <2>1, <2>3
  <1> QED
    BY <1>3

\* The ids of all entries are the last of these sequences.
LEMMA FlatIs ==
  ASSUME NEW q \in Seq(Entries)
  PROVE  \E f : Flats(q, Len(q), f) /\ Flat(q) = f[Len(q)] /\ Flat(q) \in Seq(Ids)
  <1> DEFINE g == CHOOSE f : Flats(q, Len(q), f)
  <1>1. \E f : Flats(q, Len(q), f)
    BY FlatsExist
  <1>2. Flats(q, Len(q), g)
    BY <1>1
  <1>3. Flat(q) = g[Len(q)]
    BY DEF Flat, Flats, Joined
  <1> HIDE DEF g
  <1>4. g[Len(q)] \in Seq(Ids)
    BY <1>2, FlatsStep
  <1> QED
    BY <1>2, <1>3, <1>4

\* Without entries there are no ids.
LEMMA FlatEmpty == Flat(<<>>) = <<>>
  <1>1. <<>> \in Seq(Entries) /\ Len(<<>>) = 0
    OBVIOUS
  <1>2. PICK f : Flats(<<>>, 0, f) /\ Flat(<<>>) = f[0]
    BY <1>1, FlatIs
  <1>3. 0 \in 0..Len(<<>>)
    BY <1>1
  <1> QED
    BY <1>1, <1>2, <1>3, FlatsStep, ZenonT(10)

\* An entry more adds its ids at the end.
LEMMA FlatAppend ==
  ASSUME NEW q \in Seq(Entries), NEW e \in Entries
  PROVE  Flat(Append(q, e)) = Flat(q) \o Numbered(e)
  <1> DEFINE r == Append(q, e)
  <1>1. /\ r \in Seq(Entries) /\ Len(r) = Len(q) + 1 /\ Len(q) \in Nat
        /\ r[Len(q) + 1] = e /\ \A i \in 1..Len(q) : r[i] = q[i]
    OBVIOUS
  <1> HIDE DEF r
  <1>2. PICK f : Flats(q, Len(q), f) /\ Flat(q) = f[Len(q)]
    BY FlatIs
  <1>3. PICK g : Flats(r, Len(r), g) /\ Flat(r) = g[Len(r)]
    BY <1>1, FlatIs
  <1>4. g[Len(q)] = f[Len(q)]
    BY <1>1, <1>2, <1>3, FlatsAgree
  <1>5. g[Len(q) + 1] = Joined(g[Len(q)], r[Len(q) + 1])
    <2>0. Len(r) \in 0..Len(r)
      BY <1>1
    <2>1. \A i \in 1..Len(r) : g[i] = Joined(g[i - 1], r[i])
      BY <1>1, <1>3, <2>0, FlatsStep, ZenonT(10)
    <2>2. Len(q) + 1 \in 1..Len(r) /\ Len(q) + 1 - 1 = Len(q)
      BY <1>1
    <2> QED
      BY <2>1, <2>2
  <1> QED
    BY <1>1, <1>2, <1>3, <1>4, <1>5 DEF r, Joined

\* The ids of the first entry come first.
LEMMA FlatTail ==
  ASSUME NEW q \in Seq(Entries), q # <<>>
  PROVE  Flat(q) = Numbered(Head(q)) \o Flat(Tail(q))
  <1> DEFINE r == Tail(q)
             h == Numbered(q[1])
             After(a) == h \o a
  <1>1. /\ r \in Seq(Entries) /\ Len(r) = Len(q) - 1 /\ Len(q) \in Nat \ {0}
        /\ Head(q) = q[1] /\ \A i \in 1..Len(r) : r[i] = q[i + 1]
    OBVIOUS
  <1>0. h \in Seq(Ids) /\ <<>> \in Seq(Ids)
    BY <1>1, NumberedType, EmptyType
  <1> HIDE DEF r, h, After
  <1>2. PICK f : Flats(q, Len(q), f) /\ Flat(q) = f[Len(q)]
    BY FlatIs
  <1>3. PICK g : Flats(r, Len(r), g) /\ Flat(r) = g[Len(r)]
    BY <1>1, FlatIs
  <1>4. f[0] = <<>> /\ \A i \in 1..Len(q) : f[i] = Joined(f[i - 1], q[i])
    BY <1>2, FlatsStep
  <1>5. /\ g[0] = <<>> /\ \A i \in 1..Len(r) : g[i] = Joined(g[i - 1], r[i])
        /\ \A i \in 0..Len(r) : g[i] \in Seq(Ids)
    <2>1. Len(r) \in 0..Len(r)
      BY <1>1
    <2> QED
      BY <1>1, <1>3, <2>1, FlatsStep, ZenonT(10)
  <1>6. f[1] = After(g[0])
    <2>1. f[1] = Joined(<<>>, q[1])
      BY <1>1, <1>4
    <2>2. f[1] = <<>> \o h
      BY <2>1 DEF Joined, h
    <2> QED
      BY <1>0, <1>5, <2>2, ConcatType DEF After
  <1> DEFINE T == {i \in 0..Len(r) : f[i + 1] # After(g[i])}
  <1>7. ASSUME T # {} PROVE FALSE
    <2>1. PICK x \in T : \A y \in T : x <= y
      <3>1. T \in SUBSET Nat
        OBVIOUS
      <3> HIDE DEF T
      <3> QED
        BY <1>7, <3>1, LeastNat
    <2>2. x \in 1..Len(r) /\ x - 1 \in 0..Len(r) /\ x - 1 \notin T
      BY <1>1, <1>6, <2>1
    <2>3. f[x] = After(g[x - 1])
      BY <1>1, <2>2
    <2>4. f[x + 1] = Joined(f[x], q[x + 1])
      BY <1>1, <1>4, <2>2
    <2>5. g[x] = Joined(g[x - 1], q[x + 1])
      BY <1>1, <1>5, <2>2
    <2>6. g[x - 1] \in Seq(Ids) /\ Numbered(q[x + 1]) \in Seq(Ids)
      <3>1. q[x + 1] \in Entries
        BY <1>1, <2>2
      <3> QED
        BY <1>5, <2>2, <3>1, NumberedType
    <2>7. Joined(After(g[x - 1]), q[x + 1]) = After(Joined(g[x - 1], q[x + 1]))
      <3>1. q[x + 1] \in Entries
        BY <1>1, <2>2
      <3> QED
        BY <1>0, <2>6, <3>1, JoinedAfter DEF After
    <2>8. f[x + 1] = After(g[x])
      BY <2>3, <2>4, <2>5, <2>7
    <2> QED
      BY <2>1, <2>8
  <1>8. Len(r) \in 0..Len(r) /\ Len(r) + 1 = Len(q)
    BY <1>1
  <1>9. f[Len(r) + 1] = After(g[Len(r)])
    BY <1>7, <1>8
  <1> QED
    BY <1>1, <1>2, <1>3, <1>8, <1>9 DEF r, h, After

-----------------------------------------------------------------------------
(* The flow control and the order of the messages *)

\* Every step keeps the flow control exact.
LEMMA FlowStep ==
  ASSUME TypeOK, Served, OnFirst, FlowInv, [Next]_vars
  PROVE  FlowInv'
  <1> SUFFICES ASSUME Running', 1 \in subscribed', other' = 0
               PROVE  /\ remaining_messages' = permits'[1] + Total(stream'[1])
                      /\ remaining_messages' <= batch_size
    BY DEF FlowInv, InFlight
  <1>0. /\ Running /\ 1 \in subscribed
        /\ connection = 1 /\ held \in {1, None}
        /\ home[1] = 1 /\ channel[1] /\ conn[1] = "open"
        /\ ~Lookup /\ ~Subscribe
    BY FirstBefore
  <1>1. other = 0 /\ other' # other + 1
    BY OtherStep
  <1>2. /\ remaining_messages = permits[1] + Total(stream[1])
        /\ remaining_messages <= batch_size
    BY <1>0, <1>1 DEF FlowInv, InFlight
  <1>3. /\ remaining_messages \in Nat /\ permits[1] \in Nat /\ 1 \in Subs
        /\ batch_size \in Nat /\ stream[1] \in Seq(Items) /\ Total(stream[1]) \in Nat
    <2>1. remaining_messages \in Nat /\ permits[1] \in Nat /\ 1 \in Subs /\ batch_size \in Nat
      BY Numbers, EngineAssumption DEF TypeOK
    <2>2. stream[1] \in Seq(Items)
      BY <2>1 DEF TypeOK
    <2> QED
      BY <2>1, <2>2, TotalType
  <1>4. ASSUME UNCHANGED <<remaining_messages>>, permits'[1] = permits[1],
               stream'[1] = stream[1]
        PROVE  /\ remaining_messages' = permits'[1] + Total(stream'[1])
               /\ remaining_messages' <= batch_size
    BY <1>2, <1>4
  <1>5. CASE Refill
    <2>1. ~Refuses
      BY <1>0 DEF Refuses
    <2>2. CASE Grant(batch_size - remaining_messages) /\ remaining_messages' = batch_size
      <3>1. permits'[1] = permits[1] + (batch_size - remaining_messages)
        BY <1>0, <1>3, <2>2 DEF Grant
      <3>2. stream' = stream
        BY <1>5 DEF Refill
      <3> QED
        BY <1>2, <1>3, <2>2, <3>1, <3>2
    <2>3. CASE UNCHANGED <<remaining_messages, permits>>
      BY <1>4, <1>5, <2>3 DEF Refill
    <2> QED
      BY <1>5, <2>1, <2>2, <2>3 DEF Refill
  <1>6. CASE PollMessage
    <2>1. ~Ends("ended")
      BY DEF Ends, Running, Over
    <2>2. /\ remaining_messages' = Minus(remaining_messages, Count(Taken))
          /\ permits' = permits
      BY <1>6, <2>1 DEF PollMessage, Taken
    <2>3. held = 1 /\ stream[1] # <<>> /\ stream'[1] = Tail(stream[1]) /\ Taken \in Items
          /\ Taken = Head(stream[1])
      BY <1>0, <1>6, TakenType DEF Taken
    <2>4. Total(stream[1]) = Count(Taken) + Total(stream'[1])
      BY <1>3, <2>3, TotalTail
    <2>5. Count(Taken) \in Nat /\ Total(stream'[1]) \in Nat
      BY <1>3, <2>3, CountType, TotalType, PopType
    <2>6. Count(Taken) <= remaining_messages
      BY <1>2, <1>3, <2>4, <2>5
    <2>7. remaining_messages < 2^Width
      <3>1. batch_size < 2^Width /\ 2^Width \in Nat
        BY EngineAssumption
      <3> DEFINE w == 2^Width
      <3>2. batch_size < w /\ w \in Nat
        BY <3>1
      <3> HIDE DEF w
      <3>3. remaining_messages < w
        BY <1>2, <1>3, <3>2
      <3> QED
        BY <3>3 DEF w
    <2>8. remaining_messages' = remaining_messages - Count(Taken)
      BY <1>3, <2>2, <2>5, <2>6, <2>7, MinusType
    <2> QED
      BY <1>2, <1>3, <2>2, <2>4, <2>5, <2>8
  <1>7. CASE CheckConnection \/ Tick \/ PollEngineMessage \/ PublishDeadLetter \/ AckDeadLetter
    BY <1>4, <1>7 DEF CheckConnection, Tick, PollEngineMessage, PublishDeadLetter, AckDeadLetter
  <1>8. CASE Deliver \/ Report
    <2>1. UNCHANGED <<remaining_messages, permits, stream>>
      BY <1>8 DEF Deliver, Report, Ends
    <2> QED
      BY <1>4, <2>1
  <1>9. CASE PollDisconnected \/ PollClosed
    BY <1>9 DEF PollDisconnected, PollClosed, Ends, Running, Over
  <1>10. ASSUME NEW s \in Subs, Dispatch(s)
         PROVE  /\ remaining_messages' = permits'[1] + Total(stream'[1])
                /\ remaining_messages' <= batch_size
    <2>1. PICK e \in Entries : Dispatches(s, e)
      BY <1>10, DispatchCases
    <2>2. /\ Message(e) \in Items /\ Push(s, Message(e)) /\ Count(Message(e)) = Sizes[e]
          /\ Sizes[e] \in Nat
      BY <2>1, IdTypes DEF Dispatches, Message, Items, TypeOK, Count
    <2>3. remaining_messages' = remaining_messages
      BY <2>1 DEF Dispatches
    <2>4. CASE s # 1
      <3>1. stream'[1] = stream[1]
        BY <1>3, <2>2, <2>4, PushGrows
      <3>2. permits'[1] = permits[1]
        BY <1>3, <2>1, <2>4 DEF Dispatches, TypeOK
      <3> QED
        BY <1>4, <2>3, <3>1, <3>2
    <2>5. CASE s = 1
      <3>1. stream'[1] = Append(stream[1], Message(e))
        BY <1>0, <2>2, <2>5, PushGrows
      <3>2. permits'[1] = permits[1] - Sizes[e]
        BY <1>3, <2>1, <2>5 DEF Dispatches, TypeOK
      <3>3. Total(stream'[1]) = Total(stream[1]) + Sizes[e]
        BY <1>3, <2>2, <3>1, TotalAppend
      <3> QED
        BY <1>2, <1>3, <2>2, <2>3, <3>2, <3>3
    <2> QED
      BY <2>4, <2>5
  <1>11. ASSUME NEW s \in Subs, BrokerCloses(s)
         PROVE  /\ remaining_messages' = permits'[1] + Total(stream'[1])
                /\ remaining_messages' <= batch_size
    <2>1. s # 1 /\ UNCHANGED <<remaining_messages, permits>>
      BY <1>11 DEF BrokerCloses
    <2>2. Push(s, Command("close_consumer")) /\ Command("close_consumer") \in Items
      BY <1>11, ValueTypes DEF BrokerCloses, Commands
    <2>3. stream'[1] = stream[1]
      BY <1>3, <2>1, <2>2, PushGrows
    <2> QED
      BY <1>4, <2>1, <2>3
  <1>12. ASSUME NEW s \in Subs, BrokerPushes(s) PROVE FALSE
    BY <1>1, <1>12 DEF BrokerPushes
  <1>13. CASE \/ Application \/ Ticker \/ Connections \/ UNCHANGED vars
              \/ \E s \in Subs : CloseTask(s)
    <2>1. UNCHANGED <<remaining_messages, stream>>
      BY <1>13, OutsideStreams, OutsideEngine
    <2>2. UNCHANGED permits
      BY <1>13 DEF Application, Receive, Ask, DropConsumer, Settle, Ticker, vars, Connections,
           Breaks, HeartbeatFails, Released, OtherTakesError, CheckConnections, CloseTask
    <2> QED
      BY <1>4, <2>1, <2>2
  <1> QED
    BY <1>0, <1>5, <1>6, <1>7, <1>8, <1>9, <1>10, <1>11, <1>12, <1>13
    DEF Next, Engine, Broker

\* The next entry of the topic adds its ids.
LEMMA FirstNext ==
  ASSUME NEW n \in Nat, n + 1 \in Entries
  PROVE  /\ First(n) \in Seq(Entries)
         /\ Flat(First(n + 1)) = Flat(First(n)) \o Numbered(n + 1)
  <1>1. Entries = 1..Len(Sizes) /\ Len(Sizes) \in Nat
    BY EngineAssumption DEF Entries
  <1>2. /\ First(n) \in Seq(Entries) /\ Len(First(n)) = n
        /\ \A i \in 1..n : First(n)[i] = i
    BY <1>1 DEF First
  <1>3. /\ First(n + 1) \in Seq(Entries) /\ Len(First(n + 1)) = n + 1
        /\ \A i \in 1..(n + 1) : First(n + 1)[i] = i
    BY <1>1 DEF First
  <1> DEFINE c == Append(First(n), n + 1)
  <1>4. /\ c \in Seq(Entries) /\ Len(c) = n + 1 /\ c[n + 1] = n + 1
        /\ \A i \in 1..n : c[i] = First(n)[i]
    BY <1>2
  <1> HIDE DEF c
  <1>5. \A i \in 1..(n + 1) : First(n + 1)[i] = c[i]
    BY <1>2, <1>3, <1>4
  <1>6. First(n + 1) = c
    BY <1>3, <1>4, <1>5, SeqSame
  <1> QED
    BY <1>2, <1>6, FlatAppend DEF c

\* What was dispatched, in the places that it passes on its way
Line == received \o (tx \o (out \o Flat(EntriesOf(stream[1]))))

\* The parts of the line are sequences of what the application can be sent.
LEMMA LineType ==
  ASSUME TypeOK, StillFirst, OnlyMessages, Calm
  PROVE  /\ received \in Seq(Ids \cup {Failure}) /\ tx \in Seq(Ids \cup {Failure})
         /\ out \in Seq(Ids \cup {Failure})
         /\ Flat(EntriesOf(stream[1])) \in Seq(Ids \cup {Failure})
         /\ out \o Flat(EntriesOf(stream[1])) \in Seq(Ids \cup {Failure})
  <1> DEFINE V == Ids \cup {Failure}
             F == Flat(EntriesOf(stream[1]))
  <1>1. F \in Seq(Ids)
    BY CalmStream, FlatIs
  <1>2. received \in Seq(Ids) /\ tx \in Seq(V) /\ out \in Seq(Ids) /\ Ids \subseteq V
    BY DEF TypeOK
  <1> HIDE DEF V, F
  <1>3. received \in Seq(V) /\ out \in Seq(V) /\ F \in Seq(V)
    BY <1>1, <1>2, SeqMono
  <1>4. out \o F \in Seq(V)
    BY <1>3, ConcatType
  <1> QED
    BY <1>2, <1>3, <1>4 DEF V, F

\* Taking a message from the stream, delivering it and receiving it only moves
\* it along the line.
LEMMA LineMoves ==
  ASSUME TypeOK, Control, StillFirst, OnlyMessages, Calm
  PROVE  /\ (Deliver /\ ~dropped /\ UNCHANGED <<received, stream>>) => Line' = Line
         /\ (Receive /\ Head(tx) # Failure) => Line' = Line
         /\ (PollMessage /\ held = 1 /\ out' = IdsOf(Taken.entry)
              /\ UNCHANGED <<received, tx>>) => Line' = Line
  <1> DEFINE V == Ids \cup {Failure}
             F == Flat(EntriesOf(stream[1]))
  <1>0. /\ received \in Seq(V) /\ tx \in Seq(V) /\ out \in Seq(V) /\ F \in Seq(V)
        /\ out \o F \in Seq(V)
    BY LineType
  <1> HIDE DEF V
  <1>1. ASSUME Deliver, ~dropped, UNCHANGED <<received, stream>> PROVE Line' = Line
    <2>1. tx' = Append(tx, Head(out)) /\ out' = Tail(out) /\ out # <<>> /\ F' = F
      BY <1>1 DEF Deliver, Control
    <2> HIDE DEF F
    <2>2. tx' \o (out' \o F) = tx \o (out \o F)
      BY <1>0, <2>1, ConcatMoveBefore
    <2>3. tx' \o (out' \o F') = tx \o (out \o F)
      BY <2>1, <2>2
    <2> QED
      BY <1>1, <2>3 DEF Line, F
  <1>2. ASSUME Receive, Head(tx) # Failure PROVE Line' = Line
    <2>1. /\ received' = Append(received, Head(tx)) /\ tx' = Tail(tx) /\ tx # <<>>
          /\ out' = out /\ F' = F
      BY <1>2 DEF Receive
    <2> HIDE DEF F
    <2>2. received' \o (tx' \o (out \o F)) = received \o (tx \o (out \o F))
      BY <1>0, <2>1, ConcatMoveBefore
    <2>3. received' \o (tx' \o (out' \o F')) = received \o (tx \o (out \o F))
      BY <2>1, <2>2
    <2> QED
      BY <2>3 DEF Line, F
  <1>3. ASSUME PollMessage, held = 1, out' = IdsOf(Taken.entry), UNCHANGED <<received, tx>>
        PROVE  Line' = Line
    <2> DEFINE q == stream[1]
    <2>1. /\ q \in Seq(Items) /\ q # <<>> /\ stream'[1] = Tail(q) /\ Taken = Head(q)
          /\ EntriesOf(q) \in Seq(Entries)
      BY <1>3, TakenType, CalmStream DEF Taken
    <2>2. /\ EntriesOf(q) # <<>> /\ Head(EntriesOf(q)) = Taken.entry
          /\ EntriesOf(stream'[1]) = Tail(EntriesOf(q))
      BY <2>1, EntriesTail
    <2>3. Taken.entry \in Entries
      BY <2>1, <2>2, PopType
    <2>4. F = Numbered(Taken.entry) \o Flat(EntriesOf(stream'[1]))
      BY <2>1, <2>2, FlatTail
    <2>5. F = out' \o Flat(EntriesOf(stream'[1]))
      BY <1>3, <2>3, <2>4, NumberedType
    <2>6. out \o F = F
      <3>1. out = <<>>
        BY <1>3 DEF PollMessage, Control
      <3> HIDE DEF F
      <3> QED
        BY <1>0, <3>1, ConcatType
    <2>7. out' \o Flat(EntriesOf(stream'[1])) = out \o F
      BY <2>5, <2>6
    <2> QED
      BY <1>3, <2>7 DEF Line
  <1> QED
    BY <1>1, <1>2, <1>3

\* A message that is dispatched is added at the end of the line.
LEMMA LineGrows ==
  ASSUME TypeOK, Served, OnFirst, StillFirst, OnlyMessages, Calm,
         NEW s \in Subs, NEW e \in Entries, Dispatches(s, e)
  PROVE  Line' = Line \o Numbered(e)
  <1> DEFINE V == Ids \cup {Failure}
             F == Flat(EntriesOf(stream[1]))
             N == Numbered(e)
  <1>0. received \in Seq(V) /\ tx \in Seq(V) /\ out \in Seq(V) /\ F \in Seq(V)
    BY LineType
  <1>1. N \in Seq(V)
    BY NumberedType, SeqMono
  <1>2. s = 1 /\ channel[1]
    BY DEF Dispatches, Served, OnFirst, StillFirst, Calm
  <1>3. /\ Message(e) \in Items /\ Push(s, Message(e)) /\ Message(e).entry = e
        /\ UNCHANGED <<received, tx, out>>
    BY DEF Dispatches, Message, Items, TypeOK
  <1>4. stream'[1] = Append(stream[1], Message(e))
    BY <1>2, <1>3, PushGrows
  <1>5. stream[1] \in Seq(Items) /\ EntriesOf(stream[1]) \in Seq(Entries)
    BY CalmStream
  <1>6. EntriesOf(stream'[1]) = Append(EntriesOf(stream[1]), e)
    BY <1>3, <1>4, <1>5, EntriesAppend
  <1>7. Flat(EntriesOf(stream'[1])) = F \o N
    BY <1>5, <1>6, FlatAppend
  <1> HIDE DEF V, F, N
  <1>8. received \o (tx \o (out \o (F \o N))) = (received \o (tx \o (out \o F))) \o N
    <2> DEFINE G == out \o F
               H == tx \o G
    <2>1. G \in Seq(V)
      BY <1>0, ConcatType
    <2>2. G \o N = out \o (F \o N)
      BY <1>0, <1>1, ConcatAssoc
    <2> HIDE DEF G
    <2>3. H \in Seq(V)
      BY <1>0, <2>1, ConcatType
    <2>4. H \o N = tx \o (G \o N)
      BY <1>0, <1>1, <2>1, ConcatAssoc
    <2> HIDE DEF H
    <2>5. (received \o H) \o N = received \o (H \o N)
      BY <1>0, <1>1, <2>3, ConcatAssoc
    <2> QED
      BY <2>2, <2>4, <2>5, ZenonT(20) DEF G, H
  <1> QED
    BY <1>3, <1>7, <1>8 DEF Line, F, N

\* Every step keeps Ordered.
LEMMA OrderedStep ==
  ASSUME TypeOK, Control, Served, OnFirst, FromStart, StillFirst, OnlyMessages, Ordered,
         [Next]_vars
  PROVE  Ordered'
  <1> DEFINE InLine == \A n \in 0..Len(Sizes) : Sent(n) => Line = Flat(First(n))
  <1> SUFFICES ASSUME Calm', Bad = {}, DeadLetter # 0
               PROVE  /\ pc' \notin {"report", "dead_letter", "dead_ack"}
                      /\ Failure \notin Range(tx')
                      /\ InLine'
    BY DEF Ordered, Line
  <1>0. /\ Calm /\ Running' /\ signal = 1
        /\ \A s \in Subs : ~NewSubscription(s) /\ ~BrokerCloses(s) /\ ~BrokerPushes(s)
        /\ \A s \in Subs, e \in Entries : Dispatches(s, e) => dispatched[e] = 0
    BY CalmStep DEF Calm
  <1>1. pc \notin {"report", "dead_letter", "dead_ack"} /\ Failure \notin Range(tx) /\ InLine
    BY <1>0 DEF Ordered, Line
  <1>2. ~Ends("ended") /\ ~Ends("panicked") /\ ~dropped
    BY <1>0 DEF Ends, Running, Over, Calm
  <1>3. ASSUME Line' = Line, UNCHANGED dispatched PROVE InLine'
    BY <1>1, <1>3 DEF Sent
  <1>4. ASSUME UNCHANGED <<received, tx, out, stream, dispatched>>,
               pc' \notin {"report", "dead_letter", "dead_ack"}
        PROVE  /\ pc' \notin {"report", "dead_letter", "dead_ack"} /\ Failure \notin Range(tx')
               /\ InLine'
    <2>1. Line' = Line
      BY <1>4 DEF Line
    <2> QED
      BY <1>1, <1>3, <1>4, <2>1
  <1>5. CASE CheckConnection \/ Refill \/ Tick \/ PollEngineMessage
    <2>1. /\ UNCHANGED <<received, tx, out, stream, dispatched>>
          /\ pc' \notin {"report", "dead_letter", "dead_ack"}
      BY <1>5 DEF CheckConnection, Refill, Select, Tick, PollEngineMessage
    <2> QED
      BY <1>4, <2>1
  <1>6. CASE PollMessage
    <2>1. held = 1 /\ Taken \in Range(stream[1])
      BY <1>0, <1>6, TakenType DEF StillFirst, Calm
    <2>2. Taken.kind = "message" /\ Taken.entry \in Entries
      BY <1>0, <2>1, CalmStream
    <2>3. Process(Taken) /\ UNCHANGED <<received, tx, dispatched>>
      BY <1>2, <1>6 DEF PollMessage, Taken
    <2>4. ~IsDead(Taken)
      <3>1. Taken.redelivery_count < dispatched[Taken.entry]
        BY <2>1, <2>2, Numbers DEF FromStart
      <3>2. dispatched[Taken.entry] <= 1 /\ dispatched[Taken.entry] \in Nat
        BY <1>0, <2>2 DEF Calm, TypeOK
      <3>3. Taken.redelivery_count = 0
        BY <1>6, <3>1, <3>2, TakenType, ValueTypes
      <3>4. DeadLetter # NoPolicy => DeadLetter \in Nat /\ DeadLetter # 0
        BY EngineAssumption
      <3> QED
        BY <3>3, <3>4 DEF IsDead
    <2>5. pc' = "deliver" /\ out' = IdsOf(Taken.entry)
      BY <2>2, <2>3, <2>4 DEF Process
    <2>6. Line' = Line
      BY <1>0, <1>6, <2>1, <2>3, <2>5, LineMoves
    <2> QED
      BY <1>1, <1>3, <2>3, <2>5, <2>6
  <1>7. CASE PollDisconnected \/ PollClosed
    BY <1>2, <1>7 DEF PollDisconnected, PollClosed
  <1>8. CASE Deliver
    <2>1. /\ tx' = Append(tx, Head(out)) /\ pc' \in {"check", "deliver"} /\ out # <<>>
          /\ UNCHANGED <<received, stream, dispatched>>
      BY <1>2, <1>8 DEF Deliver, Control
    <2>2. Line' = Line
      BY <1>0, <1>2, <1>8, <2>1, LineMoves
    <2>3. Head(out) \in Ids /\ tx \in Seq(Ids \cup {Failure})
      BY <2>1, PopType DEF TypeOK
    <2>4. Range(tx') = Range(tx) \cup {Head(out)} /\ Head(out) # Failure
      BY <2>1, <2>3, RangeAppend, IdTypes
    <2> QED
      BY <1>1, <1>3, <2>1, <2>2, <2>4
  <1>9. CASE Report \/ PublishDeadLetter \/ AckDeadLetter
    BY <1>1, <1>9 DEF Report, PublishDeadLetter, AckDeadLetter
  <1>10. ~(Failed /\ pc \in {"reconnect", "subscribe"})
    BY <1>0, <1>2 DEF Failed, StillFirst, Calm
  <1>11. CASE Lookup
    <2>1. PICK k \in Conns : NewConnection(k)
      BY <1>10, <1>11, LookupCases
    <2>2. /\ UNCHANGED <<received, tx, out, stream, dispatched>>
          /\ pc' \notin {"report", "dead_letter", "dead_ack"}
      BY <2>1 DEF NewConnection
    <2> QED
      BY <1>4, <2>2
  <1>12. CASE Subscribe
    <2>1. pc = "subscribe"
      BY <1>12 DEF Subscribe
    <2> QED
      BY <1>0, <1>10, <1>12, <2>1, SubscribeCases
  <1>13. ASSUME NEW s \in Subs, Dispatch(s)
         PROVE  /\ pc' \notin {"report", "dead_letter", "dead_ack"} /\ Failure \notin Range(tx')
                /\ InLine'
    <2>1. PICK e \in Entries : Dispatches(s, e)
      BY <1>13, DispatchCases
    <2>2. PICK m \in 0..Len(Sizes) : Sent(m)
      BY DEF FromStart
    <2>3. e = m + 1 /\ Sent(m + 1)' /\ m \in Nat
      <3>1. dispatched[e] = 0 /\ ~(dispatched[e] > 0)
        BY <1>0, <2>1
      <3> QED
        BY <2>1, <2>2, <3>1, NextSent
    <2>4. Line' = Line \o Numbered(m + 1)
      BY <1>0, <2>1, <2>3, LineGrows
    <2>5. Line' = Flat(First(m + 1))
      BY <1>1, <2>2, <2>3, <2>4, FirstNext
    <2>6. ASSUME NEW n \in 0..Len(Sizes), Sent(n)' PROVE n = m + 1
      <3>1. 1..n = 1..(m + 1)
        BY <2>3, <2>6 DEF Sent
      <3> QED
        BY <2>3, <3>1
    <2>7. UNCHANGED <<pc, tx>>
      BY <2>1 DEF Dispatches
    <2> QED
      BY <1>1, <2>5, <2>6, <2>7
  <1>14. CASE Application
    <2>1. CASE Receive
      <3>1. tx \in Seq(Ids \cup {Failure}) /\ tx # <<>> /\ tx' = Tail(tx)
            /\ UNCHANGED <<pc, dispatched>>
        BY <2>1 DEF Receive, TypeOK
      <3>2. Range(tx) = Range(tx') \cup {Head(tx)}
        BY <3>1, RangeTail
      <3>3. Line' = Line
        BY <1>0, <1>1, <2>1, <3>2, LineMoves
      <3> QED
        BY <1>1, <1>3, <3>1, <3>2, <3>3
    <2>2. CASE DropConsumer
      BY <2>2 DEF DropConsumer, Calm
    <2>3. CASE Ask \/ \E id \in Range(received) : Settle(id)
      BY <1>1, <1>4, <2>3 DEF Ask, Settle
    <2> QED
      BY <1>14, <2>1, <2>2, <2>3 DEF Application
  <1>15. CASE Ticker \/ UNCHANGED vars \/ \E s \in Subs : CloseTask(s)
    BY <1>1, <1>4, <1>15 DEF Ticker, vars, CloseTask
  <1>16. CASE Connections
    <2>1. UNCHANGED <<received, tx, out, stream, dispatched, pc>>
      BY <1>16 DEF Connections, Breaks, HeartbeatFails, Released, OtherTakesError,
           CheckConnections
    <2> QED
      BY <1>1, <1>4, <2>1
  <1> QED
    BY <1>0, <1>5, <1>6, <1>7, <1>8, <1>9, <1>11, <1>12, <1>13, <1>14, <1>15, <1>16
    DEF Next, Engine, Broker

-----------------------------------------------------------------------------
(* The theorems *)

\* The first subscription starts with nothing dispatched and all permits left.
LEMMA InitStream == Init => StreamInv
  <1> SUFFICES ASSUME Init PROVE StreamInv
    OBVIOUS
  <1>2. /\ pc = "check" /\ connection = 1 /\ signal = 1
        /\ messages_rx = 1 /\ held = None /\ remaining_messages = batch_size
        /\ out = <<>> /\ tx = <<>> /\ received = <<>>
        /\ subscribed = {1} /\ backlog = Entries
    BY DEF Init
  <1>3. /\ \A s \in Subs : stream[s] = <<>> /\ home[s] = IF s = 1 THEN 1 ELSE None
        /\ \A e \in Entries : dispatched[e] = 0
        /\ permits[1] = batch_size /\ 1 \in Subs /\ channel[1]
    BY Numbers DEF Init
  <1>4. Range(tx) = {} /\ \A s \in Subs : Range(stream[s]) = {}
    BY <1>2, <1>3, RangeEmpty
  <1>5. OnFirst /\ OnlyMessages
    BY <1>2, <1>3, <1>4 DEF OnFirst, OnlyMessages
  <1>12. FlowInv
    <2>1. <<>> \in Seq(Items) /\ Len(<<>>) = 0
      OBVIOUS
    <2>2. PICK f : Sums(<<>>, 0, f) /\ Total(<<>>) = f[0]
      BY <2>1, TotalIs, ZenonT(10)
    <2>3. 0 \in 0..Len(<<>>)
      BY <2>1
    <2>4. Total(<<>>) = 0
      BY <2>1, <2>2, <2>3, SumsStep, ZenonT(10)
    <2> QED
      BY <1>2, <1>3, <2>4, EngineAssumption DEF FlowInv, InFlight
  <1>13. Sent(0) /\ \A n \in 0..Len(Sizes) : Sent(n) => n = 0
    <2>1. Len(Sizes) \in Nat
      BY EngineAssumption
    <2> QED
      BY <1>3, <2>1 DEF Sent
  <1>14. FromStart
    <2>1. 0 \in 0..Len(Sizes)
      BY EngineAssumption
    <2> QED
      BY <1>2, <1>4, <1>13, <2>1 DEF FromStart
  <1>15. StillFirst
    BY <1>2, <1>3, <1>4 DEF StillFirst
  <1>16. Ordered
    <2>1. EntriesOf(stream[1]) = <<>> /\ First(0) = <<>>
      BY <1>3 DEF EntriesOf, First
    <2>2. <<>> \o (<<>> \o (<<>> \o <<>>)) = <<>>
      OBVIOUS
    <2> QED
      BY <1>2, <1>4, <1>13, <2>1, <2>2, FlatEmpty DEF Ordered
  <1> QED
    BY <1>5, <1>12, <1>14, <1>15, <1>16 DEF StreamInv

\* Every step keeps StreamInv.
LEMMA StepStream == EngineInv /\ StreamInv /\ [Next]_vars => StreamInv'
  <1> SUFFICES ASSUME EngineInv, StreamInv, [Next]_vars PROVE StreamInv'
    OBVIOUS
  <1> USE DEF EngineInv, StreamInv
  <1>1. OnFirst' /\ OnlyMessages' /\ FlowInv'
    BY OnFirstStep, OnlyMessagesStep, FlowStep
  <1>2. FromStart' /\ StillFirst' /\ Ordered'
    BY FromStartStep, StillFirstStep, OrderedStep
  <1> QED
    BY <1>1, <1>2

\* StreamInv holds in every behaviour.
THEOREM StreamInvariance == Spec => []StreamInv
  BY InitStream, StepStream, Invariance, PTL DEF Spec

\* The flow control of the first subscription is exact, for any batch size and
\* any batches: send_flow asks for what process_message has counted.
THEOREM FlowControl == Spec => []FlowExact
  <1>1. StreamInv => FlowExact
    BY DEF StreamInv, FlowInv, FlowExact
  <1> QED
    BY <1>1, StreamInvariance, PTL

LOCAL C == INSTANCE FiniteSetTheorems

\* There are n numbers from 1 to n.
LEMMA CountFirst ==
  ASSUME NEW n \in Nat
  PROVE  Cardinality(1..n) = n
  <1>1. C!Cardinality(1..n) = n
    BY C!FS_Interval
  <1>2. C!Cardinality(1..n) = Cardinality(1..n)
    BY Zenon DEF Cardinality, C!Cardinality
  <1> QED
    BY <1>1, <1>2

\* A set of which there are 0 elements is empty.
LEMMA CountNone ==
  ASSUME NEW n \in Nat, NEW T \in SUBSET (1..n), Cardinality(T) = 0
  PROVE  T = {}
  <1>1. C!IsFiniteSet(1..n)
    BY C!FS_Interval
  <1>2. C!IsFiniteSet(T)
    BY <1>1, C!FS_Subset, Zenon
  <1>3. C!Cardinality(T) = Cardinality(T)
    BY Zenon DEF Cardinality, C!Cardinality
  <1> QED
    BY <1>2, <1>3, C!FS_EmptySet, Zenon

\* Without a dead letter policy, a message that the application was given and
\* has not acknowledged is tracked until the broker has it again.
THEOREM Remembers ==
  ASSUME DeadLetter = NoPolicy
  PROVE  Spec => []NotForgotten
  <1>1. ASSUME EngineInv, Delay, Running, Broken = 0, Orphans = {},
               NEW id \in Range(received) \cup Range(tx), id # Failure
        PROVE  \/ id \in acked \/ id \in unacked_messages \/ id[1] \in backlog
               \/ id \in Range(out)
               \/ \E s \in Reachable : \E item \in Range(stream[s]) : item.entry = id[1]
    <2> DEFINE B == {k \in Conns : conn[k] \notin {"none", "open"}}
    <2>1. B \in SUBSET (1..(MaxBreaks + 1)) /\ MaxBreaks + 1 \in Nat
      BY EngineAssumption DEF Conns
    <2>2. Cardinality(B) = 0
      BY <1>1 DEF Broken
    <2>3. B = {}
      <3> HIDE DEF B
      <3> QED
        BY <2>1, <2>2, CountNone
    <2>4. Works
      BY <1>1, <2>3 DEF Works, Orphans
    <2>5. signal \in Reachable
      BY <1>1, <2>4 DEF EngineInv, TypeOK, Control, Steady, Reachable, None
    <2> QED
      BY <1>1, <2>4, <2>5 DEF EngineInv, Tracked
  <1>2. EngineInv => NotForgotten
    BY <1>1 DEF NotForgotten
  <1> QED
    BY <1>2, Invariance, PTL

\* When every payload can be read and no message is diverted to a dead letter
\* topic, the application gets the messages of the topic in its order, each
\* batch in the order of its messages, until the engine reconnects.
THEOREM InTopicOrder ==
  ASSUME Bad = {}, DeadLetter # 0
  PROVE  Spec => []InOrder
  <1>1. ASSUME EngineInv, StreamInv, Calm
        PROVE  received \o tx \o out \o Flat(EntriesOf(stream[1]))
                 = Flat(First(Cardinality({e \in Entries : dispatched[e] > 0})))
    <2> DEFINE V == Ids \cup {Failure}
               t == Flat(EntriesOf(stream[1]))
               c == Cardinality({e \in Entries : dispatched[e] > 0})
    <2>1. PICK n \in 0..Len(Sizes) : Sent(n)
      BY <1>1 DEF StreamInv, FromStart
    <2>2. n \in Nat
      BY <2>1, EngineAssumption
    <2>3. c = n
      <3>1. c = Cardinality(1..n)
        BY <2>1 DEF Sent
      <3> QED
        BY <3>1, <2>2, CountFirst
    <2>4. received \o (tx \o (out \o t)) = Flat(First(n))
      BY <1>1, <2>1 DEF StreamInv, Ordered
    <2>5. /\ received \in Seq(V) /\ tx \in Seq(V) /\ out \in Seq(V)
          /\ t \in Seq(V) /\ out \o t \in Seq(V)
      BY <1>1, LineType DEF EngineInv, StreamInv
    <2> HIDE DEF V, t, c
    <2>6. ((received \o tx) \o out) \o t = received \o (tx \o (out \o t))
      <3>1. FromLeft(received, tx, out, t) = FromRight(received, tx, out, t)
        BY <2>5, ConcatAssocFour, ZenonT(60)
      <3> QED
        BY <3>1, ZenonT(60) DEF FromLeft, FromRight
    <2>7. ((received \o tx) \o out) \o t = Flat(First(c))
      BY <2>3, <2>4, <2>6
    <2> QED
      BY <2>7 DEF t, c
  <1>2. EngineInv /\ StreamInv => InOrder
    BY <1>1 DEF InOrder, Calm, EntriesOf, First
  <1> QED
    BY <1>2, Invariance, StreamInvariance, PTL
=============================================================================
