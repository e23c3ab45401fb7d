------------------------ MODULE ConsumerEngineProofs ------------------------
(***************************************************************************)
(* Proofs about ConsumerEngine, for any topic, any batch size and any      *)
(* number of connections, dispatches and commands.                         *)
(***************************************************************************)
EXTENDS ConsumerEngine, SequenceLemmas

USE ZenonT(8), SMTT(60) DEF engine, app, conns, subs, broker

-----------------------------------------------------------------------------
(* The inductive invariant *)

\* A running engine has a stream, what it still has to send is what it is
\* sending, and it reconnects for permits only while it is short of them.
Control ==
  /\ Running => messages_rx # None \/ held # None
  /\ out # <<>> <=> pc \in {"deliver", "dead_letter", "dead_ack"}
  /\ pc \in {"reconnect", "subscribe"} /\ caller = "flow"
       => remaining_messages <= batch_size
  /\ DeadLetter = NoPolicy => pc \notin {"dead_letter", "dead_ack"}

\* The message that the engine is about to acknowledge is published.
Published == pc = "dead_ack" => Head(out)[1] \in dead

\* The broker serves subscriptions on open connections only; an error is set on
\* connections that have failed; the task of a subscription waits as long as the
\* engine runs.
Served ==
  /\ \A s \in subscribed : home[s] # None /\ conn[home[s]] = "open"
  /\ \A k \in Conns : error_set[k] => conn[k] \notin {"none", "open"}
  /\ conn[connection] # "none"
  /\ pool # None => conn[pool] # "none"
  /\ \A s \in Subs : home[s] # None => conn[home[s]] # "none"
  /\ home[1] = 1 /\ home[signal] # None
  /\ Running => /\ \A s \in Subs : task[s] \notin {"closing", "closed"}
                /\ task[signal] # "none"

\* A task is spawned for a subscription.
Awaited == \A s \in Subs : home[s] = None => task[s] = "none"

\* The application has been given an error, or will be.
Told == errors \/ Failure \in Range(tx)

\* The engine is on the connection of its subscription, whose Receiver holds the
\* sender of the stream while the broker serves it, or the application has been
\* told that a reconnection failed.
Attached ==
  (Running /\ ~dropped /\ pc \notin {"reconnect", "subscribe", "report"})
    => \/ home[signal] = connection /\ (signal \in subscribed => channel[signal])
       \/ Told

\* A subscription starts with an empty stream, and the broker serves none whose
\* stream holds its CloseConsumer.
Notices ==
  /\ \A s \in Subs : home[s] = None => stream[s] = <<>>
  /\ \A s \in subscribed : \A item \in Range(stream[s]) : item.kind # "close_consumer"

\* No connection has failed, and no subscription is left that nobody reads.
Works ==
  /\ \A k \in Conns : conn[k] \in {"none", "open"}
  /\ \A s \in Subs : home[s] # None => task[s] # "none"

\* While that is so, the engine is on the first connection, reads the
\* stream of its subscription, and reconnects only for a CloseConsumer, after
\* which the broker has every entry that is not acknowledged.
Steady ==
  Works /\ Running =>
    /\ pool = 1 /\ connection = 1
    /\ \A s \in Subs : home[s] \in {None, 1}
    /\ subscribed \subseteq {signal}
    /\ \A s \in subscribed : channel[s]
    /\ {messages_rx, held} \subseteq {signal, None}
    /\ pc \in {"reconnect", "subscribe"} =>
         caller = "close" /\ held = None /\ signal \notin subscribed
    /\ signal \notin subscribed => Unsettled \subseteq backlog

\* A message of entry e is on its way to the engine.
InStream(e) ==
  \E s \in Subs : \E item \in Range(stream[s]) :
    item.kind = "message" /\ item.entry = e

\* What is on its way to the application, or reached it, was dispatched.
Dispatched ==
  /\ \A e \in Entries : InStream(e) => dispatched[e] > 0
  /\ \A id \in Range(out) \cup (Range(tx) \ {Failure}) \cup Range(received) :
       dispatched[id[1]] > 0 /\ id[1] \notin Bad

\* A message of a working engine is tracked.
Tracked ==
  (Delay /\ DeadLetter = NoPolicy /\ Works /\ Running) =>
    \A id \in Range(received) \cup (Range(tx) \ {Failure}) :
      \/ id \in acked \/ id \in unacked_messages \/ id[1] \in backlog
      \/ id \in Range(out)
      \/ \E item \in Range(stream[signal]) :
           item.kind = "message" /\ item.entry = id[1]

\* A message m that the application may send: the application acknowledges what
\* it has received.
Sendable(m) ==
  m.type = "Ack" =>
    /\ m.id \in Range(received)
    /\ AppActs \cap {"ack", "cumulative"} # {}
    /\ m.cumulative => "cumulative" \in AppActs

Mail == \A m \in Range(engine_rx) : Sendable(m)

\* The application was sent the message.
Given(id) == id \in Range(tx) \cup Range(received)

\* Of an entry that was dispatched once there is one copy: in a stream, in the
\* engine, or with the application.
Alone ==
  \A s, t \in Subs : \A i \in 1..Len(stream[s]), j \in 1..Len(stream[t]) :
    (/\ stream[s][i].kind = "message" /\ stream[t][j].kind = "message"
     /\ stream[s][i].entry = stream[t][j].entry
     /\ dispatched[stream[s][i].entry] = 1)
      => s = t /\ i = j

OneCopy ==
  /\ Alone
  /\ \A i, j \in 1..Len(out) : out[i] = out[j] => i = j
  /\ \A id \in Ids : dispatched[id[1]] = 1 =>
       /\ InStream(id[1]) => id \notin Range(out) /\ ~Given(id)
       /\ id \in Range(out) => ~Given(id)
       /\ id \in acked => /\ ~InStream(id[1]) /\ id \notin Range(out)
                          /\ id \notin unacked_messages
  /\ \A id \in acked : dispatched[id[1]] > 0

\* Unless the application acknowledges more than one message at a time
AckInv == "cumulative" \notin AppActs => OneCopy

-----------------------------------------------------------------------------
(* Values *)

\* The connections and the subscriptions are numbered from 1.
LEMMA Numbers ==
  /\ 1 \in Conns /\ 1 \in Subs
  /\ None \notin Conns /\ None \notin Subs
  /\ Conns \subseteq Nat /\ Subs \subseteq Nat /\ Entries \subseteq Nat
  <1>1. MaxBreaks \in Nat /\ MaxCloses \in Nat /\ Len(Sizes) \in Nat
    BY EngineAssumption
  <1> QED
    BY <1>1 DEF Conns, Subs, Entries, None

\* An id names an entry and a message of it.
LEMMA IdTypes ==
  /\ \A id \in Ids : id[1] \in Entries /\ id[2] \in 1..Sizes[id[1]] /\ id = <<id[1], id[2]>>
  /\ \A e \in Entries : \A i \in 1..Sizes[e] : <<e, i>> \in Ids
  /\ \A e \in Entries : Sizes[e] \in Nat \ {0}
  /\ Failure \notin Ids
  <1>1. /\ \A id \in Ids : id[1] \in Entries /\ id[2] \in 1..Sizes[id[1]] /\ id = <<id[1], id[2]>>
        /\ \A e \in Entries : \A i \in 1..Sizes[e] : <<e, i>> \in Ids
    BY DEF Ids
  <1>2. \A e \in Entries : Sizes[e] \in Nat \ {0}
    BY EngineAssumption DEF Entries
  <1>3. Failure[1] = 0 /\ 0 \notin Entries
    BY EngineAssumption DEF Failure, None, Entries
  <1> QED
    BY <1>1, <1>2, <1>3

\* The ids of an entry are those of its messages, each once, and there are some.
LEMMA IdsOfTypes ==
  ASSUME NEW e \in Entries
  PROVE  /\ IdsOf(e) \in Seq(Ids) /\ IdsOf(e) # <<>>
         /\ Len(IdsOf(e)) = Sizes[e]
         /\ Range(IdsOf(e)) = {id \in Ids : id[1] = e}
         /\ \A i, j \in 1..Len(IdsOf(e)) : IdsOf(e)[i] = IdsOf(e)[j] => i = j
  <1>1. Sizes[e] \in Nat \ {0} /\ \A i \in 1..Sizes[e] : <<e, i>> \in Ids
    BY IdTypes
  <1>2. IdsOf(e) \in Seq(Ids) /\ Len(IdsOf(e)) = Sizes[e]
    BY <1>1 DEF IdsOf
  <1>3. IdsOf(e) # <<>>
    BY <1>1, <1>2
  <1>4. Range(IdsOf(e)) = {<<e, i>> : i \in 1..Sizes[e]}
    BY DEF IdsOf, Range
  <1>5. {<<e, i>> : i \in 1..Sizes[e]} = {id \in Ids : id[1] = e}
    BY <1>1, IdTypes
  <1>6. \A i, j \in 1..Len(IdsOf(e)) : IdsOf(e)[i] = IdsOf(e)[j] => i = j
    BY <1>2 DEF IdsOf
  <1> QED
    BY <1>2, <1>3, <1>4, <1>5, <1>6

\* Messages of the application and items of a stream have their types.
LEMMA ValueTypes ==
  /\ \A id \in Ids, c \in BOOLEAN : /\ EngineMessage("Ack", id, c) \in EngineMessages
                                    /\ EngineMessage("Nack", id, c) \in EngineMessages
  /\ EngineMessage("GetConnection", <<>>, FALSE) \in EngineMessages
  /\ EngineMessage("UnackedRedelivery", <<>>, FALSE) \in EngineMessages
  /\ \A kind \in Commands : Command(kind) \in Items
  /\ \A m \in EngineMessages : m.type \in {"Ack", "Nack"} => m.id \in Ids
  /\ \A item \in Items : /\ item.kind = "message" => item.entry \in Entries
                         /\ item.kind \in Commands \cup {"message"}
                         /\ item.kind # "message" => item = Command(item.kind)
                         /\ item.redelivery_count \in Nat
  <1>1. /\ \A id \in Ids, c \in BOOLEAN : /\ EngineMessage("Ack", id, c) \in EngineMessages
                                          /\ EngineMessage("Nack", id, c) \in EngineMessages
        /\ EngineMessage("GetConnection", <<>>, FALSE) \in EngineMessages
        /\ EngineMessage("UnackedRedelivery", <<>>, FALSE) \in EngineMessages
    BY DEF EngineMessage, EngineMessages
  <1>2. \A m \in EngineMessages : m.type \in {"Ack", "Nack"} => m.id \in Ids
    BY DEF EngineMessages
  <1>3. \A kind \in Commands : Command(kind) \in Items
    BY DEF Items
  <1>4. ASSUME NEW item \in Items
        PROVE  /\ item.kind = "message" => item.entry \in Entries
               /\ item.kind \in Commands \cup {"message"}
               /\ item.kind # "message" => item = Command(item.kind)
               /\ item.redelivery_count \in Nat
    <2>1. CASE item \in [kind : {"message"}, entry : Entries, redelivery_count : Nat]
      BY <2>1
    <2>2. ASSUME NEW kind \in Commands, item = Command(kind)
          PROVE  /\ item.kind = kind /\ item.redelivery_count = 0
                 /\ kind # "message"
      BY <2>2 DEF Command, Commands
    <2> QED
      BY <2>1, <2>2 DEF Items
  <1> QED
    BY <1>1, <1>2, <1>3, <1>4

\* The subtraction of the counter gives a u32.
LEMMA MinusType ==
  ASSUME NEW m \in Nat, NEW n \in Nat
  PROVE  /\ Minus(m, n) \in 0..(2^Width - 1)
         /\ n <= m /\ m < 2^Width => Minus(m, n) = m - n
  <1> DEFINE w == 2^Width
  <1>1. w \in Nat \ {0}
    BY EngineAssumption
  <1> HIDE DEF w
  <1>2. (m - n) % w \in 0..(w - 1)
    BY <1>1
  <1>3. n <= m /\ m < w => (m - n) % w = m - n
    BY <1>1
  <1> QED
    BY <1>2, <1>3 DEF Minus, w

\* An item counts at least one message.
LEMMA CountType == \A item \in Items : Count(item) \in Nat \ {0}
  BY ValueTypes, IdTypes DEF Count

-----------------------------------------------------------------------------
(* Type correctness *)

\* TopicConsumer::new builds a well typed engine.
LEMMA InitType == Init => TypeOK
  <1> SUFFICES ASSUME Init PROVE TypeOK
    OBVIOUS
  <1>1. errors \in BOOLEAN /\ asking \in BOOLEAN /\ dropped \in BOOLEAN
    BY DEF Init
  <1>2. stream \in [Subs -> Seq(Items)] /\ channel \in [Subs -> BOOLEAN]
    BY DEF Init
  <1>3. /\ remaining_messages \in 0..(2^Width - 1) /\ permits \in [Subs -> Nat]
        /\ Len(tx) <= Capacity
        /\ closes \in 0..MaxCloses /\ other \in 0..MaxOther
    BY EngineAssumption DEF Init
  <1>4. dispatched \in [Entries -> Nat] /\ backlog \subseteq Entries
    BY DEF Init
  <1>5. conn \in [Conns -> {"none", "open", "silent", "failed", "ended"}]
        /\ error_set \in [Conns -> BOOLEAN]
    BY DEF Init
  <1>6. /\ home \in [Subs -> Conns \cup {None}]
        /\ task \in [Subs -> {"none", "armed", "stopped", "closing", "closed"}]
    BY Numbers DEF Init
  <1>7. /\ out \in Seq(Ids) /\ tx \in Seq(Ids \cup {Failure})
        /\ engine_rx \in Seq(EngineMessages) /\ received \in Seq(Ids)
    BY EmptyType DEF Init
  <1>8. /\ pc = "check" /\ caller = "check" /\ connection \in Conns
        /\ messages_rx \in Subs /\ held = None /\ signal \in Subs /\ pool \in Conns
        /\ subscribed \subseteq Subs
        /\ unacked_messages = {} /\ dead = {} /\ acked = {}
    BY Numbers DEF Init
  <1> QED
    BY <1>1, <1>2, <1>3, <1>4, <1>5, <1>6, <1>7, <1>8 DEF TypeOK

\* The end of the engine keeps the types.
LEMMA EndsType ==
  ASSUME TypeOK, NEW how \in Over, Ends(how)
  PROVE  /\ pc' \in Over /\ caller' = caller /\ connection' = connection
         /\ messages_rx' = None /\ held' = None /\ signal' = signal
         /\ remaining_messages' = remaining_messages
         /\ unacked_messages' = unacked_messages
         /\ out' = <<>> /\ out' \in Seq(Ids)
         /\ engine_rx' = <<>> /\ engine_rx' \in Seq(EngineMessages)
         /\ asking' = FALSE /\ asking' \in BOOLEAN
         /\ task' \in [Subs -> {"none", "armed", "stopped", "closing", "closed"}]
  <1>1. task' \in [Subs -> {"none", "armed", "stopped", "closing", "closed"}]
    BY DEF Ends, TypeOK
  <1> QED
    BY <1>1, EmptyType DEF Ends

\* The top of the engine's loop keeps the types.
LEMMA LoopType ==
  ASSUME TypeOK, Control, CheckConnection \/ Refill \/ Tick
  PROVE  TypeOK'
  <1>1. CASE CheckConnection
    <2>1. error_set' \in [Conns -> BOOLEAN]
      BY <1>1 DEF CheckConnection, TakeError, TypeOK
    <2>2. caller' \in {"check", "flow", "close"} /\ pc' \in {"reconnect", "flow"}
      BY <1>1 DEF CheckConnection, TypeOK
    <2> QED
      BY <1>1, <2>1, <2>2 DEF CheckConnection, TypeOK
  <1>2. CASE Refill
    <2>1. permits' \in [Subs -> Nat] /\ remaining_messages' \in 0..(2^Width - 1)
      <3>1. CASE UNCHANGED <<remaining_messages, permits>>
        BY <3>1 DEF TypeOK
      <3>2. CASE NeedsPermits /\ Grant(batch_size - remaining_messages)
                 /\ remaining_messages' = batch_size
        <4>1. batch_size - remaining_messages \in Nat
          <5>1. remaining_messages < batch_size \div 2 /\ remaining_messages \in 0..(2^Width - 1)
            BY <3>2 DEF NeedsPermits, TypeOK
          <5>2. remaining_messages \in Nat
            BY <5>1, EngineAssumption
          <5> QED
            BY <5>1, <5>2, EngineAssumption
        <4>2. permits' \in [Subs -> Nat]
          BY <3>2, <4>1 DEF Grant, TypeOK
        <4>3. batch_size \in 0..(2^Width - 1)
          BY EngineAssumption
        <4> QED
          BY <3>2, <4>2, <4>3
      <3> QED
        BY <1>2, <3>1, <3>2 DEF Refill
    <2>2. /\ messages_rx' \in Subs \cup {None} /\ held' \in Subs \cup {None}
          /\ caller' \in {"check", "flow", "close"} /\ pc' \in {"reconnect", "select"}
      BY <1>2 DEF Refill, Select, TypeOK
    <2>3. pc' = "select" => held' # None
      <3>1. messages_rx # None \/ held # None
        BY <1>2 DEF Refill, Control, Running, Over
      <3> QED
        BY <1>2, <3>1 DEF Refill, Select
    <2> QED
      BY <1>2, <2>1, <2>2, <2>3 DEF Refill, TypeOK
  <1>3. CASE Tick
    BY <1>3 DEF Tick, TypeOK
  <1> QED
    BY <1>1, <1>2, <1>3

\* What Process makes of an item has its type.
LEMMA ProcessType ==
  ASSUME TypeOK, NEW item \in Items, Process(item)
  PROVE  /\ pc' \in {"reconnect", "check", "report", "dead_letter", "deliver"}
         /\ caller' \in {"check", "flow", "close"}
         /\ out' \in Seq(Ids)
  <1>1. CASE item.kind = "message" /\ item.entry \notin Bad /\ out' = IdsOf(item.entry)
    <2>1. out' \in Seq(Ids)
      BY <1>1, ValueTypes, IdsOfTypes
    <2> QED
      BY <1>1, <2>1 DEF Process, TypeOK
  <1>2. CASE out' = out
    BY <1>2 DEF Process, TypeOK
  <1> QED
    BY <1>1, <1>2 DEF Process

\* What the engine does with a message of the stream keeps the types.
LEMMA MessageType ==
  ASSUME TypeOK, PollMessage
  PROVE  TypeOK'
  <1> DEFINE item == Head(stream[held])
  <1>1. held \in Subs /\ stream[held] \in Seq(Items) /\ stream[held] # <<>>
    BY DEF PollMessage, TypeOK
  <1>2. item \in Items /\ Tail(stream[held]) \in Seq(Items)
    BY <1>1, PopType
  <1>3. stream' \in [Subs -> Seq(Items)]
    BY <1>2 DEF PollMessage, TypeOK
  <1>4. CASE Ends("ended")
    <2>1. "ended" \in Over
      BY DEF Over
    <2>2. /\ pc' \in Over /\ caller' = caller /\ connection' = connection
          /\ messages_rx' = None /\ held' = None /\ signal' = signal
          /\ remaining_messages' = remaining_messages
          /\ unacked_messages' = unacked_messages
          /\ out' \in Seq(Ids) /\ engine_rx' \in Seq(EngineMessages)
          /\ asking' \in BOOLEAN
          /\ task' \in [Subs -> {"none", "armed", "stopped", "closing", "closed"}]
      BY <1>4, <2>1, EndsType
    <2> QED
      BY <1>3, <2>2 DEF PollMessage, TypeOK, Over
  <1>5. CASE /\ remaining_messages' = Minus(remaining_messages, Count(item))
             /\ PutBack
             /\ Process(item)
             /\ UNCHANGED <<connection, unacked_messages, signal, engine_rx,
                            asking, task>>
    <2>1. remaining_messages' \in 0..(2^Width - 1)
      <3>1. remaining_messages \in Nat /\ Count(item) \in Nat
        BY <1>2, CountType, EngineAssumption DEF TypeOK
      <3> QED
        BY <1>5, <3>1, MinusType
    <2>2. /\ pc' \in {"reconnect", "check", "report", "dead_letter", "deliver"}
          /\ caller' \in {"check", "flow", "close"}
          /\ out' \in Seq(Ids)
      BY <1>2, <1>5, ProcessType
    <2>3. messages_rx' \in Subs \cup {None} /\ held' \in Subs \cup {None}
      BY <1>5 DEF PutBack, TypeOK
    <2> QED
      BY <1>3, <1>5, <2>1, <2>2, <2>3 DEF PollMessage, TypeOK
  <1> QED
    BY <1>4, <1>5 DEF PollMessage

\* What the engine sends to the application has its type.
LEMMA SendsType ==
  ASSUME TypeOK, Control, NEW e \in Ids \cup {Failure},
         Len(tx) < Capacity, tx' = Append(tx, e)
  PROVE  tx' \in Seq(Ids \cup {Failure}) /\ Len(tx') <= Capacity
  <1>1. tx \in Seq(Ids \cup {Failure})
    BY DEF TypeOK
  <1>2. tx' \in Seq(Ids \cup {Failure}) /\ Len(tx') = Len(tx) + 1 /\ Len(tx) \in Nat
    BY <1>1
  <1> QED
    BY <1>2, EngineAssumption

\* So do the messages that the engine handles.
LEMMA HandleType ==
  ASSUME TypeOK, NEW m \in EngineMessages, Handle(m)
  PROVE  /\ unacked_messages' \subseteq Ids /\ acked' \subseteq Ids
         /\ backlog' \subseteq Entries /\ asking' \in BOOLEAN
  <1>1. CASE m.type = "Ack" /\ Ack(m.id, m.cumulative) /\ UNCHANGED <<backlog, asking>>
    <2>1. m.id \in Ids /\ UpTo(m.id) \subseteq Ids
      BY <1>1, ValueTypes DEF UpTo
    <2> QED
      BY <1>1, <2>1 DEF Ack, Acknowledge, TypeOK
  <1>2. CASE m.type = "Nack" /\ Redeliver({m.id})
             /\ UNCHANGED <<unacked_messages, acked, asking>>
    <2>1. m.id \in Ids /\ m.id[1] \in Entries
      BY <1>2, ValueTypes, IdTypes
    <2> QED
      BY <1>2, <2>1 DEF Redeliver, TypeOK
  <1>3. ASSUME NEW expired \in SUBSET unacked_messages,
               Redeliver(expired), unacked_messages' = unacked_messages \ expired,
               UNCHANGED <<acked, asking>>
        PROVE  /\ unacked_messages' \subseteq Ids /\ acked' \subseteq Ids
               /\ backlog' \subseteq Entries /\ asking' \in BOOLEAN
    <2>1. \A id \in expired : id[1] \in Entries
      BY IdTypes DEF TypeOK
    <2> QED
      BY <1>3, <2>1 DEF Redeliver, TypeOK
  <1>4. CASE UNCHANGED <<unacked_messages, backlog, acked>> /\ asking' \in BOOLEAN
    BY <1>4 DEF TypeOK
  <1>5. asking \in BOOLEAN
    BY DEF TypeOK
  <1> QED
    BY <1>1, <1>2, <1>3, <1>4, <1>5 DEF Handle

\* A step that ends the engine and changes nothing else keeps the types.
LEMMA OverType ==
  ASSUME TypeOK, NEW how \in Over, Ends(how),
         UNCHANGED <<tx, received, errors, dropped, conns, home, stream, channel>>,
         UNCHANGED <<subscribed, permits, backlog, dispatched, acked, dead, closes, other>>
  PROVE  TypeOK'
  <1>1. /\ pc' \in Over /\ caller' = caller /\ connection' = connection
        /\ messages_rx' = None /\ held' = None /\ signal' = signal
        /\ remaining_messages' = remaining_messages
        /\ unacked_messages' = unacked_messages
        /\ out' \in Seq(Ids) /\ engine_rx' \in Seq(EngineMessages)
        /\ asking' \in BOOLEAN
        /\ task' \in [Subs -> {"none", "armed", "stopped", "closing", "closed"}]
    BY EndsType
  <1> QED
    BY <1>1 DEF TypeOK, Over

\* The engine's other steps keep the types.
LEMMA PollType ==
  ASSUME TypeOK, Control,
         \/ PollDisconnected \/ Deliver \/ Report \/ PublishDeadLetter
         \/ AckDeadLetter \/ PollEngineMessage \/ PollClosed
  PROVE  TypeOK'
  <1> USE DEF Over
  <1>1. CASE PollDisconnected \/ PollClosed
    BY <1>1, OverType DEF PollDisconnected, PollClosed
  <1>2. CASE Deliver
    <2>1. CASE Ends("ended") /\ UNCHANGED tx
      BY <1>2, <2>1, OverType DEF Deliver
    <2>2. CASE ~dropped
      <3>1. out \in Seq(Ids) /\ out # <<>>
        BY <1>2 DEF Deliver, Control, TypeOK
      <3>2. Head(out) \in Ids /\ Tail(out) \in Seq(Ids)
        BY <3>1, PopType
      <3>3. tx' \in Seq(Ids \cup {Failure}) /\ Len(tx') <= Capacity
        BY <1>2, <2>2, <3>2, SendsType DEF Deliver, Ends
      <3>4. unacked_messages' \subseteq Ids
        BY <1>2, <2>2, <3>2 DEF Deliver, Track, TypeOK
      <3>5. pc' \in {"check", "deliver"} /\ out' \in Seq(Ids)
        BY <1>2, <2>2, <3>2 DEF Deliver
      <3> QED
        BY <1>2, <2>2, <3>3, <3>4, <3>5 DEF Deliver, TypeOK
    <2> QED
      BY <1>2, <2>1, <2>2 DEF Deliver
  <1>3. CASE Report
    <2>1. CASE Ends("ended") /\ UNCHANGED tx
      BY <1>3, <2>1, OverType DEF Report
    <2>2. CASE ~dropped
      <3>1. tx' \in Seq(Ids \cup {Failure}) /\ Len(tx') <= Capacity
        BY <1>3, <2>2, SendsType DEF Report
      <3> QED
        BY <1>3, <2>2, <3>1 DEF Report, TypeOK
    <2> QED
      BY <1>3, <2>1, <2>2 DEF Report
  <1>4. CASE PublishDeadLetter \/ AckDeadLetter
    <2>1. out \in Seq(Ids) /\ out # <<>>
      BY <1>4 DEF PublishDeadLetter, AckDeadLetter, Control, TypeOK
    <2>2. Head(out) \in Ids /\ Head(out)[1] \in Entries
      BY <2>1, PopType, IdTypes
    <2>3. CASE PublishDeadLetter
      <3>1. /\ dead' \subseteq Entries /\ pc' \in {"dead_ack", "report"}
            /\ out' \in Seq(Ids)
        BY <2>1, <2>2, <2>3, EmptyType DEF PublishDeadLetter, TypeOK
      <3> QED
        BY <2>3, <3>1 DEF PublishDeadLetter, TypeOK
    <2>4. CASE AckDeadLetter
      <3>1. unacked_messages' \subseteq Ids /\ acked' \subseteq Ids
        BY <2>2, <2>4 DEF AckDeadLetter, Ack, Acknowledge, TypeOK
      <3> QED
        BY <2>4, <3>1, EmptyType DEF AckDeadLetter, TypeOK
    <2> QED
      BY <1>4, <2>3, <2>4
  <1>5. CASE PollEngineMessage
    <2>1. engine_rx \in Seq(EngineMessages) /\ engine_rx # <<>>
      BY <1>5 DEF PollEngineMessage, TypeOK
    <2>2. Head(engine_rx) \in EngineMessages /\ Tail(engine_rx) \in Seq(EngineMessages)
      BY <2>1, PopType
    <2>3. /\ unacked_messages' \subseteq Ids /\ acked' \subseteq Ids
          /\ backlog' \subseteq Entries /\ asking' \in BOOLEAN
      BY <1>5, <2>2, HandleType DEF PollEngineMessage
    <2> QED
      BY <1>5, <2>2, <2>3 DEF PollEngineMessage, PutBack, TypeOK
  <1> QED
    BY <1>1, <1>2, <1>3, <1>4, <1>5

\* A failed reconnection ends the engine, or is reported.
LEMMA FailedType ==
  ASSUME TypeOK, Failed
  PROVE  /\ pc' \in {"ended", "report"} /\ caller' = caller /\ connection' = connection
         /\ messages_rx' \in {messages_rx, None} /\ held' \in {held, None}
         /\ signal' = signal /\ remaining_messages' = remaining_messages
         /\ unacked_messages' = unacked_messages
         /\ out' \in Seq(Ids) /\ engine_rx' \in Seq(EngineMessages)
         /\ asking' \in BOOLEAN
         /\ task' \in [Subs -> {"none", "armed", "stopped", "closing", "closed"}]
  <1>1. CASE Ends("ended")
    <2>1. "ended" \in Over
      BY DEF Over
    <2>2. pc' = "ended"
      BY <1>1 DEF Ends
    <2> QED
      BY <1>1, <2>1, <2>2, EndsType
  <1>2. CASE ~Ends("ended")
    BY <1>2 DEF Failed, TypeOK
  <1> QED
    BY <1>1, <1>2

\* What a successful reconnection does: subscription s replaces the one before.
NewSubscription(s) ==
  /\ pc = "subscribe" /\ pc' \in {"flow", "check", "select"}
  /\ home[s] = None /\ conn[connection] = "open"
  /\ Subscribes(s, connection) /\ signal' = s
  /\ task' = [task EXCEPT ![s] = "armed", ![signal] = "stopped"]
  /\ \/ /\ caller = "check" /\ messages_rx' = s /\ pc' = "flow"
        /\ permits' = [permits EXCEPT ![s] = batch_size]
        /\ UNCHANGED <<held, remaining_messages>>
     \/ /\ caller = "close" /\ messages_rx' = s /\ pc' = "check"
        /\ permits' = [permits EXCEPT ![s] = batch_size]
        /\ UNCHANGED <<held, remaining_messages>>
     \/ /\ caller = "flow" /\ pc' = "select"
        /\ permits' = [permits EXCEPT ![s] =
                         batch_size + (batch_size - remaining_messages)]
        /\ remaining_messages' = batch_size
        /\ held' = IF held = None THEN s ELSE held
        /\ messages_rx' = IF held = None THEN None ELSE s
  /\ UNCHANGED <<caller, connection, unacked_messages, out, engine_rx, asking,
                 error_set, tx, received, errors, dropped, conn, pool, stream,
                 backlog, dispatched, acked, dead, closes, other>>

\* Subscribe succeeds, or the reconnection has failed.
LEMMA SubscribeCases ==
  ASSUME Subscribe
  PROVE  \/ \E s \in Subs : NewSubscription(s)
         \/ /\ pc = "subscribe" /\ Failed /\ GivenUp
            /\ UNCHANGED <<permits, tx, received, errors, dropped, conn, pool, stream,
                           backlog, dispatched, acked, dead, closes, other>>
  <1>1. CASE Failed /\ GivenUp
    BY <1>1 DEF Subscribe, GivenUp
  <1>2. CASE ~(Failed /\ GivenUp)
    BY <1>2 DEF Subscribe, NewSubscription, Installed, Stopped, Fresh
  <1> QED
    BY <1>1, <1>2

\* What a subscribe that failed leaves: the same subscriptions, or one more that
\* the broker serves.
LEMMA GivenUpFacts ==
  ASSUME TypeOK, GivenUp
  PROVE  /\ error_set' \in [Conns -> BOOLEAN] /\ channel' \in [Subs -> BOOLEAN]
         /\ \A k \in Conns : error_set'[k] => error_set[k] \/ conn[k] = "ended"
         /\ \/ UNCHANGED <<home, subscribed>>
            \/ \E s \in Subs :
                 /\ home[s] = None /\ conn[connection] = "open"
                 /\ home' = [home EXCEPT ![s] = connection]
                 /\ subscribed' = (subscribed \ On(connection)) \cup {s}
  BY DEF GivenUp, Fresh, TypeOK

\* What a successful lookup does: the engine is on connection k.
NewConnection(k) ==
  /\ pc = "reconnect" /\ pc' = "subscribe"
  /\ GetConnection(k) /\ connection' = k
  /\ UNCHANGED <<caller, messages_rx, held, remaining_messages, unacked_messages,
                 out, signal, engine_rx, asking, task, tx, received, errors,
                 dropped, error_set, home, stream, channel, broker>>

\* Lookup finds a connection, or the reconnection has failed.
LEMMA LookupCases ==
  ASSUME Lookup
  PROVE  \/ \E k \in Conns : NewConnection(k)
         \/ /\ pc = "reconnect" /\ Failed
            /\ UNCHANGED <<tx, received, errors, dropped, conn, pool, error_set, home,
                           stream, channel, broker>>
  BY DEF Lookup, NewConnection

\* Reconnecting keeps the types.
LEMMA ReconnectType ==
  ASSUME TypeOK, Control, Lookup \/ Subscribe
  PROVE  TypeOK'
  <1>1. CASE Lookup
    <2>1. ASSUME NEW k \in Conns, NewConnection(k) PROVE TypeOK'
      <3>1. /\ conn' \in [Conns -> {"none", "open", "silent", "failed", "ended"}]
            /\ pool' \in Conns \cup {None}
        BY <2>1 DEF NewConnection, GetConnection, TypeOK
      <3> QED
        BY <2>1, <3>1 DEF NewConnection, TypeOK
    <2> QED
      BY <1>1, <2>1, LookupCases, FailedType DEF TypeOK, Over
  <1>2. CASE Subscribe
    <2>1. ASSUME NEW s \in Subs, NewSubscription(s) PROVE TypeOK'
      <3>1. /\ home' \in [Subs -> Conns \cup {None}] /\ channel' \in [Subs -> BOOLEAN]
            /\ subscribed' \subseteq Subs
        BY <2>1 DEF NewSubscription, Subscribes, TypeOK
      <3>2. task' \in [Subs -> {"none", "armed", "stopped", "closing", "closed"}]
        BY <2>1 DEF NewSubscription, TypeOK
      <3>3. permits' \in [Subs -> Nat] /\ remaining_messages' \in 0..(2^Width - 1)
        <4>1. CASE permits' = [permits EXCEPT ![s] = batch_size]
                   /\ UNCHANGED remaining_messages
          BY <4>1, EngineAssumption DEF TypeOK
        <4>2. CASE caller = "flow" /\ remaining_messages' = batch_size
                   /\ permits' = [permits EXCEPT ![s] =
                                    batch_size + (batch_size - remaining_messages)]
          <5>1. /\ remaining_messages <= batch_size
                /\ remaining_messages \in 0..(2^Width - 1)
            BY <2>1, <4>2 DEF NewSubscription, Control, TypeOK
          <5>2. /\ batch_size + (batch_size - remaining_messages) \in Nat
                /\ batch_size \in 0..(2^Width - 1)
            BY <5>1, EngineAssumption
          <5> QED
            BY <4>2, <5>2 DEF TypeOK
        <4> QED
          BY <2>1, <4>1, <4>2 DEF NewSubscription
      <3>4. /\ messages_rx' \in Subs \cup {None} /\ held' \in Subs \cup {None}
            /\ pc' = "select" => held' # None
        BY <2>1, Numbers DEF NewSubscription, TypeOK
      <3> QED
        BY <2>1, <3>1, <3>2, <3>3, <3>4 DEF NewSubscription, TypeOK
    <2>2. ASSUME GivenUp
          PROVE  /\ error_set' \in [Conns -> BOOLEAN] /\ channel' \in [Subs -> BOOLEAN]
                 /\ home' \in [Subs -> Conns \cup {None}] /\ subscribed' \subseteq Subs
      BY <2>2, GivenUpFacts DEF TypeOK
    <2> QED
      BY <1>2, <2>1, <2>2, SubscribeCases, FailedType DEF TypeOK, Over
  <1> QED
    BY <1>1, <1>2

\* What the application does, and the ticker, keep the types.
LEMMA ApplicationType ==
  ASSUME TypeOK, Application \/ Ticker
  PROVE  TypeOK'
  <1>1. CASE Receive
    <2>1. tx \in Seq(Ids \cup {Failure}) /\ tx # <<>> /\ received \in Seq(Ids)
      BY <1>1 DEF Receive, TypeOK
    <2>2. Head(tx) \in Ids \cup {Failure} /\ Tail(tx) \in Seq(Ids \cup {Failure})
      BY <2>1, PopType
    <2>3. Len(Tail(tx)) <= Capacity
      <3>1. Len(Tail(tx)) = Len(tx) - 1 /\ Len(tx) \in Nat /\ Len(tx) <= Capacity
        BY <2>1 DEF TypeOK
      <3> QED
        BY <3>1, EngineAssumption
    <2>4. received' \in Seq(Ids) /\ errors' \in BOOLEAN
      <3>1. CASE Head(tx) = Failure
        BY <1>1, <3>1 DEF Receive, TypeOK
      <3>2. CASE Head(tx) # Failure
        <4>1. Append(received, Head(tx)) \in Seq(Ids)
          BY <2>1, <2>2, <3>2, AppendType
        <4> QED
          BY <1>1, <3>2, <4>1 DEF Receive, TypeOK
      <3> QED
        BY <3>1, <3>2
    <2> QED
      BY <1>1, <2>2, <2>3, <2>4 DEF Receive, TypeOK
  <1>2. CASE DropConsumer
    <2>1. Len(tx') <= Capacity /\ tx' \in Seq(Ids \cup {Failure}) /\ dropped' \in BOOLEAN
      BY <1>2, EmptyType, EngineAssumption DEF DropConsumer
    <2> QED
      BY <1>2, <2>1 DEF DropConsumer, TypeOK
  <1>3. ASSUME NEW m \in EngineMessages, engine_rx' = Append(engine_rx, m)
        PROVE  engine_rx' \in Seq(EngineMessages)
    <2>1. engine_rx \in Seq(EngineMessages)
      BY DEF TypeOK
    <2> QED
      BY <1>3, <2>1, AppendType
  <1>4. CASE Ask
    <2>1. engine_rx' \in Seq(EngineMessages) /\ asking' \in BOOLEAN
      BY <1>3, <1>4, ValueTypes DEF Ask
    <2> QED
      BY ZenonT(60), <1>4, <2>1 DEF Ask, TypeOK
  <1>5. CASE Ticker
    <2>1. engine_rx' \in Seq(EngineMessages)
      BY <1>3, <1>5, ValueTypes DEF Ticker
    <2> QED
      BY ZenonT(60), <1>5, <2>1 DEF Ticker, TypeOK
  <1>6. ASSUME NEW id \in Range(received), Settle(id) PROVE TypeOK'
    <2>1. id \in Ids
      BY RangeType DEF TypeOK
    <2>2. engine_rx' \in Seq(EngineMessages)
      BY <1>3, <1>6, <2>1, ValueTypes DEF Settle
    <2> QED
      BY <1>6, <2>2 DEF Settle, TypeOK
  <1> QED
    BY <1>1, <1>2, <1>4, <1>5, <1>6 DEF Application

\* What the broker does when it dispatches entry e to subscription s.
Dispatches(s, e) ==
  /\ s \in subscribed
  /\ e \in backlog /\ \A f \in backlog : e <= f
  /\ Sizes[e] <= permits[s]
  /\ permits' = [permits EXCEPT ![s] = permits[s] - Sizes[e]]
  /\ backlog' = backlog \ {e}
  /\ dispatched' = [dispatched EXCEPT ![e] = dispatched[e] + 1]
  /\ Push(s, Message(e))
  /\ UNCHANGED <<engine, app, conns, home, channel, task, subscribed, acked,
                 dead, closes, other>>

\* The broker dispatches the first entry of its backlog.
LEMMA DispatchCases ==
  ASSUME TypeOK, NEW s \in Subs, Dispatch(s)
  PROVE  \E e \in Entries : Dispatches(s, e)
  <1>1. PICK e \in backlog :
          /\ s \in subscribed
          /\ \A f \in backlog : e <= f
          /\ Sizes[e] <= permits[s]
          /\ permits' = [permits EXCEPT ![s] = @ - Sizes[e]]
          /\ backlog' = backlog \ {e}
          /\ dispatched' = [dispatched EXCEPT ![e] = @ + 1]
          /\ Push(s, Message(e))
          /\ UNCHANGED <<engine, app, conns, home, channel, task, subscribed, acked,
                         dead, closes, other>>
    BY ZenonT(60) DEF Dispatch
  <1>2. e \in Entries
    BY <1>1 DEF TypeOK
  <1> QED
    BY <1>1, <1>2 DEF Dispatches

\* A command that is pushed keeps the type of the streams.
LEMMA PushType ==
  ASSUME TypeOK, NEW s \in Subs, NEW item \in Items, Push(s, item)
  PROVE  stream' \in [Subs -> Seq(Items)]
  BY DEF Push, TypeOK

\* The broker keeps the types.
LEMMA BrokerType ==
  ASSUME TypeOK, Broker
  PROVE  TypeOK'
  <1>1. PICK s \in Subs : Dispatch(s) \/ BrokerCloses(s) \/ BrokerPushes(s)
    BY DEF Broker
  <1>2. CASE Dispatch(s)
    <2>1. PICK e \in Entries : Dispatches(s, e)
      BY <1>2, DispatchCases
    <2>2. Message(e) \in Items
      BY DEF Message, Items, TypeOK
    <2>3. stream' \in [Subs -> Seq(Items)]
      BY <2>1, <2>2, PushType DEF Dispatches
    <2>4. dispatched' \in [Entries -> Nat]
      BY <2>1 DEF Dispatches, TypeOK
    <2>5. permits' \in [Subs -> Nat]
      <3>1. permits[s] \in Nat /\ Sizes[e] \in Nat /\ Sizes[e] <= permits[s]
        BY <2>1, IdTypes DEF Dispatches, TypeOK
      <3>2. permits[s] - Sizes[e] \in Nat
        BY <3>1
      <3> QED
        BY <2>1, <3>2 DEF Dispatches, TypeOK
    <2>6. backlog' \subseteq Entries
      BY <2>1 DEF Dispatches, TypeOK
    <2> QED
      BY <2>1, <2>3, <2>4, <2>5, <2>6 DEF Dispatches, TypeOK
  <1>3. CASE BrokerCloses(s)
    <2>1. stream' \in [Subs -> Seq(Items)]
      BY <1>3, PushType, ValueTypes DEF BrokerCloses, Commands
    <2>2. closes' \in 0..MaxCloses
      BY <1>3, EngineAssumption DEF BrokerCloses, TypeOK
    <2> QED
      BY <1>3, <2>1, <2>2 DEF BrokerCloses, Unsettled, TypeOK
  <1>4. CASE BrokerPushes(s)
    <2>1. stream' \in [Subs -> Seq(Items)]
      BY <1>4, PushType, ValueTypes DEF BrokerPushes, Commands
    <2>2. other' \in 0..MaxOther
      BY <1>4, EngineAssumption DEF BrokerPushes, TypeOK
    <2> QED
      BY <1>4, <2>1, <2>2 DEF BrokerPushes, TypeOK
  <1> QED
    BY <1>1, <1>2, <1>3, <1>4

\* The connections and the closing tasks keep the types.
LEMMA ConnectionsType ==
  ASSUME TypeOK, Connections \/ \E s \in Subs : CloseTask(s)
  PROVE  TypeOK'
  <1>1. ASSUME NEW k \in Conns,
               Breaks(k) \/ HeartbeatFails(k) \/ Released(k) \/ OtherTakesError(k)
        PROVE  TypeOK'
    <2>1. conn' \in [Conns -> {"none", "open", "silent", "failed", "ended"}]
      BY <1>1 DEF Breaks, HeartbeatFails, Released, OtherTakesError, TypeOK
    <2>2. error_set' \in [Conns -> BOOLEAN] /\ channel' \in [Subs -> BOOLEAN]
      BY <1>1 DEF Breaks, HeartbeatFails, Released, OtherTakesError, TakeError, TypeOK
    <2>3. subscribed' \subseteq Subs /\ backlog' \subseteq Entries
      BY <1>1 DEF Breaks, HeartbeatFails, Released, OtherTakesError, Unsettled, TypeOK
    <2>4. UNCHANGED <<engine, app, pool, home, stream, task, permits, dispatched,
                      acked, dead, closes, other>>
      BY <1>1 DEF Breaks, HeartbeatFails, Released, OtherTakesError
    <2> QED
      BY <2>1, <2>2, <2>3, <2>4 DEF TypeOK
  <1>2. CASE CheckConnections
    BY <1>2 DEF CheckConnections, TypeOK
  <1>3. ASSUME NEW s \in Subs, CloseTask(s) PROVE TypeOK'
    BY <1>3 DEF CloseTask, TypeOK
  <1> QED
    BY <1>1, <1>2, <1>3 DEF Connections

\* Every step keeps the types.
LEMMA TypeStep == TypeOK /\ Control /\ [Next]_vars => TypeOK'
  <1> SUFFICES ASSUME TypeOK, Control, [Next]_vars PROVE TypeOK'
    OBVIOUS
  <1>1. CASE UNCHANGED vars
    BY ZenonT(60), <1>1 DEF vars, TypeOK
  <1> QED
    BY <1>1, LoopType, MessageType, PollType, ReconnectType, ApplicationType,
       BrokerType, ConnectionsType DEF Next, Engine

-----------------------------------------------------------------------------
(* The engine's own state *)

\* The steps of everything but the engine leave it alone.
LEMMA OutsideEngine ==
  ASSUME TypeOK,
         \/ Application \/ Ticker \/ Broker \/ Connections
         \/ \E s \in Subs : CloseTask(s)
         \/ UNCHANGED vars
  PROVE  UNCHANGED engine
  <1>1. ASSUME NEW s \in Subs, Dispatch(s) PROVE UNCHANGED engine
    BY <1>1, DispatchCases DEF Dispatches
  <1>2. ASSUME NEW s \in Subs, BrokerCloses(s) \/ BrokerPushes(s) \/ CloseTask(s)
        PROVE  UNCHANGED engine
    BY <1>2 DEF BrokerCloses, BrokerPushes, CloseTask
  <1>3. CASE Application \/ Ticker
    BY <1>3 DEF Application, Receive, Ask, DropConsumer, Settle, Ticker
  <1>4. CASE Connections
    BY <1>4 DEF Connections, Breaks, HeartbeatFails, Released, OtherTakesError,
                CheckConnections
  <1> QED
    BY <1>1, <1>2, <1>3, <1>4 DEF Broker, vars

\* The engine keeps Control.
LEMMA ControlStep == TypeOK /\ Control /\ [Next]_vars => Control'
  <1> SUFFICES ASSUME TypeOK, Control, [Next]_vars PROVE Control'
    OBVIOUS
  <1> USE DEF Running, Over
  <1>1. CASE CheckConnection
    BY <1>1 DEF CheckConnection, Control
  <1>2. CASE Refill
    <2>1. NeedsPermits => remaining_messages <= batch_size
      <3>1. remaining_messages \in 0..(2^Width - 1)
        BY DEF TypeOK
      <3> QED
        BY <3>1, EngineAssumption DEF NeedsPermits
    <2> QED
      BY <1>2, <2>1 DEF Refill, Select, Control
  <1>3. CASE Tick
    BY <1>3 DEF Tick, Control
  <1>4. ASSUME NEW how \in Over, Ends(how) PROVE Control'
    BY <1>4 DEF Ends, Control
  <1>5. CASE PollMessage
    <2> DEFINE item == Head(stream[held])
    <2>1. held \in Subs /\ stream[held] \in Seq(Items) /\ stream[held] # <<>> /\ held # None
      BY <1>5 DEF PollMessage, TypeOK
    <2>2. item \in Items
      BY <2>1, PopType
    <2>3. item.kind = "message" => IdsOf(item.entry) # <<>>
      BY <2>2, ValueTypes, IdsOfTypes
    <2>4. CASE Ends("ended")
      BY <1>4, <2>4
    <2>5. CASE PutBack /\ Process(item)
      <3>1. messages_rx' # None
        BY <2>1, <2>5 DEF PutBack
      <3>2. out = <<>>
        BY <1>5 DEF PollMessage, Control
      <3>3. /\ out' # <<>> <=> pc' \in {"deliver", "dead_letter", "dead_ack"}
            /\ pc' = "reconnect" => caller' = "close"
            /\ pc' # "subscribe"
            /\ DeadLetter = NoPolicy => pc' \notin {"dead_letter", "dead_ack"}
        BY <2>3, <2>5, <3>2 DEF Process, IsDead
      <3> QED
        BY <3>1, <3>3 DEF Control
    <2> QED
      BY <1>5, <2>4, <2>5 DEF PollMessage
  <1>6. CASE PollDisconnected \/ PollClosed
    BY <1>4, <1>6 DEF PollDisconnected, PollClosed
  <1>7. CASE Deliver
    <2>1. CASE Ends("ended")
      BY <1>4, <2>1
    <2>2. CASE /\ out' = Tail(out) /\ UNCHANGED <<messages_rx, held>>
               /\ pc' = IF Len(out) = 1 THEN "check" ELSE "deliver"
      <3>1. out \in Seq(Ids) /\ out # <<>>
        BY <1>7 DEF Deliver, Control, TypeOK
      <3>2. Tail(out) # <<>> <=> Len(out) # 1
        <4>1. Tail(out) \in Seq(Ids) /\ Len(Tail(out)) = Len(out) - 1 /\ Len(out) \in Nat
          BY <3>1
        <4> QED
          BY <4>1
      <3> QED
        BY <1>7, <2>2, <3>2 DEF Deliver, Control
    <2> QED
      BY <1>7, <2>1, <2>2 DEF Deliver
  <1>8. CASE Report
    BY <1>4, <1>8 DEF Report, Control
  <1>9. CASE PublishDeadLetter \/ AckDeadLetter
    BY <1>9 DEF PublishDeadLetter, AckDeadLetter, Control
  <1>10. CASE PollEngineMessage
    BY <1>10 DEF PollEngineMessage, PutBack, Control, TypeOK
  <1>11. CASE Lookup
    BY <1>4, <1>11, LookupCases DEF Failed, NewConnection, Control
  <1>12. CASE Subscribe
    BY <1>4, <1>12, SubscribeCases, Numbers DEF Failed, NewSubscription, Control
  <1>13. CASE UNCHANGED engine
    BY <1>13 DEF Control
  <1> QED
    BY <1>1, <1>2, <1>3, <1>5, <1>6, <1>7, <1>8, <1>9, <1>10, <1>11, <1>12, <1>13,
       OutsideEngine DEF Next, Engine

-----------------------------------------------------------------------------
(* Subscriptions and connections *)

\* A consumer starts with its subscription served.
LEMMA InitServed == Init => Served
  <1> SUFFICES ASSUME Init PROVE Served
    OBVIOUS
  <1>1. /\ home = [s \in Subs |-> IF s = 1 THEN 1 ELSE None]
        /\ channel = [s \in Subs |-> s = 1]
        /\ conn = [k \in Conns |-> IF k = 1 THEN "open" ELSE "none"]
        /\ task = [s \in Subs |-> IF s = 1 THEN "armed" ELSE "none"]
        /\ error_set = [k \in Conns |-> FALSE]
        /\ subscribed = {1} /\ connection = 1 /\ pool = 1 /\ signal = 1
    BY DEF Init
  <1> QED
    BY <1>1, Numbers DEF Served, None

\* A step that leaves the connections and the subscriptions alone, and ends the
\* engine if it changes a task.
LEMMA ServedSame ==
  ASSUME TypeOK, Served,
         UNCHANGED <<conn, error_set, pool, home, channel, subscribed, connection, signal>>,
         (pc' \in Over) \/ (UNCHANGED task /\ Running)
  PROVE  Served'
  BY DEF Served, Running

\* The engine keeps Served.
LEMMA EngineServed ==
  ASSUME TypeOK, Control, Served, Engine
  PROVE  Served'
  <1> USE DEF Over, Running
  <1>1. CASE CheckConnection
    <2>1. /\ \A k \in Conns : error_set'[k] => error_set[k]
          /\ UNCHANGED <<conn, pool, home, channel, subscribed, connection, signal, task>>
      BY <1>1 DEF CheckConnection, TakeError, TypeOK
    <2> QED
      BY <1>1, <2>1 DEF CheckConnection, Served
  <1>2. CASE Refill \/ Tick
    BY <1>2, ServedSame DEF Refill, Tick
  <1>3. CASE PollMessage
    BY <1>3, ServedSame DEF PollMessage, Ends
  <1>4. CASE \/ PollDisconnected \/ PollClosed \/ PublishDeadLetter \/ AckDeadLetter
             \/ PollEngineMessage
    BY <1>4, ServedSame DEF PollDisconnected, PollClosed, PublishDeadLetter,
                            AckDeadLetter, PollEngineMessage, Ends
  <1>5. CASE Deliver \/ Report
    BY <1>5, ServedSame DEF Deliver, Report, Ends
  <1>6. ASSUME Failed, pc \notin Over
        PROVE  /\ UNCHANGED <<connection, signal>>
               /\ (pc' \in Over) \/ (UNCHANGED task /\ Running)
    BY <1>6 DEF Failed, Ends
  <1>7. CASE Lookup
    <2>1. ASSUME NEW k \in Conns, NewConnection(k) PROVE Served'
      <3>1. UNCHANGED <<error_set, home, channel, subscribed, signal, task>>
        BY <2>1 DEF NewConnection
      <3>2. CASE Pooled /\ k = pool /\ UNCHANGED <<pool, conn>>
        BY <2>1, <3>1, <3>2, Numbers DEF NewConnection, Served
      <3>3. CASE conn[k] = "none" /\ pool' = k /\ conn' = [conn EXCEPT ![k] = "open"]
        <4>1. /\ conn'[k] = "open" /\ \A j \in Conns \ {k} : conn'[j] = conn[j]
              /\ conn[k] = "none" /\ pool' = k /\ connection' = k
          BY <2>1, <3>3 DEF NewConnection, TypeOK
        <4>2. \A s \in Subs : home[s] # None => home[s] \in Conns \ {k}
          BY <4>1 DEF Served, TypeOK
        <4>3. ~error_set[k]
          BY <4>1 DEF Served
        <4>4. subscribed \subseteq Subs
          BY DEF TypeOK
        <4> QED
          BY <2>1, <3>1, <4>1, <4>2, <4>3, <4>4 DEF NewConnection, Served
      <3> QED
        BY <2>1, <3>2, <3>3 DEF NewConnection, GetConnection
    <2> QED
      BY <1>6, <1>7, <2>1, LookupCases, ServedSame
  <1>8. CASE Subscribe
    <2>1. ASSUME NEW s \in Subs, NewSubscription(s) PROVE Served'
      <3>1. /\ home'[s] = connection /\ \A t \in Subs \ {s} : home'[t] = home[t]
            /\ home[s] = None /\ conn[connection] = "open" /\ connection \in Conns
            /\ signal' = s
            /\ UNCHANGED <<conn, pool, error_set, connection>>
        BY <2>1 DEF NewSubscription, Subscribes, TypeOK
      <3>3. /\ s \in subscribed' /\ subscribed' \subseteq Subs
            /\ \A t \in subscribed' : t = s \/ (t \in subscribed /\ home[t] # connection)
        BY <2>1 DEF NewSubscription, Subscribes, On, TypeOK
      <3>4. \A t \in Subs : task'[t] \in {task[t], "armed", "stopped"}
        BY <2>1 DEF NewSubscription, TypeOK
      <3>5. /\ \A t \in subscribed' : home'[t] # None /\ conn'[home'[t]] = "open"
            /\ \A t \in Subs : home'[t] # None => conn'[home'[t]] # "none"
            /\ home'[signal'] # None
        <4>1. home'[s] # None /\ conn'[home'[s]] = "open"
          BY <3>1, Numbers
        <4>2. ASSUME NEW t \in subscribed', t # s
              PROVE  home'[t] # None /\ conn'[home'[t]] = "open"
          <5>1. t \in Subs \ {s} /\ t \in subscribed /\ home[t] # connection
            BY <3>3, <4>2
          <5>2. home[t] # None /\ conn[home[t]] = "open"
            BY <5>1 DEF Served
          <5> QED
            BY <3>1, <5>1, <5>2
        <4>3. \A t \in Subs : home'[t] # None => conn'[home'[t]] # "none"
          BY <3>1, <4>1 DEF Served
        <4> QED
          BY <3>1, <4>1, <4>2, <4>3
      <3>6. home'[1] = 1
        BY <3>1, Numbers DEF Served
      <3>7. /\ \A t \in Subs : task'[t] \notin {"closing", "closed"}
            /\ task'[signal'] # "none"
        BY <2>1, <3>4 DEF NewSubscription, Served, TypeOK
      <3> QED
        BY <3>1, <3>5, <3>6, <3>7 DEF Served
    <2>2. ASSUME Failed, GivenUp, pc = "subscribe", UNCHANGED <<conn, pool>>
          PROVE  Served'
      <3>1. \A k \in Conns : error_set'[k] => error_set[k] \/ conn[k] = "ended"
        BY <2>2, GivenUpFacts
      <3>2. /\ UNCHANGED <<connection, signal>>
            /\ (pc' \in Over) \/ (UNCHANGED task /\ Running)
        BY <1>6, <2>2
      <3>3. CASE UNCHANGED <<home, subscribed>>
        BY <2>2, <3>1, <3>2, <3>3 DEF Served
      <3>4. ASSUME NEW s \in Subs, home[s] = None, conn[connection] = "open",
                   home' = [home EXCEPT ![s] = connection],
                   subscribed' = (subscribed \ On(connection)) \cup {s}
            PROVE  Served'
        <4>1. /\ home'[s] = connection /\ \A t \in Subs \ {s} : home'[t] = home[t]
              /\ connection \in Conns /\ connection # None
          BY <3>4, Numbers DEF TypeOK
        <4>2. /\ \A t \in subscribed' : home'[t] # None /\ conn[home'[t]] = "open"
              /\ \A t \in Subs : home'[t] # None => conn[home'[t]] # "none"
          <5>1. \A t \in subscribed' : t = s \/ (t \in subscribed /\ t \in Subs \ {s})
            BY <3>4 DEF TypeOK
          <5> QED
            BY <3>4, <4>1, <5>1 DEF Served
        <4>3. home'[1] = 1 /\ home'[signal] # None
          BY <3>4, <4>1, Numbers DEF Served, TypeOK
        <4> QED
          BY <2>2, <3>1, <3>2, <4>2, <4>3 DEF Served
      <3> QED
        BY <2>2, <3>3, <3>4, GivenUpFacts
    <2> QED
      BY <1>8, <2>1, <2>2, SubscribeCases
  <1> QED
    BY <1>1, <1>2, <1>3, <1>4, <1>5, <1>7, <1>8 DEF Engine

\* So does everything else.
LEMMA OutsideServed ==
  ASSUME TypeOK, Served,
         \/ Application \/ Ticker \/ Broker \/ Connections
         \/ \E s \in Subs : CloseTask(s)
         \/ UNCHANGED vars
  PROVE  Served'
  <1>0. UNCHANGED <<pc, connection, signal>>
    BY OutsideEngine
  <1>1. ASSUME UNCHANGED <<conn, error_set, home, channel, task>>, pool' \in {pool, None},
               subscribed' \subseteq subscribed
        PROVE  Served'
    BY <1>0, <1>1 DEF Served, Running
  <1>2. ASSUME NEW s \in Subs, Dispatch(s) PROVE Served'
    BY <1>1, <1>2, DispatchCases DEF Dispatches
  <1>3. ASSUME NEW s \in Subs, BrokerCloses(s) \/ BrokerPushes(s)
        PROVE  Served'
    BY <1>1, <1>3 DEF BrokerCloses, BrokerPushes
  <1>4. CASE Application \/ Ticker \/ CheckConnections \/ UNCHANGED vars
    BY <1>1, <1>4 DEF Application, Receive, Ask, DropConsumer, Settle, Ticker,
                      CheckConnections, vars
  <1>5. ASSUME NEW s \in Subs, CloseTask(s) PROVE Served'
    <2>1. ~Running
      BY <1>5 DEF CloseTask, Served
    <2> QED
      BY <1>0, <1>5, <2>1 DEF CloseTask, Served, Running
  <1>6. ASSUME NEW k \in Conns,
               Breaks(k) \/ HeartbeatFails(k) \/ Released(k) \/ OtherTakesError(k)
        PROVE  Served'
    <2>1. UNCHANGED <<pool, home, task>>
      BY <1>6 DEF Breaks, HeartbeatFails, Released, OtherTakesError
    <2>2. \A j \in Conns : j # k => conn'[j] = conn[j] /\ error_set'[j] = error_set[j]
      BY <1>6 DEF Breaks, HeartbeatFails, Released, OtherTakesError, TakeError, TypeOK
    <2>3. /\ error_set'[k] => conn'[k] \notin {"none", "open"}
          /\ conn[k] # "none" => conn'[k] # "none"
      BY <1>6 DEF Breaks, HeartbeatFails, Released, OtherTakesError, TakeError, TypeOK, Served
    <2>4. /\ subscribed' \subseteq subscribed
          /\ \A s \in subscribed' : home[s] # k \/ conn'[k] = "open"
          /\ \A s \in subscribed' : home[s] # k \/ conn'[k] = conn[k]
      BY <1>6 DEF Breaks, HeartbeatFails, Released, OtherTakesError, On, TypeOK, Served
    <2>6. /\ subscribed \subseteq Subs /\ connection \in Conns
          /\ \A s \in Subs : home[s] \in Conns \cup {None}
          /\ pool \in Conns \cup {None}
      BY DEF TypeOK
    <2>7. \A s \in subscribed' : home'[s] # None /\ conn'[home'[s]] = "open"
      BY <2>1, <2>2, <2>4, <2>6 DEF Served
    <2>8. /\ \A j \in Conns : error_set'[j] => conn'[j] \notin {"none", "open"}
          /\ \A j \in Conns : conn[j] # "none" => conn'[j] # "none"
      BY <2>2, <2>3 DEF Served
    <2>9. /\ conn'[connection] # "none"
          /\ pool # None => conn'[pool] # "none"
          /\ \A s \in Subs : home[s] # None => conn'[home[s]] # "none"
      BY <2>6, <2>8 DEF Served
    <2> QED
      BY <1>0, <2>1, <2>7, <2>8, <2>9 DEF Served, Running
  <1> QED
    BY <1>2, <1>3, <1>4, <1>5, <1>6 DEF Broker, Connections

-----------------------------------------------------------------------------
(* A running engine is not abandoned *)

\* The engine sends to the application, and takes nothing back.
LEMMA EngineSends ==
  ASSUME TypeOK, Engine
  PROVE  /\ UNCHANGED <<received, errors, dropped>>
         /\ \/ UNCHANGED tx
            \/ pc = "report" /\ ~dropped /\ tx' = Append(tx, Failure)
            \/ pc = "deliver" /\ ~dropped /\ tx' = Append(tx, Head(out))
  <1>1. CASE \/ CheckConnection \/ Refill \/ Tick \/ PollMessage \/ PollDisconnected
             \/ PublishDeadLetter \/ AckDeadLetter \/ PollEngineMessage \/ PollClosed
    BY <1>1 DEF CheckConnection, Refill, Tick, PollMessage, PollDisconnected,
                PublishDeadLetter, AckDeadLetter, PollEngineMessage, PollClosed
  <1>2. CASE Deliver \/ Report
    BY <1>2 DEF Deliver, Report
  <1>3. CASE Lookup \/ Subscribe
    BY <1>3 DEF Lookup, Subscribe
  <1> QED
    BY <1>1, <1>2, <1>3 DEF Engine

\* Besides the engine, the application changes what it was sent.
LEMMA OutsideSends ==
  ASSUME TypeOK,
         \/ Ticker \/ Broker \/ Connections \/ Ask
         \/ \E id \in Range(received) : Settle(id)
         \/ \E s \in Subs : CloseTask(s)
         \/ UNCHANGED vars
  PROVE  UNCHANGED <<tx, received, errors, dropped>>
  <1>1. ASSUME NEW s \in Subs, Dispatch(s) PROVE UNCHANGED <<tx, received, errors, dropped>>
    BY <1>1, DispatchCases DEF Dispatches
  <1>2. ASSUME NEW s \in Subs, BrokerCloses(s) \/ BrokerPushes(s) \/ CloseTask(s)
        PROVE  UNCHANGED <<tx, received, errors, dropped>>
    BY <1>2 DEF BrokerCloses, BrokerPushes, CloseTask
  <1>3. CASE Connections
    BY <1>3 DEF Connections, Breaks, HeartbeatFails, Released, OtherTakesError,
                CheckConnections
  <1> QED
    BY <1>1, <1>2, <1>3 DEF Broker, vars, Ticker, Ask, Settle

\* An error that is on its way reaches the application, unless it drops the
\* consumer.
LEMMA ToldStep ==
  ASSUME TypeOK, Control, Told, [Next]_vars, ~dropped'
  PROVE  Told'
  <1>0. tx \in Seq(Ids \cup {Failure})
    BY DEF TypeOK
  <1>1. CASE Engine
    <2>1. CASE UNCHANGED tx
      BY <1>1, <2>1, EngineSends DEF Told
    <2>2. ASSUME NEW e \in Ids \cup {Failure}, tx' = Append(tx, e) PROVE Told'
      BY <1>0, <1>1, <2>2, EngineSends, RangeAppend DEF Told
    <2>3. pc = "deliver" => Head(out) \in Ids
      BY PopType DEF Control, TypeOK
    <2> QED
      BY <1>1, <2>1, <2>2, <2>3, EngineSends
  <1>2. CASE Receive
    <2>1. Range(tx) = Range(Tail(tx)) \cup {Head(tx)}
      BY <1>0, <1>2, RangeTail DEF Receive
    <2> QED
      BY <1>2, <2>1 DEF Receive, Told
  <1>3. CASE DropConsumer
    BY <1>3 DEF DropConsumer
  <1>4. CASE UNCHANGED <<tx, errors>>
    BY <1>4 DEF Told
  <1> QED
    BY <1>1, <1>2, <1>3, <1>4, OutsideSends DEF Next, Application

\* What is reported reaches the channel to the application.
LEMMA ReportTells ==
  ASSUME TypeOK, Report, pc' \notin Over
  PROVE  Told'
  <1>1. tx \in Seq(Ids \cup {Failure}) /\ tx' = Append(tx, Failure)
    BY DEF Report, Ends, Over, TypeOK
  <1> QED
    BY <1>1, RangeAppend DEF Told

\* The steps of the engine that leave it on its connection and subscription.
LEMMA EngineStays ==
  ASSUME TypeOK, Engine, ~Lookup, ~Subscribe
  PROVE  /\ UNCHANGED <<connection, signal, home, conn, pool, subscribed, channel>>
         /\ Running
         /\ pc \notin {"reconnect", "subscribe"}
         /\ pc = "report" => Report
         /\ PollMessage \/ UNCHANGED stream
         /\ \/ pc' \in Over /\ task' = [task EXCEPT ![signal] = "closing"]
            \/ UNCHANGED task
         /\ UNCHANGED <<dispatched, closes, other>>
  <1> USE DEF Running, Over
  <1>1. CASE \/ CheckConnection \/ Refill \/ Tick
    BY <1>1 DEF CheckConnection, Refill, Tick
  <1>2. CASE PollMessage \/ PollDisconnected \/ PollClosed
    BY <1>2 DEF PollMessage, PollDisconnected, PollClosed, Ends
  <1>3. CASE PublishDeadLetter \/ AckDeadLetter \/ PollEngineMessage
    BY <1>3 DEF PublishDeadLetter, AckDeadLetter, PollEngineMessage
  <1>4. CASE Deliver \/ Report
    BY <1>4 DEF Deliver, Report, Ends
  <1> QED
    BY <1>1, <1>2, <1>3, <1>4 DEF Engine

\* The engine is on the connection of its subscription.
LEMMA AttachedStep ==
  ASSUME TypeOK, Control, Served, Attached, [Next]_vars
  PROVE  Attached'
  <1> SUFFICES ASSUME Running', ~dropped', pc' \notin {"reconnect", "subscribe", "report"},
                      ~Told'
               PROVE  /\ home'[signal'] = connection'
                      /\ signal' \in subscribed' => channel'[signal']
    BY DEF Attached
  <1>0. ~Told
    BY ToldStep
  <1> USE DEF Running, Over
  <1>1. CASE Lookup
    BY <1>1, LookupCases DEF NewConnection, Failed, Ends
  <1>2. CASE Subscribe
    <2>1. ASSUME NEW s \in Subs, NewSubscription(s)
          PROVE  home'[signal'] = connection' /\ channel'[signal']
      BY <2>1 DEF NewSubscription, Subscribes, TypeOK
    <2> QED
      BY <1>2, <2>1, SubscribeCases DEF Failed, Ends
  <1>3. CASE Engine /\ ~Lookup /\ ~Subscribe
    <2>1. ~dropped
      BY <1>3, EngineSends
    <2>2. pc # "report"
      BY <1>3, EngineStays, ReportTells
    <2> QED
      BY <1>0, <1>3, <2>1, <2>2, EngineStays DEF Attached
  <1>4. CASE ~Engine
    <2>1. UNCHANGED <<pc, connection, signal>>
      BY <1>4, OutsideEngine DEF Next
    <2>2. UNCHANGED home
      <3>1. ASSUME NEW s \in Subs, Dispatch(s) PROVE UNCHANGED home
        BY <3>1, DispatchCases DEF Dispatches
      <3>2. ASSUME NEW s \in Subs, BrokerCloses(s) \/ BrokerPushes(s) \/ CloseTask(s)
            PROVE  UNCHANGED home
        BY <3>2 DEF BrokerCloses, BrokerPushes, CloseTask
      <3>3. CASE Connections \/ Application \/ Ticker
        BY <3>3 DEF Connections, Breaks, HeartbeatFails, Released, OtherTakesError,
                    CheckConnections, Application, Receive, Ask, DropConsumer, Settle, Ticker
      <3> QED
        BY <1>4, <3>1, <3>2, <3>3 DEF Next, Broker, vars
    <2>3. ~dropped
      BY <1>4, OutsideSends DEF Next, Application, Receive, DropConsumer
    <2>4. home[signal] = connection /\ (signal \in subscribed => channel[signal])
      BY <1>0, <2>1, <2>3 DEF Attached
    <2>5. signal \in subscribed' => signal \in subscribed /\ channel'[signal] = channel[signal]
      <3>0. signal \in Subs
        BY DEF TypeOK
      <3>1. ASSUME NEW s \in Subs, Dispatch(s) PROVE UNCHANGED <<subscribed, channel>>
        BY <3>1, DispatchCases DEF Dispatches
      <3>2. ASSUME NEW s \in Subs, BrokerCloses(s) \/ BrokerPushes(s) \/ CloseTask(s)
            PROVE  subscribed' \subseteq subscribed /\ UNCHANGED channel
        BY <3>2 DEF BrokerCloses, BrokerPushes, CloseTask
      <3>3. ASSUME NEW k \in Conns,
                   Breaks(k) \/ HeartbeatFails(k) \/ Released(k) \/ OtherTakesError(k),
                   signal \in subscribed'
            PROVE  signal \in subscribed /\ channel'[signal] = channel[signal]
        BY <2>4, <3>0, <3>3 DEF Breaks, HeartbeatFails, Released, OtherTakesError, On, TypeOK
      <3>4. CASE CheckConnections \/ Application \/ Ticker \/ UNCHANGED vars
        BY <3>4 DEF CheckConnections, Application, Receive, Ask, DropConsumer, Settle,
                    Ticker, vars
      <3> QED
        BY <1>4, <3>1, <3>2, <3>3, <3>4 DEF Next, Broker, Connections
    <2> QED
      BY <2>1, <2>2, <2>4, <2>5
  <1> QED
    BY <1>1, <1>2, <1>3, <1>4

\* A command that is pushed is added to the stream of an open channel.
LEMMA PushGrows ==
  ASSUME TypeOK, NEW s \in Subs, NEW item \in Items, Push(s, item)
  PROVE  /\ \A t \in Subs \ {s} : stream'[t] = stream[t]
         /\ channel[s] => /\ stream'[s] = Append(stream[s], item)
                          /\ Range(stream'[s]) = Range(stream[s]) \cup {item}
         /\ ~channel[s] => stream'[s] = stream[s]
         /\ \A t \in Subs : Range(stream[t]) \subseteq Range(stream'[t])
  <1>1. stream[s] \in Seq(Items)
    BY DEF TypeOK
  <1>2. Range(Append(stream[s], item)) = Range(stream[s]) \cup {item}
    BY <1>1, RangeAppend
  <1>3. CASE channel[s]
    <2>1. /\ \A t \in Subs \ {s} : stream'[t] = stream[t]
          /\ stream'[s] = Append(stream[s], item)
      BY <1>3 DEF Push, TypeOK
    <2> QED
      BY <1>2, <1>3, <2>1
  <1>4. CASE ~channel[s]
    BY <1>4 DEF Push
  <1> QED
    BY <1>3, <1>4

\* What the broker pushes: an item that the stream gets last.
LEMMA BrokerSends ==
  ASSUME TypeOK, NEW s \in Subs, Dispatch(s) \/ BrokerCloses(s) \/ BrokerPushes(s)
  PROVE  \E item \in Items : Push(s, item) /\ (BrokerCloses(s) => item = Command("close_consumer"))
  <1>1. ASSUME NEW e \in Entries, Dispatches(s, e)
        PROVE  Message(e) \in Items /\ Push(s, Message(e))
    BY <1>1 DEF Dispatches, Message, Items, TypeOK
  <1>2. \A kind \in Commands : Command(kind) \in Items
    BY ValueTypes
  <1>3. CASE BrokerCloses(s)
    BY <1>2, <1>3 DEF BrokerCloses, Commands
  <1>4. CASE ~BrokerCloses(s) /\ BrokerPushes(s)
    BY <1>2, <1>4 DEF BrokerPushes
  <1>5. CASE ~BrokerCloses(s) /\ Dispatch(s)
    BY <1>1, <1>5, DispatchCases
  <1> QED
    BY <1>3, <1>4, <1>5

\* What keeps an engine in touch stays, unless a step below takes it away.
LEMMA KeptStep ==
  ASSUME TypeOK, Control, Served, Attached, NotAbandoned, [Next]_vars
  PROVE  NotAbandoned'
  <1> DEFINE close == Command("close_consumer")
  <1> SUFFICES ASSUME Running', ~dropped', pc' \notin {"reconnect", "subscribe", "report"},
                      conn'[connection'] = "open", ~Told'
               PROVE  signal' \in subscribed' \/ close \in Range(stream'[signal'])
    BY DEF NotAbandoned, Told
  <1> HIDE DEF close
  <1>0. ~Told
    BY ToldStep
  <1> USE DEF Running, Over
  <1>1. CASE Lookup
    BY <1>1, LookupCases DEF NewConnection, Failed, Ends
  <1>2. CASE Subscribe
    <2>1. ASSUME NEW s \in Subs, NewSubscription(s) PROVE signal' \in subscribed'
      BY <2>1 DEF NewSubscription, Subscribes
    <2> QED
      BY <1>2, <2>1, SubscribeCases DEF Failed, Ends
  <1>3. CASE Engine /\ ~Lookup /\ ~Subscribe
    <2>1. pc # "report" /\ ~dropped
      BY <1>3, EngineStays, ReportTells, EngineSends
    <2>2. UNCHANGED <<connection, signal, conn, subscribed>>
      BY <1>3, EngineStays
    <2>3. signal \in subscribed \/ close \in Range(stream[signal])
      BY <1>0, <1>3, <2>1, <2>2, EngineStays DEF NotAbandoned, Told, close
    <2>4. close \in Range(stream[signal]) => close \in Range(stream'[signal])
      <3>1. CASE UNCHANGED stream
        BY <3>1
      <3>2. CASE PollMessage
        <4>1. held \in Subs /\ stream[held] \in Seq(Items) /\ stream[held] # <<>>
          BY <3>2 DEF PollMessage, TypeOK
        <4>2. /\ stream'[held] = Tail(stream[held])
              /\ \A t \in Subs \ {held} : stream'[t] = stream[t]
          BY <3>2, <4>1 DEF PollMessage, TypeOK
        <4>3. Range(stream[held]) = Range(Tail(stream[held])) \cup {Head(stream[held])}
          BY <4>1, RangeTail
        <4>4. Head(stream[held]) # close
          <5>1. close.kind = "close_consumer"
            BY DEF close, Command
          <5> QED
            BY <3>2, <5>1 DEF PollMessage, Process, Ends
        <4>5. signal \in Subs
          BY DEF TypeOK
        <4> QED
          BY <4>2, <4>3, <4>4, <4>5
      <3> QED
        BY <1>3, <3>1, <3>2, EngineStays
    <2> QED
      BY <2>2, <2>3, <2>4
  <1>4. CASE ~Engine
    <2>1. UNCHANGED <<pc, connection, signal>>
      BY <1>4, OutsideEngine DEF Next
    <2>2. ~dropped
      BY <1>4, OutsideSends DEF Next, Application, Receive, DropConsumer
    <2>3. signal \in Subs /\ subscribed \subseteq Subs
      BY DEF TypeOK
    <2>4. conn[connection] = "open" => signal \in subscribed \/ close \in Range(stream[signal])
      BY <1>0, <2>1, <2>2 DEF NotAbandoned, Told, close
    <2>5. ASSUME UNCHANGED <<conn, subscribed>>, UNCHANGED stream
          PROVE  signal' \in subscribed' \/ close \in Range(stream'[signal'])
      BY <2>1, <2>4, <2>5
    <2>6. CASE Application \/ Ticker \/ UNCHANGED vars \/ CheckConnections
      BY <2>5, <2>6 DEF Application, Receive, Ask, DropConsumer, Settle, Ticker, vars,
                        CheckConnections
    <2>7. ASSUME NEW s \in Subs, CloseTask(s) PROVE FALSE
      BY <2>1, <2>7 DEF CloseTask, Served
    <2>8. ASSUME NEW s \in Subs, Dispatch(s) \/ BrokerPushes(s) \/ BrokerCloses(s)
          PROVE  signal' \in subscribed' \/ close \in Range(stream'[signal'])
      <3>1. PICK item \in Items : Push(s, item) /\ (BrokerCloses(s) => item = close)
        BY <2>8, BrokerSends DEF close
      <3>2. Range(stream[signal]) \subseteq Range(stream'[signal])
        BY <2>3, <3>1, PushGrows
      <3>3. UNCHANGED conn
        BY <2>8, DispatchCases DEF Dispatches, BrokerPushes, BrokerCloses
      <3>4. CASE BrokerCloses(s) /\ s = signal
        <4>1. channel[s]
          BY <1>0, <2>1, <2>2, <3>4 DEF BrokerCloses, Attached
        <4> QED
          BY <2>1, <3>1, <3>4, <4>1, PushGrows
      <3>5. CASE ~BrokerCloses(s) \/ s # signal
        <4>1. signal \in subscribed => signal \in subscribed'
          BY <2>8, <3>5, DispatchCases DEF Dispatches, BrokerPushes, BrokerCloses
        <4> QED
          BY <2>1, <2>4, <3>2, <3>3, <4>1
      <3> QED
        BY <3>4, <3>5
    <2>9. ASSUME NEW k \in Conns,
                 Breaks(k) \/ HeartbeatFails(k) \/ Released(k) \/ OtherTakesError(k)
          PROVE  signal' \in subscribed' \/ close \in Range(stream'[signal'])
      <3>1. UNCHANGED stream
        BY <2>9 DEF Breaks, HeartbeatFails, Released, OtherTakesError
      <3>2. conn[connection] = "open" /\ (Breaks(k) => connection # k)
        BY <2>1, <2>9 DEF Breaks, HeartbeatFails, Released, OtherTakesError, TypeOK
      <3>3. home[signal] = connection
        BY <1>0, <2>1, <2>2 DEF Attached
      <3>4. signal \in subscribed => signal \in subscribed'
        BY <2>9, <3>2, <3>3 DEF Breaks, HeartbeatFails, Released, OtherTakesError, On
      <3> QED
        BY <2>1, <2>4, <3>1, <3>2, <3>4
    <2> QED
      BY <1>4, <2>6, <2>7, <2>8, <2>9 DEF Next, Broker, Connections
  <1> QED
    BY <1>1, <1>2, <1>3, <1>4

-----------------------------------------------------------------------------
(* The messages of the application, and what is acknowledged *)

\* The engine handles messages, and sends itself none.
LEMMA EngineReads ==
  ASSUME TypeOK, Engine
  PROVE  Range(engine_rx') \subseteq Range(engine_rx)
  <1>1. CASE UNCHANGED engine_rx
    BY <1>1
  <1>2. CASE engine_rx' = <<>>
    BY <1>2, RangeEmpty
  <1>3. CASE PollEngineMessage
    BY <1>3, RangeTail DEF PollEngineMessage, TypeOK
  <1>4. CASE \/ CheckConnection \/ Refill \/ Tick \/ PollMessage \/ PollDisconnected
             \/ PublishDeadLetter \/ AckDeadLetter \/ PollClosed
    BY <1>1, <1>2, <1>4 DEF CheckConnection, Refill, Tick, PollMessage,
         PollDisconnected, PublishDeadLetter, AckDeadLetter, PollClosed, Ends
  <1>5. CASE Deliver \/ Report
    BY <1>1, <1>2, <1>5 DEF Deliver, Report, Ends
  <1>6. CASE Lookup \/ Subscribe
    BY <1>1, <1>2, <1>6 DEF Lookup, Subscribe, Failed, Ends
  <1> QED
    BY <1>3, <1>4, <1>5, <1>6 DEF Engine

\* The messages on their way to the engine are those of the application and of
\* the ticker.
LEMMA MailStep ==
  ASSUME TypeOK, [Next]_vars
  PROVE  \A m \in Range(engine_rx') : m \in Range(engine_rx) \/ Sendable(m)
  <1>0. engine_rx \in Seq(EngineMessages)
    BY DEF TypeOK
  <1>1. CASE Engine
    BY <1>1, EngineReads
  <1>2. ASSUME NEW id \in Range(received), Settle(id)
        PROVE  \A m \in Range(engine_rx') : m \in Range(engine_rx) \/ Sendable(m)
    <2>1. id \in Ids
      BY RangeType DEF TypeOK
    <2>2. PICK m : /\ engine_rx' = Append(engine_rx, m) /\ m \in EngineMessages
                   /\ Sendable(m)
      <3>1. /\ EngineMessage("Ack", id, FALSE) \in EngineMessages
            /\ EngineMessage("Ack", id, TRUE) \in EngineMessages
            /\ EngineMessage("Nack", id, FALSE) \in EngineMessages
        BY <2>1, ValueTypes
      <3>2. /\ "ack" \in AppActs => Sendable(EngineMessage("Ack", id, FALSE))
            /\ "cumulative" \in AppActs => Sendable(EngineMessage("Ack", id, TRUE))
            /\ Sendable(EngineMessage("Nack", id, FALSE))
        BY DEF EngineMessage, Sendable
      <3> QED
        BY <1>2, <3>1, <3>2 DEF Settle
    <2>3. Range(engine_rx') = Range(engine_rx) \cup {m}
      BY <1>0, <2>2, RangeAppend
    <2> QED
      BY <2>2, <2>3
  <1>3. CASE Ask \/ Ticker
    <2>1. PICK m : /\ engine_rx' = Append(engine_rx, m) /\ m \in EngineMessages
                   /\ m.type # "Ack"
      <3> DEFINE asks == EngineMessage("GetConnection", <<>>, FALSE)
                 ticks == EngineMessage("UnackedRedelivery", <<>>, FALSE)
      <3>1. asks \in EngineMessages /\ ticks \in EngineMessages
        BY ValueTypes
      <3>2. asks.type # "Ack" /\ ticks.type # "Ack"
        BY DEF EngineMessage
      <3>3. engine_rx' = Append(engine_rx, asks) \/ engine_rx' = Append(engine_rx, ticks)
        BY <1>3 DEF Ask, Ticker
      <3> HIDE DEF asks, ticks
      <3> QED
        BY <3>1, <3>2, <3>3
    <2>2. Range(engine_rx') = Range(engine_rx) \cup {m}
      BY <1>0, <2>1, RangeAppend
    <2> QED
      BY <2>1, <2>2 DEF Sendable
  <1>4. CASE UNCHANGED engine_rx
    BY <1>4
  <1>5. ASSUME NEW s \in Subs, Dispatch(s) \/ BrokerCloses(s) \/ BrokerPushes(s) \/ CloseTask(s)
        PROVE  UNCHANGED engine_rx
    BY <1>5, DispatchCases DEF Dispatches, BrokerCloses, BrokerPushes, CloseTask
  <1>6. CASE Connections \/ Receive \/ DropConsumer \/ UNCHANGED vars
    BY <1>4, <1>6 DEF Connections, Breaks, HeartbeatFails, Released, OtherTakesError,
                CheckConnections, Receive, DropConsumer, vars
  <1> QED
    BY <1>1, <1>2, <1>3, <1>4, <1>5, <1>6 DEF Next, Application, Broker

\* What is acknowledged, and by whom
LEMMA AckedStep ==
  ASSUME TypeOK, [Next]_vars
  PROVE  \/ UNCHANGED acked
         \/ /\ PollEngineMessage
            /\ Head(engine_rx).type = "Ack"
            /\ acked' \subseteq acked \cup (IF Head(engine_rx).cumulative
                                            THEN UpTo(Head(engine_rx).id)
                                            ELSE {Head(engine_rx).id})
         \/ AckDeadLetter /\ acked' \subseteq acked \cup {Head(out)}
  <1>1. CASE PollEngineMessage
    <2> DEFINE m == Head(engine_rx)
    <2>1. CASE m.type = "Ack" /\ Ack(m.id, m.cumulative)
      BY <1>1, <2>1 DEF Ack, Acknowledge
    <2>2. CASE UNCHANGED acked
      BY <2>2
    <2> QED
      BY <1>1, <2>1, <2>2 DEF PollEngineMessage, Handle
  <1>2. CASE PublishDeadLetter \/ AckDeadLetter
    BY <1>2 DEF PublishDeadLetter, AckDeadLetter, Ack, Acknowledge
  <1>3. CASE \/ CheckConnection \/ Refill \/ Tick \/ PollMessage \/ PollDisconnected
             \/ PollClosed \/ Deliver \/ Report \/ Lookup \/ Subscribe
    BY <1>3 DEF CheckConnection, Refill, Tick, PollMessage, PollDisconnected,
                PollClosed, Deliver, Report, Lookup, Subscribe
  <1>4. ASSUME NEW s \in Subs, Dispatch(s) \/ BrokerCloses(s) \/ BrokerPushes(s) \/ CloseTask(s)
        PROVE  UNCHANGED acked
    BY <1>4, DispatchCases DEF Dispatches, BrokerCloses, BrokerPushes, CloseTask
  <1>5. CASE Connections
    BY <1>5 DEF Connections, Breaks, HeartbeatFails, Released, OtherTakesError,
                CheckConnections
  <1>6. CASE Application \/ Ticker \/ UNCHANGED vars
    BY <1>6 DEF Application, Receive, Ask, DropConsumer, Settle, Ticker, vars
  <1> QED
    BY <1>1, <1>2, <1>3, <1>4, <1>5, <1>6 DEF Next, Engine, Broker

\* The dead letter topic forgets nothing.
LEMMA DeadStep ==
  ASSUME TypeOK, [Next]_vars
  PROVE  dead \subseteq dead'
  <1>1. CASE PublishDeadLetter \/ AckDeadLetter
    BY <1>1 DEF PublishDeadLetter, AckDeadLetter
  <1>2. CASE \/ CheckConnection \/ Refill \/ Tick \/ PollMessage \/ PollDisconnected
             \/ PollClosed \/ Deliver \/ Report \/ Lookup \/ Subscribe \/ PollEngineMessage
    BY <1>2 DEF CheckConnection, Refill, Tick, PollMessage, PollDisconnected,
                PollClosed, Deliver, Report, Lookup, Subscribe, PollEngineMessage
  <1>3. ASSUME NEW s \in Subs, Dispatch(s) \/ BrokerCloses(s) \/ BrokerPushes(s) \/ CloseTask(s)
        PROVE  UNCHANGED dead
    BY <1>3, DispatchCases DEF Dispatches, BrokerCloses, BrokerPushes, CloseTask
  <1>4. CASE Connections
    BY <1>4 DEF Connections, Breaks, HeartbeatFails, Released, OtherTakesError,
                CheckConnections
  <1>5. CASE Application \/ Ticker \/ UNCHANGED vars
    BY <1>5 DEF Application, Receive, Ask, DropConsumer, Settle, Ticker, vars
  <1> QED
    BY <1>1, <1>2, <1>3, <1>4, <1>5 DEF Next, Engine, Broker

\* The engine acknowledges a dead letter with its receipt.
LEMMA PublishedStep ==
  ASSUME TypeOK, Published, [Next]_vars
  PROVE  Published'
  <1> USE DEF Published
  <1>1. CASE PublishDeadLetter
    BY <1>1 DEF PublishDeadLetter
  <1>2. CASE \/ CheckConnection \/ Refill \/ Tick \/ PollMessage \/ PollDisconnected
             \/ PollClosed \/ Deliver \/ Report \/ AckDeadLetter \/ PollEngineMessage
    BY <1>2 DEF CheckConnection, Refill, Select, Tick, PollMessage, Process, PollDisconnected,
                PollClosed, Deliver, Report, AckDeadLetter, PollEngineMessage, Ends
  <1>3. CASE Lookup \/ Subscribe
    BY <1>3 DEF Lookup, Subscribe, Failed, Ends
  <1>4. CASE ~Engine
    BY <1>4, OutsideEngine, DeadStep DEF Next
  <1> QED
    BY <1>1, <1>2, <1>3, <1>4 DEF Engine

\* What the application has received stays received.
LEMMA ReceivedStep ==
  ASSUME TypeOK, [Next]_vars
  PROVE  Range(received) \subseteq Range(received')
  <1>1. CASE Receive
    <2>1. received \in Seq(Ids) /\ (Head(tx) # Failure => Head(tx) \in Ids)
      BY <1>1, PopType DEF Receive, TypeOK
    <2>2. CASE Head(tx) # Failure
      <3>1. Range(Append(received, Head(tx))) = Range(received) \cup {Head(tx)}
        BY <2>1, <2>2, RangeAppend
      <3> QED
        BY <1>1, <2>2, <3>1 DEF Receive
    <2> QED
      BY <1>1, <2>2 DEF Receive
  <1>2. CASE UNCHANGED received
    BY <1>2
  <1> QED
    BY <1>1, <1>2, EngineSends, OutsideSends DEF Next, Application, DropConsumer

\* The application acknowledges what it has received.
LEMMA SendableStep ==
  ASSUME TypeOK, Mail, [Next]_vars
  PROVE  Mail'
  BY MailStep, ReceivedStep DEF Mail, Sendable

\* A message that the engine handles was sent by the application.
LEMMA HandledMail ==
  ASSUME TypeOK, Mail, PollEngineMessage
  PROVE  Sendable(Head(engine_rx)) /\ Head(engine_rx) \in EngineMessages
  <1>1. engine_rx \in Seq(EngineMessages) /\ engine_rx # <<>>
    BY DEF PollEngineMessage, TypeOK
  <1>2. Head(engine_rx) \in Range(engine_rx) /\ Head(engine_rx) \in EngineMessages
    BY <1>1, RangeTail
  <1> QED
    BY <1>2 DEF Mail

\* The engine acknowledges on its own only what it has published.
LEMMA DeadLetterStep ==
  ASSUME TypeOK, Mail, Published, DeadLetterFirst, [Next]_vars
  PROVE  DeadLetterFirst'
  <1> SUFFICES ASSUME AppActs \cap {"ack", "cumulative"} = {}, NEW id \in acked'
               PROVE  id[1] \in dead'
    BY DEF DeadLetterFirst
  <1>1. ~(PollEngineMessage /\ Head(engine_rx).type = "Ack")
    BY HandledMail DEF Sendable
  <1>2. AckDeadLetter => Head(out)[1] \in dead
    BY DEF AckDeadLetter, Published
  <1> QED
    BY <1>1, <1>2, AckedStep, DeadStep DEF DeadLetterFirst

-----------------------------------------------------------------------------
(* The way of a message *)

\* The message that the engine takes from its stream
Taken == Head(stream[held])

\* PollMessage takes the first item of the stream it holds.
LEMMA TakenType ==
  ASSUME TypeOK, PollMessage
  PROVE  /\ held \in Subs /\ held # None
         /\ stream[held] \in Seq(Items) /\ stream[held] # <<>>
         /\ Taken \in Items /\ Taken \in Range(stream[held])
         /\ stream'[held] = Tail(stream[held])
         /\ Range(stream[held]) = Range(stream'[held]) \cup {Taken}
         /\ \A t \in Subs \ {held} : stream'[t] = stream[t]
  <1>1. held \in Subs /\ held # None /\ stream[held] \in Seq(Items) /\ stream[held] # <<>>
    BY Numbers DEF PollMessage, TypeOK
  <1>2. /\ stream'[held] = Tail(stream[held])
        /\ \A t \in Subs \ {held} : stream'[t] = stream[t]
    BY <1>1 DEF PollMessage, TypeOK
  <1>3. /\ Range(stream[held]) = Range(Tail(stream[held])) \cup {Taken}
        /\ Taken \in Items
    BY <1>1, RangeTail DEF Taken
  <1> QED
    BY <1>1, <1>2, <1>3

\* The messages in the streams were there before, or are being dispatched.
LEMMA StreamStep ==
  ASSUME TypeOK, [Next]_vars, NEW e \in Entries, InStream(e)'
  PROVE  InStream(e) \/ \E s \in Subs : Dispatches(s, e)
  <1>0. PICK t \in Subs : \E item \in Range(stream'[t]) :
                            item.kind = "message" /\ item.entry = e
    BY DEF InStream
  <1>1. PICK item \in Range(stream'[t]) : item.kind = "message" /\ item.entry = e
    BY <1>0
  <1>2. ASSUME item \in Range(stream[t]) PROVE InStream(e)
    BY <1>1, <1>2 DEF InStream
  <1>3. CASE UNCHANGED stream
    BY <1>1, <1>2, <1>3
  <1>4. CASE PollMessage
    BY <1>1, <1>2, <1>4, TakenType
  <1>5. CASE Engine
    BY <1>3, <1>4, <1>5, EngineStays DEF Lookup, Subscribe
  <1>6. ASSUME NEW s \in Subs, NEW x \in Items, Push(s, x), item # x
        PROVE  InStream(e)
    BY <1>1, <1>2, <1>6, PushGrows
  <1>7. ASSUME NEW s \in Subs, Dispatch(s)
        PROVE  InStream(e) \/ \E r \in Subs : Dispatches(r, e)
    <2>1. PICK f \in Entries : Dispatches(s, f)
      BY <1>7, DispatchCases
    <2>2. Message(f) \in Items /\ Push(s, Message(f)) /\ Message(f).entry = f
      BY <2>1 DEF Dispatches, Message, Items, TypeOK
    <2>3. CASE f = e
      BY <2>1, <2>3
    <2>4. CASE f # e
      BY <1>1, <1>6, <2>2, <2>4
    <2> QED
      BY <2>3, <2>4
  <1>8. ASSUME NEW s \in Subs, BrokerCloses(s) \/ BrokerPushes(s) PROVE InStream(e)
    <2>1. PICK kind \in Commands : Push(s, Command(kind))
      BY <1>8 DEF BrokerCloses, BrokerPushes, Commands
    <2>2. Command(kind) \in Items /\ Command(kind).kind # "message"
      BY ValueTypes DEF Command, Commands
    <2> QED
      BY <1>1, <1>6, <2>1, <2>2
  <1>9. CASE \/ Application \/ Ticker \/ Connections \/ UNCHANGED vars
             \/ \E s \in Subs : CloseTask(s)
    BY <1>3, <1>9 DEF Application, Receive, Ask, DropConsumer, Settle, Ticker, vars,
         Connections, Breaks, HeartbeatFails, Released, OtherTakesError,
         CheckConnections, CloseTask
  <1> QED
    BY <1>5, <1>7, <1>8, <1>9 DEF Next, Broker

\* What the engine has to send is what it had, or comes from the stream.
LEMMA OutStep ==
  ASSUME TypeOK, Control, [Next]_vars
  PROVE  \/ UNCHANGED out
         \/ out' = <<>>
         \/ Deliver /\ ~dropped /\ out' = Tail(out)
         \/ /\ PollMessage /\ out = <<>>
            /\ Taken.kind = "message" /\ Taken.entry \notin Bad
            /\ out' = IdsOf(Taken.entry)
            /\ (DeadLetter = NoPolicy => pc' = "deliver")
  <1>1. CASE PollMessage
    <2>1. out = <<>>
      BY <1>1 DEF PollMessage, Control
    <2> QED
      BY <1>1, <2>1 DEF PollMessage, Process, Ends, Taken, IsDead
  <1>2. CASE CheckConnection \/ Refill \/ Tick \/ PollDisconnected \/ PollClosed
    BY <1>2 DEF CheckConnection, Refill, Tick, PollDisconnected, PollClosed, Ends
  <1>3. CASE Deliver \/ Report \/ PublishDeadLetter \/ AckDeadLetter \/ PollEngineMessage
    BY <1>3 DEF Deliver, Report, PublishDeadLetter, AckDeadLetter, PollEngineMessage, Ends
  <1>4. CASE Lookup \/ Subscribe
    BY <1>4 DEF Lookup, Subscribe, Failed, Ends
  <1>5. CASE ~Engine
    BY <1>5, OutsideEngine DEF Next
  <1> QED
    BY <1>1, <1>2, <1>3, <1>4, <1>5 DEF Engine

\* What the application is sent comes from the engine.
LEMMA SentStep ==
  ASSUME TypeOK, Control, [Next]_vars, NEW id \in Ids, Given(id)'
  PROVE  Given(id) \/ (Deliver /\ ~dropped /\ id = Head(out) /\ id \in Range(out))
  <1>0. tx \in Seq(Ids \cup {Failure}) /\ received \in Seq(Ids) /\ id # Failure
    BY IdTypes DEF TypeOK
  <1>1. CASE UNCHANGED <<tx, received>>
    BY <1>1 DEF Given
  <1>2. CASE Engine
    <2>1. UNCHANGED received
      BY <1>2, EngineSends
    <2>2. CASE tx' = Append(tx, Failure)
      <3>1. Range(tx') = Range(tx) \cup {Failure}
        BY <1>0, <2>2, RangeAppend
      <3> QED
        BY <1>0, <2>1, <3>1 DEF Given
    <2>3. CASE pc = "deliver" /\ ~dropped /\ tx' = Append(tx, Head(out))
      <3>1. out \in Seq(Ids) /\ out # <<>>
        BY <2>3 DEF Control, TypeOK
      <3>2. Head(out) \in Ids /\ Head(out) \in Range(out)
        BY <3>1, RangeTail
      <3>3. Range(tx') = Range(tx) \cup {Head(out)}
        BY <1>0, <2>3, <3>2, RangeAppend
      <3>4. Deliver
        <4>1. tx' # tx
          <5>1. Len(tx') = Len(tx) + 1 /\ Len(tx) \in Nat
            BY <1>0, <2>3, <3>2
          <5> QED
            BY <5>1
        <4> QED
          BY <1>2, <2>3, <4>1 DEF Engine, CheckConnection, Refill, Tick, PollMessage,
               PollDisconnected, Report, PublishDeadLetter, AckDeadLetter, PollEngineMessage,
               PollClosed, Lookup, Subscribe
      <3> QED
        BY <2>1, <2>3, <3>2, <3>3, <3>4 DEF Given
    <2> QED
      BY <1>1, <1>2, <2>1, <2>2, <2>3, EngineSends
  <1>3. CASE Receive
    <2>1. Range(tx) = Range(Tail(tx)) \cup {Head(tx)} /\ Head(tx) \in Ids \cup {Failure}
      BY <1>0, <1>3, RangeTail DEF Receive
    <2>2. CASE Head(tx) # Failure
      <3>1. Range(Append(received, Head(tx))) = Range(received) \cup {Head(tx)}
        BY <1>0, <2>1, <2>2, RangeAppend
      <3> QED
        BY <1>3, <2>1, <2>2, <3>1 DEF Receive, Given
    <2>3. CASE Head(tx) = Failure
      BY <1>3, <2>1, <2>3 DEF Receive, Given
    <2> QED
      BY <2>2, <2>3
  <1>4. CASE DropConsumer
    BY <1>4, RangeEmpty DEF DropConsumer, Given
  <1> QED
    BY <1>1, <1>2, <1>3, <1>4, OutsideSends DEF Next, Application

\* The broker counts what it dispatches.
LEMMA CountsStep ==
  ASSUME TypeOK, [Next]_vars, NEW e \in Entries
  PROVE  /\ dispatched[e] \in Nat
         /\ \/ /\ dispatched'[e] = dispatched[e]
               /\ \A s \in Subs : ~Dispatches(s, e)
            \/ /\ dispatched'[e] = dispatched[e] + 1
               /\ \E s \in Subs : Dispatches(s, e)
  <1>1. dispatched[e] \in Nat
    BY DEF TypeOK
  <1>2. ASSUME NEW s \in Subs, Dispatches(s, e) PROVE dispatched'[e] = dispatched[e] + 1
    BY <1>2 DEF Dispatches, TypeOK
  <1>3. dispatched[e] # dispatched[e] + 1
    BY <1>1
  <1>4. ASSUME UNCHANGED dispatched
        PROVE  dispatched'[e] = dispatched[e] /\ \A s \in Subs : ~Dispatches(s, e)
    BY <1>2, <1>3, <1>4
  <1>5. ASSUME NEW s \in Subs, Dispatch(s)
        PROVE  \/ /\ dispatched'[e] = dispatched[e]
                  /\ \A r \in Subs : ~Dispatches(r, e)
               \/ /\ dispatched'[e] = dispatched[e] + 1
                  /\ \E r \in Subs : Dispatches(r, e)
    <2>1. PICK f \in Entries : Dispatches(s, f)
      BY <1>5, DispatchCases
    <2>2. CASE f = e
      BY <1>2, <2>1, <2>2
    <2>3. CASE f # e
      <3>1. dispatched'[e] = dispatched[e]
        BY <2>1, <2>3 DEF Dispatches, TypeOK
      <3> QED
        BY <1>2, <1>3, <3>1
    <2> QED
      BY <2>2, <2>3
  <1>6. CASE Engine
    BY <1>1, <1>4, <1>6, EngineStays DEF Lookup, Subscribe
  <1>7. ASSUME NEW s \in Subs, BrokerCloses(s) \/ BrokerPushes(s) \/ CloseTask(s)
        PROVE  UNCHANGED dispatched
    BY <1>7 DEF BrokerCloses, BrokerPushes, CloseTask
  <1>8. CASE Application \/ Ticker \/ Connections \/ UNCHANGED vars
    BY <1>1, <1>4, <1>8 DEF Application, Receive, Ask, DropConsumer, Settle, Ticker, vars,
         Connections, Breaks, HeartbeatFails, Released, OtherTakesError,
         CheckConnections
  <1> QED
    BY <1>1, <1>4, <1>5, <1>6, <1>7, <1>8 DEF Next, Broker

\* What is on its way was dispatched.
LEMMA DispatchedStep ==
  ASSUME TypeOK, Control, Dispatched, [Next]_vars
  PROVE  Dispatched'
  <1>1. ASSUME NEW e \in Entries
        PROVE  dispatched[e] > 0 \/ (\E s \in Subs : Dispatches(s, e)) => dispatched'[e] > 0
    BY CountsStep
  <1>2. ASSUME NEW e \in Entries, InStream(e)' PROVE dispatched'[e] > 0
    BY <1>1, <1>2, StreamStep DEF Dispatched
  <1>3. \A id \in Ids : (id \in Range(out) \/ Given(id)) =>
                          dispatched[id[1]] > 0 /\ id[1] \notin Bad
    BY IdTypes DEF Dispatched, Given
  <1>4. ASSUME NEW id \in Ids, Given(id)' PROVE dispatched'[id[1]] > 0 /\ id[1] \notin Bad
    BY <1>1, <1>3, <1>4, SentStep, IdTypes
  <1>5. ASSUME NEW id \in Range(out') PROVE dispatched'[id[1]] > 0 /\ id[1] \notin Bad
    <2>1. out \in Seq(Ids)
      BY DEF TypeOK
    <2>2. CASE id \in Range(out)
      BY <1>1, <1>3, <2>1, <2>2, IdTypes, RangeType
    <2>3. CASE /\ PollMessage /\ Taken.kind = "message" /\ Taken.entry \notin Bad
               /\ out' = IdsOf(Taken.entry)
      <3>1. Taken.entry \in Entries /\ InStream(Taken.entry)
        BY <2>3, TakenType, ValueTypes DEF InStream
      <3>2. id[1] = Taken.entry
        BY <1>5, <2>3, <3>1, IdsOfTypes
      <3> QED
        BY <1>1, <2>3, <3>1, <3>2 DEF Dispatched
    <2>4. out # <<>> => Range(Tail(out)) \subseteq Range(out)
      BY <2>1, RangeTail
    <2>5. Deliver => out # <<>>
      BY DEF Deliver, Control
    <2> QED
      BY <1>5, <2>2, <2>3, <2>4, <2>5, OutStep, RangeEmpty
  <1>6. Range(tx') \subseteq Ids \cup {Failure} /\ Range(received') \subseteq Ids
    <2>1. TypeOK'
      BY TypeStep
    <2> QED
      BY <2>1, RangeType DEF TypeOK
  <1>7. \A id \in (Range(tx') \ {Failure}) \cup Range(received') : id \in Ids /\ Given(id)'
    BY <1>6 DEF Given
  <1> QED
    BY <1>2, <1>4, <1>5, <1>7 DEF Dispatched

-----------------------------------------------------------------------------
(* A message dispatched once is in one place *)

\* A pushed item is the last of its stream; the others keep their places.
LEMMA PushAt ==
  ASSUME TypeOK, NEW r \in Subs, NEW x \in Items, Push(r, x),
         NEW t \in Subs, NEW i \in 1..Len(stream'[t])
  PROVE  \/ i \in 1..Len(stream[t]) /\ stream'[t][i] = stream[t][i]
         \/ t = r /\ i = Len(stream[r]) + 1 /\ stream'[t][i] = x
  <1>1. stream[t] \in Seq(Items) /\ stream[r] \in Seq(Items)
    BY DEF TypeOK
  <1>2. CASE stream'[t] = stream[t]
    BY <1>2
  <1>3. CASE t = r /\ stream'[r] = Append(stream[r], x)
    <2>1. /\ Len(Append(stream[r], x)) = Len(stream[r]) + 1 /\ Len(stream[r]) \in Nat
          /\ Append(stream[r], x)[Len(stream[r]) + 1] = x
          /\ \A n \in 1..Len(stream[r]) : Append(stream[r], x)[n] = stream[r][n]
      BY <1>1
    <2> QED
      BY <1>3, <2>1
  <1> QED
    BY <1>2, <1>3, PushGrows

\* Taking the first item of a stream moves the others one place.
LEMMA TakenAt ==
  ASSUME TypeOK, PollMessage, NEW t \in Subs, NEW i \in 1..Len(stream'[t])
  PROVE  \/ t # held /\ i \in 1..Len(stream[t]) /\ stream'[t][i] = stream[t][i]
         \/ /\ t = held /\ i + 1 \in 1..Len(stream[t]) /\ i + 1 # 1
            /\ stream'[t][i] = stream[t][i + 1]
  <1>1. CASE t # held
    BY <1>1, TakenType
  <1>2. CASE t = held
    <2>1. stream[held] \in Seq(Items) /\ stream[held] # <<>>
          /\ stream'[held] = Tail(stream[held])
      BY TakenType
    <2>2. /\ Len(Tail(stream[held])) = Len(stream[held]) - 1
          /\ Len(stream[held]) \in Nat \ {0}
          /\ \A n \in 1..(Len(stream[held]) - 1) : Tail(stream[held])[n] = stream[held][n + 1]
      BY <2>1
    <2> QED
      BY <1>2, <2>1, <2>2
  <1> QED
    BY <1>1, <1>2

\* A message of entry e is at place i of stream t.
IsAt(e, t, i) ==
  i \in 1..Len(stream[t]) /\ stream[t][i].kind = "message" /\ stream[t][i].entry = e

\* An entry that is in a stream was dispatched; if it still was dispatched once
\* only, it is not dispatched in this step.
LEMMA OnceBefore ==
  ASSUME TypeOK, Dispatched, [Next]_vars, NEW e \in Entries, dispatched'[e] = 1,
         NEW t \in Subs, NEW i, IsAt(e, t, i)
  PROVE  dispatched[e] = 1 /\ \A s \in Subs : ~Dispatches(s, e)
  <1>1. stream[t] \in Seq(Items)
    BY DEF TypeOK
  <1>2. stream[t][i] \in Range(stream[t])
    BY <1>1, RangeType DEF IsAt
  <1>3. InStream(e)
    BY <1>2 DEF IsAt, InStream
  <1>4. dispatched[e] > 0
    BY <1>3 DEF Dispatched
  <1> QED
    BY <1>4, CountsStep

\* Two messages of an entry dispatched once are the same message.
LEMMA AloneStep ==
  ASSUME TypeOK, Control, Dispatched, Alone, [Next]_vars
  PROVE  Alone'
  <1> SUFFICES ASSUME NEW s \in Subs, NEW t \in Subs,
                      NEW i \in 1..Len(stream'[s]), NEW j \in 1..Len(stream'[t]),
                      NEW e, IsAt(e, s, i)', IsAt(e, t, j)', dispatched'[e] = 1
               PROVE  s = t /\ i = j
    BY DEF Alone, IsAt
  <1>0. e \in Entries
    <2>1. TypeOK'
      BY TypeStep
    <2>2. stream'[s] \in Seq(Items)
      BY <2>1 DEF TypeOK
    <2>3. stream'[s][i] \in Items
      BY <2>2
    <2> QED
      BY <2>3, ValueTypes DEF IsAt
  <1>1. ASSUME NEW m, NEW n, IsAt(e, s, m), IsAt(e, t, n) PROVE s = t /\ m = n
    <2>1. dispatched[e] = 1
      BY <1>0, <1>1, OnceBefore
    <2> QED
      BY <1>1, <2>1 DEF Alone, IsAt
  <1>2. CASE UNCHANGED stream
    BY <1>1, <1>2 DEF IsAt
  <1>3. CASE PollMessage
    <2>1. CASE s = held /\ t = held
      <3>1. IsAt(e, s, i + 1) /\ IsAt(e, t, j + 1)
        BY <1>3, <2>1, TakenAt DEF IsAt
      <3>2. i + 1 = j + 1 /\ i \in Nat /\ j \in Nat
        <4>1. stream'[s] \in Seq(Items) /\ stream'[t] \in Seq(Items)
          BY TypeStep DEF TypeOK
        <4> QED
          BY <1>1, <3>1, <4>1
      <3> QED
        BY <2>1, <3>2
    <2>2. CASE s # held /\ t # held
      <3>1. IsAt(e, s, i) /\ IsAt(e, t, j)
        BY <1>3, <2>2, TakenAt DEF IsAt
      <3> QED
        BY <1>1, <3>1
    <2>3. CASE s # held /\ t = held
      <3>1. IsAt(e, s, i) /\ IsAt(e, t, j + 1)
        BY <1>3, <2>3, TakenAt DEF IsAt
      <3> QED
        BY <1>1, <2>3, <3>1
    <2>4. CASE s = held /\ t # held
      <3>1. IsAt(e, s, i + 1) /\ IsAt(e, t, j)
        BY <1>3, <2>4, TakenAt DEF IsAt
      <3> QED
        BY <1>1, <2>4, <3>1
    <2> QED
      BY <2>1, <2>2, <2>3, <2>4
  <1>4. ASSUME NEW r \in Subs, NEW x \in Items, Push(r, x),
               x.kind = "message" /\ x.entry = e => Dispatches(r, e)
        PROVE  s = t /\ i = j
    <2>1. IsAt(e, s, i) \/ (s = r /\ i = Len(stream[r]) + 1 /\ Dispatches(r, e))
      BY <1>4, PushAt DEF IsAt
    <2>2. IsAt(e, t, j) \/ (t = r /\ j = Len(stream[r]) + 1 /\ Dispatches(r, e))
      BY <1>4, PushAt DEF IsAt
    <2>3. IsAt(e, s, i) \/ IsAt(e, t, j) => ~Dispatches(r, e)
      BY <1>0, OnceBefore
    <2> QED
      BY <1>1, <2>1, <2>2, <2>3
  <1>5. ASSUME NEW r \in Subs, Dispatch(r) PROVE s = t /\ i = j
    <2>1. PICK f \in Entries : Dispatches(r, f)
      BY <1>5, DispatchCases
    <2>2. Message(f) \in Items /\ Push(r, Message(f)) /\ Message(f).entry = f
      BY <2>1 DEF Dispatches, Message, Items, TypeOK
    <2> QED
      BY <1>4, <2>1, <2>2
  <1>6. ASSUME NEW r \in Subs, BrokerCloses(r) \/ BrokerPushes(r) PROVE s = t /\ i = j
    <2>1. PICK kind \in Commands : Push(r, Command(kind))
      BY <1>6 DEF BrokerCloses, BrokerPushes, Commands
    <2>2. Command(kind) \in Items /\ Command(kind).kind # "message"
      BY ValueTypes DEF Command, Commands
    <2> QED
      BY <1>4, <2>1, <2>2
  <1>7. CASE Engine
    BY <1>2, <1>3, <1>7, EngineStays DEF Lookup, Subscribe
  <1>8. CASE \/ Application \/ Ticker \/ Connections \/ UNCHANGED vars
             \/ \E r \in Subs : CloseTask(r)
    BY <1>2, <1>8 DEF Application, Receive, Ask, DropConsumer, Settle, Ticker, vars,
         Connections, Breaks, HeartbeatFails, Released, OtherTakesError,
         CheckConnections, CloseTask
  <1> QED
    BY <1>5, <1>6, <1>7, <1>8 DEF Next, Broker

\* The engine keeps track of what it delivers, until it is acknowledged.
LEMMA UnackedStep ==
  ASSUME TypeOK, Control, [Next]_vars, NEW id \in unacked_messages'
  PROVE  /\ \/ id \in unacked_messages
            \/ Deliver /\ ~dropped /\ id = Head(out) /\ id \in Range(out)
         /\ PollEngineMessage /\ Head(engine_rx).type = "Ack" => id # Head(engine_rx).id
         /\ AckDeadLetter => id # Head(out)
  <1>1. CASE PollEngineMessage
    <2>1. PollEngineMessage => pc = "select"
      BY DEF PollEngineMessage
    <2>2. ~AckDeadLetter
      BY <1>1, <2>1 DEF AckDeadLetter
    <2> QED
      BY <1>1, <2>2 DEF PollEngineMessage, Handle, Ack
  <1>2. CASE AckDeadLetter
    <2>1. ~PollEngineMessage
      BY <1>2 DEF AckDeadLetter, PollEngineMessage
    <2> QED
      BY <1>2, <2>1 DEF AckDeadLetter, Ack
  <1>3. CASE ~PollEngineMessage /\ ~AckDeadLetter
    <2>1. CASE \/ CheckConnection \/ Refill \/ Tick \/ PollDisconnected \/ PollClosed
               \/ PollMessage \/ PublishDeadLetter
      BY <1>3, <2>1 DEF CheckConnection, Refill, Tick, PollDisconnected, PollClosed,
                        PollMessage, PublishDeadLetter, Ends
    <2>2. CASE Deliver
      <3>1. out \in Seq(Ids) /\ out # <<>>
        BY <2>2 DEF Deliver, Control, TypeOK
      <3>2. Head(out) \in Range(out)
        BY <3>1, RangeTail
      <3> QED
        BY <1>3, <2>2, <3>2 DEF Deliver, Track, Ends
    <2>3. CASE Report
      BY <1>3, <2>3 DEF Report, Ends
    <2>4. CASE Lookup \/ Subscribe
      BY <1>3, <2>4 DEF Lookup, Subscribe, Failed, Ends
    <2>5. CASE ~Engine
      BY <1>3, <2>5, OutsideEngine DEF Next
    <2> QED
      BY <1>3, <2>1, <2>2, <2>3, <2>4, <2>5 DEF Engine
  <1> QED
    BY <1>1, <1>2, <1>3

\* Delivering a message takes it from what is to be delivered.
LEMMA DeliverTakes ==
  ASSUME TypeOK, Control, Deliver, ~dropped
  PROVE  /\ out \in Seq(Ids) /\ out # <<>> /\ out' = Tail(out)
         /\ Range(out) = Range(out') \cup {Head(out)}
         /\ (\A i, j \in 1..Len(out) : out[i] = out[j] => i = j) =>
              /\ Head(out) \notin Range(out')
              /\ \A i, j \in 1..Len(out') : out'[i] = out'[j] => i = j
  <1>1. out \in Seq(Ids) /\ out # <<>> /\ out' = Tail(out)
    BY DEF Deliver, Control, TypeOK
  <1>2. Range(out) = Range(out') \cup {Head(out)}
    BY <1>1, RangeTail
  <1>3. /\ Len(out) \in Nat \ {0} /\ Len(out') = Len(out) - 1
        /\ Head(out) = out[1] /\ out' \in Seq(Ids)
        /\ \A i \in 1..(Len(out) - 1) : out'[i] = out[i + 1]
    BY <1>1
  <1>4. ASSUME \A i, j \in 1..Len(out) : out[i] = out[j] => i = j
        PROVE  /\ Head(out) \notin Range(out')
               /\ \A i, j \in 1..Len(out') : out'[i] = out'[j] => i = j
    <2>1. \A i \in 1..(Len(out) - 1) : i + 1 \in 1..Len(out) /\ i + 1 # 1
      BY <1>3
    <2>2. ASSUME NEW i \in 1..(Len(out) - 1) PROVE out'[i] # Head(out)
      BY <1>3, <1>4, <2>1
    <2>3. Head(out) \notin Range(out')
      BY <1>3, <2>2, RangeType
    <2>4. ASSUME NEW i \in 1..(Len(out) - 1), NEW j \in 1..(Len(out) - 1), out'[i] = out'[j]
          PROVE  i = j
      <3>1. i + 1 = j + 1
        BY <1>3, <1>4, <2>1, <2>4
      <3> QED
        BY <1>3, <3>1
    <2> QED
      BY <1>3, <2>3, <2>4
  <1> QED
    BY <1>1, <1>2, <1>4

\* The message that is taken from the stream is the only one of its entry there.
LEMMA TakenLeaves ==
  ASSUME TypeOK, Alone, PollMessage, NEW e, Taken.kind = "message",
         Taken.entry = e, dispatched[e] = 1
  PROVE  ~InStream(e)'
  <1>1. held \in Subs /\ IsAt(e, held, 1)
    <2>1. stream[held] \in Seq(Items) /\ stream[held] # <<>>
      BY TakenType
    <2>2. 1 \in 1..Len(stream[held]) /\ stream[held][1] = Taken
      BY <2>1 DEF Taken
    <2> QED
      BY <2>2, TakenType DEF IsAt
  <1>2. ASSUME NEW t \in Subs, NEW i \in 1..Len(stream'[t]),
               stream'[t][i].kind = "message", stream'[t][i].entry = e
        PROVE  FALSE
    <2>1. CASE t # held
      <3>1. IsAt(e, t, i)
        BY <1>2, <2>1, TakenAt DEF IsAt
      <3> QED
        BY <1>1, <2>1, <3>1 DEF Alone, IsAt
    <2>2. CASE t = held
      <3>1. IsAt(e, t, i + 1) /\ i + 1 # 1
        BY <1>2, <2>2, TakenAt DEF IsAt
      <3> QED
        BY <1>1, <2>2, <3>1 DEF Alone, IsAt
    <2> QED
      BY <2>1, <2>2
  <1>3. ASSUME NEW t \in Subs
        PROVE  \A item \in Range(stream'[t]) : ~(item.kind = "message" /\ item.entry = e)
    <2>1. stream'[t] \in Seq(Items)
      BY MessageType DEF TypeOK
    <2> QED
      BY <1>2, <2>1, RangeType
  <1> QED
    BY <1>3 DEF InStream

\* What the engine has to send, after a step: the same or less, or what it has
\* taken from the stream.
LEMMA OutFrom ==
  ASSUME TypeOK, Control, [Next]_vars, NEW id \in Range(out')
  PROVE  \/ id \in Range(out)
         \/ /\ PollMessage /\ Taken.kind = "message" /\ Taken.entry = id[1]
            /\ InStream(id[1])
  <1>1. CASE /\ PollMessage /\ Taken.kind = "message" /\ out' = IdsOf(Taken.entry)
    <2>1. Taken.entry \in Entries
      BY <1>1, TakenType, ValueTypes
    <2>2. id[1] = Taken.entry
      BY <1>1, <2>1, IdsOfTypes
    <2> QED
      BY <1>1, <2>2, TakenType DEF InStream
  <1>2. CASE Deliver /\ ~dropped
    BY <1>2, DeliverTakes
  <1> QED
    BY <1>1, <1>2, OutStep, RangeEmpty

\* The places of the messages of an entry that is dispatched once stay apart.
LEMMA CopyStep ==
  ASSUME TypeOK, Control, Served, Mail, Dispatched, OneCopy, [Next]_vars,
         "cumulative" \notin AppActs,
         NEW id \in Ids, dispatched'[id[1]] = 1
  PROVE  /\ InStream(id[1])' => id \notin Range(out') /\ ~Given(id)'
         /\ id \in Range(out') => ~Given(id)'
         /\ id \in acked' => /\ ~InStream(id[1])' /\ id \notin Range(out')
                             /\ id \notin unacked_messages'
  <1> DEFINE e == id[1]
  <1>0. e \in Entries
    BY IdTypes
  <1>1. CASE \E s \in Subs : Dispatches(s, e)
    <2>1. dispatched[e] = 0
      BY <1>0, <1>1, CountsStep
    <2>2. id \notin Range(out) /\ ~Given(id) /\ id \notin acked
      BY <2>1, IdTypes DEF Dispatched, OneCopy, Given
    <2>3. UNCHANGED <<out, tx, received, acked>>
      BY <1>1 DEF Dispatches
    <2> QED
      BY <2>2, <2>3 DEF Given
  <1>2. CASE ~\E s \in Subs : Dispatches(s, e)
    <2>1. dispatched[e] = 1
      BY <1>0, <1>2, CountsStep
    <2>2. InStream(e)' => InStream(e)
      BY <1>0, <1>2, StreamStep
    <2>3. /\ InStream(e) => id \notin Range(out) /\ ~Given(id)
          /\ id \in Range(out) => ~Given(id)
          /\ id \in acked => /\ ~InStream(e) /\ id \notin Range(out)
                             /\ id \notin unacked_messages
      BY <2>1 DEF OneCopy
    <2>4. ASSUME PollMessage, Taken.kind = "message", Taken.entry = e PROVE ~InStream(e)'
      BY <2>1, <2>4, TakenLeaves DEF OneCopy
    <2>5. InStream(e)' => id \notin Range(out') /\ ~Given(id)'
      BY <2>2, <2>3, <2>4, OutFrom, SentStep
    <2>6. ASSUME id \in Range(out') PROVE ~Given(id)'
      <3>1. CASE Deliver /\ ~dropped
        <4>1. id # Head(out) /\ id \in Range(out)
          BY <2>6, <3>1, DeliverTakes DEF OneCopy
        <4> QED
          BY <2>3, <4>1, SentStep
      <3>2. CASE ~(Deliver /\ ~dropped)
        BY <2>3, <2>6, <3>2, OutFrom, SentStep
      <3> QED
        BY <3>1, <3>2
    <2>7. ASSUME id \in acked'
          PROVE  /\ ~InStream(e)' /\ id \notin Range(out') /\ id \notin unacked_messages'
      <3>1. CASE id \in acked
        BY <2>2, <2>3, <3>1, OutFrom, UnackedStep
      <3>2. CASE PollEngineMessage /\ Head(engine_rx).type = "Ack" /\ id = Head(engine_rx).id
        <4>1. id \in Range(received)
          BY <3>2, HandledMail DEF Sendable
        <4>2. ~InStream(e) /\ id \notin Range(out)
          BY <2>3, <4>1 DEF Given
        <4> QED
          BY <2>2, <3>2, <4>2, OutFrom, UnackedStep
      <3>3. CASE AckDeadLetter /\ id = Head(out)
        <4>1. id \in Range(out) /\ out' = <<>>
          <5>1. out \in Seq(Ids) /\ out # <<>>
            BY <3>3 DEF AckDeadLetter, Control, TypeOK
          <5> QED
            BY <3>3, <5>1, RangeTail DEF AckDeadLetter
        <4> QED
          BY <2>2, <2>3, <3>3, <4>1, UnackedStep, RangeEmpty
      <3>4. PollEngineMessage /\ Head(engine_rx).type = "Ack" => ~Head(engine_rx).cumulative
        BY HandledMail DEF Sendable
      <3> QED
        BY <2>7, <3>1, <3>2, <3>3, <3>4, AckedStep
    <2> QED
      BY <2>5, <2>6, <2>7
  <1> QED
    BY <1>1, <1>2

\* Every step keeps AckInv.
LEMMA OneCopyStep ==
  ASSUME TypeOK, Control, Served, Mail, Dispatched, AckInv, [Next]_vars
  PROVE  AckInv'
  <1> SUFFICES ASSUME "cumulative" \notin AppActs, OneCopy PROVE OneCopy'
    BY DEF AckInv
  <1>1. Alone'
    BY AloneStep DEF OneCopy
  <1>2. \A i, j \in 1..Len(out') : out'[i] = out'[j] => i = j
    <2>1. CASE UNCHANGED out
      BY <2>1 DEF OneCopy
    <2>2. CASE out' = <<>>
      <3>1. 1..Len(out') = {}
        BY <2>2
      <3> QED
        BY <3>1
    <2>3. CASE Deliver /\ ~dropped
      BY <2>3, DeliverTakes DEF OneCopy
    <2>4. CASE PollMessage /\ Taken.kind = "message" /\ out' = IdsOf(Taken.entry)
      <3>1. Taken.entry \in Entries
        BY <2>4, TakenType, ValueTypes
      <3> QED
        BY <2>4, <3>1, IdsOfTypes
    <2> QED
      BY <2>1, <2>2, <2>3, <2>4, OutStep
  <1>3. ASSUME NEW id \in acked' PROVE dispatched'[id[1]] > 0
    <2>1. \A x \in Range(out) \cup Range(received) : dispatched[x[1]] > 0
      BY DEF Dispatched
    <2>2. PollEngineMessage /\ Head(engine_rx).type = "Ack" =>
            /\ Head(engine_rx).id \in Range(received) /\ ~Head(engine_rx).cumulative
      BY HandledMail DEF Sendable
    <2>3. AckDeadLetter => Head(out) \in Range(out)
      <3>1. AckDeadLetter => out \in Seq(Ids) /\ out # <<>>
        BY DEF AckDeadLetter, Control, TypeOK
      <3> QED
        BY <3>1, RangeTail
    <2>4. dispatched[id[1]] > 0
      BY <2>1, <2>2, <2>3, AckedStep DEF OneCopy
    <2>5. id[1] \in Entries
      <3>1. TypeOK'
        BY TypeStep
      <3> QED
        BY <3>1, IdTypes DEF TypeOK
    <2> QED
      BY <2>4, <2>5, CountsStep
  <1>4. ASSUME NEW id \in Ids, dispatched'[id[1]] = 1
        PROVE  /\ InStream(id[1])' => id \notin Range(out') /\ ~Given(id)'
               /\ id \in Range(out') => ~Given(id)'
               /\ id \in acked' => /\ ~InStream(id[1])' /\ id \notin Range(out')
                                   /\ id \notin unacked_messages'
    BY <1>4, CopyStep
  <1> QED
    BY <1>1, <1>2, <1>3, <1>4 DEF OneCopy

-----------------------------------------------------------------------------
(* A working engine forgets no message *)

\* Besides the engine, only the broker changes a stream, and nothing a home.
LEMMA OutsideStreams ==
  ASSUME TypeOK,
         \/ Application \/ Ticker \/ Connections \/ UNCHANGED vars
         \/ \E s \in Subs : CloseTask(s)
  PROVE  UNCHANGED <<stream, home, dispatched, acked>> /\ subscribed' \subseteq subscribed
  <1>1. CASE Application \/ Ticker \/ UNCHANGED vars \/ CheckConnections
    BY <1>1 DEF Application, Receive, Ask, DropConsumer, Settle, Ticker, vars,
                CheckConnections
  <1>2. ASSUME NEW k \in Conns,
               Breaks(k) \/ HeartbeatFails(k) \/ Released(k) \/ OtherTakesError(k)
        PROVE  UNCHANGED <<stream, home, dispatched, acked>> /\ subscribed' \subseteq subscribed
    BY <1>2 DEF Breaks, HeartbeatFails, Released, OtherTakesError
  <1>3. ASSUME NEW s \in Subs, CloseTask(s)
        PROVE  UNCHANGED <<stream, home, dispatched, acked>> /\ subscribed' \subseteq subscribed
    BY <1>3 DEF CloseTask
  <1> QED
    BY <1>1, <1>2, <1>3 DEF Connections

\* The broker's CloseConsumer ends a subscription.
LEMMA NoticesStep ==
  ASSUME TypeOK, Served, Notices, [Next]_vars
  PROVE  Notices'
  <1>1. ASSUME UNCHANGED <<stream, home>>, subscribed' \subseteq subscribed PROVE Notices'
    BY <1>1 DEF Notices
  <1>2. CASE Subscribe
    <2>1. ASSUME NEW s \in Subs, NewSubscription(s) PROVE Notices'
      <3>1. /\ UNCHANGED stream /\ stream[s] = <<>>
            /\ \A t \in Subs : home'[t] = None => home[t] = None
        BY <2>1 DEF NewSubscription, Subscribes, Notices, TypeOK
      <3>2. \A t \in subscribed' : t = s \/ t \in subscribed
        BY <2>1 DEF NewSubscription, Subscribes
      <3> QED
        BY <3>1, <3>2, RangeEmpty DEF Notices
    <2>2. ASSUME GivenUp, UNCHANGED stream PROVE Notices'
      <3>1. ASSUME NEW s \in Subs, home[s] = None,
                   home' = [home EXCEPT ![s] = connection],
                   subscribed' = (subscribed \ On(connection)) \cup {s}
            PROVE  Notices'
        <4>1. stream[s] = <<>> /\ \A t \in Subs : home'[t] = None => home[t] = None
          BY <3>1 DEF Notices, TypeOK
        <4> QED
          BY <2>2, <3>1, <4>1, RangeEmpty DEF Notices
      <3> QED
        BY <1>1, <2>2, <3>1, GivenUpFacts
    <2> QED
      BY <1>2, <2>1, <2>2, SubscribeCases
  <1>3. CASE PollMessage
    <2>1. UNCHANGED <<home, subscribed>>
      BY <1>3 DEF PollMessage
    <2>2. \A t \in Subs : Range(stream'[t]) \subseteq Range(stream[t])
      BY <1>3, TakenType
    <2>3. home[held] # None
      BY <1>3, TakenType DEF Notices
    <2>4. \A t \in Subs : home[t] = None => stream'[t] = stream[t]
      BY <1>3, <2>3, TakenType
    <2>5. subscribed \subseteq Subs
      BY DEF TypeOK
    <2> QED
      BY <2>1, <2>2, <2>4, <2>5 DEF Notices
  <1>4. CASE Engine
    <2>1. CASE ~Lookup /\ ~Subscribe
      BY <1>1, <1>3, <1>4, <2>1, EngineStays
    <2>2. CASE Lookup
      BY <1>1, <2>2 DEF Lookup
    <2> QED
      BY <1>2, <2>1, <2>2
  <1>5. ASSUME NEW s \in Subs, Dispatch(s) \/ BrokerCloses(s) \/ BrokerPushes(s)
        PROVE  Notices'
    <2>1. PICK item \in Items :
            Push(s, item) /\ (s \in subscribed' => item.kind # "close_consumer")
      <3>1. CASE Dispatch(s)
        <4>1. PICK e \in Entries : Dispatches(s, e)
          BY <3>1, DispatchCases
        <4>2. Message(e) \in Items /\ Message(e).kind = "message"
          BY DEF Message, Items, TypeOK
        <4> QED
          BY <4>1, <4>2 DEF Dispatches
      <3>2. CASE BrokerCloses(s)
        <4>1. Command("close_consumer") \in Items
          BY ValueTypes DEF Commands
        <4> QED
          BY <3>2, <4>1 DEF BrokerCloses
      <3>3. CASE BrokerPushes(s)
        <4>1. PICK kind \in Commands \ {"close_consumer"} : Push(s, Command(kind))
          BY <3>3 DEF BrokerPushes
        <4>2. Command(kind) \in Items /\ Command(kind).kind = kind
          BY ValueTypes DEF Command
        <4> QED
          BY <4>1, <4>2
      <3> QED
        BY <1>5, <3>1, <3>2, <3>3
    <2>2. s \in subscribed /\ subscribed' \subseteq subscribed /\ UNCHANGED home
      BY <1>5, DispatchCases DEF Dispatches, BrokerCloses, BrokerPushes
    <2>3. home[s] # None /\ subscribed \subseteq Subs
      BY <2>2 DEF Served, TypeOK
    <2>4. /\ \A t \in Subs \ {s} : stream'[t] = stream[t]
          /\ Range(stream'[s]) \subseteq Range(stream[s]) \cup {item}
      BY <2>1, PushGrows
    <2> QED
      BY <2>1, <2>2, <2>3, <2>4 DEF Notices
  <1> QED
    BY <1>1, <1>4, <1>5, OutsideStreams DEF Next, Broker

\* An engine that has ended stays ended.
LEMMA RunningStep ==
  ASSUME TypeOK, [Next]_vars, Running'
  PROVE  Running
  <1>1. CASE Engine
    BY <1>1 DEF Engine, CheckConnection, Refill, Tick, PollMessage, PollDisconnected,
         Deliver, Report, PublishDeadLetter, AckDeadLetter, PollEngineMessage, PollClosed, Lookup,
         Subscribe, Running, Over
  <1>2. CASE ~Engine
    BY <1>2, OutsideEngine DEF Next, Running
  <1> QED
    BY <1>1, <1>2

\* A subscription stays on its connection; tasks are of subscriptions, and a
\* running engine spawns one only for its new subscription.
LEMMA TasksChange ==
  ASSUME TypeOK, Served, Awaited, [Next]_vars
  PROVE  /\ \A t \in Subs : home[t] # None => home'[t] # None
         /\ \A t \in Subs : task'[t] # task[t] => home'[t] # None
         /\ Running' => \A t \in Subs :
              home[t] # None /\ task[t] = "none" => task'[t] = "none"
  <1>0. signal \in Subs /\ home[signal] # None /\ connection \in Conns /\ connection # None
    BY Numbers DEF TypeOK, Served
  <1>1. ASSUME UNCHANGED home,
               \/ UNCHANGED task
               \/ pc' \in Over /\ task' = [task EXCEPT ![signal] = "closing"]
        PROVE  /\ \A t \in Subs : home[t] # None => home'[t] # None
               /\ \A t \in Subs : task'[t] # task[t] => home'[t] # None
               /\ Running' => \A t \in Subs :
                    home[t] # None /\ task[t] = "none" => task'[t] = "none"
    BY <1>0, <1>1 DEF Running, TypeOK
  <1>2. CASE Engine /\ ~Lookup /\ ~Subscribe
    BY <1>1, <1>2, EngineStays
  <1>3. Failed => \/ UNCHANGED task
                  \/ pc' \in Over /\ task' = [task EXCEPT ![signal] = "closing"]
    BY DEF Failed, Ends, Over
  <1>4. CASE Lookup
    BY <1>1, <1>3, <1>4, LookupCases DEF NewConnection
  <1>5. ASSUME NEW s \in Subs, NewSubscription(s)
        PROVE  /\ \A t \in Subs : home[t] # None => home'[t] # None
               /\ \A t \in Subs : task'[t] # task[t] => home'[t] # None
               /\ Running' => \A t \in Subs :
                    home[t] # None /\ task[t] = "none" => task'[t] = "none"
    <2>1. /\ home'[s] = connection /\ \A t \in Subs \ {s} : home'[t] = home[t]
          /\ home[s] = None /\ Running
      BY <1>5 DEF NewSubscription, Subscribes, TypeOK, Running, Over
    <2>2. \A t \in Subs \ {s, signal} : task'[t] = task[t]
      BY <1>5 DEF NewSubscription, TypeOK
    <2>3. task[signal] # "none"
      BY <2>1 DEF Served
    <2> QED
      BY <1>0, <2>1, <2>2, <2>3
  <1>6. ASSUME Failed, GivenUp
        PROVE  /\ \A t \in Subs : home[t] # None => home'[t] # None
               /\ \A t \in Subs : task'[t] # task[t] => home'[t] # None
               /\ Running' => \A t \in Subs :
                    home[t] # None /\ task[t] = "none" => task'[t] = "none"
    <2>1. \A t \in Subs : home[t] # None => home'[t] # None
      BY <1>0, <1>6, GivenUpFacts DEF TypeOK
    <2>2. \A t \in Subs : task'[t] # task[t] => t = signal
      BY <1>3, <1>6 DEF TypeOK
    <2> QED
      BY <1>0, <1>3, <1>6, <2>1, <2>2 DEF Running
  <1>7. CASE Subscribe
    BY <1>5, <1>6, <1>7, SubscribeCases
  <1>8. ASSUME NEW s \in Subs, CloseTask(s)
        PROVE  /\ UNCHANGED home /\ home[s] # None /\ task[s] = "closing"
               /\ \A t \in Subs \ {s} : task'[t] = task[t]
    BY <1>8 DEF CloseTask, Awaited, TypeOK
  <1>9. ASSUME NEW s \in Subs, Dispatch(s) \/ BrokerCloses(s) \/ BrokerPushes(s)
        PROVE  UNCHANGED <<home, task>>
    BY <1>9, DispatchCases DEF Dispatches, BrokerCloses, BrokerPushes
  <1>10. CASE Connections \/ Application \/ Ticker \/ UNCHANGED vars
    <2>1. UNCHANGED <<home, task>>
      BY <1>10 DEF Connections, Breaks, HeartbeatFails, Released, OtherTakesError,
                   CheckConnections, Application, Receive, Ask, DropConsumer, Settle,
                   Ticker, vars
    <2> QED
      BY <1>1, <2>1
  <1>11. CASE \E s \in Subs : CloseTask(s)
    BY <1>8, <1>11
  <1>12. CASE Broker
    BY <1>1, <1>9, <1>12 DEF Broker
  <1> QED
    BY <1>2, <1>4, <1>7, <1>10, <1>11, <1>12 DEF Next

\* A task is spawned for a subscription.
LEMMA AwaitedStep ==
  ASSUME TypeOK, Served, Awaited, [Next]_vars
  PROVE  Awaited'
  BY TasksChange DEF Awaited

\* While no connection fails, the engine is on the first one, which is open.
LEMMA WorkingStep ==
  ASSUME TypeOK, Served, Awaited, Steady, [Next]_vars, Works', Running'
  PROVE  /\ Works /\ Running
         /\ connection = 1 /\ pool = 1 /\ conn[1] = "open"
         /\ \A k \in Conns : ~error_set[k]
         /\ UNCHANGED <<conn, pool>>
  <1>0. \A s \in Subs : home[s] # None => task[s] # "none"
    BY TasksChange DEF Works
  <1>1. Running
    BY RunningStep
  <1>2. ASSUME UNCHANGED conn, Works PROVE conn[1] = "open" /\ \A k \in Conns : ~error_set[k]
    BY <1>1, <1>2, Numbers DEF Served, Works, Steady
  <1>3. CASE Lookup
    <2>1. ASSUME NEW k \in Conns, NewConnection(k)
          PROVE  Works /\ UNCHANGED <<conn, pool>>
      <3>1. Works
        BY <1>0, <2>1 DEF NewConnection, GetConnection, Works, TypeOK
      <3>2. pool = 1 /\ ~error_set[1]
        BY <1>1, <3>1, Numbers DEF Served, Works, Steady
      <3>3. Pooled
        BY <3>2, Numbers DEF Pooled, None
      <3> QED
        BY <2>1, <3>1, <3>3 DEF NewConnection, GetConnection
    <2>2. Works /\ UNCHANGED <<conn, pool>>
      BY <1>0, <1>3, <2>1, LookupCases DEF Works
    <2> QED
      BY <1>1, <1>2, <2>2 DEF Steady
  <1>4. ASSUME UNCHANGED <<conn, pool>>
        PROVE  /\ Works /\ connection = 1 /\ pool = 1 /\ conn[1] = "open"
               /\ \A k \in Conns : ~error_set[k]
    BY <1>0, <1>1, <1>2, <1>4 DEF Steady, Works
  <1>5. CASE Engine /\ ~Lookup
    BY <1>1, <1>4, <1>5, EngineStays DEF Subscribe
  <1>6. ASSUME NEW k \in Conns, Breaks(k) \/ HeartbeatFails(k) \/ Released(k) PROVE FALSE
    BY <1>6 DEF Breaks, HeartbeatFails, Released, Works, TypeOK
  <1>7. CASE CheckConnections
    <2>1. Works
      BY <1>0, <1>7 DEF CheckConnections, Works
    <2>2. \A k \in Conns : ~error_set[k]
      BY <2>1 DEF Served, Works
    <2> QED
      BY <1>7, <2>2 DEF CheckConnections, TypeOK
  <1>8. ASSUME NEW k \in Conns, OtherTakesError(k) PROVE UNCHANGED <<conn, pool>>
    BY <1>8 DEF OtherTakesError
  <1>9. ASSUME NEW s \in Subs, Dispatch(s) \/ BrokerCloses(s) \/ BrokerPushes(s) \/ CloseTask(s)
        PROVE  UNCHANGED <<conn, pool>>
    BY <1>9, DispatchCases DEF Dispatches, BrokerCloses, BrokerPushes, CloseTask
  <1>10. CASE Application \/ Ticker \/ UNCHANGED vars
    BY <1>1, <1>4, <1>10 DEF Application, Receive, Ask, DropConsumer, Settle, Ticker, vars
  <1> QED
    BY <1>1, <1>3, <1>4, <1>5, <1>6, <1>7, <1>8, <1>9, <1>10
    DEF Next, Broker, Connections

\* Every step keeps Steady.
LEMMA SteadyStep ==
  ASSUME TypeOK, Control, Served, Awaited, Notices, Steady, [Next]_vars
  PROVE  Steady'
  <1> SUFFICES ASSUME Works', Running' PROVE Steady'
    BY DEF Steady
  <1>0. /\ Works /\ Running
        /\ connection = 1 /\ pool = 1 /\ conn[1] = "open"
        /\ \A k \in Conns : ~error_set[k]
        /\ UNCHANGED <<conn, pool>>
    BY WorkingStep
  <1>1. /\ \A s \in Subs : home[s] \in {None, 1}
        /\ subscribed \subseteq {signal} /\ \A s \in subscribed : channel[s]
        /\ messages_rx \in {signal, None} /\ held \in {signal, None}
        /\ pc \in {"reconnect", "subscribe"} =>
             caller = "close" /\ held = None /\ signal \notin subscribed
        /\ signal \notin subscribed => Unsettled \subseteq backlog
    BY <1>0 DEF Steady
  <1>2. ASSUME UNCHANGED dispatched, acked \subseteq acked'
        PROVE  Unsettled' \subseteq Unsettled
    BY <1>2 DEF Unsettled
  <1>3. ASSUME UNCHANGED <<connection, signal, home, subscribed>>,
               messages_rx' \in {messages_rx, held, None}, held' \in {messages_rx, held, None},
               pc' \in {"reconnect", "subscribe"} =>
                 caller' = "close" /\ held' = None /\ signal \notin subscribed,
               UNCHANGED dispatched, acked \subseteq acked', backlog \subseteq backlog',
               UNCHANGED channel \/ subscribed = {}
        PROVE  Steady'
    <2>1. Unsettled' \subseteq Unsettled
      BY <1>2, <1>3
    <2> QED
      BY <1>0, <1>1, <1>3, <2>1 DEF Steady
  <1>4. CASE CheckConnection
    <2>1. /\ pc' = "flow"
          /\ UNCHANGED <<connection, signal, home, subscribed, channel, messages_rx, held,
                         dispatched, acked, backlog>>
      BY <1>0, <1>4, Numbers DEF CheckConnection
    <2> QED
      BY <1>3, <2>1
  <1>5. CASE Refill
    <2>1. ~Refuses
      BY <1>0 DEF Refuses
    <2>2. /\ pc' = "select"
          /\ messages_rx' \in {messages_rx, held, None} /\ held' \in {messages_rx, held, None}
          /\ UNCHANGED <<connection, signal, home, subscribed, channel, dispatched, acked,
                         backlog>>
      BY <1>5, <2>1 DEF Refill, Select
    <2> QED
      BY <1>3, <2>2
  <1>6. CASE Tick
    <2>1. /\ pc' = "check"
          /\ UNCHANGED <<connection, signal, home, subscribed, channel, messages_rx, held,
                         dispatched, acked, backlog>>
      BY <1>6 DEF Tick
    <2> QED
      BY <1>3, <2>1
  <1>7. CASE PollMessage
    <2>1. ~Ends("ended")
      BY DEF Ends, Running, Over
    <2>2. /\ PutBack /\ Process(Taken)
          /\ UNCHANGED <<connection, signal, home, subscribed, channel, dispatched, acked,
                         backlog>>
      BY <1>7, <2>1 DEF PollMessage, Taken
    <2>3. held = signal
      BY <1>1, <1>7, TakenType
    <2>4. ASSUME pc' \in {"reconnect", "subscribe"}
          PROVE  caller' = "close" /\ signal \notin subscribed
      <3>1. caller' = "close" /\ Taken.kind = "close_consumer"
        BY <2>2, <2>4 DEF Process
      <3>2. Taken \in Range(stream[signal])
        BY <1>7, <2>3, TakenType
      <3> QED
        BY <3>1, <3>2 DEF Notices
    <2> QED
      BY <1>3, <2>2, <2>4 DEF PutBack
  <1>8. CASE PollDisconnected \/ PollClosed
    BY <1>8 DEF PollDisconnected, PollClosed, Ends, Running, Over
  <1>9. CASE Deliver \/ Report
    <2>1. ~Ends("ended")
      BY DEF Ends, Running, Over
    <2>2. /\ pc' \in {"check", "deliver"}
          /\ UNCHANGED <<connection, signal, home, subscribed, channel, messages_rx, held,
                         dispatched, acked, backlog>>
      BY <1>9, <2>1 DEF Deliver, Report
    <2> QED
      BY <1>3, <2>2
  <1>10. CASE PublishDeadLetter \/ AckDeadLetter
    <2>1. /\ pc' \in {"check", "report", "dead_ack"} /\ acked \subseteq acked'
          /\ UNCHANGED <<connection, signal, home, subscribed, channel, messages_rx, held,
                         dispatched, backlog>>
      BY <1>10 DEF PublishDeadLetter, AckDeadLetter, Ack, Acknowledge
    <2> QED
      BY <1>3, <2>1
  <1>11. CASE PollEngineMessage
    <2>1. acked \subseteq acked' /\ backlog \subseteq backlog'
      BY <1>11 DEF PollEngineMessage, Handle, Ack, Acknowledge, Redeliver
    <2>2. /\ pc' = "check"
          /\ messages_rx' \in {messages_rx, held, None} /\ held' \in {messages_rx, held, None}
          /\ UNCHANGED <<connection, signal, home, subscribed, channel, dispatched>>
      BY <1>11 DEF PollEngineMessage, PutBack
    <2> QED
      BY <1>3, <2>1, <2>2
  <1>12. ASSUME Failed, pc \in {"reconnect", "subscribe"},
                UNCHANGED <<home, subscribed, dispatched, acked, backlog>>,
                UNCHANGED channel \/ subscribed = {}
         PROVE  Steady'
    <2>1. ~Ends("ended")
      BY DEF Ends, Running, Over
    <2>2. pc' = "report" /\ UNCHANGED <<connection, signal, messages_rx, held>>
      BY <1>12, <2>1 DEF Failed
    <2> QED
      BY <1>3, <1>12, <2>2
  <1>13. CASE Lookup
    <2>1. ASSUME NEW k \in Conns, NewConnection(k) PROVE Steady'
      <3>1. k = 1
        <4>1. Pooled
          BY <1>0, Numbers DEF Pooled, None
        <4> QED
          BY <1>0, <2>1, <4>1 DEF NewConnection, GetConnection
      <3>2. connection' = connection
        BY <1>0, <2>1, <3>1 DEF NewConnection
      <3> QED
        BY <1>1, <1>3, <2>1, <3>2 DEF NewConnection
    <2> QED
      BY <1>12, <1>13, <2>1, LookupCases
  <1>14. CASE Subscribe
    <2>1. ASSUME NEW s \in Subs, NewSubscription(s) PROVE Steady'
      <3>1. home[signal] = 1 /\ signal \in Subs /\ subscribed \subseteq Subs
        BY <1>1 DEF Served, TypeOK
      <3>2. subscribed' = {s} /\ signal' = s
        BY <1>0, <1>1, <2>1, <3>1 DEF NewSubscription, Subscribes, On
      <3>3. \A t \in Subs : home'[t] \in {None, 1}
        BY <1>0, <1>1, <2>1 DEF NewSubscription, Subscribes, TypeOK
      <3>6. channel'[s]
        BY <2>1 DEF NewSubscription, Subscribes, TypeOK
      <3>4. messages_rx' \in {s, None} /\ held' \in {s, None} /\ pc' = "check"
        BY <1>1, <2>1 DEF NewSubscription
      <3>5. connection' = 1
        BY <1>0, <2>1 DEF NewSubscription
      <3> QED
        BY <1>0, <3>2, <3>3, <3>4, <3>5, <3>6 DEF Steady
    <2>2. ASSUME Failed, GivenUp, pc = "subscribe",
                 UNCHANGED <<dispatched, acked, backlog>>
          PROVE  Steady'
      <3>1. UNCHANGED task
        BY <2>2 DEF Failed, Ends, Running, Over
      <3>2. UNCHANGED <<home, subscribed>>
        <4>1. ASSUME NEW s \in Subs, home[s] = None, home' = [home EXCEPT ![s] = connection]
              PROVE  FALSE
          <5>1. home'[s] # None
            BY <4>1, Numbers DEF TypeOK
          <5>2. task'[s] = "none"
            BY <3>1, <4>1 DEF Awaited
          <5> QED
            BY <5>1, <5>2 DEF Works
        <4> QED
          BY <2>2, <4>1, GivenUpFacts
      <3>3. subscribed = {}
        BY <1>1, <2>2
      <3> QED
        BY <1>12, <2>2, <3>2, <3>3
    <2> QED
      BY <1>12, <1>14, <2>1, <2>2, SubscribeCases
  <1>15. ASSUME NEW s \in Subs, Dispatch(s) PROVE Steady'
    <2>1. PICK e \in Entries : Dispatches(s, e)
      BY <1>15, DispatchCases
    <2>2. signal \in subscribed /\ UNCHANGED <<engine, home, subscribed, channel>>
      BY <1>1, <2>1 DEF Dispatches
    <2> QED
      BY <1>0, <1>1, <2>2 DEF Steady
  <1>16. ASSUME NEW s \in Subs, BrokerCloses(s) PROVE Steady'
    <2>1. /\ UNCHANGED <<engine, home, dispatched, acked>>
          /\ subscribed' = {} /\ Unsettled \subseteq backlog'
      BY <1>1, <1>16 DEF BrokerCloses
    <2>2. Unsettled' \subseteq Unsettled
      BY <1>2, <2>1
    <2> QED
      BY <1>0, <1>1, <2>1, <2>2 DEF Steady
  <1>17. ASSUME NEW s \in Subs, BrokerPushes(s) PROVE Steady'
    BY <1>1, <1>3, <1>17 DEF BrokerPushes
  <1>18. CASE Application \/ Ticker \/ UNCHANGED vars
    <2>1. UNCHANGED <<engine, home, subscribed, channel, dispatched, acked, backlog>>
      BY <1>18 DEF Application, Receive, Ask, DropConsumer, Settle, Ticker, vars
    <2> QED
      BY <1>1, <1>3, <2>1
  <1>19. ASSUME NEW s \in Subs, CloseTask(s) PROVE FALSE
    BY <1>0, <1>19 DEF CloseTask, Served
  <1>20. CASE Connections
    <2>1. UNCHANGED <<engine, home, dispatched, acked>> /\ backlog \subseteq backlog'
      BY <1>20 DEF Connections, Breaks, HeartbeatFails, Released, OtherTakesError,
                   CheckConnections
    <2>2. UNCHANGED <<subscribed, channel>>
      <3>1. ASSUME NEW k \in Conns, Breaks(k) \/ Released(k) PROVE FALSE
        BY <1>0, <3>1 DEF Breaks, Released, Works, TypeOK
      <3> QED
        BY <1>20, <3>1 DEF Connections, HeartbeatFails, OtherTakesError, CheckConnections
    <2> QED
      BY <1>1, <1>3, <2>1, <2>2
  <1> QED
    BY <1>4, <1>5, <1>6, <1>7, <1>8, <1>9, <1>10, <1>11, <1>13, <1>14, <1>15, <1>16,
       <1>17, <1>18, <1>19, <1>20 DEF Next, Engine, Broker

\* Where a message that the application was given is kept.
Kept(id) ==
  \/ id \in acked \/ id \in unacked_messages \/ id[1] \in backlog
  \/ id \in Range(out)
  \/ \E item \in Range(stream[signal]) : item.kind = "message" /\ item.entry = id[1]

\* A step that takes nothing away keeps the message.
LEMMA KeptStays ==
  ASSUME NEW id, Kept(id), acked \subseteq acked', unacked_messages \subseteq unacked_messages',
         backlog \subseteq backlog', Range(out) \subseteq Range(out'), signal' = signal,
         Range(stream[signal]) \subseteq Range(stream'[signal])
  PROVE  Kept(id)'
  BY DEF Kept

\* Handling a message of the application keeps the message: what is acknowledged
\* or sent back reaches the broker, on a connection that is open.
LEMMA HandleKeeps ==
  ASSUME TypeOK, NEW id \in Ids, Kept(id), PollEngineMessage, conn[connection] = "open"
  PROVE  Kept(id)'
  <1> DEFINE m == Head(engine_rx)
  <1>1. UNCHANGED <<out, signal, stream>>
    BY DEF PollEngineMessage
  <1>2. acked \subseteq acked' /\ backlog \subseteq backlog'
    BY DEF PollEngineMessage, Handle, Ack, Acknowledge, Redeliver
  <1>3. ASSUME id \in unacked_messages, id \notin unacked_messages'
        PROVE  id \in acked' \/ id[1] \in backlog'
    <2>1. CASE m.type = "Ack" /\ Ack(m.id, m.cumulative)
      <3>1. id = m.id
        BY <1>3, <2>1 DEF Ack
      <3>2. id \in UpTo(id)
        BY IdTypes, Numbers DEF UpTo
      <3> QED
        BY <2>1, <3>1, <3>2 DEF Ack, Acknowledge
    <2>2. ASSUME NEW expired, Redeliver(expired), UNCHANGED acked,
                 unacked_messages' = unacked_messages \ expired
          PROVE  id \in acked' \/ id[1] \in backlog'
      BY <1>3, <2>2 DEF Redeliver
    <2> QED
      BY <1>3, <2>1, <2>2 DEF PollEngineMessage, Handle
  <1> QED
    BY <1>1, <1>2, <1>3 DEF Kept

\* Every step keeps Tracked.
LEMMA TrackedStep ==
  ASSUME TypeOK, Control, Served, Awaited, Steady, Dispatched, Tracked, [Next]_vars
  PROVE  Tracked'
  <1> SUFFICES ASSUME Delay, DeadLetter = NoPolicy, Works', Running',
                      NEW id \in Ids, Given(id)'
               PROVE  Kept(id)'
    <2>1. Range(tx') \subseteq Ids \cup {Failure} /\ Range(received') \subseteq Ids
      <3>1. TypeOK'
        BY TypeStep
      <3> QED
        BY <3>1, RangeType DEF TypeOK
    <2>2. \A id \in Range(received') \cup (Range(tx') \ {Failure}) : id \in Ids /\ Given(id)'
      BY <2>1 DEF Given
    <2> QED
      BY <2>2 DEF Tracked, Kept
  <1>0. /\ Works /\ Running
        /\ connection = 1 /\ pool = 1 /\ conn[1] = "open"
        /\ \A k \in Conns : ~error_set[k]
        /\ UNCHANGED <<conn, pool>>
    BY WorkingStep
  <1>1. /\ subscribed \subseteq {signal} /\ \A s \in subscribed : channel[s]
        /\ messages_rx \in {signal, None} /\ held \in {signal, None}
        /\ pc \in {"reconnect", "subscribe"} => signal \notin subscribed
        /\ signal \notin subscribed => Unsettled \subseteq backlog
        /\ signal \in Subs /\ id[1] \in Entries
    BY <1>0, IdTypes DEF Steady, TypeOK
  <1>2. CASE Deliver /\ ~dropped /\ id = Head(out)
    BY <1>2 DEF Deliver, Track, Kept
  <1> SUFFICES ASSUME Given(id) PROVE Kept(id)'
    BY <1>2, SentStep
  <1>3. Kept(id) /\ dispatched[id[1]] > 0 /\ id[1] \notin Bad
    <2>1. id \in Range(received) \cup (Range(tx) \ {Failure})
      BY IdTypes DEF Given
    <2> QED
      BY <1>0, <2>1 DEF Tracked, Kept, Dispatched
  <1>4. CASE CheckConnection \/ Refill \/ Tick
    <2>1. UNCHANGED <<acked, unacked_messages, backlog, out, signal, stream>>
      BY <1>4 DEF CheckConnection, Refill, Tick
    <2> QED
      BY <1>3, <2>1, KeptStays
  <1>5. CASE PollMessage
    <2>1. out = <<>> /\ held = signal
      BY <1>1, <1>5, TakenType DEF Control, PollMessage
    <2>2. ~Ends("ended")
      BY DEF Ends, Running, Over
    <2>3. Process(Taken) /\ UNCHANGED <<acked, unacked_messages, backlog, signal>>
      BY <1>5, <2>2 DEF PollMessage, Taken
    <2>4. Range(stream[signal]) = Range(stream'[signal]) \cup {Taken} /\ Taken \in Items
      BY <1>5, <2>1, TakenType
    <2>5. CASE Taken.kind = "message" /\ Taken.entry = id[1]
      <3>1. out' = IdsOf(id[1])
        BY <1>3, <2>3, <2>5 DEF Process
      <3>2. id \in Range(IdsOf(id[1]))
        BY <1>1, IdsOfTypes
      <3> QED
        BY <3>1, <3>2 DEF Kept
    <2>6. CASE ~(Taken.kind = "message" /\ Taken.entry = id[1])
      BY <1>3, <2>1, <2>3, <2>4, <2>6, RangeEmpty DEF Kept
    <2> QED
      BY <2>5, <2>6
  <1>6. CASE PollDisconnected \/ PollClosed
    BY <1>6 DEF PollDisconnected, PollClosed, Ends, Running, Over
  <1>7. CASE Deliver
    <2>1. ~Ends("ended")
      BY DEF Ends, Running, Over
    <2>2. /\ ~dropped /\ unacked_messages' = unacked_messages \cup {Head(out)}
          /\ UNCHANGED <<acked, backlog, signal, stream>>
      BY <1>7, <2>1 DEF Deliver, Track
    <2>3. Range(out) = Range(out') \cup {Head(out)}
      BY <1>7, <2>2, DeliverTakes
    <2> QED
      BY <1>3, <2>2, <2>3 DEF Kept
  <1>8. CASE Report
    <2>1. ~Ends("ended")
      BY DEF Ends, Running, Over
    <2>2. UNCHANGED <<acked, unacked_messages, backlog, out, signal, stream>>
      BY <1>8, <2>1 DEF Report
    <2> QED
      BY <1>3, <2>2, KeptStays
  <1>9. CASE PublishDeadLetter \/ AckDeadLetter
    BY <1>9 DEF PublishDeadLetter, AckDeadLetter, Control
  <1>10. CASE PollEngineMessage
    BY <1>0, <1>3, <1>10, HandleKeeps
  <1>11. ASSUME Failed, UNCHANGED <<acked, backlog, stream>>
         PROVE  Kept(id)'
    <2>1. ~Ends("ended")
      BY DEF Ends, Running, Over
    <2>2. UNCHANGED <<unacked_messages, out, signal>>
      BY <1>11, <2>1 DEF Failed
    <2> QED
      BY <1>3, <1>11, <2>2, KeptStays
  <1>12. CASE Lookup
    <2>1. ASSUME NEW k \in Conns, NewConnection(k) PROVE Kept(id)'
      <3>1. UNCHANGED <<acked, unacked_messages, backlog, out, signal, stream>>
        BY <2>1 DEF NewConnection
      <3> QED
        BY <1>3, <3>1, KeptStays
    <2> QED
      BY <1>11, <1>12, <2>1, LookupCases
  <1>13. CASE Subscribe
    <2>1. ASSUME NEW s \in Subs, NewSubscription(s) PROVE Kept(id)'
      <3>1. Unsettled \subseteq backlog /\ UNCHANGED <<acked, backlog>>
        BY <1>1, <2>1 DEF NewSubscription
      <3>2. id \in acked \/ id[1] \in Unsettled
        BY <1>1, <1>3, IdsOfTypes DEF Unsettled
      <3> QED
        BY <3>1, <3>2 DEF Kept
    <2> QED
      BY <1>11, <1>13, <2>1, SubscribeCases
  <1>14. ASSUME NEW s \in Subs, Dispatch(s) PROVE Kept(id)'
    <2>1. PICK e \in Entries : Dispatches(s, e)
      BY <1>14, DispatchCases
    <2>2. s = signal /\ channel[s]
      BY <1>1, <2>1 DEF Dispatches
    <2>3. Message(e) \in Items /\ Push(s, Message(e))
          /\ Message(e).entry = e /\ Message(e).kind = "message"
      BY <2>1 DEF Dispatches, Message, Items, TypeOK
    <2>4. Range(stream'[s]) = Range(stream[s]) \cup {Message(e)}
      BY <2>2, <2>3, PushGrows
    <2>5. backlog' = backlog \ {e} /\ UNCHANGED <<acked, unacked_messages, out, signal>>
      BY <2>1 DEF Dispatches
    <2>6. CASE id[1] = e
      BY <2>2, <2>3, <2>4, <2>5, <2>6 DEF Kept
    <2>7. CASE id[1] # e
      BY <1>3, <2>2, <2>4, <2>5, <2>7 DEF Kept
    <2> QED
      BY <2>6, <2>7
  <1>15. ASSUME NEW s \in Subs, BrokerCloses(s) \/ BrokerPushes(s) PROVE Kept(id)'
    <2>1. UNCHANGED <<acked, unacked_messages, out, signal>> /\ backlog \subseteq backlog'
      BY <1>15 DEF BrokerCloses, BrokerPushes
    <2>2. PICK kind \in Commands : Push(s, Command(kind))
      BY <1>15 DEF BrokerCloses, BrokerPushes, Commands
    <2>3. Range(stream[signal]) \subseteq Range(stream'[signal])
      BY <1>1, <2>2, PushGrows, ValueTypes
    <2> QED
      BY <1>3, <2>1, <2>3, KeptStays
  <1>16. CASE \/ Application \/ Ticker \/ Connections \/ UNCHANGED vars
              \/ \E s \in Subs : CloseTask(s)
    <2>1. UNCHANGED <<stream, acked, unacked_messages, out, signal>>
      BY <1>16, OutsideStreams, OutsideEngine
    <2>2. backlog \subseteq backlog'
      BY <1>16 DEF Application, Receive, Ask, DropConsumer, Settle, Ticker, vars, Connections,
           Breaks, HeartbeatFails, Released, OtherTakesError, CheckConnections, CloseTask
    <2> QED
      BY <1>3, <2>1, <2>2, KeptStays
  <1> QED
    BY <1>4, <1>5, <1>6, <1>7, <1>8, <1>9, <1>10, <1>12, <1>13, <1>14, <1>15, <1>16
    DEF Next, Engine, Broker

-----------------------------------------------------------------------------
(* The invariant and the theorems *)

\* The inductive invariant
EngineInv ==
  /\ TypeOK /\ Control /\ Served /\ Awaited /\ Attached /\ Notices
  /\ NotAbandoned
  /\ Mail /\ Published /\ DeadLetterFirst
  /\ Dispatched /\ AckInv
  /\ Steady /\ Tracked

\* The engine that TopicConsumer::new builds satisfies it.
LEMMA InitInv == Init => EngineInv
  <1> SUFFICES ASSUME Init PROVE EngineInv
    OBVIOUS
  <1>1. TypeOK /\ Served
    BY InitType, InitServed
  <1>2. /\ pc = "check" /\ caller = "check" /\ connection = 1 /\ signal = 1 /\ pool = 1
        /\ messages_rx = 1 /\ held = None /\ remaining_messages = batch_size
        /\ out = <<>> /\ tx = <<>> /\ engine_rx = <<>> /\ received = <<>>
        /\ subscribed = {1} /\ acked = {} /\ backlog = Entries /\ closes = 0 /\ other = 0
        /\ ~dropped
    BY DEF Init
  <1>3. /\ \A s \in Subs : stream[s] = <<>> /\ home[s] = IF s = 1 THEN 1 ELSE None
        /\ \A e \in Entries : dispatched[e] = 0
        /\ permits[1] = batch_size /\ 1 \in Subs /\ home[1] = 1 /\ channel[1]
        /\ \A s \in Subs : home[s] = None => task[s] = "none"
    BY Numbers DEF Init, None
  <1>4. Range(out) = {} /\ Range(tx) = {} /\ Range(received) = {} /\ Range(engine_rx) = {}
        /\ \A s \in Subs : Range(stream[s]) = {}
    BY <1>2, <1>3, RangeEmpty
  <1>5. Control
    BY <1>2, Numbers DEF Control, None
  <1>6. Attached /\ NotAbandoned
    BY <1>2, <1>3 DEF Attached, NotAbandoned
  <1>7. Notices /\ Awaited /\ Mail /\ Published /\ DeadLetterFirst
    BY <1>2, <1>3, <1>4 DEF Notices, Awaited, Mail, Published, DeadLetterFirst
  <1>8. Dispatched
    BY <1>4 DEF Dispatched, InStream
  <1>9. AckInv
    <2>1. Alone
      BY <1>3 DEF Alone
    <2> QED
      BY <1>2, <1>3, <1>4, <2>1 DEF AckInv, OneCopy, InStream
  <1>10. Steady
    BY <1>2, <1>3 DEF Steady
  <1>11. Tracked
    BY <1>4 DEF Tracked
  <1> QED
    BY <1>1, <1>5, <1>6, <1>7, <1>8, <1>9, <1>10, <1>11
    DEF EngineInv

\* Every step keeps it.
LEMMA StepInv == EngineInv /\ [Next]_vars => EngineInv'
  <1> SUFFICES ASSUME EngineInv, [Next]_vars PROVE EngineInv'
    OBVIOUS
  <1> USE DEF EngineInv
  <1>1. TypeOK' /\ Control'
    BY TypeStep, ControlStep
  <1>2. Served'
    BY EngineServed, OutsideServed DEF Next
  <1>3. Awaited' /\ Attached' /\ Notices' /\ NotAbandoned'
    BY AwaitedStep, AttachedStep, NoticesStep, KeptStep
  <1>4. Mail' /\ Published' /\ DeadLetterFirst' /\ Dispatched' /\ AckInv'
    BY SendableStep, PublishedStep, DeadLetterStep, DispatchedStep, OneCopyStep
  <1>5. Steady' /\ Tracked'
    BY SteadyStep, TrackedStep
  <1> QED
    BY <1>1, <1>2, <1>3, <1>4, <1>5

\* EngineInv holds in every behaviour of the consumer, its broker and its
\* connections.
THEOREM Invariance == Spec => []EngineInv
  BY InitInv, StepInv, PTL DEF Spec

\* Every variable keeps its type; remaining_messages stays a u32.
THEOREM TypeCorrect == Spec => []TypeOK
  <1>1. EngineInv => TypeOK
    BY DEF EngineInv
  <1> QED
    BY <1>1, Invariance, PTL

\* A live engine on a working connection is subscribed, has the broker's notice
\* in its stream, or the application is told: the task of an old subscription
\* (the drop signal of reconnect) closes no consumer under it.
THEOREM NeverAbandoned == Spec => []NotAbandoned
  <1>1. EngineInv => NotAbandoned
    BY DEF EngineInv
  <1> QED
    BY <1>1, Invariance, PTL

\* The engine acknowledges on its own only what the dead letter topic has.
THEOREM PublishedFirst == Spec => []DeadLetterFirst
  <1>1. EngineInv => DeadLetterFirst
    BY DEF EngineInv
  <1> QED
    BY <1>1, Invariance, PTL

\* Without cumulative acknowledgements, ConsumerEngine::ack forgets what it
\* acknowledges: a message dispatched once is never asked for again.
THEOREM Forgets ==
  ASSUME "cumulative" \notin AppActs
  PROVE  Spec => []AckedForgotten
  <1>1. EngineInv => AckedForgotten
    BY DEF EngineInv, TypeOK, AckInv, OneCopy, AckedForgotten
  <1> QED
    BY <1>1, Invariance, PTL
=============================================================================
