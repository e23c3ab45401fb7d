------------------------- MODULE MultiTopicConsumer -------------------------
(***************************************************************************)
(* The consumers an application builds (src/consumer.rs, ConsumerBuilder,  *)
(* Consumer and MultiTopicConsumer, and src/reader.rs): building and       *)
(* seeking create one TopicConsumer per topic, a multi topic consumer      *)
(* polls them in turn, drops those that fail and looks for new topics at   *)
(* every refresh.  The engine of a TopicConsumer is the module             *)
(* ConsumerEngine; here it is a queue of messages and one of               *)
(* acknowledgements, and it may reconnect, fail or end.  The broker is     *)
(* external, and its subscription is shared.                               *)
(*                                                                         *)
(* A TopicConsumer occupies a slot from the first subscribe command until  *)
(* its subscription is closed.  A future makes progress only while it is   *)
(* polled: its steps are actions of their own, that Poll interleaves.      *)
(***************************************************************************)
EXTENDS Naturals, Sequences, FiniteSets, SequencesExt, TLC

CONSTANTS
  Topics,       \* topics (partitions included) of the namespace
  Configs,      \* what the application may set on its ConsumerBuilder
  max_retries,  \* OperationRetryOptions::max_retries
  MaxMessages,  \* messages in each topic
  Slots,        \* bound: TopicConsumers alive at a time, 1..n
  MaxFaults,    \* bound: requests refused, engines that reconnect, fail or end
  MaxEarly,     \* bound: refreshes that find the previous one unfinished
  MaxSeeks,     \* bound: calls of seek
  NoLimit, NoTopic

\* A configuration: the partitions of the topics named, in order, how many
\* topics were named, whether there is a regex (it matches every topic),
\* whether with_consumer_id was called, and whether a Reader is built.
ConfigType == [listed : Seq(Topics), names : Nat, regex : BOOLEAN,
               fixed : BOOLEAN, reader : BOOLEAN]

ASSUME MultiAssumption ==
  /\ \A k \in Configs : /\ DOMAIN k = {"listed", "names", "regex", "fixed", "reader"}
                        /\ \A i \in DOMAIN k.listed : k.listed[i] \in Topics
  /\ {max_retries, MaxMessages, MaxFaults, MaxSeeks} \subseteq Nat
  /\ MaxEarly \in Nat \cup {NoLimit} /\ NoLimit \notin Nat
  /\ Slots = 1..Cardinality(Slots)
  /\ NoTopic \notin Topics

Messages == 1..MaxMessages
Err  == 0          \* an error in the queue of a TopicConsumer
None == 0          \* no slot, or no message
Ids  == {0} \cup Slots

VARIABLES
  config,        \* ConsumerBuilder
  inner,         \* what the application holds: "none", "Single", ...
  consumers,     \* topic -> slot of its TopicConsumer
  topics,        \* the order in which they are polled
  new_consumers, \* the future of update_topics
  call,          \* the call the application awaits: build or seek
  refresh,       \* the refresh interval has a tick
  disc_messages_received,
  state,         \* Reader: the message of PollingAck, or None
  slot,          \* the TopicConsumers
  exists,        \* broker: topics created so far
  registered,    \* broker: consumer id -> slot its messages are routed to
  backlog,       \* broker: messages of a topic to dispatch
  acked,         \* broker: messages of a topic acknowledged
  orphans,       \* topics with a subscription nobody will close
  got,           \* messages handed to the application
  count,         \* how many the current consumer handed out
  since,         \* topics that were served while a topic had a message
  faults, early, seeks

client == <<config, inner, consumers, topics, new_consumers, call, refresh,
            disc_messages_received, state>>
broker == <<exists, registered, backlog, acked, orphans>>
seen   == <<got, count, since>>
bounds == <<faults, early, seeks>>
vars   == <<client, slot, broker, seen, bounds>>

-----------------------------------------------------------------------------
(* TopicConsumers *)

\* queue: rx, the messages for the application; acks: engine_rx, its
\* acknowledgements; pending: what the broker dispatched to it.
Blank == [topic |-> NoTopic, life |-> "none", retries |-> 0, queue |-> <<>>, acks |-> <<>>,
          engine |-> "none", messages_received |-> 0, pending |-> {}]

\* Stages of a future: "list" asks for the topics of the namespace, "lookup"
\* for their brokers, "seek" seeks, "create" awaits TopicConsumer::new.
\* build creates consumers for the topics named, then for those of the regex.
Idle == [stage |-> "None", existing |-> {}, made |-> <<>>, sought |-> {},
         initial |-> FALSE]

\* consumer_id.unwrap_or_else(rand::random); a configured id stays the same.
Id(c) == IF config.fixed /\ Len(config.listed) = 1 THEN 0 ELSE c

Free == {c \in Slots : slot[c].life = "none"}

\* One TopicConsumer::new per topic of T.
Assign(T) == CHOOSE f \in [T -> Free] : \A t, u \in T : f[t] = f[u] => t = u

Subscribing(f) ==
  [c \in Slots |-> IF \E t \in DOMAIN f : f[t] = c
                   THEN [Blank EXCEPT !.topic = CHOOSE t \in DOMAIN f : f[t] = c,
                                      !.life = "asking"]
                   ELSE slot[c]]

\* Dropping TopicConsumers and futures that are creating some: an engine
\* ends once its TopicConsumer is gone; a subscribe command that was sent is
\* forgotten, and nobody closes what it opens.
DropFrom(base, C) ==
  /\ slot' = [c \in Slots |->
                IF c \notin C THEN base[c]
                ELSE IF slot[c].life = "open" /\ slot[c].engine # "closed"
                     THEN [base[c] EXCEPT !.life = "dropped", !.queue = <<>>]
                     ELSE Blank]
  /\ LET halfway == {c \in C : slot[c].life \in {"asking", "answered"}} IN
     /\ orphans' = orphans \cup {slot[c].topic : c \in halfway}
     /\ registered' = [i \in Ids |-> IF registered[i] \in halfway THEN None
                                     ELSE registered[i]]
Drop(C) == DropFrom(slot, C)

\* The messages of a TopicConsumer that the broker would dispatch again
Back(c) == slot[c].pending \ acked[slot[c].topic]

-----------------------------------------------------------------------------
(* Futures *)

Complete(f) == f.stage = "create" /\ \A c \in Range(f.made) : slot[c].life = "open"

\* try_join_all gives up at the first error, and drops what it has made.
CallFails ==
  /\ call' = Idle
  /\ IF inner = "none"
     THEN /\ inner' = "failed"
          /\ consumers' = <<>> /\ topics' = <<>>
          /\ Drop(Range(call.made) \cup Range(consumers))
     ELSE /\ Drop(Range(call.made))
          /\ UNCHANGED <<inner, consumers, topics>>
  /\ UNCHANGED new_consumers

NewFails ==
  /\ new_consumers' = Idle
  /\ Drop(Range(new_consumers.made))
  /\ UNCHANGED <<inner, consumers, topics, call>>

\* A future is polled: call by the application that awaits it, new_consumers
\* by poll_next, which is not called while the application awaits a call.
Awaited(what) == IF what = "call" THEN call # Idle
                ELSE call = Idle /\ new_consumers # Idle
Future(what) == IF what = "call" THEN call ELSE new_consumers
Becomes(what, f) == IF what = "call" THEN call' = f /\ UNCHANGED new_consumers
                    ELSE new_consumers' = f /\ UNCHANGED call

Fault == faults < MaxFaults /\ faults' = faults + 1

\* A request of a future is refused: the list of topics, a lookup, a seek, a
\* connection, a subscribe command, or the first flow command.
Refused(what) ==
  /\ Awaited(what) /\ ~Complete(Future(what))
  /\ Fault
  /\ IF what = "call" THEN CallFails ELSE NewFails
  /\ UNCHANGED <<config, refresh, disc_messages_received, state, exists, backlog, acked,
                 seen, early, seeks>>

Starts(what, T) ==
  /\ Cardinality(Free) >= Cardinality(T)
  /\ Becomes(what, [Future(what) EXCEPT !.stage = "create", !.made = Assign(T)])
  /\ slot' = Subscribing(Assign(T))

\* get_topics_of_namespace and the lookups: the topics that exist now, except
\* those that had a consumer when the future was made.
ListAll(what)   == exists
ListNew(what)   == exists \ Future(what).existing
Listed(what) ==
  /\ Awaited(what) /\ Future(what).stage = "list"
  /\ Starts(what, ListNew(what))
  /\ UNCHANGED <<config, inner, consumers, topics, refresh,
                 disc_messages_received, state, broker, seen, bounds>>

\* TopicConsumer::new: the subscribe command reaches the broker.
Accepted(c) ==
  /\ slot[c].life = "asking"
  /\ slot' = [slot EXCEPT ![c].life = "answered"]
  /\ registered' = [registered EXCEPT ![Id(c)] = c]
  /\ UNCHANGED <<client, exists, backlog, acked, orphans, seen, bounds>>

\* ServiceNotReady: after a delay and a lookup it is sent again, unless
\* max_retries is reached.
Retries(c) == max_retries > slot[c].retries

Creating(what, c) == Awaited(what) /\ c \in Range(Future(what).made)

NotReady(what, c) ==
  /\ Creating(what, c) /\ slot[c].life = "asking"
  /\ Fault
  /\ IF Retries(c)
     THEN /\ slot' = [slot EXCEPT ![c].retries = @ + 1]
          /\ UNCHANGED <<inner, consumers, topics, new_consumers, call,
                         registered, orphans>>
     ELSE IF what = "call" THEN CallFails ELSE NewFails
  /\ UNCHANGED <<config, refresh, disc_messages_received, state, exists, backlog, acked,
                 seen, early, seeks>>

\* It succeeded: send_flow, and the tasks of the consumer are spawned.
Created(what, c) ==
  /\ Creating(what, c) /\ slot[c].life = "answered"
  /\ slot' = [slot EXCEPT ![c].life = "open", ![c].engine = "running",
                          ![c].retries = 0]
  /\ UNCHANGED <<client, broker, seen, bounds>>

-----------------------------------------------------------------------------
(* ConsumerBuilder::build, ConsumerBuilder::into_reader and Consumer::seek *)

Build ==
  /\ inner = "none" /\ call = Idle
  /\ IF config.names = 0 /\ ~config.regex
     THEN inner' = "failed" /\ UNCHANGED call
     ELSE call' = [Idle EXCEPT !.stage = "lookup"] /\ UNCHANGED inner
  /\ UNCHANGED <<config, consumers, topics, new_consumers, refresh,
                 disc_messages_received, state, slot, broker, seen, bounds>>

\* The lookups of validate or of seek have answered.
LookedUp ==
  /\ call.stage = "lookup"
  /\ IF inner # "none"
     THEN Starts("call", DOMAIN consumers) /\ UNCHANGED inner
     ELSE IF config.reader /\ config.names # 1
     THEN /\ inner' = IF config.names = 0 THEN "panicked" ELSE "failed"
          /\ call' = Idle
          /\ UNCHANGED <<new_consumers, slot>>
     ELSE /\ Starts("call", IF config.reader THEN {Last(config.listed)}
                            ELSE Range(config.listed))
          /\ UNCHANGED inner
  /\ UNCHANGED <<config, consumers, topics, refresh, disc_messages_received, state,
                 broker, seen, bounds>>

\* build has its TopicConsumers: exactly one of them makes a Single consumer.
\* Otherwise a regex asks for the topics of the namespace before build returns.
Built ==
  /\ inner = "none" /\ Complete(call)
  /\ consumers' = call.made @@ consumers
  /\ topics' = topics \o SetToSeq(DOMAIN call.made)
  /\ IF config.reader
     THEN inner' = "Reader" /\ call' = Idle
     ELSE IF Cardinality(DOMAIN call.made) = 1 /\ ~call.initial
     THEN inner' = "Single" /\ call' = Idle
     ELSE IF config.regex /\ ~call.initial
     THEN /\ call' = [Idle EXCEPT !.stage = "list", !.initial = TRUE,
                                  !.existing = DOMAIN call.made]
          /\ UNCHANGED inner
     ELSE inner' = "Multi" /\ call' = Idle
  /\ UNCHANGED <<config, new_consumers, refresh, disc_messages_received, state, slot,
                 broker, seen, bounds>>

Held == inner \in {"Single", "Multi", "Reader"}

Seek(T) ==
  /\ Held /\ call = Idle /\ state = None /\ seeks < MaxSeeks
  /\ inner # "Multi" => T = DOMAIN consumers
  /\ call' = [Idle EXCEPT !.stage = "seek", !.sought = T]
  /\ seeks' = seeks + 1
  /\ UNCHANGED <<config, inner, consumers, topics, new_consumers, refresh,
                 disc_messages_received, state, slot, broker, seen, faults, early>>

\* connection(): the engine answers once it has taken what was queued before.
AnswersAtOnce(c) == TRUE
AnswersConnection(c) == slot[c].acks = <<>>

\* join_all of the seek commands: an engine that has ended gives an error.
\* A Reader keeps its consumer, the others look up their topics again.
SeekAnswered ==
  /\ call.stage = "seek"
  /\ \A t \in call.sought : AnswersConnection(consumers[t])
  /\ LET done == {t \in call.sought : slot[consumers[t]].engine = "running"} IN
     /\ backlog' = [t \in Topics |-> IF t \in done THEN Messages ELSE backlog[t]]
     /\ acked' = [t \in Topics |-> IF t \in done THEN {} ELSE acked[t]]
     /\ call' = IF done = call.sought /\ inner # "Reader"
                THEN [call EXCEPT !.stage = "lookup"] ELSE Idle
     /\ got' = IF done = call.sought /\ inner = "Reader" THEN {} ELSE got
  /\ UNCHANGED <<config, inner, consumers, topics, new_consumers, refresh,
                 disc_messages_received, state, slot, exists, registered, orphans,
                 count, since, bounds>>

\* The new TopicConsumers replace the old ones, which are dropped after.
Replaced ==
  /\ Held /\ Complete(call)
  /\ consumers' = call.made
  /\ topics' = SetToSeq(DOMAIN call.made)
  /\ new_consumers' = Idle /\ call' = Idle
  /\ refresh' = FALSE
  /\ disc_messages_received' = 0
  /\ Drop(Range(consumers) \cup Range(new_consumers.made))
  /\ got' = {m \in got : m[1] \notin call.sought}
  /\ count' = 0
  /\ since' = [t \in Topics |-> {}]
  /\ UNCHANGED <<config, inner, state, exists, backlog, acked, bounds>>

-----------------------------------------------------------------------------
(* Polling *)

\* What poll_next of the TopicConsumer in slot c returns
Some(c)   == slot[c].queue # <<>> /\ Head(slot[c].queue) # Err
Failed(c) == slot[c].queue # <<>> /\ Head(slot[c].queue) = Err
Ended(c)  == slot[c].queue = <<>> /\ slot[c].engine \in {"ended", "closed"}

Hand(t, m) ==
  /\ got' = got \cup {<<t, m>>}
  /\ count' = count + 1

\* Single: messages and errors are passed on.
PollSingle(t) ==
  /\ inner = "Single" /\ call = Idle /\ t \in DOMAIN consumers
  /\ LET c == consumers[t] IN
     \/ /\ Some(c) /\ Hand(t, Head(slot[c].queue))
        /\ slot' = [slot EXCEPT ![c].queue = Tail(@), ![c].messages_received = @ + 1]
     \/ /\ Failed(c)
        /\ slot' = [slot EXCEPT ![c].queue = Tail(@)]
        /\ UNCHANGED <<got, count>>
  /\ UNCHANGED <<client, broker, since, bounds>>

\* Reader in PollingConsumer: a message is kept for PollingAck, an error is
\* passed on.
PollReader(t) ==
  /\ inner = "Reader" /\ call = Idle /\ state = None /\ t \in DOMAIN consumers
  /\ LET c == consumers[t] IN
     /\ Some(c) \/ Failed(c)
     /\ state' = IF Some(c) THEN Head(slot[c].queue) ELSE None
     /\ slot' = [slot EXCEPT ![c].queue = Tail(@),
                             ![c].messages_received = @ + (IF Some(c) THEN 1 ELSE 0)]
  /\ UNCHANGED <<config, inner, consumers, topics, new_consumers, call, refresh,
                 disc_messages_received, broker, seen, bounds>>

Acker(m) == <<m>>

\* Reader in PollingAck, later in the same poll, as the engine's channel is
\* unbounded: the message is passed on once the acknowledgement is queued.
\* When the engine has ended since, the application gets the error instead.
PollAck(t) ==
  /\ inner = "Reader" /\ state # None /\ t \in DOMAIN consumers
  /\ IF slot[consumers[t]].engine = "running"
     THEN /\ Hand(t, state)
          /\ slot' = [slot EXCEPT ![consumers[t]].acks = @ \o Acker(state)]
     ELSE UNCHANGED <<got, count, slot>>
  /\ state' = None
  /\ UNCHANGED <<config, inner, consumers, topics, new_consumers, call, refresh,
                 disc_messages_received, broker, since, bounds>>

\* add_consumers, for a new_consumers future that is finished
Added == IF Complete(new_consumers) THEN new_consumers.made ELSE <<>>

\* update_topics overwrites a future that is not.
Updates     == refresh /\ config.regex
Overwritten == IF Updates /\ ~Complete(new_consumers) THEN Range(new_consumers.made) ELSE {}

\* Topics are polled in turn until one has a message: how many that is.
Polled(current, order) ==
  LET ready == {i \in DOMAIN order : Some(current[order[i]])} IN
  IF ready = {} THEN Len(order) ELSE Min(ready)

\* pop_front and push_back: a topic that was polled goes to the back.
RotateNone(order, n) == order
Rotate(order, n) == SubSeq(order, n + 1, Len(order)) \o SubSeq(order, 1, n)

\* The messages the consumers in C have returned
Received(C) == FoldSet(LAMBDA c, n : n + slot[c].messages_received, 0, C)

\* remove_consumers keeps what the consumers in C have counted.
Disconnected(C) == Received(C)

\* topics_to_remove: those polled that returned an error or the end
ToRemoveEnded(current, polled) == {t \in polled : Ended(current[t])}
ToRemove(current, polled) == {t \in polled : Failed(current[t]) \/ Ended(current[t])}

\* The message of the last topic polled, if it has one
Serve(current, t) ==
  IF Some(current[t])
  THEN /\ Hand(t, Head(slot[current[t]].queue))
       /\ since' = [u \in Topics |->
                      IF u \in DOMAIN current \ {t} /\ Some(current[u])
                      THEN since[u] \cup {t} ELSE {}]
  ELSE UNCHANGED <<got, count, since>>

\* The values poll_next computes once are bound by \E over one-element sets.
PollMulti ==
  /\ inner = "Multi" /\ call = Idle
  /\ \/ Complete(new_consumers) \/ refresh
     \/ \E c \in Range(consumers) : Some(c) \/ Failed(c) \/ Ended(c)
  /\ UNCHANGED <<config, inner, call, state, exists, backlog, acked, faults, seeks>>
  /\ refresh' = FALSE
  /\ \E current \in {Added @@ consumers}, order \in {topics \o SetToSeq(DOMAIN Added)} :
     \E n \in {Polled(current, order)} :
     \E gone \in {ToRemove(current, {order[i] : i \in 1..n})} :
     LET last    == IF n = 0 THEN None ELSE current[order[n]]
         served  == IF last # None /\ Some(last)
                    THEN [slot EXCEPT ![last].queue = Tail(@),
                                      ![last].messages_received = @ + 1]
                    ELSE slot
         dropped == {current[t] : t \in gone} \cup Overwritten
                    \cup {consumers[t] : t \in DOMAIN consumers \cap DOMAIN Added} IN
     /\ new_consumers' = IF Updates
                         THEN [Idle EXCEPT !.stage = "list", !.existing = DOMAIN current]
                         ELSE IF Complete(new_consumers) THEN Idle ELSE new_consumers
     /\ early' = IF Updates /\ MaxEarly # NoLimit /\ new_consumers # Idle
                    /\ ~Complete(new_consumers)
                 THEN early + 1 ELSE early
     /\ consumers' = [t \in DOMAIN current \ gone |-> current[t]]
     /\ topics' = SelectSeq(Rotate(order, n), LAMBDA t : t \notin gone)
     /\ disc_messages_received' =
          disc_messages_received + Disconnected({current[t] : t \in gone})
     /\ DropFrom(served, dropped)
     /\ IF n = 0 THEN UNCHANGED <<got, count, since>> ELSE Serve(current, order[n])

\* ack, cumulative_ack and nack are routed to the TopicConsumer that has the
\* topic now.  The application answers what it was handed since its last seek.
Owner(t) == IF t \in DOMAIN consumers THEN consumers[t] ELSE None

Answers(t) ==
  /\ inner \in {"Single", "Multi"} /\ call = Idle
  /\ Owner(t) # None /\ slot[Owner(t)].engine = "running"

Ack(t, m) ==
  /\ Answers(t) /\ <<t, m>> \in got
  /\ m \notin acked[t] /\ m \notin Range(slot[Owner(t)].acks)
  /\ slot' = [slot EXCEPT ![Owner(t)].acks = Append(@, m)]
  /\ UNCHANGED <<client, broker, seen, bounds>>

\* A closed subscription ignores what its engine sends.
Nack(t, m) ==
  /\ Answers(t) /\ <<t, m>> \in got
  /\ registered[Id(Owner(t))] = Owner(t)
  /\ m \in Back(Owner(t)) \ backlog[t]
  /\ Fault
  /\ backlog' = [backlog EXCEPT ![t] = @ \cup {m}]
  /\ UNCHANGED <<client, slot, exists, registered, acked, orphans, seen, early, seeks>>

-----------------------------------------------------------------------------
(* The engines, the broker and the refresh interval *)

Tick ==
  /\ inner = "Multi" /\ ~refresh
  /\ (new_consumers # Idle /\ MaxEarly # NoLimit) => early < MaxEarly
  /\ refresh' = TRUE
  /\ UNCHANGED <<config, inner, consumers, topics, new_consumers, call,
                 disc_messages_received, state, slot, broker, seen, bounds>>

\* The broker dispatches to the TopicConsumer its registration leads to.
Dispatch(c) ==
  /\ slot[c].engine = "running" /\ registered[Id(c)] = c
  /\ LET t == slot[c].topic IN
     \E m \in backlog[t] \ acked[t] :
       /\ \A n \in backlog[t] \ acked[t] : m <= n
       /\ backlog' = [backlog EXCEPT ![t] = @ \ {m}]
       /\ slot' = [slot EXCEPT ![c].pending = @ \cup {m},
                               ![c].queue = IF slot[c].life = "open" THEN Append(@, m) ELSE @]
  /\ UNCHANGED <<client, exists, registered, acked, orphans, seen, bounds>>

\* An engine takes an acknowledgement and sends it to the broker.
EngineAcks(c) ==
  /\ slot[c].engine = "running" /\ slot[c].acks # <<>>
  /\ slot' = [slot EXCEPT ![c].acks = Tail(@)]
  /\ acked' = IF registered[Id(c)] = c
              THEN [acked EXCEPT ![slot[c].topic] = @ \cup {Head(slot[c].acks)}]
              ELSE acked
  /\ UNCHANGED <<client, exists, registered, backlog, orphans, seen, bounds>>

\* It reconnects: the acknowledgements it had sent on the broken connection are
\* lost, and the broker takes back what was not acknowledged.
EngineReconnects(c) ==
  /\ slot[c].life = "open" /\ slot[c].engine = "running" /\ registered[Id(c)] = c
  /\ Fault
  /\ backlog' = [backlog EXCEPT ![slot[c].topic] = @ \cup Back(c)]
  /\ \E lost \in 0..Len(slot[c].acks) :
       slot' = [slot EXCEPT ![c].acks = SubSeq(@, lost + 1, Len(@)), ![c].pending = {}]
  /\ UNCHANGED <<client, exists, registered, acked, orphans, seen, early, seeks>>

\* An engine gives its application an error.
EngineFails(c) ==
  /\ slot[c].life = "open" /\ slot[c].engine = "running"
  /\ Fault
  /\ slot' = [slot EXCEPT ![c].queue = Append(@, Err)]
  /\ UNCHANGED <<client, broker, seen, early, seeks>>

\* It ends, by itself or because its TopicConsumer was dropped, and what was
\* queued for it is lost.
EngineEnds(c) ==
  /\ slot[c].engine = "running"
  /\ IF slot[c].life = "dropped" THEN UNCHANGED faults ELSE Fault
  /\ slot' = [slot EXCEPT ![c].engine = "ended", ![c].acks = <<>>]
  /\ UNCHANGED <<client, broker, seen, early, seeks>>

\* The task that waits for the end of the engine closes the consumer: the
\* broker takes back what was not acknowledged.
Closed(c) ==
  /\ slot[c].engine = "ended"
  /\ LET r == registered[Id(c)]
         back == Back(c) \cup (IF r = None THEN {} ELSE Back(r)) IN
     /\ backlog' = [backlog EXCEPT ![slot[c].topic] = @ \cup back]
     /\ slot' = [d \in Slots |->
                   IF d = c THEN IF slot[c].life = "dropped" THEN Blank
                                 ELSE [slot[c] EXCEPT !.engine = "closed", !.pending = {}]
                   ELSE IF d = r THEN [slot[d] EXCEPT !.pending = {}] ELSE slot[d]]
     /\ registered' = [registered EXCEPT ![Id(c)] = None]
  /\ UNCHANGED <<client, exists, acked, orphans, seen, bounds>>

TopicAppears(t) ==
  /\ t \notin exists
  /\ exists' = exists \cup {t}
  /\ UNCHANGED <<client, slot, registered, backlog, acked, orphans, seen, bounds>>

-----------------------------------------------------------------------------
(* The specification *)

Init ==
  /\ config \in Configs
  /\ inner = "none"
  /\ consumers = <<>> /\ topics = <<>>
  /\ new_consumers = Idle /\ call = Idle
  /\ refresh = FALSE
  /\ disc_messages_received = 0
  /\ state = None
  /\ slot = [c \in Slots |-> Blank]
  /\ exists = Range(config.listed)
  /\ registered = [i \in Ids |-> None]
  /\ backlog = [t \in Topics |-> Messages]
  /\ acked = [t \in Topics |-> {}]
  /\ orphans = {}
  /\ got = {} /\ count = 0
  /\ since = [t \in Topics |-> {}]
  /\ faults = 0 /\ early = 0 /\ seeks = 0

Futures == {"call", "new_consumers"}

\* The call the application awaits, subscribe commands, acknowledgements,
\* consumers that close
Await == Build \/ LookedUp \/ Listed("call") \/ Built \/ SeekAnswered \/ Replaced
Work ==
  \/ Await
  \/ \E c \in Slots : \/ Accepted(c) \/ Closed(c) \/ EngineAcks(c)
                      \/ slot[c].life = "dropped" /\ EngineEnds(c)
                      \/ \E what \in Futures : Created(what, c)
Poll == PollMulti \/ \E t \in Topics : PollSingle(t) \/ PollReader(t) \/ PollAck(t)
Relist == Listed("new_consumers")
Dispatching == \E c \in Slots : Dispatch(c)

\* What may happen but need not
Maybe ==
  \/ \E T \in SUBSET DOMAIN consumers : Seek(T)
  \/ \E t \in Topics, m \in Messages : Ack(t, m) \/ Nack(t, m)
  \/ \E t \in Topics : TopicAppears(t)
  \/ \E what \in Futures : Refused(what)
  \/ \E what \in Futures, c \in Slots : NotReady(what, c)
  \/ \E c \in Slots : \/ EngineReconnects(c) \/ EngineFails(c)
                      \/ slot[c].life = "open" /\ EngineEnds(c)

Next == Work \/ Poll \/ Tick \/ Relist \/ Dispatching \/ Maybe

Spec == Init /\ [][Next]_vars

\* The application awaits its calls and keeps polling, the interval ticks, the
\* tasks and the broker work.  Nothing obliges a request to fail, an engine to
\* end by itself, or the application to acknowledge or to seek.
Fairness ==
  /\ WF_vars(Work) /\ WF_vars(Poll) /\ WF_vars(Tick) /\ WF_vars(Relist)
  /\ WF_vars(Dispatching)

FairSpec == Spec /\ Fairness

-----------------------------------------------------------------------------
(* Properties *)

FutureType == [stage : {"None", "list", "lookup", "seek", "create"},
               existing : SUBSET Topics, sought : SUBSET Topics, initial : BOOLEAN,
               made : UNION {[T -> Slots] : T \in SUBSET Topics}]

SlotOK(s) ==
  /\ s.topic \in Topics \cup {NoTopic}
  /\ s.life \in {"none", "asking", "answered", "open", "dropped"}
  /\ s.engine \in {"none", "running", "ended", "closed"}
  /\ s.retries \in 0..max_retries
  /\ Range(s.queue) \subseteq Messages \cup {Err}
  /\ s.pending \subseteq Messages /\ Range(s.acks) \subseteq Messages
  /\ s.messages_received \in Nat

\* Every variable has its type: a slot that is free holds nothing, and a
\* subscribe command is never repeated more than max_retries times.
TypeOK ==
  /\ config \in Configs
  /\ inner \in {"none", "Single", "Multi", "Reader", "failed", "panicked"}
  /\ consumers \in UNION {[T -> Slots] : T \in SUBSET Topics}
  /\ Range(topics) \subseteq Topics
  /\ new_consumers \in FutureType /\ call \in FutureType
  /\ refresh \in BOOLEAN /\ state \in Messages \cup {None}
  /\ {disc_messages_received, count, faults, early, seeks} \subseteq Nat
  /\ \A c \in Slots : SlotOK(slot[c]) /\ (slot[c].life = "none" => slot[c] = Blank)
  /\ exists \subseteq Topics /\ orphans \subseteq Topics
  /\ registered \in [Ids -> {None} \cup Slots]
  /\ backlog \in [Topics -> SUBSET Messages] /\ acked \in [Topics -> SUBSET Messages]
  /\ got \subseteq Topics \X Messages
  /\ since \in [Topics -> SUBSET Topics]

\* The queue of topics and the map of consumers name the same topics, each
\* once, whatever refreshes, removals and seeks overlap: poll_next never meets
\* its "BUG: Missing consumer for topic", and no topic is polled twice a turn.
TopicsAgree ==
  /\ Range(topics) = DOMAIN consumers
  /\ Len(topics) = Cardinality(DOMAIN consumers)
  /\ \A t \in DOMAIN consumers : slot[consumers[t]].topic = t

\* messages_received() is the number of messages handed out since the
\* consumer was built or sought, the consumers dropped meanwhile included
\* (disc_messages_received keeps what they had counted).
CountsAll ==
  Held /\ inner # "Reader" =>
    count = disc_messages_received
            + Received(Range(consumers))

\* A topic that was served while another one had a message stands behind it:
\* no topic is served twice while another waits, although consumers come and
\* go between two polls.
TakesTurns ==
  \A i, j \in DOMAIN topics : topics[j] \in since[topics[i]] => i < j

\* The broker routes messages to every TopicConsumer the application holds
\* whose engine runs: nothing closes the subscription of a consumer in use.
\* seek creates the new consumer before it drops the old one, so a consumer
\* with a configured id loses its subscription to the close of the old one.
StaysSubscribed ==
  Held /\ call = Idle =>
    \A t \in DOMAIN consumers :
      slot[consumers[t]].engine = "running"
        => registered[Id(consumers[t])] = consumers[t]

\* No message is acknowledged that the application was not handed since it
\* last sought the topic: a seek reaches the broker after the acknowledgements
\* that were queued before it, which would otherwise make the broker skip what
\* the seek asks for.  A Reader that cannot queue an acknowledgement has not
\* passed the message on either.
AckedSeen ==
  \A t \in Topics : \A m \in acked[t] : <<t, m>> \in got


\* Every message of every topic a multi topic consumer listens to is handed
\* out in the end, and once more after a seek.  With a regex that is every topic
\* that exists, also after its consumer failed, or after a refresh failed or was
\* overwritten; a topic named in a list is given up when its consumer fails.
Delivered ==
  \A t \in Topics, m \in Messages :
    LET listens == inner = "Multi" /\ t \in exists
                   /\ (config.regex \/ t \in DOMAIN consumers) IN
    listens ~> (<<t, m>> \in got \/ ~listens)

\* build and seek return.
CallsReturn == (call # Idle) ~> (call = Idle)

\* A consumer built with a regex listens to every topic that matches it.
ListensToAll ==
  \A t \in Topics :
    (Held /\ config.regex /\ ~config.reader /\ t \in exists) ~> (t \in DOMAIN consumers)

\* No subscription is left that nothing will ever close.
NoOrphan == orphans = {}

=============================================================================
