------------------------------ MODULE Producer ------------------------------
(***************************************************************************)
(* One producer of a topic (src/producer.rs, TopicProducer): its creation,  *)
(* the batch, the messages it sends, the one retry after a disconnection or *)
(* a timeout, the reconnection, and the tasks that close it at the broker.  *)
(* The broker is external; connections and the pool are reduced to what the *)
(* producer sees of the modules Connection and ConnectionManager.           *)
(*                                                                         *)
(* A call of the application borrows the producer, so calls do not overlap. *)
(* A creation is one successful create_producer; its number names the task  *)
(* that closes it.                                                          *)
(***************************************************************************)
EXTENDS Naturals, Sequences, FiniteSets, Functions

CONSTANTS
  BatchSizes,    \* what ProducerOptions::batch_size may be: NoBatch is None
  Exclusive,     \* access_mode may leave the producer waiting for access
  Slow,          \* a request may time out on a working connection
  max_retries,   \* OperationRetryOptions::max_retries
  MaxMessages,   \* bound: messages the application sends
  MaxFlushes,    \* bound: calls of send_batch
  MaxBreaks,     \* bound: connections that fail
  MaxConns,      \* bound: connections to the brokers that serve the topic in turn
  MaxCloses,     \* bound: producers closed by the broker
  NoBatch

ASSUME ProducerAssumption ==
  /\ BatchSizes \subseteq Nat \cup {NoBatch} /\ NoBatch \notin Nat
  /\ {Exclusive, Slow} \subseteq BOOLEAN
  /\ {max_retries, MaxMessages, MaxFlushes, MaxBreaks, MaxConns, MaxCloses}
       \subseteq Nat
  /\ MaxBreaks < MaxConns

Messages  == 1..MaxMessages
Conns     == 1..MaxConns
Creations == 1..(MaxMessages + MaxFlushes + 1)
None      == 0

VARIABLES
  \* the producer
  batch_size,    \* ProducerOptions::batch_size
  pc,            \* what the call in progress does next
  first,         \* the call is from_connection
  resending,     \* the call is in its second attempt
  connection,
  signal,        \* the creation of its _drop_signal, or None
  message_id,    \* SerialId: the next sequence id
  batch,         \* Batch::storage
  out,           \* messages of the ProducerMessage being sent
  retries,       \* current_retries
  \* the application
  next,          \* messages sent so far
  flushes,       \* calls of send_batch so far
  result,        \* state of each SendFuture
  \* connections and the pool
  conn,          \* "none", "open", "silent" or "broken"
  pool,          \* the connections in the manager's map, one for each broker
  \* tasks
  home,          \* the connection of each creation, or None
  task,          \* the task that closes it: "none", "armed", "closing", "closed"
  \* the broker
  registered,    \* connections on which it knows the producer
  orphaned,      \* those on which a create_producer that was given up left it
  ready,         \* it has granted access
  wire,          \* Send frames on their way
  answer,        \* its answer to the frame awaited: "none", "receipt", "error"
  log,           \* messages published, in order
  closes

producer == <<pc, first, resending, connection, signal, message_id, batch, out, retries>>
app      == <<next, flushes, result>>
conns    == <<conn, pool>>
tasks    == <<home, task>>
broker   == <<registered, orphaned, ready, wire, answer, log, closes>>
vars     == <<batch_size, producer, app, conns, tasks, broker>>

-----------------------------------------------------------------------------
(* Batch *)

is_full(b) == Len(b) >= batch_size

\* drain(..): the messages in the order in which they were pushed
Emptied(b) == <<>>

Reversed(b) == [i \in DOMAIN b |-> b[Len(b) - i + 1]]
WithoutFirst(b) == Tail(b)
get_messages(b) == b

-----------------------------------------------------------------------------
(* Calls of the application *)

Idle == pc = "idle"

Sent(m, r) == result' = [result EXCEPT ![m] = r]

\* send_raw, up to send_compress; the message that fills the batch sends it.
send_raw ==
  /\ Idle
  /\ next < MaxMessages
  /\ next' = next + 1
  /\ Sent(next', "pending")
  /\ \/ /\ batch_size = NoBatch
        /\ out' = <<next'>>
        /\ pc' = "send"
        /\ UNCHANGED batch
     \/ /\ batch_size # NoBatch
        /\ LET pushed == Append(batch, next')
           IN  \/ /\ ~is_full(pushed)
                  /\ batch' = pushed
                  /\ UNCHANGED <<pc, out>>
               \/ /\ is_full(pushed)
                  /\ out' = get_messages(pushed)
                  /\ batch' = Emptied(pushed)
                  /\ pc' = "send"
  /\ UNCHANGED <<first, resending, connection, signal, message_id, retries,
                 flushes, conns, tasks, broker>>

\* send_batch: an empty batch is not sent.
send_batch ==
  /\ Idle
  /\ batch_size # NoBatch
  /\ flushes < MaxFlushes
  /\ flushes' = flushes + 1
  /\ \/ /\ batch = <<>>
        /\ UNCHANGED <<pc, out, batch>>
     \/ /\ batch # <<>>
        /\ out' = get_messages(batch)
        /\ batch' = Emptied(batch)
        /\ pc' = "send"
  /\ UNCHANGED <<first, resending, connection, signal, message_id, retries, next,
                 result, conns, tasks, broker>>

\* The call returns r for what it was sending: the SendFutures of the messages
\* are resolved, and its locals are gone.
Outcome(r) == r

Resolve(r) ==
  /\ pc' = "idle"
  /\ out' = <<>> /\ resending' = FALSE /\ retries' = 0 /\ answer' = "none"
  /\ result' = [m \in Messages |-> IF m \in Range(out) THEN Outcome(r) ELSE result[m]]

\* The broker creates the producer for a create_producer nobody waits for: no task
\* is made to close it.
Orphans ==
  /\ registered' = registered \cup {connection}
  /\ orphaned' = orphaned \cup {connection}

\* The application drops the producer, or the future of the call in progress:
\* the SendFutures it leaves behind answer that the producer is disconnected.
\* A create_producer on its way is not taken back.
DropUnnoticed ==
  /\ Idle
  /\ pc' = "dropped"
  /\ batch' = <<>>
  /\ result' = [m \in Messages |-> IF m \in Range(batch) THEN "canceled" ELSE result[m]]
  /\ UNCHANGED <<first, resending, connection, signal, message_id, out, retries,
                 next, flushes, conns, tasks, broker>>

DropProducer ==
  /\ Idle
  /\ pc' = "dropped"
  /\ batch' = <<>>
  /\ result' = [m \in Messages |-> IF m \in Range(batch) THEN "canceled" ELSE result[m]]
  /\ task' = [task EXCEPT ![signal] = "closing"]
  /\ UNCHANGED <<first, resending, connection, signal, message_id, out, retries,
                 next, flushes, conns, home, broker>>

Cancel ==
  /\ pc \notin {"idle", "dropped", "failed"} /\ ~first
  /\ Resolve("canceled")
  /\ \/ UNCHANGED <<registered, orphaned>>
     \/ /\ pc = "create" /\ conn[connection] = "open"
        /\ Orphans
  /\ UNCHANGED <<first, connection, signal, message_id, batch, next, flushes, conns,
                 tasks, ready, wire, log, closes>>

-----------------------------------------------------------------------------
(* send_inner *)

\* A connection is usable until the client knows that it is broken.
Up(k) == conn[k] \in {"open", "silent"}

\* ConnectionSender::send: the frame is on its way, or the answer is Disconnected.
Send ==
  /\ pc = "send"
  /\ message_id' = message_id + 1
  /\ pc' = "await"
  /\ wire' = IF Up(connection)
             THEN [wire EXCEPT ![connection] =
                      Append(@, [messages |-> out, sequence_id |-> message_id])]
             ELSE wire
  /\ answer' = "none"
  /\ UNCHANGED <<first, resending, connection, signal, batch, out, retries, app,
                 conns, tasks, registered, orphaned, ready, log, closes>>

\* A receipt, or an error of the broker
Answered ==
  /\ pc = "await"
  /\ answer # "none"
  /\ Resolve(answer)
  /\ UNCHANGED <<first, connection, signal, message_id, batch, next, flushes, conns,
                 tasks, registered, orphaned, ready, wire, log, closes>>

\* The frame awaited is still to be read by the broker.
Underway == \E i \in DOMAIN wire[connection] :
              wire[connection][i].sequence_id = message_id - 1

\* Disconnected, or no answer in time: one more attempt, after a reconnection.
Unanswered ==
  /\ pc = "await"
  /\ answer = "none"
  /\ \/ ~Up(connection)
     \/ conn[connection] = "silent"
     \/ conn[connection] = "open" /\ (Slow \/ ~Underway)
  /\ \/ /\ ~resending
        /\ pc' = "lookup"
        /\ UNCHANGED <<resending, out, retries, result, answer>>
     \/ /\ resending
        /\ Resolve("error")
  /\ UNCHANGED <<first, connection, signal, message_id, batch, next, flushes, conns,
                 tasks, registered, orphaned, ready, wire, log, closes>>

-----------------------------------------------------------------------------
(* The loop of from_connection and reconnect *)

\* An error of the loop is the result of the call, or of the builder.
Fails ==
  \/ /\ first
     /\ pc' = "failed"
     /\ UNCHANGED <<out, resending, retries, result, answer>>
  \/ /\ ~first
     /\ Resolve("error")

\* lookup_topic and get_connection: the topic is at the broker of a connection of
\* the pool, or at one to which the pool has none that works and connects.
\* self.connection is replaced at once, by whatever the lookup answers.
Lookup ==
  /\ pc = "lookup"
  /\ \/ /\ Fails
        /\ UNCHANGED <<connection, conns>>
     \/ /\ \E k \in Conns :
             /\ connection' = k
             /\ \/ k \in pool /\ UNCHANGED conns
                \/ /\ conn[k] = "none" /\ \A j \in Conns : j < k => conn[j] # "none"
                   /\ pool' = pool \cup {k}
                   /\ conn' = [conn EXCEPT ![k] = "open"]
        /\ pc' = "create"
        /\ UNCHANGED <<resending, out, retries, result, answer>>
  /\ UNCHANGED <<first, signal, message_id, batch, next, flushes, tasks, registered,
                 orphaned, ready, wire, log, closes>>

\* ServiceNotReady is answered with another lookup, max_retries times.
RetriesLeft == max_retries > retries

NotReadyUncounted ==
  /\ pc = "create"
  /\ conn[connection] = "open"
  /\ pc' = "lookup"
  /\ UNCHANGED <<first, resending, connection, signal, message_id, batch, out,
                 retries, app, conns, tasks, broker>>

NotReady ==
  /\ pc = "create"
  /\ conn[connection] = "open"
  /\ \/ /\ RetriesLeft
        /\ retries' = retries + 1
        /\ pc' = "lookup"
        /\ UNCHANGED <<resending, out, result, answer>>
     \/ /\ ~RetriesLeft
        /\ Fails
  /\ UNCHANGED <<first, connection, signal, message_id, batch, next, flushes, conns,
                 tasks, registered, orphaned, ready, wire, log, closes>>

\* Any other error of create_producer; a broker that is too late to answer may
\* have created the producer.
Refused ==
  /\ pc = "create"
  /\ Fails
  /\ \/ UNCHANGED <<registered, orphaned>>
     \/ /\ Slow /\ conn[connection] = "open"
        /\ Orphans
  /\ UNCHANGED <<first, connection, signal, message_id, batch, next, flushes, conns,
                 tasks, ready, wire, log, closes>>

\* The producer is known to the broker, and access is granted now or later.
Registers ==
  /\ conn[connection] = "open"
  /\ registered' = registered \cup {connection}
  /\ orphaned' = orphaned \ {connection}
  /\ \/ ready' = TRUE
     \/ Exclusive /\ ready' = FALSE

\* A new drop signal replaces the one of the creation before, whose task is
\* thereby told to close the producer.
OldSignal == IF signal = None THEN task ELSE [task EXCEPT ![signal] = "closing"]

NewTask ==
  \E g \in Creations :
    /\ home[g] = None /\ \A f \in Creations : f < g => home[f] # None
    /\ home' = [home EXCEPT ![g] = connection]
    /\ signal' = g
    /\ task' = [OldSignal EXCEPT ![g] = "armed"]

\* from_connection waits for access, without a timeout; whatever ends the wait, an
\* error of the broker included, the producer is built.
Created ==
  /\ pc = "create" /\ first
  /\ Registers
  /\ \/ /\ ready'
        /\ pc' = "idle"
        /\ first' = FALSE
        /\ NewTask
     \/ /\ ~ready'
        /\ pc' = "access"
        /\ UNCHANGED <<first, home, task, signal>>
  /\ retries' = 0
  /\ UNCHANGED <<resending, connection, message_id, batch, out, app, conns, wire,
                 answer, log, closes>>

AccessGranted ==
  /\ pc = "access"
  /\ conn[connection] = "open"
  /\ ready' = TRUE
  /\ pc' = "idle"
  /\ first' = FALSE
  /\ NewTask
  /\ UNCHANGED <<resending, connection, message_id, batch, out, retries, app,
                 conns, registered, orphaned, wire, answer, log, closes>>

AccessRefused ==
  /\ pc = "access"
  /\ conn[connection] = "open"
  /\ pc' = "idle"
  /\ first' = FALSE
  /\ NewTask
  /\ registered' = registered \ {connection}
  /\ UNCHANGED <<resending, connection, message_id, batch, out, retries, app,
                 conns, orphaned, ready, wire, answer, log, closes>>

AccessFails ==
  /\ pc = "access"
  /\ ~Up(connection)
  /\ pc' = "idle"
  /\ first' = FALSE
  /\ NewTask
  /\ UNCHANGED <<resending, connection, message_id, batch, out, retries, app,
                 conns, broker>>

\* reconnect does not look at producer_ready, replaces the batch by a new one,
\* and send_inner sends the message again.
Reconnected ==
  /\ pc = "create" /\ ~first
  /\ Registers
  /\ NewTask
  /\ batch' = <<>>
  /\ pc' = "send"
  /\ resending' = TRUE
  /\ retries' = 0
  /\ UNCHANGED <<first, connection, message_id, out, app, conns, wire, answer, log,
                 closes>>

\* The broker does not know the producer on connection k any longer.
Forget(k) ==
  /\ registered' = registered \ {k}
  /\ orphaned' = orphaned \ {k}

\* The task of a creation whose drop signal is gone: close_producer names the
\* producer id, which every creation shares.
CloseCurrent(g) ==
  /\ task[g] = "closing"
  /\ task' = [task EXCEPT ![g] = "closed"]
  /\ Forget(connection)
  /\ UNCHANGED <<producer, app, conns, home, ready, wire, answer, log, closes>>

CloseTask(g) ==
  /\ task[g] = "closing"
  /\ task' = [task EXCEPT ![g] = "closed"]
  /\ \/ conn[home[g]] = "open" /\ Forget(home[g])
     \/ conn[home[g]] # "open" /\ UNCHANGED <<registered, orphaned>>
  /\ UNCHANGED <<producer, app, conns, home, ready, wire, answer, log, closes>>

-----------------------------------------------------------------------------
(* The broker, external, and the connections *)

\* The broker reads a frame: it publishes the messages, refuses them, or drops
\* a frame of a producer it does not know.  The client takes only the answer to
\* the frame that it awaits.
BrokerReads(k) ==
  /\ conn[k] = "open"
  /\ wire[k] # <<>>
  /\ wire' = [wire EXCEPT ![k] = Tail(@)]
  /\ LET frame   == Head(wire[k])
         awaited == pc = "await" /\ connection = k
                      /\ frame.sequence_id = message_id - 1
     IN  \/ /\ k \in registered
            /\ log' = log \o frame.messages
            /\ answer' = IF awaited THEN "receipt" ELSE answer
         \/ /\ k \in registered
            /\ answer' = IF awaited THEN "error" ELSE answer
            /\ UNCHANGED log
         \/ /\ k \notin registered
            /\ UNCHANGED <<log, answer>>
  /\ UNCHANGED <<producer, app, conns, tasks, registered, orphaned, ready, closes>>

BrokerCloses(k) ==
  /\ k \in registered /\ conn[k] = "open"
  /\ closes < MaxCloses
  /\ closes' = closes + 1
  /\ Forget(k)
  /\ UNCHANGED <<producer, app, conns, tasks, ready, wire, answer, log>>

\* A connection fails, at once or after a silence that a heartbeat detects; the
\* pool forgets it and the frames on it are lost.
Gone(k) ==
  /\ Forget(k)
  /\ wire' = [wire EXCEPT ![k] = <<>>]

Breaks(k) ==
  /\ conn[k] = "open"
  /\ Cardinality({j \in Conns : conn[j] \notin {"none", "open"}}) < MaxBreaks
  /\ Gone(k)
  /\ \/ /\ conn' = [conn EXCEPT ![k] = "silent"]
        /\ UNCHANGED pool
     \/ /\ conn' = [conn EXCEPT ![k] = "broken"]
        /\ pool' = pool \ {k}
  /\ UNCHANGED <<producer, app, tasks, ready, answer, log, closes>>

HeartbeatFails(k) ==
  /\ conn[k] = "silent"
  /\ conn' = [conn EXCEPT ![k] = "broken"]
  /\ pool' = pool \ {k}
  /\ Gone(k)
  /\ UNCHANGED <<producer, app, tasks, ready, answer, log, closes>>

-----------------------------------------------------------------------------
\* from_connection is called with a connection of the pool.
Init ==
  /\ batch_size \in BatchSizes
  /\ pc = "create" /\ first = TRUE /\ resending = FALSE
  /\ connection = 1 /\ signal = None
  /\ message_id = 0
  /\ batch = <<>> /\ out = <<>> /\ retries = 0
  /\ next = 0 /\ flushes = 0
  /\ result = [m \in Messages |-> "none"]
  /\ conn = [k \in Conns |-> IF k = 1 THEN "open" ELSE "none"]
  /\ pool = {1}
  /\ home = [g \in Creations |-> None]
  /\ task = [g \in Creations |-> "none"]
  /\ registered = {} /\ orphaned = {} /\ ready = FALSE
  /\ wire = [k \in Conns |-> <<>>]
  /\ answer = "none" /\ log = <<>> /\ closes = 0

Call ==
  \/ Send \/ Answered \/ Unanswered \/ Lookup \/ NotReady \/ Refused
  \/ Created \/ Reconnected

\* The end of the wait for access, which nothing bounds
Access == AccessGranted \/ AccessRefused \/ AccessFails

Application == send_raw \/ send_batch \/ DropProducer \/ Cancel

Broker == \E k \in Conns : BrokerReads(k) \/ BrokerCloses(k)

Next ==
  /\ \/ Call \/ Access \/ Application \/ Broker
     \/ \E k \in Conns : Breaks(k) \/ HeartbeatFails(k)
     \/ \E g \in Creations : CloseTask(g)
  /\ UNCHANGED batch_size

Spec == Init /\ [][Next]_vars

\* The executor runs the call and the tasks, requests time out, heartbeats are
\* sent, and the broker reads what reaches it; nothing is assumed of the
\* application, nor of a broker that is asked for access.
Fairness ==
  /\ WF_vars(Call /\ UNCHANGED batch_size)
  /\ \A g \in Creations : WF_vars(CloseTask(g) /\ UNCHANGED batch_size)
  /\ \A k \in Conns :
       /\ WF_vars(HeartbeatFails(k) /\ UNCHANGED batch_size)
       /\ WF_vars(BrokerReads(k) /\ UNCHANGED batch_size)

FairSpec == Spec /\ Fairness

-----------------------------------------------------------------------------
(* Properties *)

Frames == [messages : Seq(Messages), sequence_id : Nat]

\* Every variable keeps its type; a message is being sent exactly while a call
\* of send or send_batch is under way, and the retries stay within max_retries.
TypeOK ==
  /\ batch_size \in BatchSizes
  /\ pc \in {"idle", "send", "await", "lookup", "create", "access", "dropped",
             "failed"}
  /\ first \in BOOLEAN /\ resending \in BOOLEAN /\ ready \in BOOLEAN
  /\ connection \in Conns /\ pool \subseteq Conns
  /\ signal \in Creations \cup {None}
  /\ message_id \in Nat
  /\ batch \in Seq(Messages) /\ out \in Seq(Messages)
  /\ out # <<>> <=> (pc \in {"send", "await", "lookup", "create"} /\ ~first)
  /\ retries \in 0..max_retries
  /\ next \in 0..MaxMessages /\ flushes \in 0..MaxFlushes
  /\ result \in [Messages -> {"none", "pending", "receipt", "error", "canceled"}]
  /\ conn \in [Conns -> {"none", "open", "silent", "broken"}]
  /\ home \in [Creations -> Conns \cup {None}]
  /\ task \in [Creations -> {"none", "armed", "closing", "closed"}]
  /\ registered \subseteq Conns /\ orphaned \subseteq Conns
  /\ wire \in [Conns -> Seq(Frames)]
  /\ answer \in {"none", "receipt", "error"}
  /\ log \in Seq(Messages)
  /\ closes \in 0..MaxCloses

\* A message whose SendFuture is still unresolved waits in the batch or is being
\* sent: neither a reconnection, which replaces the batch, nor an error of the
\* call forgets it.
PendingHeld ==
  \A m \in Messages : result[m] = "pending" => m \in Range(batch) \cup Range(out)

\* Messages that have a receipt are published, and were first published in the
\* order of the calls that sent them, whatever was retried, timed out or batched
\* on the way.
OrderKept ==
  LET Receipts == {m \in Messages : result[m] = "receipt"}
      At(m) == CHOOSE i \in DOMAIN log : log[i] = m /\ \A j \in 1..(i - 1) : log[j] # m
  IN  /\ Receipts \subseteq Range(log)
      /\ \A m, n \in Receipts : m < n => At(m) < At(n)

\* Without a reconnection every message is published at most once.
PublishedOnce ==
  signal \in {None, 1} => \A i, j \in DOMAIN log : log[i] = log[j] => i = j

\* An idle producer that was granted access on its connection, which works and on
\* which the broker closes nothing, is known to the broker.
ProducerKnown ==
  (/\ Idle /\ ready /\ home[signal] = connection
   /\ conn[connection] = "open" /\ closes = 0)
    => connection \in registered

\* The task of an earlier creation closes the producer where that creation was,
\* and never the one that replaced it on another connection, to the same broker
\* or to another one: an idle producer that was granted access, created once on
\* its connection, which works, is known to the broker.
ProducerLive ==
  (\A g \in Creations \ {signal} : home[g] # connection) => ProducerKnown

\* A producer built with an exclusive access mode has been granted access.
AccessHeld == (Idle /\ signal = 1) => ready

\* Every call returns, with or without a batch, whatever breaks, times out or is
\* refused on the way, unless it is the creation of a producer that the broker has
\* asked to wait for access: that wait has no timeout and may last for ever.
CallsReturn == []<>(pc \in {"idle", "dropped", "failed", "access"})

\* A producer that is dropped is closed wherever the broker knows it, on the
\* connections that a reconnection has left behind too.  The exception is where
\* the future of a reconnection was dropped, or timed out, after create_producer
\* was sent: no task was made to close what the broker then created.
DropCloses == []<>(pc = "dropped" => registered \subseteq orphaned)
=============================================================================
