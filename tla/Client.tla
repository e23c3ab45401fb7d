------------------------------- MODULE Client -------------------------------
(***************************************************************************)
(* The Pulsar client (src/client.rs) with its run_producer task, and the   *)
(* producers for several topics and for the partitions of a topic          *)
(* (src/producer.rs, MultiTopicProducer, Producer, PartitionedProducer and *)
(* ProducerBuilder).                                                       *)
(*                                                                         *)
(* There are three users of topic producers: run_producer, which owns a    *)
(* MultiTopicProducer, and the application, which may have one of its own  *)
(* or a Producer.  A TopicProducer is named by the number of its           *)
(* creation; sending on it is one step here and is the module Producer in  *)
(* detail.  The broker is external.                                        *)
(***************************************************************************)
EXTENDS Naturals, Sequences, FiniteSets, Functions

CONSTANTS
  Topics,        \* topics messages are sent on
  PartitionsOf,  \* PartitionsOf[t]: partitions of the topic, 0 if not partitioned
  Users,         \* of {"run_producer", "multi", "producer"}, those that are there
  Bad,           \* messages that cannot be serialised
  MaxMessages,   \* bound: messages of the application
  MaxCreations,  \* bound: topic producers
  NoTopic

ASSUME ClientAssumption ==
  /\ PartitionsOf \in [Topics -> Nat]
  /\ Users \subseteq {"run_producer", "multi", "producer"}
  /\ MaxMessages \in Nat /\ MaxCreations \in Nat
  /\ NoTopic \notin Topics

Messages == 1..MaxMessages
Ids      == 1..MaxCreations

\* The topics lookup_partitioned_topic returns: the topic itself, or its
\* partitions in order
Names(t) == IF PartitionsOf[t] = 0 THEN <<<<t>>>>
            ELSE [n \in 1..PartitionsOf[t] |-> <<t, n - 1>>]
AllNames == UNION {Range(Names(t)) : t \in Topics}

VARIABLES
  client,      \* the application's Pulsar: "new", "held", "dropped" or "failed"
  owned,       \* producers of its own the application still has, each with a
               \* clone of the client
  check_task,  \* the task that checks the connections: "none", "running", "ended"
  \* messages
  topic,       \* the topic a message was sent on, or NoTopic
  sender,      \* the user that sends it
  future,      \* its SendFuture: "none", "pending", "ok", "error", "refused"
  queue,       \* the channel to run_producer
  resolving,   \* messages whose resolver is in a spawned task
  \* users
  pc,          \* what each user does
  current,     \* the messages it is still to send, the one in hand first
  target,      \* the topic they are for
  pinned,      \* send_all of a Producer keeps to one partition
  producers,   \* topic producers of each user by topic, in the order of rotation
  building,    \* topic producers being created by build, in order
  \* topic producers
  name,        \* the topic or partition of each
  task,        \* its drop task: "none", "armed", "closing", "closed"
  \* the broker
  registered,  \* topic producers the broker knows
  via,         \* the topic or partition each message was sent on, or <<>>
  unread,      \* its Send frames that the broker may still read
  log,         \* messages published on each topic or partition
  \* history
  turns        \* names each user has sent on since it built the producer

app   == <<client, owned>>
msgs  == <<topic, sender, future, queue, resolving>>
users == <<pc, current, target, pinned, producers, building>>
store == <<via, unread, log>>
vars  == <<app, check_task, msgs, users, name, task, registered, store, turns>>

Used == {id \in Ids : name[id] # <<>>}

-----------------------------------------------------------------------------
(* The client *)

\* Pulsar::new: the check task must be spawned; that run_producer could not be
\* spawned goes unnoticed.
New ==
  /\ client = "new"
  /\ \/ /\ client' = "failed"
        /\ UNCHANGED <<owned, check_task, pc>>
     \/ /\ client' = "held"
        /\ owned' \in {{}} \cup {{u} : u \in Users \ {"run_producer"}}
        /\ check_task' = "running"
        /\ pc' \in {[u \in Users |-> "idle"],
                    [u \in Users |-> IF u = "run_producer" THEN "gone" ELSE "idle"]}
  /\ UNCHANGED <<msgs, current, target, pinned, producers, building, name, task,
                 registered, store, turns>>

\* The senders of the channel to run_producer: the client, and the producers of
\* the application through the clone they hold.  The clone of run_producer has
\* none.
SendersAll == (IF client = "held" THEN {"client"} ELSE {}) \cup owned
                \cup {u \in Users : u = "run_producer" /\ pc[u] # "gone"}
Senders == (IF client = "held" THEN {"client"} ELSE {}) \cup owned

\* Clones of the client keep the ConnectionManager, run_producer's included.
ManagerAlive ==
  \/ Senders # {}
  \/ "run_producer" \in Users /\ pc["run_producer"] \notin {"new", "gone"}

Fresh(m) == topic[m] = NoTopic /\ \A k \in 1..(m - 1) : topic[k] # NoTopic

\* Pulsar::send: the message is queued for run_producer.
PulsarSend(m, t) ==
  /\ client = "held" /\ "run_producer" \in Users
  /\ Fresh(m)
  /\ topic' = [topic EXCEPT ![m] = t]
  /\ sender' = [sender EXCEPT ![m] = "run_producer"]
  /\ \/ /\ m \in Bad
        /\ future' = [future EXCEPT ![m] = "error"]
        /\ UNCHANGED queue
     \/ /\ m \notin Bad /\ pc["run_producer"] # "gone"
        /\ future' = [future EXCEPT ![m] = "pending"]
        /\ queue' = Append(queue, m)
     \/ /\ m \notin Bad /\ pc["run_producer"] = "gone"
        /\ future' = [future EXCEPT ![m] = "refused"]
        /\ UNCHANGED queue
  /\ UNCHANGED <<app, check_task, resolving, users, name, task, registered, store,
                 turns>>

DropClient ==
  /\ client = "held"
  /\ client' = "dropped"
  /\ UNCHANGED <<owned, check_task, msgs, users, name, task, registered, store,
                 turns>>

\* The check task holds a weak reference to the manager.
CheckEnds ==
  /\ check_task = "running"
  /\ ~ManagerAlive
  /\ check_task' = "ended"
  /\ UNCHANGED <<app, msgs, users, name, task, registered, store, turns>>

-----------------------------------------------------------------------------
(* Calls of the users.  A call is over when current is empty. *)

Owns(u, t) == producers[u][t] # <<>>

Over(u) ==
  /\ pc' = [pc EXCEPT ![u] = "idle"]
  /\ target' = [target EXCEPT ![u] = NoTopic]

Begin(u, t, ms) ==
  /\ current' = [current EXCEPT ![u] = ms]
  /\ target' = [target EXCEPT ![u] = t]
  /\ pc' = [pc EXCEPT ![u] = "call"]

\* run_producer takes the next message ...
RunNext ==
  /\ "run_producer" \in Users /\ pc["run_producer"] = "idle"
  /\ queue # <<>>
  /\ queue' = Tail(queue)
  /\ Begin("run_producer", topic[Head(queue)], <<Head(queue)>>)
  /\ UNCHANGED <<app, check_task, topic, sender, future, resolving, pinned, producers,
                 building, name, task, registered, store, turns>>

\* The drop signals of the topic producers are dropped with them.
Drop(ids) ==
  task' = [id \in Ids |-> IF id \in ids /\ task[id] = "armed" THEN "closing"
                                                             ELSE task[id]]
Held(u) == UNION {Range(producers[u][t]) : t \in Topics} \cup Range(building[u])

\* ... and ends when the channel has no sender left, its producers with it.
RunEndsEarly ==
  /\ "run_producer" \in Users /\ pc["run_producer"] = "idle"
  /\ Senders = {}
  /\ pc' = [pc EXCEPT !["run_producer"] = "gone"]
  /\ Drop(Held("run_producer"))
  /\ producers' = [producers EXCEPT !["run_producer"] = [t \in Topics |-> <<>>]]
  /\ UNCHANGED <<app, check_task, msgs, current, target, pinned, building, name,
                 registered, store, turns>>

RunEnds ==
  /\ "run_producer" \in Users /\ pc["run_producer"] = "idle"
  /\ queue = <<>> /\ Senders = {}
  /\ pc' = [pc EXCEPT !["run_producer"] = "gone"]
  /\ Drop(Held("run_producer"))
  /\ producers' = [producers EXCEPT !["run_producer"] = [t \in Topics |-> <<>>]]
  /\ UNCHANGED <<app, check_task, msgs, current, target, pinned, building, name,
                 registered, store, turns>>

\* send and send_all of the application's own producers
OwnSend(u, t, ms) ==
  /\ u \in owned /\ pc[u] = "idle"
  /\ u = "producer" => Owns(u, t)
  /\ Fresh(ms[1])
  /\ topic' = [m \in Messages |-> IF m \in Range(ms) THEN t ELSE topic[m]]
  /\ sender' = [m \in Messages |-> IF m \in Range(ms) THEN u ELSE sender[m]]
  /\ future' = [m \in Messages |-> IF m \in Range(ms) THEN "pending" ELSE future[m]]
  /\ Begin(u, t, ms)
  /\ pinned' = FALSE
  /\ UNCHANGED <<app, check_task, queue, resolving, producers, building, name,
                 task, registered, store, turns>>

\* ProducerBuilder::build of the application, and the lazy one of a
\* MultiTopicProducer
OwnBuild(t) ==
  /\ "producer" \in owned /\ pc["producer"] = "idle"
  /\ \A s \in Topics : ~Owns("producer", s)
  /\ Begin("producer", t, <<>>)
  /\ UNCHANGED <<app, check_task, msgs, pinned, producers, building, name, task,
                 registered, store, turns>>

\* MultiTopicProducer::close_producer removes the names that a lookup returns.
RemoveNames(u, t) ==
  [producers EXCEPT ![u] = [s \in Topics |->
     IF <<s>> \in Range(Names(t)) THEN <<>> ELSE @[s]]]

close_producer(t) ==
  /\ "multi" \in owned /\ pc["multi"] = "idle"
  /\ \/ /\ producers' = RemoveNames("multi", t)
        /\ Drop(Held("multi") \ UNION {Range(producers'["multi"][s]) : s \in Topics})
        /\ pc' = [pc EXCEPT !["multi"] = "closed"]
        /\ target' = [target EXCEPT !["multi"] = t]
     \/ UNCHANGED <<producers, task, pc, target>>   \* the lookup fails
  /\ UNCHANGED <<app, check_task, msgs, current, pinned, building, name,
                 registered, store, turns>>

\* close_producer has returned Ok.
Closed ==
  /\ "multi" \in Users /\ pc["multi"] = "closed"
  /\ Over("multi")
  /\ UNCHANGED <<app, check_task, msgs, current, pinned, producers,
                 building, name, task, registered, store, turns>>

DropOwn(u) ==
  /\ u \in owned /\ pc[u] = "idle"
  /\ owned' = owned \ {u}
  /\ Drop(Held(u))
  /\ producers' = [producers EXCEPT ![u] = [t \in Topics |-> <<>>]]
  /\ UNCHANGED <<client, check_task, msgs, pc, current, target, pinned, building,
                 name, registered, store, turns>>

-----------------------------------------------------------------------------
(* The steps of a call *)

\* The outcome of the message in hand: run_producer hands the receipt to a
\* spawned task, and goes on with the next message whatever happened.
FinishStops(u, what) ==
  /\ pc' = [pc EXCEPT ![u] = IF what = "error" THEN "gone" ELSE "idle"]
  /\ current' = [current EXCEPT ![u] = <<>>]
  /\ future' = [future EXCEPT ![Head(current[u])] = what]
  /\ UNCHANGED <<target, resolving>>

Finish(u, what) ==
  /\ LET m == Head(current[u])
     IN  IF u = "run_producer" /\ what = "ok"
         THEN resolving' = resolving \cup {m} /\ UNCHANGED future
         ELSE future' = [future EXCEPT ![m] = what] /\ UNCHANGED resolving
  /\ current' = [current EXCEPT ![u] = Tail(@)]
  /\ IF Len(current[u]) > 1 THEN pc' = [pc EXCEPT ![u] = "call"] /\ UNCHANGED target
                            ELSE Over(u)

\* A message that cannot be serialised fails by itself: in a MultiTopicProducer
\* before it has a producer, in a Producer after the partition was chosen.
Serialized(u) == u # "producer" /\ current[u] # <<>> => Head(current[u]) \notin Bad

SerializeFails(u) ==
  /\ pc[u] = "call" /\ ~Serialized(u)
  /\ Finish(u, "error")
  /\ UNCHANGED <<app, check_task, topic, sender, queue, pinned, producers,
                 building, name, task, registered, store, turns>>

\* build: the lookup, and the creation of every partition's producer at once.
Lookup(u) ==
  /\ pc[u] = "call" /\ ~Owns(u, target[u]) /\ Serialized(u)
  /\ LET names == Names(target[u])
         ids   == [i \in 1..Len(names) |-> Cardinality(Used) + i]
     IN  /\ Range(ids) \subseteq Ids
         /\ building' = [building EXCEPT ![u] = ids]
         /\ name' = [id \in Ids |-> IF id \in Range(ids)
                                   THEN names[id - Cardinality(Used)] ELSE name[id]]
  /\ pc' = [pc EXCEPT ![u] = "build"]
  /\ UNCHANGED <<app, check_task, msgs, current, target, pinned, producers, task,
                 registered, store, turns>>

\* The broker has read CommandProducer, whether anyone waits for it or not.
BrokerRegisters(id) ==
  /\ id \in Used /\ task[id] = "none" /\ id \notin registered
  /\ registered' = registered \cup {id}
  /\ UNCHANGED <<app, check_task, msgs, users, name, task, store, turns>>

\* from_connection has its answer and spawns the drop task.
Created(u, id) ==
  /\ pc[u] = "build" /\ id \in Range(building[u])
  /\ id \in registered /\ task[id] = "none"
  /\ task' = [task EXCEPT ![id] = "armed"]
  /\ UNCHANGED <<app, check_task, msgs, users, name, registered, store, turns>>

\* The partitions in order, rotated so that the next one is the first.
Unrotated(ids) == ids
RotateRight(ids) == [i \in 1..Len(ids) |-> IF i = 1 THEN ids[Len(ids)] ELSE ids[i - 1]]

Built(u) ==
  /\ pc[u] = "build"
  /\ \A id \in Range(building[u]) : task[id] = "armed"
  /\ producers' = [producers EXCEPT ![u][target[u]] = RotateRight(building[u])]
  /\ building' = [building EXCEPT ![u] = <<>>]
  /\ turns' = [turns EXCEPT ![u][target[u]] = <<>>]
  /\ IF current[u] = <<>> THEN Over(u)
     ELSE pc' = [pc EXCEPT ![u] = "call"] /\ UNCHANGED target
  /\ UNCHANGED <<app, check_task, msgs, current, pinned, name, task,
                 registered, store>>

\* The lookup or one creation fails: try_join_all drops the others.
DropBuilding(u) == Drop(Range(building[u]))

BuildFails(u) ==
  /\ \/ pc[u] = "call" /\ ~Owns(u, target[u]) /\ Serialized(u)
     \/ pc[u] = "build" /\ \E id \in Range(building[u]) : task[id] = "none"
  /\ DropBuilding(u)
  /\ building' = [building EXCEPT ![u] = <<>>]
  /\ IF current[u] # <<>> THEN Finish(u, "error")
     ELSE Over(u) /\ UNCHANGED <<current, future, resolving>>
  /\ UNCHANGED <<app, check_task, topic, sender, queue, pinned, producers, name,
                 registered, store, turns>>

\* send_inner makes one attempt more than the first.
Frames == 2

Publish(m, n) == log' = [log EXCEPT ![n] = Append(@, m)]
Leave(m, left) == unread' = [unread EXCEPT ![m] = left]

\* A frame of an attempt that was given up is read: the message is published, once
\* more if it was before.
ReadsLate(m) ==
  /\ unread[m] > 0
  /\ Publish(m, via[m])
  /\ Leave(m, unread[m] - 1)
  /\ UNCHANGED <<app, check_task, msgs, users, name, task, registered, via, turns>>

\* PartitionedProducer::next
RotateLeft(q) == Append(Tail(q), Head(q))

\* TopicProducer::send transmits the message, and after a timeout or a
\* disconnection once more.  It returns a receipt when the broker has published a
\* frame, and an error whether it has or not; another frame, or both, may be read
\* later.  send_all of a Producer stays on one partition.
Send(u) ==
  /\ pc[u] = "call" /\ current[u] # <<>> /\ Serialized(u) /\ Owns(u, target[u])
  /\ LET t  == target[u]
         q  == IF u = "producer" /\ pinned THEN producers[u][t]
                                           ELSE RotateLeft(producers[u][t])
         n  == name[q[1]]
         m  == Head(current[u])
     IN  /\ producers' = [producers EXCEPT ![u][t] = q]
         /\ turns' = [turns EXCEPT ![u][t] =
                        IF u = "producer" /\ pinned THEN @ ELSE Append(@, n)]
         /\ \/ /\ m \notin Bad
               /\ via' = [via EXCEPT ![m] = n]
               /\ \/ /\ Publish(m, n)
                     /\ \E left \in 0..(Frames - 1) : Leave(m, left)
                     /\ \E what \in {"ok", "error"} : Finish(u, what)
                  \/ /\ \E left \in 0..Frames : Leave(m, left)
                     /\ Finish(u, "error")
                     /\ UNCHANGED log
            \/ /\ m \in Bad
               /\ Finish(u, "error")
               /\ UNCHANGED store
  /\ pinned' = IF u = "producer" THEN Len(current[u]) > 1 ELSE pinned
  /\ UNCHANGED <<app, check_task, topic, sender, queue, building, name, task,
                 registered>>

\* The task run_producer spawned for a receipt
Resolve(m) ==
  /\ m \in resolving
  /\ resolving' = resolving \ {m}
  /\ future' = [future EXCEPT ![m] = "ok"]
  /\ UNCHANGED <<app, check_task, topic, sender, queue, users, name, task, registered,
                 store, turns>>

\* The drop task of a topic producer
CloseTask(id) ==
  /\ task[id] = "closing"
  /\ task' = [task EXCEPT ![id] = "closed"]
  /\ registered' = registered \ {id}
  /\ UNCHANGED <<app, check_task, msgs, users, name, store, turns>>

-----------------------------------------------------------------------------
Init ==
  /\ client = "new"
  /\ owned = {}
  /\ check_task = "none"
  /\ topic = [m \in Messages |-> NoTopic]
  /\ sender = [m \in Messages |-> "none"]
  /\ future = [m \in Messages |-> "none"]
  /\ queue = <<>> /\ resolving = {}
  /\ pc = [u \in Users |-> "new"]
  /\ current = [u \in Users |-> <<>>]
  /\ target = [u \in Users |-> NoTopic]
  /\ pinned = FALSE
  /\ producers = [u \in Users |-> [t \in Topics |-> <<>>]]
  /\ building = [u \in Users |-> <<>>]
  /\ name = [id \in Ids |-> <<>>]
  /\ task = [id \in Ids |-> "none"]
  /\ registered = {}
  /\ via = [m \in Messages |-> <<>>]
  /\ unread = [m \in Messages |-> 0]
  /\ log = [n \in AllNames |-> <<>>]
  /\ turns = [u \in Users |-> [t \in Topics |-> <<>>]]

\* The calls send(m), and send_all([m, m + 1])
Lists == {<<m>> : m \in Messages} \cup {<<m, m + 1>> : m \in 1..(MaxMessages - 1)}

Application ==
  \/ \E t \in Topics : \/ \E m \in Messages : PulsarSend(m, t)
                       \/ \E u \in Users, ms \in Lists : OwnSend(u, t, ms)
                       \/ OwnBuild(t) \/ close_producer(t)
  \/ DropClient \/ \E u \in Users : DropOwn(u)

CallStep(u) ==
  \/ SerializeFails(u) \/ Lookup(u) \/ Built(u) \/ BuildFails(u) \/ Send(u)
  \/ \E id \in Ids : Created(u, id)

Runs == RunNext \/ RunEnds

Next ==
  \/ New \/ Application \/ Runs \/ CheckEnds \/ Closed
  \/ \E u \in Users : CallStep(u)
  \/ \E id \in Ids : BrokerRegisters(id) \/ CloseTask(id)
  \/ \E m \in Messages : Resolve(m) \/ ReadsLate(m)

Spec == Init /\ [][Next]_vars

\* The executor runs run_producer, the spawned tasks and the calls; a creation
\* and a send return, as the module Producer shows of them.  Nothing is assumed
\* of the broker.
Fairness ==
  /\ WF_vars(Runs) /\ WF_vars(CheckEnds) /\ WF_vars(Closed)
  /\ \A u \in Users : WF_vars(CallStep(u))
  /\ \A id \in Ids : WF_vars(CloseTask(id))
  /\ \A m \in Messages : WF_vars(Resolve(m))

FairSpec == Spec /\ Fairness

-----------------------------------------------------------------------------
(* Properties *)

\* Every variable keeps its type; a user has a topic in hand while it calls.
TypeOK ==
  /\ client \in {"new", "held", "dropped", "failed"}
  /\ owned \subseteq Users
  /\ check_task \in {"none", "running", "ended"}
  /\ topic \in [Messages -> Topics \cup {NoTopic}]
  /\ sender \in [Messages -> Users \cup {"none"}]
  /\ future \in [Messages -> {"none", "pending", "ok", "error", "refused"}]
  /\ queue \in Seq(Messages) /\ resolving \subseteq Messages
  /\ pc \in [Users -> {"new", "idle", "call", "build", "closed", "gone"}]
  /\ current \in [Users -> Seq(Messages)]
  /\ target \in [Users -> Topics \cup {NoTopic}]
  /\ \A u \in Users : pc[u] \in {"call", "build"} => target[u] \in Topics
  /\ pinned \in BOOLEAN
  /\ producers \in [Users -> [Topics -> Seq(Ids)]]
  /\ building \in [Users -> Seq(Ids)]
  /\ name \in [Ids -> AllNames \cup {<<>>}]
  /\ task \in [Ids -> {"none", "armed", "closing", "closed"}]
  /\ registered \subseteq Ids
  /\ via \in [Messages -> AllNames \cup {<<>>}]
  /\ unread \in [Messages -> 0..Frames]
  /\ log \in [AllNames -> Seq(Messages)]
  /\ turns \in [Users -> [Topics -> Seq(AllNames)]]

\* The broker's receipt for the message has reached the call that sent it.
Receipt(m) == future[m] = "ok" \/ m \in resolving

\* A message that was accepted is never forgotten: the resolver of its future is
\* in the channel, with the call that sends it, or in the task that resolves it,
\* also after the client was dropped; and a receipt means that it is published
\* where it was sent.  That the queue is emptied is Resolved.
NoMessageForgotten ==
  \A m \in Messages :
    /\ future[m] = "pending" =>
         \/ m \in Range(queue) \/ m \in resolving
         \/ \E u \in Users : m \in Range(current[u])
    /\ Receipt(m) => via[m] \in AllNames /\ m \in Range(log[via[m]])

\* A user sends on the partitions of a topic in turn, the first one first, whether
\* the sends succeed or not.  A message is published only on the partition whose
\* turn it was, a second frame of it included; and before any copy of a message
\* stands a copy of every message that has a receipt and that the same user was
\* given earlier for the same partition: run_producer keeps the order of the calls
\* of Pulsar::send.  Copies may repeat, and what failed may be published late.
RoundRobin ==
  /\ \A u \in Users, t \in Topics : \A i \in 1..Len(turns[u][t]) :
       turns[u][t][i] = Names(t)[((i - 1) % Len(Names(t))) + 1]
  /\ \A n \in AllNames : \A j \in 1..Len(log[n]) :
       /\ via[log[n][j]] = n
       /\ \A m \in Messages :
            (/\ Receipt(m) /\ via[m] = n
             /\ sender[m] = sender[log[n][j]] /\ m < log[n][j])
              => \E i \in 1..(j - 1) : log[n][i] = m

\* Creations whose future was dropped before their answer came
Abandoned ==
  {id \in Used : task[id] = "none" /\ \A u \in Users : id \notin Range(building[u])}

\* A topic producer with a live drop signal belongs to a user that can send on
\* it, and a user has one per topic or partition: none is leaked by a build that
\* fails half-way.
OwnedOnce ==
  /\ \A id \in Ids : task[id] = "armed" => \E u \in Users : id \in Held(u)
  /\ \A u \in Users : \A i, j \in Held(u) : name[i] = name[j] => i = j

\* After close_producer has returned, the producer has none for the topic.
CloseStops ==
  ("multi" \in Users /\ pc["multi"] = "closed") => ~Owns("multi", target["multi"])

\* Every message gets its outcome, and no call of a user stays behind.
\* (A message is sent once, so this says it of each.)
Resolved == []<>(\A m \in Messages : future[m] # "pending")

\* A client that is dropped, and the producers the application made from it,
\* leave nothing behind: run_producer and the check task end, and every producer
\* is closed at the broker, those of a creation that failed for another partition
\* included.  A creation dropped while the broker works on it leaves a producer
\* (Abandoned).
ClientEnds ==
  []<>(client = "dropped" /\ owned = {} =>
         /\ check_task = "ended" /\ queue = <<>>
         /\ registered \subseteq Abandoned)
=============================================================================
