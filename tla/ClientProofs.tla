---------------------------- MODULE ClientProofs ----------------------------
(***************************************************************************)
(* Proofs about Client, for any topics, partitions and messages and any    *)
(* number of topic producers.                                              *)
(***************************************************************************)
EXTENDS Client, SequenceLemmas

USE ZenonT(8), SMTT(60) DEF app, msgs, users, store

-----------------------------------------------------------------------------
(* The inductive invariant *)

\* A user has messages in hand only in a call, and creates topic producers only
\* in a build; nobody does anything before there is a client; run_producer is not
\* the application's.
Control ==
  /\ \A u \in Users : pc[u] \notin {"call", "build"} => current[u] = <<>>
  /\ \A u \in Users : pc[u] # "build" => building[u] = <<>>
  /\ client = "new" => \A u \in Users : pc[u] = "new"
  /\ "run_producer" \notin owned

\* The messages that were accepted are the first ones, and no other is on its way
\* or was sent; the channel has those of run_producer, and a call its own.
Taken ==
  /\ \A m \in Messages : topic[m] # NoTopic => \A k \in 1..(m - 1) : topic[k] # NoTopic
  /\ \A m \in Range(queue) : topic[m] # NoTopic /\ sender[m] = "run_producer"
  /\ \A u \in Users : \A m \in Range(current[u]) : topic[m] # NoTopic /\ sender[m] = u
  /\ \A m \in Messages : via[m] # <<>> => topic[m] # NoTopic

Increasing(q) == \A i, j \in 1..Len(q) : i < j => q[i] < q[j]

\* What was sent comes before what is in hand, and that before what is in the
\* channel.
Sorted ==
  /\ Increasing(queue) /\ \A u \in Users : Increasing(current[u])
  /\ \A u \in Users, k \in Range(queue) :
       u = "run_producer" => \A m \in Range(current[u]) : m < k
  /\ \A m \in Messages : via[m] # <<>> =>
       /\ \A u \in Users : sender[m] = u => \A k \in Range(current[u]) : m < k
       /\ sender[m] = "run_producer" => \A k \in Range(queue) : m < k

\* Frames, read or not, are those of messages that were sent, and are where they
\* were sent: the second part of RoundRobin, ...
Placed ==
  /\ \A m \in Messages : unread[m] > 0 => via[m] # <<>>
  /\ \A n \in AllNames : \A m \in Range(log[n]) : via[m] = n

\* ... and its third part
PublishedInOrder ==
  \A n \in AllNames : \A j \in 1..Len(log[n]) : \A m \in Messages :
    (Receipt(m) /\ via[m] = n /\ sender[m] = sender[log[n][j]] /\ m < log[n][j])
      => \E i \in 1..(j - 1) : log[n][i] = m

\* The place in Names(t) of the partition that stands at place j of the rotation,
\* when the user has sent k times
Place(t, k, j) == ((k + j + Len(Names(t)) - 2) % Len(Names(t))) + 1

\* Creations are numbered from 1 on, and each has its name.
Numbered == Cardinality(Used) \in Nat /\ Used = 1..Cardinality(Used)

\* The topic producers of a topic are those of its partitions in their order, of
\* which the one after the last one used stands second.
Turning ==
  /\ \A u \in Users : pc[u] = "build" =>
       /\ Len(building[u]) = Len(Names(target[u]))
       /\ \A i \in 1..Len(building[u]) : name[building[u][i]] = Names(target[u])[i]
  /\ \A u \in Users, t \in Topics : Owns(u, t) =>
       /\ Len(producers[u][t]) = Len(Names(t))
       /\ \A j \in 1..Len(Names(t)) :
            name[producers[u][t][j]] = Names(t)[Place(t, Len(turns[u][t]), j)]

\* The first part of RoundRobin
InTurn ==
  \A u \in Users, t \in Topics : \A i \in 1..Len(turns[u][t]) :
    turns[u][t][i] = Names(t)[((i - 1) % Len(Names(t))) + 1]

\* The inductive invariant
ClientInv ==
  /\ TypeOK /\ Control /\ Taken /\ Sorted /\ Placed /\ PublishedInOrder
  /\ Numbered /\ Turning /\ InTurn
  /\ NoMessageForgotten

-----------------------------------------------------------------------------
(* Facts *)

\* A topic has at least one name, and every name is the name of something.
LEMMA NamesFacts ==
  ASSUME NEW t \in Topics
  PROVE  /\ Names(t) \in Seq(AllNames) /\ Len(Names(t)) \in Nat \ {0}
         /\ \A i \in 1..Len(Names(t)) : Names(t)[i] \in AllNames
         /\ <<>> \notin AllNames
  <1>1. ASSUME NEW s \in Topics
        PROVE  /\ Names(s) \in Seq(Range(Names(s))) /\ Len(Names(s)) \in Nat \ {0}
               /\ <<>> \notin Range(Names(s))
    <2>1. CASE PartitionsOf[s] = 0
      <3>1. Names(s) = <<<<s>>>>
        BY <2>1 DEF Names
      <3>2. Range(Names(s)) = {<<s>>}
        BY <3>1, RangeOne
      <3> QED
        BY <3>1, <3>2
    <2>2. CASE PartitionsOf[s] # 0
      <3>1. PartitionsOf[s] \in Nat \ {0}
        BY <2>2, ClientAssumption
      <3>2. Names(s) = [n \in 1..PartitionsOf[s] |-> <<s, n - 1>>]
        BY <2>2 DEF Names
      <3>3. Range(Names(s)) = {<<s, n - 1>> : n \in 1..PartitionsOf[s]}
        BY <3>2 DEF Range
      <3> QED
        BY <3>1, <3>2, <3>3
    <2> QED
      BY <2>1, <2>2
  <1>2. Range(Names(t)) \subseteq AllNames /\ <<>> \notin AllNames
    BY <1>1 DEF AllNames
  <1>3. Names(t) \in Seq(AllNames)
    BY <1>1, <1>2, SeqMono
  <1> QED
    BY <1>1, <1>2, <1>3

\* A name is never empty.
LEMMA NameNotEmpty ==
  ASSUME NEW n \in AllNames
  PROVE  n # <<>>
  <1>1. PICK t \in Topics : n \in Range(Names(t))
    BY DEF AllNames
  <1> QED
    BY <1>1, NamesFacts

\* send takes a message, send_all two that follow each other.
LEMMA ListsFacts ==
  ASSUME NEW ms \in Lists
  PROVE  /\ ms \in Seq(Messages) /\ ms # <<>> /\ Increasing(ms)
         /\ \A k \in Range(ms) : k = ms[1] \/ k = ms[1] + 1
         /\ ms[1] \in Range(ms) /\ Range(ms) \subseteq Messages
  <1>1. CASE \E m \in Messages : ms = <<m>>
    <2>1. PICK m \in Messages : ms = <<m>>
      BY <1>1
    <2>2. Range(ms) = {m}
      BY <2>1, RangeOne
    <2> QED
      BY <2>1, <2>2 DEF Increasing
  <1>2. CASE \E m \in 1..(MaxMessages - 1) : ms = <<m, m + 1>>
    <2>1. PICK m \in 1..(MaxMessages - 1) : ms = <<m, m + 1>>
      BY <1>2
    <2>2. m \in Messages /\ m + 1 \in Messages /\ m < m + 1
      BY ClientAssumption DEF Messages
    <2>3. ms \in Seq(Messages) /\ Len(ms) = 2 /\ ms[1] = m /\ ms[2] = m + 1
      BY <2>1, <2>2
    <2>4. Range(ms) = {m, m + 1}
      <3>1. Range(ms) = {ms[i] : i \in 1..2}
        BY <2>3, RangeType
      <3> QED
        BY <2>3, <3>1
    <2> QED
      BY <2>2, <2>3, <2>4 DEF Increasing
  <1> QED
    BY <1>1, <1>2 DEF Lists

\* What Finish does, whatever the outcome: the message in hand is put away.
LEMMA FinishEffect ==
  ASSUME TypeOK, NEW u \in Users, NEW what \in {"ok", "error"},
         current[u] # <<>>, Finish(u, what)
  PROVE  /\ Head(current[u]) \in Messages /\ Tail(current[u]) \in Seq(Messages)
         /\ current' = [current EXCEPT ![u] = Tail(current[u])]
         /\ \/ /\ Tail(current[u]) # <<>> /\ pc' = [pc EXCEPT ![u] = "call"]
               /\ target' = target
            \/ /\ Tail(current[u]) = <<>> /\ pc' = [pc EXCEPT ![u] = "idle"]
               /\ target' = [target EXCEPT ![u] = NoTopic]
         /\ \/ /\ u = "run_producer" /\ what = "ok" /\ future' = future
               /\ resolving' = resolving \cup {Head(current[u])}
            \/ /\ ~(u = "run_producer" /\ what = "ok") /\ resolving' = resolving
               /\ future' = [future EXCEPT ![Head(current[u])] = what]
  <1>1. current[u] \in Seq(Messages)
    BY DEF TypeOK
  <1>2. Head(current[u]) \in Messages /\ Tail(current[u]) \in Seq(Messages)
    BY <1>1, PopType
  <1>3. Len(current[u]) > 1 <=> Tail(current[u]) # <<>>
    BY <1>1, PopMore, ZenonT(60)
  <1> QED
    BY <1>2, <1>3, ZenonT(20) DEF Finish, Over

\* A value in a function of functions is replaced by another of its type.
LEMMA NestedType ==
  ASSUME NEW A, NEW B, NEW S, NEW f \in [A -> [B -> S]], NEW a \in A, NEW b \in B, NEW e \in S
  PROVE  [f EXCEPT ![a][b] = e] \in [A -> [B -> S]]
  OBVIOUS

\* The names of the topic producers of a user are names of the topics.
LEMMA NamedProducers ==
  ASSUME TypeOK, Turning, NEW u \in Users
  PROVE  /\ \A t \in Topics : \A j \in 1..Len(producers[u][t]) :
              name[producers[u][t][j]] \in AllNames
         /\ pc[u] = "build" => \A i \in 1..Len(building[u]) :
                                 name[building[u][i]] \in AllNames
  <1>1. ASSUME NEW t \in Topics, NEW j \in 1..Len(producers[u][t])
        PROVE  name[producers[u][t][j]] \in AllNames
    <2>1. producers[u][t] \in Seq(Ids) /\ Len(producers[u][t]) \in Nat
      BY DEF TypeOK
    <2>2. Owns(u, t)
      BY <2>1 DEF Owns
    <2>3. /\ Len(producers[u][t]) = Len(Names(t))
          /\ name[producers[u][t][j]] = Names(t)[Place(t, Len(turns[u][t]), j)]
      BY <2>2 DEF Turning
    <2>4. Place(t, Len(turns[u][t]), j) \in 1..Len(Names(t))
      <3>1. Len(turns[u][t]) \in Nat /\ Len(Names(t)) \in Nat \ {0}
        BY NamesFacts DEF TypeOK
      <3> DEFINE x == Len(turns[u][t]) + j + Len(Names(t)) - 2
                 n == Len(Names(t))
      <3>2. x \in Nat /\ n \in Nat \ {0}
        BY <2>1, <2>3, <3>1
      <3> HIDE DEF x, n
      <3>3. x % n \in 0..(n - 1)
        BY <3>2
      <3>4. (x % n) + 1 \in 1..n
        BY <3>2, <3>3
      <3> QED
        BY <3>4 DEF Place, x, n
    <2> QED
      BY <2>3, <2>4, NamesFacts
  <1>2. ASSUME pc[u] = "build", NEW i \in 1..Len(building[u])
        PROVE  name[building[u][i]] \in AllNames
    <2>1. target[u] \in Topics
      BY <1>2 DEF TypeOK
    <2>2. /\ Len(building[u]) = Len(Names(target[u]))
          /\ name[building[u][i]] = Names(target[u])[i]
      BY <1>2 DEF Turning
    <2> QED
      BY <2>1, <2>2, NamesFacts
  <1> QED
    BY <1>1, <1>2

\* The message is sent on n: it is published, or is not when the call fails.
Transmits(m, n, what) ==
  /\ via' = [via EXCEPT ![m] = n]
  /\ \E left \in 0..Frames : unread' = [unread EXCEPT ![m] = left]
  /\ \/ log' = [log EXCEPT ![n] = Append(log[n], m)]
     \/ what = "error" /\ log' = log

\* What Send does: the next topic producer of the topic transmits the message in
\* hand, or fails before.
Sends(u, n, what) ==
  /\ n \in AllNames
  /\ pc[u] = "call" /\ current[u] # <<>> /\ Owns(u, target[u]) /\ target[u] \in Topics
  /\ \/ /\ u = "producer" /\ pinned
        /\ producers' = producers /\ turns' = turns
     \/ /\ ~(u = "producer" /\ pinned)
        /\ producers' = [producers EXCEPT ![u][target[u]] = RotateLeft(producers[u][target[u]])]
        /\ n = name[RotateLeft(producers[u][target[u]])[1]]
        /\ turns' = [turns EXCEPT ![u][target[u]] = Append(turns[u][target[u]], n)]
  /\ \/ Transmits(Head(current[u]), n, what)
     \/ what = "error" /\ UNCHANGED store
  /\ Finish(u, what)
  /\ pinned' \in BOOLEAN
  /\ UNCHANGED <<app, check_task, topic, sender, queue, building, name, task,
                 registered>>

\* Moving the first value of a sequence to its end
LEMMA RotateLeftFacts ==
  ASSUME NEW S, NEW q \in Seq(S), q # <<>>
  PROVE  /\ RotateLeft(q) \in Seq(S) /\ Len(RotateLeft(q)) = Len(q)
         /\ RotateLeft(q) # <<>> /\ Len(q) \in Nat \ {0}
         /\ \A j \in 1..(Len(q) - 1) : RotateLeft(q)[j] = q[j + 1]
         /\ RotateLeft(q)[Len(q)] = q[1]
  BY DEF RotateLeft

\* Every Send is of that form.
LEMMA SendCases ==
  ASSUME TypeOK, Turning, NEW u \in Users, Send(u)
  PROVE  \E n \in AllNames, what \in {"ok", "error"} : Sends(u, n, what)
  <1> DEFINE t == target[u]
             p == producers[u][t]
             stays == u = "producer" /\ pinned
             q == IF stays THEN p ELSE RotateLeft(p)
  <1>1. pc[u] = "call" /\ current[u] # <<>> /\ Owns(u, t)
    BY DEF Send
  <1>2. t \in Topics /\ p \in Seq(Ids) /\ p # <<>>
    BY <1>1 DEF TypeOK, Owns
  <1>3. name[q[1]] \in AllNames
    <2>1. \A j \in 1..Len(p) : name[p[j]] \in AllNames
      BY <1>2, NamedProducers
    <2>2. \E j \in 1..Len(p) : q[1] = p[j]
      BY <1>2, RotateLeftFacts
    <2> QED
      BY <2>1, <2>2
  <1>4. /\ producers' = [producers EXCEPT ![u][t] = q]
        /\ turns' = [turns EXCEPT ![u][t] = IF stays THEN @ ELSE Append(@, name[q[1]])]
        /\ pinned' = IF u = "producer" THEN Len(current[u]) > 1 ELSE pinned
        /\ UNCHANGED <<app, check_task, topic, sender, queue, building, name, task,
                       registered>>
    BY DEF Send
  <1>5. \E what \in {"ok", "error"} :
          /\ Finish(u, what)
          /\ \/ Transmits(Head(current[u]), name[q[1]], what)
             \/ what = "error" /\ UNCHANGED store
    <2> DEFINE m == Head(current[u])
    <2>1. \/ /\ via' = [via EXCEPT ![m] = name[q[1]]]
             /\ \/ /\ Publish(m, name[q[1]])
                   /\ \E left \in 0..(Frames - 1) : Leave(m, left)
                   /\ \E what \in {"ok", "error"} : Finish(u, what)
                \/ /\ \E left \in 0..Frames : Leave(m, left)
                   /\ Finish(u, "error")
                   /\ UNCHANGED log
          \/ Finish(u, "error") /\ UNCHANGED store
      BY DEF Send
    <2>2. 0..(Frames - 1) \subseteq 0..Frames
      BY DEF Frames
    <2> HIDE DEF m, q
    <2> QED
      BY <2>1, <2>2, ZenonT(20) DEF Transmits, Publish, Leave, m
  <1>6. pinned' \in BOOLEAN
    <2>1. pinned \in BOOLEAN /\ (Len(current[u]) > 1) \in BOOLEAN
      BY DEF TypeOK
    <2> QED
      BY <1>4, <2>1, Zenon
  <1>7. stays => producers' = producers /\ turns' = turns
    BY <1>2, <1>4 DEF TypeOK
  <1>8. ~stays => /\ q = RotateLeft(p) /\ producers' = [producers EXCEPT ![u][t] = RotateLeft(p)]
                  /\ turns' = [turns EXCEPT ![u][t] = Append(turns[u][t], name[q[1]])]
    BY <1>4
  <1>9. PICK what \in {"ok", "error"} :
          /\ Finish(u, what)
          /\ \/ Transmits(Head(current[u]), name[q[1]], what)
             \/ what = "error" /\ UNCHANGED store
    BY <1>5, Zenon
  <1>10. Sends(u, name[q[1]], what)
    <2>1. CASE stays
      BY <1>1, <1>2, <1>3, <1>4, <1>6, <1>7, <1>9, <2>1, ZenonT(20) DEF Sends
    <2>2. CASE ~stays
      BY <1>1, <1>2, <1>3, <1>4, <1>6, <1>8, <1>9, <2>2, ZenonT(20) DEF Sends
    <2> QED
      BY <2>1, <2>2
  <1> QED
    BY <1>3, <1>10

-----------------------------------------------------------------------------
(* Types and control *)

\* The drop signals of topic producers are armed, and then used.
LEMMA DropType ==
  ASSUME TypeOK, NEW D, Drop(D)
  PROVE  task' \in [Ids -> {"none", "armed", "closing", "closed"}]
  BY DEF Drop, TypeOK

\* Finish keeps the types of what it changes.
LEMMA FinishType ==
  ASSUME TypeOK, NEW u \in Users, NEW what \in {"ok", "error"}, pc[u] \in {"call", "build"},
         current[u] # <<>>, Finish(u, what)
  PROVE  /\ future' \in [Messages -> {"none", "pending", "ok", "error", "refused"}]
         /\ resolving' \subseteq Messages
         /\ pc' \in [Users -> {"new", "idle", "call", "build", "closed", "gone"}]
         /\ current' \in [Users -> Seq(Messages)]
         /\ target' \in [Users -> Topics \cup {NoTopic}]
         /\ \A v \in Users : pc'[v] \in {"call", "build"} => target'[v] \in Topics
  <1>1. /\ Head(current[u]) \in Messages /\ Tail(current[u]) \in Seq(Messages)
        /\ current' = [current EXCEPT ![u] = Tail(current[u])]
    BY FinishEffect
  <1>2. \/ pc' = [pc EXCEPT ![u] = "call"] /\ target' = target
        \/ pc' = [pc EXCEPT ![u] = "idle"] /\ target' = [target EXCEPT ![u] = NoTopic]
    BY FinishEffect
  <1>3. \/ future' = future /\ resolving' = resolving \cup {Head(current[u])}
        \/ resolving' = resolving /\ future' = [future EXCEPT ![Head(current[u])] = what]
    BY FinishEffect
  <1>4. /\ pc' \in [Users -> {"new", "idle", "call", "build", "closed", "gone"}]
        /\ target' \in [Users -> Topics \cup {NoTopic}]
        /\ \A v \in Users : pc'[v] \in {"call", "build"} => target'[v] \in Topics
    BY <1>2 DEF TypeOK
  <1>5. current' \in [Users -> Seq(Messages)]
    BY <1>1 DEF TypeOK
  <1>6. /\ future' \in [Messages -> {"none", "pending", "ok", "error", "refused"}]
        /\ resolving' \subseteq Messages
    <2>1. CASE future' = future /\ resolving' = resolving \cup {Head(current[u])}
      BY <1>1, <2>1 DEF TypeOK
    <2>2. CASE resolving' = resolving /\ future' = [future EXCEPT ![Head(current[u])] = what]
      BY <1>1, <2>2 DEF TypeOK
    <2> QED
      BY <1>3, <2>1, <2>2
  <1> QED
    BY <1>4, <1>5, <1>6

\* Every step keeps the types.
LEMMA TypeStep ==
  ASSUME TypeOK, Control, Taken, Placed, Numbered, Turning, [Next]_vars
  PROVE  TypeOK'
  <1>1. CASE New
    <2>1. owned' \subseteq Users
      BY <1>1 DEF New, TypeOK
    <2>2. /\ client' \in {"new", "held", "dropped", "failed"}
          /\ check_task' \in {"none", "running", "ended"}
      BY <1>1 DEF New, TypeOK
    <2>3. \/ pc' = pc \/ pc' = [u \in Users |-> "idle"]
          \/ pc' = [u \in Users |-> IF u = "run_producer" THEN "gone" ELSE "idle"]
      BY <1>1 DEF New
    <2>4. /\ pc' \in [Users -> {"new", "idle", "call", "build", "closed", "gone"}]
          /\ \A u \in Users : pc'[u] \in {"call", "build"} => target[u] \in Topics
      BY <2>3 DEF TypeOK
    <2>5. UNCHANGED <<msgs, current, target, pinned, producers, building, name, task,
                      registered, store, turns>>
      BY <1>1 DEF New
    <2> QED
      BY <2>1, <2>2, <2>4, <2>5 DEF TypeOK
  <1>2. ASSUME NEW t \in Topics, NEW m \in Messages, PulsarSend(m, t)
        PROVE  TypeOK'
    <2>1. queue' \in Seq(Messages)
      <3>1. queue' = queue \/ queue' = Append(queue, m)
        BY <1>2 DEF PulsarSend
      <3>2. queue \in Seq(Messages)
        BY DEF TypeOK
      <3> QED
        BY <3>1, <3>2, AppendType
    <2>2. "run_producer" \in Users
      BY <1>2 DEF PulsarSend
    <2> QED
      BY <1>2, <2>1, <2>2 DEF PulsarSend, TypeOK
  <1>3. ASSUME NEW t \in Topics, NEW u \in Users, NEW ms \in Lists, OwnSend(u, t, ms)
        PROVE  TypeOK'
    BY <1>3, ListsFacts DEF OwnSend, Begin, TypeOK
  <1>4. ASSUME NEW t \in Topics, OwnBuild(t) PROVE TypeOK'
    <2>1. "producer" \in Users /\ <<>> \in Seq(Messages)
      BY <1>4 DEF OwnBuild, TypeOK
    <2> QED
      BY <1>4, <2>1 DEF OwnBuild, Begin, TypeOK
  <1>5. ASSUME NEW t \in Topics, close_producer(t) PROVE TypeOK'
    <2>1. "multi" \in Users
      BY <1>5 DEF close_producer, TypeOK
    <2>2. producers' \in [Users -> [Topics -> Seq(Ids)]]
      <3>1. RemoveNames("multi", t) \in [Users -> [Topics -> Seq(Ids)]]
        BY <2>1, EmptyType DEF RemoveNames, TypeOK
      <3> QED
        BY <1>5, <3>1 DEF close_producer, TypeOK
    <2>3. task' \in [Ids -> {"none", "armed", "closing", "closed"}]
      <3>1. task' = task \/ \E D : Drop(D)
        BY <1>5, Zenon DEF close_producer
      <3> QED
        BY <3>1, DropType DEF TypeOK
    <2>4. \/ pc' = [pc EXCEPT !["multi"] = "closed"] /\ target' = [target EXCEPT !["multi"] = t]
          \/ pc' = pc /\ target' = target
      BY <1>5, Zenon DEF close_producer
    <2>5. UNCHANGED <<app, check_task, msgs, current, pinned, building, name,
                      registered, store, turns>>
      BY <1>5 DEF close_producer
    <2> QED
      <3>1. CASE pc' = [pc EXCEPT !["multi"] = "closed"] /\ target' = [target EXCEPT !["multi"] = t]
        BY <2>1, <2>2, <2>3, <2>5, <3>1 DEF TypeOK
      <3>2. CASE pc' = pc /\ target' = target
        BY <2>2, <2>3, <2>5, <3>2 DEF TypeOK
      <3> QED
        BY <2>4, <3>1, <3>2
  <1>6. CASE DropClient \/ CheckEnds
    BY <1>6 DEF DropClient, CheckEnds, TypeOK
  <1>7. ASSUME NEW u \in Users, DropOwn(u) PROVE TypeOK'
    <2>1. producers' \in [Users -> [Topics -> Seq(Ids)]]
      BY <1>7, EmptyType DEF DropOwn, TypeOK
    <2>2. task' \in [Ids -> {"none", "armed", "closing", "closed"}]
      BY <1>7 DEF DropOwn, Drop, TypeOK
    <2> QED
      BY <1>7, <2>1, <2>2 DEF DropOwn, TypeOK
  <1>8. CASE RunNext
    <2>1. "run_producer" \in Users /\ queue \in Seq(Messages) /\ queue # <<>>
      BY <1>8 DEF RunNext, TypeOK
    <2>2. /\ Head(queue) \in Messages /\ Tail(queue) \in Seq(Messages)
          /\ Head(queue) \in Range(queue) /\ <<Head(queue)>> \in Seq(Messages)
      BY <2>1, RangeTail, SeqTypes
    <2>3. topic[Head(queue)] \in Topics
      BY <2>2 DEF Taken, TypeOK
    <2> QED
      BY <1>8, <2>1, <2>2, <2>3 DEF RunNext, Begin, TypeOK
  <1>9. CASE RunEnds
    <2>1. producers' \in [Users -> [Topics -> Seq(Ids)]]
      BY <1>9, EmptyType DEF RunEnds, TypeOK
    <2>2. task' \in [Ids -> {"none", "armed", "closing", "closed"}]
      BY <1>9 DEF RunEnds, Drop, TypeOK
    <2> QED
      BY <1>9, <2>1, <2>2 DEF RunEnds, TypeOK
  <1>10. CASE Closed
    BY <1>10 DEF Closed, Over, TypeOK
  <1>11. ASSUME NEW u \in Users, SerializeFails(u) PROVE TypeOK'
    <2>1. current[u] # <<>> /\ Finish(u, "error") /\ pc[u] = "call"
      BY <1>11 DEF SerializeFails, Serialized
    <2> QED
      BY <1>11, <2>1, FinishType DEF SerializeFails, TypeOK
  <1>12. ASSUME NEW u \in Users, Lookup(u) PROVE TypeOK'
    <2> DEFINE names == Names(target[u])
               ids   == [i \in 1..Len(names) |-> Cardinality(Used) + i]
    <2>1. target[u] \in Topics /\ Len(names) \in Nat
      BY <1>12, NamesFacts DEF Lookup, TypeOK
    <2>2. /\ Range(ids) \subseteq Ids /\ building' = [building EXCEPT ![u] = ids]
          /\ name' = [id \in Ids |-> IF id \in Range(ids)
                                    THEN names[id - Cardinality(Used)] ELSE name[id]]
          /\ pc' = [pc EXCEPT ![u] = "build"]
          /\ UNCHANGED <<app, check_task, msgs, current, target, pinned, producers, task,
                         registered, store, turns>>
      BY <1>12 DEF Lookup
    <2>3. DOMAIN ids = 1..Len(names) /\ \A i \in 1..Len(names) : ids[i] \in Ids
      BY <2>2 DEF Range
    <2>4. ids \in Seq(Ids)
      <3>1. ids \in [1..Len(names) -> Ids]
        BY <2>3
      <3> HIDE DEF ids, names
      <3> QED
        BY <2>1, <3>1
    <2>5. ASSUME NEW id \in Range(ids) PROVE names[id - Cardinality(Used)] \in AllNames
      <3>1. PICK i \in 1..Len(names) : id = Cardinality(Used) + i
        BY DEF Range
      <3>2. id \in Nat /\ Cardinality(Used) \in Int
        BY <3>1 DEF Numbered
      <3> QED
        BY <2>1, <3>1, <3>2, NamesFacts
    <2>6. name' \in [Ids -> AllNames \cup {<<>>}]
      BY <2>2, <2>5 DEF TypeOK
    <2> HIDE DEF ids, names
    <2> QED
      BY <2>1, <2>2, <2>4, <2>6 DEF TypeOK
  <1>13. ASSUME NEW u \in Users, Built(u) PROVE TypeOK'
    <2>1. target[u] \in Topics
      BY <1>13 DEF Built, TypeOK
    <2>2. RotateRight(building[u]) \in Seq(Ids)
      BY DEF RotateRight, TypeOK
    <2>3. /\ producers' = [producers EXCEPT ![u][target[u]] = RotateRight(building[u])]
          /\ building' = [building EXCEPT ![u] = <<>>]
          /\ turns' = [turns EXCEPT ![u][target[u]] = <<>>]
          /\ UNCHANGED <<app, check_task, msgs, current, pinned, name, task,
                         registered, store>>
      BY <1>13 DEF Built
    <2>4. \/ pc' = [pc EXCEPT ![u] = "idle"] /\ target' = [target EXCEPT ![u] = NoTopic]
          \/ pc' = [pc EXCEPT ![u] = "call"] /\ target' = target
      BY <1>13 DEF Built, Over
    <2> QED
      <3>1. producers' \in [Users -> [Topics -> Seq(Ids)]]
        BY <2>1, <2>2, <2>3, NestedType DEF TypeOK
      <3>2. turns' \in [Users -> [Topics -> Seq(AllNames)]]
        BY <2>1, <2>3, EmptyType, NestedType DEF TypeOK
      <3>3. building' \in [Users -> Seq(Ids)]
        BY <2>3, EmptyType DEF TypeOK
      <3>4. /\ pc' \in [Users -> {"new", "idle", "call", "build", "closed", "gone"}]
            /\ target' \in [Users -> Topics \cup {NoTopic}]
            /\ \A v \in Users : pc'[v] \in {"call", "build"} => target'[v] \in Topics
        BY <2>1, <2>4 DEF TypeOK
      <3> QED
        BY <2>3, <3>1, <3>2, <3>3, <3>4 DEF TypeOK
  <1>14. ASSUME NEW u \in Users, BuildFails(u) PROVE TypeOK'
    <2>1. task' \in [Ids -> {"none", "armed", "closing", "closed"}]
      BY <1>14, DropType DEF BuildFails, DropBuilding
    <2>2. building' \in [Users -> Seq(Ids)]
      BY <1>14, EmptyType DEF BuildFails, TypeOK
    <2>3. pc[u] \in {"call", "build"}
      BY <1>14 DEF BuildFails
    <2>4. CASE current[u] # <<>>
      <3>1. Finish(u, "error")
        BY <1>14, <2>4 DEF BuildFails
      <3> QED
        BY <1>14, <2>1, <2>2, <2>3, <2>4, <3>1, FinishType DEF BuildFails, TypeOK
    <2>5. CASE current[u] = <<>>
      <3>1. /\ pc' = [pc EXCEPT ![u] = "idle"] /\ target' = [target EXCEPT ![u] = NoTopic]
            /\ UNCHANGED <<current, future, resolving>>
        BY <1>14, <2>5 DEF BuildFails, Over
      <3> QED
        BY <1>14, <2>1, <2>2, <3>1 DEF BuildFails, TypeOK
    <2> QED
      BY <2>4, <2>5
  <1>15. ASSUME NEW u \in Users, Send(u) PROVE TypeOK'
    <2>1. PICK n \in AllNames, what \in {"ok", "error"} : Sends(u, n, what)
      BY <1>15, SendCases
    <2>2. /\ current[u] # <<>> /\ Finish(u, what) /\ target[u] \in Topics /\ pc[u] = "call"
          /\ producers[u][target[u]] # <<>>
      BY <2>1 DEF Sends, Owns
    <2>3. /\ log' \in [AllNames -> Seq(Messages)]
          /\ via' \in [Messages -> AllNames \cup {<<>>}] /\ unread' \in [Messages -> 0..Frames]
      <3>1. Head(current[u]) \in Messages /\ Append(log[n], Head(current[u])) \in Seq(Messages)
        BY <2>2, PopType, AppendType DEF TypeOK
      <3>2. Transmits(Head(current[u]), n, what) \/ UNCHANGED store
        BY <2>1 DEF Sends
      <3> QED
        BY <3>1, <3>2 DEF Transmits, TypeOK
    <2>4. producers' \in [Users -> [Topics -> Seq(Ids)]]
      <3> DEFINE p == RotateLeft(producers[u][target[u]])
      <3>1. p \in Seq(Ids)
        BY <2>2, RotateLeftFacts DEF TypeOK
      <3>2. producers' = producers \/ producers' = [producers EXCEPT ![u][target[u]] = p]
        BY <2>1 DEF Sends
      <3>3. producers \in [Users -> [Topics -> Seq(Ids)]]
        BY DEF TypeOK
      <3>4. target[u] \in Topics
        BY <2>2
      <3> HIDE DEF p
      <3>5. [producers EXCEPT ![u][target[u]] = p] \in [Users -> [Topics -> Seq(Ids)]]
        BY <3>1, <3>3, <3>4, NestedType
      <3> QED
        BY <3>2, <3>3, <3>5
    <2>5. turns' \in [Users -> [Topics -> Seq(AllNames)]]
      <3> DEFINE q == Append(turns[u][target[u]], n)
      <3>1. q \in Seq(AllNames)
        BY <2>2, AppendType DEF TypeOK
      <3>2. turns' = turns \/ turns' = [turns EXCEPT ![u][target[u]] = q]
        BY <2>1 DEF Sends
      <3>3. turns \in [Users -> [Topics -> Seq(AllNames)]]
        BY DEF TypeOK
      <3>4. target[u] \in Topics
        BY <2>2
      <3> HIDE DEF q
      <3>5. [turns EXCEPT ![u][target[u]] = q] \in [Users -> [Topics -> Seq(AllNames)]]
        BY <3>1, <3>3, <3>4, NestedType
      <3> QED
        BY <3>2, <3>3, <3>5
    <2>6. /\ pinned' \in BOOLEAN
          /\ UNCHANGED <<app, check_task, topic, sender, queue, building, name, task,
                         registered>>
      BY <2>1 DEF Sends
    <2> QED
      BY <2>2, <2>3, <2>4, <2>5, <2>6, FinishType DEF TypeOK
  <1>16. ASSUME NEW u \in Users, NEW id \in Ids, Created(u, id) PROVE TypeOK'
    BY <1>16 DEF Created, TypeOK
  <1>17. ASSUME NEW id \in Ids, BrokerRegisters(id) \/ CloseTask(id) PROVE TypeOK'
    <2>1. registered' = registered \cup {id} \/ registered' = registered \ {id}
      BY <1>17 DEF BrokerRegisters, CloseTask
    <2>2. task' = task \/ task' = [task EXCEPT ![id] = "closed"]
      BY <1>17 DEF BrokerRegisters, CloseTask
    <2>3. UNCHANGED <<app, check_task, msgs, users, name, store, turns>>
      BY <1>17 DEF BrokerRegisters, CloseTask
    <2> QED
      BY <2>1, <2>2, <2>3 DEF TypeOK
  <1>18. ASSUME NEW m \in Messages, Resolve(m) PROVE TypeOK'
    BY <1>18 DEF Resolve, TypeOK
  <1>20. ASSUME NEW m \in Messages, ReadsLate(m), via[m] # <<>> PROVE TypeOK'
    <2>1. /\ via[m] \in AllNames /\ log' = [log EXCEPT ![via[m]] = Append(log[via[m]], m)]
          /\ unread' = [unread EXCEPT ![m] = unread[m] - 1] /\ unread[m] > 0
          /\ unread[m] \in 0..Frames
      BY <1>20 DEF ReadsLate, Publish, Leave, TypeOK
    <2>2. log' \in [AllNames -> Seq(Messages)]
      BY <2>1, AppendType DEF TypeOK
    <2>3. unread' \in [Messages -> 0..Frames]
      BY <2>1 DEF Frames, TypeOK
    <2> QED
      BY <1>20, <2>2, <2>3 DEF ReadsLate, TypeOK
  <1>21. \A m \in Messages : ReadsLate(m) => via[m] # <<>>
    BY DEF ReadsLate, Placed
  <1>19. CASE UNCHANGED vars
    BY <1>19 DEF vars, TypeOK
  <1> QED
    BY <1>1, <1>2, <1>3, <1>4, <1>5, <1>6, <1>7, <1>8, <1>9, <1>10, <1>11, <1>12, <1>13,
       <1>14, <1>15, <1>16, <1>17, <1>18, <1>19, <1>20, <1>21, ZenonT(20)
    DEF Next, Application, Runs, CallStep

\* What ends the sending of the message in hand: it was sent, or it failed before.
Puts(u, what) ==
  /\ pc[u] \in {"call", "build"} /\ current[u] # <<>> /\ Finish(u, what)
  /\ \/ \E n \in AllNames : Transmits(Head(current[u]), n, what)
     \/ what = "error" /\ UNCHANGED store
  /\ UNCHANGED <<topic, sender, queue>>

\* The steps by what they do to messages
LEMMA MsgCases ==
  ASSUME TypeOK, Control, Turning, [Next]_vars
  PROVE  \/ UNCHANGED <<topic, sender, future, queue, resolving, current, store>>
         \/ \E m \in Messages, t \in Topics : PulsarSend(m, t)
         \/ \E u \in Users, t \in Topics, ms \in Lists : OwnSend(u, t, ms)
         \/ RunNext
         \/ \E u \in Users, what \in {"ok", "error"} : Puts(u, what)
         \/ \E m \in Messages : Resolve(m) \/ ReadsLate(m)
  <1> DEFINE Same == UNCHANGED <<topic, sender, future, queue, resolving, current, store>>
             Put  == \E u \in Users, what \in {"ok", "error"} : Puts(u, what)
  <1>1. CASE New \/ DropClient \/ RunEnds \/ CheckEnds \/ Closed \/ UNCHANGED vars
    BY <1>1 DEF New, DropClient, RunEnds, CheckEnds, Closed, vars
  <1>2. ASSUME NEW t \in Topics, OwnBuild(t) PROVE Same
    <2>1. "producer" \in Users /\ pc["producer"] = "idle"
      BY <1>2 DEF OwnBuild, TypeOK
    <2>2. current["producer"] = <<>>
      BY <2>1 DEF Control
    <2>3. current' = [current EXCEPT !["producer"] = <<>>]
      BY <1>2 DEF OwnBuild, Begin
    <2>4. current' = current
      BY <2>1, <2>2, <2>3 DEF TypeOK
    <2> QED
      BY <1>2, <2>4 DEF OwnBuild
  <1>3. ASSUME NEW t \in Topics, close_producer(t) PROVE Same
    BY <1>3 DEF close_producer
  <1>4. ASSUME NEW u \in Users, DropOwn(u) PROVE Same
    BY <1>4 DEF DropOwn
  <1>5. ASSUME NEW u \in Users, SerializeFails(u) PROVE Put
    <2>1. Puts(u, "error")
      BY <1>5 DEF SerializeFails, Serialized, Puts
    <2> QED
      BY <2>1
  <1>6. ASSUME NEW u \in Users, Lookup(u) \/ Built(u) PROVE Same
    BY <1>6 DEF Lookup, Built
  <1>7. ASSUME NEW u \in Users, BuildFails(u) PROVE Same \/ Put
    <2>1. CASE current[u] # <<>>
      <3>1. Puts(u, "error")
        BY <1>7, <2>1 DEF BuildFails, Puts
      <3> QED
        BY <3>1
    <2>2. CASE current[u] = <<>>
      BY <1>7, <2>2 DEF BuildFails
    <2> QED
      BY <2>1, <2>2
  <1>8. ASSUME NEW u \in Users, Send(u) PROVE Put
    <2>1. PICK n \in AllNames, what \in {"ok", "error"} : Sends(u, n, what)
      BY <1>8, SendCases
    <2>2. Puts(u, what)
      BY <2>1 DEF Sends, Puts
    <2> QED
      BY <2>2
  <1>9. ASSUME NEW u \in Users, NEW id \in Ids, Created(u, id) PROVE Same
    BY <1>9 DEF Created
  <1>10. ASSUME NEW id \in Ids, BrokerRegisters(id) \/ CloseTask(id) PROVE Same
    BY <1>10 DEF BrokerRegisters, CloseTask
  <1> HIDE DEF Same, Put
  <1>11. ASSUME NEW u \in Users, CallStep(u) PROVE Same \/ Put
    BY <1>5, <1>6, <1>7, <1>8, <1>9, <1>11 DEF CallStep
  <1> QED
    BY <1>1, <1>2, <1>3, <1>4, <1>10, <1>11, ZenonT(20)
       DEF Next, Application, Runs, Same, Put

\* Control holds after every step.
LEMMA ControlStep ==
  ASSUME TypeOK, Control, Turning, [Next]_vars
  PROVE  Control'
  <1>1. CASE New
    <2>1. \A u \in Users : pc[u] = "new" /\ current'[u] = <<>> /\ building'[u] = <<>>
      BY <1>1 DEF New, Control
    <2>2. client' # "new" /\ "run_producer" \notin owned'
      BY <1>1 DEF New, Control
    <2> QED
      BY <2>1, <2>2 DEF Control
  <1>2. CASE DropClient \/ CheckEnds \/ UNCHANGED vars
    BY <1>2 DEF DropClient, CheckEnds, vars, Control
  <1>3. ASSUME NEW u \in Users, NEW p \in {"idle", "gone"}, pc[u] \in {"idle", "closed"},
               pc' = [pc EXCEPT ![u] = p], UNCHANGED <<app, current, building>>
        PROVE  Control'
    BY <1>3 DEF Control, TypeOK
  <1>21. CASE RunEnds
    BY <1>3, <1>21 DEF RunEnds
  <1>22. CASE Closed
    BY <1>3, <1>22 DEF Closed, Over
  <1>4. CASE RunNext
    BY <1>4 DEF RunNext, Begin, Control, TypeOK
  <1>5. ASSUME NEW m \in Messages, NEW t \in Topics, PulsarSend(m, t) PROVE Control'
    BY <1>5 DEF PulsarSend, Control
  <1>6. ASSUME NEW u \in Users, NEW t \in Topics, NEW ms \in Lists, OwnSend(u, t, ms)
        PROVE  Control'
    BY <1>6 DEF OwnSend, Begin, Control, TypeOK
  <1>7. ASSUME NEW t \in Topics, OwnBuild(t) PROVE Control'
    BY <1>7 DEF OwnBuild, Begin, Control, TypeOK
  <1>8. ASSUME NEW t \in Topics, close_producer(t) PROVE Control'
    BY <1>8 DEF close_producer, Control, TypeOK
  <1>9. ASSUME NEW u \in Users, DropOwn(u) PROVE Control'
    BY <1>9 DEF DropOwn, Control
  <1>10. ASSUME NEW u \in Users, NEW what \in {"ok", "error"},
                current[u] # <<>>, pc[u] \in {"call", "build"}, Finish(u, what),
                UNCHANGED app, building' = [building EXCEPT ![u] = <<>>]
         PROVE  Control'
    <2>1. current' = [current EXCEPT ![u] = Tail(current[u])]
      BY <1>10, FinishEffect
    <2>2. \/ pc' = [pc EXCEPT ![u] = "call"]
          \/ pc' = [pc EXCEPT ![u] = "idle"] /\ Tail(current[u]) = <<>>
      BY <1>10, FinishEffect
    <2> QED
      BY <1>10, <2>1, <2>2 DEF Control, TypeOK
  <1>11. ASSUME NEW u \in Users, pc[u] = "call" PROVE building = [building EXCEPT ![u] = <<>>]
    BY <1>11 DEF Control, TypeOK
  <1>12. ASSUME NEW u \in Users, SerializeFails(u) PROVE Control'
    BY <1>10, <1>11, <1>12 DEF SerializeFails, Serialized
  <1>13. ASSUME NEW u \in Users, Lookup(u) PROVE Control'
    BY <1>13 DEF Lookup, Control, TypeOK
  <1>14. ASSUME NEW u \in Users, Built(u) PROVE Control'
    <2>1. /\ pc[u] = "build" /\ building' = [building EXCEPT ![u] = <<>>]
          /\ UNCHANGED <<app, current>>
      BY <1>14 DEF Built
    <2>2. \/ current[u] = <<>> /\ pc' = [pc EXCEPT ![u] = "idle"]
          \/ pc' = [pc EXCEPT ![u] = "call"]
      BY <1>14 DEF Built, Over
    <2> QED
      BY <2>1, <2>2 DEF Control, TypeOK
  <1>15. ASSUME NEW u \in Users, BuildFails(u) PROVE Control'
    <2>1. CASE current[u] # <<>>
      BY <1>10, <1>15, <2>1 DEF BuildFails
    <2>2. CASE current[u] = <<>>
      BY <1>15, <2>2 DEF BuildFails, Over, Control, TypeOK
    <2> QED
      BY <2>1, <2>2
  <1>16. ASSUME NEW u \in Users, Send(u) PROVE Control'
    <2>1. PICK n \in AllNames, what \in {"ok", "error"} : Sends(u, n, what)
      BY <1>16, SendCases
    <2> QED
      BY <1>10, <1>11, <2>1 DEF Sends
  <1>17. ASSUME NEW u \in Users, NEW id \in Ids, Created(u, id) PROVE Control'
    BY <1>17 DEF Created, Control
  <1>18. ASSUME NEW id \in Ids, BrokerRegisters(id) \/ CloseTask(id) PROVE Control'
    BY <1>18 DEF BrokerRegisters, CloseTask, Control
  <1>19. ASSUME NEW m \in Messages, Resolve(m) \/ ReadsLate(m) PROVE Control'
    BY <1>19 DEF Resolve, ReadsLate, Control
  <1>20. ASSUME NEW u \in Users, CallStep(u) PROVE Control'
    BY <1>12, <1>13, <1>14, <1>15, <1>16, <1>17, <1>20 DEF CallStep
  <1> QED
    BY <1>1, <1>2, <1>3, <1>4, <1>5, <1>6, <1>7, <1>8, <1>9, <1>18, <1>19, <1>20,
       <1>21, <1>22, ZenonT(20)
       DEF Next, Application, Runs

-----------------------------------------------------------------------------
(* The messages *)

\* A larger number after increasing ones
LEMMA IncreasingAppend ==
  ASSUME NEW q \in Seq(Messages), NEW e \in Messages, Increasing(q),
         \A k \in Range(q) : k < e
  PROVE  Increasing(Append(q, e))
  <1>1. \A i \in 1..Len(q) : q[i] \in Range(q) /\ Append(q, e)[i] = q[i]
    BY RangeType
  <1>2. Len(Append(q, e)) = Len(q) + 1 /\ Append(q, e)[Len(q) + 1] = e /\ Len(q) \in Nat
    OBVIOUS
  <1>3. SUFFICES ASSUME NEW i \in 1..Len(Append(q, e)), NEW j \in 1..Len(Append(q, e)), i < j
                 PROVE  Append(q, e)[i] < Append(q, e)[j]
    BY DEF Increasing
  <1>4. CASE j \in 1..Len(q)
    <2>1. i \in 1..Len(q)
      BY <1>2, <1>3, <1>4
    <2> QED
      BY <1>1, <1>3, <1>4, <2>1 DEF Increasing
  <1>5. CASE j = Len(q) + 1
    <2>1. i \in 1..Len(q)
      BY <1>2, <1>3, <1>5
    <2> QED
      BY <1>1, <1>2, <1>5, <2>1
  <1> QED
    BY <1>2, <1>4, <1>5

\* The first of increasing numbers is the least of them.
LEMMA IncreasingTail ==
  ASSUME NEW q \in Seq(Messages), q # <<>>, Increasing(q)
  PROVE  Increasing(Tail(q)) /\ \A k \in Range(Tail(q)) : Head(q) < k
  <1>1. /\ Len(q) \in Nat \ {0} /\ Tail(q) \in Seq(Messages) /\ Len(Tail(q)) = Len(q) - 1
        /\ Head(q) = q[1] /\ \A i \in 1..(Len(q) - 1) : Tail(q)[i] = q[i + 1]
    OBVIOUS
  <1>2. Range(Tail(q)) = {Tail(q)[i] : i \in 1..(Len(q) - 1)}
    BY <1>1, RangeType
  <1> QED
    BY <1>1, <1>2 DEF Increasing

\* Messages M are handed to the user s for the topic t.
HandOver(M, s, t) ==
  /\ topic'  = [k \in Messages |-> IF k \in M THEN t ELSE topic[k]]
  /\ sender' = [k \in Messages |-> IF k \in M THEN s ELSE sender[k]]
  /\ UNCHANGED <<resolving, store>>

\* They are new, and the next ones.
NextOnes(M) ==
  /\ M \subseteq Messages
  /\ \A m \in M : topic[m] = NoTopic
  /\ \A m \in M : \A k \in 1..(m - 1) : k \in M \/ topic[k] # NoTopic
  /\ \A m \in M : \A k \in Messages : topic[k] # NoTopic => k < m

\* A fresh message is one of them, ...
LEMMA FreshNext ==
  ASSUME TypeOK, Taken, NEW m \in Messages, Fresh(m)
  PROVE  NextOnes({m}) /\ \A k \in Messages : k >= m => topic[k] = NoTopic
  <1>1. ASSUME NEW k \in Messages, topic[k] # NoTopic PROVE k < m
    <2>1. k \in Nat /\ m \in Nat /\ m # k
      BY <1>1 DEF Messages, Fresh
    <2>2. m \notin 1..(k - 1)
      BY <1>1 DEF Taken, Fresh
    <2> QED
      BY <2>1, <2>2 DEF Messages
  <1>2. \A k \in Messages : k >= m => topic[k] = NoTopic
    BY <1>1 DEF Messages
  <1> QED
    BY <1>1, <1>2 DEF NextOnes, Fresh

\* ... and so are those of a call that begins with one.
LEMMA ListNext ==
  ASSUME TypeOK, Taken, NEW ms \in Lists, Fresh(ms[1])
  PROVE  NextOnes(Range(ms))
  <1>1. /\ ms[1] \in Messages /\ Range(ms) \subseteq Messages /\ ms[1] \in Range(ms)
        /\ \A k \in Range(ms) : k = ms[1] \/ k = ms[1] + 1
    BY ListsFacts
  <1> DEFINE m == ms[1]
  <1>2. m \in Messages /\ Fresh(m)
    BY <1>1
  <1>3. NextOnes({m}) /\ \A k \in Messages : k >= m => topic[k] = NoTopic
    BY <1>2, FreshNext
  <1> HIDE DEF m
  <1>4. /\ Range(ms) \subseteq Messages /\ m \in Range(ms)
        /\ \A k \in Range(ms) : k = m \/ k = m + 1
    BY <1>1 DEF m
  <1>5. \A k \in Range(ms) : topic[k] = NoTopic
    BY <1>2, <1>3, <1>4 DEF Messages
  <1>6. \A k \in Range(ms) : \A j \in Messages : topic[j] # NoTopic => j < k
    BY <1>2, <1>3, <1>4 DEF Messages, NextOnes
  <1>7. ASSUME NEW k \in Range(ms), NEW j \in 1..(k - 1)
        PROVE  j \in Range(ms) \/ topic[j] # NoTopic
    <2>1. j \in 1..(m - 1) \/ j = m
      BY <1>2, <1>4, <1>7 DEF Messages
    <2> QED
      BY <1>2, <1>4, <2>1 DEF Fresh
  <1> QED
    BY <1>4, <1>5, <1>6, <1>7 DEF NextOnes

\* What Pulsar::send does
LEMMA PulsarSends ==
  ASSUME TypeOK, Taken, NEW m \in Messages, NEW t \in Topics, PulsarSend(m, t)
  PROVE  /\ HandOver({m}, "run_producer", t) /\ NextOnes({m}) /\ "run_producer" \in Users
         /\ current' = current
         /\ \/ queue' = queue /\ future'[m] \in {"error", "refused"}
            \/ queue' = Append(queue, m) /\ future'[m] = "pending"
         /\ \A k \in Messages : k # m => future'[k] = future[k]
  <1>1. NextOnes({m})
    BY FreshNext DEF PulsarSend
  <1>2. HandOver({m}, "run_producer", t)
    <2>1. /\ topic' = [topic EXCEPT ![m] = t]
          /\ sender' = [sender EXCEPT ![m] = "run_producer"]
          /\ UNCHANGED <<resolving, store>>
      BY DEF PulsarSend
    <2> QED
      BY <2>1 DEF HandOver, TypeOK
  <1>3. \/ queue' = queue /\ future' = [future EXCEPT ![m] = "error"]
        \/ queue' = queue /\ future' = [future EXCEPT ![m] = "refused"]
        \/ queue' = Append(queue, m) /\ future' = [future EXCEPT ![m] = "pending"]
    BY DEF PulsarSend
  <1>4. /\ \/ queue' = queue /\ future'[m] \in {"error", "refused"}
           \/ queue' = Append(queue, m) /\ future'[m] = "pending"
        /\ \A k \in Messages : k # m => future'[k] = future[k]
    BY <1>3 DEF TypeOK
  <1> QED
    BY <1>1, <1>2, <1>4 DEF PulsarSend

\* What send and send_all of the application's own producers do
LEMMA OwnSends ==
  ASSUME TypeOK, Control, Taken, NEW u \in Users, NEW t \in Topics, NEW ms \in Lists,
         OwnSend(u, t, ms)
  PROVE  /\ HandOver(Range(ms), u, t) /\ NextOnes(Range(ms)) /\ u # "run_producer"
         /\ current' = [current EXCEPT ![u] = ms] /\ current[u] = <<>>
         /\ queue' = queue
         /\ \A k \in Range(ms) : future'[k] = "pending"
         /\ \A k \in Messages \ Range(ms) : future'[k] = future[k]
  <1>1. NextOnes(Range(ms))
    BY ListNext DEF OwnSend
  <1>2. current[u] = <<>> /\ u # "run_producer"
    BY DEF OwnSend, Control
  <1>3. /\ future' = [m \in Messages |-> IF m \in Range(ms) THEN "pending" ELSE future[m]]
        /\ HandOver(Range(ms), u, t) /\ queue' = queue
        /\ current' = [current EXCEPT ![u] = ms]
    BY DEF OwnSend, HandOver, Begin
  <1>4. Range(ms) \subseteq Messages
    BY ListsFacts
  <1> QED
    BY <1>1, <1>2, <1>3, <1>4

\* Messages are handed over in the order of their numbers.
LEMMA TakenHandOver ==
  ASSUME TypeOK, Taken, NEW M, NEW s \in Users, NEW t \in Topics, HandOver(M, s, t),
         NextOnes(M),
         Range(queue') \subseteq Range(queue) \cup (IF s = "run_producer" THEN M ELSE {}),
         \A u \in Users : Range(current'[u])
                            \subseteq Range(current[u]) \cup (IF u = s THEN M ELSE {})
  PROVE  Taken'
  <1>1. /\ \A m \in M : m \in Messages /\ topic'[m] # NoTopic /\ sender'[m] = s
        /\ \A m \in Messages : topic[m] # NoTopic =>
             topic'[m] # NoTopic /\ sender'[m] = sender[m] /\ m \notin M
        /\ \A m \in Messages : topic'[m] # NoTopic => m \in M \/ topic[m] # NoTopic
    BY ClientAssumption DEF HandOver, NextOnes
  <1>2. /\ Range(queue) \subseteq Messages
        /\ \A u \in Users : Range(current[u]) \subseteq Messages
    BY RangeType DEF TypeOK
  <1>3. ASSUME NEW m \in Messages, topic'[m] # NoTopic, NEW k \in 1..(m - 1)
        PROVE  topic'[k] # NoTopic
    <2>1. k \in Messages
      BY <1>3, ClientAssumption DEF Messages
    <2>2. k \in M \/ topic[k] # NoTopic
      BY <1>1, <1>3 DEF NextOnes, Taken
    <2> QED
      BY <1>1, <2>1, <2>2
  <1>4. \A m \in Range(queue') : topic'[m] # NoTopic /\ sender'[m] = "run_producer"
    BY <1>1, <1>2 DEF Taken
  <1>5. \A u \in Users : \A m \in Range(current'[u]) : topic'[m] # NoTopic /\ sender'[m] = u
    BY <1>1, <1>2 DEF Taken
  <1>6. \A m \in Messages : via'[m] # <<>> => topic'[m] # NoTopic
    BY <1>1 DEF Taken, HandOver
  <1> QED
    BY <1>3, <1>4, <1>5, <1>6 DEF Taken

\* Sending h on n, place by place
StoreChanges(h, n, what) ==
  /\ via'[h] = n /\ \A m \in Messages : m # h => via'[m] = via[m] /\ unread'[m] = unread[m]
  /\ \A k \in AllNames : k # n => log'[k] = log[k]
  /\ \/ log'[n] = Append(log[n], h) /\ Range(log'[n]) = Range(log[n]) \cup {h}
     \/ what = "error" /\ log'[n] = log[n]

\* Transmitting does that.
LEMMA TransmitsFacts ==
  ASSUME TypeOK, NEW h \in Messages, NEW n \in AllNames, NEW what, Transmits(h, n, what)
  PROVE  StoreChanges(h, n, what)
  <1>1. /\ via'[h] = n
        /\ \A m \in Messages : m # h => via'[m] = via[m] /\ unread'[m] = unread[m]
    BY DEF Transmits, TypeOK
  <1>2. log[n] \in Seq(Messages)
    BY DEF TypeOK
  <1>3. Range(Append(log[n], h)) = Range(log[n]) \cup {h}
    BY <1>2, RangeAppend
  <1>4. CASE log' = [log EXCEPT ![n] = Append(log[n], h)]
    <2>1. log'[n] = Append(log[n], h) /\ \A k \in AllNames : k # n => log'[k] = log[k]
      BY <1>4 DEF TypeOK
    <2> QED
      BY <1>1, <1>3, <2>1 DEF StoreChanges
  <1>5. CASE what = "error" /\ log' = log
    BY <1>1, <1>5 DEF StoreChanges
  <1> QED
    BY <1>4, <1>5 DEF Transmits

\* Putting a message away changes the messages in hand and the log by that one.
LEMMA PutsFacts ==
  ASSUME TypeOK, NEW u \in Users, NEW what \in {"ok", "error"}, Puts(u, what)
  PROVE  /\ Head(current[u]) \in Messages /\ Head(current[u]) \in Range(current[u])
         /\ current'[u] = Tail(current[u])
         /\ Range(current[u]) = Range(Tail(current[u])) \cup {Head(current[u])}
         /\ \A v \in Users : v # u => current'[v] = current[v]
         /\ \/ what = "error" /\ UNCHANGED store
            \/ \E n \in AllNames : StoreChanges(Head(current[u]), n, what)
  <1>1. current[u] \in Seq(Messages) /\ current[u] # <<>> /\ Finish(u, what)
    BY DEF Puts, TypeOK
  <1>2. /\ Head(current[u]) \in Messages /\ current' = [current EXCEPT ![u] = Tail(current[u])]
    BY <1>1, FinishEffect
  <1>3. Range(current[u]) = Range(Tail(current[u])) \cup {Head(current[u])}
    BY <1>1, RangeTail
  <1>4. /\ current'[u] = Tail(current[u])
        /\ \A v \in Users : v # u => current'[v] = current[v]
    BY <1>2 DEF TypeOK
  <1>5. CASE \E n \in AllNames : Transmits(Head(current[u]), n, what)
    <2>1. PICK n \in AllNames : Transmits(Head(current[u]), n, what)
      BY <1>5
    <2>2. StoreChanges(Head(current[u]), n, what)
      BY <1>2, <2>1, TransmitsFacts
    <2> QED
      BY <1>2, <1>3, <1>4, <2>2
  <1>6. CASE what = "error" /\ UNCHANGED store
    BY <1>2, <1>3, <1>4, <1>6
  <1> QED
    BY <1>5, <1>6 DEF Puts

\* Taken holds after every step.
LEMMA TakenStep ==
  ASSUME TypeOK, Control, Turning, Taken, [Next]_vars
  PROVE  Taken'
  <1>1. CASE UNCHANGED <<topic, sender, future, queue, resolving, current, store>>
    BY <1>1 DEF Taken
  <1>2. ASSUME NEW m \in Messages, NEW t \in Topics, PulsarSend(m, t) PROVE Taken'
    <2>1. /\ HandOver({m}, "run_producer", t) /\ NextOnes({m}) /\ "run_producer" \in Users
          /\ current' = current /\ (queue' = queue \/ queue' = Append(queue, m))
      BY <1>2, PulsarSends
    <2>2. Range(Append(queue, m)) = Range(queue) \cup {m}
      BY RangeAppend DEF TypeOK
    <2> QED
      BY <2>1, <2>2, TakenHandOver
  <1>3. ASSUME NEW u \in Users, NEW t \in Topics, NEW ms \in Lists, OwnSend(u, t, ms)
        PROVE  Taken'
    <2>1. /\ HandOver(Range(ms), u, t) /\ NextOnes(Range(ms)) /\ queue' = queue
          /\ current' = [current EXCEPT ![u] = ms]
      BY <1>3, OwnSends
    <2>2. \A v \in Users : Range(current'[v])
                             \subseteq Range(current[v]) \cup (IF v = u THEN Range(ms) ELSE {})
      BY <2>1 DEF TypeOK
    <2> QED
      BY <2>1, <2>2, TakenHandOver
  <1>4. CASE RunNext
    <2>1. /\ "run_producer" \in Users /\ queue # <<>> /\ queue' = Tail(queue)
          /\ current' = [current EXCEPT !["run_producer"] = <<Head(queue)>>]
          /\ UNCHANGED <<topic, sender, store>>
      BY <1>4 DEF RunNext, Begin
    <2>2. Range(queue) = Range(queue') \cup {Head(queue)}
      BY <2>1, RangeTail DEF TypeOK
    <2>3. Range(<<Head(queue)>>) = {Head(queue)}
      BY RangeOne
    <2>4. \A u \in Users : \A m \in Range(current'[u]) :
            m \in Range(current[u]) \/ (u = "run_producer" /\ m \in Range(queue))
      <3>1. /\ current'["run_producer"] = <<Head(queue)>>
            /\ \A u \in Users : u # "run_producer" => current'[u] = current[u]
        BY <2>1 DEF TypeOK
      <3> QED
        BY <2>2, <2>3, <3>1, ZenonT(20)
    <2> QED
      BY <2>1, <2>2, <2>4, ZenonT(20) DEF Taken
  <1>5. ASSUME NEW u \in Users, NEW what \in {"ok", "error"}, Puts(u, what) PROVE Taken'
    <2>1. /\ current'[u] = Tail(current[u]) /\ Head(current[u]) \in Messages
          /\ Range(current[u]) = Range(Tail(current[u])) \cup {Head(current[u])}
          /\ \A v \in Users : v # u => current'[v] = current[v]
          /\ UNCHANGED store \/ \E n \in AllNames : StoreChanges(Head(current[u]), n, what)
      BY <1>5, PutsFacts
    <2>2. \A v \in Users : Range(current'[v]) \subseteq Range(current[v])
      BY <2>1
    <2>3. \A m \in Messages : via'[m] # <<>> => via[m] # <<>> \/ m \in Range(current[u])
      BY <2>1 DEF StoreChanges
    <2>4. UNCHANGED <<topic, sender, queue>>
      BY <1>5 DEF Puts
    <2> QED
      BY <2>2, <2>3, <2>4 DEF Taken
  <1>6. ASSUME NEW m \in Messages, Resolve(m) PROVE Taken'
    BY <1>6 DEF Resolve, Taken
  <1>7. ASSUME NEW m \in Messages, ReadsLate(m) PROVE Taken'
    BY <1>7 DEF ReadsLate, Taken
  <1> QED
    BY <1>1, <1>2, <1>3, <1>4, <1>5, <1>6, <1>7, MsgCases

\* The order is kept when messages are handed over, ...
LEMMA SortedHandOver ==
  ASSUME TypeOK, Taken, Sorted, NEW M, NEW s \in Users, NEW t \in Topics,
         HandOver(M, s, t), NextOnes(M),
         Increasing(queue'), \A u \in Users : Increasing(current'[u]),
         \/ /\ s = "run_producer" /\ current' = current
            /\ Range(queue') \subseteq Range(queue) \cup M
         \/ /\ s # "run_producer" /\ queue' = queue
            /\ \A u \in Users : Range(current'[u])
                                  \subseteq Range(current[u]) \cup (IF u = s THEN M ELSE {})
  PROVE  Sorted'
  <1>1. /\ Range(queue) \subseteq Messages
        /\ \A u \in Users : Range(current[u]) \subseteq Messages
    BY RangeType DEF TypeOK
  <1>2. ASSUME NEW m \in Messages, topic[m] # NoTopic
        PROVE  sender'[m] = sender[m] /\ \A k \in M : m < k
    BY <1>2 DEF HandOver, NextOnes
  <1>3. \A m \in Messages : via[m] # <<>> => topic[m] # NoTopic
    BY DEF Taken
  <1>4. \A u \in Users : \A m \in Range(current[u]) : m \in Messages /\ topic[m] # NoTopic
    BY <1>1 DEF Taken
  <1>5. \A u \in Users, k \in Range(queue') :
          u = "run_producer" => \A m \in Range(current'[u]) : m < k
    <2>1. CASE s = "run_producer"
      BY <1>2, <1>4, <2>1 DEF Sorted
    <2>2. CASE s # "run_producer"
      BY <2>2 DEF Sorted
    <2> QED
      BY <2>1, <2>2
  <1>6. ASSUME NEW m \in Messages, via[m] # <<>>
        PROVE  /\ \A u \in Users : sender'[m] = u => \A k \in Range(current'[u]) : m < k
               /\ sender'[m] = "run_producer" => \A k \in Range(queue') : m < k
    <2>1. sender'[m] = sender[m] /\ \A k \in M : m < k
      BY <1>2, <1>3, <1>6
    <2>2. /\ \A u \in Users : sender[m] = u => \A k \in Range(current[u]) : m < k
          /\ sender[m] = "run_producer" => \A k \in Range(queue) : m < k
      BY <1>6 DEF Sorted
    <2> QED
      BY <2>1, <2>2
  <1>7. via' = via
    BY DEF HandOver
  <1> QED
    BY <1>5, <1>6, <1>7 DEF Sorted

\* ... when run_producer takes the next one, ...
LEMMA SortedNext ==
  ASSUME TypeOK, Control, Taken, Sorted, RunNext
  PROVE  Sorted'
  <1>1. /\ "run_producer" \in Users /\ queue # <<>> /\ queue' = Tail(queue)
        /\ current' = [current EXCEPT !["run_producer"] = <<Head(queue)>>]
        /\ UNCHANGED <<topic, sender, store>>
    BY DEF RunNext, Begin
  <1>2. Range(queue) = Range(Tail(queue)) \cup {Head(queue)}
    BY <1>1, RangeTail DEF TypeOK
  <1>3. Range(<<Head(queue)>>) = {Head(queue)} /\ Increasing(<<Head(queue)>>)
    BY RangeOne DEF Increasing
  <1>4. Increasing(Tail(queue)) /\ \A k \in Range(Tail(queue)) : Head(queue) < k
    BY <1>1, IncreasingTail DEF TypeOK, Sorted
  <1>5. /\ current'["run_producer"] = <<Head(queue)>>
        /\ \A u \in Users : u # "run_producer" => current'[u] = current[u]
    BY <1>1 DEF TypeOK
  <1>6. Increasing(queue') /\ \A u \in Users : Increasing(current'[u])
    BY <1>1, <1>3, <1>4, <1>5 DEF Sorted
  <1>7. \A u \in Users, k \in Range(queue') :
          u = "run_producer" => \A m \in Range(current'[u]) : m < k
    BY <1>1, <1>3, <1>4, <1>5
  <1>8. ASSUME NEW m \in Messages, via'[m] # <<>>
        PROVE  /\ \A u \in Users : sender'[m] = u => \A k \in Range(current'[u]) : m < k
               /\ sender'[m] = "run_producer" => \A k \in Range(queue') : m < k
    <2>1. /\ \A u \in Users : sender[m] = u => \A k \in Range(current[u]) : m < k
          /\ sender[m] = "run_producer" => \A k \in Range(queue) : m < k
      BY <1>1, <1>8 DEF Sorted
    <2> QED
      BY <1>1, <1>2, <1>3, <1>5, <2>1
  <1> QED
    BY <1>1, <1>6, <1>7, <1>8 DEF Sorted

\* ... and when one is put away: it comes after everything its user has sent.
LEMMA SortedPuts ==
  ASSUME TypeOK, Taken, Sorted, NEW u \in Users, NEW what \in {"ok", "error"}, Puts(u, what)
  PROVE  Sorted'
  <1> DEFINE h == Head(current[u])
  <1>1. /\ h \in Messages /\ h \in Range(current[u])
        /\ current'[u] = Tail(current[u])
        /\ Range(current[u]) = Range(Tail(current[u])) \cup {h}
        /\ \A v \in Users : v # u => current'[v] = current[v]
        /\ UNCHANGED store \/ \E n \in AllNames : StoreChanges(h, n, what)
    BY PutsFacts
  <1>2. UNCHANGED <<topic, sender, queue>> /\ current[u] # <<>> /\ current[u] \in Seq(Messages)
    BY DEF Puts, TypeOK
  <1>3. Increasing(Tail(current[u])) /\ \A k \in Range(Tail(current[u])) : h < k
    BY <1>2, IncreasingTail DEF Sorted
  <1>4. sender[h] = u
    BY <1>1 DEF Taken
  <1> HIDE DEF h
  <1>5. Increasing(queue') /\ \A v \in Users : Increasing(current'[v])
    BY <1>1, <1>2, <1>3 DEF Sorted
  <1>6. \A v \in Users : Range(current'[v]) \subseteq Range(current[v])
    BY <1>1
  <1>7. \A v \in Users, k \in Range(queue') :
          v = "run_producer" => \A m \in Range(current'[v]) : m < k
    BY <1>2, <1>6 DEF Sorted
  <1>8. ASSUME NEW m \in Messages, via'[m] # <<>>
        PROVE  /\ \A v \in Users : sender'[m] = v => \A k \in Range(current'[v]) : m < k
               /\ sender'[m] = "run_producer" => \A k \in Range(queue') : m < k
    <2>1. CASE via[m] # <<>>
      <3>1. /\ \A v \in Users : sender[m] = v => \A k \in Range(current[v]) : m < k
            /\ sender[m] = "run_producer" => \A k \in Range(queue) : m < k
        BY <2>1 DEF Sorted
      <3> QED
        BY <1>2, <1>6, <3>1
    <2>2. CASE m = h
      <3>1. u = "run_producer" => \A k \in Range(queue) : h < k
        BY <1>1 DEF Sorted
      <3> QED
        BY <1>1, <1>2, <1>3, <1>4, <2>2, <3>1
    <2>3. m = h \/ via[m] # <<>>
      BY <1>1, <1>8 DEF StoreChanges
    <2> QED
      BY <2>1, <2>2, <2>3
  <1> QED
    BY <1>5, <1>7, <1>8 DEF Sorted

\* The messages are in order after every step.
LEMMA SortedStep ==
  ASSUME TypeOK, Control, Turning, Taken, Sorted, [Next]_vars
  PROVE  Sorted'
  <1>1. CASE UNCHANGED <<topic, sender, future, queue, resolving, current, store>>
    BY <1>1 DEF Sorted
  <1>2. ASSUME NEW m \in Messages, NEW t \in Topics, PulsarSend(m, t)
        PROVE  Sorted'
    <2>1. /\ HandOver({m}, "run_producer", t) /\ NextOnes({m}) /\ "run_producer" \in Users
          /\ current' = current /\ (queue' = queue \/ queue' = Append(queue, m))
      BY <1>2, PulsarSends
    <2>2. queue \in Seq(Messages) /\ Increasing(queue) /\ \A u \in Users : Increasing(current[u])
      BY DEF TypeOK, Sorted
    <2>3. Range(Append(queue, m)) = Range(queue) \cup {m}
      BY <2>2, RangeAppend
    <2>4. \A k \in Range(queue) : k < m
      BY <2>1, <2>2, RangeType DEF Taken, NextOnes
    <2>5. Increasing(Append(queue, m))
      BY <2>2, <2>4, IncreasingAppend
    <2> QED
      BY <2>1, <2>2, <2>3, <2>5, SortedHandOver
  <1>3. ASSUME NEW u \in Users, NEW t \in Topics, NEW ms \in Lists, OwnSend(u, t, ms)
        PROVE  Sorted'
    <2>1. /\ HandOver(Range(ms), u, t) /\ NextOnes(Range(ms)) /\ queue' = queue
          /\ u # "run_producer" /\ current' = [current EXCEPT ![u] = ms]
      BY <1>3, OwnSends
    <2>2. current'[u] = ms /\ \A v \in Users : v # u => current'[v] = current[v]
      BY <2>1 DEF TypeOK
    <2>3. Increasing(queue') /\ \A v \in Users : Increasing(current'[v])
      BY <2>1, <2>2, ListsFacts DEF Sorted
    <2>4. \A v \in Users : Range(current'[v])
                             \subseteq Range(current[v]) \cup (IF v = u THEN Range(ms) ELSE {})
      BY <2>2
    <2> QED
      BY <2>1, <2>3, <2>4, SortedHandOver
  <1>4. CASE RunNext
    BY <1>4, SortedNext
  <1>5. ASSUME NEW u \in Users, NEW what \in {"ok", "error"}, Puts(u, what) PROVE Sorted'
    BY <1>5, SortedPuts
  <1>6. ASSUME NEW m \in Messages, Resolve(m) PROVE Sorted'
    BY <1>6 DEF Resolve, Sorted
  <1>7. ASSUME NEW m \in Messages, ReadsLate(m) PROVE Sorted'
    BY <1>7 DEF ReadsLate, Sorted
  <1> QED
    BY <1>1, <1>2, <1>3, <1>4, <1>5, <1>6, <1>7, MsgCases

\* A message in hand was not sent before.
LEMMA InHandUnsent ==
  ASSUME TypeOK, Taken, Sorted, NEW u \in Users, NEW h \in Range(current[u])
  PROVE  via[h] = <<>>
  <1>1. h \in Messages
    BY RangeType DEF TypeOK
  <1>2. sender[h] = u
    BY DEF Taken
  <1>3. via[h] # <<>> => h < h
    BY <1>1, <1>2 DEF Sorted
  <1> QED
    BY <1>1, <1>3 DEF Messages

\* A frame that is read late is one of a message that was sent.
LEMMA LateFacts ==
  ASSUME TypeOK, Placed, NEW m \in Messages, ReadsLate(m)
  PROVE  /\ via[m] \in AllNames /\ via' = via
         /\ \A k \in Messages : k # m => unread'[k] = unread[k]
         /\ \A n \in AllNames : n # via[m] => log'[n] = log[n]
         /\ log'[via[m]] = Append(log[via[m]], m)
         /\ Range(log'[via[m]]) = Range(log[via[m]]) \cup {m}
         /\ UNCHANGED <<topic, sender, future, queue, resolving, current>>
  <1>1. via[m] # <<>> /\ via[m] \in AllNames \cup {<<>>}
    BY DEF ReadsLate, Placed, TypeOK
  <1>2. /\ log' = [log EXCEPT ![via[m]] = Append(log[via[m]], m)]
        /\ unread' = [unread EXCEPT ![m] = unread[m] - 1] /\ via' = via
        /\ UNCHANGED <<topic, sender, future, queue, resolving, current>>
    BY DEF ReadsLate, Publish, Leave
  <1>3. via[m] \in AllNames
    BY <1>1
  <1> DEFINE n == via[m]
  <1>4. n \in AllNames /\ log[n] \in Seq(Messages)
    BY <1>3 DEF TypeOK
  <1>5. Range(Append(log[n], m)) = Range(log[n]) \cup {m}
    BY <1>4, RangeAppend
  <1>6. /\ \A k \in Messages : k # m => unread'[k] = unread[k]
        /\ \A k \in AllNames : k # n => log'[k] = log[k]
        /\ log'[n] = Append(log[n], m)
    BY <1>2, <1>4 DEF TypeOK
  <1> QED
    BY <1>2, <1>3, <1>5, <1>6

\* Every frame is where its message was sent, after every step.
LEMMA PlacedStep ==
  ASSUME TypeOK, Control, Turning, Taken, Sorted, Placed, [Next]_vars
  PROVE  Placed'
  <1>1. CASE UNCHANGED store
    BY <1>1 DEF Placed
  <1>2. ASSUME NEW m \in Messages, NEW t \in Topics, PulsarSend(m, t) PROVE UNCHANGED store
    BY <1>2 DEF PulsarSend
  <1>3. ASSUME NEW u \in Users, NEW t \in Topics, NEW ms \in Lists, OwnSend(u, t, ms)
        PROVE  UNCHANGED store
    BY <1>3 DEF OwnSend
  <1>4. RunNext => UNCHANGED store
    BY DEF RunNext
  <1>5. ASSUME NEW u \in Users, NEW what \in {"ok", "error"}, Puts(u, what) PROVE Placed'
    <2> DEFINE h == Head(current[u])
    <2>1. /\ h \in Messages /\ h \in Range(current[u])
          /\ UNCHANGED store \/ \E n \in AllNames : StoreChanges(h, n, what)
      BY <1>5, PutsFacts
    <2>2. via[h] = <<>>
      BY <2>1, InHandUnsent
    <2> HIDE DEF h
    <2>3. ASSUME NEW n \in AllNames, StoreChanges(h, n, what) PROVE Placed'
      <3>1. n # <<>>
        BY NameNotEmpty
      <3>2. \A k \in AllNames : h \notin Range(log[k])
        BY <2>2, NameNotEmpty DEF Placed
      <3>3. \A m \in Messages : unread'[m] > 0 => via'[m] # <<>>
        BY <2>3, <3>1 DEF StoreChanges, Placed
      <3>4. \A k \in AllNames : Range(log[k]) \subseteq Messages
        BY RangeType DEF TypeOK
      <3>5. ASSUME NEW k \in AllNames, NEW m \in Range(log'[k]) PROVE via'[m] = k
        <4>1. m \in Range(log[k]) \/ (k = n /\ m = h)
          BY <2>3, <3>5 DEF StoreChanges
        <4>2. CASE m \in Range(log[k])
          BY <2>3, <3>2, <3>4, <4>2 DEF StoreChanges, Placed
        <4>3. CASE k = n /\ m = h
          BY <2>3, <4>3 DEF StoreChanges
        <4> QED
          BY <4>1, <4>2, <4>3
      <3> QED
        BY <3>3, <3>5 DEF Placed
    <2> QED
      BY <1>1, <2>1, <2>3
  <1>6. ASSUME NEW m \in Messages, Resolve(m) PROVE UNCHANGED store
    BY <1>6 DEF Resolve
  <1>7. ASSUME NEW m \in Messages, ReadsLate(m) PROVE Placed'
    <2>1. /\ via[m] \in AllNames /\ via' = via
          /\ \A k \in Messages : k # m => unread'[k] = unread[k]
          /\ \A n \in AllNames : n # via[m] => log'[n] = log[n]
          /\ Range(log'[via[m]]) = Range(log[via[m]]) \cup {m}
      BY <1>7, LateFacts
    <2>2. via[m] # <<>>
      BY <1>7 DEF ReadsLate, Placed
    <2> QED
      BY <2>1, <2>2 DEF Placed
  <1> QED
    BY <1>1, <1>2, <1>3, <1>4, <1>5, <1>6, <1>7, MsgCases

\* The order of what was published is kept when at most one message is added to a
\* topic, and when a message that gets its receipt comes after all of its user.
LEMMA OrderKept ==
  ASSUME TypeOK, NoMessageForgotten, PublishedInOrder, NEW h \in Messages,
         \A n \in AllNames : log'[n] = log[n] \/ log'[n] = Append(log[n], h),
         \A n \in AllNames : \A k \in Range(log[n]) : sender'[k] = sender[k],
         \A m \in Messages : Receipt(m)' =>
           \/ Receipt(m) /\ via'[m] = via[m] /\ sender'[m] = sender[m]
           \/ \A n \in AllNames : \A k \in Range(log'[n]) :
                 ~(sender'[m] = sender'[k] /\ m < k)
  PROVE  PublishedInOrder'
  <1> SUFFICES ASSUME NEW n \in AllNames, NEW j \in 1..Len(log'[n]), NEW m \in Messages,
                      Receipt(m)', via'[m] = n, sender'[m] = sender'[log'[n][j]],
                      m < log'[n][j]
               PROVE  \E i \in 1..(j - 1) : log'[n][i] = m
    BY DEF PublishedInOrder
  <1>1. log[n] \in Seq(Messages) /\ Len(log[n]) \in Nat
    BY DEF TypeOK
  <1>2. log'[n] \in Seq(Messages)
    BY <1>1, AppendType
  <1>3. log'[n][j] \in Range(log'[n])
    BY <1>2, RangeType
  <1>4. Receipt(m) /\ via[m] = n /\ sender'[m] = sender[m]
    BY <1>3
  <1>5. CASE j \in 1..Len(log[n])
    <2>1. log'[n][j] = log[n][j] /\ \A i \in 1..(j - 1) : log'[n][i] = log[n][i]
      BY <1>1, <1>5
    <2>2. log[n][j] \in Range(log[n])
      BY <1>1, <1>5, RangeType
    <2>3. sender[m] = sender[log[n][j]] /\ m < log[n][j]
      BY <1>4, <2>1, <2>2
    <2>4. \E i \in 1..(j - 1) : log[n][i] = m
      BY <1>4, <1>5, <2>3 DEF PublishedInOrder
    <2> QED
      BY <2>1, <2>4
  <1>6. CASE j \notin 1..Len(log[n])
    <2>1. log'[n] = Append(log[n], h) /\ j = Len(log[n]) + 1
      BY <1>1, <1>6
    <2>2. m \in Range(log[n])
      BY <1>4 DEF NoMessageForgotten
    <2>3. PICK i \in 1..Len(log[n]) : log[n][i] = m
      BY <1>1, <2>2, RangeType
    <2>4. i \in 1..(j - 1) /\ log'[n][i] = m
      BY <1>1, <2>1, <2>3
    <2> QED
      BY <2>4
  <1> QED
    BY <1>5, <1>6

\* What was published is in order after every step.
LEMMA OrderStep ==
  ASSUME TypeOK, Control, Turning, Taken, Sorted, Placed, NoMessageForgotten,
         PublishedInOrder, [Next]_vars
  PROVE  PublishedInOrder'
  <1>0. ASSUME NEW n \in AllNames, NEW k \in Range(log[n])
        PROVE  k \in Messages /\ via[k] = n /\ via[k] # <<>> /\ topic[k] # NoTopic
    <2>1. k \in Messages
      BY RangeType DEF TypeOK
    <2>2. via[k] = n /\ n # <<>>
      BY NameNotEmpty DEF Placed
    <2> QED
      BY <2>1, <2>2 DEF Taken
  <1>1. CASE UNCHANGED <<topic, sender, future, queue, resolving, current, store>>
    BY <1>1 DEF PublishedInOrder, Receipt
  <1>2. ASSUME NEW M, NEW s \in Users, NEW t \in Topics, HandOver(M, s, t), NextOnes(M),
               \A k \in M : future'[k] # "ok",
               \A k \in Messages \ M : future'[k] = future[k]
        PROVE  PublishedInOrder'
    <2>1. log' = log /\ via' = via /\ resolving' = resolving
      BY <1>2 DEF HandOver
    <2>2. \A k \in Messages : topic[k] # NoTopic => sender'[k] = sender[k]
      BY <1>2 DEF HandOver, NextOnes
    <2>3. \A n \in AllNames : \A k \in Range(log[n]) : sender'[k] = sender[k]
      BY <1>0, <2>2
    <2>4. \A m \in Messages : Receipt(m)' => Receipt(m)
      BY <1>2, <2>1 DEF Receipt
    <2>5. \A m \in Messages : Receipt(m) => topic[m] # NoTopic
      BY NameNotEmpty DEF NoMessageForgotten, Taken
    <2>6. \A n \in AllNames : \A j \in 1..Len(log[n]) : log[n][j] \in Range(log[n])
      BY RangeType DEF TypeOK
    <2> QED
      BY <2>1, <2>2, <2>3, <2>4, <2>5, <2>6 DEF PublishedInOrder
  <1>3. ASSUME NEW m \in Messages, NEW t \in Topics, PulsarSend(m, t) PROVE PublishedInOrder'
    <2>1. /\ HandOver({m}, "run_producer", t) /\ NextOnes({m}) /\ "run_producer" \in Users
          /\ future'[m] \in {"error", "refused", "pending"}
          /\ \A k \in Messages : k # m => future'[k] = future[k]
      BY <1>3, PulsarSends
    <2> QED
      BY <1>2, <2>1
  <1>4. ASSUME NEW u \in Users, NEW t \in Topics, NEW ms \in Lists, OwnSend(u, t, ms)
        PROVE  PublishedInOrder'
    <2>1. /\ HandOver(Range(ms), u, t) /\ NextOnes(Range(ms))
          /\ \A k \in Range(ms) : future'[k] = "pending"
          /\ \A k \in Messages \ Range(ms) : future'[k] = future[k]
      BY <1>4, OwnSends
    <2> QED
      BY <1>2, <2>1
  <1>5. CASE RunNext
    BY <1>5 DEF RunNext, PublishedInOrder, Receipt
  <1>6. ASSUME NEW u \in Users, NEW what \in {"ok", "error"}, Puts(u, what)
        PROVE  PublishedInOrder'
    <2> DEFINE h == Head(current[u])
    <2>1. /\ h \in Messages /\ h \in Range(current[u])
          /\ UNCHANGED store \/ \E n \in AllNames : StoreChanges(h, n, what)
      BY <1>6, PutsFacts
    <2>2. /\ sender' = sender /\ current[u] # <<>> /\ Finish(u, what)
      BY <1>6 DEF Puts
    <2>3. \/ what = "ok" /\ future' = future /\ resolving' = resolving \cup {h}
          \/ resolving' = resolving /\ future' = [future EXCEPT ![h] = what]
      BY <2>2, FinishEffect
    <2>4. via[h] = <<>>
      BY <2>1, InHandUnsent
    <2>5. sender[h] = u
      BY <2>1 DEF Taken
    <2> HIDE DEF h
    <2>6. ASSUME NEW n \in AllNames
          PROVE  /\ log'[n] = log[n] \/ log'[n] = Append(log[n], h)
                 /\ Range(log'[n]) \subseteq Range(log[n]) \cup {h}
      BY <2>1 DEF StoreChanges
    <2>7. ASSUME NEW n \in AllNames, NEW k \in Range(log'[n])
          PROVE  ~(sender'[h] = sender'[k] /\ h < k)
      <3>1. CASE k = h
        BY <2>1, <3>1 DEF Messages
      <3>2. CASE k \in Range(log[n])
        <4>1. k \in Messages /\ via[k] # <<>>
          BY <1>0, <3>2
        <4>2. sender[k] = u => k < h
          BY <2>1, <4>1 DEF Sorted
        <4> QED
          BY <2>1, <2>2, <2>5, <4>1, <4>2 DEF Messages
      <3> QED
        BY <2>6, <2>7, <3>1, <3>2
    <2>8. ASSUME NEW m \in Messages, Receipt(m)', m # h
          PROVE  Receipt(m) /\ via'[m] = via[m] /\ sender'[m] = sender[m]
      <3>1. Receipt(m)
        BY <2>1, <2>3, <2>8 DEF Receipt, TypeOK
      <3>2. via'[m] = via[m]
        BY <2>1, <2>8 DEF StoreChanges
      <3> QED
        BY <2>2, <3>1, <3>2
    <2> QED
      BY <2>1, <2>2, <2>6, <2>7, <2>8, OrderKept
  <1>7. ASSUME NEW m \in Messages, Resolve(m) PROVE PublishedInOrder'
    <2>1. /\ m \in resolving /\ resolving' = resolving \ {m}
          /\ future' = [future EXCEPT ![m] = "ok"] /\ UNCHANGED <<sender, store>>
      BY <1>7 DEF Resolve
    <2>2. \A k \in Messages : Receipt(k)' => Receipt(k)
      BY <2>1 DEF Receipt, TypeOK
    <2> QED
      BY <2>1, <2>2 DEF PublishedInOrder
  <1>8. ASSUME NEW m \in Messages, ReadsLate(m) PROVE PublishedInOrder'
    <2>1. /\ via' = via /\ UNCHANGED <<topic, sender, future, resolving>>
          /\ \A n \in AllNames : log'[n] = log[n] \/ log'[n] = Append(log[n], m)
      BY <1>8, LateFacts
    <2>2. \A k \in Messages : Receipt(k)' => Receipt(k)
      BY <2>1 DEF Receipt
    <2> QED
      BY <2>1, <2>2, OrderKept
  <1> QED
    BY <1>1, <1>3, <1>4, <1>5, <1>6, <1>7, <1>8, MsgCases

\* A message is never forgotten: a step that takes it from one place leaves it in
\* another, or gives it its outcome.
LEMMA ForgottenStep ==
  ASSUME TypeOK, Control, Turning, Taken, Sorted, Placed, NoMessageForgotten, [Next]_vars
  PROVE  NoMessageForgotten'
  <1>1. CASE UNCHANGED <<topic, sender, future, queue, resolving, current, store>>
    BY <1>1 DEF NoMessageForgotten, Receipt
  <1>2. ASSUME NEW m \in Messages, NEW t \in Topics, PulsarSend(m, t) PROVE NoMessageForgotten'
    <2>1. /\ current' = current /\ resolving' = resolving /\ log' = log /\ via' = via
          /\ \/ queue' = queue /\ future'[m] \in {"error", "refused"}
             \/ queue' = Append(queue, m) /\ future'[m] = "pending"
          /\ \A k \in Messages : k # m => future'[k] = future[k]
      BY <1>2, PulsarSends DEF HandOver
    <2>2. Range(Append(queue, m)) = Range(queue) \cup {m}
      BY RangeAppend DEF TypeOK
    <2> QED
      BY <2>1, <2>2 DEF NoMessageForgotten, Receipt
  <1>3. ASSUME NEW u \in Users, NEW t \in Topics, NEW ms \in Lists, OwnSend(u, t, ms)
        PROVE  NoMessageForgotten'
    <2>1. /\ current' = [current EXCEPT ![u] = ms] /\ current[u] = <<>>
          /\ queue' = queue /\ resolving' = resolving /\ log' = log /\ via' = via
          /\ \A k \in Range(ms) : future'[k] = "pending"
          /\ \A k \in Messages \ Range(ms) : future'[k] = future[k]
      BY <1>3, OwnSends DEF HandOver
    <2>2. current'[u] = ms /\ \A v \in Users : v # u => current'[v] = current[v]
      BY <2>1 DEF TypeOK
    <2>3. Range(current[u]) = {}
      BY <2>1, RangeEmpty
    <2>4. ASSUME NEW m \in Messages, future'[m] = "pending"
          PROVE  \/ m \in Range(queue') \/ m \in resolving'
                 \/ \E v \in Users : m \in Range(current'[v])
      <3>1. CASE m \in Range(ms)
        BY <2>2, <3>1
      <3>2. CASE m \notin Range(ms)
        <4>1. m \in Range(queue) \/ m \in resolving \/ \E v \in Users : m \in Range(current[v])
          BY <2>1, <2>4, <3>2 DEF NoMessageForgotten
        <4> QED
          BY <2>1, <2>2, <2>3, <4>1
      <3> QED
        BY <3>1, <3>2
    <2>5. ASSUME NEW m \in Messages, Receipt(m)'
          PROVE  via'[m] \in AllNames /\ m \in Range(log'[via'[m]])
      BY <2>1, <2>5 DEF NoMessageForgotten, Receipt
    <2> QED
      BY <2>4, <2>5 DEF NoMessageForgotten
  <1>4. CASE RunNext
    <2>1. /\ "run_producer" \in Users /\ queue # <<>> /\ queue' = Tail(queue)
          /\ pc["run_producer"] = "idle"
          /\ current' = [current EXCEPT !["run_producer"] = <<Head(queue)>>]
          /\ UNCHANGED <<future, resolving, store>>
      BY <1>4 DEF RunNext, Begin
    <2>2. Range(queue) = Range(queue') \cup {Head(queue)}
      BY <2>1, RangeTail DEF TypeOK
    <2>3. /\ current'["run_producer"] = <<Head(queue)>>
          /\ \A u \in Users : u # "run_producer" => current'[u] = current[u]
      BY <2>1 DEF TypeOK
    <2>4. Range(current["run_producer"]) = {} /\ Range(<<Head(queue)>>) = {Head(queue)}
      BY <2>1, RangeEmpty, RangeOne DEF Control
    <2>5. ASSUME NEW m \in Messages, future[m] = "pending"
          PROVE  m \in Range(queue') \/ m \in resolving \/ \E v \in Users : m \in Range(current'[v])
      <3>1. m \in Range(queue) \/ m \in resolving \/ \E v \in Users : m \in Range(current[v])
        BY <2>5 DEF NoMessageForgotten
      <3> QED
        BY <2>1, <2>2, <2>3, <2>4, <3>1, ZenonT(20)
    <2> QED
      BY <2>1, <2>5 DEF NoMessageForgotten, Receipt
  <1>5. ASSUME NEW u \in Users, NEW what \in {"ok", "error"}, Puts(u, what)
        PROVE  NoMessageForgotten'
    <2> DEFINE h == Head(current[u])
    <2>1. /\ h \in Messages /\ h \in Range(current[u])
          /\ current'[u] = Tail(current[u])
          /\ Range(current[u]) = Range(Tail(current[u])) \cup {h}
          /\ \A v \in Users : v # u => current'[v] = current[v]
      BY <1>5, PutsFacts
    <2>6. \/ what = "error" /\ UNCHANGED store
          \/ \E n \in AllNames : StoreChanges(h, n, what)
      BY <1>5, PutsFacts
    <2>7. via[h] = <<>>
      BY <2>1, InHandUnsent
    <2>2. /\ queue' = queue /\ current[u] # <<>> /\ Finish(u, what)
      BY <1>5 DEF Puts
    <2>3. \/ what = "ok" /\ future' = future /\ resolving' = resolving \cup {h}
          \/ resolving' = resolving /\ future' = [future EXCEPT ![h] = what]
      BY <2>2, FinishEffect
    <2> HIDE DEF h
    <2>4. ASSUME NEW m \in Messages, future'[m] = "pending"
          PROVE  \/ m \in Range(queue') \/ m \in resolving'
                 \/ \E v \in Users : m \in Range(current'[v])
      <3>1. future[m] = "pending" /\ (m # h \/ m \in resolving')
        BY <2>1, <2>3, <2>4 DEF TypeOK
      <3>2. m \in Range(queue) \/ m \in resolving \/ \E v \in Users : m \in Range(current[v])
        BY <3>1 DEF NoMessageForgotten
      <3> QED
        BY <2>1, <2>2, <2>3, <3>1, <3>2, ZenonT(20)
    <2>5. ASSUME NEW m \in Messages, Receipt(m)'
          PROVE  via'[m] \in AllNames /\ m \in Range(log'[via'[m]])
      <3>1. (what = "ok" /\ m = h) \/ Receipt(m)
        BY <2>1, <2>3, <2>5 DEF Receipt, TypeOK
      <3>2. CASE Receipt(m)
        <4>1. via[m] \in AllNames /\ m \in Range(log[via[m]])
          BY <3>2 DEF NoMessageForgotten
        <4>2. m # h
          BY <2>7, <4>1, NameNotEmpty
        <4> QED
          BY <2>6, <4>1, <4>2, ZenonT(20) DEF StoreChanges
      <3>3. CASE what = "ok" /\ m = h
        BY <2>6, <3>3, ZenonT(20) DEF StoreChanges
      <3> QED
        BY <3>1, <3>2, <3>3
    <2> QED
      BY <2>4, <2>5 DEF NoMessageForgotten
  <1>6. ASSUME NEW m \in Messages, Resolve(m) PROVE NoMessageForgotten'
    <2>1. /\ m \in resolving /\ resolving' = resolving \ {m}
          /\ future' = [future EXCEPT ![m] = "ok"] /\ UNCHANGED <<queue, current, store>>
      BY <1>6 DEF Resolve
    <2>2. future'[m] = "ok" /\ \A k \in Messages : k # m => future'[k] = future[k]
      BY <2>1 DEF TypeOK
    <2> QED
      BY <2>1, <2>2 DEF NoMessageForgotten, Receipt
  <1>7. ASSUME NEW m \in Messages, ReadsLate(m) PROVE NoMessageForgotten'
    <2>1. /\ via' = via /\ UNCHANGED <<topic, sender, future, queue, resolving, current>>
          /\ \A n \in AllNames : Range(log[n]) \subseteq Range(log'[n])
      BY <1>7, LateFacts
    <2> QED
      BY <2>1 DEF NoMessageForgotten, Receipt
  <1> QED
    BY <1>1, <1>2, <1>3, <1>4, <1>5, <1>6, <1>7, MsgCases

-----------------------------------------------------------------------------
(* The rotation *)

\* A step that only takes topic producers away, and begins no build
Keeps ==
  /\ UNCHANGED <<name, turns>>
  /\ \A u \in Users : pc'[u] = "build" =>
       pc[u] = "build" /\ building'[u] = building[u] /\ target'[u] = target[u]
  /\ \A u \in Users, t \in Topics : producers'[u][t] \in {producers[u][t], <<>>}

\* The steps by what they do to topic producers
LEMMA TurnCases ==
  ASSUME TypeOK, Control, Turning, [Next]_vars
  PROVE  \/ Keeps
         \/ \E u \in Users : Lookup(u) \/ Built(u)
         \/ \E u \in Users, n \in AllNames, what \in {"ok", "error"} : Sends(u, n, what)
  <1>1. CASE New
    <2>1. \A u \in Users : pc'[u] # "build"
      BY <1>1 DEF New, Control
    <2> QED
      BY <1>1, <2>1 DEF New, Keeps
  <1>2. CASE UNCHANGED <<users, name, turns>>
    BY <1>2 DEF Keeps
  <1>3. ASSUME NEW u \in Users, pc'[u] # "build",
               \A v \in Users : v # u => /\ pc'[v] = pc[v] /\ target'[v] = target[v]
                                         /\ building'[v] = building[v],
               \A v \in Users, t \in Topics : producers'[v][t] \in {producers[v][t], <<>>},
               UNCHANGED <<name, turns>>
        PROVE  Keeps
    BY <1>3 DEF Keeps
  <1>4. CASE RunEnds
    <2>1. /\ "run_producer" \in Users /\ pc' = [pc EXCEPT !["run_producer"] = "gone"]
          /\ producers' = [producers EXCEPT !["run_producer"] = [t \in Topics |-> <<>>]]
          /\ UNCHANGED <<target, building, name, turns>>
      BY <1>4 DEF RunEnds
    <2>2. \A v \in Users, t \in Topics : producers'[v][t] \in {producers[v][t], <<>>}
      BY <2>1 DEF TypeOK
    <2>3. /\ pc'["run_producer"] # "build"
          /\ \A v \in Users : v # "run_producer" => pc'[v] = pc[v]
      BY <2>1 DEF TypeOK
    <2> QED
      BY <1>3, <2>1, <2>2, <2>3
  <1>5. ASSUME NEW u \in Users, NEW t, NEW ms, Begin(u, t, ms),
               UNCHANGED <<producers, building, name, turns>>
        PROVE  Keeps
    <2>1. /\ pc'[u] = "call"
          /\ \A v \in Users : v # u => pc'[v] = pc[v] /\ target'[v] = target[v]
      BY <1>5 DEF Begin, TypeOK
    <2> QED
      BY <1>3, <1>5, <2>1
  <1>6. CASE RunNext
    BY <1>5, <1>6 DEF RunNext
  <1>7. ASSUME NEW u \in Users, NEW t \in Topics, NEW ms \in Lists, OwnSend(u, t, ms)
        PROVE  Keeps
    BY <1>5, <1>7 DEF OwnSend
  <1>8. ASSUME NEW t \in Topics, OwnBuild(t) PROVE Keeps
    <2>1. "producer" \in Users
      BY <1>8 DEF OwnBuild, TypeOK
    <2> QED
      BY <1>5, <1>8, <2>1 DEF OwnBuild
  <1>9. CASE Closed
    <2>1. /\ "multi" \in Users /\ Over("multi")
          /\ UNCHANGED <<producers, building, name, turns>>
      BY <1>9 DEF Closed
    <2>2. /\ pc'["multi"] # "build"
          /\ \A v \in Users : v # "multi" => pc'[v] = pc[v] /\ target'[v] = target[v]
      BY <2>1 DEF Over, TypeOK
    <2> QED
      BY <1>3, <2>1, <2>2
  <1>10. ASSUME NEW t \in Topics, close_producer(t) PROVE Keeps
    <2>1. "multi" \in Users /\ pc["multi"] = "idle" /\ UNCHANGED <<building, name, turns>>
      BY <1>10 DEF close_producer, TypeOK
    <2>2. CASE /\ producers' = RemoveNames("multi", t) /\ pc' = [pc EXCEPT !["multi"] = "closed"]
               /\ target' = [target EXCEPT !["multi"] = t]
      <3>1. \A v \in Users, s \in Topics : producers'[v][s] \in {producers[v][s], <<>>}
        BY <2>1, <2>2 DEF RemoveNames, TypeOK
      <3>2. /\ pc'["multi"] # "build"
            /\ \A v \in Users : v # "multi" => pc'[v] = pc[v] /\ target'[v] = target[v]
        BY <2>1, <2>2 DEF TypeOK
      <3> QED
        BY <1>3, <2>1, <3>1, <3>2
    <2>3. CASE UNCHANGED <<producers, pc, target>>
      BY <2>1, <2>3 DEF Keeps
    <2> QED
      BY <1>10, <2>2, <2>3 DEF close_producer
  <1>11. ASSUME NEW u \in Users, DropOwn(u) PROVE Keeps
    <2>1. \A v \in Users, t \in Topics : producers'[v][t] \in {producers[v][t], <<>>}
      BY <1>11 DEF DropOwn, TypeOK
    <2> QED
      BY <1>11, <2>1 DEF DropOwn, Keeps
  <1>12. ASSUME NEW u \in Users, NEW what \in {"ok", "error"}, Finish(u, what),
                current[u] # <<>>, UNCHANGED <<producers, name, turns>>,
                \A v \in Users : v # u => building'[v] = building[v]
         PROVE  Keeps
    <2>1. \/ pc' = [pc EXCEPT ![u] = "call"] /\ target' = target
          \/ pc' = [pc EXCEPT ![u] = "idle"] /\ target' = [target EXCEPT ![u] = NoTopic]
      BY <1>12, FinishEffect
    <2>2. /\ pc'[u] # "build"
          /\ \A v \in Users : v # u => pc'[v] = pc[v] /\ target'[v] = target[v]
      BY <2>1 DEF TypeOK
    <2> QED
      BY <1>3, <1>12, <2>2
  <1>13. ASSUME NEW u \in Users, SerializeFails(u) PROVE Keeps
    BY <1>12, <1>13 DEF SerializeFails, Serialized
  <1>14. ASSUME NEW u \in Users, BuildFails(u) PROVE Keeps
    <2>1. /\ UNCHANGED <<producers, name, turns>>
          /\ \A v \in Users : v # u => building'[v] = building[v]
      BY <1>14 DEF BuildFails, TypeOK
    <2>2. CASE current[u] # <<>>
      BY <1>12, <1>14, <2>1, <2>2 DEF BuildFails
    <2>3. CASE current[u] = <<>>
      <3>1. Over(u)
        BY <1>14, <2>3 DEF BuildFails
      <3>2. /\ pc'[u] # "build"
            /\ \A v \in Users : v # u => pc'[v] = pc[v] /\ target'[v] = target[v]
        BY <3>1 DEF Over, TypeOK
      <3> QED
        BY <1>3, <2>1, <3>2
    <2> QED
      BY <2>2, <2>3
  <1>15. ASSUME NEW u \in Users, Send(u)
         PROVE  \E n \in AllNames, what \in {"ok", "error"} : Sends(u, n, what)
    BY <1>15, SendCases
  <1>16. ASSUME \/ DropClient \/ CheckEnds \/ UNCHANGED vars
                \/ \E m \in Messages, t \in Topics : PulsarSend(m, t)
                \/ \E u \in Users, id \in Ids : Created(u, id)
                \/ \E id \in Ids : BrokerRegisters(id) \/ CloseTask(id)
                \/ \E m \in Messages : Resolve(m) \/ ReadsLate(m)
         PROVE  Keeps
    BY <1>16 DEF DropClient, CheckEnds, vars, PulsarSend, Created, BrokerRegisters,
       CloseTask, Resolve, ReadsLate, Keeps
  <1>17. ASSUME NEW u \in Users, CallStep(u)
         PROVE  \/ Keeps \/ Lookup(u) \/ Built(u)
                \/ \E n \in AllNames, what \in {"ok", "error"} : Sends(u, n, what)
    BY <1>13, <1>14, <1>15, <1>16, <1>17, ZenonT(20) DEF CallStep
  <1> QED
    BY <1>1, <1>4, <1>6, <1>7, <1>8, <1>9, <1>10, <1>11, <1>16, <1>17, ZenonT(60)
       DEF Next, Application, Runs

\* Adding the divisor does not change the remainder.
LEMMA AddDivisor ==
  ASSUME NEW x \in Nat, NEW n \in Nat \ {0}
  PROVE  (x + n) % n = x % n
  <1> DEFINE q == x \div n
             r == x % n
             p == (x + n) \div n
             s == (x + n) % n
  <1>1. q \in Int /\ p \in Int /\ r \in 0..(n - 1) /\ s \in 0..(n - 1)
    OBVIOUS
  <1>2. x = n * q + r
    OBVIOUS
  <1>3. x + n = n * p + s
    <2>1. x + n \in Nat
      OBVIOUS
    <2> QED
      BY <2>1
  <1> HIDE DEF q, r, p, s
  <1> DEFINE d == p - q - 1
  <1>4. d \in Int
    BY <1>1
  <1>5. n * d = r - s
    BY <1>1, <1>2, <1>3
  <1> HIDE DEF d
  <1>6. ~(d >= 1)
    <2>1. d >= 1 => n * d >= n
      BY <1>4
    <2> QED
      BY <1>1, <1>5, <2>1
  <1>7. ~(d < 0)
    <2>1. d < 0 => n * d <= 0 - n
      BY <1>4
    <2> QED
      BY <1>1, <1>5, <2>1
  <1>8. d = 0
    BY <1>4, <1>6, <1>7
  <1>9. r = s
    BY <1>1, <1>5, <1>8
  <1> QED
    BY <1>9 DEF r, s

\* The rotation: what stands second comes first after one more turn, what stood
\* first comes last; at the start the last one stands first, and the first one
\* second; and the partition of the next turn stands second.
LEMMA Places ==
  ASSUME NEW t \in Topics, NEW k \in Nat
  PROVE  /\ \A j \in 1..Len(Names(t)) : Place(t, k, j) \in 1..Len(Names(t))
         /\ \A j \in 1..(Len(Names(t)) - 1) : Place(t, k + 1, j) = Place(t, k, j + 1)
         /\ Place(t, k + 1, Len(Names(t))) = Place(t, k, 1)
         /\ Place(t, 0, 1) = Len(Names(t))
         /\ \A j \in 2..Len(Names(t)) : Place(t, 0, j) = j - 1
         /\ Place(t, k + 1, 1) = (k % Len(Names(t))) + 1
  <1> DEFINE n == Len(Names(t))
  <1>1. n \in Nat \ {0}
    BY NamesFacts
  <1>2. \A i, j : Place(t, i, j) = ((i + j + n - 2) % n) + 1
    BY DEF Place
  <1> HIDE DEF n
  <1>3. ASSUME NEW j \in 1..n PROVE Place(t, k, j) \in 1..n
    <2> DEFINE x == k + j + n - 2
    <2>1. x \in Nat
      BY <1>1
    <2> HIDE DEF x
    <2>2. x % n \in 0..(n - 1)
      BY <1>1, <2>1
    <2>3. (x % n) + 1 \in 1..n
      BY <1>1, <2>2
    <2> QED
      BY <1>2, <2>3 DEF x
  <1>4. ASSUME NEW j \in 1..(n - 1) PROVE Place(t, k + 1, j) = Place(t, k, j + 1)
    <2>1. (k + 1) + j + n - 2 = k + (j + 1) + n - 2
      BY <1>1
    <2> QED
      BY <1>2, <2>1
  <1>5. Place(t, k + 1, n) = Place(t, k, 1)
    <2> DEFINE x == k + 1 + n - 2
    <2>1. x \in Nat /\ (k + 1) + n + n - 2 = x + n
      BY <1>1
    <2>2. (x + n) % n = x % n
      BY <1>1, <2>1, AddDivisor
    <2> QED
      BY <1>2, <2>1, <2>2
  <1>6. Place(t, 0, 1) = n
    <2>1. n - 1 \in Nat /\ n - 1 < n /\ 0 + 1 + n - 2 = n - 1
      BY <1>1
    <2> DEFINE x == n - 1
    <2>2. x \in Nat /\ x < n /\ x + 1 = n
      BY <1>1
    <2> HIDE DEF x
    <2>3. x % n = x
      BY <1>1, <2>2
    <2> QED
      BY <1>2, <2>1, <2>2, <2>3 DEF x
  <1>7. ASSUME NEW j \in 2..n PROVE Place(t, 0, j) = j - 1
    <2> DEFINE x == j - 2
    <2>1. x \in Nat /\ x < n /\ x + 1 = j - 1 /\ 0 + j + n - 2 = x + n
      BY <1>1
    <2> HIDE DEF x
    <2>2. x % n = x
      BY <1>1, <2>1
    <2>3. (x + n) % n = x % n
      BY <1>1, <2>1, AddDivisor
    <2> QED
      BY <1>2, <2>1, <2>2, <2>3
  <1>8. Place(t, k + 1, 1) = (k % n) + 1
    <2>1. (k + 1) + 1 + n - 2 = k + n
      BY <1>1
    <2>2. (k + n) % n = k % n
      BY <1>1, AddDivisor
    <2> QED
      BY <1>2, <2>1, <2>2
  <1> QED
    BY <1>3, <1>4, <1>5, <1>6, <1>7, <1>8 DEF n

\* What a lookup does: it numbers and names new topic producers.
LEMMA LookupFacts ==
  ASSUME TypeOK, Numbered, NEW u \in Users, Lookup(u)
  PROVE  LET c == Cardinality(Used)
             names == Names(target[u])
         IN  /\ target[u] \in Topics /\ c \in Nat
             /\ Len(building'[u]) = Len(names)
             /\ \A i \in 1..Len(names) : name'[building'[u][i]] = names[i]
             /\ Used' = 1..(c + Len(names))
             /\ \A id \in Used : name'[id] = name[id]
             /\ \A v \in Users : v # u => pc'[v] = pc[v] /\ building'[v] = building[v]
             /\ UNCHANGED <<target, producers, turns>>
  <1> DEFINE names == Names(target[u])
             c     == Cardinality(Used)
             L     == Len(names)
             ids   == [i \in 1..L |-> c + i]
  <1>1. target[u] \in Topics /\ L \in Nat \ {0} /\ c \in Nat /\ Used = 1..c
    BY NamesFacts DEF Lookup, TypeOK, Numbered
  <1>2. /\ Range(ids) \subseteq Ids /\ building' = [building EXCEPT ![u] = ids]
        /\ name' = [id \in Ids |-> IF id \in Range(ids) THEN names[id - c] ELSE name[id]]
        /\ pc' = [pc EXCEPT ![u] = "build"]
        /\ UNCHANGED <<target, producers, turns>>
    BY DEF Lookup
  <1>3. \A i \in 1..L : names[i] # <<>>
    BY <1>1, NamesFacts
  <1>4. Range(ids) = {c + i : i \in 1..L}
    BY DEF Range
  <1>5. building'[u] = ids /\ \A v \in Users : v # u => pc'[v] = pc[v] /\ building'[v] = building[v]
    BY <1>2 DEF TypeOK
  <1>6. Len(ids) = L /\ \A i \in 1..L : ids[i] = c + i
    <2>1. ids \in [1..L -> Ids] /\ \A i \in 1..L : ids[i] = c + i
      BY <1>2, <1>4
    <2> HIDE DEF ids, L
    <2> QED
      BY <1>1, <2>1
  <1> HIDE DEF ids, names, L, c
  <1>7. \A i \in 1..L : c + i \in Ids /\ name'[c + i] = names[i]
    BY <1>1, <1>2, <1>4
  <1>8. \A id \in Used : name'[id] = name[id]
    <2>1. \A id \in Used : id \in Ids /\ id \notin Range(ids)
      BY <1>1, <1>4 DEF Used
    <2> QED
      BY <1>2, <2>1
  <1>9. ASSUME NEW id \in Ids PROVE name'[id] # <<>> <=> id \in 1..(c + L)
    <2>1. CASE id \in Range(ids)
      <3>1. PICK i \in 1..L : id = c + i
        BY <1>4, <2>1
      <3>2. name'[id] # <<>>
        BY <1>3, <1>7, <3>1
      <3>3. id \in 1..(c + L)
        BY <1>1, <3>1
      <3> QED
        BY <3>2, <3>3
    <2>2. CASE id \notin Range(ids)
      <3>1. name'[id] = name[id] /\ (name[id] # <<>> <=> id \in 1..c)
        BY <1>1, <1>2, <2>2 DEF Used
      <3>2. id \in 1..(c + L) <=> id \in 1..c
        <4>1. id \in Nat
          BY DEF Ids
        <4>2. ~(id > c /\ id <= c + L)
          <5>1. ASSUME id > c, id <= c + L PROVE id - c \in 1..L /\ id = c + (id - c)
            BY <1>1, <4>1, <5>1
          <5> QED
            BY <1>4, <2>2, <5>1
        <4> QED
          BY <1>1, <4>1, <4>2
      <3> QED
        BY <3>1, <3>2
    <2> QED
      BY <2>1, <2>2
  <1>10. 1..(c + L) \subseteq Ids
    <2>1. c + L \in Ids
      BY <1>1, <1>7
    <2> QED
      BY <1>1, <2>1, ClientAssumption DEF Ids
  <1>11. Used' = 1..(c + L)
    BY <1>9, <1>10 DEF Used
  <1>12. \A i \in 1..L : name'[building'[u][i]] = names[i]
    BY <1>5, <1>6, <1>7
  <1> QED
    BY <1>1, <1>2, <1>5, <1>6, <1>8, <1>11, <1>12 DEF names, L, c

\* A step that takes topic producers away leaves the others in turn.
LEMMA TurningKeeps ==
  ASSUME TypeOK, Turning, InTurn, Keeps
  PROVE  Turning' /\ InTurn'
  <1>1. ASSUME NEW u \in Users, pc'[u] = "build"
        PROVE  /\ Len(building'[u]) = Len(Names(target'[u]))
               /\ \A i \in 1..Len(building'[u]) : name'[building'[u][i]] = Names(target'[u])[i]
    BY <1>1 DEF Keeps, Turning
  <1>2. ASSUME NEW u \in Users, NEW t \in Topics, producers'[u][t] # <<>>
        PROVE  /\ Len(producers'[u][t]) = Len(Names(t))
               /\ \A j \in 1..Len(Names(t)) :
                    name'[producers'[u][t][j]] = Names(t)[Place(t, Len(turns'[u][t]), j)]
    <2>1. producers'[u][t] = producers[u][t] /\ Owns(u, t) /\ name' = name /\ turns' = turns
      BY <1>2 DEF Keeps, Owns
    <2> QED
      BY <2>1 DEF Turning
  <1>3. Turning'
    BY <1>1, <1>2 DEF Turning, Owns
  <1> QED
    BY <1>3 DEF InTurn, Keeps

\* A lookup names the topic producers to be created by the partitions in order.
LEMMA TurningLookup ==
  ASSUME TypeOK, Numbered, Turning, InTurn, NEW u \in Users, Lookup(u)
  PROVE  Turning' /\ InTurn'
  <1>1. /\ target[u] \in Topics
        /\ Len(building'[u]) = Len(Names(target[u]))
        /\ \A i \in 1..Len(Names(target[u])) : name'[building'[u][i]] = Names(target[u])[i]
        /\ \A id \in Used : name'[id] = name[id]
        /\ \A v \in Users : v # u => pc'[v] = pc[v] /\ building'[v] = building[v]
        /\ UNCHANGED <<target, producers, turns>>
    BY LookupFacts
  <1>2. \A id \in Ids : name[id] \in AllNames => id \in Used
    BY NamesFacts, <1>1 DEF Used
  <1>3. ASSUME NEW v \in Users, pc'[v] = "build"
        PROVE  /\ Len(building'[v]) = Len(Names(target'[v]))
               /\ \A i \in 1..Len(building'[v]) : name'[building'[v][i]] = Names(target'[v])[i]
    <2>1. CASE v = u
      BY <1>1, <2>1
    <2>2. CASE v # u
      <3>1. pc[v] = "build" /\ building'[v] = building[v] /\ building[v] \in Seq(Ids)
        BY <1>1, <1>3, <2>2 DEF TypeOK
      <3>2. \A i \in 1..Len(building[v]) : building[v][i] \in Ids
                                           /\ name[building[v][i]] \in AllNames
        BY <3>1, NamedProducers
      <3>3. \A i \in 1..Len(building[v]) : name'[building[v][i]] = name[building[v][i]]
        BY <1>1, <1>2, <3>2
      <3> QED
        BY <1>1, <3>1, <3>3 DEF Turning
    <2> QED
      BY <2>1, <2>2
  <1>4. ASSUME NEW v \in Users, NEW t \in Topics, Owns(v, t)
        PROVE  /\ Len(producers[v][t]) = Len(Names(t))
               /\ \A j \in 1..Len(Names(t)) :
                    name'[producers[v][t][j]] = Names(t)[Place(t, Len(turns[v][t]), j)]
    <2>1. producers[v][t] \in Seq(Ids)
      BY DEF TypeOK
    <2>2. \A j \in 1..Len(producers[v][t]) : producers[v][t][j] \in Ids
                                             /\ name[producers[v][t][j]] \in AllNames
      BY <2>1, NamedProducers
    <2>3. \A j \in 1..Len(producers[v][t]) :
            name'[producers[v][t][j]] = name[producers[v][t][j]]
      BY <1>1, <1>2, <2>2
    <2> QED
      BY <1>4, <2>3 DEF Turning
  <1>5. Turning'
    BY <1>1, <1>3, <1>4 DEF Turning, Owns
  <1> QED
    BY <1>1, <1>5 DEF InTurn

\* A build leaves the partitions in order, the last one first.
LEMMA TurningBuilt ==
  ASSUME TypeOK, Turning, InTurn, NEW u \in Users, Built(u)
  PROVE  Turning' /\ InTurn'
  <1> DEFINE t == target[u]
             b == building[u]
  <1>1. /\ pc[u] = "build" /\ t \in Topics /\ b \in Seq(Ids)
        /\ Len(b) = Len(Names(t)) /\ Len(b) \in Nat \ {0}
        /\ \A i \in 1..Len(b) : name[b[i]] = Names(t)[i]
    BY NamesFacts DEF Built, TypeOK, Turning
  <1>2. /\ producers' = [producers EXCEPT ![u][t] = RotateRight(b)]
        /\ building' = [building EXCEPT ![u] = <<>>]
        /\ turns' = [turns EXCEPT ![u][t] = <<>>]
        /\ name' = name
    BY DEF Built
  <1>3. \/ pc' = [pc EXCEPT ![u] = "idle"] /\ target' = [target EXCEPT ![u] = NoTopic]
        \/ pc' = [pc EXCEPT ![u] = "call"] /\ target' = target
    BY DEF Built, Over
  <1>4. /\ pc'[u] # "build"
        /\ \A v \in Users : v # u => /\ pc'[v] = pc[v] /\ target'[v] = target[v]
                                     /\ building'[v] = building[v]
    BY <1>2, <1>3 DEF TypeOK
  <1> HIDE DEF t, b
  <1>5. /\ producers'[u][t] = RotateRight(b) /\ turns'[u][t] = <<>>
        /\ \A v \in Users, s \in Topics : v # u \/ s # t =>
             producers'[v][s] = producers[v][s] /\ turns'[v][s] = turns[v][s]
    BY <1>1, <1>2 DEF TypeOK
  <1>6. /\ RotateRight(b) \in Seq(Ids) /\ Len(RotateRight(b)) = Len(b)
        /\ RotateRight(b)[1] = b[Len(b)]
        /\ \A j \in 2..Len(b) : RotateRight(b)[j] = b[j - 1]
    <2>1. RotateRight(b) \in [1..Len(b) -> Ids]
      BY <1>1 DEF RotateRight
    <2>2. /\ RotateRight(b)[1] = b[Len(b)]
          /\ \A j \in 2..Len(b) : RotateRight(b)[j] = b[j - 1]
      BY <1>1 DEF RotateRight
    <2> QED
      BY <1>1, <2>1, <2>2
  <1>7. /\ Place(t, 0, 1) = Len(Names(t))
        /\ \A j \in 2..Len(Names(t)) : Place(t, 0, j) = j - 1
    BY <1>1, Places
  <1>8. ASSUME NEW j \in 1..Len(Names(t))
        PROVE  name[RotateRight(b)[j]] = Names(t)[Place(t, 0, j)]
    <2>1. CASE j = 1
      BY <1>1, <1>6, <1>7, <2>1
    <2>2. CASE j # 1
      <3>1. j \in 2..Len(b) /\ j - 1 \in 1..Len(b)
        BY <1>1, <2>2
      <3> QED
        BY <1>1, <1>6, <1>7, <3>1
    <2> QED
      BY <2>1, <2>2
  <1>9. ASSUME NEW v \in Users, NEW s \in Topics, producers'[v][s] # <<>>
        PROVE  /\ Len(producers'[v][s]) = Len(Names(s))
               /\ \A j \in 1..Len(Names(s)) :
                    name'[producers'[v][s][j]] = Names(s)[Place(s, Len(turns'[v][s]), j)]
    <2>1. CASE v = u /\ s = t
      <3>1. Len(turns'[v][s]) = 0
        BY <1>5, <2>1
      <3> QED
        BY <1>1, <1>2, <1>5, <1>6, <1>8, <2>1, <3>1
    <2>2. CASE v # u \/ s # t
      BY <1>2, <1>5, <1>9, <2>2 DEF Turning, Owns
    <2> QED
      BY <2>1, <2>2
  <1>10. Turning'
    BY <1>2, <1>4, <1>9 DEF Turning, Owns
  <1>11. ASSUME NEW v \in Users, NEW s \in Topics, NEW i \in 1..Len(turns'[v][s])
         PROVE  turns'[v][s][i] = Names(s)[((i - 1) % Len(Names(s))) + 1]
    <2>1. CASE v = u /\ s = t
      BY <1>5, <1>11, <2>1
    <2>2. CASE v # u \/ s # t
      BY <1>5, <2>2 DEF InTurn
    <2> QED
      BY <2>1, <2>2
  <1> QED
    BY <1>10, <1>11 DEF InTurn

\* A send uses the partition that stands second, and rotates.
LEMMA TurningSends ==
  ASSUME TypeOK, Control, Turning, InTurn, NEW u \in Users, NEW n \in AllNames,
         NEW what \in {"ok", "error"}, Sends(u, n, what)
  PROVE  Turning' /\ InTurn'
  <1> DEFINE t == target[u]
             p == producers[u][t]
             k == Len(turns[u][t])
  <1>1. /\ t \in Topics /\ p \in Seq(Ids) /\ p # <<>> /\ k \in Nat
        /\ turns[u][t] \in Seq(AllNames)
        /\ Len(p) = Len(Names(t)) /\ Len(p) \in Nat \ {0}
        /\ \A j \in 1..Len(p) : name[p[j]] = Names(t)[Place(t, k, j)]
    <2>1. t \in Topics /\ Owns(u, t)
      BY DEF Sends, TypeOK
    <2>2. p \in Seq(Ids) /\ turns[u][t] \in Seq(AllNames)
      BY <2>1, SMTT(60) DEF TypeOK
    <2>3. p # <<>> /\ k \in Nat
      BY <2>1, <2>2 DEF Owns
    <2>4. Len(p) = Len(Names(t))
          /\ \A j \in 1..Len(Names(t)) : name[p[j]] = Names(t)[Place(t, k, j)]
      BY <2>1, ZenonT(60) DEF Turning
    <2>5. Len(Names(t)) \in Nat \ {0}
      BY <2>1, NamesFacts
    <2> QED
      BY <2>1, <2>2, <2>3, <2>4, <2>5
  <1>2. name' = name /\ building' = building
    BY DEF Sends
  <1>3. \A v \in Users : pc'[v] = "build" => pc[v] = "build" /\ target'[v] = target[v]
    <2>1. \/ pc' = [pc EXCEPT ![u] = "call"] /\ target' = target
          \/ pc' = [pc EXCEPT ![u] = "idle"] /\ target' = [target EXCEPT ![u] = NoTopic]
      BY FinishEffect DEF Sends
    <2> QED
      BY <2>1 DEF TypeOK
  <1>4. CASE producers' = producers /\ turns' = turns
    <2>1. InTurn'
      BY <1>4, ZenonT(60) DEF InTurn
    <2>2. ASSUME NEW v \in Users, pc'[v] = "build"
          PROVE  /\ Len(building'[v]) = Len(Names(target'[v]))
                 /\ \A i \in 1..Len(building'[v]) :
                      name'[building'[v][i]] = Names(target'[v])[i]
      <3>1. pc[v] = "build" /\ target'[v] = target[v]
        BY <1>3, <2>2
      <3>2. /\ Len(building[v]) = Len(Names(target[v]))
            /\ \A i \in 1..Len(building[v]) : name[building[v][i]] = Names(target[v])[i]
        BY <3>1, ZenonT(60) DEF Turning
      <3> QED
        BY <1>2, <3>1, <3>2, ZenonT(60)
    <2>3. ASSUME NEW v \in Users, NEW s \in Topics, Owns(v, s)'
          PROVE  /\ Len(producers'[v][s]) = Len(Names(s))
                 /\ \A j \in 1..Len(Names(s)) :
                      name'[producers'[v][s][j]] = Names(s)[Place(s, Len(turns'[v][s]), j)]
      <3>1. Owns(v, s)
        BY <1>4, <2>3 DEF Owns
      <3> QED
        BY <1>2, <1>4, <3>1, ZenonT(60) DEF Turning
    <2>4. Turning'
      BY <2>2, <2>3, ZenonT(60) DEF Turning, Place
    <2> QED
      BY <2>1, <2>4
  <1>5. CASE /\ producers' = [producers EXCEPT ![u][t] = RotateLeft(p)]
             /\ n = name[RotateLeft(p)[1]]
             /\ turns' = [turns EXCEPT ![u][t] = Append(turns[u][t], n)]
    <2> DEFINE q == RotateLeft(p)
    <2>1. /\ q \in Seq(Ids) /\ Len(q) = Len(p)
          /\ \A j \in 1..(Len(p) - 1) : q[j] = p[j + 1]
          /\ q[Len(p)] = p[1]
      BY <1>1, RotateLeftFacts
    <2>2. /\ \A j \in 1..(Len(p) - 1) : Place(t, k + 1, j) = Place(t, k, j + 1)
          /\ Place(t, k + 1, Len(p)) = Place(t, k, 1)
          /\ Place(t, k + 1, 1) = (k % Len(Names(t))) + 1
      BY <1>1, Places
    <2> HIDE DEF p, t, q, k
    <2>3. /\ producers'[u][t] = q /\ turns'[u][t] = Append(turns[u][t], n)
          /\ \A v \in Users, s \in Topics : v # u \/ s # t =>
               producers'[v][s] = producers[v][s] /\ turns'[v][s] = turns[v][s]
      BY <1>1, <1>5 DEF TypeOK, q
    <2>4. /\ Len(turns'[u][t]) = k + 1 /\ turns'[u][t][k + 1] = n
          /\ \A i \in 1..k : turns'[u][t][i] = turns[u][t][i]
      BY <1>1, <2>3 DEF k
    <2>5. ASSUME NEW j \in 1..Len(p) PROVE name[q[j]] = Names(t)[Place(t, k + 1, j)]
      <3>1. CASE j = Len(p)
        BY <1>1, <2>1, <2>2, <3>1
      <3>2. CASE j # Len(p)
        <4>1. j \in 1..(Len(p) - 1) /\ j + 1 \in 1..Len(p)
          BY <1>1, <3>2
        <4> QED
          BY <1>1, <2>1, <2>2, <4>1
      <3> QED
        BY <3>1, <3>2
    <2>6. ASSUME NEW v \in Users, NEW s \in Topics, producers'[v][s] # <<>>
          PROVE  /\ Len(producers'[v][s]) = Len(Names(s))
                 /\ \A j \in 1..Len(Names(s)) :
                      name'[producers'[v][s][j]] = Names(s)[Place(s, Len(turns'[v][s]), j)]
      <3>1. CASE v = u /\ s = t
        BY <1>1, <1>2, <2>1, <2>3, <2>4, <2>5, <3>1
      <3>2. CASE v # u \/ s # t
        BY <1>2, <2>3, <2>6, <3>2 DEF Turning, Owns
      <3> QED
        BY <3>1, <3>2
    <2>7. Turning'
      BY <1>2, <1>3, <2>6 DEF Turning, Owns
    <2>8. n = Names(t)[(k % Len(Names(t))) + 1]
      <3>1. n = name[q[1]] /\ 1 \in 1..Len(p)
        BY <1>1, <1>5 DEF q
      <3> QED
        BY <2>2, <2>5, <3>1
    <2>9. ASSUME NEW v \in Users, NEW s \in Topics, NEW i \in 1..Len(turns'[v][s])
          PROVE  turns'[v][s][i] = Names(s)[((i - 1) % Len(Names(s))) + 1]
      <3>1. CASE v = u /\ s = t /\ i = k + 1
        <4>1. i - 1 = k
          BY <1>1, <3>1
        <4> QED
          BY <2>4, <2>8, <3>1, <4>1
      <3>2. CASE v = u /\ s = t /\ i # k + 1
        <4>1. i \in 1..k
          BY <1>1, <2>4, <2>9, <3>2
        <4> QED
          BY <1>1, <2>4, <3>2, <4>1 DEF InTurn, k
      <3>3. CASE v # u \/ s # t
        BY <2>3, <3>3 DEF InTurn
      <3> QED
        BY <3>1, <3>2, <3>3
    <2> QED
      BY <2>7, <2>9 DEF InTurn
  <1> QED
    BY <1>4, <1>5 DEF Sends

\* The partitions are in turn after every step.
LEMMA TurningStep ==
  ASSUME TypeOK, Control, Numbered, Turning, InTurn, [Next]_vars
  PROVE  Turning' /\ InTurn'
  <1>1. CASE Keeps
    BY <1>1, TurningKeeps
  <1>2. ASSUME NEW u \in Users, Lookup(u) PROVE Turning' /\ InTurn'
    BY <1>2, TurningLookup
  <1>3. ASSUME NEW u \in Users, Built(u) PROVE Turning' /\ InTurn'
    BY <1>3, TurningBuilt
  <1>4. ASSUME NEW u \in Users, NEW n \in AllNames, NEW what \in {"ok", "error"},
               Sends(u, n, what)
        PROVE  Turning' /\ InTurn'
    BY <1>4, TurningSends
  <1> QED
    BY <1>1, <1>2, <1>3, <1>4, TurnCases

-----------------------------------------------------------------------------
(* The theorems *)

LOCAL C == INSTANCE FiniteSetTheorems

\* There are n numbers from 1 to n.
LEMMA CountFirst ==
  ASSUME NEW n \in Nat
  PROVE  Cardinality(1..n) = n
  <1>1. C!Cardinality(1..n) = n
    BY C!FS_Interval
  <1>2. C!Cardinality(1..n) = Cardinality(1..n)
    BY Zenon DEF Cardinality, C!Cardinality
  <1> QED
    BY <1>1, <1>2

\* Creations are numbered after every step.
LEMMA NumberedStep ==
  ASSUME TypeOK, Control, Numbered, Turning, [Next]_vars
  PROVE  Numbered'
  <1>1. ASSUME NEW u \in Users, Lookup(u) PROVE Numbered'
    <2> DEFINE n == Cardinality(Used) + Len(Names(target[u]))
    <2>1. Used' = 1..n /\ n \in Nat
      BY <1>1, LookupFacts, NamesFacts
    <2> HIDE DEF n
    <2>2. Cardinality(Used') = n
      BY <2>1, CountFirst
    <2> QED
      BY <2>1, <2>2 DEF Numbered
  <1>2. CASE name' = name
    BY <1>2 DEF Numbered, Used
  <1>3. ASSUME NEW u \in Users, Built(u) PROVE name' = name
    BY <1>3 DEF Built
  <1>4. ASSUME NEW u \in Users, NEW n \in AllNames, NEW what \in {"ok", "error"},
               Sends(u, n, what)
        PROVE  name' = name
    BY <1>4 DEF Sends
  <1>5. Keeps => name' = name
    BY DEF Keeps
  <1> QED
    BY <1>1, <1>2, <1>3, <1>4, <1>5, TurnCases

\* The invariant holds initially.
LEMMA InitInv == Init => ClientInv
  <1> SUFFICES ASSUME Init PROVE ClientInv
    OBVIOUS
  <1>1. TypeOK
    <2>1. unread \in [Messages -> 0..Frames]
      BY DEF Init, Frames
    <2>2. via \in [Messages -> AllNames \cup {<<>>}]
      BY DEF Init
    <2> QED
      BY <2>1, <2>2, EmptyType, ClientAssumption DEF Init, TypeOK
  <1>2. Control
    BY DEF Init, Control
  <1>3. Range(<<>>) = {}
    BY RangeEmpty
  <1>4. Taken /\ Sorted /\ Placed /\ PublishedInOrder /\ InTurn /\ NoMessageForgotten
    BY <1>3 DEF Init, Taken, Sorted, Placed, PublishedInOrder, InTurn, NoMessageForgotten,
                Increasing, Receipt
  <1>5. Numbered
    <2>1. Used = {} /\ 1..0 = {}
      BY DEF Init, Used
    <2>2. Cardinality(1..0) = 0
      BY CountFirst
    <2> QED
      BY <2>1, <2>2 DEF Numbered
  <1>6. Turning
    BY DEF Init, Turning, Owns
  <1> QED
    BY <1>1, <1>2, <1>4, <1>5, <1>6 DEF ClientInv

\* Every step preserves it.
LEMMA StepInv == ClientInv /\ [Next]_vars => ClientInv'
  <1> SUFFICES ASSUME ClientInv, [Next]_vars PROVE ClientInv'
    OBVIOUS
  <1>1. /\ TypeOK /\ Control /\ Taken /\ Sorted /\ Placed /\ PublishedInOrder
        /\ Numbered /\ Turning /\ InTurn /\ NoMessageForgotten
    BY DEF ClientInv
  <1>2. TypeOK'
    BY <1>1, TypeStep
  <1>3. Control'
    BY <1>1, ControlStep
  <1>4. Taken'
    BY <1>1, TakenStep
  <1>5. Sorted' /\ Placed' /\ PublishedInOrder'
    BY <1>1, SortedStep, PlacedStep, OrderStep
  <1>6. Numbered'
    BY <1>1, NumberedStep
  <1>7. Turning' /\ InTurn'
    BY <1>1, TurningStep
  <1>8. NoMessageForgotten'
    BY <1>1, ForgottenStep
  <1> QED
    BY <1>2, <1>3, <1>4, <1>5, <1>6, <1>7, <1>8 DEF ClientInv

\* The invariant holds in every reachable state of the client, its run_producer
\* task and the producers of the application.
THEOREM Invariance == Spec => []ClientInv
  BY InitInv, StepInv, PTL DEF Spec

\* Every variable keeps its type: a user of topic producers has a topic while it
\* sends or builds.
THEOREM TypeCorrect == Spec => []TypeOK
  <1>1. ClientInv => TypeOK
    BY DEF ClientInv
  <1> QED
    BY <1>1, Invariance, PTL

\* A message that Pulsar::send, send or send_all accepted is in the channel, with
\* a call or with the task that resolves its future until it has its outcome, and
\* has a receipt only if it was published: whatever fails, and after the client
\* was dropped.
THEOREM NeverForgotten == Spec => []NoMessageForgotten
  <1>1. ClientInv => NoMessageForgotten
    BY DEF ClientInv
  <1> QED
    BY <1>1, Invariance, PTL

\* PartitionedProducer::next takes the partitions in turn from the first one on,
\* for any number of partitions; a message is published only where it was sent,
\* however often; and before any copy of a message stands a copy of every earlier
\* message of the same user and partition that has a receipt.
THEOREM InRotation == Spec => []RoundRobin
  <1>1. ClientInv => RoundRobin
    <2> SUFFICES ASSUME ClientInv PROVE RoundRobin
      OBVIOUS
    <2>1. \A n \in AllNames : \A j \in 1..Len(log[n]) : log[n][j] \in Range(log[n])
      BY RangeType DEF ClientInv, TypeOK
    <2>2. \A n \in AllNames : \A j \in 1..Len(log[n]) : via[log[n][j]] = n
      BY <2>1 DEF ClientInv, Placed
    <2> QED
      BY <2>2 DEF ClientInv, InTurn, PublishedInOrder, RoundRobin
  <1> QED
    BY <1>1, Invariance, PTL
=============================================================================
