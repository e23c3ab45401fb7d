--------------------------- MODULE ProducerProofs ---------------------------
(***************************************************************************)
(* Proofs about Producer, for any batch size, any number of messages,      *)
(* connections and retries.                                                *)
(***************************************************************************)
EXTENDS Producer, SequenceLemmas

USE ZenonT(8), SMTT(60) DEF producer, app, conns, tasks, broker

-----------------------------------------------------------------------------
(* The inductive invariant *)

\* The producer exists once from_connection has returned, and what a call is
\* sending has left the batch.
Control ==
  /\ pc \in {"idle", "send", "await", "dropped"} => ~first
  /\ pc \in {"access", "failed"} => first
  /\ first <=> signal = None
  /\ out # <<>> => batch = <<>>
  /\ batch_size = NoBatch => batch = <<>>

\* The messages of q are the last ones that the application has handed over.
Newest(q) == \A i \in 1..Len(q) : q[i] = next - Len(q) + i

\* The messages of q have been handed over, and left the batch.
Handed(q) == \A m \in Range(q) : m <= next /\ m \notin Range(batch)

\* A frame on its way is a copy of what is being sent, or has nothing of it; the
\* frame that is awaited is a copy.
FrameOK(f) ==
  /\ f.sequence_id < message_id
  /\ Handed(f.messages)
  /\ f.messages = out \/ Range(f.messages) \cap Range(out) = {}
  /\ pc = "await" /\ f.sequence_id = message_id - 1 => f.messages = out

\* m, which has a receipt or is being sent together with n, has to be in the log
\* before n.
Precedes(m, n) ==
  /\ m < n
  /\ result[m] = "receipt" \/ (m \in Range(out) /\ n \in Range(out))

Ordered ==
  \A j \in 1..Len(log), m \in Messages :
    Precedes(m, log[j]) => \E i \in 1..(j - 1) : log[i] = m

Published ==
  /\ Newest(batch) /\ Newest(out)
  /\ Handed(log)
  /\ \A k \in Conns : \A f \in Range(wire[k]) : FrameOK(f)
  /\ pc = "await" /\ answer = "receipt" => Range(out) \subseteq Range(log)
  /\ \A m \in Messages : result[m] = "receipt" => m \in Range(log)
  /\ Ordered

\* The creation of the drop signal is the only one on its connection.
OnlyCreation == \A g \in Creations \ {signal} : home[g] # home[signal]

Registered ==
  /\ conn[connection] # "none"
  /\ \A k \in pool : conn[k] # "none"
  /\ \A g \in Creations : home[g] # None => conn[home[g]] # "none"
  /\ \A g \in Creations : task[g] = "closing" => home[g] # None
  /\ first => \A g \in Creations : home[g] = None
  /\ signal # None => home[signal] # None
  /\ signal # None /\ pc # "dropped" => task[signal] = "armed"
  /\ pc = "access" => ~ready
  /\ pc = "access" /\ conn[connection] = "open" /\ closes = 0
       => connection \in registered
  /\ (/\ signal # None /\ pc # "dropped" /\ ready /\ closes = 0
      /\ conn[home[signal]] = "open" /\ OnlyCreation)
       => home[signal] \in registered

\* The inductive invariant
ProducerInv == TypeOK /\ Control /\ PendingHeld /\ Published /\ Registered
-----------------------------------------------------------------------------
(* Messages *)

\* The number that send_raw gives a message is the number of a message.
LEMMA NextMessage ==
  ASSUME next \in 0..MaxMessages, next < MaxMessages
  PROVE  next + 1 \in Messages /\ next + 1 \in 0..MaxMessages
  BY ProducerAssumption DEF Messages

-----------------------------------------------------------------------------
(* Type correctness *)

\* A producer starts well typed, in from_connection.
LEMMA InitType == Init => TypeOK
  <1> SUFFICES ASSUME Init PROVE TypeOK
    OBVIOUS
  <1>1. first \in BOOLEAN /\ resending \in BOOLEAN /\ ready \in BOOLEAN
    BY DEF Init
  <1>2. first
    BY DEF Init
  <1>3. wire \in [Conns -> Seq(Frames)]
    BY DEF Init
  <1> QED
    BY <1>1, <1>2, <1>3, ProducerAssumption DEF Init, TypeOK, Conns, Creations, None

\* The types of what the end of a call changes
Ended ==
  /\ out = <<>> /\ out \in Seq(Messages)
  /\ resending \in BOOLEAN /\ retries \in 0..max_retries
  /\ answer \in {"none", "receipt", "error"}
  /\ result \in [Messages -> {"none", "pending", "receipt", "error", "canceled"}]

\* Ending a call, whatever its result, keeps the types.
LEMMA ResolveType ==
  ASSUME TypeOK, NEW r \in {"receipt", "error", "canceled"}, Resolve(r)
  PROVE  pc' = "idle" /\ Ended'
  <1>1. resending' = FALSE
    BY DEF Resolve
  <1>2. resending' \in BOOLEAN
    BY <1>1
  <1> QED
    BY <1>2, ProducerAssumption DEF TypeOK, Resolve, Outcome, Ended

\* So does an error of the loop of from_connection and reconnect.
LEMMA FailsType ==
  ASSUME TypeOK, Control, Fails, first' = first, pc \in {"lookup", "create"}
  PROVE  pc' \in {"failed", "idle"} /\ Ended'
  <1>1. CASE first /\ pc' = "failed" /\ UNCHANGED <<out, resending, retries, result, answer>>
    BY <1>1 DEF TypeOK, Ended
  <1>2. CASE Resolve("error")
    BY <1>2, ResolveType
  <1> QED
    BY <1>1, <1>2 DEF Fails

\* The calls of the application keep the types.
LEMMA ApplicationType ==
  ASSUME TypeOK, Control, Application, UNCHANGED batch_size
  PROVE  TypeOK'
  <1>1. CASE send_raw
    <2>1. next' \in Messages /\ next' \in 0..MaxMessages
      BY <1>1, NextMessage DEF send_raw, TypeOK
    <2>2. result' \in [Messages -> {"none", "pending", "receipt", "error", "canceled"}]
      BY <1>1, <2>1 DEF send_raw, Sent, TypeOK
    <2>3. Append(batch, next') \in Seq(Messages) /\ <<next'>> \in Seq(Messages)
          /\ Append(batch, next') # <<>> /\ <<next'>> # <<>> /\ <<>> \in Seq(Messages)
      <3>1. batch \in Seq(Messages)
        BY DEF TypeOK
      <3> QED
        BY <2>1, <3>1, SeqTypes
    <2>4. batch' \in Seq(Messages) /\ out' \in Seq(Messages)
      BY <1>1, <2>3 DEF send_raw, get_messages, Emptied, TypeOK
    <2>5. ~first /\ ~first' /\ first' \in BOOLEAN /\ resending' \in BOOLEAN
      BY <1>1 DEF send_raw, Control, Idle, TypeOK
    <2>6. out' # <<>> <=> pc' \in {"send", "await", "lookup", "create"}
      BY <1>1, <2>3 DEF send_raw, get_messages, Emptied, Idle, TypeOK
    <2>7. pc' \in {"idle", "send"}
      BY <1>1 DEF send_raw, Idle
    <2> QED
      BY <1>1, <2>1, <2>2, <2>4, <2>5, <2>6, <2>7 DEF send_raw, TypeOK
  <1>2. CASE send_batch
    <2>1. ~first /\ ~first' /\ first' \in BOOLEAN /\ resending' \in BOOLEAN
      BY <1>2 DEF send_batch, Control, Idle, TypeOK
    <2>2. batch' \in Seq(Messages) /\ out' \in Seq(Messages)
      <3>1. batch \in Seq(Messages) /\ out \in Seq(Messages) /\ <<>> \in Seq(Messages)
        BY DEF TypeOK
      <3> QED
        BY <1>2, <3>1 DEF send_batch, get_messages, Emptied
    <2>3. out' # <<>> <=> pc' \in {"send", "await", "lookup", "create"}
      BY <1>2 DEF send_batch, get_messages, Emptied, Idle, TypeOK
    <2>4. pc' \in {"idle", "send"} /\ flushes' \in 0..MaxFlushes
      BY <1>2, ProducerAssumption DEF send_batch, Idle, TypeOK
    <2> QED
      BY <1>2, <2>1, <2>2, <2>3, <2>4 DEF send_batch, TypeOK
  <1>3. CASE DropProducer
    BY <1>3 DEF DropProducer, Idle, TypeOK
  <1>4. CASE Cancel
    <2>1. pc' = "idle" /\ Ended'
      BY <1>4, ResolveType DEF Cancel
    <2>2. registered' \subseteq Conns /\ orphaned' \subseteq Conns
      BY <1>4 DEF Cancel, Orphans, TypeOK
    <2> QED
      BY <1>4, <2>1, <2>2 DEF Cancel, TypeOK, Ended
  <1> QED
    BY <1>1, <1>2, <1>3, <1>4 DEF Application

\* send_inner keeps the types.
LEMMA SendType ==
  ASSUME TypeOK, Control, Send \/ Answered \/ Unanswered, UNCHANGED batch_size
  PROVE  TypeOK'
  <1>1. CASE Send
    <2>1. [messages |-> out, sequence_id |-> message_id] \in Frames
      BY DEF TypeOK, Frames
    <2>2. wire' \in [Conns -> Seq(Frames)]
      BY <1>1, <2>1 DEF Send, TypeOK
    <2> QED
      BY <1>1, <2>2 DEF Send, TypeOK
  <1>2. CASE Answered
    <2>1. answer \in {"receipt", "error"}
      BY <1>2 DEF Answered, TypeOK
    <2>2. pc' = "idle" /\ Ended'
      BY <1>2, <2>1, ResolveType DEF Answered
    <2> QED
      BY <1>2, <2>2 DEF Answered, TypeOK, Ended
  <1>3. CASE Unanswered
    <2>1. CASE pc' = "lookup" /\ UNCHANGED <<resending, out, retries, result, answer>>
      BY <1>3, <2>1 DEF Unanswered, TypeOK
    <2>2. CASE Resolve("error")
      <3>1. pc' = "idle" /\ Ended'
        BY <2>2, ResolveType
      <3> QED
        BY <1>3, <3>1 DEF Unanswered, TypeOK, Ended
    <2> QED
      BY <1>3, <2>1, <2>2 DEF Unanswered
  <1> QED
    BY <1>1, <1>2, <1>3

\* The new task and the new drop signal have their types.
LEMMA NewTaskType ==
  ASSUME TypeOK, connection' = connection, NewTask
  PROVE  /\ signal' \in Creations
         /\ home' \in [Creations -> Conns \cup {None}]
         /\ task' \in [Creations -> {"none", "armed", "closing", "closed"}]
  BY DEF NewTask, OldSignal, TypeOK

\* The loop of from_connection and reconnect keeps the types.
LEMMA LoopType ==
  ASSUME TypeOK, Control, UNCHANGED batch_size,
         \/ Lookup \/ NotReady \/ Refused
         \/ Created \/ Access \/ Reconnected
  PROVE  TypeOK'
  <1>1. CASE Lookup
    <2>1. CASE Fails /\ UNCHANGED <<connection, conns>>
      <3>1. pc' \in {"failed", "idle"} /\ Ended'
        BY <1>1, <2>1, FailsType DEF Lookup
      <3> QED
        BY <1>1, <2>1, <3>1 DEF Lookup, TypeOK, Ended
    <2>2. CASE pc' = "create" /\ UNCHANGED <<resending, out, retries, result, answer>>
      <3>1. /\ connection' \in Conns /\ pool' \subseteq Conns
            /\ conn' \in [Conns -> {"none", "open", "silent", "broken"}]
        BY <1>1, <2>2 DEF Lookup, TypeOK, Fails, Resolve
      <3> QED
        BY <1>1, <2>2, <3>1 DEF Lookup, TypeOK
    <2> QED
      BY <1>1, <2>1, <2>2 DEF Lookup
  <1>2. CASE NotReady
    <2>1. CASE RetriesLeft /\ retries' = retries + 1 /\ pc' = "lookup"
               /\ UNCHANGED <<resending, out, result, answer>>
      BY <1>2, <2>1, ProducerAssumption DEF NotReady, RetriesLeft, TypeOK
    <2>2. CASE Fails
      <3>1. pc' \in {"failed", "idle"} /\ Ended'
        BY <1>2, <2>2, FailsType DEF NotReady
      <3> QED
        BY <1>2, <3>1 DEF NotReady, TypeOK, Ended
    <2> QED
      BY <1>2, <2>1, <2>2 DEF NotReady
  <1>3. CASE Refused
    <2>1. pc' \in {"failed", "idle"} /\ Ended'
      BY <1>3, FailsType DEF Refused
    <2>2. registered' \subseteq Conns /\ orphaned' \subseteq Conns
      BY <1>3 DEF Refused, Orphans, TypeOK
    <2> QED
      BY <1>3, <2>1, <2>2 DEF Refused, TypeOK, Ended
  <1>4. CASE Created
    <2>0. retries' \in 0..max_retries
      BY <1>4, ProducerAssumption DEF Created
    <2>1. /\ registered' \subseteq Conns /\ orphaned' \subseteq Conns
          /\ ready' \in BOOLEAN
      BY <1>4 DEF Created, Registers, TypeOK
    <2>2. /\ signal' \in Creations \cup {None}
          /\ home' \in [Creations -> Conns \cup {None}]
          /\ task' \in [Creations -> {"none", "armed", "closing", "closed"}]
      BY <1>4, NewTaskType DEF Created, TypeOK
    <2>3. out = <<>> /\ out' = out
      BY <1>4 DEF Created, TypeOK
    <2>4. first' \in BOOLEAN
      BY <1>4 DEF Created, TypeOK
    <2>5. (pc' = "idle") \/ (pc' = "access")
      BY <1>4 DEF Created
    <2> QED
      BY <1>4, <2>0, <2>1, <2>2, <2>3, <2>4, <2>5 DEF Created, TypeOK
  <1>5. CASE Access
    <2>1. ready' \in BOOLEAN /\ first' \in BOOLEAN /\ registered' \subseteq Conns
      BY <1>5 DEF Access, AccessGranted, AccessRefused, AccessFails, TypeOK
    <2>2. /\ signal' \in Creations
          /\ home' \in [Creations -> Conns \cup {None}]
          /\ task' \in [Creations -> {"none", "armed", "closing", "closed"}]
      BY <1>5, NewTaskType DEF Access, AccessGranted, AccessRefused, AccessFails
    <2>3. out = <<>> /\ out' = out
      BY <1>5 DEF Access, AccessGranted, AccessRefused, AccessFails, TypeOK
    <2> QED
      BY <1>5, <2>1, <2>2, <2>3
      DEF Access, AccessGranted, AccessRefused, AccessFails, TypeOK
  <1>6. CASE Reconnected
    <2>0. retries' \in 0..max_retries
      BY <1>6, ProducerAssumption DEF Reconnected
    <2>1. ready' \in BOOLEAN /\ resending' \in BOOLEAN
      BY <1>6 DEF Reconnected, Registers, TypeOK
    <2>2. /\ signal' \in Creations
          /\ home' \in [Creations -> Conns \cup {None}]
          /\ task' \in [Creations -> {"none", "armed", "closing", "closed"}]
      BY <1>6, NewTaskType DEF Reconnected
    <2>3. registered' \subseteq Conns /\ orphaned' \subseteq Conns
      BY <1>6 DEF Reconnected, Registers, TypeOK
    <2> QED
      BY <1>6, <2>0, <2>1, <2>2, <2>3 DEF Reconnected, TypeOK
  <1> QED
    BY <1>1, <1>2, <1>3, <1>4, <1>5, <1>6

\* Frames that arrive are well typed, and so is the log they add to.
LEMMA BrokerReadsType ==
  ASSUME TypeOK, NEW k \in Conns, BrokerReads(k)
  PROVE  /\ wire[k] \in Seq(Frames) /\ Head(wire[k]) \in Frames
         /\ wire' \in [Conns -> Seq(Frames)]
         /\ log' \in Seq(Messages)
  <1>1. wire[k] \in Seq(Frames) /\ wire[k] # <<>>
    BY DEF BrokerReads, TypeOK
  <1>2. Head(wire[k]) \in Frames /\ Tail(wire[k]) \in Seq(Frames)
    BY <1>1, RangeTail
  <1>3. wire' \in [Conns -> Seq(Frames)]
    BY <1>2 DEF BrokerReads, TypeOK
  <1>4. log \o Head(wire[k]).messages \in Seq(Messages) /\ log \in Seq(Messages)
    BY <1>2 DEF TypeOK, Frames
  <1>5. log' \in Seq(Messages)
    BY <1>4 DEF BrokerReads
  <1> QED
    BY <1>1, <1>2, <1>3, <1>5

\* The broker, the connections and the closing tasks keep the types.
LEMMA OutsideType ==
  ASSUME TypeOK, UNCHANGED batch_size,
         \/ \E k \in Conns : \/ BrokerReads(k) \/ BrokerCloses(k)
                             \/ Breaks(k) \/ HeartbeatFails(k)
         \/ \E g \in Creations : CloseTask(g)
  PROVE  TypeOK'
  <1>1. ASSUME NEW k \in Conns, BrokerReads(k)
        PROVE  TypeOK'
    <2>1. wire' \in [Conns -> Seq(Frames)] /\ log' \in Seq(Messages)
      BY <1>1, BrokerReadsType
    <2>2. answer' \in {"none", "receipt", "error"}
      BY <1>1 DEF BrokerReads, TypeOK
    <2> QED
      BY <1>1, <2>1, <2>2 DEF BrokerReads, TypeOK
  <1>2. ASSUME NEW k \in Conns, BrokerCloses(k)
        PROVE  TypeOK'
    BY <1>2, ProducerAssumption DEF BrokerCloses, Forget, TypeOK
  <1>3. ASSUME NEW k \in Conns, Breaks(k) \/ HeartbeatFails(k)
        PROVE  TypeOK'
    <2>1. Gone(k)
      BY <1>3 DEF Breaks, HeartbeatFails
    <2>2. wire \in [Conns -> Seq(Frames)] /\ <<>> \in Seq(Frames)
      BY DEF TypeOK
    <2>3. wire' \in [Conns -> Seq(Frames)]
      BY <2>1, <2>2 DEF Gone
    <2>4. conn' \in [Conns -> {"none", "open", "silent", "broken"}]
          /\ pool' \subseteq Conns /\ registered' \subseteq Conns
          /\ orphaned' \subseteq Conns
      BY <1>3, <2>1 DEF Breaks, HeartbeatFails, Gone, Forget, TypeOK
    <2>5. UNCHANGED <<producer, app, tasks, ready, answer, log, closes>>
      BY <1>3 DEF Breaks, HeartbeatFails
    <2> QED
      BY <2>3, <2>4, <2>5 DEF TypeOK
  <1>4. ASSUME NEW g \in Creations, CloseTask(g)
        PROVE  TypeOK'
    <2>1. registered' \subseteq Conns /\ orphaned' \subseteq Conns
      BY <1>4 DEF CloseTask, Forget, TypeOK
    <2> QED
      BY <1>4, <2>1 DEF CloseTask, TypeOK
  <1> QED
    BY <1>1, <1>2, <1>3, <1>4

\* Every step keeps the types.
LEMMA TypeStep == TypeOK /\ Control /\ [Next]_vars => TypeOK'
  <1> SUFFICES ASSUME TypeOK, Control, [Next]_vars PROVE TypeOK'
    OBVIOUS
  <1>1. CASE UNCHANGED vars
    BY ZenonT(60), <1>1 DEF vars, TypeOK
  <1> QED
    BY <1>1, ApplicationType, SendType, LoopType, OutsideType
    DEF Next, Call, Broker

-----------------------------------------------------------------------------
(* What a call has in hand, and the futures that wait for it *)

\* A creation has a number.
LEMMA CreationsNumbered == None \notin Creations
  BY ProducerAssumption DEF Creations, None

\* The steps of the producer itself keep Control.
LEMMA ControlCalls ==
  ASSUME TypeOK, Control, UNCHANGED batch_size, Call \/ Access \/ Application
  PROVE  Control'
  <1>1. CASE send_raw
    <2>1. batch_size = NoBatch => batch' = <<>>
      BY <1>1 DEF send_raw, Control
    <2>2. out' # <<>> => batch' = <<>>
      BY <1>1 DEF send_raw, Emptied, Control, Idle, TypeOK
    <2>3. pc' \in {"idle", "send"} /\ signal' = signal /\ first' = first
      BY <1>1 DEF send_raw, Idle
    <2>4. ~first
      BY <1>1 DEF send_raw, Idle, Control
    <2> QED
      BY <2>1, <2>2, <2>3, <2>4 DEF Control
  <1>2. CASE send_batch
    BY <1>2 DEF send_batch, Emptied, Control, Idle, TypeOK
  <1>3. CASE DropProducer \/ Cancel
    BY <1>3 DEF DropProducer, Cancel, Resolve, Control, Idle, TypeOK
  <1>4. CASE Send \/ Answered \/ Unanswered
    BY <1>4 DEF Send, Answered, Unanswered, Resolve, Control, TypeOK
  <1>5. CASE Lookup \/ NotReady \/ Refused
    <2>1. /\ first' = first /\ signal' = signal /\ batch' = batch
          /\ \/ Fails
             \/ pc' \in {"lookup", "create"} /\ out' = out
      BY <1>5 DEF Lookup, NotReady, Refused
    <2>2. CASE Fails
      BY <1>5, <2>1, <2>2 DEF Fails, Resolve, Control, TypeOK
    <2>3. CASE pc' \in {"lookup", "create"} /\ out' = out
      BY <2>1, <2>3 DEF Control
    <2> QED
      BY <2>1, <2>2, <2>3
  <1>6. CASE Created \/ Access
    <2>1. batch' = batch /\ out' = out /\ out = <<>>
      BY <1>6 DEF Created, Access, AccessGranted, AccessRefused, AccessFails, TypeOK
    <2>2. CASE pc' = "idle" /\ first' = FALSE /\ NewTask
      <3>1. signal' # None
        BY <1>6, <2>2, NewTaskType, CreationsNumbered
        DEF Created, Access, AccessGranted, AccessRefused, AccessFails
      <3> QED
        BY <2>1, <2>2, <3>1 DEF Control
    <2>3. CASE pc' = "access" /\ pc = "create" /\ first /\ UNCHANGED <<first, signal>>
      BY <2>1, <2>3 DEF Control
    <2> QED
      BY <1>6, <2>2, <2>3 DEF Created, Access, AccessGranted, AccessRefused, AccessFails
  <1>7. CASE Reconnected
    <2>1. signal' # None
      BY <1>7, NewTaskType, CreationsNumbered DEF Reconnected
    <2> QED
      BY <1>7, <2>1 DEF Reconnected, Control
  <1> QED
    BY <1>1, <1>2, <1>3, <1>4, <1>5, <1>6, <1>7 DEF Call, Application

\* Every step keeps Control.
LEMMA ControlStep == TypeOK /\ Control /\ [Next]_vars => Control'
  <1> SUFFICES ASSUME TypeOK, Control, [Next]_vars PROVE Control'
    OBVIOUS
  <1>1. CASE UNCHANGED <<batch_size, producer>>
    BY <1>1 DEF Control
  <1>2. CASE (Call \/ Access \/ Application) /\ UNCHANGED batch_size
    BY <1>2, ControlCalls
  <1> QED
    BY <1>1, <1>2
    DEF Next, Broker, vars, BrokerReads, BrokerCloses, Breaks, HeartbeatFails, CloseTask

\* No step forgets a message whose future is unresolved.
LEMMA PendingStep ==
  TypeOK /\ Control /\ PendingHeld /\ [Next]_vars => PendingHeld'
  <1> SUFFICES ASSUME TypeOK, Control, PendingHeld, [Next]_vars,
                      NEW m \in Messages, result'[m] = "pending"
               PROVE  m \in Range(batch') \cup Range(out')
    BY DEF PendingHeld
  <1>0. result[m] = "pending" => m \in Range(batch) \cup Range(out)
    BY DEF PendingHeld
  <1>1. CASE UNCHANGED <<batch, out, result>>
    BY <1>0, <1>1
  <1>2. CASE send_raw
    <2>1. m # next' => result[m] = "pending"
      BY <1>2 DEF send_raw, Sent, TypeOK
    <2>2. next' \in Messages /\ batch \in Seq(Messages) /\ out = <<>>
      BY <1>2, NextMessage DEF send_raw, Idle, TypeOK
    <2>3. Range(Append(batch, next')) = Range(batch) \cup {next'}
          /\ Range(<<next'>>) = {next'} /\ Range(out) = {}
      <3>1. Range(Append(batch, next')) = Range(batch) \cup {next'}
        BY <2>2, RangeAppend
      <3> QED
        BY <2>2, <3>1, RangeEmpty, RangeOne
    <2>4. batch_size = NoBatch => Range(batch) = {}
      BY RangeEmpty DEF Control
    <2> QED
      BY <1>0, <1>2, <2>1, <2>3, <2>4 DEF send_raw, get_messages
  <1>3. CASE send_batch
    <2>1. out = <<>> /\ Range(out) = {}
      BY <1>3, RangeEmpty DEF send_batch, Idle, TypeOK
    <2> QED
      BY <1>0, <1>3, <2>1 DEF send_batch, get_messages
  <1>4. CASE DropProducer
    <2>1. out = <<>> /\ Range(out) = {}
      BY <1>4, RangeEmpty DEF DropProducer, Idle, TypeOK
    <2> QED
      BY <1>0, <1>4, <2>1 DEF DropProducer
  <1>5. CASE Cancel
    BY <1>0, <1>5 DEF Cancel, Resolve, Outcome
  <1>6. CASE batch' = batch /\ \E r \in {"receipt", "error"} : Resolve(r)
    BY <1>0, <1>6 DEF Resolve, Outcome
  <1>7. CASE Reconnected
    <2>1. batch = <<>>
      BY <1>7 DEF Reconnected, Control, TypeOK
    <2> QED
      BY <1>0, <1>7, <2>1 DEF Reconnected
  <1>8. CASE Answered
    <2>1. answer \in {"receipt", "error"} /\ Resolve(answer) /\ batch' = batch
      BY <1>8 DEF Answered, TypeOK
    <2> QED
      BY <1>6, <2>1
  <1>9. CASE Unanswered \/ Lookup \/ NotReady \/ Refused
    <2>1. batch' = batch /\ (Resolve("error") \/ UNCHANGED <<out, result>>)
      BY <1>9 DEF Unanswered, Lookup, NotReady, Refused, Fails
    <2> QED
      BY <1>1, <1>6, <2>1
  <1> QED
    BY <1>1, <1>2, <1>3, <1>4, <1>5, <1>7, <1>8, <1>9
    DEF Next, Call, Access, Application, Broker, vars, Send, Created, AccessGranted,
        AccessRefused, AccessFails, BrokerReads, BrokerCloses, Breaks, HeartbeatFails, CloseTask

-----------------------------------------------------------------------------
(* The order of publication *)

\* A producer starts with nothing published and nothing on its way.
LEMMA InitPublished == Init => Published
  <1> SUFFICES ASSUME Init PROVE Published
    OBVIOUS
  <1>1. Newest(batch) /\ Newest(out)
    BY DEF Init, Newest
  <1>2. Handed(log) /\ \A k \in Conns : Range(wire[k]) = {}
    BY RangeEmpty DEF Init, Handed
  <1>3. Ordered
    BY DEF Init, Ordered
  <1>4. pc # "await" /\ \A m \in Messages : result[m] # "receipt"
    BY DEF Init
  <1> QED
    BY <1>1, <1>2, <1>3, <1>4 DEF Published

\* Steps that only lose frames, or leave the wait for an answer
LEMMA QuietPublished ==
  ASSUME Published,
         UNCHANGED <<batch, out, log, message_id, result, next>>,
         pc' # "await" \/ UNCHANGED <<pc, answer>>,
         \A k \in Conns : Range(wire'[k]) \subseteq Range(wire[k])
  PROVE  Published'
  <1>1. Newest(batch)' /\ Newest(out)' /\ Handed(log)' /\ Ordered'
    BY DEF Published, Newest, Handed, Ordered, Precedes
  <1>2. ASSUME NEW k \in Conns, NEW f \in Range(wire'[k]) PROVE FrameOK(f)'
    <2>1. FrameOK(f)
      BY <1>2 DEF Published
    <2> QED
      BY <2>1 DEF FrameOK, Handed
  <1>3. pc' = "await" /\ answer' = "receipt" => Range(out') \subseteq Range(log')
    BY DEF Published
  <1>4. \A m \in Messages : result'[m] = "receipt" => m \in Range(log')
    BY DEF Published
  <1> QED
    BY <1>1, <1>2, <1>3, <1>4 DEF Published

\* What was handed over after a message that is being sent is sent with it.
LEMMA NewestTogether ==
  ASSUME TypeOK, Newest(out), NEW m \in Range(out), NEW n \in Messages,
         m < n, n <= next
  PROVE  n \in Range(out)
  <1>1. PICK i \in 1..Len(out) : out[i] = m
    BY RangeType DEF TypeOK
  <1>2. Len(out) \in Nat /\ next \in Nat /\ m = next - Len(out) + i
    BY <1>1 DEF Newest, TypeOK
  <1>3. n \in Int /\ i + (n - m) \in 1..Len(out)
    BY <1>2 DEF Messages
  <1>4. out[i + (n - m)] = n
    BY <1>2, <1>3 DEF Newest
  <1> QED
    BY <1>3, <1>4, RangeType DEF TypeOK

\* A call ends: it gives a receipt only for what is in the log.
LEMMA EndPublished ==
  ASSUME TypeOK, Published,
         UNCHANGED <<log, wire, message_id, next>>,
         pc' # "await", out' = <<>>, batch' \in {batch, <<>>},
         \A m \in Messages : result'[m] = "receipt" =>
           \/ result[m] = "receipt"
           \/ m \in Range(out) /\ Range(out) \subseteq Range(log)
  PROVE  Published'
  <1>0. Range(<<>>) = {} /\ Range(batch') \subseteq Range(batch)
    BY RangeEmpty
  <1>1. Newest(batch)' /\ Newest(out)' /\ Handed(log)'
    BY <1>0 DEF Published, Newest, Handed
  <1>2. ASSUME NEW k \in Conns, NEW f \in Range(wire'[k]) PROVE FrameOK(f)'
    <2>1. FrameOK(f)
      BY <1>2 DEF Published
    <2> QED
      BY <1>0, <2>1 DEF FrameOK, Handed
  <1>3. \A m \in Messages : result'[m] = "receipt" => m \in Range(log')
    BY DEF Published
  <1>4. Ordered'
    <2> SUFFICES ASSUME NEW j \in 1..Len(log), NEW m \in Messages,
                        m < log[j], result'[m] = "receipt"
                 PROVE  \E i \in 1..(j - 1) : log[i] = m
      BY <1>0 DEF Ordered, Precedes
    <2>1. CASE result[m] = "receipt"
      BY <2>1 DEF Published, Ordered, Precedes
    <2>2. CASE m \in Range(out)
      <3>1. log[j] \in Messages /\ log[j] \in Range(log)
        BY RangeType DEF TypeOK
      <3>2. log[j] <= next
        BY <3>1 DEF Published, Handed
      <3>3. log[j] \in Range(out)
        BY <2>2, <3>1, <3>2, NewestTogether DEF Published
      <3> QED
        BY <2>2, <3>3 DEF Published, Ordered, Precedes
    <2> QED
      BY <2>1, <2>2
  <1> QED
    BY <1>1, <1>2, <1>3, <1>4 DEF Published

\* A call begins: what it sends, or leaves in the batch, is neither published
\* nor on its way.
LEMMA StartPublished ==
  ASSUME TypeOK, Published,
         UNCHANGED <<log, wire, message_id>>,
         pc' # "await", next' \in Nat, next <= next',
         Newest(batch)', Newest(out)',
         \A m \in Range(batch') \cup Range(out') : m \in Range(batch) \/ m > next,
         \A m \in Messages : result'[m] = "receipt" => result[m] = "receipt"
  PROVE  Published'
  <1>1. ASSUME NEW q \in Seq(Messages), Handed(q)
        PROVE  Handed(q)' /\ Range(q) \cap Range(out') = {}
    <2>1. \A m \in Range(q) : m \in Int /\ m <= next /\ m \notin Range(batch)
      <3>1. Range(q) \subseteq Messages
        BY <1>1, RangeType
      <3>2. \A m \in Messages : m \in Int
        BY DEF Messages
      <3> QED
        BY <1>1, <3>1, <3>2 DEF Handed
    <2>2. next \in Int
      BY DEF TypeOK
    <2> QED
      BY <2>1, <2>2 DEF Handed
  <1>2. log \in Seq(Messages) /\ Handed(log)
    BY DEF TypeOK, Published
  <1>3. ASSUME NEW k \in Conns, NEW f \in Range(wire'[k]) PROVE FrameOK(f)'
    <2>1. FrameOK(f) /\ f \in Frames
      BY <1>3, RangeType DEF Published, TypeOK
    <2>2. Handed(f.messages)' /\ Range(f.messages) \cap Range(out') = {}
      BY <1>1, <2>1 DEF FrameOK, Frames
    <2> QED
      BY <2>1, <2>2 DEF FrameOK
  <1>4. Ordered'
    <2> SUFFICES ASSUME NEW j \in 1..Len(log), NEW m \in Messages, Precedes(m, log[j])'
                 PROVE  \E i \in 1..(j - 1) : log[i] = m
      BY DEF Ordered
    <2>1. log[j] \in Range(log)
      BY RangeType DEF TypeOK
    <2>2. Precedes(m, log[j])
      BY <1>1, <1>2, <2>1 DEF Precedes
    <2> QED
      BY <2>2 DEF Published, Ordered
  <1>5. Handed(log)'
    BY <1>1, <1>2
  <1>6. \A m \in Messages : result'[m] = "receipt" => m \in Range(log')
    BY DEF Published
  <1> QED
    BY <1>3, <1>4, <1>5, <1>6 DEF Published

\* The calls of the application keep the order.
LEMMA ApplicationPublished ==
  ASSUME TypeOK, Control, Published, Application, UNCHANGED batch_size
  PROVE  Published'
  <1>1. CASE send_raw
    <2>1. /\ out = <<>> /\ batch \in Seq(Messages) /\ Newest(batch)
          /\ next \in Nat /\ next' = next + 1 /\ next' \in Messages
      BY <1>1, NextMessage DEF send_raw, Idle, TypeOK, Published
    <2>2. Len(batch) \in Nat /\ Len(Append(batch, next')) = Len(batch) + 1
          /\ \A i \in 1..Len(batch) : Append(batch, next')[i] = batch[i]
          /\ Append(batch, next')[Len(batch) + 1] = next'
      BY <2>1
    <2>3. \A i \in 1..(Len(batch) + 1) :
            Append(batch, next')[i] = next' - (Len(batch) + 1) + i
      BY <2>1, <2>2 DEF Newest
    <2>4. Range(Append(batch, next')) = Range(batch) \cup {next'}
          /\ Range(<<next'>>) = {next'} /\ Range(<<>>) = {}
      <3>1. Range(Append(batch, next')) = Range(batch) \cup {next'}
        BY <2>1, RangeAppend
      <3> QED
        BY <3>1, RangeEmpty, RangeOne
    <2>5. Len(<<next'>>) = 1 /\ <<next'>>[1] = next' /\ Len(<<>>) = 0
      OBVIOUS
    <2>6. \/ out' = <<next'>> /\ batch' = <<>>
          \/ batch' = Append(batch, next') /\ out' = <<>>
          \/ out' = Append(batch, next') /\ batch' = <<>>
      BY <1>1, <2>1 DEF send_raw, get_messages, Emptied, Control
    <2>7. Newest(batch)' /\ Newest(out)'
      <3>1. \A q : q = <<>> => \A i \in 1..Len(q) : q[i] = next' - Len(q) + i
        BY <2>5
      <3>2. \A i \in 1..Len(<<next'>>) : <<next'>>[i] = next' - Len(<<next'>>) + i
        BY <2>1, <2>5
      <3>3. \A i \in 1..Len(Append(batch, next')) :
              Append(batch, next')[i] = next' - Len(Append(batch, next')) + i
        BY <2>2, <2>3
      <3> QED
        BY <2>6, <3>1, <3>2, <3>3 DEF Newest
    <2>8. \A m \in Range(batch') \cup Range(out') : m \in Range(batch) \/ m > next
      <3>1. next' > next
        BY <2>1
      <3> QED
        BY <2>4, <2>6, <3>1
    <2>9. \A m \in Messages : result'[m] = "receipt" => result[m] = "receipt"
      BY <1>1, <2>1 DEF send_raw, Sent, TypeOK
    <2> QED
      BY <1>1, <2>1, <2>7, <2>8, <2>9, StartPublished DEF send_raw, Idle
  <1>2. CASE send_batch
    <2>1. out = <<>> /\ Range(out) = {} /\ next \in Nat /\ Newest(batch)
      BY <1>2, RangeEmpty DEF send_batch, Idle, TypeOK, Published
    <2>2. \/ UNCHANGED <<out, batch>>
          \/ out' = batch /\ batch' = <<>>
      BY <1>2 DEF send_batch, get_messages, Emptied
    <2>3. Newest(batch)' /\ Newest(out)'
      BY <1>2, <2>1, <2>2 DEF send_batch, Newest
    <2>4. \A m \in Range(batch') \cup Range(out') : m \in Range(batch)
      BY <2>1, <2>2, RangeEmpty
    <2> QED
      BY <1>2, <2>1, <2>3, <2>4, StartPublished DEF send_batch, Idle
  <1>3. CASE DropProducer
    <2>1. out = <<>> /\ \A m \in Messages : result'[m] = "receipt" => result[m] = "receipt"
      BY <1>3 DEF DropProducer, Idle, TypeOK
    <2> QED
      BY <1>3, <2>1, EndPublished DEF DropProducer
  <1>4. CASE Cancel
    <2>1. \A m \in Messages : result'[m] = "receipt" => result[m] = "receipt"
      BY <1>4 DEF Cancel, Resolve, Outcome
    <2> QED
      BY <1>4, <2>1, EndPublished DEF Cancel, Resolve
  <1> QED
    BY <1>1, <1>2, <1>3, <1>4 DEF Application

\* A frame that is sent is a copy of what is being sent, with a new number.
LEMMA SendPublished ==
  ASSUME TypeOK, Control, Published, Send
  PROVE  Published'
  <1>0. PICK new : new = [messages |-> out, sequence_id |-> message_id]
    OBVIOUS
  <1>1. /\ pc' = "await" /\ answer' = "none" /\ message_id' = message_id + 1
        /\ UNCHANGED <<batch, out, log, result, next>>
        /\ message_id \in Nat
    BY DEF Send, TypeOK
  <1>2. Newest(batch)' /\ Newest(out)' /\ Handed(log)' /\ Ordered'
    BY <1>1 DEF Published, Newest, Handed, Ordered, Precedes
  <1>3. ASSUME NEW f \in Frames, FrameOK(f) PROVE FrameOK(f)'
    <2>1. f.sequence_id \in Nat /\ f.sequence_id < message_id
      BY <1>3 DEF FrameOK, Frames
    <2> QED
      BY <1>1, <1>3, <2>1 DEF FrameOK, Handed
  <1>4. FrameOK(new)'
    <2>1. batch = <<>> /\ Range(batch) = {}
      BY RangeEmpty DEF Send, Control, TypeOK
    <2>2. \A m \in Range(out) : m <= next
      <3> SUFFICES ASSUME NEW i \in 1..Len(out) PROVE out[i] <= next
        BY RangeType DEF TypeOK
      <3>1. out[i] = next - Len(out) + i /\ Len(out) \in Nat /\ next \in Nat
        BY DEF Published, Newest, TypeOK
      <3> QED
        BY <3>1
    <2>3. Handed(out)'
      BY <1>1, <2>1, <2>2 DEF Handed
    <2> QED
      BY <1>0, <1>1, <2>3 DEF FrameOK
  <1>5. ASSUME NEW k \in Conns, NEW f \in Range(wire'[k])
        PROVE  f = new \/ (f \in Range(wire[k]) /\ f \in Frames)
    <2>1. wire[k] \in Seq(Frames) /\ new \in Frames
      BY <1>0 DEF TypeOK, Frames
    <2>2. wire'[k] = wire[k] \/ wire'[k] = Append(wire[k], new)
      BY <1>0 DEF Send, TypeOK
    <2>3. Range(Append(wire[k], new)) = Range(wire[k]) \cup {new}
          /\ Range(wire[k]) \subseteq Frames
      BY <2>1, RangeAppend, RangeType
    <2>4. CASE wire'[k] = wire[k]
      BY <2>3, <2>4
    <2>5. CASE wire'[k] = Append(wire[k], new)
      <3>1. Range(wire'[k]) = Range(Append(wire[k], new))
        BY <2>5
      <3>2. f \in Range(Append(wire[k], new))
        BY <1>5, <3>1
      <3> QED
        BY <2>3, <3>2
    <2> QED
      BY <2>2, <2>4, <2>5
  <1>6. ASSUME NEW k \in Conns, NEW f \in Range(wire'[k]) PROVE FrameOK(f)'
    <2>1. CASE f = new
      BY <1>4, <2>1
    <2>2. CASE f \in Range(wire[k]) /\ f \in Frames
      BY <1>3, <2>2 DEF Published
    <2> QED
      BY <1>5, <1>6, <2>1, <2>2
  <1>7. \A m \in Messages : result'[m] = "receipt" => m \in Range(log')
    BY <1>1 DEF Published
  <1> QED
    BY <1>1, <1>2, <1>6, <1>7 DEF Published

\* The other steps of a call keep the order.
LEMMA CallPublished ==
  ASSUME TypeOK, Control, Published, Call \/ Access, UNCHANGED batch_size
  PROVE  Published'
  <1>1. CASE Send
    BY <1>1, SendPublished
  <1>2. ASSUME NEW r \in {"receipt", "error"}, Resolve(r),
               UNCHANGED <<batch, log, wire, message_id, next>>,
               r = "receipt" => pc = "await" /\ answer = "receipt"
        PROVE  Published'
    <2>1. ASSUME NEW m \in Messages, result'[m] = "receipt"
          PROVE  \/ result[m] = "receipt"
                 \/ m \in Range(out) /\ Range(out) \subseteq Range(log)
      BY <1>2, <2>1 DEF Resolve, Outcome, Published
    <2>2. pc' # "await" /\ out' = <<>>
      BY <1>2 DEF Resolve
    <2> QED
      BY <1>2, <2>1, <2>2, EndPublished
  <1>3. CASE Answered
    <2>1. answer \in {"receipt", "error"} /\ pc = "await" /\ Resolve(answer)
          /\ UNCHANGED <<batch, log, wire, message_id, next>>
      BY <1>3 DEF Answered, TypeOK
    <2> QED
      BY <1>2, <2>1
  <1>4. CASE Unanswered \/ Lookup \/ NotReady \/ Refused
    <2>1. /\ UNCHANGED <<batch, log, wire, message_id, next>>
          /\ Resolve("error") \/ (pc' # "await" /\ UNCHANGED <<out, result>>)
      BY <1>4 DEF Unanswered, Lookup, NotReady, Refused, Fails
    <2> QED
      BY <1>2, <2>1, QuietPublished
  <1>5. CASE Created \/ Access \/ Reconnected
    <2>1. UNCHANGED <<out, log, wire, message_id, result, next>> /\ pc' # "await"
      BY <1>5 DEF Created, Access, AccessGranted, AccessRefused, AccessFails, Reconnected
    <2>2. batch' = batch
      BY <1>5 DEF Created, Access, AccessGranted, AccessRefused, AccessFails,
                  Reconnected, Control, TypeOK
    <2> QED
      BY <2>1, <2>2, QuietPublished
  <1> QED
    BY <1>1, <1>3, <1>4, <1>5 DEF Call

\* The broker reads a frame: what it publishes is a copy of what is being sent,
\* or has nothing of it.
LEMMA ReadPublished ==
  ASSUME TypeOK, Control, Published, NEW k \in Conns, BrokerReads(k)
  PROVE  Published'
  <1>0. PICK f : f = Head(wire[k])
    OBVIOUS
  <1>1. /\ f \in Frames /\ f \in Range(wire[k]) /\ FrameOK(f)
        /\ f.messages \in Seq(Messages) /\ log \in Seq(Messages)
    <2>1. wire[k] \in Seq(Frames) /\ wire[k] # <<>>
      BY DEF BrokerReads, TypeOK
    <2>2. Head(wire[k]) \in Range(wire[k]) /\ Head(wire[k]) \in Frames
      BY <2>1, RangeTail
    <2> QED
      BY <1>0, <2>2 DEF Published, TypeOK, Frames
  <1>2. UNCHANGED <<pc, batch, out, message_id, result, next>>
    BY DEF BrokerReads
  <1>3. \A c \in Conns : Range(wire'[c]) \subseteq Range(wire[c])
    <2> SUFFICES ASSUME NEW c \in Conns PROVE Range(wire'[c]) \subseteq Range(wire[c])
      OBVIOUS
    <2>1. CASE c = k
      <3>1. wire[k] \in Seq(Frames) /\ wire[k] # <<>> /\ wire'[k] = Tail(wire[k])
        BY DEF BrokerReads, TypeOK
      <3> QED
        BY <2>1, <3>1, RangeTail
    <2>2. CASE c # k
      BY <2>2 DEF BrokerReads, TypeOK
    <2> QED
      BY <2>1, <2>2
  <1>4. CASE log' = log /\ (answer' = answer \/ answer' = "error")
    <2>1. CASE answer' = answer
      BY <1>2, <1>3, <1>4, <2>1, QuietPublished
    <2>2. CASE answer' = "error"
      <3>1. Newest(batch)' /\ Newest(out)' /\ Handed(log)' /\ Ordered'
        BY <1>2, <1>4 DEF Published, Newest, Handed, Ordered, Precedes
      <3>2. ASSUME NEW c \in Conns, NEW g \in Range(wire'[c]) PROVE FrameOK(g)'
        <4>1. FrameOK(g)
          BY <1>3, <3>2 DEF Published
        <4> QED
          BY <1>2, <4>1 DEF FrameOK, Handed
      <3> QED
        BY <1>2, <1>4, <2>2, <3>1, <3>2 DEF Published
    <2> QED
      BY <1>4, <2>1, <2>2
  <1>5. CASE /\ log' = log \o f.messages
             /\ \/ answer' = answer
                \/ /\ pc = "await" /\ f.sequence_id = message_id - 1
                   /\ answer' = "receipt"
    <2>1. Range(log') = Range(log) \cup Range(f.messages)
      BY <1>1, <1>5, RangeConcat
    <2>2. Newest(batch)' /\ Newest(out)' /\ Handed(log)'
      BY <1>1, <1>2, <2>1 DEF Published, Newest, Handed, FrameOK
    <2>3. ASSUME NEW c \in Conns, NEW g \in Range(wire'[c]) PROVE FrameOK(g)'
      <3>1. FrameOK(g)
        BY <1>3, <2>3 DEF Published
      <3> QED
        BY <1>2, <3>1 DEF FrameOK, Handed
    <2>4. pc' = "await" /\ answer' = "receipt" => Range(out') \subseteq Range(log')
      BY <1>1, <1>2, <1>5, <2>1 DEF Published, FrameOK
    <2>5. \A m \in Messages : result'[m] = "receipt" => m \in Range(log')
      BY <1>2, <2>1 DEF Published
    <2>6. Ordered'
      <3> SUFFICES ASSUME NEW j \in 1..Len(log'), NEW m \in Messages,
                          Precedes(m, log'[j])
                   PROVE  \E i \in 1..(j - 1) : log'[i] = m
        BY <1>2 DEF Ordered, Precedes
      <3>1. /\ Len(log) \in Nat /\ Len(f.messages) \in Nat
            /\ Len(log') = Len(log) + Len(f.messages)
            /\ \A i \in 1..Len(log) : log'[i] = log[i]
            /\ \A i \in 1..Len(f.messages) : log'[Len(log) + i] = f.messages[i]
        BY <1>1, <1>5
      <3>2. CASE j <= Len(log)
        <4>1. j \in 1..Len(log) /\ log'[j] = log[j]
          BY <3>1, <3>2
        <4>2. PICK i \in 1..(j - 1) : log[i] = m
          BY <4>1 DEF Published, Ordered
        <4>3. i \in 1..Len(log)
          BY <3>1, <3>2
        <4> QED
          BY <3>1, <4>2, <4>3
      <3>3. CASE ~(j <= Len(log))
        <4>1. PICK p \in 1..Len(f.messages) : j = Len(log) + p
          <5>1. j - Len(log) \in 1..Len(f.messages) /\ j = Len(log) + (j - Len(log))
            BY <3>1, <3>3
          <5> QED
            BY <5>1
        <4>2. log'[j] = f.messages[p]
          BY <3>1, <4>1
        <4>3. CASE result[m] = "receipt"
          <5>1. PICK i \in 1..Len(log) : log[i] = m
            BY <4>3, <1>1, RangeType DEF Published
          <5>2. i \in 1..(j - 1)
            BY <3>1, <4>1
          <5> QED
            BY <3>1, <5>1, <5>2
        <4>4. CASE m \in Range(out) /\ f.messages[p] \in Range(out)
          <5>1. f.messages = out
            <6>1. f.messages[p] \in Range(f.messages)
              BY <1>1, RangeType
            <6> QED
              BY <1>1, <4>4, <6>1 DEF FrameOK
          <5>2. PICK q \in 1..Len(out) : out[q] = m
            <6>1. out \in Seq(Messages)
              BY DEF TypeOK
            <6> QED
              BY <4>4, <6>1, RangeType
          <5>3. /\ Len(out) \in Nat /\ next \in Nat
                /\ m = next - Len(out) + q /\ out[p] = next - Len(out) + p
            BY <4>1, <5>1, <5>2 DEF Published, Newest, TypeOK
          <5>4. q < p
            BY <4>2, <5>1, <5>3 DEF Precedes
          <5>5. Len(log) + q \in 1..(j - 1) /\ log'[Len(log) + q] = m
            BY <3>1, <4>1, <5>1, <5>2, <5>4
          <5> QED
            BY <5>5
        <4> QED
          BY <4>2, <4>3, <4>4 DEF Precedes
      <3> QED
        BY <3>2, <3>3
    <2> QED
      BY <2>2, <2>3, <2>4, <2>5, <2>6 DEF Published
  <1> QED
    BY <1>0, <1>4, <1>5 DEF BrokerReads

\* Every step keeps the order.
LEMMA PublishedStep ==
  TypeOK /\ Control /\ Published /\ [Next]_vars => Published'
  <1> SUFFICES ASSUME TypeOK, Control, Published, [Next]_vars PROVE Published'
    OBVIOUS
  <1>1. CASE (Call \/ Access \/ Application) /\ UNCHANGED batch_size
    BY <1>1, CallPublished, ApplicationPublished
  <1>2. ASSUME NEW k \in Conns, BrokerReads(k) PROVE Published'
    BY <1>2, ReadPublished
  <1>3. ASSUME NEW k \in Conns, Breaks(k) \/ HeartbeatFails(k) PROVE Published'
    <2>1. /\ UNCHANGED <<batch, out, log, message_id, result, next, pc, answer>>
          /\ wire' = [wire EXCEPT ![k] = <<>>]
      BY <1>3 DEF Breaks, HeartbeatFails, Gone
    <2>2. \A c \in Conns : Range(wire'[c]) \subseteq Range(wire[c])
      BY <2>1, RangeEmpty DEF TypeOK
    <2> QED
      BY <2>1, <2>2, QuietPublished
  <1>4. CASE \/ UNCHANGED vars
             \/ \E k \in Conns : BrokerCloses(k)
             \/ \E g \in Creations : CloseTask(g)
    <2>1. UNCHANGED <<batch, out, log, message_id, result, next, pc, answer, wire>>
      BY <1>4 DEF vars, BrokerCloses, CloseTask
    <2> QED
      BY <2>1, QuietPublished
  <1> QED
    BY <1>1, <1>2, <1>3, <1>4 DEF Next, Broker
-----------------------------------------------------------------------------
(* The broker knows the producer *)

\* A step that leaves the connections, the creations and their tasks alone, and
\* unregisters nothing.
LEMMA QuietRegistered ==
  ASSUME TypeOK, Registered,
         UNCHANGED <<connection, signal, conns, tasks, first, ready, closes>>,
         registered \subseteq registered',
         pc' = "access" => pc = "access", pc = "dropped" => pc' = "dropped"
  PROVE  Registered'
  BY DEF Registered, OnlyCreation

\* get_connection answers with a connection of the pool, or with a new one, which
\* no creation has used.
LEMMA LookupRegistered ==
  ASSUME TypeOK, Registered, Lookup
  PROVE  Registered'
  <1>1. CASE Fails /\ UNCHANGED <<connection, conns>>
    BY <1>1, QuietRegistered DEF Lookup, Fails, Resolve
  <1>2. CASE connection' \in pool /\ UNCHANGED conns /\ pc' = "create"
    BY <1>2 DEF Lookup, Registered, OnlyCreation
  <1>3. CASE /\ pc' = "create"
             /\ \E k \in Conns : /\ conn[k] = "none" /\ pool' = pool \cup {k}
                                 /\ conn' = [conn EXCEPT ![k] = "open"]
                                 /\ connection' = k
    <2>1. PICK k \in Conns : /\ conn[k] = "none" /\ pool' = pool \cup {k}
                             /\ conn' = [conn EXCEPT ![k] = "open"]
                             /\ connection' = k
      BY <1>3
    <2>2. /\ UNCHANGED <<first, signal, tasks, registered, ready, closes>>
          /\ pc # "dropped" /\ pc' # "access" /\ pc' # "dropped"
      BY <1>3 DEF Lookup
    <2>3. conn'[k] = "open" /\ \A j \in Conns \ {k} : conn'[j] = conn[j]
      BY <2>1 DEF TypeOK
    <2>4. \A g \in Creations : home[g] # None => (home[g] \in Conns /\ home[g] # k)
      BY <2>1 DEF Registered, TypeOK
    <2>5. \A g \in Creations : home[g] # None => conn'[home[g]] = conn[home[g]]
      BY <2>3, <2>4
    <2>6. signal # None => (signal \in Creations /\ home[signal] # None)
      BY DEF Registered, TypeOK
    <2>7. \A j \in pool' : conn'[j] # "none"
      BY <2>1, <2>3 DEF Registered, TypeOK
    <2> QED
      BY <2>1, <2>2, <2>3, <2>5, <2>6, <2>7 DEF Registered, OnlyCreation
  <1> QED
    BY <1>1, <1>2, <1>3 DEF Lookup

\* A creation is at the connection of the producer, and the task of the one
\* before is told to close it.
LEMMA NewTaskRegistered ==
  ASSUME TypeOK, Registered, NewTask, UNCHANGED <<connection, conns>>,
         ~first', pc' \notin {"access", "dropped"},
         (conn[connection] = "open" /\ ready' /\ closes' = 0)
           => connection \in registered'
  PROVE  Registered'
  <1>1. PICK g \in Creations :
          /\ home[g] = None
          /\ home' = [home EXCEPT ![g] = connection]
          /\ signal' = g
          /\ task' = [OldSignal EXCEPT ![g] = "armed"]
    BY DEF NewTask
  <1>2. /\ home'[g] = connection /\ \A f \in Creations \ {g} : home'[f] = home[f]
        /\ g # None /\ connection # None /\ connection \in Conns
    BY <1>1, ProducerAssumption DEF TypeOK, Creations, Conns, None
  <1>3. OldSignal \in [Creations -> {"none", "armed", "closing", "closed"}]
    BY DEF OldSignal, TypeOK
  <1>4. task'[g] = "armed" /\ \A f \in Creations \ {g} : task'[f] = OldSignal[f]
    BY <1>1, <1>3
  <1>5. ASSUME NEW f \in Creations \ {g}, task'[f] = "closing" PROVE home[f] # None
    <2>1. CASE signal = None \/ f # signal
      BY <1>4, <1>5, <2>1 DEF OldSignal, Registered, TypeOK
    <2>2. CASE signal # None /\ f = signal
      BY <2>2 DEF Registered
    <2> QED
      BY <2>1, <2>2
  <1>6. \A f \in Creations : task'[f] = "closing" => home'[f] # None
    BY <1>2, <1>4, <1>5
  <1>7. \A f \in Creations : home'[f] # None => conn'[home'[f]] # "none"
    BY <1>2 DEF Registered
  <1>8. signal' = g /\ home'[signal'] = connection /\ task'[signal'] = "armed"
    BY <1>1, <1>2, <1>4
  <1> QED
    BY <1>2, <1>6, <1>7, <1>8 DEF Registered

\* The steps of a call keep Registered: a creation arms its own task, and ends the
\* signal of the one before it.
LEMMA CallRegistered ==
  ASSUME TypeOK, Control, Registered, Call \/ Access
  PROVE  Registered'
  <1>1. CASE Send \/ Answered \/ Unanswered
    BY <1>1, QuietRegistered DEF Send, Answered, Unanswered, Resolve
  <1>2. CASE Lookup
    BY <1>2, LookupRegistered
  <1>3. CASE NotReady
    BY <1>3, QuietRegistered DEF NotReady, Fails, Resolve
  <1>4. CASE Refused
    BY <1>4, QuietRegistered DEF Refused, Orphans, Fails, Resolve
  <1>5. CASE Created
    <2>1. CASE ready'
      BY <1>5, <2>1, NewTaskRegistered DEF Created, Registers
    <2>2. CASE ~ready'
      <3>1. /\ UNCHANGED <<connection, signal, conns, tasks, first, closes>>
            /\ registered' = registered \cup {connection}
            /\ pc' = "access" /\ pc # "dropped" /\ signal = None
        BY <1>5, <2>2 DEF Created, Registers, Control
      <3> QED
        BY <2>2, <3>1 DEF Registered, OnlyCreation
    <2> QED
      BY <2>1, <2>2
  <1>6. CASE AccessGranted
    BY <1>6, NewTaskRegistered DEF AccessGranted, Registered
  <1>7. CASE AccessRefused \/ AccessFails
    BY <1>7, NewTaskRegistered DEF AccessRefused, AccessFails, Registered
  <1>8. CASE Reconnected
    BY <1>8, NewTaskRegistered DEF Reconnected, Registers
  <1> QED
    BY <1>1, <1>2, <1>3, <1>4, <1>5, <1>6, <1>7, <1>8 DEF Call, Access

\* So do the calls of the application, a dropped producer included, ...
LEMMA ApplicationRegistered ==
  ASSUME TypeOK, Control, Registered, Application
  PROVE  Registered'
  <1>1. CASE send_raw
    BY <1>1, QuietRegistered DEF send_raw, Idle
  <1>2. CASE send_batch
    BY <1>2, QuietRegistered DEF send_batch, Idle
  <1>3. CASE Cancel
    BY <1>3, QuietRegistered DEF Cancel, Orphans, Resolve
  <1>4. CASE DropProducer
    <2>1. /\ UNCHANGED <<connection, signal, conns, home, first, ready, closes, registered>>
          /\ pc' = "dropped" /\ signal \in Creations
          /\ task' = [task EXCEPT ![signal] = "closing"]
      BY <1>4 DEF DropProducer, Idle, Control, TypeOK
    <2>2. \A g \in Creations : task'[g] = "closing" => home[g] # None
      BY <2>1 DEF Registered, TypeOK, Creations, None
    <2> QED
      BY <2>1, <2>2 DEF Registered
  <1> QED
    BY <1>1, <1>2, <1>3, <1>4 DEF Application

\* The task of an earlier creation unregisters the producer where that creation
\* was; only one that shares the connection of the producer could unregister it.
LEMMA CloseRegistered ==
  ASSUME TypeOK, Control, Registered, NEW g \in Creations, CloseTask(g)
  PROVE  Registered'
  <1>1. /\ UNCHANGED <<producer, conns, home, ready, closes>>
        /\ task[g] = "closing" /\ task' = [task EXCEPT ![g] = "closed"]
        /\ registered \ {home[g]} \subseteq registered'
    BY DEF CloseTask, Forget
  <1>2. home[g] # None /\ ~first /\ pc # "access"
    BY <1>1 DEF Registered, Control
  <1>3. signal # None /\ pc # "dropped" => (g # signal /\ signal \in Creations)
    BY <1>1 DEF Registered, TypeOK
  <1>4. \A f \in Creations : task'[f] = "closing" => task[f] = "closing"
    BY <1>1 DEF TypeOK
  <1>5. signal # None /\ pc # "dropped" => task'[signal] = "armed"
    BY <1>1, <1>3 DEF TypeOK, Registered
  <1>6. ASSUME signal # None, pc # "dropped", ready, closes = 0,
               conn[home[signal]] = "open", OnlyCreation
        PROVE  home[signal] \in registered'
    BY <1>1, <1>3, <1>6 DEF Registered, OnlyCreation
  <1> QED
    BY <1>1, <1>2, <1>4, <1>5, <1>6 DEF Registered, OnlyCreation

\* ... and the broker and the network.
LEMMA OutsideRegistered ==
  ASSUME TypeOK, Control, Registered, NEW k \in Conns,
         BrokerReads(k) \/ BrokerCloses(k) \/ Breaks(k) \/ HeartbeatFails(k)
  PROVE  Registered'
  <1>1. CASE BrokerReads(k)
    BY <1>1, QuietRegistered DEF BrokerReads
  <1>2. CASE BrokerCloses(k)
    <2>1. closes \in Nat
      <3>1. closes \in 0..MaxCloses
        BY DEF TypeOK
      <3> QED
        BY <3>1
    <2>2. UNCHANGED <<producer, conns, tasks, ready>> /\ closes' # 0
      BY <1>2, <2>1 DEF BrokerCloses
    <2> QED
      BY <2>2 DEF Registered, OnlyCreation
  <1>3. CASE Breaks(k) \/ HeartbeatFails(k)
    <2>1. /\ UNCHANGED <<producer, tasks, ready, closes>>
          /\ registered' = registered \ {k}
          /\ conn' = [conn EXCEPT ![k] = "silent"] \/ conn' = [conn EXCEPT ![k] = "broken"]
          /\ pool' \subseteq pool
      BY <1>3 DEF Breaks, HeartbeatFails, Gone, Forget
    <2>2. /\ conn'[k] \notin {"none", "open"}
          /\ \A j \in Conns \ {k} : conn'[j] = conn[j]
      BY <2>1 DEF TypeOK
    <2>3. \A j \in Conns : conn[j] # "none" => conn'[j] # "none"
      BY <2>2
    <2>4. \A j \in Conns : conn'[j] = "open" => (conn[j] = "open" /\ j # k)
      BY <2>2
    <2>5. signal # None => (signal \in Creations /\ home[signal] \in Conns)
      BY DEF Registered, TypeOK
    <2> QED
      BY ZenonT(60), <2>1, <2>3, <2>4, <2>5 DEF Registered, OnlyCreation, TypeOK
  <1> QED
    BY <1>1, <1>2, <1>3

\* Registered holds after every step.
LEMMA RegisteredStep ==
  ASSUME TypeOK, Control, Registered, [Next]_vars
  PROVE  Registered'
  <1>1. CASE UNCHANGED vars
    BY <1>1, QuietRegistered DEF vars
  <1> QED
    BY <1>1, CallRegistered, ApplicationRegistered, CloseRegistered,
       OutsideRegistered DEF Next, Broker

\* An idle producer is the one the creation of its signal has registered.
LEMMA RegisteredLive == TypeOK /\ Control /\ Registered => ProducerLive
  <1> SUFFICES ASSUME TypeOK, Control, Registered, Idle,
                      \A g \in Creations \ {signal} : home[g] # connection,
                      ready, home[signal] = connection, conn[connection] = "open",
                      closes = 0
               PROVE  connection \in registered
    BY DEF ProducerLive, ProducerKnown
  <1>1. signal # None /\ pc # "dropped"
    BY DEF Idle, Control
  <1> QED
    BY <1>1 DEF Registered, OnlyCreation

-----------------------------------------------------------------------------
(* The order of the log *)

LOCAL W == INSTANCE WellFoundedInduction

\* A set of numbers has a least one.
LEMMA LeastNat ==
  ASSUME NEW T \in SUBSET Nat, T # {}
  PROVE  \E x \in T : \A y \in T : x <= y
  <1>1. PICK x \in T : \A y \in T : ~(<<y, x>> \in W!OpToRel(<, Nat))
    BY W!WFMin, W!NatLessThanWellFounded
  <1>2. ASSUME NEW y \in T PROVE x <= y
    <2>1. ~(y < x)
      BY <1>1 DEF W!OpToRel
    <2> QED
      BY <2>1
  <1> QED
    BY <1>2

\* Published states what OrderKept is about: the first occurrence of a message
\* that has a receipt comes before that of every later one.
LEMMA PublishedOrder == TypeOK /\ Published => OrderKept
  <1> SUFFICES ASSUME TypeOK, Published PROVE OrderKept
    OBVIOUS
  <1> DEFINE Receipts == {m \in Messages : result[m] = "receipt"}
             IsFirst(i, m) == log[i] = m /\ \A j \in 1..(i - 1) : log[j] # m
             At(m) == CHOOSE i \in DOMAIN log : IsFirst(i, m)
  <1>1. DOMAIN log = 1..Len(log) /\ Len(log) \in Nat /\ log \in Seq(Messages)
    BY DEF TypeOK
  <1>3. ASSUME NEW m, NEW i \in DOMAIN log, log[i] = m
        PROVE  \E l \in DOMAIN log : IsFirst(l, m)
    <2> DEFINE T == {l \in DOMAIN log : log[l] = m}
    <2>1. T \in SUBSET Nat /\ T # {}
      BY <1>1, <1>3
    <2>2. PICK l \in T : \A k \in T : l <= k
      BY <2>1, LeastNat
    <2>3. ASSUME NEW k \in 1..(l - 1) PROVE log[k] # m
      <3>1. k \in DOMAIN log /\ k < l /\ l \in Nat /\ k \in Nat
        BY <1>1, <2>1
      <3> QED
        BY <2>2, <3>1
    <2> QED
      BY <2>2, <2>3
  <1>2. ASSUME NEW m \in Receipts, NEW n \in Receipts, m < n,
               NEW j \in DOMAIN log, IsFirst(j, n)
        PROVE  \E i \in DOMAIN log : IsFirst(i, m) /\ i < j
    <2>1. m \in Messages /\ n \in Messages /\ Precedes(m, log[j])
      BY <1>2 DEF Precedes
    <2>2. PICK i \in 1..(j - 1) : log[i] = m
      BY <1>1, <2>1 DEF Published, Ordered
    <2>3. i \in DOMAIN log /\ j \in Nat
      BY <1>1
    <2>4. PICK l \in DOMAIN log : IsFirst(l, m)
      BY <1>3, <2>2, <2>3
    <2>5. l \in Nat /\ i \in Nat /\ ~(i \in 1..(l - 1))
      BY <1>1, <2>2, <2>4
    <2>6. l < j
      BY <2>2, <2>3, <2>5
    <2> QED
      BY <2>4, <2>6
  <1>4. ASSUME NEW m \in Receipts PROVE At(m) \in DOMAIN log /\ IsFirst(At(m), m)
    <2>1. PICK i \in DOMAIN log : log[i] = m
      BY ZenonT(60), <1>1, RangeType DEF Published
    <2>2. \E l \in DOMAIN log : IsFirst(l, m)
      BY <1>3, <2>1
    <2> QED
      BY <2>2
  <1>5. ASSUME NEW m \in Receipts, NEW n \in Receipts, m < n PROVE At(m) < At(n)
    <2>1. /\ At(m) \in DOMAIN log /\ IsFirst(At(m), m)
          /\ At(n) \in DOMAIN log /\ IsFirst(At(n), n)
      BY <1>4
    <2>2. PICK i \in DOMAIN log : IsFirst(i, m) /\ i < At(n)
      BY <1>2, <1>5, <2>1
    <2>3. i = At(m)
      <3>1. i \in Nat /\ At(m) \in Nat
        BY <1>1, <2>1
      <3>2. ~(i \in 1..(At(m) - 1)) /\ ~(At(m) \in 1..(i - 1))
        BY <2>1, <2>2
      <3>3. i >= 1 /\ At(m) >= 1
        BY <1>1, <2>1
      <3> HIDE DEF At
      <3> QED
        BY <3>1, <3>2, <3>3
    <2> QED
      BY <2>2, <2>3
  <1>6. Receipts \subseteq Range(log)
    BY DEF Published
  <1> QED
    BY <1>5, <1>6 DEF OrderKept
-----------------------------------------------------------------------------
(* Theorems *)

\* The producer that from_connection starts with satisfies the invariant.
LEMMA InitInv == Init => ProducerInv
  <1> SUFFICES ASSUME Init PROVE ProducerInv
    OBVIOUS
  <1>1. Control
    BY DEF Init, Control
  <1>2. PendingHeld
    BY DEF Init, PendingHeld
  <1>3. Registered
    BY ProducerAssumption DEF Init, Registered, Conns, None
  <1> QED
    BY <1>1, <1>2, <1>3, InitType, InitPublished DEF ProducerInv

\* ProducerInv is inductive: it holds in every state of the producer, whatever
\* its options.
THEOREM Invariance == Spec => []ProducerInv
  <1>1. ProducerInv /\ [Next]_vars => ProducerInv'
    BY TypeStep, ControlStep, PendingStep, PublishedStep, RegisteredStep
    DEF ProducerInv
  <1> QED
    BY <1>1, InitInv, PTL DEF Spec

\* The SendFuture of every message that send_raw has accepted is resolved, or the
\* message is in the batch or being sent: nothing that breaks, times out or is
\* refused makes the producer forget it.
THEOREM PendingNeverLost == Spec => []PendingHeld
  <1>1. ProducerInv => PendingHeld
    BY DEF ProducerInv
  <1> QED
    BY <1>1, Invariance, PTL

\* Messages with a receipt are in the log, and their first copies are in the order
\* in which the application sent them, for any batch size and any number of
\* retries, failures and late answers.
THEOREM ReceiptsInOrder == Spec => []OrderKept
  <1>1. ProducerInv => OrderKept
    BY PublishedOrder DEF ProducerInv
  <1> QED
    BY <1>1, Invariance, PTL

\* The task that closes an earlier creation never unregisters the producer that was
\* granted access in its place on another connection, whichever broker that is to.
THEOREM StaysKnown == Spec => []ProducerLive
  <1>1. ProducerInv => ProducerLive
    BY RegisteredLive DEF ProducerInv
  <1> QED
    BY <1>1, Invariance, PTL
=============================================================================
