----------------------------- MODULE Connection -----------------------------
(***************************************************************************)
(* One broker connection (src/connection.rs): the ConnectionSender that    *)
(* callers share, the Receiver future that owns the inbound half of the    *)
(* socket, the task that drains the outbound channel, and the SharedError  *)
(* flag of src/error.rs.  The broker and the socket are external.          *)
(*                                                                         *)
(* A call is one use of a ConnectionSender method.  Its oneshot resolver   *)
(* is identified with the call itself: registrations, pending_requests and *)
(* ping hold the calls whose resolver they hold.                           *)
(***************************************************************************)
EXTENDS Naturals, Sequences, Functions

CONSTANTS
  Calls,       \* the calls made on the ConnectionSender, each at most once
  Op,          \* Op[c]: the kind of method the call c is
  Consumers,   \* consumer ids
  ConsumerOf,  \* ConsumerOf[c]: the consumer id of the subscribe call c
  CloseIds,    \* request ids the broker writes in the CloseConsumer it sends
  MaxFlow,     \* bound: flow permits a consumer asks for, in total
  MaxPushed,   \* bound: unsolicited commands (ping, unknown) of the broker
  MaxTaken,    \* bound: calls of Connection::error
  NoCall, NoKey, NoConsumer, NoMessage

Ops == {"request", "send", "subscribe", "create_producer", "ping"}

ASSUME CallsAssumption ==
  /\ Op \in [Calls -> Ops]
  /\ ConsumerOf \in [Calls -> Consumers]
  /\ CloseIds \subseteq Nat
  /\ MaxFlow \in Nat /\ MaxPushed \in Nat /\ MaxTaken \in Nat

VARIABLES
  \* callers
  pc,                 \* where each call is
  key,                \* the RequestKey of each call
  answer,             \* what was sent into each call's oneshot
  result,             \* what each call returned
  request_id,         \* SerialId
  flows,              \* permits each consumer has asked for so far
  \* channels and the SharedError flag
  registrations,      \* mpsc channel of Register values
  tx,                 \* mpsc channel of outbound messages
  error_set,          \* SharedError.error_set
  taken,              \* number of Connection::error calls that took an error
  dropped,            \* the Connection was dropped
  \* the Receiver future and the sender task
  receiver,           \* "running" or "ended"
  phase,              \* what the current Receiver::poll looks at next
  pending_requests,   \* calls in the map, under their key
  received_messages,  \* replies parked in the map, under their key
  consumers,          \* subscribe calls whose channel is in the map
  ping,               \* the ping call whose resolver is held, or NoCall
  lost,               \* kinds of consumer messages that found no channel
  sender_task,        \* "running" or "ended"
  \* the socket and the broker
  inbound,            \* commands on their way to the client
  socket,             \* "open" or "closed"
  requests,           \* calls the broker has read and not answered
  exclusive,          \* producers the broker told to wait for exclusive access
  subscribed,         \* consumer ids that exist on the broker
  permits,            \* flow permits the broker has for each consumer
  pushed              \* number of unsolicited commands sent

callers == <<pc, key, answer, result, request_id, flows>>
flags   == <<error_set, taken, dropped>>
state   == <<receiver, phase, pending_requests, received_messages, consumers,
             ping, lost>>
broker  == <<socket, requests, exclusive, subscribed, permits, pushed>>
vars    == <<callers, registrations, tx, flags, state, sender_task, inbound,
             broker>>

-----------------------------------------------------------------------------
(* Values *)

Keys == ({"RequestId"} \X Nat) \cup ({"ProducerSend"} \X Calls)

ReplyKinds == {"response", "not_ready", "error", "send_error", "pong"}

Message ==
  [kind : ReplyKinds \cup {"message", "close_consumer", "ping", "unknown",
                           "eof", "io_error"},
   key : Keys \cup {NoKey}, call : Calls \cup {NoCall},
   consumer : Consumers \cup {NoConsumer}]

ASSUME NullAssumption ==
  /\ NoCall \notin Calls
  /\ NoConsumer \notin Consumers
  /\ NoKey \notin Keys
  /\ NoMessage \notin Message

\* Message::request_key: replies carry the key of the request they answer ...
Reply(kind, c) ==
  [kind |-> kind, key |-> key[c], call |-> c, consumer |-> NoConsumer]

\* ... messages of a subscription carry its consumer id ...
ToConsumer(kind, k, id) ==
  [kind |-> kind, key |-> k, call |-> NoCall, consumer |-> id]

\* ... and the rest has no key; "eof" and "io_error" end the inbound stream.
Bare(kind) ==
  [kind |-> kind, key |-> NoKey, call |-> NoCall, consumer |-> NoConsumer]

Register == [type : {"Request", "Consumer", "Ping"}, call : Calls]

Command(c) == [type |-> "command", call |-> c, consumer |-> NoConsumer]
Flow(id)   == [type |-> "flow", call |-> NoCall, consumer |-> id]
Pong       == [type |-> "pong", call |-> NoCall, consumer |-> NoConsumer]

Outbound == {Command(c) : c \in Calls} \cup {Flow(id) : id \in Consumers}
              \cup {Pong}

Waiting == {"waiting", "waiting_exclusive"}

Places == {"idle", "consumer", "register", "transmit", "unregistered",
           "exclusive", "done"} \cup Waiting

Results == {"none", "ok", "pulsar_error", "unexpected_response",
            "disconnected", "timed_out"}

\* The resolver of c is still held somewhere, so its oneshot is not canceled.
Held(c) ==
  \/ c \in pending_requests
  \/ ping = c
  \/ \E r \in Range(registrations) : r.call = c /\ r.type # "Consumer"

Registered(id) == \E c \in consumers : ConsumerOf[c] = id

-----------------------------------------------------------------------------
(* ConnectionSender: the caller's side of a call *)

\* SharedError::set
SetErrorForgotten == UNCHANGED error_set
SetError == error_set' = TRUE

\* SerialId::get
NextId == request_id + 1

\* subscribe has a step of its own before send_message.
SkipConsumer(c) == "register"
FirstStep(c) == IF Op[c] = "subscribe" THEN "consumer" ELSE "register"

\* A method starts by taking a request id; send has the producer's own
\* sequence number for key, send_ping has none.
Begin(c) ==
  /\ pc[c] = "idle"
  /\ ~dropped
  /\ pc' = [pc EXCEPT ![c] = FirstStep(c)]
  /\ \/ /\ Op[c] = "send"
        /\ key' = [key EXCEPT ![c] = <<"ProducerSend", c>>]
        /\ UNCHANGED request_id
     \/ /\ Op[c] = "ping"
        /\ UNCHANGED <<key, request_id>>
     \/ /\ Op[c] \notin {"send", "ping"}
        /\ key' = [key EXCEPT ![c] = <<"RequestId", request_id>>]
        /\ request_id' = NextId
  /\ UNCHANGED <<answer, result, flows, registrations, tx, flags, state,
                 sender_task, inbound, broker>>

Return(c, r) ==
  /\ pc' = [pc EXCEPT ![c] = "done"]
  /\ result' = [result EXCEPT ![c] = r]

\* subscribe hands the consumer's channel to the Receiver first.
RegisterConsumer(c) ==
  /\ pc[c] = "consumer"
  /\ \/ /\ receiver = "running"
        /\ registrations' = Append(registrations,
                                   [type |-> "Consumer", call |-> c])
        /\ pc' = [pc EXCEPT ![c] = "register"]
        /\ UNCHANGED <<result, error_set>>
     \/ /\ receiver = "ended"
        /\ SetError
        /\ Return(c, "disconnected")
        /\ UNCHANGED registrations
  /\ UNCHANGED <<key, answer, request_id, flows, tx, taken, dropped, state,
                 sender_task, inbound, broker>>

\* send_message and send_ping: both sends are made, whatever the first returns.
RegisterCall(c) ==
  /\ pc[c] = "register"
  /\ \/ /\ receiver = "running"
        /\ registrations' =
             Append(registrations,
                    [type |-> IF Op[c] = "ping" THEN "Ping" ELSE "Request",
                     call |-> c])
        /\ pc' = [pc EXCEPT ![c] = "transmit"]
     \/ /\ receiver = "ended"
        /\ pc' = [pc EXCEPT ![c] = "unregistered"]
        /\ UNCHANGED registrations
  /\ UNCHANGED <<key, answer, result, request_id, flows, tx, flags, state,
                 sender_task, inbound, broker>>

Transmit(c) ==
  /\ pc[c] \in {"transmit", "unregistered"}
  /\ IF sender_task = "running"
     THEN tx' = Append(tx, Command(c))
     ELSE UNCHANGED tx
  /\ IF pc[c] = "transmit" /\ sender_task = "running"
     THEN /\ pc' = [pc EXCEPT ![c] = "waiting"]
          /\ UNCHANGED result
     ELSE Return(c, "disconnected")
  /\ UNCHANGED <<key, answer, request_id, flows, registrations, flags, state,
                 sender_task, inbound, broker>>

\* extract_message: a CommandError is an error, anything but the command the
\* caller expects (a SendError included) is an unexpected response.
OutcomeLenient(m) == IF m.kind = "error" THEN "pulsar_error" ELSE "ok"
Outcome(m) ==
  CASE m.kind = "error" -> "pulsar_error"
    [] m.kind \in {"response", "not_ready", "pong"} -> "ok"
    [] OTHER -> "unexpected_response"

\* A create_producer answered producer_ready = false goes on to
\* wait_for_exclusive_access under the same request id.
Resolve(c) ==
  /\ pc[c] \in Waiting
  /\ answer[c] # NoMessage
  /\ IF /\ Op[c] = "create_producer" /\ pc[c] = "waiting"
        /\ answer[c].kind = "not_ready"
     THEN /\ pc' = [pc EXCEPT ![c] = "exclusive"]
          /\ answer' = [answer EXCEPT ![c] = NoMessage]
          /\ UNCHANGED result
     ELSE /\ Return(c, Outcome(answer[c]))
          /\ UNCHANGED answer
  /\ UNCHANGED <<key, request_id, flows, registrations, tx, flags, state,
                 sender_task, inbound, broker>>

\* wait_exclusive_access registers again and sends nothing.
RegisterWait(c) ==
  /\ pc[c] = "exclusive"
  /\ \/ /\ receiver = "running"
        /\ registrations' = Append(registrations,
                                   [type |-> "Request", call |-> c])
        /\ pc' = [pc EXCEPT ![c] = "waiting_exclusive"]
        /\ UNCHANGED result
     \/ /\ receiver = "ended"
        /\ Return(c, "disconnected")
        /\ UNCHANGED registrations
  /\ UNCHANGED <<key, answer, request_id, flows, tx, flags, state, sender_task,
                 inbound, broker>>

\* The oneshot was dropped unanswered.
Canceled(c) ==
  /\ pc[c] \in Waiting
  /\ answer[c] = NoMessage
  /\ ~Held(c)
  /\ SetError
  /\ Return(c, "disconnected")
  /\ UNCHANGED <<key, answer, request_id, flows, registrations, tx, taken,
                 dropped, state, sender_task, inbound, broker>>

\* operation_timeout bounds every wait but wait_exclusive_access.
Timed(c) == pc[c] = "waiting"

\* Only send_ping reports its timeout in the SharedError.
TimeoutError(c) == IF Op[c] = "ping" THEN SetError ELSE UNCHANGED error_set

\* The resolver of a call that timed out stays where it is.
Timeout(c) ==
  /\ Timed(c)
  /\ answer[c] = NoMessage
  /\ Held(c)
  /\ Return(c, "timed_out")
  /\ TimeoutError(c)
  /\ UNCHANGED <<key, answer, request_id, flows, registrations, tx, taken,
                 dropped, state, sender_task, inbound, broker>>

\* send_flow, for a subscription that was granted.
SendFlow(c) ==
  /\ Op[c] = "subscribe" /\ result[c] = "ok"
  /\ ~dropped
  /\ sender_task = "running"
  /\ flows[ConsumerOf[c]] < MaxFlow
  /\ flows' = [flows EXCEPT ![ConsumerOf[c]] = @ + 1]
  /\ tx' = Append(tx, Flow(ConsumerOf[c]))
  /\ UNCHANGED <<pc, key, answer, result, request_id, registrations, flags,
                 state, sender_task, inbound, broker>>

\* Connection::error, as the consumer engine calls it: SharedError::remove
\* takes the error and clears the flag.
TakeError ==
  /\ error_set
  /\ ~dropped
  /\ taken < MaxTaken
  /\ error_set' = FALSE
  /\ taken' = taken + 1
  /\ UNCHANGED <<callers, registrations, tx, dropped, state, sender_task,
                 inbound, broker>>

\* Drop for Connection.  Every call borrows the connection, so none is running.
DropConnection ==
  /\ ~dropped
  /\ \A c \in Calls : pc[c] \in {"idle", "done"}
  /\ dropped' = TRUE
  /\ UNCHANGED <<callers, registrations, tx, error_set, taken, state,
                 sender_task, inbound, broker>>

-----------------------------------------------------------------------------
(* Receiver::poll, one channel item at a time *)

ReceiverEndsHolding ==
  /\ receiver' = "ended"
  /\ registrations' = <<>>
  /\ UNCHANGED <<pending_requests, received_messages, consumers, ping>>

\* The future completes and is dropped with everything it owns.
ReceiverEnds ==
  /\ receiver' = "ended"
  /\ pending_requests' = {}
  /\ received_messages' = {}
  /\ consumers' = {}
  /\ ping' = NoCall
  /\ registrations' = <<>>

PollShutdown ==
  /\ receiver = "running" /\ phase = "shutdown"
  /\ dropped \/ registrations # <<>> \/ inbound # <<>>
  /\ \/ /\ dropped
        /\ ReceiverEnds
        /\ UNCHANGED phase
     \/ /\ ~dropped
        /\ phase' = "registrations"
        /\ UNCHANGED <<receiver, pending_requests, received_messages,
                       consumers, ping, registrations>>
  /\ UNCHANGED <<callers, tx, flags, lost, sender_task, inbound, broker>>

\* received_messages.remove(&key)
NoneParked(c) == {}
Parked(c) == {m \in received_messages : m.key = key[c]}

\* Register::Request: answered at once when its reply is already parked.
AddRequest(c) ==
  LET parked == Parked(c)
  IN  /\ received_messages' = received_messages \ parked
      /\ \/ /\ parked # {}
            /\ \E m \in parked : answer' = [answer EXCEPT ![c] =
                                   IF pc[c] = "done" THEN @ ELSE m]
            /\ UNCHANGED pending_requests
         \/ /\ parked = {}
            /\ pending_requests' =
                 {d \in pending_requests : key[d] # key[c]} \cup {c}
            /\ UNCHANGED answer
      /\ UNCHANGED <<consumers, ping>>

\* Register::Consumer: replaces the channel the consumer id had before.
AddConsumer(c) ==
  /\ consumers' = {d \in consumers : ConsumerOf[d] # ConsumerOf[c]} \cup {c}
  /\ UNCHANGED <<answer, pending_requests, received_messages, ping>>

AddPing(c) ==
  /\ ping' = c
  /\ UNCHANGED <<answer, pending_requests, received_messages, consumers>>

PollRegistration ==
  /\ receiver = "running" /\ phase = "registrations"
  /\ registrations # <<>>
  /\ registrations' = Tail(registrations)
  /\ LET r == Head(registrations)
     IN  \/ r.type = "Request"  /\ AddRequest(r.call)
         \/ r.type = "Consumer" /\ AddConsumer(r.call)
         \/ r.type = "Ping"     /\ AddPing(r.call)
  /\ UNCHANGED <<pc, key, result, request_id, flows, tx, flags, receiver,
                 phase, lost, sender_task, inbound, broker>>

\* The channel is empty: with its senders gone the future fails, otherwise
\* poll goes on to the socket.
RegistrationsDone ==
  /\ receiver = "running" /\ phase = "registrations"
  /\ registrations = <<>>
  /\ \/ /\ dropped
        /\ ReceiverEnds
        /\ SetError
        /\ UNCHANGED phase
     \/ /\ ~dropped
        /\ phase' = "inbound"
        /\ UNCHANGED <<receiver, pending_requests, received_messages,
                       consumers, ping, registrations, error_set>>
  /\ UNCHANGED <<callers, tx, taken, dropped, lost, sender_task, inbound,
                 broker>>

\* A reply resolves its pending call (one that gave up ignores it) or is parked.
HandleReply(m) ==
  LET waiters == {c \in pending_requests : key[c] = m.key}
  IN  /\ pending_requests' = pending_requests \ waiters
      /\ answer' = [c \in Calls |->
                      IF c \in waiters /\ pc[c] # "done" THEN m ELSE answer[c]]
      /\ received_messages' =
           IF waiters # {}
           THEN received_messages
           ELSE {n \in received_messages : n.key # m.key} \cup {m}
      /\ UNCHANGED <<tx, ping, lost>>

\* A message of a subscription goes to its channel, or nowhere.
HandleConsumerMessage(m) ==
  /\ lost' = IF Registered(m.consumer) THEN lost ELSE lost \cup {m.kind}
  /\ UNCHANGED <<answer, pending_requests, received_messages, tx, ping>>

\* CloseConsumer is a reply if a pending call has its request id.
HandleCloseConsumer(m) ==
  LET waiters == {c \in pending_requests : key[c] = m.key}
  IN  \/ /\ waiters # {}
         /\ HandleReply(m)
      \/ /\ waiters = {}
         /\ HandleConsumerMessage(m)

HandlePing ==
  /\ tx' = IF sender_task = "running" THEN Append(tx, Pong) ELSE tx
  /\ UNCHANGED <<answer, pending_requests, received_messages, ping, lost>>

\* ping.take(): a pong answers whichever ping is held.
HandlePong(m) ==
  /\ ping' = NoCall
  /\ answer' = [c \in Calls |->
                  IF c = ping /\ pc[c] # "done" THEN m ELSE answer[c]]
  /\ UNCHANGED <<pending_requests, received_messages, tx, lost>>

PollInbound ==
  /\ receiver = "running" /\ phase = "inbound"
  /\ inbound # <<>>
  /\ inbound' = Tail(inbound)
  /\ LET m == Head(inbound)
     IN  \/ m.kind = "ping" /\ HandlePing
         \/ m.kind = "pong" /\ HandlePong(m)
         \/ m.kind \in ReplyKinds \ {"pong"} /\ HandleReply(m)
         \/ m.kind = "message" /\ HandleConsumerMessage(m)
         \/ m.kind = "close_consumer" /\ HandleCloseConsumer(m)
         \/ /\ m.kind = "unknown"
            /\ UNCHANGED <<answer, pending_requests, received_messages, tx,
                           ping, lost>>
  /\ UNCHANGED <<pc, key, result, request_id, flows, registrations, flags,
                 receiver, phase, consumers, sender_task, broker>>

InboundEnd ==
  /\ receiver = "running" /\ phase = "inbound"
  /\ inbound # <<>>
  /\ Head(inbound).kind \in {"eof", "io_error"}
  /\ inbound' = Tail(inbound)
  /\ SetError
  /\ ReceiverEnds
  /\ UNCHANGED <<callers, tx, taken, dropped, phase, lost, sender_task, broker>>

InboundPending ==
  /\ receiver = "running" /\ phase = "inbound"
  /\ inbound = <<>>
  /\ phase' = "shutdown"
  /\ UNCHANGED <<callers, registrations, tx, flags, receiver,
                 pending_requests, received_messages, consumers, ping, lost,
                 sender_task, inbound, broker>>

PollReceiver ==
  \/ PollShutdown \/ PollRegistration \/ RegistrationsDone
  \/ PollInbound \/ InboundEnd \/ InboundPending

-----------------------------------------------------------------------------
(* The sender task: drains tx into the socket *)

\* What the broker does with a command it reads.
BrokerReads(o) ==
  /\ requests' = IF o.type = "command" THEN requests \cup {o.call}
                                       ELSE requests
  /\ permits' = IF o.type = "flow" /\ o.consumer \in subscribed
                THEN [permits EXCEPT ![o.consumer] = @ + 1]
                ELSE permits
  /\ UNCHANGED <<socket, exclusive, subscribed, pushed>>

\* A write to a closed socket fails, or succeeds and is never read.
SendNext ==
  /\ sender_task = "running"
  /\ tx # <<>>
  /\ \/ /\ socket = "open"
        /\ tx' = Tail(tx)
        /\ BrokerReads(Head(tx))
        /\ UNCHANGED <<sender_task, error_set>>
     \/ /\ socket = "closed"
        /\ tx' = Tail(tx)
        /\ UNCHANGED <<sender_task, error_set, broker>>
     \/ /\ socket = "closed"
        /\ tx' = <<>>
        /\ SetError
        /\ sender_task' = "ended"
        /\ UNCHANGED broker
  /\ UNCHANGED <<callers, registrations, taken, dropped, state, inbound>>

\* rx.next() is None once the ConnectionSender and the Receiver are gone.
SenderDone ==
  /\ sender_task = "running"
  /\ tx = <<>>
  /\ dropped /\ receiver = "ended"
  /\ sender_task' = "ended"
  /\ UNCHANGED <<callers, registrations, tx, flags, state, inbound, broker>>

SenderTask == SendNext \/ SenderDone

-----------------------------------------------------------------------------
(* The broker, external: it answers in any order, or never *)

ReplyKindsOf(c) ==
  CASE Op[c] = "ping" -> {"pong"}
    [] Op[c] = "send" -> {"response", "send_error"}
    [] Op[c] = "create_producer" -> {"response", "not_ready", "error"}
    [] OTHER -> {"response", "error"}

BrokerAnswers(c) ==
  /\ socket = "open"
  /\ c \in requests
  /\ requests' = requests \ {c}
  /\ \E kind \in ReplyKindsOf(c) :
       /\ inbound' = Append(inbound, Reply(kind, c))
       /\ exclusive' = IF kind = "not_ready" THEN exclusive \cup {c}
                                             ELSE exclusive
       /\ subscribed' = IF Op[c] = "subscribe" /\ kind = "response"
                        THEN subscribed \cup {ConsumerOf[c]} ELSE subscribed
  /\ UNCHANGED <<callers, registrations, tx, flags, state, sender_task, socket,
                 permits, pushed>>

\* The answer to wait_exclusive_access: the second CommandProducerSuccess when
\* access is granted, or an error.
BrokerGrantsAccess(c) ==
  /\ socket = "open"
  /\ c \in exclusive
  /\ exclusive' = exclusive \ {c}
  /\ \E kind \in {"response", "error"} : inbound' = Append(inbound, Reply(kind, c))
  /\ UNCHANGED <<callers, registrations, tx, flags, state, sender_task, socket,
                 requests, subscribed, permits, pushed>>

BrokerSendsMessage(id) ==
  /\ socket = "open"
  /\ permits[id] > 0
  /\ permits' = [permits EXCEPT ![id] = @ - 1]
  /\ inbound' = Append(inbound, ToConsumer("message", NoKey, id))
  /\ UNCHANGED <<callers, registrations, tx, flags, state, sender_task, socket,
                 requests, exclusive, subscribed, pushed>>

BrokerClosesConsumer(id) ==
  /\ socket = "open"
  /\ id \in subscribed
  /\ subscribed' = subscribed \ {id}
  /\ permits' = [permits EXCEPT ![id] = 0]
  /\ \E n \in CloseIds :
       inbound' = Append(inbound,
                         ToConsumer("close_consumer", <<"RequestId", n>>, id))
  /\ UNCHANGED <<callers, registrations, tx, flags, state, sender_task, socket,
                 requests, exclusive, pushed>>

BrokerPushes ==
  /\ socket = "open"
  /\ pushed < MaxPushed
  /\ pushed' = pushed + 1
  /\ \E kind \in {"ping", "unknown"} : inbound' = Append(inbound, Bare(kind))
  /\ UNCHANGED <<callers, registrations, tx, flags, state, sender_task, socket,
                 requests, exclusive, subscribed, permits>>

\* The socket breaks: the stream ends, fails, or just goes silent.
SocketBreaks ==
  /\ socket = "open"
  /\ socket' = "closed"
  /\ \/ \E kind \in {"eof", "io_error"} : inbound' = Append(inbound, Bare(kind))
     \/ UNCHANGED inbound
  /\ UNCHANGED <<callers, registrations, tx, flags, state, sender_task,
                 requests, exclusive, subscribed, permits, pushed>>

Broker ==
  \/ \E c \in Calls : BrokerAnswers(c) \/ BrokerGrantsAccess(c)
  \/ \E id \in Consumers : BrokerSendsMessage(id) \/ BrokerClosesConsumer(id)
  \/ BrokerPushes
  \/ SocketBreaks

-----------------------------------------------------------------------------
Init ==
  /\ pc = [c \in Calls |-> "idle"]
  /\ key = [c \in Calls |-> NoKey]
  /\ answer = [c \in Calls |-> NoMessage]
  /\ result = [c \in Calls |-> "none"]
  /\ request_id = 0
  /\ flows = [id \in Consumers |-> 0]
  /\ registrations = <<>>
  /\ tx = <<>>
  /\ error_set = FALSE
  /\ taken = 0
  /\ dropped = FALSE
  /\ receiver = "running"
  /\ phase = "shutdown"
  /\ pending_requests = {}
  /\ received_messages = {}
  /\ consumers = {}
  /\ ping = NoCall
  /\ lost = {}
  /\ sender_task = "running"
  /\ inbound = <<>>
  /\ socket = "open"
  /\ requests = {}
  /\ exclusive = {}
  /\ subscribed = {}
  /\ permits = [id \in Consumers |-> 0]
  /\ pushed = 0

\* The steps a running call takes by itself.
CallStep(c) ==
  \/ RegisterConsumer(c) \/ RegisterCall(c) \/ Transmit(c)
  \/ Resolve(c) \/ RegisterWait(c) \/ Canceled(c)

Next ==
  \/ \E c \in Calls : Begin(c) \/ CallStep(c) \/ Timeout(c) \/ SendFlow(c)
  \/ TakeError
  \/ DropConnection
  \/ PollReceiver
  \/ SenderTask
  \/ Broker

Spec == Init /\ [][Next]_vars

\* The executor keeps polling woken tasks and fires elapsed timers.  Nothing
\* is assumed of the broker, nor of the callers that start calls.
Fairness ==
  /\ WF_vars(PollReceiver)
  /\ WF_vars(SenderTask)
  /\ \A c \in Calls : WF_vars(CallStep(c)) /\ WF_vars(Timeout(c))

FairSpec == Spec /\ Fairness

-----------------------------------------------------------------------------
(* Properties *)

\* Every variable keeps its type; what a call returned is one of the results
\* extract_message and its callers can produce.
TypeOK ==
  /\ pc \in [Calls -> Places]
  /\ key \in [Calls -> Keys \cup {NoKey}]
  /\ answer \in [Calls -> Message \cup {NoMessage}]
  /\ result \in [Calls -> Results]
  /\ request_id \in Nat
  /\ flows \in [Consumers -> Nat]
  /\ registrations \in Seq(Register)
  /\ tx \in Seq(Outbound)
  /\ error_set \in BOOLEAN
  /\ taken \in Nat
  /\ dropped \in BOOLEAN
  /\ receiver \in {"running", "ended"}
  /\ phase \in {"shutdown", "registrations", "inbound"}
  /\ pending_requests \subseteq Calls
  /\ received_messages \subseteq Message
  /\ consumers \subseteq Calls
  /\ ping \in Calls \cup {NoCall}
  /\ lost \subseteq {"message", "close_consumer"}
  /\ sender_task \in {"running", "ended"}
  /\ inbound \in Seq(Message)
  /\ socket \in {"open", "closed"}
  /\ requests \subseteq Calls
  /\ exclusive \subseteq Calls
  /\ subscribed \subseteq Consumers
  /\ permits \in [Consumers -> Nat]
  /\ pushed \in Nat

\* A call is only ever answered with the reply to its own request, however the
\* replies are reordered, parked or late: the key of send_message is enough to
\* correlate them.  The one exception is a CloseConsumer of the broker whose
\* request id happens to be the call's (connection.rs, Receiver::poll).  Pongs
\* carry no key and are left out.
Correlation ==
  \A c \in Calls :
    answer[c] # NoMessage /\ Op[c] # "ping" =>
      \/ answer[c].call = c
      \/ answer[c].kind = "close_consumer" /\ answer[c].key = key[c]

\* A reply is never parked in received_messages while its call waits in
\* pending_requests: neither order of registration and reply loses a wakeup.
NoStrandedReply ==
  \A c \in pending_requests : \A m \in received_messages : m.key # key[c]

\* A call that is waiting and has no answer still has its resolver in the
\* channel or in the Receiver while that runs: no registration evicts another
\* one, so send_message sees Canceled, and blames the connection for it, only
\* when the Receiver is gone.  Pings are left out: they share one slot.
ResolverHeld ==
  \A c \in Calls :
    /\ pc[c] \in Waiting /\ Op[c] # "ping"
    /\ answer[c] = NoMessage
    /\ receiver = "running"
    => Held(c)

\* A message sent under a flow permit always finds the channel of its consumer:
\* subscribe queues Register::Consumer before its own request, so the channel
\* is in place before subscribe returns and before the first send_flow.
NoMessageLost == "message" \notin lost

\* A connection whose Receiver or sender task died is marked invalid, unless it
\* was dropped, or Connection::error has taken the error away.
BrokenIsInvalid ==
  (receiver = "ended" \/ sender_task = "ended") /\ ~dropped
    => error_set \/ taken > 0

\* Nothing but a broken socket or a failed ping marks a connection invalid: no
\* race of registrations, replies and timeouts of the other calls condemns a
\* healthy connection that is still shared by everyone else.
NoFalseAlarm ==
  error_set =>
    \/ socket = "closed"
    \/ dropped
    \/ \E c \in Calls : Op[c] = "ping" /\ result[c] \in {"timed_out",
                                                       "disconnected"}

\* Every call returns: replies, timeouts and cancellation leave no call behind.
\* Only wait_exclusive_access, which has no timeout, may wait for the broker, and
\* it returns once the Receiver has ended, because the resolvers die with it.
\* (A call is made once, so this says it of each call.)
CallsReturn ==
  []<>(\A c \in Calls : \/ pc[c] \in {"idle", "done"}
                        \/ pc[c] = "waiting_exclusive" /\ receiver # "ended")

\* A CloseConsumer of the broker reaches the channel of the consumer it is for.
NoCloseLost == "close_consumer" \notin lost

-----------------------------------------------------------------------------
(* The inductive invariants behind the safety properties *)

\* Calls have keys of their own: SerialId for RequestId, the call's sequence
\* number for ProducerSend, none for a ping.
KeyInv ==
  \A c \in Calls :
    /\ pc[c] = "idle" \/ Op[c] = "ping" => key[c] = NoKey
    /\ pc[c] # "idle" /\ Op[c] = "send" => key[c] = <<"ProducerSend", c>>
    /\ pc[c] # "idle" /\ Op[c] \notin {"send", "ping"} =>
         \E n \in 0..request_id :
           n < request_id /\ key[c] = <<"RequestId", n>>
    /\ \A d \in Calls : key[c] = key[d] => c = d \/ key[c] = NoKey

\* A reply in flight or parked has the key of the call it answers.
IsReplyTo(m) ==
  /\ m.call \in Calls
  /\ key[m.call] # NoKey
  /\ m.key = key[m.call]

\* Calls that have not begun are nowhere; requests are not pings.
CallInv ==
  \A c \in Calls :
    /\ pc[c] = "idle" => answer[c] = NoMessage
    /\ pc[c] \in {"exclusive", "waiting_exclusive"} => Op[c] = "create_producer"
    /\ result[c] # "none" => pc[c] = "done"

RegistrationInv ==
  /\ \A r \in Range(registrations) :
       /\ pc[r.call] # "idle"
       /\ r.type = "Ping" => Op[r.call] = "ping"
       /\ r.type = "Request" => Op[r.call] # "ping"
  /\ \A c \in pending_requests : pc[c] # "idle" /\ Op[c] # "ping"
  /\ ping # NoCall => pc[ping] # "idle" /\ Op[ping] = "ping"

BrokerInv ==
  /\ \A o \in Range(tx) : o.type = "command" => pc[o.call] # "idle"
  /\ \A c \in requests : pc[c] # "idle"
  /\ \A c \in exclusive : pc[c] # "idle" /\ Op[c] # "ping"

ReplyInv ==
  /\ \A m \in Range(inbound) : m.kind \in ReplyKinds \ {"pong"} => IsReplyTo(m)
  /\ \A m \in received_messages : IsReplyTo(m)

\* ResolverHeld, from the moment the registration is queued.
HeldInv ==
  \A c \in Calls :
    /\ pc[c] \in Waiting \cup {"transmit"} /\ Op[c] # "ping"
    /\ answer[c] = NoMessage
    /\ receiver = "running"
    => Held(c)

RoutingInv ==
  /\ KeyInv /\ CallInv /\ RegistrationInv /\ BrokerInv /\ ReplyInv
  /\ Correlation /\ NoStrandedReply /\ HeldInv

\* The channel of subscribe call c is in the map, or queued before index n.
ChannelBefore(c, n) ==
  \/ Registered(ConsumerOf[c])
  \/ \E j \in 1..Len(registrations) :
       /\ j < n
       /\ registrations[j] = [type |-> "Consumer", call |-> c]

\* The channel of a subscription is ahead of the request in the queue ...
QueueInv ==
  \A i \in 1..Len(registrations) :
    registrations[i].type = "Request" /\ Op[registrations[i].call] = "subscribe"
      => ChannelBefore(registrations[i].call, i)

\* ... of the request's reply ...
SubscribeInv ==
  \A c \in Calls : Op[c] = "subscribe" =>
    /\ pc[c] = "register" => ChannelBefore(c, Len(registrations) + 1)
    /\ c \in pending_requests \/ answer[c] # NoMessage \/ result[c] = "ok"
         => Registered(ConsumerOf[c])

\* ... and of the permits and messages that follow it.
PermitInv ==
  /\ \A o \in Range(tx) : o.type = "flow" => Registered(o.consumer)
  /\ \A id \in Consumers : permits[id] > 0 => Registered(id)
  /\ \A m \in Range(inbound) : m.kind = "message" => Registered(m.consumer)

DeliveryInv ==
  receiver = "running" => QueueInv /\ SubscribeInv /\ PermitInv

\* The Receiver ends only with the socket or with the Connection.
EndInv ==
  /\ receiver = "ended" => socket = "closed" \/ dropped
  /\ \A m \in Range(inbound) : m.kind \in {"eof", "io_error"} => socket = "closed"

=============================================================================
