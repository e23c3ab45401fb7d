-------------------------- MODULE ConnectionProofs --------------------------
(***************************************************************************)
(* Proofs about Connection, for any set of calls, consumers and bounds:    *)
(* its types; RoutingInv, EndInv and NoFalseAlarm, by which requests and   *)
(* replies are matched and the error flag is right; DeliveryInv, by which  *)
(* no message of a subscription is lost; and the refinement of Rpc, where  *)
(* the messages for a call are followed step by step: the not_ready of a   *)
(* create_producer is in one place at a time, by OnceInv of ConnectionRpc. *)
(***************************************************************************)
EXTENDS ConnectionRpc, SequenceLemmas

USE ZenonT(8), SMTT(60) DEF callers, flags, state, broker

-----------------------------------------------------------------------------
(* Type correctness *)

\* Every value a handler appends to a channel belongs to the channel.
LEMMA ValueTypes ==
  ASSUME key \in [Calls -> Keys \cup {NoKey}]
  PROVE  /\ \A c \in Calls, k \in ReplyKinds : Reply(k, c) \in Message
         /\ \A id \in Consumers, k \in {"message", "close_consumer"} :
              \A x \in Keys \cup {NoKey} : ToConsumer(k, x, id) \in Message
         /\ \A k \in {"ping", "unknown", "eof", "io_error"} : Bare(k) \in Message
         /\ \A c \in Calls : Command(c) \in Outbound
         /\ \A id \in Consumers : Flow(id) \in Outbound
         /\ Pong \in Outbound
  BY DEF Reply, ToConsumer, Bare, Message, Outbound

\* A registration is a type and a call.
LEMMA RegisterTypes ==
  \A c \in Calls : \A t \in {"Request", "Consumer", "Ping"} :
    [type |-> t, call |-> c] \in Register
  BY DEF Register

\* The keys of requests and of sent messages are keys.
LEMMA KeyTypes ==
  /\ \A n \in Nat : <<"RequestId", n>> \in Keys
  /\ \A c \in Calls : <<"ProducerSend", c>> \in Keys
  BY DEF Keys

\* A connection starts well typed.
LEMMA InitType == Init => TypeOK
  <1> SUFFICES ASSUME Init PROVE TypeOK
    OBVIOUS
  <1>1. error_set \in BOOLEAN /\ dropped \in BOOLEAN
    BY DEF Init
  <1> QED
    BY <1>1 DEF Init, TypeOK, Places, Results

\* The caller's side keeps the types.
LEMMA CallerType ==
  ASSUME TypeOK, NEW c \in Calls,
         Begin(c) \/ CallStep(c) \/ Timeout(c) \/ SendFlow(c)
  PROVE  TypeOK'
  <1>1. CASE Begin(c)
    <2>1. pc' \in [Calls -> Places]
      BY <1>1 DEF Begin, FirstStep, NextId, TypeOK, Places
    <2>2. key' \in [Calls -> Keys \cup {NoKey}]
      BY <1>1, KeyTypes DEF Begin, FirstStep, NextId, TypeOK
    <2>3. request_id' \in Nat
      BY <1>1 DEF Begin, FirstStep, NextId, TypeOK
    <2> QED
      BY <1>1, <2>1, <2>2, <2>3 DEF Begin, FirstStep, NextId, TypeOK
  <1>2. CASE RegisterConsumer(c)
    <2>1. error_set' \in BOOLEAN
      BY <1>2 DEF RegisterConsumer, SetError, TypeOK
    <2>2. registrations' \in Seq(Register)
      <3>1. registrations \in Seq(Register)
        BY DEF TypeOK
      <3> QED
        BY <1>2, <3>1, RegisterTypes,
             AppendType DEF RegisterConsumer
    <2>3. pc' \in [Calls -> Places] /\ result' \in [Calls -> Results]
      BY <1>2 DEF RegisterConsumer, Return, TypeOK, Places, Results
    <2> QED
      BY <1>2, <2>1, <2>2, <2>3 DEF RegisterConsumer, SetError, TypeOK
  <1>3. CASE RegisterCall(c)
    <2>1. registrations' \in Seq(Register)
      <3>1. registrations \in Seq(Register)
        BY DEF TypeOK
      <3> QED
        BY <1>3, <3>1, RegisterTypes, AppendType DEF RegisterCall
    <2>2. pc' \in [Calls -> Places]
      BY <1>3 DEF RegisterCall, TypeOK, Places
    <2> QED
      BY <1>3, <2>1, <2>2 DEF RegisterCall, TypeOK
  <1>4. CASE Transmit(c)
    <2>1. tx' \in Seq(Outbound)
      <3>1. tx \in Seq(Outbound) /\ Command(c) \in Outbound
        BY DEF TypeOK, Outbound
      <3> QED
        BY <1>4, <3>1, AppendType DEF Transmit
    <2>2. pc' \in [Calls -> Places] /\ result' \in [Calls -> Results]
      BY <1>4 DEF Transmit, Return, TypeOK, Places, Results, Waiting
    <2> QED
      BY <1>4, <2>1, <2>2 DEF Transmit, TypeOK
  <1>5. CASE Resolve(c)
    <2>1. Outcome(answer[c]) \in Results
      BY DEF Outcome, Results
    <2>2. pc' \in [Calls -> Places] /\ result' \in [Calls -> Results]
      BY ZenonT(60), <1>5, <2>1 DEF Resolve, Return, TypeOK, Places
    <2> QED
      BY <1>5, <2>2 DEF Resolve, TypeOK
  <1>6. CASE RegisterWait(c)
    <2>1. registrations' \in Seq(Register)
      <3>1. registrations \in Seq(Register)
        BY DEF TypeOK
      <3> QED
        BY <1>6, <3>1, RegisterTypes, AppendType DEF RegisterWait
    <2>2. pc' \in [Calls -> Places] /\ result' \in [Calls -> Results]
      BY <1>6 DEF RegisterWait, Return, TypeOK, Places, Results,
           Waiting
    <2> QED
      BY <1>6, <2>1, <2>2 DEF RegisterWait, TypeOK
  <1>7. CASE Canceled(c)
    <2>1. error_set' \in BOOLEAN
      BY <1>7 DEF Canceled, SetError
    <2>2. pc' \in [Calls -> Places] /\ result' \in [Calls -> Results]
      BY <1>7 DEF Canceled, Return, TypeOK, Places, Results
    <2> QED
      BY <1>7, <2>1, <2>2 DEF Canceled, SetError, TypeOK
  <1>8. CASE Timeout(c)
    <2>1. error_set' \in BOOLEAN
      BY <1>8 DEF Timeout, TimeoutError, SetError, TypeOK
    <2>2. pc' \in [Calls -> Places] /\ result' \in [Calls -> Results]
      BY <1>8 DEF Timeout, Return, TypeOK, Places, Results
    <2> QED
      BY <1>8, <2>1, <2>2 DEF Timeout, TimeoutError, SetError, TypeOK
  <1>9. CASE SendFlow(c)
    <2>1. ConsumerOf[c] \in Consumers
      BY CallsAssumption
    <2>2. tx' \in Seq(Outbound)
      <3>1. tx \in Seq(Outbound) /\ Flow(ConsumerOf[c]) \in Outbound
        BY <2>1 DEF TypeOK, Outbound
      <3> QED
        BY <1>9, <3>1, AppendType DEF SendFlow
    <2>3. flows' \in [Consumers -> Nat]
      BY <1>9, <2>1 DEF SendFlow, TypeOK
    <2> QED
      BY <1>9, <2>2, <2>3 DEF SendFlow, TypeOK
  <1> QED
    BY <1>1, <1>2, <1>3, <1>4, <1>5, <1>6, <1>7, <1>8, <1>9 DEF CallStep

\* The Receiver's poll keeps the types.
LEMMA ReceiverType ==
  ASSUME TypeOK, PollReceiver
  PROVE  TypeOK'
  <1>1. CASE PollShutdown
    <2>1. error_set' \in BOOLEAN /\ dropped' \in BOOLEAN
      BY <1>1 DEF PollShutdown, TypeOK
    <2>2. registrations' \in Seq(Register)
      BY <1>1, EmptyType DEF PollShutdown, ReceiverEnds, TypeOK
    <2> QED
      BY <1>1, <2>1, <2>2 DEF PollShutdown, ReceiverEnds, TypeOK
  <1>2. CASE PollRegistration
    <2> DEFINE r == Head(registrations)
    <2>1. r \in Register /\ Tail(registrations) \in Seq(Register)
      BY <1>2, PopType DEF PollRegistration, TypeOK
    <2>2. r.call \in Calls
      BY <2>1 DEF Register
    <2>3. ASSUME NEW c \in Calls, AddRequest(c)
          PROVE  /\ answer' \in [Calls -> Message \cup {NoMessage}]
                 /\ pending_requests' \subseteq Calls
                 /\ received_messages' \subseteq Message
                 /\ consumers' = consumers /\ ping' = ping
      BY <2>3 DEF AddRequest, Parked, TypeOK
    <2>4. ASSUME NEW c \in Calls, AddConsumer(c) \/ AddPing(c)
          PROVE  /\ UNCHANGED <<answer, pending_requests, received_messages>>
                 /\ consumers' \subseteq Calls
                 /\ ping' \in Calls \cup {NoCall}
      BY <2>4 DEF AddConsumer, AddPing, TypeOK
    <2>5. /\ answer' \in [Calls -> Message \cup {NoMessage}]
          /\ pending_requests' \subseteq Calls
          /\ received_messages' \subseteq Message
          /\ consumers' \subseteq Calls
          /\ ping' \in Calls \cup {NoCall}
      BY <1>2, <2>2, <2>3, <2>4 DEF PollRegistration, TypeOK
    <2> QED
      BY <1>2, <2>1, <2>5 DEF PollRegistration, TypeOK
  <1>3. CASE RegistrationsDone
    <2>1. error_set' \in BOOLEAN
      BY <1>3 DEF RegistrationsDone, SetError, TypeOK
    <2> QED
      BY <1>3, <2>1 DEF RegistrationsDone, SetError, ReceiverEnds,
           TypeOK
  <1>4. CASE PollInbound
    <2> DEFINE m == Head(inbound)
    <2>1. m \in Message /\ Tail(inbound) \in Seq(Message)
      BY <1>4, PopType DEF PollInbound, TypeOK
    <2>2. /\ answer' \in [Calls -> Message \cup {NoMessage}]
          /\ pending_requests' \subseteq Calls
          /\ received_messages' \subseteq Message
          /\ tx' \in Seq(Outbound)
          /\ ping' \in Calls \cup {NoCall}
          /\ lost' \subseteq {"message", "close_consumer"}
      <3> USE DEF TypeOK
      <3>1. ASSUME HandleReply(m)
            PROVE  /\ answer' \in [Calls -> Message \cup {NoMessage}]
                   /\ pending_requests' \subseteq Calls
                   /\ received_messages' \subseteq Message
                   /\ UNCHANGED <<tx, ping, lost>>
        BY <2>1, <3>1 DEF HandleReply
      <3>2. CASE m.kind = "ping" /\ HandlePing
        BY <3>2, AppendType DEF HandlePing, Outbound
      <3>3. CASE m.kind = "pong" /\ HandlePong(m)
        BY <2>1, <3>3 DEF HandlePong
      <3>4. CASE m.kind = "message" /\ HandleConsumerMessage(m)
        BY <3>4 DEF HandleConsumerMessage
      <3>5. CASE m.kind = "close_consumer" /\ HandleCloseConsumer(m)
        BY <3>5, <3>1 DEF HandleCloseConsumer, HandleConsumerMessage
      <3> QED
        BY <1>4, <3>1, <3>2, <3>3, <3>4, <3>5 DEF PollInbound
    <2> QED
      BY <1>4, <2>1, <2>2 DEF PollInbound, TypeOK
  <1>5. CASE InboundEnd
    <2>1. error_set' \in BOOLEAN
      BY <1>5 DEF InboundEnd, SetError
    <2>2. inbound' \in Seq(Message)
      BY <1>5, PopType DEF InboundEnd, TypeOK
    <2> QED
      BY <1>5, <2>1, <2>2 DEF InboundEnd, SetError, ReceiverEnds, TypeOK
  <1>6. CASE InboundPending
    BY <1>6 DEF InboundPending, TypeOK
  <1> QED
    BY <1>1, <1>2, <1>3, <1>4, <1>5, <1>6 DEF PollReceiver

\* The sender task, the broker, the socket and the owner keep the types.
LEMMA OtherType ==
  ASSUME TypeOK, TakeError \/ DropConnection \/ SenderTask \/ Broker
  PROVE  TypeOK'
  <1>1. CASE TakeError
    <2>1. error_set' \in BOOLEAN
      BY <1>1 DEF TakeError
    <2> QED
      BY <1>1, <2>1 DEF TakeError, TypeOK
  <1>2. CASE DropConnection
    <2>1. dropped' \in BOOLEAN
      BY <1>2 DEF DropConnection
    <2> QED
      BY <1>2, <2>1 DEF DropConnection, TypeOK
  <1>3. CASE SendNext
    <2>1. Head(tx) \in Outbound /\ Tail(tx) \in Seq(Outbound)
      BY <1>3, PopType DEF SendNext, TypeOK
    <2>2. requests' \subseteq Calls
      <3>1. Head(tx).type = "command" => Head(tx).call \in Calls
        BY <2>1 DEF Outbound, Command, Flow, Pong
      <3> QED
        BY <1>3, <3>1 DEF SendNext, BrokerReads, TypeOK
    <2>3. permits' \in [Consumers -> Nat]
      BY <1>3 DEF SendNext, BrokerReads, TypeOK
    <2>4. error_set' \in BOOLEAN
      BY <1>3 DEF SendNext, SetError, TypeOK
    <2>5. tx' \in Seq(Outbound)
      <3>1. tx' = Tail(tx) \/ tx' = <<>>
        BY <1>3 DEF SendNext
      <3> QED
        BY <2>1, <3>1, EmptyType
    <2>6. sender_task' \in {"running", "ended"}
      BY <1>3 DEF SendNext
    <2> QED
      BY <1>3, <2>2, <2>3, <2>4, <2>5, <2>6 DEF SendNext, SetError,
           BrokerReads, TypeOK
  <1>4. CASE SenderDone
    BY <1>4 DEF SenderDone, TypeOK
  <1>5. ASSUME NEW m \in Message, inbound' = Append(inbound, m)
        PROVE  inbound' \in Seq(Message)
    <2>1. inbound \in Seq(Message)
      BY DEF TypeOK
    <2> QED
      BY <1>5, <2>1, AppendType
  <1>6. ASSUME NEW c \in Calls, BrokerAnswers(c)
        PROVE  TypeOK'
    <2>1. ReplyKindsOf(c) \subseteq ReplyKinds
      BY DEF ReplyKindsOf, ReplyKinds
    <2>2. inbound' \in Seq(Message)
      <3>1. PICK kind \in ReplyKinds : inbound' = Append(inbound, Reply(kind, c))
        BY <1>6, <2>1 DEF BrokerAnswers
      <3> QED
        BY <1>5, <3>1, ValueTypes DEF TypeOK
    <2> QED
      BY <1>6, <2>2, CallsAssumption DEF BrokerAnswers, TypeOK
  <1>7. ASSUME NEW c \in Calls, BrokerGrantsAccess(c)
        PROVE  TypeOK'
    <2>1. inbound' \in Seq(Message)
      <3>1. Reply("response", c) \in Message /\ Reply("error", c) \in Message
        BY ValueTypes DEF ReplyKinds, TypeOK
      <3> QED
        BY <1>5, <1>7, <3>1 DEF BrokerGrantsAccess
    <2> QED
      BY <1>7, <2>1 DEF BrokerGrantsAccess, TypeOK
  <1>8. ASSUME NEW id \in Consumers, BrokerSendsMessage(id)
        PROVE  TypeOK'
    <2>1. inbound' \in Seq(Message)
      <3>1. ToConsumer("message", NoKey, id) \in Message
        BY ValueTypes DEF TypeOK
      <3> QED
        BY <1>5, <1>8, <3>1 DEF BrokerSendsMessage
    <2> QED
      BY <1>8, <2>1 DEF BrokerSendsMessage, TypeOK
  <1>9. ASSUME NEW id \in Consumers, BrokerClosesConsumer(id)
        PROVE  TypeOK'
    <2>1. inbound' \in Seq(Message)
      <3>1. PICK n \in CloseIds : inbound' =
              Append(inbound, ToConsumer("close_consumer", <<"RequestId", n>>, id))
        BY <1>9 DEF BrokerClosesConsumer
      <3>2. <<"RequestId", n>> \in Keys
        BY KeyTypes, CallsAssumption
      <3>3. ToConsumer("close_consumer", <<"RequestId", n>>, id) \in Message
        BY <3>2, ValueTypes DEF TypeOK
      <3> QED
        BY <1>5, <3>1, <3>3
    <2> QED
      BY <1>9, <2>1 DEF BrokerClosesConsumer, TypeOK
  <1>10. CASE BrokerPushes
    <2>1. inbound' \in Seq(Message)
      BY <1>5, <1>10, ValueTypes DEF BrokerPushes, TypeOK
    <2> QED
      BY <1>10, <2>1 DEF BrokerPushes, TypeOK
  <1>11. CASE SocketBreaks
    <2>1. inbound' \in Seq(Message)
      BY <1>5, <1>11, ValueTypes DEF SocketBreaks, TypeOK
    <2> QED
      BY <1>11, <2>1 DEF SocketBreaks, TypeOK
  <1> QED
    BY <1>1, <1>2, <1>3, <1>4, <1>6, <1>7, <1>8, <1>9, <1>10, <1>11
       DEF SenderTask, Broker

\* Every reachable state of the connection is well typed.
THEOREM TypeCorrect == Spec => []TypeOK
  <1>1. Init => TypeOK
    BY InitType
  <1>2. TypeOK /\ [Next]_vars => TypeOK'
    <2>1. CASE UNCHANGED vars
      BY <2>1 DEF vars, TypeOK
    <2>2. CASE Next
      BY <2>2, CallerType, ReceiverType, OtherType DEF Next
    <2> QED
      BY <2>1, <2>2
  <1> QED
    BY <1>1, <1>2, PTL DEF Spec


-----------------------------------------------------------------------------
(* Correlation, parked replies and held resolvers: the steps of the callers, *)
(* of the broker and of the end of the Receiver preserve RoutingInv *)

\* The steps that only change variables that RoutingInv does not mention, or
\* shrink the sets it quantifies over.
LEMMA QuietSteps ==
  ASSUME TypeOK, RoutingInv,
         \/ TakeError \/ DropConnection \/ SenderDone
         \/ InboundPending \/ BrokerPushes \/ SocketBreaks
         \/ \E id \in Consumers : BrokerSendsMessage(id) \/ BrokerClosesConsumer(id)
  PROVE  RoutingInv'
  <1>1. UNCHANGED <<pc, key, answer, result, request_id, registrations, tx,
                    receiver, pending_requests, received_messages, ping,
                    requests, exclusive>>
    BY DEF TakeError, DropConnection, SenderDone, InboundPending, BrokerPushes,
           SocketBreaks, BrokerSendsMessage, BrokerClosesConsumer
  <1>2. \A m \in Range(inbound') :
          m \in Range(inbound) \/ m.kind \notin ReplyKinds
    <2>1. inbound \in Seq(Message)
      BY DEF TypeOK
    <2>2. \/ inbound' = inbound
          \/ \E m \in Message : inbound' = Append(inbound, m) /\ m.kind \notin ReplyKinds
      <3>1. CASE BrokerPushes \/ SocketBreaks
        <4>1. \A k \in {"ping", "unknown", "eof", "io_error"} :
                Bare(k) \in Message /\ Bare(k).kind \notin ReplyKinds
          BY ValueTypes DEF TypeOK, Bare, ReplyKinds
        <4> QED
          BY <3>1, <4>1 DEF BrokerPushes, SocketBreaks
      <3>2. ASSUME NEW id \in Consumers,
                   BrokerSendsMessage(id) \/ BrokerClosesConsumer(id)
            PROVE  \E m \in Message : inbound' = Append(inbound, m)
                                     /\ m.kind \notin ReplyKinds
        <4>1. \A k \in {"message", "close_consumer"}, x \in Keys \cup {NoKey} :
                /\ ToConsumer(k, x, id) \in Message
                /\ ToConsumer(k, x, id).kind \notin ReplyKinds
          BY ValueTypes DEF TypeOK, ToConsumer, ReplyKinds
        <4>2. \A n \in CloseIds : <<"RequestId", n>> \in Keys
          BY KeyTypes, CallsAssumption
        <4> QED
          BY <3>2, <4>1, <4>2 DEF BrokerSendsMessage,
               BrokerClosesConsumer
      <3> QED
        BY <3>1, <3>2
           DEF TakeError, DropConnection, SenderDone, InboundPending
    <2>3. \A m \in Message :
            inbound' = Append(inbound, m) => Range(inbound') = Range(inbound) \cup {m}
      BY <2>1, RangeAppend
    <2> QED
      BY <2>2, <2>3
  <1>3. KeyInv'
    BY <1>1 DEF RoutingInv, KeyInv
  <1>4. CallInv'
    BY <1>1 DEF RoutingInv, CallInv
  <1>5. RegistrationInv'
    BY <1>1 DEF RoutingInv, RegistrationInv
  <1>6. BrokerInv'
    BY <1>1 DEF RoutingInv, BrokerInv
  <1>7. ReplyInv'
    BY <1>1, <1>2 DEF RoutingInv, ReplyInv, IsReplyTo
  <1>8. Correlation' /\ NoStrandedReply'
    BY <1>1 DEF RoutingInv, Correlation, NoStrandedReply
  <1>9. HeldInv'
    BY <1>1 DEF RoutingInv, HeldInv, Held
  <1> QED
    BY <1>3, <1>4, <1>5, <1>6, <1>7, <1>8, <1>9 DEF RoutingInv

\* A call that begins takes a key no other call in progress has.
LEMMA BeginStep ==
  ASSUME TypeOK, RoutingInv, NEW c \in Calls, Begin(c)
  PROVE  RoutingInv'
  <1>1. /\ pc[c] = "idle" /\ key[c] = NoKey /\ answer[c] = NoMessage
        /\ pc'[c] \in {"consumer", "register"}
        /\ \A d \in Calls : d # c => pc'[d] = pc[d] /\ key'[d] = key[d]
    BY DEF Begin, FirstStep, RoutingInv, KeyInv, CallInv, TypeOK
  <1>2. UNCHANGED <<answer, result, registrations, tx, receiver,
                    pending_requests, received_messages, ping, inbound,
                    requests, exclusive>>
    BY DEF Begin
  <1>3. KeyInv'
    <2>1. request_id \in Nat /\ request_id' \in Nat /\ request_id <= request_id'
      BY DEF Begin, NextId, TypeOK
    <2>2. /\ Op[c] = "send" => key'[c] = <<"ProducerSend", c>>
          /\ Op[c] = "ping" => key'[c] = NoKey
          /\ Op[c] \notin {"send", "ping"} =>
               key'[c] = <<"RequestId", request_id>> /\ request_id < request_id'
      BY <1>1, <2>1 DEF Begin, NextId, TypeOK
    <2>3. ASSUME NEW d \in Calls, d # c
          PROVE  key'[c] = key'[d] => key'[c] = NoKey
      <3>1. \/ key[d] = NoKey
            \/ key[d] = <<"ProducerSend", d>>
            \/ \E n \in 0..request_id : n < request_id /\ key[d] = <<"RequestId", n>>
        BY DEF RoutingInv, KeyInv
      <3> QED
        BY <1>1, <2>1, <2>2, <2>3, <3>1
    <2>4. ASSUME NEW d \in Calls
          PROVE  \A e \in Calls : key'[d] = key'[e] => d = e \/ key'[d] = NoKey
      BY <1>1, <2>3 DEF RoutingInv, KeyInv
    <2>5. ASSUME NEW d \in Calls, pc'[d] # "idle", Op[d] \notin {"send", "ping"}
          PROVE  \E n \in 0..request_id' :
                   n < request_id' /\ key'[d] = <<"RequestId", n>>
      <3>1. CASE d = c
        BY <2>1, <2>2, <2>5, <3>1
      <3>2. CASE d # c
        BY <1>1, <2>1, <2>5, <3>2 DEF RoutingInv, KeyInv
      <3> QED
        BY <3>1, <3>2
    <2>6. ASSUME NEW d \in Calls
          PROVE  /\ pc'[d] = "idle" \/ Op[d] = "ping" => key'[d] = NoKey
                 /\ pc'[d] # "idle" /\ Op[d] = "send" =>
                      key'[d] = <<"ProducerSend", d>>
      BY <1>1, <2>2 DEF RoutingInv, KeyInv
    <2> QED
      BY <2>4, <2>5, <2>6 DEF KeyInv
  <1>4. CallInv'
    BY <1>1, <1>2 DEF RoutingInv, CallInv, TypeOK
  <1>5. RegistrationInv'
    <2>1. Range(registrations) \subseteq Register
      BY RangeType DEF TypeOK
    <2>2. \A r \in Range(registrations) : r.call \in Calls
      BY <2>1 DEF Register
    <2> QED
      BY <1>1, <1>2, <2>2 DEF RoutingInv, RegistrationInv, TypeOK
  <1>6. BrokerInv'
    <2>1. \A o \in Range(tx) : o.type = "command" => o.call \in Calls
      BY RangeType DEF TypeOK, Outbound, Command, Flow, Pong
    <2> QED
      BY <1>1, <1>2, <2>1 DEF RoutingInv, BrokerInv, TypeOK
  <1>7. ReplyInv'
    BY <1>1, <1>2 DEF RoutingInv, ReplyInv, IsReplyTo
  <1>8. Correlation'
    BY <1>1, <1>2 DEF RoutingInv, Correlation
  <1>9. NoStrandedReply'
    BY <1>1, <1>2 DEF RoutingInv, NoStrandedReply, RegistrationInv, TypeOK
  <1>10. HeldInv'
    BY <1>1, <1>2 DEF RoutingInv, HeldInv, Held, Waiting
  <1> QED
    BY <1>3, <1>4, <1>5, <1>6, <1>7, <1>8, <1>9, <1>10 DEF RoutingInv

\* The other steps of a call keep its key and do not return it to "idle".
LEMMA CallFrame ==
  ASSUME TypeOK, NEW c \in Calls, CallStep(c) \/ Timeout(c) \/ SendFlow(c)
  PROVE  /\ UNCHANGED <<key, request_id, receiver, pending_requests,
                        received_messages, ping, inbound, requests, exclusive>>
         /\ \A d \in Calls : d # c => pc'[d] = pc[d] /\ answer'[d] = answer[d]
                                                     /\ result'[d] = result[d]
         /\ pc'[c] = "idle" <=> pc[c] = "idle"
         /\ pc[c] = "done" => pc'[c] = "done" /\ result' = result
         /\ answer'[c] \in {answer[c], NoMessage}
         /\ pc[c] = "idle" => answer' = answer
         /\ result'[c] # result[c] => pc'[c] = "done"
         /\ pc'[c] = "exclusive" /\ pc[c] # "exclusive" => Op[c] = "create_producer"
         /\ pc'[c] = "waiting_exclusive" =>
              pc[c] \in {"exclusive", "waiting_exclusive"}
  <1> USE DEF TypeOK
  <1>1. CASE RegisterConsumer(c)
    BY <1>1 DEF RegisterConsumer, Return
  <1>2. CASE RegisterCall(c)
    BY <1>2 DEF RegisterCall
  <1>3. CASE Transmit(c)
    BY <1>3 DEF Transmit, Return
  <1>4. CASE Resolve(c)
    <2>1. /\ pc[c] \in {"waiting", "waiting_exclusive"}
          /\ UNCHANGED <<key, request_id, receiver, pending_requests,
                         received_messages, ping, inbound, requests, exclusive>>
      BY <1>4 DEF Resolve, Waiting
    <2>2. \/ /\ pc' = [pc EXCEPT ![c] = "exclusive"] /\ UNCHANGED result
             /\ answer' = [answer EXCEPT ![c] = NoMessage]
             /\ Op[c] = "create_producer"
          \/ /\ pc' = [pc EXCEPT ![c] = "done"] /\ UNCHANGED answer
             /\ result' = [result EXCEPT ![c] = Outcome(answer[c])]
      BY <1>4 DEF Resolve, Return
    <2> QED
      BY <2>1, <2>2
  <1>5. CASE RegisterWait(c)
    BY <1>5 DEF RegisterWait, Return
  <1>6. CASE Canceled(c)
    BY <1>6 DEF Canceled, Return, Waiting
  <1>7. CASE Timeout(c)
    BY <1>7 DEF Timeout, Timed, Return
  <1>8. CASE SendFlow(c)
    BY <1>8 DEF SendFlow
  <1> QED
    BY <1>1, <1>2, <1>3, <1>4, <1>5, <1>6, <1>7, <1>8 DEF CallStep

\* What a call queues: its own registration, its own command, or a flow.
LEMMA CallQueues ==
  ASSUME TypeOK, CallInv,
         NEW c \in Calls, CallStep(c) \/ Timeout(c) \/ SendFlow(c)
  PROVE  /\ \/ registrations' = registrations
            \/ \E r \in Register :
                 /\ registrations' = Append(registrations, r)
                 /\ r.call = c /\ pc[c] # "idle"
                 /\ r.type = "Ping" => Op[c] = "ping"
                 /\ r.type = "Request" => Op[c] # "ping"
         /\ \/ tx' = tx
            \/ tx' = Append(tx, Command(c)) /\ pc[c] # "idle"
            \/ tx' = Append(tx, Flow(ConsumerOf[c]))
         /\ pc'[c] \in Waiting \cup {"transmit"} =>
              \/ pc[c] \in Waiting \cup {"transmit"} /\ answer' = answer
              \/ \E r \in Register : /\ registrations' = Append(registrations, r)
                                     /\ r.call = c /\ r.type # "Consumer"
  <1> USE RegisterTypes DEF Waiting
  <1>1. CASE RegisterConsumer(c)
    BY <1>1 DEF RegisterConsumer, Return, TypeOK
  <1>2. CASE RegisterCall(c)
    BY <1>2 DEF RegisterCall, TypeOK
  <1>3. CASE Transmit(c)
    BY <1>3 DEF Transmit, Return, TypeOK
  <1>4. CASE Resolve(c)
    BY <1>4 DEF Resolve, Return, TypeOK
  <1>5. CASE RegisterWait(c)
    BY ZenonT(60), <1>5 DEF RegisterWait, Return, TypeOK, CallInv
  <1>6. CASE Canceled(c)
    BY <1>6 DEF Canceled, Return, TypeOK
  <1>7. CASE Timeout(c)
    BY <1>7 DEF Timeout, Timed, Return, TypeOK
  <1>8. CASE SendFlow(c)
    BY <1>8 DEF SendFlow
  <1> QED
    BY <1>1, <1>2, <1>3, <1>4, <1>5, <1>6, <1>7, <1>8 DEF CallStep

\* Every step of a call preserves the routing invariant.
LEMMA CallSteps ==
  ASSUME TypeOK, RoutingInv,
         NEW c \in Calls, CallStep(c) \/ Timeout(c) \/ SendFlow(c)
  PROVE  RoutingInv'
  <1> USE CallFrame
  <1>1. KeyInv'
    BY DEF RoutingInv, KeyInv
  <1>2. CallInv'
    BY DEF RoutingInv, CallInv
  <1>3. registrations \in Seq(Register) /\ tx \in Seq(Outbound)
    BY DEF TypeOK
  <1>4. \A r \in Register : registrations' = Append(registrations, r) =>
          Range(registrations') = Range(registrations) \cup {r}
    BY <1>3, RangeAppend
  <1>5. RegistrationInv'
    <2>1. \A r \in Range(registrations) : r.call \in Calls
      <3>1. Range(registrations) \subseteq Register
        BY <1>3, RangeType
      <3> QED
        BY <3>1 DEF Register
    <2> QED
      BY <1>4, <2>1, CallQueues DEF RoutingInv, RegistrationInv,
           TypeOK
  <1>6. BrokerInv'
    <2>1. /\ \A o \in Range(tx) : o.type = "command" => o.call \in Calls
          /\ Command(c) \in Outbound /\ Flow(ConsumerOf[c]) \in Outbound
      BY <1>3, RangeType, CallsAssumption DEF Outbound, Command, Flow, Pong
    <2>2. \A o \in Outbound :
            tx' = Append(tx, o) => Range(tx') = Range(tx) \cup {o}
      BY <1>3, RangeAppend
    <2>3. \A o \in Range(tx') : o.type = "command" =>
            o \in Range(tx) \/ (o.call = c /\ pc[c] # "idle")
      BY <2>1, <2>2, CallQueues DEF RoutingInv, Command, Flow
    <2>4. \A d \in Calls : pc[d] # "idle" => pc'[d] # "idle"
      OBVIOUS
    <2>5. requests \subseteq Calls /\ exclusive \subseteq Calls
      BY DEF TypeOK
    <2> QED
      BY <2>1, <2>3, <2>4, <2>5 DEF RoutingInv, BrokerInv
  <1>7. ReplyInv'
    BY DEF RoutingInv, ReplyInv, IsReplyTo
  <1>8. Correlation'
    BY DEF RoutingInv, Correlation
  <1>9. NoStrandedReply'
    BY DEF RoutingInv, NoStrandedReply
  <1>10. HeldInv'
    <2>1. Range(registrations) \subseteq Range(registrations')
      BY <1>4, CallQueues DEF RoutingInv
    <2>2. \A d \in Calls : Held(d) => Held(d)'
      BY <2>1 DEF Held
    <2>3. \/ pc'[c] \notin Waiting \cup {"transmit"}
          \/ pc[c] \in Waiting \cup {"transmit"} /\ answer' = answer
          \/ Held(c)'
      BY <1>4, CallQueues DEF RoutingInv, Held
    <2> QED
      BY <2>2, <2>3 DEF RoutingInv, HeldInv
  <1> QED
    BY <1>1, <1>2, <1>5, <1>6, <1>7, <1>8, <1>9, <1>10 DEF RoutingInv

\* A call that the broker can answer has a key.
LEMMA HasKey ==
  ASSUME TypeOK, KeyInv, NEW c \in Calls, pc[c] # "idle", Op[c] # "ping"
  PROVE  key[c] # NoKey
  <1>1. CASE Op[c] = "send"
    BY <1>1, KeyTypes, NullAssumption DEF KeyInv
  <1>2. CASE Op[c] # "send"
    <2>1. PICK n \in Nat : key[c] = <<"RequestId", n>>
      BY <1>2 DEF KeyInv, TypeOK
    <2> QED
      BY <2>1, KeyTypes, NullAssumption
  <1> QED
    BY <1>1, <1>2

\* The broker's answers carry the key of the call they answer.
LEMMA AnswerSteps ==
  ASSUME TypeOK, RoutingInv,
         NEW c \in Calls, BrokerAnswers(c) \/ BrokerGrantsAccess(c)
  PROVE  RoutingInv'
  <1>1. UNCHANGED <<pc, key, answer, result, request_id, registrations, tx,
                    receiver, pending_requests, received_messages, ping>>
    BY DEF BrokerAnswers, BrokerGrantsAccess
  <1>2. PICK k \in ReplyKinds :
          /\ inbound' = Append(inbound, Reply(k, c))
          /\ Op[c] = "ping" => k = "pong"
          /\ requests' \subseteq requests
          /\ exclusive' \subseteq exclusive \cup {c}
          /\ c \in exclusive' => Op[c] # "ping"
          /\ pc[c] # "idle"
    BY DEF BrokerAnswers, BrokerGrantsAccess, ReplyKindsOf, ReplyKinds,
           RoutingInv, BrokerInv
  <1>3. KeyInv'
    BY <1>1 DEF RoutingInv, KeyInv
  <1>4. CallInv'
    BY <1>1 DEF RoutingInv, CallInv
  <1>5. RegistrationInv'
    BY <1>1 DEF RoutingInv, RegistrationInv
  <1>6. BrokerInv'
    BY <1>1, <1>2 DEF RoutingInv, BrokerInv
  <1>7. ReplyInv'
    <2>1. Range(inbound') = Range(inbound) \cup {Reply(k, c)}
      BY <1>2, ValueTypes, RangeAppend DEF TypeOK
    <2>2. Reply(k, c).kind = "pong" \/ IsReplyTo(Reply(k, c))
      <3>1. CASE Op[c] = "ping"
        BY <1>2, <3>1 DEF Reply
      <3>2. CASE Op[c] # "ping"
        <4>1. key[c] # NoKey
          BY <1>2, <3>2, HasKey DEF RoutingInv
        <4> QED
          BY <4>1 DEF Reply, IsReplyTo
      <3> QED
        BY <3>1, <3>2
    <2> QED
      BY <1>1, <2>1, <2>2 DEF RoutingInv, ReplyInv, IsReplyTo
  <1>8. Correlation' /\ NoStrandedReply'
    BY <1>1 DEF RoutingInv, Correlation, NoStrandedReply
  <1>9. HeldInv'
    BY <1>1 DEF RoutingInv, HeldInv, Held
  <1> QED
    BY <1>3, <1>4, <1>5, <1>6, <1>7, <1>8, <1>9 DEF RoutingInv

\* The sender task hands a command to the broker, with its key.
LEMMA SendStep ==
  ASSUME TypeOK, RoutingInv, SendNext
  PROVE  RoutingInv'
  <1>1. UNCHANGED <<pc, key, answer, result, request_id, registrations,
                    receiver, pending_requests, received_messages, ping,
                    inbound, exclusive>>
    BY DEF SendNext, BrokerReads
  <1>2. tx \in Seq(Outbound) /\ tx # <<>>
    BY DEF TypeOK, SendNext
  <1>3. Range(tx) = Range(Tail(tx)) \cup {Head(tx)}
    BY <1>2, RangeTail
  <1>4. Range(tx') \subseteq Range(tx)
    BY <1>3, RangeEmpty DEF SendNext
  <1>5. requests' \subseteq
          requests \cup {o.call : o \in {p \in Range(tx) : p.type = "command"}}
    BY <1>3 DEF SendNext, BrokerReads
  <1>6. BrokerInv'
    BY <1>1, <1>4, <1>5 DEF RoutingInv, BrokerInv
  <1>7. KeyInv' /\ CallInv'
    BY <1>1 DEF RoutingInv, KeyInv, CallInv
  <1>8. RegistrationInv' /\ ReplyInv'
    BY <1>1 DEF RoutingInv, RegistrationInv, ReplyInv, IsReplyTo
  <1>9. Correlation' /\ NoStrandedReply'
    BY <1>1 DEF RoutingInv, Correlation, NoStrandedReply
  <1>10. HeldInv'
    BY <1>1 DEF RoutingInv, HeldInv, Held
  <1> QED
    BY <1>6, <1>7, <1>8, <1>9, <1>10 DEF RoutingInv

\* The Receiver moves on in its poll, or ends and drops what it holds.
LEMMA EndSteps ==
  ASSUME TypeOK, RoutingInv, PollShutdown \/ RegistrationsDone \/ InboundEnd
  PROVE  RoutingInv'
  <1>1. UNCHANGED <<pc, key, answer, result, request_id, tx, requests, exclusive>>
    BY DEF PollShutdown, RegistrationsDone, InboundEnd
  <1>2. \/ UNCHANGED <<receiver, pending_requests, received_messages, ping,
                       registrations>>
        \/ /\ receiver' = "ended" /\ pending_requests' = {}
           /\ received_messages' = {} /\ ping' = NoCall /\ registrations' = <<>>
    BY DEF PollShutdown, RegistrationsDone, InboundEnd, ReceiverEnds
  <1>3. Range(inbound') \subseteq Range(inbound)
    <2>1. CASE InboundEnd
      <3>1. inbound \in Seq(Message) /\ inbound # <<>>
        BY <2>1 DEF InboundEnd, TypeOK
      <3>2. Range(inbound) = Range(Tail(inbound)) \cup {Head(inbound)}
        BY <3>1, RangeTail
      <3> QED
        BY <2>1, <3>2 DEF InboundEnd
    <2>2. CASE PollShutdown \/ RegistrationsDone
      BY <2>2 DEF PollShutdown, RegistrationsDone
    <2> QED
      BY <2>1, <2>2
  <1>4. KeyInv' /\ CallInv'
    BY <1>1 DEF RoutingInv, KeyInv, CallInv
  <1>5. BrokerInv' /\ Correlation'
    BY <1>1 DEF RoutingInv, BrokerInv, Correlation
  <1>6. RegistrationInv'
    BY <1>1, <1>2, RangeEmpty DEF RoutingInv, RegistrationInv
  <1>7. ReplyInv'
    BY <1>1, <1>2, <1>3 DEF RoutingInv, ReplyInv, IsReplyTo
  <1>8. NoStrandedReply'
    BY <1>1, <1>2 DEF RoutingInv, NoStrandedReply
  <1>9. HeldInv'
    BY <1>1, <1>2 DEF RoutingInv, HeldInv, Held
  <1> QED
    BY <1>4, <1>5, <1>6, <1>7, <1>8, <1>9 DEF RoutingInv

-----------------------------------------------------------------------------
(* The Receiver preserves RoutingInv; EndInv and NoFalseAlarm *)

\* A reply in flight or parked is the answer to the only call with its key.
LEMMA ReplyIsUnique ==
  ASSUME KeyInv, NEW m, IsReplyTo(m), NEW c \in Calls, key[c] = m.key
  PROVE  m.call = c
  BY DEF KeyInv, IsReplyTo

\* The Receiver takes a registration: it is answered from what is parked, or is pending.
LEMMA RegistrationStep ==
  ASSUME TypeOK, RoutingInv, PollRegistration
  PROVE  RoutingInv'
  <1> DEFINE r == Head(registrations)
             c == r.call
  <1>1. UNCHANGED <<pc, key, result, request_id, tx, receiver, inbound,
                    requests, exclusive>>
    BY DEF PollRegistration
  <1>2. registrations \in Seq(Register) /\ registrations # <<>>
    BY DEF PollRegistration, TypeOK
  <1>3. /\ Range(registrations) = Range(registrations') \cup {r}
        /\ r \in Register
    BY <1>2, RangeTail, PopType DEF PollRegistration
  <1>4. c \in Calls /\ pc[c] # "idle"
    BY <1>3 DEF Register, RoutingInv, RegistrationInv
  <1>5. \/ /\ r.type = "Request" /\ Op[c] # "ping" /\ key[c] # NoKey
           /\ AddRequest(c)
        \/ /\ r.type = "Consumer"
           /\ UNCHANGED <<answer, pending_requests, received_messages, ping>>
        \/ /\ r.type = "Ping" /\ Op[c] = "ping" /\ ping' = c
           /\ UNCHANGED <<answer, pending_requests, received_messages>>
    BY <1>3, <1>4, HasKey
       DEF PollRegistration, AddConsumer, AddPing, RoutingInv, RegistrationInv
  <1>6. KeyInv' /\ BrokerInv'
    BY <1>1 DEF RoutingInv, KeyInv, BrokerInv
  <1>7. CASE r.type # "Request"
    <2>1. UNCHANGED <<answer, pending_requests, received_messages>>
      BY <1>5, <1>7
    <2>2. CallInv' /\ Correlation' /\ NoStrandedReply'
      BY <1>1, <2>1 DEF RoutingInv, CallInv, Correlation, NoStrandedReply
    <2>3. RegistrationInv'
      BY <1>1, <1>3, <1>4, <1>5, <1>7 DEF RoutingInv, RegistrationInv
    <2>4. ReplyInv'
      BY <1>1, <2>1 DEF RoutingInv, ReplyInv, IsReplyTo
    <2>5. HeldInv'
      <3>1. \A d \in Calls : Op[d] # "ping" /\ Held(d) => Held(d)'
        <4>1. \A d \in Calls : Op[d] # "ping" => ping # d
          BY NullAssumption DEF RoutingInv, RegistrationInv
        <4>2. \A d \in Calls : Op[d] # "ping" =>
                ~(r.call = d /\ r.type # "Consumer")
          BY <1>5, <1>7
        <4> QED
          BY <1>3, <2>1, <4>1, <4>2 DEF Held
      <3> QED
        BY <1>1, <2>1, <3>1 DEF RoutingInv, HeldInv
    <2> QED
      BY <1>6, <2>2, <2>3, <2>4, <2>5 DEF RoutingInv
  <1>8. CASE r.type = "Request"
    <2>1. Op[c] # "ping" /\ key[c] # NoKey /\ AddRequest(c)
      BY <1>5, <1>8
    <2>2. \A d \in Calls : key[d] = key[c] => d = c
      BY <1>4, <2>1 DEF RoutingInv, KeyInv
    <2>3. ping' = ping /\ received_messages' \subseteq received_messages
      BY <2>1 DEF AddRequest
    <2>4. ReplyInv'
      BY <1>1, <2>3 DEF RoutingInv, ReplyInv, IsReplyTo
    <2>5. CASE Parked(c) = {}
      <3>1. answer' = answer /\ pending_requests' = pending_requests \cup {c}
        BY <1>4, <2>1, <2>2, <2>5 DEF AddRequest, TypeOK
      <3>2. CallInv' /\ Correlation'
        BY <1>1, <3>1 DEF RoutingInv, CallInv, Correlation
      <3>3. RegistrationInv'
        BY <1>1, <1>3, <1>4, <2>1, <2>3, <3>1 DEF RoutingInv, RegistrationInv
      <3>4. NoStrandedReply'
        BY <1>1, <2>3, <2>5, <3>1 DEF RoutingInv, NoStrandedReply, Parked
      <3>5. HeldInv'
        <4>1. \A d \in Calls : Held(d) => Held(d)'
          BY <1>3, <2>3, <3>1 DEF Held
        <4> QED
          BY <1>1, <3>1, <4>1 DEF RoutingInv, HeldInv
      <3> QED
        BY <1>6, <2>4, <3>2, <3>3, <3>4, <3>5 DEF RoutingInv
    <2>6. CASE Parked(c) # {}
      <3>1. PICK m \in received_messages :
              /\ m.key = key[c] /\ pending_requests' = pending_requests
              /\ answer' = [answer EXCEPT ![c] = IF pc[c] = "done" THEN @ ELSE m]
        BY <2>1, <2>6 DEF AddRequest, Parked
      <3>2. m.call = c /\ m # NoMessage
        BY <1>4, <3>1, ReplyIsUnique, NullAssumption
           DEF RoutingInv, ReplyInv, TypeOK
      <3>3. /\ \A d \in Calls : d # c => answer'[d] = answer[d]
            /\ answer'[c] = m \/ (pc[c] = "done" /\ answer'[c] = answer[c])
        BY <1>4, <3>1 DEF TypeOK
      <3>4. CallInv'
        BY <1>1, <1>4, <3>3 DEF RoutingInv, CallInv
      <3>5. Correlation'
        BY ZenonT(60), <1>1, <3>2, <3>3 DEF RoutingInv, Correlation
      <3>6. RegistrationInv'
        BY <1>1, <1>3, <2>3, <3>1 DEF RoutingInv, RegistrationInv
      <3>7. NoStrandedReply'
        BY <1>1, <2>3, <3>1 DEF RoutingInv, NoStrandedReply
      <3>8. HeldInv'
        <4>1. \A d \in Calls : d # c /\ Held(d) => Held(d)'
          BY <1>3, <2>3, <3>1 DEF Held
        <4> QED
          BY <1>1, <3>2, <3>3, <4>1 DEF RoutingInv, HeldInv, Waiting
      <3> QED
        BY <1>6, <2>4, <3>4, <3>5, <3>6, <3>7, <3>8 DEF RoutingInv
    <2> QED
      BY <2>5, <2>6
  <1> QED
    BY <1>7, <1>8

\* A reply, or a CloseConsumer with the request id of a pending call.
LEMMA ReplyStep ==
  ASSUME TypeOK, RoutingInv, NEW m \in Range(inbound), HandleReply(m),
         \/ m.kind \in ReplyKinds \ {"pong"}
         \/ /\ m.kind = "close_consumer"
            /\ \E c \in pending_requests : key[c] = m.key,
         UNCHANGED <<pc, key, result, receiver, registrations>>
  PROVE  /\ CallInv' /\ RegistrationInv' /\ Correlation' /\ NoStrandedReply'
         /\ HeldInv'
         /\ \A n \in received_messages' : IsReplyTo(n)'
  <1> DEFINE waiters == {c \in pending_requests : key[c] = m.key}
  <1>1. m # NoMessage
    BY RangeType, NullAssumption DEF TypeOK
  <1>2. /\ pending_requests' = pending_requests \ waiters
        /\ ping' = ping
        /\ \A c \in Calls :
             answer'[c] = IF c \in waiters /\ pc[c] # "done" THEN m ELSE answer[c]
        /\ received_messages' = IF waiters # {} THEN received_messages
             ELSE {n \in received_messages : n.key # m.key} \cup {m}
    BY DEF HandleReply
  <1>3. waiters \subseteq Calls /\ \A c \in waiters : pc[c] # "idle" /\ key[c] = m.key
    BY DEF RoutingInv, RegistrationInv, TypeOK
  <1>4. m.kind \in ReplyKinds \ {"pong"} => IsReplyTo(m)
    BY DEF RoutingInv, ReplyInv
  <1>5. CallInv'
    BY <1>2, <1>3 DEF RoutingInv, CallInv
  <1>6. RegistrationInv'
    BY <1>2 DEF RoutingInv, RegistrationInv
  <1>7. Correlation'
    <2>1. \A c \in waiters : m.call = c \/ (m.kind = "close_consumer" /\ m.key = key[c])
      BY <1>3, <1>4, ReplyIsUnique DEF RoutingInv
    <2> QED
      BY ZenonT(60), <1>2, <2>1 DEF RoutingInv, Correlation
  <1>8. NoStrandedReply'
    BY <1>2 DEF RoutingInv, NoStrandedReply
  <1>9. HeldInv'
    <2>1. \A c \in Calls : Held(c) /\ c \notin waiters => Held(c)'
      BY <1>2 DEF Held
    <2> QED
      BY <1>1, <1>2, <2>1 DEF RoutingInv, HeldInv, Waiting
  <1>10. \A n \in received_messages' : IsReplyTo(n)'
    BY <1>2, <1>4 DEF RoutingInv, ReplyInv, IsReplyTo
  <1> QED
    BY <1>5, <1>6, <1>7, <1>8, <1>9, <1>10

\* The Receiver takes a frame of the broker.
LEMMA InboundStep ==
  ASSUME TypeOK, RoutingInv, PollInbound
  PROVE  RoutingInv'
  <1> DEFINE m == Head(inbound)
  <1>1. UNCHANGED <<pc, key, result, request_id, receiver, registrations,
                    requests, exclusive>>
    BY DEF PollInbound
  <1>2. inbound \in Seq(Message) /\ inbound # <<>>
    BY DEF PollInbound, TypeOK
  <1>3. Range(inbound) = Range(inbound') \cup {m}
    BY <1>2, RangeTail DEF PollInbound
  <1>4. KeyInv'
    BY <1>1 DEF RoutingInv, KeyInv
  <1>5. BrokerInv'
    <2>1. tx' = tx \/ tx' = Append(tx, Pong)
      BY DEF PollInbound, HandlePing, HandlePong, HandleReply,
             HandleConsumerMessage, HandleCloseConsumer
    <2>2. tx \in Seq(Outbound) /\ Pong \in Outbound
      BY DEF TypeOK, Outbound
    <2>3. Range(tx') \subseteq Range(tx) \cup {Pong}
      BY ZenonT(60), <2>1, <2>2, RangeAppend
    <2> QED
      BY <1>1, <2>3 DEF RoutingInv, BrokerInv, Pong
  <1>6. CASE \/ m.kind \in ReplyKinds \ {"pong"} /\ HandleReply(m)
             \/ /\ m.kind = "close_consumer" /\ HandleReply(m)
                /\ \E c \in pending_requests : key[c] = m.key
    <2>1. /\ CallInv' /\ RegistrationInv' /\ Correlation' /\ NoStrandedReply'
          /\ HeldInv' /\ \A n \in received_messages' : IsReplyTo(n)'
      BY <1>1, <1>3, <1>6, ReplyStep
    <2>2. ReplyInv'
      BY <1>1, <1>3, <2>1 DEF RoutingInv, ReplyInv, IsReplyTo
    <2> QED
      BY <1>4, <1>5, <2>1, <2>2 DEF RoutingInv
  <1>7. CASE m.kind = "pong" /\ HandlePong(m)
    <2>1. /\ UNCHANGED <<pending_requests, received_messages>>
          /\ ping' = NoCall
          /\ \A c \in Calls : answer'[c] = IF c = ping /\ pc[c] # "done"
                                           THEN m ELSE answer[c]
      BY <1>7 DEF HandlePong
    <2>2. \A c \in Calls : c = ping => pc[c] # "idle" /\ Op[c] = "ping"
      BY NullAssumption DEF RoutingInv, RegistrationInv
    <2>3. CallInv' /\ Correlation' /\ NoStrandedReply'
      BY ZenonT(60), <1>1, <2>1, <2>2
      DEF RoutingInv, CallInv, Correlation, NoStrandedReply
    <2>4. RegistrationInv'
      BY <1>1, <2>1 DEF RoutingInv, RegistrationInv
    <2>5. ReplyInv'
      BY <1>1, <1>3, <2>1 DEF RoutingInv, ReplyInv, IsReplyTo
    <2>6. HeldInv'
      BY <1>1, <2>1, <2>2 DEF RoutingInv, HeldInv, Held
    <2> QED
      BY <1>4, <1>5, <2>3, <2>4, <2>5, <2>6 DEF RoutingInv
  <1>8. CASE UNCHANGED <<answer, pending_requests, received_messages, ping>>
    <2>1. CallInv' /\ Correlation' /\ NoStrandedReply'
      BY <1>1, <1>8 DEF RoutingInv, CallInv, Correlation, NoStrandedReply
    <2>2. RegistrationInv'
      BY <1>1, <1>8 DEF RoutingInv, RegistrationInv
    <2>3. ReplyInv'
      BY <1>1, <1>3, <1>8 DEF RoutingInv, ReplyInv, IsReplyTo
    <2>4. HeldInv'
      BY <1>1, <1>8 DEF RoutingInv, HeldInv, Held
    <2> QED
      BY <1>4, <1>5, <2>1, <2>2, <2>3, <2>4 DEF RoutingInv
  <1> QED
    BY <1>6, <1>7, <1>8
       DEF PollInbound, HandlePing, HandleConsumerMessage, HandleCloseConsumer

\* The routing invariant holds before the first call.
LEMMA RoutingInit == Init => RoutingInv
  <1> SUFFICES ASSUME Init PROVE RoutingInv
    OBVIOUS
  <1>1. KeyInv /\ CallInv
    BY DEF Init, KeyInv, CallInv
  <1>2. RegistrationInv /\ BrokerInv /\ ReplyInv
    BY RangeEmpty DEF Init, RegistrationInv, BrokerInv, ReplyInv
  <1>3. Correlation /\ NoStrandedReply /\ HeldInv
    BY DEF Init, Correlation, NoStrandedReply, HeldInv, Waiting
  <1> QED
    BY <1>1, <1>2, <1>3 DEF RoutingInv

\* The inductive invariant holds in every reachable state.
THEOREM RoutingInvariant == Spec => []RoutingInv
  <1>1. TypeOK /\ RoutingInv /\ [Next]_vars => RoutingInv'
    <2> SUFFICES ASSUME TypeOK, RoutingInv, [Next]_vars PROVE RoutingInv'
      OBVIOUS
    <2>1. CASE UNCHANGED vars
      <3>1. KeyInv' /\ CallInv' /\ BrokerInv'
        BY <2>1 DEF vars, RoutingInv, KeyInv, CallInv, BrokerInv
      <3>2. RegistrationInv' /\ ReplyInv'
        BY <2>1 DEF vars, RoutingInv, RegistrationInv, ReplyInv,
             IsReplyTo
      <3>3. Correlation' /\ NoStrandedReply'
        BY <2>1 DEF vars, RoutingInv, Correlation, NoStrandedReply
      <3>4. HeldInv'
        BY <2>1 DEF vars, RoutingInv, HeldInv, Held
      <3> QED
        BY <3>1, <3>2, <3>3, <3>4 DEF RoutingInv
    <2>2. ASSUME NEW c \in Calls, Begin(c)
          PROVE  RoutingInv'
      BY <2>2, BeginStep
    <2>3. ASSUME NEW c \in Calls, CallStep(c) \/ Timeout(c) \/ SendFlow(c)
          PROVE  RoutingInv'
      BY <2>3, CallSteps
    <2>4. CASE TakeError \/ DropConnection
      BY <2>4, QuietSteps
    <2>5. CASE PollReceiver
      BY <2>5, EndSteps, RegistrationStep, InboundStep, QuietSteps
         DEF PollReceiver
    <2>6. CASE SenderTask
      BY <2>6, SendStep, QuietSteps DEF SenderTask
    <2>7. CASE Broker
      BY <2>7, AnswerSteps, QuietSteps DEF Broker
    <2> QED
      BY <2>1, <2>2, <2>3, <2>4, <2>5, <2>6, <2>7 DEF Next
  <1> QED
    BY <1>1, RoutingInit, TypeCorrect, PTL DEF Spec

\* No reply is handed to the wrong call: send_message and Receiver::poll correlate
\* requests and replies in every interleaving.
THEOREM Correlated == Spec => []Correlation
  BY RoutingInvariant, PTL DEF RoutingInv

\* No reply is parked past its call, whichever of the registration and the reply
\* reaches Receiver::poll first.
THEOREM NeverStranded == Spec => []NoStrandedReply
  BY RoutingInvariant, PTL DEF RoutingInv

\* No registration evicts another one: send_message sees its oneshot canceled
\* only when the Receiver is gone.
THEOREM NeverEvicted == Spec => []ResolverHeld
  <1>1. RoutingInv => ResolverHeld
    BY DEF RoutingInv, HeldInv, ResolverHeld
  <1> QED
    BY <1>1, RoutingInvariant, PTL

-----------------------------------------------------------------------------
(* What the error flag of a connection means: BrokenIsInvalid, NoFalseAlarm *)

\* The steps of the callers: which of them set the flag, and why.
LEMMA CallHealth ==
  ASSUME TypeOK, RoutingInv, EndInv, NoFalseAlarm, NEW c \in Calls,
         Begin(c) \/ CallStep(c) \/ Timeout(c) \/ SendFlow(c)
  PROVE  EndInv' /\ NoFalseAlarm'
  <1>1. UNCHANGED <<receiver, socket, dropped, inbound>>
    BY DEF Begin, CallStep, RegisterConsumer, RegisterCall,
       Transmit, Resolve,
           RegisterWait, Canceled, Timeout, SendFlow
  <1>2. EndInv'
    BY <1>1 DEF EndInv
  <1>3. \A d \in Calls : result[d] # "none" => result'[d] = result[d]
    <2>1. CASE Begin(c)
      BY <2>1 DEF Begin
    <2>2. CASE CallStep(c) \/ Timeout(c) \/ SendFlow(c)
      BY <2>2, CallFrame DEF RoutingInv, CallInv
    <2> QED
      BY <2>1, <2>2
  <1>4. \/ error_set' = error_set
        \/ receiver = "ended"
        \/ Op[c] = "ping" /\ result'[c] \in {"timed_out", "disconnected"}
    <2>1. CASE RegisterConsumer(c)
      BY <2>1 DEF RegisterConsumer
    <2>2. CASE Canceled(c)
      <3>1. result'[c] = "disconnected"
        BY <2>2 DEF Canceled, Return, TypeOK
      <3>2. Op[c] # "ping" => receiver # "running"
        BY <2>2 DEF Canceled, RoutingInv, HeldInv
      <3> QED
        BY <3>1, <3>2 DEF TypeOK
    <2>3. CASE Timeout(c)
      <3>1. result'[c] = "timed_out"
        BY <2>3 DEF Timeout, Return, TypeOK
      <3> QED
        BY <2>3, <3>1 DEF Timeout, TimeoutError
    <2>4. CASE \/ Begin(c) \/ RegisterCall(c) \/ Transmit(c) \/ Resolve(c)
               \/ RegisterWait(c) \/ SendFlow(c)
      BY <2>4 DEF Begin, RegisterCall, Transmit, Resolve,
         RegisterWait, SendFlow
    <2> QED
      BY <2>1, <2>2, <2>3, <2>4 DEF CallStep
  <1>5. NoFalseAlarm'
    <2>1. CASE error_set' = error_set
      BY <1>1, <1>3, <2>1 DEF NoFalseAlarm
    <2>2. CASE receiver = "ended"
      BY <1>1, <2>2 DEF NoFalseAlarm, EndInv
    <2>3. CASE Op[c] = "ping" /\ result'[c] \in {"timed_out", "disconnected"}
      BY <2>3 DEF NoFalseAlarm
    <2> QED
      BY <1>4, <2>1, <2>2, <2>3
  <1> QED
    BY <1>2, <1>5

\* The steps of the Receiver's poll: which of them set the flag, and why.
LEMMA ReceiverHealth ==
  ASSUME TypeOK, EndInv, NoFalseAlarm, PollReceiver
  PROVE  EndInv' /\ NoFalseAlarm'
  <1>1. UNCHANGED <<socket, dropped, result>>
    BY DEF PollReceiver, PollShutdown, PollRegistration, RegistrationsDone,
           PollInbound, InboundEnd, InboundPending
  <1>2. Range(inbound') \subseteq Range(inbound)
    <2>1. inbound \in Seq(Message)
      BY DEF TypeOK
    <2>2. inbound' = inbound \/ (inbound # <<>> /\ inbound' = Tail(inbound))
      BY DEF PollReceiver, PollShutdown, PollRegistration, RegistrationsDone,
             PollInbound, InboundEnd, InboundPending
    <2>3. inbound # <<>> => Range(inbound) = Range(Tail(inbound)) \cup {Head(inbound)}
      BY <2>1, RangeTail
    <2> QED
      BY <2>2, <2>3
  <1>3. \/ receiver' = receiver /\ error_set' = error_set
        \/ dropped
        \/ socket = "closed"
    <2>1. CASE InboundEnd
      <3>1. inbound \in Seq(Message) /\ inbound # <<>>
        BY <2>1 DEF InboundEnd, TypeOK
      <3>2. Head(inbound) \in Range(inbound)
        BY <3>1, RangeTail
      <3> QED
        BY <2>1, <3>2 DEF InboundEnd, EndInv
    <2>2. CASE ~InboundEnd
      BY <2>2 DEF PollReceiver, PollShutdown, PollRegistration,
                  RegistrationsDone, PollInbound, InboundPending
    <2> QED
      BY <2>1, <2>2
  <1>4. EndInv'
    BY <1>1, <1>2, <1>3 DEF EndInv
  <1>5. NoFalseAlarm'
    BY <1>1, <1>3 DEF NoFalseAlarm
  <1> QED
    BY <1>4, <1>5

\* What the broker and the socket append to the inbound stream: the end of it
\* only when the socket is closed, a message only under a permit.
LEMMA BrokerInbound ==
  ASSUME TypeOK, Broker
  PROVE  \/ inbound' = inbound
         \/ \E m \in Message :
              /\ inbound' = Append(inbound, m)
              /\ m.kind \notin {"eof", "io_error"} \/ socket' = "closed"
              /\ m.kind = "message" =>
                   m.consumer \in Consumers /\ permits[m.consumer] > 0
  <1>1. CASE \E c \in Calls : BrokerAnswers(c)
    <2>1. PICK c \in Calls : BrokerAnswers(c)
      BY <1>1
    <2>2. PICK kind \in ReplyKindsOf(c) :
            inbound' = Append(inbound, Reply(kind, c))
      BY <2>1 DEF BrokerAnswers
    <2>3. kind \in ReplyKinds
      BY <2>2 DEF ReplyKindsOf, ReplyKinds
    <2>4. Reply(kind, c) \in Message
      BY <2>3 DEF Reply, Message, TypeOK
    <2> QED
      BY <2>2, <2>3, <2>4 DEF Reply, ReplyKinds
  <1>2. CASE \E c \in Calls : BrokerGrantsAccess(c)
    <2>1. PICK c \in Calls : BrokerGrantsAccess(c)
      BY <1>2
    <2>2. Reply("response", c) \in Message /\ Reply("error", c) \in Message
      BY DEF Reply, Message, ReplyKinds, TypeOK
    <2> QED
      BY <2>1, <2>2 DEF BrokerGrantsAccess, Reply
  <1>3. CASE \E id \in Consumers : BrokerSendsMessage(id)
    <2>1. PICK id \in Consumers : BrokerSendsMessage(id)
      BY <1>3
    <2>2. ToConsumer("message", NoKey, id) \in Message
      BY DEF ToConsumer, Message
    <2> QED
      BY <2>1, <2>2 DEF BrokerSendsMessage, ToConsumer
  <1>4. CASE \E id \in Consumers : BrokerClosesConsumer(id)
    <2>1. PICK id \in Consumers : BrokerClosesConsumer(id)
      BY <1>4
    <2>2. PICK n \in CloseIds :
            inbound' = Append(inbound, ToConsumer("close_consumer",
                                                  <<"RequestId", n>>, id))
      BY <2>1 DEF BrokerClosesConsumer
    <2>3. <<"RequestId", n>> \in Keys
      BY <2>2, CallsAssumption DEF Keys
    <2>4. ToConsumer("close_consumer", <<"RequestId", n>>, id) \in Message
      BY <2>3 DEF ToConsumer, Message
    <2> QED
      BY <2>2, <2>4 DEF ToConsumer
  <1>5. CASE BrokerPushes \/ SocketBreaks
    <2>1. \A kind \in {"ping", "unknown", "eof", "io_error"} :
            Bare(kind) \in Message
      BY DEF Bare, Message
    <2> QED
      BY <1>5, <2>1 DEF BrokerPushes, SocketBreaks, Bare
  <1> QED
    BY <1>1, <1>2, <1>3, <1>4, <1>5 DEF Broker

\* The owner of the connection, the sender task, the broker and the socket.
LEMMA OtherHealth ==
  ASSUME TypeOK, EndInv, NoFalseAlarm,
         TakeError \/ DropConnection \/ SenderTask \/ Broker
  PROVE  EndInv' /\ NoFalseAlarm'
  <1>1. UNCHANGED <<receiver, result>>
    <2>1. CASE TakeError \/ DropConnection \/ SenderTask
      BY <2>1 DEF TakeError, DropConnection, SenderTask, SendNext,
           SenderDone
    <2>2. CASE Broker
      BY <2>2 DEF Broker, BrokerAnswers, BrokerGrantsAccess,
         BrokerSendsMessage,
                  BrokerClosesConsumer, BrokerPushes, SocketBreaks
    <2> QED
      BY <2>1, <2>2
  <1>2. /\ socket = "closed" => socket' = "closed"
        /\ dropped => dropped'
        /\ error_set' => error_set \/ socket = "closed"
    <2>1. CASE TakeError \/ DropConnection
      BY <2>1 DEF TakeError, DropConnection
    <2>2. CASE SenderTask
      BY <2>2 DEF SenderTask, SendNext, SenderDone
    <2>3. CASE Broker
      <3>1. socket = "open"
        BY <2>3
           DEF Broker, BrokerAnswers, BrokerGrantsAccess, BrokerSendsMessage,
               BrokerClosesConsumer, BrokerPushes, SocketBreaks
      <3>2. UNCHANGED <<dropped, error_set>>
        BY <2>3
           DEF Broker, BrokerAnswers, BrokerGrantsAccess, BrokerSendsMessage,
               BrokerClosesConsumer, BrokerPushes, SocketBreaks
      <3> QED
        BY <3>1, <3>2
    <2> QED
      BY <2>1, <2>2, <2>3
  <1>3. \A m \in Range(inbound') :
          \/ m \in Range(inbound)
          \/ m.kind \notin {"eof", "io_error"}
          \/ socket' = "closed"
    <2>0. inbound \in Seq(Message)
      BY DEF TypeOK
    <2>1. CASE TakeError \/ DropConnection \/ SenderTask
      BY <2>1 DEF TakeError, DropConnection, SenderTask, SendNext,
         SenderDone
    <2>2. CASE Broker
      <3>1. \/ inbound' = inbound
            \/ \E m \in Message : /\ inbound' = Append(inbound, m)
                                  /\ \/ m.kind \notin {"eof", "io_error"}
                                     \/ socket' = "closed"
        BY <2>2, BrokerInbound
      <3>2. \A m \in Message : inbound' = Append(inbound, m) =>
              Range(inbound') = Range(inbound) \cup {m}
        BY <2>0, RangeAppend
      <3> QED
        BY <3>1, <3>2
    <2> QED
      BY <2>1, <2>2
  <1>4. EndInv'
    BY <1>1, <1>2, <1>3 DEF EndInv
  <1>5. NoFalseAlarm'
    BY <1>1, <1>2 DEF NoFalseAlarm
  <1> QED
    BY <1>4, <1>5

\* A connection whose Receiver or sender task died is invalid: no step clears
\* the flag but Connection::error, which counts in taken.
LEMMA BrokenStep ==
  ASSUME TypeOK, BrokenIsInvalid, [Next]_vars
  PROVE  BrokenIsInvalid'
  <1>1. CASE \E c \in Calls : Begin(c) \/ CallStep(c) \/ Timeout(c) \/ SendFlow(c)
    <2>1. UNCHANGED <<receiver, sender_task, dropped, taken>>
      BY <1>1 DEF Begin, CallStep, RegisterConsumer, RegisterCall,
         Transmit,
                  Resolve, RegisterWait, Canceled, Timeout, SendFlow
    <2>2. error_set => error_set'
      BY <1>1 DEF Begin, CallStep, RegisterConsumer, RegisterCall,
           Transmit,
                  Resolve, RegisterWait, Canceled, Timeout, SendFlow, SetError,
                  TimeoutError
    <2> QED
      BY <2>1, <2>2 DEF BrokenIsInvalid
  <1>2. CASE TakeError
    BY <1>2 DEF TakeError, BrokenIsInvalid, TypeOK
  <1>3. CASE DropConnection
    BY <1>3 DEF DropConnection, BrokenIsInvalid
  <1>4. CASE PollReceiver
    <2>1. /\ UNCHANGED <<sender_task, dropped, taken>>
          /\ error_set => error_set'
          /\ receiver' = receiver \/ dropped \/ error_set'
      BY <1>4 DEF PollReceiver, PollShutdown, PollRegistration,
                  RegistrationsDone, PollInbound, InboundEnd, InboundPending,
                  SetError
    <2> QED
      BY <2>1 DEF BrokenIsInvalid
  <1>5. CASE SenderTask
    BY <1>5 DEF SenderTask, SendNext, SenderDone, SetError, BrokenIsInvalid
  <1>6. CASE Broker
    BY <1>6 DEF Broker, BrokerAnswers, BrokerGrantsAccess,
       BrokerSendsMessage,
                BrokerClosesConsumer, BrokerPushes, SocketBreaks, BrokenIsInvalid
  <1>7. CASE UNCHANGED vars
    BY <1>7 DEF vars, BrokenIsInvalid
  <1> QED
    BY <1>1, <1>2, <1>3, <1>4, <1>5, <1>6, <1>7 DEF Next

\* The invariants of the error flag and of the end of the Receiver.
THEOREM HealthInvariant ==
  Spec => [](EndInv /\ NoFalseAlarm /\ BrokenIsInvalid)
  <1>1. Init => EndInv /\ NoFalseAlarm /\ BrokenIsInvalid
    <2>1. ASSUME Init PROVE Range(inbound) = {}
      BY <2>1, RangeEmpty DEF Init
    <2> QED
      BY <2>1 DEF Init, EndInv, NoFalseAlarm, BrokenIsInvalid
  <1>2. TypeOK /\ RoutingInv /\ EndInv /\ NoFalseAlarm /\ [Next]_vars
          => EndInv' /\ NoFalseAlarm'
    <2>1. CASE UNCHANGED vars
      BY <2>1 DEF vars, EndInv, NoFalseAlarm
    <2> QED
      BY <2>1, CallHealth, ReceiverHealth, OtherHealth DEF Next
  <1>3. TypeOK /\ BrokenIsInvalid /\ [Next]_vars => BrokenIsInvalid'
    BY BrokenStep
  <1> QED
    BY <1>1, <1>2, <1>3, TypeCorrect, RoutingInvariant, PTL DEF Spec

\* A dead Receiver or sender task always marks the connection invalid, until
\* Connection::error takes the error away.
THEOREM Invalidated == Spec => []BrokenIsInvalid
  BY HealthInvariant, PTL

\* Nothing but a broken socket, a dropped connection or a failed ping marks a
\* connection invalid.
THEOREM NeverCondemned == Spec => []NoFalseAlarm
  BY HealthInvariant, PTL

-----------------------------------------------------------------------------
(* No message of a subscription is lost *)

\* ChannelBefore under a queue that grows, and under one that is consumed.
LEMMA ChannelLater ==
  ASSUME TypeOK, NEW c \in Calls, NEW m \in Nat, NEW n \in Nat, m <= n,
         ChannelBefore(c, m)
  PROVE  ChannelBefore(c, n)
  BY DEF ChannelBefore, TypeOK

\* A registration that is appended leaves the earlier ones in place.
LEMMA ChannelAppend ==
  ASSUME TypeOK, NEW r \in Register, NEW c \in Calls, NEW n \in Nat,
         registrations' = Append(registrations, r), consumers' = consumers,
         ChannelBefore(c, n)
  PROVE  ChannelBefore(c, n)'
  <1>1. registrations \in Seq(Register)
    BY DEF TypeOK
  <1>2. /\ Len(registrations') = Len(registrations) + 1
        /\ \A j \in 1..Len(registrations) : registrations'[j] = registrations[j]
    BY <1>1
  <1>3. Len(registrations) \in Nat
    BY <1>1
  <1> QED
    BY <1>2, <1>3 DEF ChannelBefore, Registered

\* Taking the first registration keeps the channel before every later one.
LEMMA ChannelTail ==
  ASSUME TypeOK, registrations # <<>>, registrations' = Tail(registrations),
         NEW c \in Calls, NEW n \in Nat, ChannelBefore(c, n + 1),
         Registered(ConsumerOf[c]) => Registered(ConsumerOf[c])',
         Head(registrations) = [type |-> "Consumer", call |-> c]
           => Registered(ConsumerOf[c])'
  PROVE  ChannelBefore(c, n)'
  <1>1. registrations \in Seq(Register)
    BY DEF TypeOK
  <1>2. /\ Len(registrations) \in Nat \ {0}
        /\ Len(registrations') = Len(registrations) - 1
        /\ \A j \in 1..Len(registrations') : registrations'[j] = registrations[j + 1]
        /\ Head(registrations) = registrations[1]
    BY <1>1
  <1>3. CASE Registered(ConsumerOf[c])
    BY <1>3 DEF ChannelBefore
  <1>4. ASSUME NEW j \in 1..Len(registrations), j < n + 1,
               registrations[j] = [type |-> "Consumer", call |-> c]
        PROVE  ChannelBefore(c, n)'
    <2>1. CASE j = 1
      BY <1>2, <1>4, <2>1 DEF ChannelBefore
    <2>2. CASE j # 1
      <3>1. /\ j - 1 \in 1..Len(registrations')
            /\ j - 1 < n
            /\ registrations'[j - 1] = registrations[j]
        BY <1>2, <1>4, <2>2
      <3> QED
        BY <1>4, <3>1 DEF ChannelBefore
    <2> QED
      BY <2>1, <2>2
  <1> QED
    BY <1>3, <1>4 DEF ChannelBefore

\* The steps of the callers leave the Receiver's map alone.
LEMMA CallDelivery ==
  ASSUME TypeOK, RoutingInv, DeliveryInv, receiver = "running", NEW c \in Calls,
         Begin(c) \/ CallStep(c) \/ Timeout(c) \/ SendFlow(c)
  PROVE  DeliveryInv'
  <1>0. QueueInv /\ SubscribeInv /\ PermitInv
    BY DEF DeliveryInv
  <1>1. UNCHANGED <<consumers, pending_requests, permits, inbound>>
    BY DEF Begin, CallStep, RegisterConsumer, RegisterCall,
         Transmit, Resolve,
           RegisterWait, Canceled, Timeout, SendFlow
  <1>2. \A id : Registered(id)' <=> Registered(id)
    BY <1>1 DEF Registered
  <1>3. registrations \in Seq(Register) /\ Len(registrations) \in Nat
    BY DEF TypeOK
  <1>4. \/ /\ registrations' = registrations
           /\ \A d \in Calls : Op[d] = "subscribe" /\ pc'[d] = "register"
                => pc[d] = "register"
        \/ \E r \in Register :
             /\ registrations' = Append(registrations, r)
             /\ r.call = c
             /\ r.type = "Request" /\ Op[c] = "subscribe" => pc[c] = "register"
             /\ \A d \in Calls \ {c} : pc'[d] = pc[d]
             /\ pc'[c] = "register" => r = [type |-> "Consumer", call |-> c]
    <2>1. CASE RegisterConsumer(c)
      BY <2>1 DEF RegisterConsumer, Register, TypeOK
    <2>2. CASE RegisterCall(c)
      BY <2>2 DEF RegisterCall, Register, TypeOK
    <2>3. CASE RegisterWait(c)
      BY <2>3 DEF RegisterWait, Register, TypeOK, RoutingInv, CallInv
    <2>4. CASE Begin(c)
      BY <2>4 DEF Begin, FirstStep, TypeOK
    <2>5. CASE Transmit(c) \/ Resolve(c) \/ Canceled(c) \/ Timeout(c) \/ SendFlow(c)
      BY <2>5 DEF Transmit, Resolve, Canceled, Timeout, SendFlow,
           Return, TypeOK
    <2> QED
      BY <2>1, <2>2, <2>3, <2>4, <2>5 DEF CallStep
  <1>5. QueueInv' /\ (\A d \in Calls : Op[d] = "subscribe" /\ pc'[d] = "register"
                        => ChannelBefore(d, Len(registrations) + 1)')
    <2>1. CASE /\ registrations' = registrations
               /\ \A d \in Calls : Op[d] = "subscribe" /\ pc'[d] = "register"
                    => pc[d] = "register"
      <3>1. \A d \in Calls, n \in Nat : ChannelBefore(d, n)' <=> ChannelBefore(d, n)
        BY <1>2, <2>1 DEF ChannelBefore
      <3>2. QueueInv'
        BY <1>0, <1>2, <2>1 DEF QueueInv, ChannelBefore
      <3>3. ASSUME NEW d \in Calls, Op[d] = "subscribe", pc'[d] = "register"
            PROVE  ChannelBefore(d, Len(registrations) + 1)'
        <4>1. ChannelBefore(d, Len(registrations) + 1)
          BY <1>0, <2>1, <3>3 DEF SubscribeInv
        <4> QED
          BY <1>2, <2>1, <4>1 DEF ChannelBefore
      <3> QED
        BY <3>2, <3>3
    <2>2. ASSUME NEW r \in Register,
                 registrations' = Append(registrations, r),
                 r.call = c,
                 r.type = "Request" /\ Op[c] = "subscribe" => pc[c] = "register",
                 \A d \in Calls \ {c} : pc'[d] = pc[d],
                 pc'[c] = "register" => r = [type |-> "Consumer", call |-> c]
          PROVE  /\ QueueInv'
                 /\ \A d \in Calls : Op[d] = "subscribe" /\ pc'[d] = "register"
                        => ChannelBefore(d, Len(registrations) + 1)'
      <3>1. /\ Len(registrations') = Len(registrations) + 1
            /\ \A j \in 1..Len(registrations) : registrations'[j] = registrations[j]
            /\ registrations'[Len(registrations) + 1] = r
        BY <1>3, <2>2
      <3>2. \A d \in Calls, n \in Nat : ChannelBefore(d, n) => ChannelBefore(d, n)'
        BY <1>1, <2>2, ChannelAppend
      <3>3. ASSUME NEW i \in 1..Len(registrations'), NEW d \in Calls,
                   d = registrations'[i].call,
                   registrations'[i].type = "Request", Op[d] = "subscribe"
            PROVE  ChannelBefore(d, i)'
        <4>1. CASE i \in 1..Len(registrations)
          <5>1. ChannelBefore(registrations[i].call, i)
            BY <1>0, <3>1, <3>3, <4>1 DEF QueueInv
          <5> QED
            BY <3>1, <3>2, <3>3, <4>1, <5>1
        <4>2. CASE i = Len(registrations) + 1
          <5>1. ChannelBefore(c, i)
            BY <1>0, <2>2, <3>1, <3>3, <4>2 DEF SubscribeInv
          <5> QED
            BY <1>3, <2>2, <3>1, <3>2, <3>3, <4>2, <5>1
        <4> QED
          BY <1>3, <3>1, <4>1, <4>2
      <3>4. ASSUME NEW d \in Calls, Op[d] = "subscribe", pc'[d] = "register"
            PROVE  ChannelBefore(d, Len(registrations) + 1)'
        <4>1. CASE d = c
          BY <1>3, <2>2, <3>1, <3>4, <4>1 DEF ChannelBefore
        <4>2. CASE d # c
          <5>1. ChannelBefore(d, Len(registrations) + 1)
            BY <1>0, <2>2, <3>4, <4>2 DEF SubscribeInv
          <5>2. ChannelBefore(d, Len(registrations) + 2)
            BY <1>3, <5>1, ChannelLater
          <5> QED
            BY <1>3, <3>1, <3>2, <5>2
        <4> QED
          BY <4>1, <4>2
      <3>5. QueueInv'
        <4>1. \A i \in 1..Len(registrations') : registrations'[i].call \in Calls
          <5>1. \A i \in 1..Len(registrations) : registrations[i] \in Register
            BY <1>3
          <5>2. \A i \in 1..Len(registrations') : registrations'[i] \in Register
            BY <1>3, <2>2, <3>1, <5>1
          <5> QED
            BY <5>2 DEF Register
        <4> QED
          BY <3>3, <4>1 DEF QueueInv, ChannelBefore
      <3> QED
        BY <3>4, <3>5
    <2> QED
      BY <1>4, <2>1, <2>2
  <1>6. \A d \in Calls : Op[d] = "subscribe" =>
          (answer'[d] # NoMessage \/ result'[d] = "ok" => Registered(ConsumerOf[d]))
    <2>1. \A d \in Calls : /\ answer'[d] # NoMessage => answer[d] # NoMessage
                           /\ result'[d] = "ok" => \/ result[d] = "ok"
                                                   \/ answer[d] # NoMessage
      <3>1. CASE Resolve(c)
        BY <3>1 DEF Resolve, Return, TypeOK
      <3>2. CASE \/ Begin(c) \/ RegisterConsumer(c) \/ RegisterCall(c)
                 \/ Transmit(c) \/ RegisterWait(c) \/ Canceled(c) \/ Timeout(c)
                 \/ SendFlow(c)
        BY <3>2 DEF Begin, RegisterConsumer, RegisterCall, Transmit,
                    RegisterWait, Canceled, Timeout, SendFlow, Return, TypeOK
      <3> QED
        BY <3>1, <3>2 DEF CallStep
    <2> QED
      BY <1>0, <2>1 DEF SubscribeInv
  <1>7. \A o \in Range(tx') : o.type = "flow" => Registered(o.consumer)
    <2>1. tx \in Seq(Outbound) /\ ConsumerOf[c] \in Consumers
      BY CallsAssumption DEF TypeOK
    <2>2. \A o \in Outbound : tx' = Append(tx, o) =>
            Range(tx') = Range(tx) \cup {o}
      BY <2>1, RangeAppend
    <2>3. CASE SendFlow(c)
      <3>1. Flow(ConsumerOf[c]) \in Outbound
        BY <2>1 DEF Outbound
      <3>2. Registered(ConsumerOf[c])
        BY <1>0, <2>3 DEF SendFlow, SubscribeInv
      <3>3. tx' = Append(tx, Flow(ConsumerOf[c]))
        BY <2>3 DEF SendFlow
      <3> QED
        BY <1>0, <2>2, <3>1, <3>2, <3>3 DEF PermitInv, Flow
    <2>4. CASE Transmit(c)
      <3>1. Command(c) \in Outbound
        BY DEF Outbound
      <3>2. tx' = tx \/ tx' = Append(tx, Command(c))
        BY <2>4 DEF Transmit
      <3> QED
        BY <1>0, <2>2, <3>1, <3>2 DEF PermitInv, Command
    <2>5. CASE ~SendFlow(c) /\ ~Transmit(c)
      <3>1. tx' = tx
        BY <2>5 DEF Begin, CallStep, RegisterConsumer,
             RegisterCall, Resolve,
                    RegisterWait, Canceled, Timeout
      <3> QED
        BY <1>0, <3>1 DEF PermitInv
    <2> QED
      BY <2>3, <2>4, <2>5
  <1> QED
    BY <1>0, <1>1, <1>2, <1>5, <1>6, <1>7
       DEF DeliveryInv, SubscribeInv, PermitInv

\* The Receiver moves a channel from the queue into the map before it looks at
\* the request behind it; a channel leaves the map only for another one of the
\* same consumer.
LEMMA RegistrationDelivery ==
  ASSUME TypeOK, DeliveryInv, PollRegistration
  PROVE  DeliveryInv'
  <1>0. receiver = "running" /\ QueueInv /\ SubscribeInv /\ PermitInv
    BY DEF DeliveryInv, PollRegistration
  <1>1. PICK h \in Register : h = Head(registrations)
    BY DEF PollRegistration, TypeOK
  <1>2. /\ registrations # <<>>
        /\ registrations' = Tail(registrations)
        /\ UNCHANGED <<pc, result, tx, permits, inbound>>
    BY DEF PollRegistration
  <1>3. registrations \in Seq(Register) /\ Len(registrations) \in Nat \ {0}
    BY <1>2 DEF TypeOK
  <1>4. /\ Len(registrations') = Len(registrations) - 1
        /\ \A j \in 1..Len(registrations') :
             registrations'[j] = registrations[j + 1]
        /\ h = registrations[1]
    BY <1>1, <1>2, <1>3
  <1>5. h.call \in Calls /\ h.type \in {"Request", "Consumer", "Ping"}
    BY DEF Register
  <1>6. \/ h.type = "Request" /\ AddRequest(h.call)
        \/ h.type = "Consumer" /\ AddConsumer(h.call)
        \/ h.type = "Ping" /\ AddPing(h.call)
    BY <1>1 DEF PollRegistration
  <1>7. /\ \A id : Registered(id) => Registered(id)'
        /\ h.type = "Consumer" => Registered(ConsumerOf[h.call])'
    BY <1>5, <1>6 DEF AddRequest, AddConsumer, AddPing, Registered
  <1>8. \A c \in Calls, n \in Nat : ChannelBefore(c, n + 1) => ChannelBefore(c, n)'
    BY <1>1, <1>2, <1>7, ChannelTail
  <1>9. ASSUME NEW i \in 1..Len(registrations'), NEW c \in Calls,
               c = registrations'[i].call,
               registrations'[i].type = "Request", Op[c] = "subscribe"
        PROVE  ChannelBefore(c, i)'
    <2>1. i + 1 \in 1..Len(registrations) /\ i \in Nat
      BY <1>3, <1>4
    <2>2. ChannelBefore(c, i + 1)
      BY <1>0, <1>4, <1>9, <2>1 DEF QueueInv
    <2> QED
      BY <1>8, <2>1, <2>2
  <1>10. QueueInv'
    <2>1. \A i \in 1..Len(registrations) : registrations[i] \in Register
      BY <1>3
    <2>2. \A i \in 1..Len(registrations') : registrations'[i].call \in Calls
      BY <1>3, <1>4, <2>1 DEF Register
    <2> QED
      BY <1>9, <2>2 DEF QueueInv, ChannelBefore
  <1>11. \A c \in Calls : Op[c] = "subscribe" /\ pc'[c] = "register"
           => ChannelBefore(c, Len(registrations) + 1)'
    BY <1>0, <1>2, <1>3, <1>4, <1>8 DEF SubscribeInv
  <1>12. \A c \in Calls : Op[c] = "subscribe" =>
           (c \in pending_requests' \/ answer'[c] # NoMessage \/ result'[c] = "ok"
              => Registered(ConsumerOf[c])')
    <2>1. \A c \in Calls :
            /\ c \in pending_requests' => c \in pending_requests \/ c = h.call
            /\ answer'[c] # NoMessage => answer[c] # NoMessage \/ c = h.call
      BY <1>5, <1>6 DEF AddRequest, AddConsumer, AddPing, TypeOK
    <2>2. h.type # "Request" => pending_requests' = pending_requests /\ answer' = answer
      BY <1>6 DEF AddConsumer, AddPing
    <2>3. h.type = "Request" /\ Op[h.call] = "subscribe"
            => Registered(ConsumerOf[h.call])
      <3>1. 1 \in 1..Len(registrations)
        BY <1>3
      <3>2. ASSUME h.type = "Request", Op[h.call] = "subscribe"
            PROVE  ChannelBefore(h.call, 1)
        BY <1>0, <1>4, <3>1, <3>2 DEF QueueInv
      <3>3. \A j \in 1..Len(registrations) : ~(j < 1)
        BY <1>3
      <3> QED
        BY <3>2, <3>3 DEF ChannelBefore
    <2> QED
      BY <1>0, <1>2, <1>7, <2>1, <2>2, <2>3 DEF SubscribeInv
  <1>13. PermitInv'
    BY <1>0, <1>2, <1>7 DEF PermitInv
  <1> QED
    BY <1>10, <1>11, <1>12, <1>13 DEF DeliveryInv, SubscribeInv

\* What comes from the socket answers calls that are pending, hence registered,
\* and finds the channel of every message.
LEMMA InboundDelivery ==
  ASSUME TypeOK, RoutingInv, DeliveryInv, NoMessageLost, PollInbound
  PROVE  DeliveryInv' /\ NoMessageLost'
  <1>0. receiver = "running" /\ QueueInv /\ SubscribeInv /\ PermitInv
    BY DEF DeliveryInv, PollInbound
  <1>1. /\ inbound # <<>>
        /\ inbound' = Tail(inbound)
        /\ UNCHANGED <<pc, result, registrations, consumers, permits>>
    BY DEF PollInbound
  <1>2. inbound \in Seq(Message)
    BY DEF TypeOK
  <1>3. PICK m \in Message : m = Head(inbound)
    BY <1>1, <1>2
  <1>4. Range(inbound) = Range(inbound') \cup {m}
    BY <1>1, <1>2, <1>3, RangeTail
  <1>5. \A id : Registered(id)' <=> Registered(id)
    BY <1>1 DEF Registered
  <1>6. \/ m.kind = "ping" /\ HandlePing
        \/ m.kind = "pong" /\ HandlePong(m)
        \/ m.kind \in ReplyKinds \ {"pong"} /\ HandleReply(m)
        \/ m.kind = "message" /\ HandleConsumerMessage(m)
        \/ m.kind = "close_consumer" /\ HandleCloseConsumer(m)
        \/ m.kind = "unknown" /\ UNCHANGED <<answer, pending_requests,
                                             received_messages, tx, ping, lost>>
    BY <1>3 DEF PollInbound
  <1>7. QueueInv'
    BY <1>0, <1>1, <1>5 DEF QueueInv, ChannelBefore
  <1>8. SubscribeInv'
    <2>1. \A c \in Calls : Op[c] = "subscribe" =>
            /\ c \in pending_requests' => c \in pending_requests
            /\ answer'[c] # NoMessage => \/ answer[c] # NoMessage
                                         \/ c \in pending_requests
      <3>1. CASE HandlePong(m)
        <4>1. \A c \in Calls : c = ping => Op[c] = "ping"
          BY NullAssumption DEF RoutingInv, RegistrationInv
        <4> QED
          BY <3>1, <4>1 DEF HandlePong
      <3>2. CASE HandleReply(m)
        BY <3>2 DEF HandleReply
      <3>3. CASE ~HandlePong(m) /\ ~HandleReply(m)
        BY <1>6, <3>3 DEF HandlePing, HandleConsumerMessage, HandleCloseConsumer
      <3> QED
        BY <3>1, <3>2, <3>3
    <2> QED
      BY <1>0, <1>1, <1>5, <2>1 DEF SubscribeInv, ChannelBefore
  <1>9. PermitInv'
    <2>1. \A o \in Range(tx') : o \in Range(tx) \/ o = Pong
      <3>1. tx \in Seq(Outbound) /\ Pong \in Outbound
        BY DEF TypeOK, Outbound
      <3>2. tx' = Append(tx, Pong) => Range(tx') = Range(tx) \cup {Pong}
        BY <3>1, RangeAppend
      <3>3. tx' = tx \/ tx' = Append(tx, Pong)
        BY <1>6 DEF HandlePing, HandlePong, HandleReply, HandleConsumerMessage,
                    HandleCloseConsumer
      <3> QED
        BY <3>2, <3>3
    <2> QED
      BY <1>0, <1>1, <1>4, <1>5, <2>1 DEF PermitInv, Pong
  <1>10. NoMessageLost'
    <2>1. m.kind = "message" => Registered(m.consumer)
      BY <1>0, <1>4 DEF PermitInv
    <2>2. \/ lost' = lost
          \/ HandleConsumerMessage(m)
      BY <1>6 DEF HandlePing, HandlePong, HandleReply, HandleCloseConsumer
    <2> QED
      BY <2>1, <2>2 DEF HandleConsumerMessage, NoMessageLost
  <1> QED
    BY <1>7, <1>8, <1>9, <1>10 DEF DeliveryInv

\* The sender task and the broker turn permits into messages.
LEMMA PeerDelivery ==
  ASSUME TypeOK, DeliveryInv, receiver = "running", SenderTask \/ Broker
  PROVE  DeliveryInv'
  <1>0. QueueInv /\ SubscribeInv /\ PermitInv
    BY DEF DeliveryInv
  <1>1. UNCHANGED <<pc, answer, result, registrations, pending_requests, consumers>>
    BY DEF SenderTask, SendNext, SenderDone, BrokerReads, Broker,
         BrokerAnswers,
           BrokerGrantsAccess, BrokerSendsMessage, BrokerClosesConsumer,
           BrokerPushes, SocketBreaks
  <1>2. \A id : Registered(id)' <=> Registered(id)
    BY <1>1 DEF Registered
  <1>3. QueueInv' /\ SubscribeInv'
    BY ZenonT(60), <1>0, <1>1, <1>2 DEF QueueInv, SubscribeInv, ChannelBefore
  <1>4. CASE SenderTask
    <2>1. tx \in Seq(Outbound)
      BY DEF TypeOK
    <2>2. tx # <<>> => Range(tx) = Range(Tail(tx)) \cup {Head(tx)}
      BY <2>1, RangeTail
    <2>3. tx' = <<>> => Range(tx') = {}
      BY RangeEmpty
    <2>4. tx' = tx \/ tx' = <<>> \/ (tx # <<>> /\ tx' = Tail(tx))
      BY <1>4 DEF SenderTask, SendNext, SenderDone
    <2>5. Range(tx') \subseteq Range(tx)
      BY <2>2, <2>3, <2>4
    <2>6. \A id \in Consumers : permits'[id] > 0 => Registered(id)
      <3>1. CASE permits' = permits
        BY <1>0, <3>1 DEF PermitInv
      <3>2. CASE tx # <<>> /\ BrokerReads(Head(tx)) /\ Head(tx).type = "flow"
        <4>1. Registered(Head(tx).consumer)
          BY <1>0, <2>2, <3>2 DEF PermitInv
        <4>2. \A id \in Consumers : id # Head(tx).consumer => permits'[id] = permits[id]
          BY <3>2 DEF BrokerReads, TypeOK
        <4> QED
          BY <1>0, <4>1, <4>2 DEF PermitInv
      <3> QED
        BY <1>4, <3>1, <3>2 DEF SenderTask, SendNext, SenderDone,
             BrokerReads
    <2>7. inbound' = inbound
      BY <1>4 DEF SenderTask, SendNext, SenderDone
    <2>8. PermitInv'
      BY <1>0, <1>2, <2>5, <2>6, <2>7 DEF PermitInv
    <2> QED
      BY <1>3, <2>8 DEF DeliveryInv
  <1>5. CASE Broker
    <2>1. tx' = tx
      BY <1>5 DEF Broker, BrokerAnswers, BrokerGrantsAccess,
           BrokerSendsMessage,
                  BrokerClosesConsumer, BrokerPushes, SocketBreaks
    <2>2. \A id \in Consumers : permits'[id] > 0 => Registered(id)
      <3>1. \A id \in Consumers : permits'[id] > 0 => permits[id] > 0
        <4>1. CASE \E id \in Consumers : BrokerSendsMessage(id)
          BY <4>1 DEF BrokerSendsMessage, TypeOK
        <4>2. CASE \E id \in Consumers : BrokerClosesConsumer(id)
          BY <4>2 DEF BrokerClosesConsumer, TypeOK
        <4>3. CASE \/ \E c \in Calls : BrokerAnswers(c) \/ BrokerGrantsAccess(c)
                   \/ BrokerPushes \/ SocketBreaks
          <5>1. permits' = permits
            BY <4>3 DEF BrokerAnswers, BrokerGrantsAccess, BrokerPushes,
                        SocketBreaks
          <5> QED
            BY <5>1
        <4> QED
          BY <1>5, <4>1, <4>2, <4>3 DEF Broker
      <3> QED
        BY <1>0, <3>1 DEF PermitInv
    <2>3. \A m \in Range(inbound') :
            m \in Range(inbound) \/ (m.kind = "message" => Registered(m.consumer))
      <3>1. inbound \in Seq(Message)
        BY DEF TypeOK
      <3>2. \A m \in Message : inbound' = Append(inbound, m) =>
              Range(inbound') = Range(inbound) \cup {m}
        BY <3>1, RangeAppend
      <3>3. \/ inbound' = inbound
            \/ \E m \in Message : /\ inbound' = Append(inbound, m)
                                  /\ m.kind = "message" => Registered(m.consumer)
        BY <1>0, <1>5, BrokerInbound DEF PermitInv
      <3> QED
        BY <3>2, <3>3
    <2>4. PermitInv'
      BY <1>0, <1>2, <2>1, <2>2, <2>3 DEF PermitInv
    <2> QED
      BY <1>3, <2>4 DEF DeliveryInv
  <1> QED
    BY <1>4, <1>5

\* No message of a subscription is lost: the channel subscribe registers is in
\* the Receiver's map before the reply of the subscription can reach its caller,
\* so before any flow permit and any message.
THEOREM Delivery == Spec => []NoMessageLost
  <1>1. Init => DeliveryInv /\ NoMessageLost
    <2> SUFFICES ASSUME Init PROVE DeliveryInv /\ NoMessageLost
      OBVIOUS
    <2>1. Range(tx) = {} /\ Range(inbound) = {} /\ Len(registrations) = 0
      BY RangeEmpty DEF Init
    <2>2. QueueInv
      BY <2>1 DEF QueueInv
    <2>3. SubscribeInv
      BY DEF Init, SubscribeInv
    <2>4. PermitInv
      BY <2>1 DEF Init, PermitInv
    <2> QED
      BY <2>2, <2>3, <2>4 DEF Init, DeliveryInv, NoMessageLost
  <1>2. TypeOK /\ RoutingInv /\ DeliveryInv /\ NoMessageLost /\ [Next]_vars
          => DeliveryInv' /\ NoMessageLost'
    <2> SUFFICES ASSUME TypeOK, RoutingInv, DeliveryInv, NoMessageLost,
                        [Next]_vars
                 PROVE  DeliveryInv' /\ NoMessageLost'
      OBVIOUS
    <2>1. ~PollInbound => lost' = lost
      <3>1. ASSUME NEW c \in Calls,
                   Begin(c) \/ CallStep(c) \/ Timeout(c) \/ SendFlow(c)
            PROVE  lost' = lost
        BY <3>1 DEF Begin, CallStep, RegisterConsumer,
             RegisterCall, Transmit,
             Resolve, RegisterWait, Canceled, Timeout, SendFlow
      <3>2. ASSUME PollReceiver, ~PollInbound PROVE lost' = lost
        BY <3>2 DEF PollReceiver, PollShutdown, PollRegistration,
             RegistrationsDone, InboundEnd, InboundPending
      <3>3. SenderTask => lost' = lost
        BY DEF SenderTask, SendNext, SenderDone
      <3>4. Broker => lost' = lost
        BY DEF Broker, BrokerAnswers, BrokerGrantsAccess,
             BrokerSendsMessage,
               BrokerClosesConsumer, BrokerPushes, SocketBreaks
      <3>5. TakeError \/ DropConnection \/ UNCHANGED vars => lost' = lost
        BY DEF TakeError, DropConnection, vars
      <3> QED
        BY <3>1, <3>2, <3>3, <3>4, <3>5 DEF Next
    <2>2. ~PollInbound => NoMessageLost'
      BY <2>1 DEF NoMessageLost
    <2>3. CASE PollInbound
      BY <2>3, InboundDelivery
    <2>4. PollRegistration => DeliveryInv'
      BY RegistrationDelivery
    <2>5. ASSUME UNCHANGED <<pc, answer, result, registrations, tx, receiver,
                             pending_requests, consumers, inbound, permits>>
          PROVE  DeliveryInv'
      <3>1. QueueInv => QueueInv'
        BY <2>5 DEF QueueInv, ChannelBefore, Registered
      <3>2. SubscribeInv => SubscribeInv'
        BY <2>5 DEF SubscribeInv, ChannelBefore, Registered
      <3>3. PermitInv => PermitInv'
        BY <2>5 DEF PermitInv, Registered
      <3> QED
        BY <2>5, <3>1, <3>2, <3>3 DEF DeliveryInv
    <2>6. receiver' = "ended" => DeliveryInv'
      BY DEF DeliveryInv
    <2>7. PollReceiver => DeliveryInv'
      BY <2>3, <2>4, <2>5, <2>6
         DEF PollReceiver, PollShutdown, RegistrationsDone, InboundEnd,
             InboundPending, ReceiverEnds
    <2>8. TakeError \/ DropConnection \/ UNCHANGED vars => DeliveryInv'
      BY <2>5 DEF TakeError, DropConnection, vars
    <2>9. ASSUME SenderTask \/ Broker PROVE DeliveryInv'
      <3>1. receiver' = receiver
        BY <2>9 DEF SenderTask, SendNext, SenderDone, Broker,
             BrokerAnswers,
             BrokerGrantsAccess, BrokerSendsMessage, BrokerClosesConsumer,
             BrokerPushes, SocketBreaks
      <3> QED
        BY <2>6, <2>9, <3>1, PeerDelivery DEF TypeOK
    <2>10. ASSUME NEW c \in Calls,
                  Begin(c) \/ CallStep(c) \/ Timeout(c) \/ SendFlow(c)
           PROVE  DeliveryInv'
      <3>1. receiver' = receiver
        BY <2>10 DEF Begin, CallStep, RegisterConsumer,
             RegisterCall, Transmit,
             Resolve, RegisterWait, Canceled, Timeout, SendFlow
      <3> QED
        BY <2>6, <2>10, <3>1, CallDelivery DEF TypeOK
    <2>11. DeliveryInv'
      BY <2>3, <2>7, <2>8, <2>9, <2>10 DEF Next
    <2> QED
      BY <2>2, <2>3, <2>11
  <1> QED
    BY <1>1, <1>2, TypeCorrect, RoutingInvariant, PTL DEF Spec

-----------------------------------------------------------------------------
(* The refinement of Rpc *)

\* The steps that put nothing into a oneshot, into the parked replies or on the
\* way to the client.
LEMMA QuietMail ==
  ASSUME TypeOK,
         \/ \E c \in Calls : Begin(c) \/ CallStep(c) \/ Timeout(c) \/ SendFlow(c)
         \/ TakeError \/ DropConnection \/ SenderTask \/ UNCHANGED vars
         \/ PollShutdown \/ RegistrationsDone \/ InboundEnd \/ InboundPending
  PROVE  /\ Range(inbound') \subseteq Range(inbound)
         /\ received_messages' \subseteq received_messages
         /\ \A c \in Calls : answer'[c] = answer[c] \/ answer'[c] = NoMessage
  <1>1. CASE \E c \in Calls : Begin(c) \/ CallStep(c) \/ Timeout(c) \/ SendFlow(c)
    <2> PICK c \in Calls : Begin(c) \/ CallStep(c) \/ Timeout(c) \/ SendFlow(c)
      BY <1>1
    <2>1. UNCHANGED <<inbound, received_messages>>
      BY DEF Begin, CallStep, RegisterConsumer, RegisterCall,
         Transmit, Resolve,
             RegisterWait, Canceled, Timeout, SendFlow
    <2>2. answer' = answer \/ answer' = [answer EXCEPT ![c] = NoMessage]
      BY DEF Begin, CallStep, RegisterConsumer, RegisterCall,
         Transmit, Resolve,
             RegisterWait, Canceled, Timeout, SendFlow
    <2> QED
      BY <2>1, <2>2 DEF TypeOK
  <1>2. CASE \/ TakeError \/ DropConnection \/ SenderTask \/ UNCHANGED vars
             \/ InboundPending
    BY <1>2 DEF TakeError, DropConnection, SenderTask, SendNext, SenderDone,
                InboundPending, vars
  <1>3. CASE PollShutdown \/ RegistrationsDone
    BY <1>3 DEF PollShutdown, RegistrationsDone, ReceiverEnds
  <1>4. CASE InboundEnd
    <2>1. inbound \in Seq(Message) /\ inbound # <<>>
      BY <1>4 DEF InboundEnd, TypeOK
    <2>2. Range(inbound') \subseteq Range(inbound)
      BY <1>4, <2>1, RangeTail DEF InboundEnd
    <2> QED
      BY <1>4, <2>2 DEF InboundEnd, ReceiverEnds
  <1> QED
    BY <1>1, <1>2, <1>3, <1>4

\* The broker sends the reply m, taken from its requests or about the access ...
Replying(m) ==
  /\ socket = "open" /\ socket' = socket
  /\ m.call \in Calls /\ pc[m.call] # "idle" /\ m = Reply(m.kind, m.call)
  /\ \/ /\ m.call \in requests /\ requests' = requests \ {m.call}
        /\ m.kind \in ReplyKindsOf(m.call)
     \/ /\ requests' = requests
        /\ m.kind \in {"response", "error"} /\ Op[m.call] # "ping"

\* ... or a message that is not a reply.
Pushing(m) ==
  /\ m.kind \notin ReplyKinds /\ requests' = requests
  /\ m.kind = "close_consumer" => \E n \in CloseIds : m.key = <<"RequestId", n>>
  /\ socket = "open" /\ socket' \in {"open", "closed"}

\* What the broker puts on the way to the client.
LEMMA BrokerMail ==
  ASSUME TypeOK, RoutingInv, Broker
  PROVE  /\ UNCHANGED <<callers, received_messages, tx, receiver>>
         /\ \/ /\ inbound' = inbound /\ requests' = requests
               /\ socket = "open" /\ socket' = "closed"
            \/ \E m \in Message :
                 /\ inbound' = Append(inbound, m)
                 /\ Range(inbound') = Range(inbound) \cup {m}
                 /\ Replying(m) \/ Pushing(m)
  <1> DEFINE Sends ==
        \E m \in Message : inbound' = Append(inbound, m) /\ (Replying(m) \/ Pushing(m))
  <1>1. UNCHANGED <<callers, received_messages, tx, receiver>>
    BY DEF Broker, BrokerAnswers, BrokerGrantsAccess, BrokerSendsMessage,
           BrokerClosesConsumer, BrokerPushes, SocketBreaks
  <1>2. \A m \in Message : Range(Append(inbound, m)) = Range(inbound) \cup {m}
    BY RangeAppend DEF TypeOK
  <1>3. ASSUME NEW c \in Calls, BrokerAnswers(c)
        PROVE  Sends
    <2>1. PICK kind \in ReplyKindsOf(c) : inbound' = Append(inbound, Reply(kind, c))
      BY <1>3 DEF BrokerAnswers
    <2>2. Reply(kind, c) \in Message
      BY DEF Reply, Message, TypeOK, ReplyKindsOf, ReplyKinds
    <2>3. Replying(Reply(kind, c))
      BY <1>3 DEF BrokerAnswers, Reply, RoutingInv, BrokerInv, Replying
    <2> QED
      BY <2>1, <2>2, <2>3
  <1>4. ASSUME NEW c \in Calls, BrokerGrantsAccess(c)
        PROVE  Sends
    <2>1. Reply("response", c) \in Message /\ Reply("error", c) \in Message
      BY DEF Reply, Message, TypeOK, ReplyKinds
    <2>2. Replying(Reply("response", c)) /\ Replying(Reply("error", c))
      BY <1>4 DEF BrokerGrantsAccess, Reply, RoutingInv, BrokerInv, Replying
    <2> QED
      BY <1>4, <2>1, <2>2 DEF BrokerGrantsAccess
  <1>5. ASSUME NEW id \in Consumers, BrokerSendsMessage(id)
        PROVE  Sends
    <2>1. ToConsumer("message", NoKey, id) \in Message
      BY DEF ToConsumer, Message
    <2> QED
      BY <1>5, <2>1 DEF BrokerSendsMessage, ToConsumer, Pushing, ReplyKinds
  <1>6. ASSUME NEW id \in Consumers, BrokerClosesConsumer(id)
        PROVE  Sends
    <2>1. PICK n \in CloseIds :
            inbound' = Append(inbound,
                              ToConsumer("close_consumer", <<"RequestId", n>>, id))
      BY <1>6 DEF BrokerClosesConsumer
    <2>2. ToConsumer("close_consumer", <<"RequestId", n>>, id) \in Message
      BY CallsAssumption DEF ToConsumer, Message, Keys
    <2>3. Pushing(ToConsumer("close_consumer", <<"RequestId", n>>, id))
      BY <1>6 DEF BrokerClosesConsumer, ToConsumer, Pushing, ReplyKinds
    <2> QED
      BY <2>1, <2>2, <2>3
  <1>7. ASSUME BrokerPushes \/ (SocketBreaks /\ inbound' # inbound)
        PROVE  Sends
    <2>1. PICK kind \in {"ping", "unknown", "eof", "io_error"} :
            inbound' = Append(inbound, Bare(kind))
      BY <1>7 DEF BrokerPushes, SocketBreaks
    <2>2. Bare(kind) \in Message
      BY DEF Bare, Message
    <2>3. Pushing(Bare(kind))
      BY <1>7 DEF BrokerPushes, SocketBreaks, Bare, Pushing, ReplyKinds
    <2> QED
      BY <2>1, <2>2, <2>3
  <1>8. SocketBreaks => requests' = requests /\ socket = "open" /\ socket' = "closed"
    BY DEF SocketBreaks
  <1>9. (SocketBreaks /\ inbound' = inbound) \/ Sends
    <2>1. CASE \E c \in Calls : BrokerAnswers(c) \/ BrokerGrantsAccess(c)
      BY <1>3, <1>4, <2>1
    <2>2. CASE \E id \in Consumers : BrokerSendsMessage(id) \/ BrokerClosesConsumer(id)
      BY <1>5, <1>6, <2>2
    <2>3. CASE BrokerPushes
      BY <1>7, <2>3
    <2>4. CASE SocketBreaks /\ inbound' # inbound
      BY <1>7, <2>4
    <2> QED
      BY <2>1, <2>2, <2>3, <2>4 DEF Broker
  <1>10. ASSUME NEW m \in Message, inbound' = Append(inbound, m)
         PROVE  Range(inbound') = Range(inbound) \cup {m}
    BY <1>2, <1>10
  <1> QED
    BY <1>1, <1>8, <1>9, <1>10

\* The Receiver takes the message m off the socket: it goes to the oneshot of the
\* call that waits for it, to the parked replies, or nowhere.
LEMMA InboundMail ==
  ASSUME TypeOK, RoutingInv, PollInbound, NEW m, m = Head(inbound)
  PROVE  /\ UNCHANGED <<pc, key, requests, socket, result>>
         /\ m \in Message
         /\ Range(inbound) = Range(inbound') \cup {m}
         /\ \/ received_messages' = received_messages
            \/ /\ m.kind \in ReplyKinds \ {"pong"}
               /\ m \in received_messages'
               /\ received_messages' \subseteq received_messages \cup {m}
               /\ answer' = answer
         /\ \A c \in Calls :
              \/ answer'[c] = answer[c]
              \/ /\ answer'[c] = m /\ received_messages' = received_messages
                 /\ \/ m.kind = "pong" /\ Op[c] = "ping"
                    \/ /\ Op[c] # "ping" /\ key[c] = m.key
                       /\ m.kind \in (ReplyKinds \ {"pong"}) \cup {"close_consumer"}
  <1>1. UNCHANGED <<pc, key, requests, socket, result>>
    BY DEF PollInbound
  <1>2. inbound \in Seq(Message) /\ inbound # <<>>
    BY DEF PollInbound, TypeOK
  <1>3. Range(inbound) = Range(inbound') \cup {m} /\ m \in Message
    BY <1>2, RangeTail, PopType DEF PollInbound
  <1>4. CASE UNCHANGED <<answer, received_messages>>
    BY <1>1, <1>3, <1>4
  <1>5. CASE m.kind = "pong" /\ HandlePong(m)
    <2>1. received_messages' = received_messages
      BY <1>5 DEF HandlePong
    <2>2. \A c \in Calls : answer'[c] = answer[c] \/ (answer'[c] = m /\ ping = c)
      BY <1>5 DEF HandlePong
    <2>3. \A c \in Calls : ping = c => Op[c] = "ping"
      BY NullAssumption DEF RoutingInv, RegistrationInv
    <2> QED
      BY <1>1, <1>3, <1>5, <2>1, <2>2, <2>3
  <1>6. CASE /\ m.kind \in (ReplyKinds \ {"pong"}) \cup {"close_consumer"}
             /\ HandleReply(m)
             /\ m.kind = "close_consumer" =>
                  \E c \in pending_requests : key[c] = m.key
    <2> DEFINE waiters == {c \in pending_requests : key[c] = m.key}
    <2>1. \A c \in Calls : answer'[c] = answer[c] \/ (answer'[c] = m /\ c \in waiters)
      BY <1>6 DEF HandleReply
    <2>2. \A c \in waiters : Op[c] # "ping"
      BY DEF RoutingInv, RegistrationInv
    <2>3. CASE waiters # {}
      <3>1. received_messages' = received_messages
        BY <1>6, <2>3 DEF HandleReply
      <3> QED
        BY <1>1, <1>3, <1>6, <2>1, <2>2, <3>1
    <2>4. CASE waiters = {}
      <3>1. m.kind \in ReplyKinds \ {"pong"}
        BY <1>6, <2>4
      <3>2. /\ m \in received_messages'
            /\ received_messages' \subseteq received_messages \cup {m}
        BY <1>6, <2>4 DEF HandleReply
      <3>3. answer' = answer
        BY <1>6, <2>4 DEF HandleReply, TypeOK
      <3> QED
        BY <1>1, <1>3, <3>1, <3>2, <3>3
    <2> QED
      BY <2>3, <2>4
  <1>7. HandlePing \/ HandleConsumerMessage(m)
          => UNCHANGED <<answer, received_messages>>
    BY DEF HandlePing, HandleConsumerMessage
  <1>8. \/ HandleConsumerMessage(m)
        \/ HandleReply(m) /\ \E c \in pending_requests : key[c] = m.key
        \/ m.kind # "close_consumer" \/ ~HandleCloseConsumer(m)
    BY DEF HandleCloseConsumer
  <1>9. \/ UNCHANGED <<answer, received_messages>>
        \/ m.kind = "pong" /\ HandlePong(m)
        \/ m.kind \in ReplyKinds \ {"pong"} /\ HandleReply(m)
        \/ m.kind = "close_consumer" /\ HandleCloseConsumer(m)
    BY <1>7 DEF PollInbound
  <1>10. "close_consumer" \notin ReplyKinds
    BY DEF ReplyKinds
  <1> QED
    BY <1>4, <1>5, <1>6, <1>7, <1>8, <1>9, <1>10

\* The Receiver takes a registration: a parked reply of the call may move to its
\* oneshot.
LEMMA RegistrationMail ==
  ASSUME TypeOK, RoutingInv, PollRegistration
  PROVE  /\ UNCHANGED <<pc, key, requests, socket, result, inbound>>
         /\ \/ answer' = answer /\ received_messages' \subseteq received_messages
            \/ \E c \in Calls, m \in received_messages :
                 /\ Op[c] # "ping" /\ m.key = key[c]
                 /\ received_messages' = {n \in received_messages : n.key # key[c]}
                 /\ answer' = answer \/ answer' = [answer EXCEPT ![c] = m]
  <1> DEFINE r == Head(registrations)
  <1>1. UNCHANGED <<pc, key, requests, socket, result, inbound>>
    BY DEF PollRegistration
  <1>2. r \in Range(registrations) /\ r \in Register
    <2>1. registrations \in Seq(Register) /\ registrations # <<>>
      BY DEF PollRegistration, TypeOK
    <2> QED
      BY <2>1, RangeTail, PopType
  <1>3. CASE r.type = "Request" /\ AddRequest(r.call)
    <2>1. r.call \in Calls /\ Op[r.call] # "ping"
      BY <1>2, <1>3 DEF Register, RoutingInv, RegistrationInv
    <2>2. received_messages' = {n \in received_messages : n.key # key[r.call]}
      BY <1>3 DEF AddRequest, Parked
    <2>3. CASE Parked(r.call) = {}
      BY <1>1, <1>3, <2>2, <2>3 DEF AddRequest
    <2>4. CASE Parked(r.call) # {}
      <3>1. PICK m \in received_messages :
              /\ m.key = key[r.call]
              /\ answer' = [answer EXCEPT ![r.call] =
                              IF pc[r.call] = "done" THEN @ ELSE m]
        BY <1>3, <2>4 DEF AddRequest, Parked
      <3>2. answer' = answer \/ answer' = [answer EXCEPT ![r.call] = m]
        BY <2>1, <3>1 DEF TypeOK
      <3> QED
        BY <1>1, <2>1, <2>2, <3>1, <3>2
    <2> QED
      BY <2>3, <2>4
  <1>4. CASE \/ r.type = "Consumer" /\ AddConsumer(r.call)
             \/ r.type = "Ping" /\ AddPing(r.call)
    BY <1>1, <1>4 DEF AddConsumer, AddPing
  <1> QED
    BY <1>3, <1>4 DEF PollRegistration

-----------------------------------------------------------------------------
(* One place at a time *)

\* Taking the first element of a sequence leaves at most one member of S in the
\* rest, and none when the first was one (the Receiver and the sender task take
\* from the head of their queues).
LEMMA OnceTail ==
  ASSUME NEW S, NEW s \in Seq(S), s # <<>>, NEW K, Once(s, K)
  PROVE  /\ Once(Tail(s), K)
         /\ Head(s) \in K => Range(Tail(s)) \cap K = {}
  <1>1. /\ Len(s) \in Nat /\ Len(s) > 0 /\ Len(Tail(s)) = Len(s) - 1
        /\ \A i \in 1..Len(Tail(s)) : Tail(s)[i] = s[i + 1]
        /\ DOMAIN Tail(s) = 1..Len(Tail(s)) /\ Head(s) = s[1]
    OBVIOUS
  <1>2. Once(Tail(s), K)
    BY <1>1 DEF Once
  <1>3. ASSUME Head(s) \in K, NEW e \in Range(Tail(s)), e \in K
        PROVE  FALSE
    <2>1. PICK i \in 1..Len(Tail(s)) : e = s[i + 1]
      BY <1>1, <1>3 DEF Range
    <2>2. i + 1 \in 1..Len(s) /\ 1 \in 1..Len(s) /\ i + 1 # 1
      BY <1>1
    <2> QED
      BY <1>1, <1>3, <2>1, <2>2 DEF Once
  <1> QED
    BY <1>2, <1>3

\* Adding a member of S at the end of a sequence without one leaves exactly one
\* (a command is queued, or a response arrives, once).
LEMMA OnceAppend ==
  ASSUME NEW S, NEW s \in Seq(S), NEW e \in S, NEW K, Once(s, K),
         e \in K => Range(s) \cap K = {}
  PROVE  Once(Append(s, e), K)
  <1>1. /\ Len(s) \in Nat /\ Len(Append(s, e)) = Len(s) + 1
        /\ \A i \in 1..Len(s) : Append(s, e)[i] = s[i]
        /\ Append(s, e)[Len(s) + 1] = e
        /\ DOMAIN s = 1..Len(s)
    OBVIOUS
  <1>2. e \in K => \A i \in 1..Len(s) : s[i] \notin K
    BY <1>1 DEF Range
  <1>3. ASSUME NEW i \in 1..Len(Append(s, e)), NEW j \in 1..Len(Append(s, e)),
               Append(s, e)[i] \in K, Append(s, e)[j] \in K
        PROVE  i = j
    <2>1. CASE i \in 1..Len(s) /\ j \in 1..Len(s)
      BY <1>1, <1>3, <2>1 DEF Once
    <2>2. CASE i = Len(s) + 1 \/ j = Len(s) + 1
      BY <1>1, <1>2, <1>3, <2>2
    <2> QED
      BY <1>1, <2>1, <2>2
  <1> QED
    BY <1>3 DEF Once

\* A command put in the queue of the sender task for the first time is there once.
LEMMA QueueAppend ==
  ASSUME TypeOK, NEW o \in Outbound, tx' = Append(tx, o), NEW c \in Calls,
         Once(tx, {Command(c)}), o = Command(c) => ~InQueue(c)
  PROVE  Once(tx', {Command(c)}) /\ (InQueue(c)' <=> InQueue(c) \/ o = Command(c))
  <1>1. tx \in Seq(Outbound)
    BY DEF TypeOK
  <1>2. o \in {Command(c)} => Range(tx) \cap {Command(c)} = {}
    BY DEF InQueue
  <1>3. Once(Append(tx, o), {Command(c)})
    BY <1>1, <1>2, OnceAppend
  <1>4. Range(Append(tx, o)) = Range(tx) \cup {o}
    BY <1>1, RangeAppend
  <1> QED
    BY <1>3, <1>4 DEF InQueue

\* The sender task takes the first element of its queue: a command taken is no
\* longer there.
LEMMA QueueTail ==
  ASSUME TypeOK, tx # <<>>, tx' = Tail(tx), NEW c \in Calls, Once(tx, {Command(c)})
  PROVE  /\ Once(tx', {Command(c)})
         /\ InQueue(c)' => InQueue(c)
         /\ Head(tx) = Command(c) => InQueue(c) /\ ~InQueue(c)'
  <1>1. tx \in Seq(Outbound)
    BY DEF TypeOK
  <1>2. /\ Once(Tail(tx), {Command(c)})
        /\ Head(tx) \in {Command(c)} => Range(Tail(tx)) \cap {Command(c)} = {}
    BY <1>1, OnceTail
  <1>3. Range(tx) = Range(Tail(tx)) \cup {Head(tx)}
    BY <1>1, RangeTail
  <1> QED
    BY <1>2, <1>3 DEF InQueue

\* The steps of a call: only Transmit queues a command, and a call that goes on to
\* wait for exclusive access has just consumed its not_ready.
LEMMA OnceCall ==
  ASSUME TypeOK, RoutingInv, OnceInv, NEW c \in Calls,
         Begin(c) \/ CallStep(c) \/ Timeout(c) \/ SendFlow(c)
  PROVE  OnceInv'
  <1>1. UNCHANGED <<inbound, received_messages, requests>>
    BY DEF Begin, CallStep, RegisterConsumer, RegisterCall,
       Transmit, Resolve,
           RegisterWait, Canceled, Timeout, SendFlow
  <1>2. \A d \in Calls : d # c => pc'[d] = pc[d] /\ answer'[d] = answer[d]
    BY DEF Begin, CallStep, RegisterConsumer, RegisterCall,
       Transmit, Resolve,
           RegisterWait, Canceled, Timeout, SendFlow, Return, TypeOK
  <1>3. CASE tx' = tx
    <2>1. \/ answer'[c] = answer[c] /\ (pc'[c] \in Unasked => pc[c] \in Unasked)
          \/ /\ answer[c] # NoMessage /\ answer[c].kind = "not_ready"
             /\ answer'[c] = NoMessage /\ Op[c] = "create_producer"
      BY <1>3 DEF Begin, FirstStep, CallStep, RegisterConsumer,
         RegisterCall,
             Transmit, Resolve, RegisterWait, Canceled, Timeout, SendFlow, Return,
             TypeOK, Unasked
    <2>2. CASE answer'[c] = answer[c] /\ (pc'[c] \in Unasked => pc[c] \in Unasked)
      <3>1. ASSUME NEW d \in Calls
            PROVE  answer'[d] = answer[d] /\ (pc'[d] \in Unasked => pc[d] \in Unasked)
        BY <1>2, <2>2
      <3>2. ASSUME NEW d \in Calls
            PROVE  /\ InQueue(d)' <=> InQueue(d)
                   /\ InFlight(d)' <=> InFlight(d)
                   /\ IsParked(d)' <=> IsParked(d)
                   /\ Holds(d)' <=> Holds(d)
        BY <1>1, <1>3, <3>1 DEF InQueue, InFlight, IsParked, Holds, NotReady
      <3> QED
        BY ZenonT(60), <1>1, <1>3, <3>1, <3>2 DEF OnceInv
    <2>3. CASE /\ answer[c] # NoMessage /\ answer[c].kind = "not_ready"
               /\ answer'[c] = NoMessage /\ Op[c] = "create_producer"
      <3>1. Holds(c)
        BY <2>3 DEF Holds, NotReady, TypeOK, RoutingInv, Correlation
      <3>2. ~Holds(c)'
        BY <2>3, NullAssumption DEF Holds, NotReady
      <3> QED
        BY ZenonT(60), <1>1, <1>2, <1>3, <3>1, <3>2
           DEF OnceInv, InQueue, InFlight, IsParked, Holds, NotReady
    <2> QED
      BY <2>1, <2>2, <2>3
  <1>4. CASE tx' # tx
    <2>1. /\ answer' = answer
          /\ \/ /\ tx' = Append(tx, Command(c)) /\ pc[c] \in Unasked
                /\ pc'[c] \notin Unasked
             \/ tx' = Append(tx, Flow(ConsumerOf[c])) /\ pc' = pc
      BY <1>4 DEF Begin, CallStep, RegisterConsumer, RegisterCall,
         Transmit, Resolve,
           RegisterWait, Canceled, Timeout, SendFlow, Return, TypeOK, Unasked
    <2>2. /\ Command(c) \in Outbound /\ Flow(ConsumerOf[c]) \in Outbound
          /\ \A d \in Calls : Flow(ConsumerOf[c]) # Command(d)
          /\ \A d \in Calls : Command(c) = Command(d) => c = d
      BY CallsAssumption DEF Outbound, Flow, Command
    <2>4. CASE tx' = Append(tx, Flow(ConsumerOf[c])) /\ pc' = pc
      <3>1. ASSUME NEW d \in Calls
            PROVE  Once(tx', {Command(d)}) /\ (InQueue(d)' <=> InQueue(d))
        <4>1. Once(tx, {Command(d)}) /\ Flow(ConsumerOf[c]) # Command(d)
          BY <2>2 DEF OnceInv
        <4> QED
          BY <2>2, <2>4, <4>1, QueueAppend
      <3> QED
        BY <1>1, <2>1, <2>4, <3>1 DEF OnceInv, InFlight, IsParked,
           Holds, NotReady
    <2>5. CASE /\ tx' = Append(tx, Command(c)) /\ pc[c] \in Unasked
               /\ pc'[c] \notin Unasked
      <3>1. ASSUME NEW d \in Calls
            PROVE  Once(tx', {Command(d)}) /\ (d # c => (InQueue(d)' <=> InQueue(d)))
        <4>1. Once(tx, {Command(d)}) /\ (Command(c) = Command(d) => ~InQueue(d))
          BY <2>2, <2>5 DEF OnceInv
        <4> QED
          BY <2>2, <2>5, <4>1, QueueAppend
      <3>2. /\ c \notin requests /\ ~InFlight(c) /\ ~IsParked(c) /\ ~Holds(c)
        BY <2>5 DEF OnceInv
      <3> QED
        BY ZenonT(60), <1>1, <1>2, <2>1, <2>5, <3>1, <3>2
           DEF OnceInv, InFlight, IsParked, Holds, NotReady
    <2> QED
      BY <2>1, <2>4, <2>5
  <1> QED
    BY <1>3, <1>4

\* The sender task moves a command to the broker, or drops it.
LEMMA OnceSender ==
  ASSUME TypeOK, OnceInv, SenderTask
  PROVE  OnceInv'
  <1>1. UNCHANGED <<inbound, received_messages, pc, answer>>
    BY DEF SenderTask, SendNext, SenderDone
  <1>2. CASE tx' = <<>> /\ requests' = requests
    <2>1. \A d \in Calls : Once(tx, {Command(d)})' /\ ~InQueue(d)'
      BY <1>2, RangeEmpty DEF Once, InQueue
    <2> QED
      BY <1>1, <1>2, <2>1 DEF OnceInv, InFlight, IsParked, Holds,
         NotReady
  <1>3. CASE /\ tx # <<>> /\ tx' = Tail(tx)
             /\ \/ requests' = requests
                \/ /\ Head(tx).type = "command"
                   /\ requests' = requests \cup {Head(tx).call}
    <2>1. ASSUME NEW c \in Calls
          PROVE  /\ Once(tx', {Command(c)}) /\ (InQueue(c)' => InQueue(c))
                 /\ Head(tx) = Command(c) => InQueue(c) /\ ~InQueue(c)'
      <3>1. Once(tx, {Command(c)})
        BY DEF OnceInv
      <3> QED
        BY <1>3, <3>1, QueueTail
    <2>2. Head(tx).type = "command" => Head(tx) = Command(Head(tx).call)
      <3>1. Head(tx) \in Outbound
        BY <1>3, PopType DEF TypeOK
      <3> QED
        BY <3>1 DEF Outbound, Command, Flow, Pong
    <2>3. \A c \in Calls : c \in requests' =>
            c \in requests \/ (InQueue(c) /\ ~InQueue(c)')
      BY <1>3, <2>1, <2>2
    <2>4. \A c \in Calls : InQueue(c)' => c \notin requests'
      BY <2>1, <2>3 DEF OnceInv
    <2> QED
      BY <1>1, <2>1, <2>3, <2>4 DEF OnceInv, InFlight, IsParked,
         Holds, NotReady
  <1>4. CASE UNCHANGED <<tx, requests>>
    BY <1>1, <1>4 DEF OnceInv, InQueue, InFlight, IsParked, Holds,
       NotReady
  <1> QED
    BY <1>2, <1>3, <1>4 DEF SenderTask, SendNext, SenderDone,
       BrokerReads

\* The Receiver moves a not_ready from the socket to its call or to the parked
\* replies ...
LEMMA OnceInbound ==
  ASSUME TypeOK, RoutingInv, OnceInv, PollInbound
  PROVE  OnceInv'
  <1> DEFINE m == Head(inbound)
  <1>1. /\ UNCHANGED <<pc, requests>> /\ inbound' = Tail(inbound)
        /\ inbound \in Seq(Message) /\ inbound # <<>>
    BY DEF PollInbound, TypeOK
  <1>2. tx' = tx \/ tx' = Append(tx, Pong)
    BY DEF PollInbound, HandlePing, HandlePong, HandleReply, HandleConsumerMessage,
           HandleCloseConsumer
  <1>3. ASSUME NEW c \in Calls
        PROVE  Once(tx', {Command(c)}) /\ (InQueue(c)' <=> InQueue(c))
    <2>1. Once(tx, {Command(c)})
      BY DEF OnceInv
    <2>2. Pong \in Outbound /\ Pong # Command(c)
      BY DEF Outbound, Pong, Command
    <2>3. CASE tx' = tx
      BY <2>1, <2>3 DEF InQueue
    <2>4. CASE tx' = Append(tx, Pong)
      BY <2>1, <2>2, <2>4, QueueAppend
    <2> QED
      BY <1>2, <2>3, <2>4
  <1>4. ASSUME NEW c \in Calls
        PROVE  /\ Once(inbound', NotReady(c))
               /\ InFlight(c)' => InFlight(c)
               /\ m \in NotReady(c) => InFlight(c) /\ ~InFlight(c)'
    <2>1. Once(inbound, NotReady(c))
      BY DEF OnceInv
    <2>2. /\ Once(Tail(inbound), NotReady(c))
          /\ Head(inbound) \in NotReady(c) =>
               Range(Tail(inbound)) \cap NotReady(c) = {}
      BY <1>1, <2>1, OnceTail
    <2>3. Range(inbound) = Range(inbound') \cup {m}
      BY InboundMail
    <2>4. NotReady(c)' = NotReady(c)
      BY DEF NotReady, Message, Keys
    <2> QED
      BY <1>1, <2>2, <2>3, <2>4 DEF InFlight
  <1>5. ASSUME NEW c \in Calls
        PROVE  /\ IsParked(c)' => IsParked(c) \/ (m \in NotReady(c) /\ answer' = answer)
               /\ Holds(c)' => Holds(c) \/ m \in NotReady(c)
    BY InboundMail DEF IsParked, Holds, NotReady, Message, Keys
  <1> QED
    BY <1>1, <1>3, <1>4, <1>5 DEF OnceInv, Holds

\* ... and from there to its call.
LEMMA OnceRegistration ==
  ASSUME TypeOK, RoutingInv, OnceInv, PollRegistration
  PROVE  OnceInv'
  <1>1. UNCHANGED <<pc, requests, inbound, tx>>
    BY DEF PollRegistration
  <1>2. \A c \in Calls : (InQueue(c)' <=> InQueue(c)) /\ (InFlight(c)' <=> InFlight(c))
    BY <1>1 DEF InQueue, InFlight, NotReady, Message, Keys
  <1>3. received_messages' \subseteq received_messages
    BY RegistrationMail
  <1>4. \A c \in Calls : IsParked(c)' => IsParked(c)
    BY <1>3 DEF IsParked, NotReady, Message, Keys
  <1>5. ASSUME NEW c \in Calls, Holds(c)', ~Holds(c)
        PROVE  IsParked(c) /\ ~IsParked(c)'
    <2>1. answer'[c] # answer[c]
      BY <1>5 DEF Holds, NotReady, Message, Keys
    <2>2. PICK d \in Calls, m \in received_messages :
            /\ received_messages' = {n \in received_messages : n.key # key[d]}
            /\ answer' = answer \/ answer' = [answer EXCEPT ![d] = m]
      BY <2>1, RegistrationMail
    <2>3. c = d /\ m = answer'[c]
      BY <2>1, <2>2 DEF TypeOK
    <2>4. m \in NotReady(c)
      BY <1>5, <2>3 DEF Holds, NotReady, Message, Keys
    <2>5. \A n \in received_messages : n \in NotReady(c) => n.key = key[c]
      BY DEF RoutingInv, ReplyInv, IsReplyTo, NotReady
    <2>6. received_messages' \cap NotReady(c) = {}
      BY <2>2, <2>3, <2>5
    <2> QED
      BY <2>4, <2>6 DEF IsParked, NotReady, Message, Keys
  <1> QED
    BY <1>1, <1>2, <1>4, <1>5 DEF OnceInv, NotReady, Message, Keys

\* The broker turns a request into a not_ready, if it is one of create_producer.
LEMMA OnceBroker ==
  ASSUME TypeOK, RoutingInv, OnceInv, Broker
  PROVE  OnceInv'
  <1>1. UNCHANGED <<pc, tx, received_messages, answer>>
    BY BrokerMail
  <1>2. \A c \in Calls : /\ InQueue(c)' <=> InQueue(c)
                         /\ IsParked(c)' <=> IsParked(c)
                         /\ Holds(c)' <=> Holds(c)
    BY <1>1 DEF InQueue, IsParked, Holds, NotReady, Message, Keys
  <1>3. CASE inbound' = inbound /\ requests' = requests
    BY ZenonT(60), <1>1, <1>2, <1>3 DEF OnceInv, InFlight, NotReady, Message, Keys
  <1>4. ASSUME NEW m \in Message, inbound' = Append(inbound, m),
               Range(inbound') = Range(inbound) \cup {m}, Replying(m) \/ Pushing(m)
        PROVE  OnceInv'
    <2>1. requests' \subseteq requests
      BY <1>4 DEF Replying, Pushing
    <2>2. ASSUME NEW c \in Calls, m \in NotReady(c)
          PROVE  c \in requests /\ c \notin requests' /\ Op[c] = "create_producer"
      <3>1. Replying(m) /\ m.kind = "not_ready" /\ m.call = c
        BY <1>4, <2>2 DEF Pushing, NotReady, ReplyKinds
      <3> QED
        BY <3>1, CallsAssumption DEF Replying, ReplyKindsOf, Ops
    <2>3. ASSUME NEW c \in Calls
          PROVE  /\ Once(inbound', NotReady(c))
                 /\ InFlight(c)' => InFlight(c) \/ m \in NotReady(c)
      <3>1. Once(inbound, NotReady(c)) /\ inbound \in Seq(Message)
        BY DEF OnceInv, TypeOK
      <3>2. m \in NotReady(c) => Range(inbound) \cap NotReady(c) = {}
        BY <2>2 DEF OnceInv, InFlight
      <3>3. Once(Append(inbound, m), NotReady(c))
        BY <3>1, <3>2, OnceAppend
      <3> QED
        BY <1>4, <3>3 DEF InFlight, NotReady, Message, Keys
    <2> QED
      BY <1>1, <1>2, <2>1, <2>2, <2>3 DEF OnceInv, NotReady,
         Message, Keys
  <1> QED
    BY <1>3, <1>4, BrokerMail

\* The other steps move no command and no not_ready.
LEMMA OnceQuiet ==
  ASSUME TypeOK, OnceInv,
         \/ TakeError \/ DropConnection \/ UNCHANGED vars
         \/ PollShutdown \/ RegistrationsDone \/ InboundEnd \/ InboundPending
  PROVE  OnceInv'
  <1>1. /\ UNCHANGED <<pc, tx, requests, answer>>
        /\ inbound' = inbound \/ (inbound # <<>> /\ inbound' = Tail(inbound))
    BY DEF TakeError, DropConnection, vars, PollShutdown, RegistrationsDone,
           InboundEnd, InboundPending
  <1>2. /\ Range(inbound') \subseteq Range(inbound)
        /\ received_messages' \subseteq received_messages
    BY QuietMail
  <1>3. ASSUME NEW c \in Calls
        PROVE  Once(inbound', NotReady(c))
    <2>1. Once(inbound, NotReady(c)) /\ inbound \in Seq(Message)
      BY DEF OnceInv, TypeOK
    <2>2. inbound # <<>> => Once(Tail(inbound), NotReady(c))
      BY <2>1, OnceTail
    <2> QED
      BY <1>1, <2>1, <2>2
  <1>4. \A c \in Calls : /\ InQueue(c)' <=> InQueue(c)
                         /\ InFlight(c)' => InFlight(c)
                         /\ IsParked(c)' => IsParked(c)
                         /\ Holds(c)' <=> Holds(c)
    BY <1>1, <1>2 DEF InQueue, InFlight, IsParked, Holds, NotReady,
       Message, Keys
  <1> QED
    BY <1>1, <1>3, <1>4 DEF OnceInv, NotReady, Message, Keys

-----------------------------------------------------------------------------
(* Every step of the connection is a step of Rpc *)

\* While a call runs, the Receiver and the sender task end only with the socket.
LEMMA LinkStep ==
  ASSUME TypeOK, LinkInv, [Next]_vars
  PROVE  LinkInv'
  <1>1. CASE \E c \in Calls : Begin(c) \/ CallStep(c) \/ Timeout(c) \/ SendFlow(c)
    <2> PICK c \in Calls : Begin(c) \/ CallStep(c) \/ Timeout(c) \/ SendFlow(c)
      BY <1>1
    <2>1. /\ UNCHANGED <<receiver, sender_task, socket, dropped>>
          /\ \/ pc' = pc
             \/ ~dropped
          /\ \A d \in Calls : d # c => pc'[d] = pc[d]
          /\ pc'[c] = "unregistered" => pc[c] = "unregistered" \/ receiver = "ended"
      BY DEF Begin, FirstStep, CallStep, RegisterConsumer, RegisterCall, Transmit,
             Resolve, RegisterWait, Canceled, Timeout, SendFlow, Return, TypeOK,
             LinkInv, Timed, Waiting
    <2> QED
      BY <2>1 DEF LinkInv
  <1>2. CASE DropConnection
    BY <1>2 DEF DropConnection, LinkInv
  <1>3. CASE TakeError
    BY <1>3 DEF TakeError, LinkInv
  <1>4. CASE PollReceiver
    <2>1. /\ UNCHANGED <<pc, sender_task, socket, dropped>>
          /\ receiver' = receiver \/ receiver' = "ended"
      BY <1>4 DEF PollReceiver, PollShutdown, PollRegistration, ReceiverEnds,
                  RegistrationsDone, PollInbound, InboundEnd, InboundPending
    <2> QED
      BY <2>1 DEF LinkInv
  <1>5. CASE SenderTask
    BY <1>5 DEF SenderTask, SendNext, SenderDone, BrokerReads, LinkInv
  <1>6. CASE Broker
    <2>1. /\ UNCHANGED <<pc, receiver, sender_task, dropped>>
          /\ socket' = socket \/ socket' = "closed"
      BY <1>6 DEF Broker, BrokerAnswers, BrokerGrantsAccess, BrokerSendsMessage,
                  BrokerClosesConsumer, BrokerPushes, SocketBreaks
    <2> QED
      BY <2>1 DEF LinkInv
  <1>7. CASE UNCHANGED vars
    BY <1>7 DEF vars, LinkInv
  <1> QED
    BY <1>1, <1>2, <1>3, <1>4, <1>5, <1>6, <1>7 DEF Next

\* Oneshots hold what their calls can be answered with.
LEMMA AnswerStep ==
  ASSUME TypeOK, RoutingInv, AnswerInv, [Next]_vars
  PROVE  AnswerInv'
  <1>1. CASE \/ \E c \in Calls : Begin(c) \/ CallStep(c) \/ Timeout(c) \/ SendFlow(c)
             \/ TakeError \/ DropConnection \/ SenderTask \/ UNCHANGED vars
             \/ PollShutdown \/ RegistrationsDone \/ InboundEnd \/ InboundPending
    <2>1. /\ Range(inbound') \subseteq Range(inbound)
          /\ received_messages' \subseteq received_messages
          /\ \A c \in Calls : answer'[c] = answer[c] \/ answer'[c] = NoMessage
      BY <1>1, QuietMail
    <2> QED
      BY <2>1 DEF AnswerInv
  <1>2. CASE Broker
    <2>1. UNCHANGED <<answer, received_messages>>
      BY <1>2, BrokerMail
    <2>2. \A m \in Range(inbound') : m \in Range(inbound) \/ Replying(m) \/ Pushing(m)
      BY <1>2, BrokerMail
    <2>3. ASSUME NEW m, Replying(m), m.kind = "pong"
          PROVE  m.call \in Calls /\ Op[m.call] = "ping"
      BY <2>3, CallsAssumption DEF Replying, ReplyKindsOf, Ops
    <2>4. ASSUME NEW m, Replying(m)
          PROVE  m.kind # "close_consumer"
      BY <2>4 DEF Replying, ReplyKindsOf
    <2>5. ASSUME NEW m, Pushing(m)
          PROVE  m.kind # "pong"
      BY <2>5 DEF Pushing, ReplyKinds
    <2>6. ASSUME NEW m, Pushing(m), m.kind = "close_consumer"
          PROVE  \E n \in CloseIds : m.key = <<"RequestId", n>>
      BY <2>6 DEF Pushing
    <2>7. \A m \in Range(inbound') :
            /\ m.kind = "pong" => m.call \in Calls /\ Op[m.call] = "ping"
            /\ m.kind = "close_consumer" =>
                 \E n \in CloseIds : m.key = <<"RequestId", n>>
      BY <2>2, <2>3, <2>4, <2>5, <2>6 DEF AnswerInv
    <2> QED
      BY <2>1, <2>7 DEF AnswerInv
  <1>3. CASE PollRegistration
    <2>1. UNCHANGED inbound /\ received_messages' \subseteq received_messages
      BY <1>3, RegistrationMail
    <2>2. \A c \in Calls :
            \/ answer'[c] = answer[c]
            \/ Op[c] # "ping" /\ answer'[c] \in received_messages
      BY <1>3, RegistrationMail DEF TypeOK
    <2>3. "close_consumer" \notin ReplyKinds
      BY DEF ReplyKinds
    <2> QED
      BY <2>1, <2>2, <2>3 DEF AnswerInv
  <1>4. CASE PollInbound
    <2> DEFINE m == Head(inbound)
    <2>1. /\ m \in Range(inbound) /\ Range(inbound') \subseteq Range(inbound)
          /\ \A n \in received_messages' :
               n \in received_messages \/ n.kind \in ReplyKinds \ {"pong"}
          /\ UNCHANGED key
      BY <1>4, InboundMail
    <2>2. \A c \in Calls :
              \/ answer'[c] = answer[c]
              \/ /\ answer'[c] = m
                 /\ \/ m.kind = "pong" /\ Op[c] = "ping"
                    \/ /\ Op[c] # "ping" /\ key[c] = m.key
                       /\ m.kind \in (ReplyKinds \ {"pong"}) \cup {"close_consumer"}
      BY <1>4, InboundMail
    <2>3. ASSUME NEW c \in Calls, answer'[c] = m, m.kind = "close_consumer",
                 key[c] = m.key
          PROVE  Op[c] # "send"
      <3>1. PICK n \in CloseIds : key[c] = <<"RequestId", n>>
        BY <2>1, <2>3 DEF AnswerInv
      <3>2. key[c] # NoKey
        BY <3>1, CallsAssumption, NullAssumption DEF Keys
      <3> QED
        BY <3>1, <3>2 DEF RoutingInv, KeyInv
    <2> QED
      BY <2>1, <2>2, <2>3 DEF AnswerInv
  <1> QED
    BY <1>1, <1>2, <1>3, <1>4 DEF Next, PollReceiver

\* A returning call has an outcome the abstract service justifies.
LEMMA ReturnStep ==
  ASSUME TypeOK, RoutingInv, EndInv, AnswerInv, LinkInv, OnceInv,
         NEW c \in Calls, NEW r, pc[c] \notin {"idle", "done"}, Return(c, r),
         UNCHANGED <<inbound, received_messages, answer, socket>>,
         \/ /\ answer[c] # NoMessage /\ r = Outcome(answer[c]) /\ pc[c] \in Waiting
            /\ ~(/\ Op[c] = "create_producer" /\ pc[c] = "waiting"
                 /\ answer[c].kind = "not_ready")
         \/ r = "disconnected" /\ (\/ receiver = "ended" \/ sender_task = "ended"
                                  \/ Op[c] = "ping")
         \/ r = "timed_out"
  PROVE  Service!Return(c)
  <1>1. ~dropped /\ (receiver = "ended" \/ sender_task = "ended" => socket = "closed")
    BY DEF LinkInv, EndInv, TypeOK
  <1>2. UNCHANGED <<Replies, socket>>
    BY DEF Replies, Mail
  <1>3. /\ Stage[c] = "called"
        /\ Stage' = [Stage EXCEPT ![c] = "returned"]
        /\ result' = [result EXCEPT ![c] = r]
    BY DEF Stage, Return, TypeOK
  <1>4. Service!Justified(c, r)
    <2>1. CASE /\ answer[c] # NoMessage /\ r = Outcome(answer[c]) /\ pc[c] \in Waiting
               /\ ~(/\ Op[c] = "create_producer" /\ pc[c] = "waiting"
                    /\ answer[c].kind = "not_ready")
      <3> DEFINE m == answer[c]
      <3>1. m.kind \in ReplyKinds => [call |-> m.call, kind |-> m.kind] \in Replies
        BY <2>1 DEF Replies, Mail
      <3>2. CASE Op[c] = "ping"
        <4>1. m.kind = "pong" /\ m.call \in Calls /\ Op[m.call] = "ping"
          BY <2>1, <3>2 DEF AnswerInv
        <4>2. r = "ok"
          BY <2>1, <4>1 DEF Outcome
        <4> QED
          BY <3>1, <3>2, <4>1, <4>2
             DEF Service!Justified, Service!Replied, ReplyKinds
      <3>3. CASE Op[c] # "ping" /\ m.kind = "close_consumer"
        <4>1. r = "unexpected_response" /\ Op[c] # "send"
          BY <2>1, <3>3 DEF Outcome, AnswerInv
        <4> QED
          BY <3>3, <4>1 DEF Service!Justified
      <3>4. CASE Op[c] # "ping" /\ m.kind # "close_consumer"
        <4>1. m.call = c /\ m.kind \in ReplyKinds \ {"pong"}
          BY <2>1, <3>4 DEF AnswerInv, RoutingInv, Correlation
        <4>2. m.kind # "not_ready"
          <5> SUFFICES ASSUME m.kind = "not_ready" PROVE FALSE
            OBVIOUS
          <5>1. Holds(c)
            BY <2>1, <4>1 DEF Holds, NotReady, TypeOK
          <5> QED
            BY <2>1, <5>1 DEF OnceInv, Unasked, Waiting
        <4> QED
          BY <2>1, <3>1, <4>1, <4>2
             DEF Outcome, Service!Justified, Service!Replied, ReplyKinds
      <3> QED
        BY <3>2, <3>3, <3>4
    <2>2. CASE \/ r = "timed_out"
               \/ r = "disconnected" /\ (\/ receiver = "ended" \/ sender_task = "ended"
                                        \/ Op[c] = "ping")
      BY <1>1, <2>2 DEF Service!Justified
    <2> QED
      BY <2>1, <2>2
  <1>5. r \in {"ok", "pulsar_error", "unexpected_response", "disconnected", "timed_out"}
    BY DEF Outcome
  <1> QED
    BY <1>2, <1>3, <1>4, <1>5 DEF Service!Return

\* The invariants of the refinement hold in every reachable state.
LEMMA RpcInvariant == Spec => [](AnswerInv /\ LinkInv /\ OnceInv)
  <1>1. Init => AnswerInv /\ LinkInv /\ OnceInv
    <2> SUFFICES ASSUME Init PROVE AnswerInv /\ LinkInv /\ OnceInv
      OBVIOUS
    <2>1. Range(inbound) = {} /\ Range(tx) = {} /\ Len(tx) = 0 /\ Len(inbound) = 0
      BY RangeEmpty DEF Init
    <2>2. AnswerInv /\ LinkInv
      BY <2>1 DEF Init, AnswerInv, LinkInv
    <2>3. OnceInv
      BY <2>1, NullAssumption
         DEF Init, OnceInv, Once, InQueue, InFlight, IsParked, Holds, NotReady
    <2> QED
      BY <2>2, <2>3
  <1>2. TypeOK /\ RoutingInv /\ OnceInv /\ [Next]_vars => OnceInv'
    BY OnceCall, OnceSender, OnceInbound, OnceRegistration, OnceBroker, OnceQuiet
       DEF Next, PollReceiver
  <1>3. TypeOK /\ RoutingInv /\ AnswerInv /\ LinkInv /\ [Next]_vars
          => AnswerInv' /\ LinkInv'
    BY AnswerStep, LinkStep
  <1> QED
    BY <1>1, <1>2, <1>3, TypeCorrect, RoutingInvariant, PTL DEF Spec

\* A step of a call is a Call, a Return, a loss of a reply, or nothing.
LEMMA CallRefines ==
  ASSUME TypeOK, RoutingInv, EndInv, AnswerInv, LinkInv, OnceInv, NEW c \in Calls,
         Begin(c) \/ CallStep(c) \/ Timeout(c) \/ SendFlow(c)
  PROVE  [Service!Next]_(Service!vars)
  <1>1. UNCHANGED <<inbound, received_messages, socket>>
    BY DEF Begin, CallStep, RegisterConsumer, RegisterCall, Transmit, Resolve,
           RegisterWait, Canceled, Timeout, SendFlow
  <1>2. CASE Begin(c)
    <2>1. UNCHANGED <<answer, result>> /\ pc[c] = "idle"
      BY <1>2 DEF Begin
    <2>2. Stage' = [Stage EXCEPT ![c] = "called"] /\ Stage[c] = "idle"
      BY <1>2 DEF Begin, FirstStep, Stage, TypeOK
    <2> QED
      BY <1>1, <2>1, <2>2 DEF Replies, Mail, Service!Next,
         Service!Call
  <1>3. CASE UNCHANGED <<answer, result>> /\ ({pc[c], pc'[c]} \cap {"idle", "done"} = {})
                /\ \A d \in Calls : d # c => pc'[d] = pc[d]
    <2>1. Stage' = Stage
      BY <1>3 DEF Stage
    <2> QED
      BY <1>1, <1>3, <2>1 DEF Replies, Mail, Service!vars
  <1>4. ASSUME NEW r, Return(c, r), answer' = answer, pc[c] \notin {"idle", "done"},
               \/ /\ answer[c] # NoMessage /\ r = Outcome(answer[c])
                  /\ pc[c] \in Waiting
                  /\ ~(/\ Op[c] = "create_producer" /\ pc[c] = "waiting"
                       /\ answer[c].kind = "not_ready")
               \/ r = "disconnected" /\ (\/ receiver = "ended"
                                        \/ sender_task = "ended"
                                        \/ Op[c] = "ping")
               \/ r = "timed_out"
        PROVE  Service!Next
    <2>1. Service!Return(c)
      BY <1>1, <1>4, ReturnStep
    <2> QED
      BY <2>1 DEF Service!Next
  <1>5. CASE RegisterConsumer(c)
    BY <1>3, <1>4, <1>5 DEF RegisterConsumer, TypeOK
  <1>6. CASE RegisterCall(c)
    BY <1>3, <1>6 DEF RegisterCall, TypeOK
  <1>7. CASE Transmit(c)
    <2>1. pc[c] = "unregistered" => receiver = "ended"
      BY DEF LinkInv
    <2>2. sender_task # "running" => sender_task = "ended"
      BY DEF TypeOK
    <2>3. CASE pc[c] = "transmit" /\ sender_task = "running"
      BY <1>3, <1>7, <2>3 DEF Transmit, TypeOK
    <2>4. CASE ~(pc[c] = "transmit" /\ sender_task = "running")
      BY <1>4, <1>7, <2>1, <2>2, <2>4 DEF Transmit
    <2> QED
      BY <2>3, <2>4
  <1>8. CASE Resolve(c)
    <2> DEFINE waits == /\ Op[c] = "create_producer" /\ pc[c] = "waiting"
                        /\ answer[c].kind = "not_ready"
    <2>1. CASE waits
      <3>1. /\ \A d \in Calls : answer'[d] = answer[d] \/ answer'[d] = NoMessage
            /\ result' = result /\ pc' = [pc EXCEPT ![c] = "exclusive"]
        BY <1>8, <2>1 DEF Resolve, TypeOK
      <3>2. Replies' \subseteq Replies
        BY <1>1, <3>1 DEF Replies, Mail
      <3>3. Stage' = Stage
        BY <2>1, <3>1 DEF Stage, TypeOK
      <3> QED
        BY <1>1, <3>1, <3>2, <3>3 DEF Service!Next, Service!Lose
    <2>2. CASE ~waits
      BY <1>4, <1>8, <2>2 DEF Resolve, Waiting
    <2> QED
      BY <2>1, <2>2
  <1>9. CASE RegisterWait(c)
    BY <1>3, <1>4, <1>9 DEF RegisterWait, TypeOK
  <1>10. CASE Canceled(c)
    <2>1. receiver = "ended" \/ Op[c] = "ping"
      BY <1>10 DEF Canceled, RoutingInv, HeldInv, TypeOK
    <2> QED
      BY <1>4, <1>10, <2>1 DEF Canceled, Waiting
  <1>11. CASE Timeout(c)
    BY <1>4, <1>11 DEF Timeout, Timed
  <1>12. CASE SendFlow(c)
    <2>1. UNCHANGED <<answer, result, pc>>
      BY <1>12 DEF SendFlow
    <2> QED
      BY <1>1, <2>1 DEF Stage, Replies, Mail, Service!vars
  <1> QED
    BY <1>2, <1>5, <1>6, <1>7, <1>8, <1>9, <1>10, <1>11, <1>12 DEF CallStep

\* The steps of the Receiver, of the sender task and of the broker move replies,
\* lose them, add one, or break the link.
LEMMA OtherRefines ==
  ASSUME TypeOK, RoutingInv, TakeError \/ DropConnection \/ PollReceiver \/ SenderTask
                             \/ Broker \/ UNCHANGED vars
  PROVE  [Service!Next]_(Service!vars)
  <1>1. UNCHANGED <<pc, result>>
    BY DEF TakeError, DropConnection, SenderTask, SendNext,
       SenderDone, Broker,
           BrokerAnswers, BrokerGrantsAccess, BrokerSendsMessage,
           BrokerClosesConsumer, BrokerPushes, SocketBreaks, PollReceiver,
           PollShutdown, PollRegistration, RegistrationsDone, PollInbound,
           InboundEnd, InboundPending, vars
  <1>2. Stage' = Stage
    BY <1>1 DEF Stage
  <1>3. ASSUME Mail' \subseteq Mail, socket' = socket
        PROVE  Service!Next
    <2>1. Replies' \subseteq Replies
      BY <1>3 DEF Replies
    <2> QED
      BY <1>1, <1>2, <1>3, <2>1 DEF Service!Next, Service!Lose
  <1>4. CASE \/ TakeError \/ DropConnection \/ SenderTask \/ UNCHANGED vars
             \/ PollShutdown \/ RegistrationsDone \/ InboundEnd \/ InboundPending
    <2>1. Mail' \subseteq Mail
      BY <1>4, QuietMail DEF Mail
    <2>2. socket' = socket
      BY <1>4 DEF TakeError, DropConnection, SenderTask, SendNext,
         SenderDone,
           BrokerReads, PollShutdown, RegistrationsDone, InboundEnd, InboundPending,
           vars
    <2> QED
      BY <1>3, <2>1, <2>2
  <1>5. CASE PollRegistration
    <2>1. /\ UNCHANGED <<inbound, socket>>
          /\ received_messages' \subseteq received_messages
          /\ \A c \in Calls :
               answer'[c] = answer[c] \/ answer'[c] \in received_messages
      BY <1>5, RegistrationMail DEF TypeOK
    <2>2. Mail' \subseteq Mail
      BY <2>1 DEF Mail
    <2> QED
      BY <1>3, <2>1, <2>2
  <1>6. CASE PollInbound
    <2>1. /\ UNCHANGED socket
          /\ Range(inbound') \subseteq Range(inbound)
          /\ Head(inbound) \in Range(inbound)
          /\ received_messages' \subseteq received_messages \cup {Head(inbound)}
          /\ \A c \in Calls :
               answer'[c] = answer[c] \/ answer'[c] = Head(inbound)
      BY <1>6, InboundMail
    <2>2. Mail' \subseteq Mail
      BY <2>1 DEF Mail
    <2> QED
      BY <1>3, <2>1, <2>2
  <1>7. CASE Broker
    <2>1. UNCHANGED <<answer, received_messages>>
      BY <1>7, BrokerMail
    <2>2. CASE inbound' = inbound /\ socket = "open" /\ socket' = "closed"
      BY <1>1, <1>2, <2>1, <2>2 DEF Replies, Mail, Service!Next, Service!Break
    <2>3. ASSUME NEW m \in Message, Range(inbound') = Range(inbound) \cup {m},
                 Replying(m)
          PROVE  Service!Next
      <3>1. m.kind \in ReplyKinds
        BY <2>3 DEF Replying, ReplyKindsOf, ReplyKinds
      <3>2. Replies' = Replies \cup {[call |-> m.call, kind |-> m.kind]}
        BY <2>1, <2>3, <3>1 DEF Replies, Mail
      <3>3. Stage[m.call] # "idle" /\ m.call \in Calls
        BY <2>3 DEF Replying, Stage
      <3>4. Service!Serve(m.call)
        BY <1>1, <1>2, <2>3, <3>1, <3>2, <3>3
           DEF Replying, Service!Serve, Service!Kinds, ReplyKinds
      <3> QED
        BY <3>3, <3>4 DEF Service!Next
    <2>4. ASSUME NEW m \in Message, Range(inbound') = Range(inbound) \cup {m},
                 Pushing(m)
          PROVE  Service!Next
      <3>1. Replies' = Replies
        BY <2>1, <2>4 DEF Pushing, Replies, Mail
      <3> QED
        BY <1>1, <1>2, <2>4, <3>1
           DEF Pushing, Service!Next, Service!Break, Service!Lose
    <2> QED
      BY <1>7, <2>2, <2>3, <2>4, BrokerMail
  <1> QED
    BY <1>4, <1>5, <1>6, <1>7 DEF PollReceiver

\* The connection implements the abstract request/response service, whatever the
\* calls, the broker and the tasks of src/connection.rs do.
THEOREM Refinement == Spec => ImplementsRpc
  <1>1. Init => Service!Init
    <2> SUFFICES ASSUME Init PROVE Service!Init
      OBVIOUS
    <2>1. Replies = {}
      BY RangeEmpty DEF Init, Replies, Mail
    <2> QED
      BY <2>1 DEF Init, Stage, Service!Init
  <1>2. /\ TypeOK /\ RoutingInv /\ EndInv /\ AnswerInv /\ LinkInv /\ OnceInv
        /\ [Next]_vars
        => [Service!Next]_(Service!vars)
    BY CallRefines, OtherRefines DEF Next
  <1> QED
    BY <1>1, <1>2, TypeCorrect, RoutingInvariant, HealthInvariant, RpcInvariant, PTL
       DEF Spec, ImplementsRpc, Service!Spec
=============================================================================
