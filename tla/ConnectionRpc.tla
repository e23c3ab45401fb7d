---------------------------- MODULE ConnectionRpc ---------------------------
(***************************************************************************)
(* The connection implements the abstract request/response service of Rpc. *)
(***************************************************************************)
EXTENDS Connection

\* A call is "called" from the moment it starts until it returns.
Stage ==
  [c \in Calls |-> CASE pc[c] = "idle" -> "idle"
                     [] pc[c] = "done" -> "returned"
                     [] OTHER -> "called"]

\* The messages on their way to a call: on the socket, parked in the Receiver,
\* or in the oneshot of a call.
Mail ==
  Range(inbound) \cup received_messages
    \cup {answer[c] : c \in {d \in Calls : answer[d] # NoMessage}}

Replies ==
  {[call |-> m.call, kind |-> m.kind] : m \in {n \in Mail : n.kind \in ReplyKinds}}

Service ==
  INSTANCE Rpc WITH
    Pings <- {c \in Calls : Op[c] = "ping"},
    Numbered <- {c \in Calls : Op[c] \notin {"send", "ping"}},
    stage <- Stage, outcome <- result, replies <- Replies, link <- socket

\* The ConnectionSender, the Receiver and the sender task together behave like
\* the service of Rpc: whatever the registrations, replies, timeouts and failures
\* interleave to, a call returns once, a success or an error of the broker is the
\* broker's reply to that call, and Disconnected is only returned, but to a ping,
\* when the socket is closed.
ImplementsRpc == Service!Spec

-----------------------------------------------------------------------------
(* The inductive invariants behind the refinement *)

\* Pings are answered with pongs, the other calls with the other replies or, if
\* they are numbered, with a CloseConsumer.
AnswerInv ==
  /\ \A m \in received_messages : m.kind \in ReplyKinds \ {"pong"}
  /\ \A m \in Range(inbound) :
       /\ m.kind = "pong" => m.call \in Calls /\ Op[m.call] = "ping"
       /\ m.kind = "close_consumer" =>
            \E n \in CloseIds : m.key = <<"RequestId", n>>
  /\ \A c \in Calls : answer[c] # NoMessage =>
       /\ Op[c] = "ping" => /\ answer[c].kind = "pong"
                            /\ answer[c].call \in Calls
                            /\ Op[answer[c].call] = "ping"
       /\ Op[c] # "ping" => answer[c].kind \in
                              (ReplyKinds \ {"pong"}) \cup {"close_consumer"}
       /\ answer[c].kind = "close_consumer" => Op[c] # "send"

\* While a call runs, nothing but a closed socket ends the Receiver or the sender
\* task.
LinkInv ==
  /\ \A c \in Calls : pc[c] = "unregistered" => receiver = "ended"
  /\ sender_task = "ended" => socket = "closed" \/ dropped
  /\ dropped => \A c \in Calls : pc[c] \in {"idle", "done"}

\* The command of a call, and the not_ready it may be answered with, are in one
\* place at a time; both are gone once the call waits for exclusive access.
Once(s, K) == \A i, j \in 1..Len(s) : s[i] \in K /\ s[j] \in K => i = j

NotReady(c) == {m \in Message : m.kind = "not_ready" /\ m.call = c}

InQueue(c)  == Command(c) \in Range(tx)
InFlight(c) == Range(inbound) \cap NotReady(c) # {}
IsParked(c) == received_messages \cap NotReady(c) # {}
Holds(c)    == answer[c] \in NotReady(c)

Unasked == {"idle", "consumer", "register", "transmit", "unregistered",
            "exclusive", "waiting_exclusive"}

OnceInv ==
  \A c \in Calls :
    /\ Once(tx, {Command(c)}) /\ Once(inbound, NotReady(c))
    /\ InQueue(c) => c \notin requests /\ ~InFlight(c) /\ ~IsParked(c) /\ ~Holds(c)
    /\ c \in requests => ~InFlight(c) /\ ~IsParked(c) /\ ~Holds(c)
    /\ InFlight(c) => ~IsParked(c) /\ ~Holds(c)
    /\ IsParked(c) => ~Holds(c)
    /\ InFlight(c) \/ IsParked(c) \/ Holds(c) => Op[c] = "create_producer"
    /\ pc[c] \in Unasked =>
         /\ ~InQueue(c) /\ c \notin requests
         /\ ~InFlight(c) /\ ~IsParked(c) /\ ~Holds(c)
=============================================================================
