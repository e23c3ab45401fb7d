--------------------------- MODULE ConnectionSetup ---------------------------
(***************************************************************************)
(* How a Connection comes about (src/connection.rs, Connection::new,        *)
(* prepare_stream, prepare_auth_data, connect): several attempts, to        *)
(* several brokers, that race with their timeouts and share one             *)
(* authentication provider behind a mutex (src/authentication.rs); and the  *)
(* stream of bytes on which the Receiver goes on where the handshake        *)
(* stopped (module Codec).  What the Receiver does with a message, and the  *)
(* calls made on the connection, are in module Connection.                  *)
(***************************************************************************)
EXTENDS Codec, FiniteSets

CONSTANTS
  Attempts,      \* calls of Connection::new
  AuthKinds,     \* what the provider may be: "none", "token", "oauth2"
  Frames,        \* the messages a broker may send, by name; "connected" and
                 \* "error" answer the Connect
  Batches,       \* the batches that some of them carry
  MaxTokens,     \* bound: OAuth2 tokens issued
  MaxPushed,     \* bound: messages a broker sends after its first one
  MaxChunks,     \* bound: pieces in which the bytes arrive before the last one
  Nobody

ASSUME SetupAssumption ==
  /\ AuthKinds \subseteq {"none", "token", "oauth2"}
  /\ {"connected", "error"} \cup DOMAIN Batches \subseteq DOMAIN Frames
  /\ {MaxTokens, MaxPushed, MaxChunks} \subseteq Nat
  /\ Nobody \notin Attempts

VARIABLES
  \* the authentication provider
  auth,          \* its kind
  manager,       \* ConnectionManager::new: "new", "ready" or "failed"
  private_params, token_url,     \* set by initialize
  token,         \* the cached token: 0 is None
  issued,        \* OAuth2 tokens issued so far
  age,           \* of each token: "fresh", "expiring" or "expired"
  holder,        \* who holds the mutex, or Nobody
  \* the attempts
  pc,
  none_or_expired,
  dead,          \* tokens that had expired when auth_data was entered (history)
  handed,        \* the token put into the Connect (history)
  result,        \* what Connection::new returned
  \* the sockets and the tasks behind a connection
  socket,        \* "none", "open" or "closed", at the client
  sender,        \* the ConnectionSender: "none", "held" or "dropped"
  receiver,      \* the Receiver: "none", "running" or "ended"
  sender_task,   \* likewise
  src,           \* bytes in the buffer of the Framed stream
  got,           \* messages decoded, the answer to the Connect first
  \* the brokers
  peer,          \* "open" or "closed"
  sent,          \* names of the messages sent
  wire,          \* their bytes on the way
  chunks         \* pieces of them that arrived

provider == <<auth, manager, private_params, token_url, token, issued, age, holder>>
attempts == <<pc, none_or_expired, dead, handed, result>>
tasks    == <<socket, sender, receiver, sender_task>>
stream   == <<src, got>>
brokers  == <<peer, sent, wire, chunks>>
vars     == <<provider, attempts, tasks, stream, brokers>>

Tokens == 1..MaxTokens
Locked == {"auth", "fetch"}
\* The steps of prepare_stream, which select races with the timeout
Raced  == {"stream", "lock", "send", "reply"} \cup Locked

Goto(a, l) == pc' = [pc EXCEPT ![a] = l]
Return(a, r) == Goto(a, "done") /\ result' = [result EXCEPT ![a] = r]

\* The future of prepare_stream is gone, and its stream and its guard with it.
Unlocked(a) == IF holder = a THEN Nobody ELSE holder

FailsHolding(a, r) ==
  /\ Return(a, r)
  /\ socket' = [socket EXCEPT ![a] = IF @ = "open" THEN "closed" ELSE @]
  /\ UNCHANGED holder

Fails(a, r) ==
  /\ Return(a, r)
  /\ socket' = [socket EXCEPT ![a] = IF @ = "open" THEN "closed" ELSE @]
  /\ holder' = Unlocked(a)

-----------------------------------------------------------------------------
(* ConnectionManager::new and initialize *)

\* OAuth2Authentication::initialize reads the credentials, then asks the issuer
\* for its token endpoint; an error of either is one of ConnectionManager::new.
initialize ==
  /\ manager = "new"
  /\ \/ /\ auth # "oauth2"
        /\ manager' = "ready"
        /\ UNCHANGED <<private_params, token_url>>
     \/ /\ auth = "oauth2"
        /\ manager' = "failed"
        /\ private_params' \in BOOLEAN
        /\ UNCHANGED token_url
     \/ /\ auth = "oauth2"
        /\ manager' = "ready"
        /\ private_params' = TRUE
        /\ token_url' = TRUE
  /\ UNCHANGED <<auth, token, issued, age, holder, attempts, tasks, stream, brokers>>

-----------------------------------------------------------------------------
(* Connection::new *)

\* A scheme other than pulsar and pulsar+ssl is refused at once.
Start(a) ==
  /\ manager = "ready"
  /\ pc[a] = "idle"
  /\ \/ Return(a, "not_found")
     \/ Goto(a, "resolve") /\ UNCHANGED result
  /\ UNCHANGED <<provider, none_or_expired, dead, handed, tasks, stream, brokers>>

\* The address lookup on a blocking thread, which is not under the timeout
Resolve(a) ==
  /\ pc[a] = "resolve"
  /\ \/ Return(a, "not_found")
     \/ Goto(a, "stream") /\ UNCHANGED result
  /\ UNCHANGED <<provider, none_or_expired, dead, handed, tasks, stream, brokers>>

\* prepare_stream: the TCP connection and, with pulsar+ssl, TLS on it
Opens(a) ==
  /\ pc[a] = "stream"
  /\ \/ /\ Fails(a, "io")
        /\ UNCHANGED peer
     \/ /\ socket' = [socket EXCEPT ![a] = "open"]
        /\ peer' = [peer EXCEPT ![a] = "open"]
        /\ Goto(a, IF auth = "none" THEN "send" ELSE "lock")
        /\ UNCHANGED <<holder, result>>
  /\ UNCHANGED <<auth, manager, private_params, token_url, token, issued, age,
                 none_or_expired, dead, handed, sender, receiver, sender_task,
                 stream, sent, wire, chunks>>

-----------------------------------------------------------------------------
(* prepare_auth_data *)

\* m_auth.lock().await
Lock(a) ==
  /\ pc[a] = "lock"
  /\ holder = Nobody
  /\ holder' = a
  /\ Goto(a, "auth")
  /\ UNCHANGED <<auth, manager, private_params, token_url, token, issued, age,
                 none_or_expired, dead, handed, result, tasks, stream, brokers>>

is_expired(t)  == age[t] = "expired"
is_expiring(t) == age[t] \in {"expiring", "expired"}

\* The guard is dropped with the answer t.
Hand(a, t) ==
  /\ handed' = [handed EXCEPT ![a] = t]
  /\ holder' = Unlocked(a)
  /\ Goto(a, "send")

\* auth_data, up to the request for a new token.  Its early return, for a provider
\* that was not initialized, is never taken (Initialized).
auth_data(a) ==
  /\ pc[a] = "auth"
  /\ \/ /\ auth = "token"
        /\ Hand(a, 0)
        /\ UNCHANGED <<none_or_expired, dead>>
     \/ /\ auth = "oauth2"
        /\ dead' = [dead EXCEPT ![a] = {t \in Tokens : is_expired(t)}]
        /\ none_or_expired' = [none_or_expired EXCEPT ![a] = token = 0 \/ is_expired(token)]
        /\ \/ /\ token # 0 /\ ~is_expiring(token)
              /\ Hand(a, token)
           \/ /\ token # 0 => is_expiring(token)
              /\ Goto(a, "fetch")
              /\ UNCHANGED <<handed, holder>>
  /\ UNCHANGED <<auth, manager, private_params, token_url, token, issued, age,
                 result, tasks, stream, brokers>>

\* fetch_token failed: the cached token is used again only if auth_data found it
\* unexpired.
FetchFailsReuse(a) ==
  /\ token # 0
  /\ Hand(a, token)
  /\ UNCHANGED <<token, result, socket>>

FetchFails(a) ==
  \/ /\ none_or_expired[a]
     /\ token' = 0
     /\ Fails(a, "authentication")
     /\ UNCHANGED handed
  \/ /\ ~none_or_expired[a]
     /\ Hand(a, token)
     /\ UNCHANGED <<token, result, socket>>

Fetched(a) ==
  /\ pc[a] = "fetch"
  /\ \/ /\ issued < MaxTokens
        /\ issued' = issued + 1
        /\ token' = issued'
        /\ Hand(a, issued')
        /\ UNCHANGED <<result, socket>>
     \/ /\ FetchFails(a)
        /\ UNCHANGED issued
  /\ UNCHANGED <<auth, manager, private_params, token_url, age, none_or_expired,
                 dead, sender, receiver, sender_task, stream, brokers>>

\* Time passes for a token, whoever uses it.
Ages(t) ==
  /\ t <= issued
  /\ age[t] # "expired"
  /\ age' = [age EXCEPT ![t] = IF @ = "fresh" THEN "expiring" ELSE "expired"]
  /\ UNCHANGED <<auth, manager, private_params, token_url, token, issued, holder,
                 attempts, tasks, stream, brokers>>

-----------------------------------------------------------------------------
(* connect *)

\* stream.send(connect); a write to a broker that has closed may still succeed.
SendConnect(a) ==
  /\ pc[a] = "send"
  /\ \/ /\ Goto(a, "reply")
        /\ UNCHANGED <<result, socket, holder>>
     \/ /\ peer[a] = "closed"
        /\ Fails(a, "io")
  /\ UNCHANGED <<auth, manager, private_params, token_url, token, issued, age,
                 none_or_expired, dead, handed, sender, receiver, sender_task,
                 stream, brokers>>

\* Framed::poll_next: an item, the error of an undecodable frame or of a stream
\* that ends inside one, or the end of the stream
Ready(a) == decode(src[a]).kind # "incomplete" \/ (peer[a] = "closed" /\ wire[a] = <<>>)

Polled(a) ==
  LET d == decode(src[a]) IN
  IF d.kind # "incomplete" THEN d
  ELSE IF src[a] = <<>> THEN [kind |-> "end"] ELSE Failure

Take(a, d) ==
  /\ src' = [src EXCEPT ![a] = From(@, d.size)]
  /\ got' = [got EXCEPT ![a] = Append(@, d.item)]

\* The answer to the Connect was read: the Receiver and the sender task are
\* spawned.  If the second cannot be, the ConnectionSender is never made, and the
\* Receiver finds its shutdown channel closed.
Spawns(a) ==
  \/ /\ Return(a, "ok")
     /\ sender' = [sender EXCEPT ![a] = "held"]
     /\ receiver' = [receiver EXCEPT ![a] = "running"]
     /\ sender_task' = [sender_task EXCEPT ![a] = "running"]
     /\ UNCHANGED <<socket, holder>>
  \/ /\ Fails(a, "shutdown")
     /\ UNCHANGED <<sender, receiver, sender_task>>
  \/ /\ Return(a, "shutdown")
     /\ sender' = [sender EXCEPT ![a] = "dropped"]
     /\ receiver' = [receiver EXCEPT ![a] = "running"]
     /\ UNCHANGED <<sender_task, socket, holder>>

Reply(a) ==
  /\ pc[a] = "reply"
  /\ Ready(a)
  /\ LET d == Polled(a) IN
     \/ /\ d.kind = "item"
        /\ Take(a, d)
        /\ \/ d.item = Frames["connected"] /\ Spawns(a)
           \/ /\ d.item # Frames["connected"]
              /\ Fails(a, IF d.item = Frames["error"] THEN "pulsar_error" ELSE "unexpected")
              /\ UNCHANGED <<sender, receiver, sender_task>>
     \/ /\ d.kind = "error"
        /\ Fails(a, "decoding")
        /\ UNCHANGED <<src, got, sender, receiver, sender_task>>
     \/ /\ d.kind = "end"
        /\ Fails(a, "disconnected")
        /\ UNCHANGED <<src, got, sender, receiver, sender_task>>
  /\ UNCHANGED <<auth, manager, private_params, token_url, token, issued, age,
                 none_or_expired, dead, handed, brokers>>

\* delay(connection_timeout) wins the select.
TimeoutHolding(a) ==
  /\ pc[a] \in Raced
  /\ FailsHolding(a, "timed_out")
  /\ UNCHANGED <<auth, manager, private_params, token_url, token, issued, age,
                 none_or_expired, dead, handed, sender, receiver, sender_task,
                 stream, brokers>>

TimeoutBeforeAuth(a) ==
  /\ pc[a] \in {"stream", "send", "reply"}
  /\ Fails(a, "timed_out")
  /\ UNCHANGED <<auth, manager, private_params, token_url, token, issued, age,
                 none_or_expired, dead, handed, sender, receiver, sender_task,
                 stream, brokers>>

Timeout(a) ==
  /\ pc[a] \in Raced
  /\ Fails(a, "timed_out")
  /\ UNCHANGED <<auth, manager, private_params, token_url, token, issued, age,
                 none_or_expired, dead, handed, sender, receiver, sender_task,
                 stream, brokers>>

-----------------------------------------------------------------------------
(* The connection afterwards *)

\* The last Arc<Connection> is dropped.
Drop(a) ==
  /\ sender[a] = "held"
  /\ sender' = [sender EXCEPT ![a] = "dropped"]
  /\ UNCHANGED <<provider, attempts, socket, receiver, sender_task, stream, brokers>>

\* The socket is closed when neither half of the stream is left.
Closes(a) ==
  socket' = [socket EXCEPT ![a] =
               IF receiver'[a] # "running" /\ sender_task'[a] # "running"
               THEN "closed" ELSE @]

\* Receiver::poll looks at the shutdown channel, then at the stream.
NeverShutdown(a) == FALSE
Shutdown(a) == sender[a] = "dropped"

ReceiverEnds(a) ==
  /\ receiver' = [receiver EXCEPT ![a] = "ended"]
  /\ UNCHANGED <<src, got>>

Receives(a) ==
  /\ receiver[a] = "running"
  /\ \/ Shutdown(a) /\ ReceiverEnds(a)
     \/ /\ ~Shutdown(a) /\ Ready(a)
        /\ LET d == Polled(a) IN
           \/ d.kind = "item" /\ Take(a, d) /\ UNCHANGED receiver
           \/ d.kind # "item" /\ ReceiverEnds(a)
  /\ UNCHANGED <<provider, attempts, sender, sender_task, brokers>>
  /\ Closes(a)

SenderTaskEnds(a) ==
  /\ sender_task[a] = "running"
  /\ sender_task' = [sender_task EXCEPT ![a] = "ended"]
  /\ UNCHANGED <<provider, attempts, sender, receiver, stream, brokers>>
  /\ Closes(a)

\* The sender task ends when the senders of its channel are gone: that of the
\* ConnectionSender and that of the Receiver ...
SenderTask(a) ==
  /\ sender[a] = "dropped" /\ receiver[a] = "ended"
  /\ SenderTaskEnds(a)

\* ... or when it cannot write a message.
SenderFails(a) == peer[a] = "closed" /\ SenderTaskEnds(a)

-----------------------------------------------------------------------------
(* The brokers, and the network *)

Broker(a) ==
  /\ peer[a] = "open" /\ socket[a] = "open"
  /\ pc[a] = "reply" \/ sent[a] # <<>>
  /\ Len(sent[a]) <= MaxPushed
  /\ \E f \in DOMAIN Frames :
       /\ sent' = [sent EXCEPT ![a] = Append(@, f)]
       /\ wire' = [wire EXCEPT ![a] = @ \o encode(Frames[f])]
  /\ UNCHANGED <<provider, attempts, tasks, stream, peer, chunks>>

BrokerCloses(a) ==
  /\ peer[a] = "open"
  /\ peer' = [peer EXCEPT ![a] = "closed"]
  /\ UNCHANGED <<provider, attempts, tasks, stream, sent, wire, chunks>>

\* The bytes arrive in pieces that know nothing of the frames.
Arrive(a) ==
  /\ socket[a] = "open"
  /\ wire[a] # <<>>
  /\ \E n \in 1..Len(wire[a]) :
       /\ chunks[a] < MaxChunks \/ n = Len(wire[a])
       /\ src' = [src EXCEPT ![a] = @ \o SubSeq(wire[a], 1, n)]
       /\ wire' = [wire EXCEPT ![a] = From(@, n)]
       /\ chunks' = [chunks EXCEPT ![a] = IF n = Len(wire[a]) THEN @ ELSE @ + 1]
  /\ UNCHANGED <<provider, attempts, tasks, got, peer, sent>>

-----------------------------------------------------------------------------
Init ==
  /\ auth \in AuthKinds
  /\ manager = "new"
  /\ private_params = FALSE /\ token_url = FALSE
  /\ token = 0 /\ issued = 0
  /\ age = [t \in Tokens |-> "fresh"]
  /\ holder = Nobody
  /\ pc = [a \in Attempts |-> "idle"]
  /\ none_or_expired = [a \in Attempts |-> TRUE]
  /\ dead = [a \in Attempts |-> {}]
  /\ handed = [a \in Attempts |-> 0]
  /\ result = [a \in Attempts |-> "none"]
  /\ socket = [a \in Attempts |-> "none"]
  /\ sender = [a \in Attempts |-> "none"]
  /\ receiver = [a \in Attempts |-> "none"]
  /\ sender_task = [a \in Attempts |-> "none"]
  /\ src = [a \in Attempts |-> <<>>]
  /\ got = [a \in Attempts |-> <<>>]
  /\ peer = [a \in Attempts |-> "closed"]
  /\ sent = [a \in Attempts |-> <<>>]
  /\ wire = [a \in Attempts |-> <<>>]
  /\ chunks = [a \in Attempts |-> 0]

Work(a) == Receives(a) \/ SenderTask(a)

Next ==
  \/ initialize
  \/ \E a \in Attempts :
       \/ Start(a) \/ Resolve(a) \/ Opens(a) \/ Lock(a) \/ auth_data(a) \/ Fetched(a)
       \/ SendConnect(a) \/ Reply(a) \/ Timeout(a) \/ Drop(a) \/ Work(a)
       \/ SenderFails(a) \/ Broker(a) \/ BrokerCloses(a) \/ Arrive(a)
  \/ \E t \in Tokens : Ages(t)

Spec == Init /\ [][Next]_vars

\* Lookups return, timers elapse and the executor runs the two tasks.  Nothing is
\* assumed of the network, the brokers and the issuer of tokens.
Fairness ==
  /\ WF_vars(initialize)
  /\ \A a \in Attempts : WF_vars(Resolve(a)) /\ WF_vars(Timeout(a)) /\ WF_vars(Work(a))

FairSpec == Spec /\ Fairness

-----------------------------------------------------------------------------
(* Properties *)

\* Every variable keeps its type, and what returned is what may be returned.
TypeOK ==
  /\ auth \in AuthKinds /\ manager \in {"new", "ready", "failed"}
  /\ {private_params, token_url} \subseteq BOOLEAN
  /\ issued \in 0..MaxTokens /\ token \in 0..issued
  /\ age \in [Tokens -> {"fresh", "expiring", "expired"}]
  /\ holder \in Attempts \cup {Nobody}
  /\ pc \in [Attempts -> Raced \cup {"idle", "resolve", "done"}]
  /\ none_or_expired \in [Attempts -> BOOLEAN]
  /\ dead \in [Attempts -> SUBSET Tokens] /\ handed \in [Attempts -> 0..issued]
  /\ result \in [Attempts -> {"none", "ok", "not_found", "io", "authentication",
                 "pulsar_error", "unexpected", "decoding", "disconnected",
                 "shutdown", "timed_out"}]
  /\ socket \in [Attempts -> {"none", "open", "closed"}]
  /\ sender \in [Attempts -> {"none", "held", "dropped"}]
  /\ {receiver, sender_task} \subseteq [Attempts -> {"none", "running", "ended"}]
  /\ peer \in [Attempts -> {"open", "closed"}]
  /\ \A a \in Attempts :
       /\ Range(src[a]) \cup Range(wire[a]) \subseteq 0..255
       /\ Range(sent[a]) \subseteq DOMAIN Frames
       /\ Len(got[a]) <= Len(sent[a])
       /\ chunks[a] \in 0..MaxChunks

\* auth_data is entered only after initialize: neither its "not initialized" nor
\* the expect of fetch_token is ever met.
Initialized ==
  auth = "oauth2" /\ (\E a \in Attempts : pc[a] # "idle") => private_params /\ token_url

\* The mutex of the provider is held only by an attempt that is inside auth_data:
\* neither an error nor a timeout, during a request for a token included, leaves
\* it locked for the others (prepare_auth_data).
LockReleased == holder # Nobody => pc[holder] \in Locked

\* The token in a Connect had not expired when its attempt entered auth_data,
\* whatever other attempts fetched or failed to fetch before, and there is one:
\* the unwrap at the end of auth_data succeeds.
TokenValid ==
  auth = "oauth2" =>
    \A a \in Attempts :
      /\ pc[a] \in {"send", "reply"} => handed[a] # 0
      /\ handed[a] \notin dead[a]

\* However the bytes are cut into pieces, and whoever reads them, the handshake or
\* the Receiver that takes the stream over from it, the messages decoded are the
\* ones sent, in order, and the bytes that remain are those of the others; and
\* the messages of a batch are the ones the producer packed into it, each with its
\* own key and data: parse_batched_message splits what serialize joined.
InOrder ==
  \A a \in Attempts :
    LET rest == From(sent[a], Len(got[a])) IN
    /\ got[a] = [i \in DOMAIN got[a] |-> Frames[sent[a][i]]]
    /\ src[a] \o wire[a] = FoldLeft(LAMBDA i, f : i \o encode(Frames[f]), <<>>, rest)
    /\ \A i \in DOMAIN got[a] : sent[a][i] \in DOMAIN Batches =>
         BatchedMessageIterator(got[a][i].payload[1]) = <<Batches[sent[a][i]]>>

\* Every attempt returns, whatever the broker, the issuer of tokens and the other
\* attempts do: connection_timeout covers all that follows the address lookup.
AttemptsReturn == []<>(\A a \in Attempts : pc[a] \in {"idle", "done"})

\* An attempt that fails and a connection that is dropped leave no open socket
\* behind, even if the Receiver was spawned and the sender task was not (connect).
\* A write of the sender task completes or fails: a peer that leaves it pending
\* for ever keeps the socket open, and is not modelled.
SocketsClosed ==
  []<>(\A a \in Attempts :
         pc[a] = "done" /\ sender[a] # "held" => socket[a] # "open")

\* The token in a Connect has not expired when it is sent.
TokenFresh ==
  \A a \in Attempts : pc[a] = "send" /\ handed[a] # 0 => ~is_expired(handed[a])
=============================================================================
