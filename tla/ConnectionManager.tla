-------------------------- MODULE ConnectionManager --------------------------
(***************************************************************************)
(* The connection pool (src/connection_manager.rs), for one broker address:*)
(* the entries of the map are independent of each other.  Calls of         *)
(* get_connection race on the entry, which they only touch while they hold *)
(* the map's mutex; a heartbeat task pings each connection; the client's   *)
(* check task removes entries.                                             *)
(*                                                                         *)
(* A call opens at most one connection, so the connection a call opens is  *)
(* identified with the call.                                               *)
(***************************************************************************)
EXTENDS Naturals, FiniteSets

CONSTANTS
  Callers,      \* calls of get_connection, and the connections they open
  min_backoff,  \* ConnectionRetryOptions, in milliseconds
  max_backoff,
  max_retries,
  Jitters,      \* what gen_range(0..10) may return
  MaxDrops,     \* bound: futures dropped, and heartbeats that cannot be spawned
  MaxTaken,     \* bound: calls of Connection::error
  NoConn, Canceled

ASSUME OptionsAssumption ==
  /\ min_backoff \in Nat /\ max_backoff \in Nat /\ max_retries \in Nat
  /\ Jitters \subseteq 0..9
  /\ MaxDrops \in Nat /\ MaxTaken \in Nat

ASSUME NullAssumption ==
  NoConn \notin Callers /\ Canceled \notin Callers /\ NoConn # Canceled

VARIABLES
  \* the calls
  pc,         \* where each call is
  retries,    \* current_retries
  backoff,    \* current_backoff
  answer,     \* what was sent into the call's oneshot: a connection or Canceled
  own,        \* the Arc<Connection> the call, and then its caller, holds
  result,     \* what the call returned
  drops,      \* number of calls that ended without touching the entry: their
              \* future was dropped, or Executor::spawn failed
  \* the entry of the map
  status,     \* "absent", "connecting" or "connected"
  entry,      \* the connection of a "connected" entry
  waiters,    \* the calls whose oneshot is in a "connecting" entry
  \* the connections
  conn,       \* "none", "open", "silent" or "ended"
  error_set,  \* its SharedError
  taken,      \* number of errors taken by Connection::error
  \* the heartbeat task each call may spawn
  heartbeat,  \* "none", "sleeping", "pinging" or "ended"
  beat,       \* the connection it pings
  slot        \* the task whose resolver the connection's Receiver holds

calls   == <<pc, retries, backoff, answer, own, result, drops>>
map     == <<status, entry, waiters>>
peers   == <<conn, error_set, taken>>
tasks   == <<heartbeat, beat, slot>>
vars    == <<calls, map, peers, tasks>>

-----------------------------------------------------------------------------
(* Connection *)

AlwaysValid(d) == TRUE
is_valid(d) == ~error_set[d]

\* Arc::strong_count, the map's own reference left out.  A heartbeat task has a
\* strong reference during a ping.
Referenced(d) ==
  \E c \in Callers : \/ own[c] = d
                     \/ answer[c] = d
                     \/ heartbeat[c] = "pinging" /\ beat[c] = d

Alive(d) == Referenced(d) \/ (status = "connected" /\ entry = d)

Connecting == {"connecting", "backoff"}
WaitingFor == {"waiting", "waiting_inner"}
Running    == Connecting \cup WaitingFor
                \cup {"connect", "failed", "install", "insert"}

Return(c, r) ==
  /\ pc' = [pc EXCEPT ![c] = "done"]
  /\ result' = [result EXCEPT ![c] = r]

\* tx.send for every oneshot of the entry; a dropped receiver ignores it.
AnswerAll(a) ==
  answer' = [c \in Callers |->
               IF c \in waiters /\ pc[c] \in WaitingFor THEN a ELSE answer[c]]

-----------------------------------------------------------------------------
(* get_connection *)

\* get_connection: serve a valid connection, wait for the one being opened, or
\* go on to connect.
GetConnection(c) ==
  /\ pc[c] = "idle"
  /\ \/ /\ status = "connected" /\ is_valid(entry)
        /\ own' = [own EXCEPT ![c] = entry]
        /\ Return(c, "ok")
        /\ UNCHANGED waiters
     \/ /\ status = "connecting"
        /\ waiters' = waiters \cup {c}
        /\ pc' = [pc EXCEPT ![c] = "waiting"]
        /\ UNCHANGED <<own, result>>
     \/ /\ status = "absent" \/ (status = "connected" /\ ~is_valid(entry))
        /\ pc' = [pc EXCEPT ![c] = "connect"]
        /\ UNCHANGED <<own, result, waiters>>
  /\ UNCHANGED <<retries, backoff, answer, drops, status, entry, peers, tasks>>

\* connect_inner: the entry is looked at again, under a second lock.  A
\* "connecting" entry nobody waits on is taken for the one just inserted.
ConnectInner(c) ==
  /\ pc[c] = "connect"
  /\ status' = IF status = "absent" THEN "connecting" ELSE status
  /\ \/ /\ status = "connecting" /\ waiters # {}
        /\ waiters' = waiters \cup {c}
        /\ pc' = [pc EXCEPT ![c] = "waiting_inner"]
     \/ /\ ~(status = "connecting" /\ waiters # {})
        /\ pc' = [pc EXCEPT ![c] = "connecting"]
        /\ UNCHANGED waiters
  /\ UNCHANGED <<retries, backoff, answer, own, result, drops, entry, peers,
                 tasks>>

\* min(min_backoff * 2u32.saturating_pow(n), max_backoff) + min_backoff * jitter
Backoff(n, jitter) ==
  LET exponential == min_backoff * (IF n < 32 THEN 2^n ELSE 2^32 - 1)
  IN  (IF exponential < max_backoff THEN exponential ELSE max_backoff)
        + min_backoff * jitter

\* Connection::new succeeds.
Opened(c) ==
  /\ pc[c] = "connecting"
  /\ conn' = [conn EXCEPT ![c] = "open"]
  /\ own' = [own EXCEPT ![c] = c]
  /\ pc' = [pc EXCEPT ![c] = "install"]
  /\ UNCHANGED <<retries, backoff, answer, result, drops, map, error_set, taken,
                 tasks>>

LastRetry(c) == retries[c] = max_retries

\* It was refused or timed out: another attempt, max_retries times at most.
Refused(c) ==
  /\ pc[c] = "connecting"
  /\ \/ /\ LastRetry(c)
        /\ pc' = [pc EXCEPT ![c] = "failed"]
        /\ UNCHANGED <<retries, backoff>>
     \/ /\ ~LastRetry(c)
        /\ \E jitter \in Jitters :
             backoff' = [backoff EXCEPT ![c] = Backoff(retries[c], jitter)]
        /\ retries' = [retries EXCEPT ![c] = @ + 1]
        /\ pc' = [pc EXCEPT ![c] = "backoff"]
  /\ UNCHANGED <<answer, own, result, drops, map, peers, tasks>>

\* Any other error is final.
Rejected(c) ==
  /\ pc[c] = "connecting"
  /\ pc' = [pc EXCEPT ![c] = "failed"]
  /\ UNCHANGED <<retries, backoff, answer, own, result, drops, map, peers, tasks>>

Delay(c) ==
  /\ pc[c] = "backoff"
  /\ pc' = [pc EXCEPT ![c] = "connecting"]
  /\ UNCHANGED <<retries, backoff, answer, own, result, drops, map, peers, tasks>>

\* connections.remove(&broker)
LeaveEntry == UNCHANGED map
RemoveEntry == status' = "absent" /\ entry' = NoConn /\ waiters' = {}

\* connect, when connect_inner failed: the entry goes, and its waiters with it.
Fail(c) ==
  /\ pc[c] = "failed"
  /\ RemoveEntry
  /\ AnswerAll(Canceled)
  /\ Return(c, "error")
  /\ UNCHANGED <<retries, backoff, own, drops, peers, tasks>>

\* rx.await in get_connection returns what it got; in connect_inner it goes back
\* into connect.
Notified(c) ==
  /\ pc[c] \in WaitingFor
  /\ answer[c] # NoConn
  /\ answer' = [answer EXCEPT ![c] = NoConn]
  /\ own' = [own EXCEPT ![c] = IF answer[c] = Canceled THEN NoConn ELSE answer[c]]
  /\ \/ /\ pc[c] = "waiting"
        /\ Return(c, IF answer[c] = Canceled THEN "error" ELSE "ok")
     \/ /\ pc[c] = "waiting_inner"
        /\ pc' = [pc EXCEPT ![c] = IF answer[c] = Canceled THEN "failed"
                                                           ELSE "install"]
        /\ UNCHANGED result
  /\ UNCHANGED <<retries, backoff, drops, map, peers, tasks>>

\* connect spawns the heartbeat task ...
SpawnHeartbeat(c) ==
  /\ pc[c] = "install"
  /\ \/ /\ heartbeat' = [heartbeat EXCEPT ![c] = "sleeping"]
        /\ beat' = [beat EXCEPT ![c] = own[c]]
        /\ pc' = [pc EXCEPT ![c] = "insert"]
        /\ UNCHANGED <<own, result, drops>>
     \/ /\ drops < MaxDrops
        /\ drops' = drops + 1
        /\ Return(c, "error")
        /\ own' = [own EXCEPT ![c] = NoConn]
        /\ UNCHANGED <<heartbeat, beat>>
  /\ UNCHANGED <<retries, backoff, answer, map, peers, slot>>

\* ... and puts the connection in the map, whatever is there.
Insert(c) ==
  /\ pc[c] = "insert"
  /\ status' = "connected"
  /\ entry' = own[c]
  /\ waiters' = {}
  /\ AnswerAll(own[c])
  /\ Return(c, "ok")
  /\ UNCHANGED <<retries, backoff, own, drops, peers, tasks>>

\* The owner of the future drops it: try_join_all does, when another of its
\* futures failed.  Its oneshot sender stays in the entry.
DropFuture(c) ==
  /\ pc[c] \in Running
  /\ drops < MaxDrops
  /\ drops' = drops + 1
  /\ pc' = [pc EXCEPT ![c] = "dropped"]
  /\ own' = [own EXCEPT ![c] = NoConn]
  /\ answer' = [answer EXCEPT ![c] = NoConn]
  /\ UNCHANGED <<retries, backoff, result, map, peers, tasks>>

\* The caller drops the connection it was given.
Release(c) ==
  /\ pc[c] = "done"
  /\ own[c] # NoConn
  /\ own' = [own EXCEPT ![c] = NoConn]
  /\ UNCHANGED <<pc, retries, backoff, answer, result, drops, map, peers, tasks>>

-----------------------------------------------------------------------------
(* The check task of the client, and the heartbeat tasks *)

check_connections ==
  /\ status = "connected"
  /\ ~is_valid(entry) \/ ~Referenced(entry)
  /\ status' = "absent"
  /\ entry' = NoConn
  /\ UNCHANGED <<calls, waiters, peers, tasks>>

\* A tick: the task ends when the connection is gone or invalid, or when
\* send_ping finds its Receiver gone.  A second ping replaces the resolver of the
\* first.
HeartbeatTick(c) ==
  /\ heartbeat[c] = "sleeping"
  /\ LET d == beat[c]
     IN  \/ /\ ~Alive(d) \/ ~is_valid(d) \/ conn[d] = "ended"
            /\ heartbeat' = [heartbeat EXCEPT ![c] = "ended"]
            /\ UNCHANGED slot
         \/ /\ Alive(d) /\ is_valid(d) /\ conn[d] # "ended"
            /\ heartbeat' = [heartbeat EXCEPT ![c] = "pinging"]
            /\ slot' = [slot EXCEPT ![d] = c]
  /\ UNCHANGED <<calls, map, peers, beat>>

\* The pong of the broker.
HeartbeatPong(c) ==
  /\ heartbeat[c] = "pinging"
  /\ slot[beat[c]] = c
  /\ conn[beat[c]] = "open"
  /\ heartbeat' = [heartbeat EXCEPT ![c] = "sleeping"]
  /\ slot' = [slot EXCEPT ![beat[c]] = NoConn]
  /\ UNCHANGED <<calls, map, peers, beat>>

\* send_ping sets the error of a connection that did not answer.
PingErrorLost(d) == UNCHANGED error_set
PingError(d) == error_set' = [error_set EXCEPT ![d] = TRUE]

\* The resolver of the ping was dropped, or no pong came in time.
HeartbeatFails(c) ==
  /\ heartbeat[c] = "pinging"
  /\ slot[beat[c]] # c \/ conn[beat[c]] # "open"
  /\ heartbeat' = [heartbeat EXCEPT ![c] = "ended"]
  /\ PingError(beat[c])
  /\ UNCHANGED <<calls, map, conn, taken, beat, slot>>

-----------------------------------------------------------------------------
(* What happens to a connection (module Connection) *)

\* The peer vanishes without closing the socket.
GoesSilent(d) ==
  /\ conn[d] = "open"
  /\ conn' = [conn EXCEPT ![d] = "silent"]
  /\ UNCHANGED <<calls, map, error_set, taken, tasks>>

\* The Receiver ends and sets the error.
Ends(d) ==
  /\ conn[d] \in {"open", "silent"}
  /\ conn' = [conn EXCEPT ![d] = "ended"]
  /\ error_set' = [error_set EXCEPT ![d] = TRUE]
  /\ slot' = [slot EXCEPT ![d] = NoConn]
  /\ UNCHANGED <<calls, map, taken, heartbeat, beat>>

\* Connection::error, by a caller that was given the connection.
TakeError(c) ==
  /\ pc[c] = "done"
  /\ own[c] # NoConn
  /\ error_set[own[c]]
  /\ taken < MaxTaken
  /\ taken' = taken + 1
  /\ error_set' = [error_set EXCEPT ![own[c]] = FALSE]
  /\ UNCHANGED <<calls, map, conn, tasks>>

-----------------------------------------------------------------------------
Init ==
  /\ pc = [c \in Callers |-> "idle"]
  /\ retries = [c \in Callers |-> 0]
  /\ backoff = [c \in Callers |-> 0]
  /\ answer = [c \in Callers |-> NoConn]
  /\ own = [c \in Callers |-> NoConn]
  /\ result = [c \in Callers |-> "none"]
  /\ drops = 0
  /\ status = "absent"
  /\ entry = NoConn
  /\ waiters = {}
  /\ conn = [c \in Callers |-> "none"]
  /\ error_set = [c \in Callers |-> FALSE]
  /\ taken = 0
  /\ heartbeat = [c \in Callers |-> "none"]
  /\ beat = [c \in Callers |-> NoConn]
  /\ slot = [c \in Callers |-> NoConn]

\* Connection::new ends, in one of three ways, after connection_timeout at most.
Attempt(c) == Opened(c) \/ Refused(c) \/ Rejected(c)

CallStep(c) ==
  \/ ConnectInner(c) \/ Attempt(c) \/ Delay(c) \/ Fail(c) \/ Notified(c)
  \/ SpawnHeartbeat(c) \/ Insert(c)

Heartbeat(c) == HeartbeatTick(c) \/ HeartbeatPong(c) \/ HeartbeatFails(c)

Next ==
  \/ \E c \in Callers :
       \/ GetConnection(c) \/ CallStep(c) \/ DropFuture(c) \/ Release(c)
       \/ Heartbeat(c) \/ GoesSilent(c) \/ Ends(c) \/ TakeError(c)
  \/ check_connections

Spec == Init /\ [][Next]_vars

\* Woken tasks are polled and elapsed timers fire.  Nothing is assumed of the
\* brokers, nor of the callers.
Fairness ==
  \A c \in Callers : WF_vars(CallStep(c)) /\ WF_vars(Heartbeat(c))

FairSpec == Spec /\ Fairness

-----------------------------------------------------------------------------
(* Properties *)

\* Every variable keeps its type; current_retries stays within max_retries.
TypeOK ==
  /\ pc \in [Callers -> Running \cup {"idle", "done", "dropped"}]
  /\ retries \in [Callers -> 0..max_retries]
  /\ backoff \in [Callers -> {0} \cup {Backoff(n, jitter) :
                                   n \in 0..max_retries, jitter \in Jitters}]
  /\ answer \in [Callers -> Callers \cup {NoConn, Canceled}]
  /\ own \in [Callers -> Callers \cup {NoConn}]
  /\ result \in [Callers -> {"none", "ok", "error"}]
  /\ drops \in Nat
  /\ status \in {"absent", "connecting", "connected"}
  /\ entry \in Callers \cup {NoConn}
  /\ waiters \subseteq Callers
  /\ conn \in [Callers -> {"none", "open", "silent", "ended"}]
  /\ error_set \in [Callers -> BOOLEAN]
  /\ taken \in Nat
  /\ heartbeat \in [Callers -> {"none", "sleeping", "pinging", "ended"}]
  /\ beat \in [Callers -> Callers \cup {NoConn}]
  /\ slot \in [Callers -> Callers \cup {NoConn}]

\* A call that waits and was not answered is in the entry: inserting, removing
\* and replacing the entry never drop a waiter without a word, even when several
\* calls connect at once (connect, check_connections).
NoLostWaiter ==
  \A c \in Callers :
    pc[c] \in WaitingFor /\ answer[c] = NoConn =>
      status = "connecting" /\ c \in waiters

\* A "connecting" entry has somebody behind it that will insert or remove it,
\* unless that future was dropped or its heartbeat could not be spawned.
ConnectingHasConnector ==
  status = "connecting" /\ drops = 0 =>
    \E c \in Callers :
      pc[c] \in Connecting \cup {"failed", "install", "insert"}

\* A connection that get_connection would serve has a heartbeat task that still
\* runs, unless Connection::error took its error away.
HeartbeatCovers ==
  status = "connected" /\ is_valid(entry) /\ taken = 0 =>
    \E c \in Callers :
      beat[c] = entry /\ heartbeat[c] \in {"sleeping", "pinging"}

\* A connection served from the map has a running Receiver: get_connection
\* returns "an active Connection".  This is for behaviours in which
\* Connection::error took no error; MCManagerTaken.cfg shows what follows one.
ServesActive ==
  [][\A c \in Callers :
       pc[c] = "idle" /\ pc'[c] = "done" /\ taken = 0 => conn[own'[c]] # "ended"]_vars

\* Every call of get_connection returns or is dropped, whatever the retries, the
\* failures and the check task do to the entry it waits on, unless a call that was
\* to insert a connection went away without touching the entry.  (A caller calls
\* once, so this says it of each call.)
CallsReturn ==
  []<>((\A c \in Callers : pc[c] \in {"idle", "done", "dropped"}) \/ drops > 0)

\* When the peer of the pooled connection vanishes silently, the heartbeat sees
\* to it that get_connection stops serving it, unless Connection::error took the
\* error the heartbeat set.
SilenceDetected ==
  []<>(~(status = "connected" /\ conn[entry] = "silent" /\ is_valid(entry)) \/ taken > 0)

\* get_connection returns "an active Connection" whatever Connection::error does.
AlwaysActive ==
  [][\A c \in Callers :
       pc[c] = "idle" /\ pc'[c] = "done" => conn[own'[c]] # "ended"]_vars

\* A call of get_connection returns also when another one is dropped, or fails to
\* spawn its heartbeat.
AlwaysReturns ==
  \A c \in Callers : pc[c] # "idle" ~> pc[c] \in {"done", "dropped"}

\* A broker connection is pinged by one heartbeat task.
OneHeartbeat ==
  \A c, d \in Callers :
    /\ heartbeat[c] \in {"sleeping", "pinging"}
    /\ heartbeat[d] \in {"sleeping", "pinging"}
    /\ beat[c] = beat[d]
    => c = d

-----------------------------------------------------------------------------
(* The inductive invariants behind the safety properties *)

\* A call that is about to install a connection has one; in particular what it
\* hands to the waiters is a connection.
OwnInv == \A c \in Callers : pc[c] \in {"install", "insert"} => own[c] # NoConn

\* An ended connection is invalid, and the connection a call is about to insert
\* has a heartbeat if it is still valid.
BeatInv ==
  /\ status = "connected" => entry \in Callers
  /\ \A d \in Callers : conn[d] = "ended" /\ taken = 0 => error_set[d]
  /\ \A c \in Callers :
       /\ pc[c] \notin {"insert", "done", "dropped"} => heartbeat[c] = "none"
       /\ pc[c] = "insert" /\ taken = 0 /\ is_valid(own[c]) =>
            beat[c] = own[c] /\ heartbeat[c] \in {"sleeping", "pinging"}

=============================================================================
