----------------------- MODULE ConnectionManagerProofs -----------------------
(***************************************************************************)
(* The connection pool, for any number of callers, any retry options and   *)
(* any number of dropped futures.                                          *)
(***************************************************************************)
EXTENDS ConnectionManager, TLAPS

USE SMTT(20), ZenonT(20) DEF calls, map, peers, tasks, Connecting, WaitingFor, Running

-----------------------------------------------------------------------------
(* Type correctness *)

\* The types of the initial state.
LEMMA InitType == Init => TypeOK
  BY OptionsAssumption, NullAssumption DEF Init, TypeOK

\* get_connection and connect_inner keep the types.
LEMMA CallType ==
  ASSUME TypeOK, NEW c \in Callers,
         \/ GetConnection(c) \/ ConnectInner(c) \/ Opened(c) \/ Rejected(c)
         \/ Delay(c) \/ Fail(c) \/ Notified(c) \/ SpawnHeartbeat(c) \/ Insert(c)
         \/ DropFuture(c) \/ Release(c)
  PROVE  TypeOK'
  <1>1. CASE GetConnection(c) \/ ConnectInner(c)
    BY <1>1 DEF GetConnection, ConnectInner, Return, TypeOK
  <1>2. CASE Opened(c) \/ Rejected(c) \/ Delay(c)
    BY <1>2 DEF Opened, Rejected, Delay, TypeOK
  <1>3. CASE Fail(c)
    BY <1>3 DEF Fail, RemoveEntry, AnswerAll, Return, TypeOK
  <1>4. CASE Notified(c)
    BY <1>4 DEF Notified, Return, TypeOK
  <1>5. CASE SpawnHeartbeat(c)
    BY <1>5 DEF SpawnHeartbeat, Return, TypeOK
  <1>6. CASE Insert(c)
    BY <1>6 DEF Insert, AnswerAll, Return, TypeOK
  <1>7. CASE DropFuture(c) \/ Release(c)
    BY <1>7 DEF DropFuture, Release, TypeOK
  <1> QED
    BY <1>1, <1>2, <1>3, <1>4, <1>5, <1>6, <1>7

\* The retry counter stops at max_retries: current_retries is compared with it
\* before it is incremented.
LEMMA RetryType ==
  ASSUME TypeOK, NEW c \in Callers, Refused(c)
  PROVE  TypeOK'
  <1>1. UNCHANGED <<answer, own, result, drops, map, peers, tasks>>
    BY DEF Refused
  <1>2. pc' \in [Callers -> Running \cup {"idle", "done", "dropped"}]
    BY DEF Refused, TypeOK
  <1>3. retries' \in [Callers -> 0..max_retries]
    BY OptionsAssumption DEF Refused, LastRetry, TypeOK
  <1>4. backoff' \in [Callers -> {0} \cup {Backoff(n, jitter) :
                                   n \in 0..max_retries, jitter \in Jitters}]
    BY DEF Refused, TypeOK
  <1> QED
    BY <1>1, <1>2, <1>3, <1>4 DEF TypeOK

\* So do the tasks and the peers.
LEMMA TaskType ==
  ASSUME TypeOK,
         \/ \E c \in Callers : \/ Heartbeat(c) \/ GoesSilent(c) \/ Ends(c)
                               \/ TakeError(c)
         \/ check_connections
  PROVE  TypeOK'
  <1>1. CASE check_connections
    BY <1>1 DEF check_connections, TypeOK
  <1>2. \A e \in [Callers -> BOOLEAN], b \in BOOLEAN :
          \A d : [e EXCEPT ![d] = b] \in [Callers -> BOOLEAN]
    BY Zenon
  <1>3. TRUE \in BOOLEAN /\ FALSE \in BOOLEAN
    OBVIOUS
  <1>4. error_set \in [Callers -> BOOLEAN]
    BY DEF TypeOK
  <1>5. ASSUME NEW c \in Callers, Heartbeat(c) PROVE TypeOK'
    <2>1. error_set' \in [Callers -> BOOLEAN]
      <3>1. error_set' = error_set \/ error_set' = [error_set EXCEPT ![beat[c]] = TRUE]
        BY <1>5 DEF Heartbeat, HeartbeatTick, HeartbeatPong, HeartbeatFails,
                    PingError
      <3> QED
        BY <1>2, <1>3, <1>4, <3>1, Zenon
    <2>2. heartbeat' \in [Callers -> {"none", "sleeping", "pinging", "ended"}]
      BY <1>5 DEF Heartbeat, HeartbeatTick, HeartbeatPong, HeartbeatFails,
           TypeOK
    <2>3. slot' \in [Callers -> Callers \cup {NoConn}]
      BY <1>5 DEF Heartbeat, HeartbeatTick, HeartbeatPong, HeartbeatFails,
           TypeOK
    <2>4. UNCHANGED <<calls, map, conn, taken, beat>>
      BY <1>5 DEF Heartbeat, HeartbeatTick, HeartbeatPong, HeartbeatFails
    <2> QED
      BY <2>1, <2>2, <2>3, <2>4 DEF TypeOK
  <1>6. ASSUME NEW c \in Callers, GoesSilent(c) \/ Ends(c) \/ TakeError(c)
        PROVE  TypeOK'
    <2>1. error_set' \in [Callers -> BOOLEAN]
      <3>1. \/ error_set' = error_set
            \/ error_set' = [error_set EXCEPT ![c] = TRUE]
            \/ error_set' = [error_set EXCEPT ![own[c]] = FALSE]
        BY <1>6 DEF GoesSilent, Ends, TakeError
      <3> QED
        BY <1>2, <1>3, <1>4, <3>1, Zenon
    <2>2. /\ conn' \in [Callers -> {"none", "open", "silent", "ended"}]
          /\ taken' \in Nat
          /\ slot' \in [Callers -> Callers \cup {NoConn}]
      BY <1>6 DEF GoesSilent, Ends, TakeError, TypeOK
    <2>3. UNCHANGED <<calls, map, heartbeat, beat>>
      BY <1>6 DEF GoesSilent, Ends, TakeError
    <2> QED
      BY <2>1, <2>2, <2>3 DEF TypeOK
  <1> QED
    BY <1>1, <1>5, <1>6

\* Every variable keeps its type; current_retries never passes max_retries, and
\* the delay is always one that the backoff formula yields.
THEOREM TypeCorrect == Spec => []TypeOK
  <1>1. TypeOK /\ [Next]_vars => TypeOK'
    <2>1. CASE UNCHANGED vars
      BY <2>1 DEF vars, TypeOK
    <2> QED
      BY <2>1, CallType, RetryType, TaskType DEF Next, CallStep, Attempt
  <1> QED
    BY <1>1, InitType, PTL DEF Spec

-----------------------------------------------------------------------------
(* The waiters of an entry *)

\* Both are preserved by every step of a call.
LEMMA WaiterStep ==
  ASSUME TypeOK, OwnInv, NoLostWaiter, [Next]_vars
  PROVE  OwnInv' /\ NoLostWaiter'
  <1>1. ASSUME NEW c \in Callers, GetConnection(c) \/ ConnectInner(c)
        PROVE  OwnInv' /\ NoLostWaiter'
    BY <1>1 DEF GetConnection, ConnectInner, Return, TypeOK, OwnInv,
         NoLostWaiter
  <1>2. ASSUME NEW c \in Callers, Attempt(c) \/ Delay(c)
        PROVE  OwnInv' /\ NoLostWaiter'
    BY <1>2, NullAssumption
       DEF Attempt, Opened, Refused, Rejected, Delay, TypeOK, OwnInv, NoLostWaiter
  <1>3. ASSUME NEW c \in Callers, Fail(c)
        PROVE  OwnInv' /\ NoLostWaiter'
    BY <1>3, NullAssumption
       DEF Fail, RemoveEntry, AnswerAll, Return, TypeOK, OwnInv, NoLostWaiter
  <1>4. ASSUME NEW c \in Callers, Notified(c)
        PROVE  OwnInv' /\ NoLostWaiter'
    BY <1>4 DEF Notified, Return, TypeOK, OwnInv, NoLostWaiter
  <1>5. ASSUME NEW c \in Callers, SpawnHeartbeat(c) \/ DropFuture(c) \/ Release(c)
        PROVE  OwnInv' /\ NoLostWaiter'
    BY <1>5 DEF SpawnHeartbeat, DropFuture, Release, Return, TypeOK, OwnInv,
                NoLostWaiter
  <1>6. ASSUME NEW c \in Callers, Insert(c)
        PROVE  OwnInv' /\ NoLostWaiter'
    BY <1>6 DEF Insert, AnswerAll, Return, TypeOK, OwnInv, NoLostWaiter
  <1>7. CASE check_connections
    BY <1>7 DEF check_connections, OwnInv, NoLostWaiter
  <1>8. CASE \/ \E c \in Callers : \/ Heartbeat(c) \/ GoesSilent(c) \/ Ends(c)
                                   \/ TakeError(c)
             \/ UNCHANGED vars
    BY <1>8 DEF Heartbeat, HeartbeatTick, HeartbeatPong, HeartbeatFails,
                GoesSilent, Ends, TakeError, vars, OwnInv, NoLostWaiter
  <1> QED
    BY <1>1, <1>2, <1>3, <1>4, <1>5, <1>6, <1>7, <1>8 DEF Next, CallStep

\* No waiter is forgotten: a call that waits without an answer is in the entry,
\* whatever other calls insert, replace, remove or drop meanwhile.
THEOREM Waiters == Spec => []NoLostWaiter
  <1>1. Init => OwnInv /\ NoLostWaiter
    BY DEF Init, OwnInv, NoLostWaiter
  <1>2. TypeOK /\ OwnInv /\ NoLostWaiter /\ [Next]_vars => OwnInv' /\ NoLostWaiter'
    BY WaiterStep
  <1> QED
    BY <1>1, <1>2, TypeCorrect, PTL DEF Spec

\* A "connecting" entry has a connector behind it as long as no future was
\* dropped and no heartbeat failed to spawn.
THEOREM Connector == Spec => []ConnectingHasConnector
  <1>1. Init => ConnectingHasConnector
    BY DEF Init, ConnectingHasConnector
  <1>2. TypeOK /\ ConnectingHasConnector /\ [Next]_vars => ConnectingHasConnector'
    <2> SUFFICES ASSUME TypeOK, ConnectingHasConnector, [Next]_vars,
                        status' = "connecting", drops' = 0
                 PROVE  \E c \in Callers :
                          pc'[c] \in Connecting \cup {"failed", "install", "insert"}
      BY DEF ConnectingHasConnector
    <2>1. ASSUME NEW c \in Callers, ConnectInner(c)
          PROVE  \E d \in Callers :
                   pc'[d] \in Connecting \cup {"failed", "install", "insert"}
      <3>1. CASE status = "connecting" /\ waiters # {}
        BY <2>1, <3>1 DEF ConnectInner, TypeOK, ConnectingHasConnector
      <3>2. CASE ~(status = "connecting" /\ waiters # {})
        BY <2>1, <3>2 DEF ConnectInner, TypeOK
      <3> QED
        BY <3>1, <3>2
    <2>2. ASSUME NEW c \in Callers,
                 \/ GetConnection(c) \/ Attempt(c) \/ Delay(c) \/ Fail(c)
                 \/ Notified(c) \/ SpawnHeartbeat(c) \/ Insert(c)
                 \/ DropFuture(c) \/ Release(c)
          PROVE  \E d \in Callers :
                   pc'[d] \in Connecting \cup {"failed", "install", "insert"}
      <3>1. ~Fail(c) /\ ~Insert(c) /\ ~DropFuture(c)
        BY DEF Fail, RemoveEntry, Insert, DropFuture, TypeOK
      <3> ~(drops + 1 = 0)
        BY DEF TypeOK
      <3>2. status = "connecting" /\ drops = 0
        BY <2>2, <3>1 DEF GetConnection, Attempt, Opened, Refused, Rejected,
                          Delay, Notified, SpawnHeartbeat, Release
      <3>3. PICK d \in Callers :
              pc[d] \in Connecting \cup {"failed", "install", "insert"}
        BY <3>2 DEF ConnectingHasConnector
      <3>4. pc'[d] \in Connecting \cup {"failed", "install", "insert"}
        BY <2>2, <3>1, <3>3 DEF GetConnection, Attempt, Opened, Refused,
           Rejected, Delay, Notified, SpawnHeartbeat, Release, Return, TypeOK
      <3> QED
        BY <3>4
    <2>3. CASE \/ \E c \in Callers : \/ Heartbeat(c) \/ GoesSilent(c) \/ Ends(c)
                                     \/ TakeError(c)
               \/ check_connections
               \/ UNCHANGED vars
      <3>1. UNCHANGED <<pc, drops>> /\ status = "connecting"
        BY <2>3 DEF Heartbeat, HeartbeatTick, HeartbeatPong, HeartbeatFails,
                    GoesSilent, Ends, TakeError, check_connections, vars
      <3> QED
        BY <3>1 DEF ConnectingHasConnector
    <2> QED
      BY <2>1, <2>2, <2>3 DEF Next, CallStep
  <1> QED
    BY <1>1, <1>2, TypeCorrect, PTL DEF Spec

-----------------------------------------------------------------------------
(* The heartbeat of the pooled connection *)

\* The calls of get_connection: only Insert changes the entry's connection, and
\* the call that makes it has spawned a heartbeat for it just before.
LEMMA CallHeartbeat ==
  ASSUME TypeOK, OwnInv, BeatInv, HeartbeatCovers, NEW c \in Callers,
         GetConnection(c) \/ CallStep(c) \/ DropFuture(c) \/ Release(c)
  PROVE  BeatInv' /\ HeartbeatCovers'
  <1>1. UNCHANGED <<error_set, taken>>
    BY DEF GetConnection, CallStep, ConnectInner, Attempt, Opened, Refused,
           Rejected, Delay, Fail, Notified, SpawnHeartbeat, Insert, DropFuture,
           Release
  <1>2. CASE SpawnHeartbeat(c)
    BY <1>1, <1>2 DEF SpawnHeartbeat, Return, TypeOK, BeatInv, HeartbeatCovers,
                      is_valid
  <1>3. CASE Insert(c)
    BY <1>1, <1>3 DEF Insert, Return, TypeOK, OwnInv, BeatInv, HeartbeatCovers,
                      is_valid
  <1>4. CASE \/ GetConnection(c) \/ ConnectInner(c) \/ Attempt(c) \/ Delay(c)
             \/ Fail(c) \/ Notified(c) \/ DropFuture(c) \/ Release(c)
    <2>1. UNCHANGED <<heartbeat, beat>>
      BY <1>4 DEF GetConnection, ConnectInner, Attempt, Opened, Refused,
                  Rejected, Delay, Fail, Notified, DropFuture, Release
    <2>2. status' = "connected" => status = "connected" /\ entry' = entry
      BY SMTT(30), <1>4 DEF GetConnection, ConnectInner, Attempt, Opened,
           Refused,
                  Rejected, Delay, Fail, RemoveEntry, Notified, DropFuture, Release
    <2>3. \A d \in Callers : conn'[d] = "ended" => conn[d] = "ended"
      BY SMTT(30), <1>4 DEF GetConnection, ConnectInner, Attempt, Opened,
           Refused,
                  Rejected, Delay, Fail, Notified, DropFuture, Release, TypeOK
    <2>4. \A d \in Callers :
            /\ pc'[d] = "insert" => pc[d] = "insert" /\ own'[d] = own[d]
            /\ pc'[d] \notin {"insert", "done", "dropped"} =>
                 pc[d] \notin {"insert", "done", "dropped"}
      BY SMTT(30), <1>4 DEF GetConnection, ConnectInner, Attempt, Opened,
           Refused,
                  Rejected, Delay, Fail, Notified, DropFuture, Release, Return,
                  TypeOK
    <2>5. BeatInv'
      BY <1>1, <2>1, <2>2, <2>3, <2>4 DEF BeatInv, is_valid
    <2>6. HeartbeatCovers'
      BY <1>1, <2>1, <2>2 DEF HeartbeatCovers, is_valid
    <2> QED
      BY SMTT(30), <2>5, <2>6
  <1> QED
    BY <1>2, <1>3, <1>4 DEF CallStep

\* The tasks and the peers: a heartbeat ends only with a connection that nobody
\* holds or that is invalid.
LEMMA TaskHeartbeat ==
  ASSUME TypeOK, OwnInv, BeatInv, HeartbeatCovers,
         \/ \E c \in Callers : \/ Heartbeat(c) \/ GoesSilent(c) \/ Ends(c)
                               \/ TakeError(c)
         \/ check_connections
         \/ UNCHANGED vars
  PROVE  BeatInv' /\ HeartbeatCovers'
  <1>1. CASE check_connections
    BY <1>1 DEF check_connections, BeatInv, HeartbeatCovers, is_valid
  <1>2. CASE UNCHANGED vars
    BY <1>2 DEF vars, BeatInv, HeartbeatCovers, is_valid
  <1>3. ASSUME NEW c \in Callers, TakeError(c) PROVE BeatInv' /\ HeartbeatCovers'
    BY <1>3 DEF TakeError, TypeOK, BeatInv, HeartbeatCovers
  <1>4. ASSUME NEW c \in Callers, GoesSilent(c) \/ Ends(c)
        PROVE  BeatInv' /\ HeartbeatCovers'
    <2>1. UNCHANGED <<calls, map, taken, heartbeat, beat>>
      BY <1>4 DEF GoesSilent, Ends
    <2>2. \A d \in Callers : error_set[d] => error_set'[d]
      BY <1>4 DEF GoesSilent, Ends, TypeOK
    <2>3. \A d \in Callers : conn'[d] = "ended" => conn[d] = "ended" \/ error_set'[d]
      BY <1>4 DEF GoesSilent, Ends, TypeOK
    <2>4. BeatInv'
      BY <2>1, <2>2, <2>3 DEF BeatInv, OwnInv, TypeOK, is_valid
    <2>5. HeartbeatCovers'
      BY <2>1, <2>2 DEF HeartbeatCovers, BeatInv, is_valid
    <2> QED
      BY <2>4, <2>5
  <1>5. ASSUME NEW c \in Callers, HeartbeatTick(c)
        PROVE  BeatInv' /\ HeartbeatCovers'
    <2>1. UNCHANGED <<calls, map, peers, beat>>
      BY <1>5 DEF HeartbeatTick
    <2>2. \A d \in Callers :
            heartbeat'[d] = heartbeat[d] \/ d = c
      BY <1>5 DEF HeartbeatTick, TypeOK
    <2>3. heartbeat[c] = "sleeping" /\ heartbeat'[c] \in {"pinging", "ended"}
      BY <1>5 DEF HeartbeatTick, TypeOK
    <2>4. heartbeat'[c] = "ended" =>
            ~Alive(beat[c]) \/ ~is_valid(beat[c]) \/ conn[beat[c]] = "ended"
      BY <1>5 DEF HeartbeatTick, TypeOK
    <2>5. \A d \in Callers : own[d] = beat[c] => Alive(beat[c])
      BY DEF Alive, Referenced
    <2>6. status = "connected" /\ entry = beat[c] => Alive(beat[c])
      BY DEF Alive
    <2>7. \A d \in Callers : conn[d] = "ended" /\ taken = 0 => ~is_valid(d)
      BY DEF BeatInv, is_valid
    <2>8. BeatInv'
      <3>1. \A d \in Callers :
              pc[d] = "insert" /\ taken = 0 /\ is_valid(own[d]) =>
                beat[d] = own[d] /\ heartbeat'[d] \in {"sleeping", "pinging"}
        <4>1. \A d \in Callers : pc[d] = "insert" => own[d] \in Callers
          BY DEF OwnInv, TypeOK
        <4> QED
          BY <2>2, <2>3, <2>4, <2>5, <2>7, <4>1 DEF BeatInv
      <3>2. \A d \in Callers :
              pc[d] \notin {"insert", "done", "dropped"} => heartbeat'[d] = "none"
        BY <2>2, <2>3 DEF BeatInv
      <3> QED
        BY <2>1, <3>1, <3>2 DEF BeatInv, is_valid
    <2>9. HeartbeatCovers'
      BY <2>1, <2>2, <2>3, <2>4, <2>6, <2>7
         DEF BeatInv, HeartbeatCovers, is_valid, TypeOK
    <2> QED
      BY <2>8, <2>9
  <1>6. ASSUME NEW c \in Callers, HeartbeatPong(c) \/ HeartbeatFails(c)
        PROVE  BeatInv' /\ HeartbeatCovers'
    <2>1. UNCHANGED <<calls, map, conn, taken, beat>>
      BY ZenonT(60), <1>6 DEF HeartbeatPong, HeartbeatFails
    <2>2. \A d \in Callers : error_set[d] => error_set'[d]
      BY <1>6 DEF HeartbeatPong, HeartbeatFails, PingError, TypeOK
    <2>3. /\ heartbeat[c] = "pinging"
          /\ heartbeat'[c] \in {"sleeping", "ended"}
          /\ heartbeat'[c] = "ended" /\ beat[c] \in Callers => error_set'[beat[c]]
          /\ \A d \in Callers : heartbeat'[d] = heartbeat[d] \/ d = c
      BY <1>6 DEF HeartbeatPong, HeartbeatFails, PingError, TypeOK
    <2>4. \A d \in Callers : pc[d] = "insert" => own[d] \in Callers
      BY DEF OwnInv, TypeOK
    <2>5. BeatInv'
      BY <2>1, <2>2, <2>3, <2>4 DEF BeatInv, is_valid
    <2>6. HeartbeatCovers'
      BY <2>1, <2>2, <2>3 DEF HeartbeatCovers, BeatInv, is_valid
    <2> QED
      BY <2>5, <2>6
  <1> QED
    BY <1>1, <1>2, <1>3, <1>4, <1>5, <1>6 DEF Heartbeat

\* The invariants behind the two theorems below, together.
LEMMA BeatInvariant == Spec => [](BeatInv /\ HeartbeatCovers)
  <1>1. Init => OwnInv /\ NoLostWaiter /\ BeatInv /\ HeartbeatCovers
    BY DEF Init, OwnInv, NoLostWaiter, BeatInv, HeartbeatCovers
  <1>2. TypeOK /\ OwnInv /\ NoLostWaiter /\ [Next]_vars => OwnInv' /\ NoLostWaiter'
    BY WaiterStep
  <1>3. TypeOK /\ OwnInv /\ BeatInv /\ HeartbeatCovers /\ [Next]_vars
          => BeatInv' /\ HeartbeatCovers'
    BY CallHeartbeat, TaskHeartbeat DEF Next
  <1> QED
    BY <1>1, <1>2, <1>3, TypeCorrect, PTL DEF Spec

\* A pooled connection that get_connection would serve is being pinged, unless
\* Connection::error took its error away.
THEOREM Covered == Spec => []HeartbeatCovers
  BY BeatInvariant, PTL

\* As long as nobody calls Connection::error, get_connection serves from the map
\* only connections whose Receiver runs.
THEOREM Active == Spec => ServesActive
  <1> DEFINE Served == \A c \in Callers :
                         pc[c] = "idle" /\ pc'[c] = "done" /\ taken = 0
                           => conn[own'[c]] # "ended"
  <1>1. ASSUME TypeOK, BeatInv, taken = 0, [Next]_vars, NEW c \in Callers,
               pc[c] = "idle", pc'[c] = "done"
        PROVE  conn[own'[c]] # "ended"
    <2>1. GetConnection(c)
      <3>1. \A d \in Callers :
              \/ GetConnection(d) \/ CallStep(d) \/ DropFuture(d) \/ Release(d)
              => \A b \in Callers \ {d} : pc'[b] = pc[b]
        <4> SUFFICES ASSUME NEW d \in Callers,
                            \/ GetConnection(d) \/ CallStep(d)
                            \/ DropFuture(d) \/ Release(d)
                     PROVE  \A b \in Callers \ {d} : pc'[b] = pc[b]
          OBVIOUS
        <4>1. DOMAIN pc = Callers
          BY <1>1 DEF TypeOK
        <4>2. CASE GetConnection(d) \/ DropFuture(d) \/ Release(d)
          BY <4>1, <4>2 DEF GetConnection, DropFuture, Release, Return
        <4>3. CASE ConnectInner(d) \/ Notified(d)
          BY <4>1, <4>3 DEF ConnectInner, Notified, Return
        <4>4. CASE SpawnHeartbeat(d) \/ Insert(d)
          BY <4>1, <4>4 DEF SpawnHeartbeat, Insert, Return
        <4>5. CASE Opened(d) \/ Refused(d) \/ Rejected(d)
          BY <4>1, <4>5 DEF Opened, Refused, Rejected
        <4>6. CASE Delay(d) \/ Fail(d)
          BY <4>1, <4>6 DEF Delay, Fail, Return
        <4> QED
          BY <4>2, <4>3, <4>4, <4>5, <4>6 DEF CallStep, Attempt
      <3>2. ~CallStep(c) /\ ~DropFuture(c) /\ ~Release(c)
        BY <1>1 DEF CallStep, ConnectInner, Attempt, Opened, Refused, Rejected,
             Delay, Fail, Notified, SpawnHeartbeat, Insert, DropFuture, Release
      <3>3. CASE \/ \E d \in Callers : \/ Heartbeat(d) \/ GoesSilent(d) \/ Ends(d)
                                       \/ TakeError(d)
                 \/ check_connections \/ UNCHANGED vars
        <4>1. pc' = pc
          BY ZenonT(60), <3>3 DEF Heartbeat, HeartbeatTick, HeartbeatPong,
               HeartbeatFails,
                      GoesSilent, Ends, TakeError, check_connections, vars
        <4> QED
          BY <1>1, <4>1
      <3> QED
        BY <1>1, <3>1, <3>2, <3>3 DEF Next
    <2>2. status = "connected" /\ is_valid(entry) /\ own'[c] = entry
      BY <1>1, <2>1 DEF GetConnection, Return, TypeOK
    <2> QED
      BY <1>1, <2>2 DEF BeatInv, is_valid
  <1>2. TypeOK /\ BeatInv /\ [Next]_vars => [Served]_vars
    BY <1>1
  <1>3. (Spec => [][Served]_vars) => (Spec => ServesActive)
    BY DEF ServesActive
  <1> HIDE DEF Served
  <1> QED
    BY <1>2, <1>3, TypeCorrect, BeatInvariant, PTL DEF Spec
=============================================================================
