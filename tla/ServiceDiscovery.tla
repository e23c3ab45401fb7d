-------------------------- MODULE ServiceDiscovery --------------------------
(***************************************************************************)
(* One call of ServiceDiscovery::lookup_partitioned_topic                  *)
(* (src/service_discovery.rs): the query for the number of partitions,     *)
(* then one lookup_topic per partition, all running at once on connections *)
(* that the pool shares between them.  The cluster that answers and the    *)
(* pool are external: a connection is a broker address and a generation,   *)
(* which grows whenever the connection breaks.                             *)
(***************************************************************************)
EXTENDS Naturals, FiniteSets

CONSTANTS
  Brokers,        \* hosts of the cluster
  Base,           \* the host of the service URL
  Counts,         \* partition counts the cluster may report
  max_retries,    \* OperationRetryOptions::max_retries, or NoLimit for None
  UrlKinds,       \* the kinds of URL, "plain" and "tls", brokers are reported with
  MaxRedirects,   \* bound: redirects the cluster answers, or NoLimit
  MaxBreaks,      \* bound: connections that break
  NoLimit, NoCount, NoConnection

ASSUME DiscoveryAssumption ==
  /\ Base \in Brokers
  /\ Counts \subseteq Nat
  /\ max_retries \in Nat \cup {NoLimit} /\ NoLimit \notin Nat
  /\ UrlKinds \subseteq (SUBSET {"plain", "tls"}) \ {{}}
  /\ MaxRedirects \in Nat \cup {NoLimit} /\ MaxBreaks \in Nat
  /\ NoCount \notin Counts

\* A URL is a host and its scheme; host:port is as good as the URL here.
Urls == Brokers \X {"plain", "tls"}

BrokerAddress == [url : Urls, broker_url : Urls, proxy : BOOLEAN]

\* ConnectionManager::get_base_address
BaseUrl == <<Base, "plain">>
get_base_address == [url |-> BaseUrl, broker_url |-> BaseUrl, proxy |-> FALSE]

Connection == [address : BrokerAddress, generation : Nat]

ASSUME NullAssumption == NoConnection \notin Connection

\* The broker that a connection to the address talks to: connect_inner passes
\* broker_url to a proxy, which forwards to it.
Reaches(address) ==
  IF address.proxy THEN address.broker_url[1] ELSE address.url[1]

\* The lookup with number 0 asks for the number of partitions; the others are
\* lookup_topic for one partition each, the topic itself when it has none.
Number     == 0
TopicsOf(n) == IF n = 0 THEN {1} ELSE 1..n
Topics     == UNION {TopicsOf(n) : n \in Counts}
Lookups    == {Number} \cup Topics

VARIABLES
  pc,                \* where each lookup is
  conn,              \* its connection
  broker_address,
  is_authoritative,
  proxied_query,
  current_retries,
  outcome,           \* what it returned: "none", "ok" or an error
  partitions,        \* the number of partitions, or NoCount
  result,            \* what lookup_partitioned_topic returned
  generation,        \* how often the connection to each address broke
  \* what the cluster knows of each lookup
  told,              \* where its last answer sent the lookup
  refused,           \* how often it answered ServiceNotReady
  redirected         \* how often it answered with a redirect

lookup  == <<conn, broker_address, is_authoritative, proxied_query,
             current_retries>>
call    == <<pc, outcome, partitions, result>>
cluster == <<told, refused, redirected>>
vars    == <<lookup, call, generation, cluster>>

\* What the cluster has told a lookup: the broker to ask, the flag to ask it
\* with, and whether an answer on the way said to use the proxy.
Directions == [broker : Brokers, authoritative : BOOLEAN, proxied : BOOLEAN]

-----------------------------------------------------------------------------
(* Connections *)

\* get_connection, when it succeeds
Get(p, address) ==
  conn' = [conn EXCEPT ![p] = [address |-> address,
                               generation |-> generation[address]]]

\* Commands on a connection that broke are answered Disconnected.
Disconnected(p) == conn[p].generation < generation[conn[p].address]

\* A lookup that returns drops its locals.
Return(p, what) ==
  /\ pc' = [pc EXCEPT ![p] = "done"]
  /\ outcome' = [outcome EXCEPT ![p] = what]
  /\ conn' = [conn EXCEPT ![p] = NoConnection]
  /\ is_authoritative' = [is_authoritative EXCEPT ![p] = FALSE]
  /\ proxied_query' = [proxied_query EXCEPT ![p] = FALSE]
  /\ current_retries' = [current_retries EXCEPT ![p] = 0]
  /\ UNCHANGED <<broker_address, result>>

Goto(p, place) ==
  /\ pc' = [pc EXCEPT ![p] = place]
  /\ UNCHANGED <<outcome, partitions, result>>

\* get_connection(address).await? and then on to the place
GetAndGoto(p, address, place) ==
  /\ Get(p, address)
  /\ Goto(p, place)
  /\ UNCHANGED <<broker_address, is_authoritative, current_retries>>

GetFails(p) == Return(p, "connection_error") /\ UNCHANGED partitions

\* get_base_connection
GetBase(p) ==
  /\ pc[p] = "start"
  /\ \/ GetAndGoto(p, get_base_address, "query") /\ UNCHANGED proxied_query
     \/ GetFails(p)
  /\ UNCHANGED <<generation, cluster>>

\* The query fails: Disconnected is worth another connection, once; every other
\* error (a timeout, say) and the second failure are returned.
QueryFails(p) ==
  /\ \/ /\ pc[p] = "query" /\ Disconnected(p)
        /\ Goto(p, "reconnect")
        /\ UNCHANGED lookup
     \/ /\ pc[p] \in {"query", "requery"}
        /\ Return(p, "connection_error")
        /\ UNCHANGED partitions
  /\ UNCHANGED <<generation, cluster>>

\* A lookup that lost its connection takes another one to the same broker; the
\* query for the number of partitions can be asked of any broker.
ReconnectBase(p) == get_base_address
ReconnectAddress(p) ==
  IF p = Number THEN get_base_address ELSE broker_address[p]

Reconnect(p) ==
  /\ pc[p] = "reconnect"
  /\ \/ GetAndGoto(p, ReconnectAddress(p), "requery") /\ UNCHANGED proxied_query
     \/ GetFails(p)
  /\ UNCHANGED <<generation, cluster>>

-----------------------------------------------------------------------------
(* Answers *)

Asking(p) == pc[p] \in {"query", "requery"} /\ ~Disconnected(p)

\* A failure that ServiceNotReady does not explain
Failed(p) ==
  /\ Asking(p)
  /\ Return(p, "query_error")
  /\ UNCHANGED <<partitions, generation, cluster>>

\* max_retries is None, or above the retries made so far.
Retries(p) == max_retries # NoLimit => max_retries > current_retries[p]

\* ServiceNotReady: the query is made again, after a delay, on the connection
\* and with the flag of the last one.
NotReady(p) ==
  /\ Asking(p)
  /\ refused' = [refused EXCEPT ![p] = @ + 1]
  /\ \/ /\ Retries(p)
        /\ current_retries' = [current_retries EXCEPT ![p] = @ + 1]
        /\ Goto(p, "query")
        /\ UNCHANGED <<conn, broker_address, is_authoritative, proxied_query>>
     \/ /\ ~Retries(p)
        /\ Return(p, "not_ready")
        /\ UNCHANGED partitions
  /\ UNCHANGED <<generation, told, redirected>>

\* CommandPartitionedTopicMetadataResponse, with or without a count
NumberAnswered ==
  /\ Asking(Number)
  /\ \/ /\ Return(Number, "ok")
        /\ partitions' \in Counts
     \/ /\ Return(Number, "query_error")
        /\ UNCHANGED partitions
  /\ UNCHANGED <<generation, cluster>>

\* try_join_all polls a lookup for the first time.
StartTopic(p) ==
  /\ pc[p] = "idle"
  /\ partitions # NoCount /\ p \in TopicsOf(partitions)
  /\ result = "none"
  /\ Goto(p, "start")
  /\ UNCHANGED <<lookup, generation, cluster>>

\* CommandLookupTopicResponse, as convert_lookup_response returns it
LookupResponse == [redirect : BOOLEAN, broker : Brokers, urls : UrlKinds,
                   proxy : BOOLEAN, authoritative : BOOLEAN]

\* A response with no URL, or with one that cannot be parsed
NotFound(p) ==
  /\ Asking(p)
  /\ Return(p, "not_found")
  /\ UNCHANGED <<partitions, generation, cluster>>

\* The TLS URL is preferred.
Preferred(m) ==
  <<m.broker, IF "tls" \in m.urls THEN "tls" ELSE "plain">>

\* Going through a proxy, the URL is the base URL.
Address(p, m) ==
  LET proxy == proxied_query[p] \/ m.proxy
  IN  [url |-> IF proxy THEN BaseUrl ELSE Preferred(m),
       broker_url |-> Preferred(m), proxy |-> proxy]

Directed(p, m) ==
  [broker |-> m.broker, authoritative |-> m.authoritative,
   proxied |-> told[p].proxied \/ m.proxy]

TopicAnswered(p, m) ==
  /\ Asking(p)
  /\ m.redirect /\ MaxRedirects # NoLimit => redirected < MaxRedirects
  /\ is_authoritative' = [is_authoritative EXCEPT ![p] = m.authoritative]
  /\ broker_address' = [broker_address EXCEPT ![p] = Address(p, m)]
  /\ Goto(p, IF m.redirect THEN "redirect" ELSE "confirm")
  /\ told' = [told EXCEPT ![p] = Directed(p, m)]
  /\ redirected' = IF m.redirect /\ MaxRedirects # NoLimit THEN redirected + 1
                                                           ELSE redirected
  /\ UNCHANGED <<conn, proxied_query, current_retries, generation, refused>>

\* A redirect is followed with another query, to the target broker.
Follow(p) ==
  /\ pc[p] = "redirect"
  /\ \/ /\ GetAndGoto(p, broker_address[p], "query")
        /\ proxied_query' = [proxied_query EXCEPT ![p] = broker_address[p].proxy]
     \/ GetFails(p)
  /\ UNCHANGED <<generation, cluster>>

\* The address is returned once it has a connection.
Confirm(p) ==
  /\ pc[p] = "confirm"
  /\ \E what \in {"ok", "connection_error"} : Return(p, what)
  /\ UNCHANGED <<partitions, generation, cluster>>

-----------------------------------------------------------------------------
(* The call *)

\* try_join_all: the first error is returned and drops the other lookups.
JoinIgnoresErrors ==
  /\ result = "none"
  /\ partitions # NoCount
  /\ \A p \in TopicsOf(partitions) : pc[p] = "done"
  /\ result' = "ok"
  /\ UNCHANGED <<pc, outcome, partitions, lookup, generation, cluster>>

Join ==
  /\ result = "none"
  /\ \/ /\ \E p \in Lookups : outcome[p] \notin {"none", "ok"}
        /\ result' = "error"
        /\ pc' = [p \in Lookups |-> IF pc[p] = "idle" THEN "idle" ELSE "done"]
        /\ conn' = [p \in Lookups |-> NoConnection]
     \/ /\ partitions # NoCount
        /\ \A p \in TopicsOf(partitions) : outcome[p] = "ok"
        /\ result' = "ok"
        /\ UNCHANGED <<pc, conn>>
  /\ UNCHANGED <<outcome, partitions, broker_address, is_authoritative,
                 proxied_query, current_retries, generation, cluster>>

\* A connection breaks under everyone who uses it.
Breaks(address) ==
  /\ \E p \in Lookups : conn[p] # NoConnection /\ conn[p].address = address
  /\ Cardinality({a \in BrokerAddress : generation[a] > 0}) < MaxBreaks
  /\ generation[address] < MaxBreaks
  /\ generation' = [generation EXCEPT ![address] = @ + 1]
  /\ UNCHANGED <<lookup, call, cluster>>

-----------------------------------------------------------------------------
Init ==
  /\ pc = [p \in Lookups |-> IF p = Number THEN "start" ELSE "idle"]
  /\ conn = [p \in Lookups |-> NoConnection]
  /\ broker_address = [p \in Lookups |-> get_base_address]
  /\ is_authoritative = [p \in Lookups |-> FALSE]
  /\ proxied_query = [p \in Lookups |-> FALSE]
  /\ current_retries = [p \in Lookups |-> 0]
  /\ outcome = [p \in Lookups |-> "none"]
  /\ partitions = NoCount
  /\ result = "none"
  /\ generation = [a \in BrokerAddress |-> 0]
  /\ told = [p \in Lookups |->
               [broker |-> Base, authoritative |-> FALSE, proxied |-> FALSE]]
  /\ refused = [p \in Lookups |-> 0]
  /\ redirected = 0

Step(p) ==
  \/ GetBase(p) \/ QueryFails(p) \/ Reconnect(p) \/ Failed(p) \/ NotReady(p)
  \/ Follow(p) \/ Confirm(p)
  \/ StartTopic(p)
  \/ p = Number /\ NumberAnswered
  \/ p # Number /\ (NotFound(p) \/ \E m \in LookupResponse : TopicAnswered(p, m))

Next ==
  \/ \E p \in Lookups : Step(p)
  \/ Join
  \/ \E a \in BrokerAddress : Breaks(a)

Spec == Init /\ [][Next]_vars

\* The executor polls the lookups; each query is answered, fails or times out.
Fairness == WF_vars(Join) /\ \A p \in Lookups : WF_vars(Step(p))

FairSpec == Spec /\ Fairness

-----------------------------------------------------------------------------
(* Properties *)

\* Every variable keeps its type.
TypeOK ==
  /\ pc \in [Lookups -> {"idle", "start", "query", "reconnect", "requery",
                         "redirect", "confirm", "done"}]
  /\ conn \in [Lookups -> Connection \cup {NoConnection}]
  /\ broker_address \in [Lookups -> BrokerAddress]
  /\ is_authoritative \in [Lookups -> BOOLEAN]
  /\ proxied_query \in [Lookups -> BOOLEAN]
  /\ current_retries \in [Lookups -> Nat]
  /\ outcome \in [Lookups -> {"none", "ok", "connection_error", "query_error",
                              "not_ready", "not_found"}]
  /\ partitions \in Counts \cup {NoCount}
  /\ result \in {"none", "ok", "error"}
  /\ generation \in [BrokerAddress -> Nat]
  /\ told \in [Lookups -> Directions]
  /\ refused \in [Lookups -> Nat]
  /\ redirected \in Nat

\* The address is the way to the broker that the cluster named last, through the
\* proxy if any answer on the way said so: a lookup behind a proxy never turns
\* to a broker directly.
LeadsTo(address, directions) ==
  /\ Reaches(address) = directions.broker
  /\ address.proxy = directions.proxied
  /\ address.proxy => address.url = BaseUrl

\* Every query lookup_topic sends, the one it repeats after a reconnection or a
\* delay included, goes where the last redirect pointed, with the authoritative
\* flag that came with it; and so does the address it returns.
FollowsDirections ==
  \A p \in Topics :
    /\ pc[p] \in {"query", "requery"} =>
         /\ LeadsTo(conn[p].address, told[p])
         /\ is_authoritative[p] = told[p].authoritative
    /\ outcome[p] = "ok" => LeadsTo(broker_address[p], told[p])

\* ServiceNotReady is answered to a lookup at most max_retries + 1 times, over
\* all the brokers it is redirected to, and the lookup gives up only then.
RetryBudget ==
  max_retries # NoLimit =>
    \A p \in Lookups :
      /\ refused[p] <= max_retries + 1
      /\ outcome[p] = "not_ready" => refused[p] = max_retries + 1

\* lookup_partitioned_topic returns an address for every partition the cluster
\* reported, or an error, and then no lookup is left running.
AllOrNothing ==
  /\ result = "ok" =>
       partitions # NoCount /\ \A p \in TopicsOf(partitions) : outcome[p] = "ok"
  /\ result # "none" => \A p \in Lookups : pc[p] \in {"idle", "done"}

\* The call returns if the cluster redirects finitely often: retries,
\* reconnections and the failure of one of several lookups all come to an end.
\* There is a max_retries here; by default there is none, and ServiceNotReady is
\* retried as long as the broker answers it.
LookupReturns == <>(result # "none")

-----------------------------------------------------------------------------
(* Inductive invariants: behind FollowsDirections, RetryBudget, AllOrNothing *)

DirectionsInv ==
  \A p \in Topics :
    /\ pc[p] # "done" => LeadsTo(broker_address[p], told[p])
    /\ pc[p] # "done" => is_authoritative[p] = told[p].authoritative
    /\ pc[p] \in {"query", "requery"} => conn[p].address = broker_address[p]
    /\ pc[p] \in {"idle", "start"} =>
         /\ broker_address[p] = get_base_address
         /\ ~proxied_query[p]
    /\ pc[p] \in {"query", "reconnect", "requery"} =>
         proxied_query[p] = told[p].proxied
    /\ outcome[p] = "ok" => LeadsTo(broker_address[p], told[p])

BudgetInv ==
  \A p \in Lookups :
    /\ pc[p] # "done" => outcome[p] = "none" /\ refused[p] = current_retries[p]
    /\ max_retries # NoLimit =>
         /\ pc[p] # "done" => refused[p] <= max_retries
         /\ refused[p] <= max_retries + 1
         /\ outcome[p] = "not_ready" => refused[p] = max_retries + 1

JoinInv ==
  /\ AllOrNothing
  /\ \A p \in Lookups : outcome[p] # "none" => pc[p] = "done"
  /\ pc[Number] # "done" => partitions = NoCount
  /\ \A p \in Topics :
       pc[p] # "idle" => partitions # NoCount /\ p \in TopicsOf(partitions)
=============================================================================
