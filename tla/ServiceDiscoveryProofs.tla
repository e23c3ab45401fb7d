----------------------- MODULE ServiceDiscoveryProofs -----------------------
(***************************************************************************)
(* Lookups, for any cluster, number of partitions, retry limit and number  *)
(* of redirects and of connections that break.                             *)
(***************************************************************************)
EXTENDS ServiceDiscovery, TLAPS

USE SMTT(20), ZenonT(20) DEF lookup, call, cluster

Outcomes == {"none", "ok", "connection_error", "query_error", "not_ready",
             "not_found"}

\* The lookup of a topic is not the query for the number of partitions.
LEMMA TopicNumbers == Topics \subseteq Lookups /\ Number \notin Topics
  BY DiscoveryAssumption DEF Topics, TopicsOf, Lookups, Number

\* The base address and every address the cluster names are addresses.
LEMMA AddressTypes ==
  ASSUME TypeOK
  PROVE  /\ get_base_address \in BrokerAddress
         /\ \A p \in Lookups, m \in LookupResponse : Address(p, m) \in BrokerAddress
         /\ \A p \in Lookups, m \in LookupResponse : Directed(p, m) \in Directions
         /\ \A p \in Lookups : ReconnectAddress(p) \in BrokerAddress
  <1>1. get_base_address \in BrokerAddress
    BY DiscoveryAssumption DEF get_base_address, BaseUrl, BrokerAddress, Urls
  <1>2. ASSUME NEW p \in Lookups, NEW m \in LookupResponse
        PROVE  Address(p, m) \in BrokerAddress /\ Directed(p, m) \in Directions
    <2>1. Preferred(m) \in Urls /\ BaseUrl \in Urls /\ m.proxy \in BOOLEAN
      BY DiscoveryAssumption DEF Preferred, BaseUrl, Urls, LookupResponse
    <2>2. (proxied_query[p] \/ m.proxy) \in BOOLEAN
      BY DEF TypeOK
    <2>3. Address(p, m) \in BrokerAddress
      BY <2>1, <2>2 DEF Address, BrokerAddress
    <2>4. Directed(p, m) \in Directions
      BY DEF Directed, Directions, LookupResponse, TypeOK
    <2> QED
      BY <2>3, <2>4
  <1> QED
    BY <1>1, <1>2 DEF ReconnectAddress, TypeOK

\* Dropping the locals of a lookup, and taking a connection, keep the types.
LEMMA ReturnType ==
  ASSUME TypeOK, NEW p \in Lookups, NEW what \in Outcomes, Return(p, what),
         UNCHANGED <<generation, told, redirected>>,
         refused' \in [Lookups -> Nat], partitions' \in Counts \cup {NoCount}
  PROVE  TypeOK'
  BY DEF TypeOK, Return, Outcomes

\* Taking a connection, for any address a broker has given, keeps the types.
LEMMA GetType ==
  ASSUME TypeOK, NEW p \in Lookups, NEW address \in BrokerAddress,
         NEW place \in {"query", "requery"}, GetAndGoto(p, address, place),
         UNCHANGED <<generation, cluster>>, proxied_query' \in [Lookups -> BOOLEAN]
  PROVE  TypeOK'
  <1>1. [address |-> address, generation |-> generation[address]] \in Connection
    BY DEF Connection, TypeOK
  <1> QED
    BY <1>1 DEF TypeOK, GetAndGoto, Get, Goto

\* Every step of a lookup keeps the types.
LEMMA StepType ==
  ASSUME TypeOK, NEW p \in Lookups, Step(p)
  PROVE  TypeOK'
  <1>1. UNCHANGED refused => refused' \in [Lookups -> Nat]
    BY DEF TypeOK
  <1>2. UNCHANGED partitions => partitions' \in Counts \cup {NoCount}
    BY DEF TypeOK
  <1>3. UNCHANGED proxied_query => proxied_query' \in [Lookups -> BOOLEAN]
    BY DEF TypeOK
  <1>4. \A what \in {"ok", "connection_error", "query_error", "not_ready", "not_found"} :
          what \in Outcomes
    BY DEF Outcomes
  <1>5. CASE GetBase(p) \/ Reconnect(p)
    <2>1. CASE GetFails(p) /\ UNCHANGED <<generation, cluster>>
      BY <1>1, <1>2, <1>4, <2>1, ReturnType DEF GetFails
    <2>2. CASE \E address \in BrokerAddress, place \in {"query", "requery"} :
                 /\ GetAndGoto(p, address, place)
                 /\ UNCHANGED <<generation, cluster, proxied_query>>
      BY <1>3, <2>2, GetType
    <2> QED
      BY <1>5, <2>1, <2>2, AddressTypes DEF GetBase, Reconnect
  <1>6. CASE Follow(p)
    <2>1. CASE GetFails(p) /\ UNCHANGED <<generation, cluster>>
      BY <1>1, <1>2, <1>4, <2>1, ReturnType DEF GetFails
    <2>2. CASE /\ GetAndGoto(p, broker_address[p], "query")
               /\ proxied_query' = [proxied_query EXCEPT ![p] = broker_address[p].proxy]
               /\ UNCHANGED <<generation, cluster>>
      <3>1. broker_address[p] \in BrokerAddress
        BY DEF TypeOK
      <3>2. proxied_query' \in [Lookups -> BOOLEAN]
        BY <2>2, <3>1 DEF TypeOK, BrokerAddress
      <3> QED
        BY <2>2, <3>1, <3>2, GetType
    <2> QED
      BY <1>6, <2>1, <2>2 DEF Follow
  <1>7. CASE QueryFails(p)
    <2>1. CASE Goto(p, "reconnect") /\ UNCHANGED <<lookup, generation, cluster>>
      BY <2>1 DEF Goto, TypeOK
    <2>2. CASE Return(p, "connection_error") /\ UNCHANGED <<partitions, generation, cluster>>
      BY <1>1, <1>2, <1>4, <2>2, ReturnType
    <2> QED
      BY <1>7, <2>1, <2>2 DEF QueryFails
  <1>8. CASE Failed(p) \/ NotFound(p) \/ Confirm(p)
    BY <1>1, <1>2, <1>4, <1>8, ReturnType DEF Failed, NotFound, Confirm
  <1>9. CASE NotReady(p)
    <2>1. refused' \in [Lookups -> Nat]
      BY <1>9 DEF NotReady, TypeOK
    <2>2. CASE Return(p, "not_ready") /\ UNCHANGED partitions
      BY <1>2, <1>4, <1>9, <2>1, <2>2, ReturnType DEF NotReady
    <2>3. CASE /\ current_retries' = [current_retries EXCEPT ![p] = @ + 1]
               /\ Goto(p, "query")
               /\ UNCHANGED <<conn, broker_address, is_authoritative, proxied_query>>
      BY <1>9, <2>1, <2>3 DEF NotReady, Goto, TypeOK
    <2> QED
      BY <1>9, <2>2, <2>3 DEF NotReady
  <1>10. CASE StartTopic(p)
    BY <1>10 DEF StartTopic, Goto, TypeOK
  <1>11. CASE p = Number /\ NumberAnswered
    <2>1. PICK what \in {"ok", "query_error"} :
            Return(p, what) /\ partitions' \in Counts \cup {NoCount}
      BY <1>2, <1>11 DEF NumberAnswered
    <2> QED
      BY <1>1, <1>4, <1>11, <2>1, ReturnType DEF NumberAnswered
  <1>12. ASSUME NEW m \in LookupResponse, TopicAnswered(p, m)
         PROVE  TypeOK'
    <2>1. Address(p, m) \in BrokerAddress /\ Directed(p, m) \in Directions
      BY AddressTypes
    <2>2. m.authoritative \in BOOLEAN
      BY DEF LookupResponse
    <2> QED
      BY <1>12, <2>1, <2>2 DEF TopicAnswered, Goto, TypeOK
  <1> QED
    BY <1>5, <1>6, <1>7, <1>8, <1>9, <1>10, <1>11, <1>12 DEF Step

\* The types hold in every reachable state.
THEOREM TypeCorrect == Spec => []TypeOK
  <1>1. Init => TypeOK
    BY DiscoveryAssumption
       DEF Init, TypeOK, get_base_address, BaseUrl, BrokerAddress, Urls, Directions
  <1>2. TypeOK /\ [Next]_vars => TypeOK'
    <2> SUFFICES ASSUME TypeOK, [Next]_vars PROVE TypeOK'
      OBVIOUS
    <2>1. CASE Join
      BY <2>1 DEF Join, TypeOK
    <2>2. ASSUME NEW a \in BrokerAddress, Breaks(a) PROVE TypeOK'
      BY <2>2 DEF Breaks, TypeOK
    <2>3. CASE UNCHANGED vars
      BY <2>3 DEF vars, TypeOK
    <2> QED
      BY <2>1, <2>2, <2>3, StepType DEF Next
  <1> QED
    BY <1>1, <1>2, PTL DEF Spec

-----------------------------------------------------------------------------
(* Directions *)

\* The address of an answer is the way to the broker it names, through the proxy
\* if this answer or an earlier one said so.
LEMMA AddressLeads ==
  ASSUME TypeOK, NEW p \in Topics, NEW m \in LookupResponse,
         proxied_query[p] = told[p].proxied
  PROVE  LeadsTo(Address(p, m), Directed(p, m))
  BY TopicNumbers DEF LeadsTo, Address, Directed, Reaches, Preferred, LookupResponse

\* A lookup that returns an error, or whatever happens to another lookup, leaves
\* the directions of a lookup as they are.
LEMMA ReturnDirections ==
  ASSUME TypeOK, DirectionsInv, NEW p \in Lookups, NEW what \in Outcomes,
         Return(p, what), UNCHANGED told,
         p \in Topics /\ what = "ok" => LeadsTo(broker_address[p], told[p])
  PROVE  DirectionsInv'
  BY TopicNumbers DEF TypeOK, DirectionsInv, Return, LeadsTo, Reaches

\* A connection is taken to the address the lookup goes by.
LEMMA GetDirections ==
  ASSUME TypeOK, DirectionsInv, NEW p \in Lookups, NEW address \in BrokerAddress,
         NEW place \in {"query", "requery"}, GetAndGoto(p, address, place),
         UNCHANGED told,
         \A q \in Lookups \ {p} : proxied_query'[q] = proxied_query[q],
         p \in Topics =>
           /\ address = broker_address[p]
           /\ pc[p] # "done"
           /\ proxied_query'[p] = told[p].proxied
  PROVE  DirectionsInv'
  <1> SUFFICES ASSUME NEW q \in Topics
               PROVE  DirectionsInv!(q)'
    BY DEF DirectionsInv
  <1>1. CASE q = p
    BY <1>1, TopicNumbers DEF TypeOK, DirectionsInv, GetAndGoto, Get, Goto, LeadsTo, Reaches
  <1>2. CASE q # p
    BY <1>2, TopicNumbers DEF TypeOK, DirectionsInv, GetAndGoto, Get, Goto, LeadsTo, Reaches
  <1> QED
    BY <1>1, <1>2

\* Every step of a lookup keeps to the directions.
LEMMA StepDirections ==
  ASSUME TypeOK, DirectionsInv, NEW p \in Lookups, Step(p)
  PROVE  DirectionsInv'
  <1>1. \A what \in {"ok", "connection_error", "query_error", "not_ready", "not_found"} :
          what \in Outcomes
    BY DEF Outcomes
  <1>2. GetFails(p) /\ UNCHANGED told => DirectionsInv'
    BY <1>1, ReturnDirections DEF GetFails
  <1>3. CASE GetBase(p)
    <2>1. p \in Topics => /\ get_base_address = broker_address[p]
                          /\ pc[p] # "done"
                          /\ proxied_query[p] = told[p].proxied
      BY <1>3 DEF GetBase, DirectionsInv, LeadsTo, get_base_address, TypeOK, Directions
    <2> QED
      BY <1>2, <1>3, <2>1, AddressTypes, GetDirections DEF GetBase
  <1>4. CASE Reconnect(p)
    <2>1. p \in Topics => /\ ReconnectAddress(p) = broker_address[p]
                          /\ pc[p] # "done"
                          /\ proxied_query[p] = told[p].proxied
      BY <1>4, TopicNumbers DEF Reconnect, ReconnectAddress, DirectionsInv
    <2> QED
      BY <1>2, <1>4, <2>1, AddressTypes, GetDirections DEF Reconnect
  <1>5. CASE Follow(p)
    <2>1. CASE /\ GetAndGoto(p, broker_address[p], "query")
               /\ proxied_query' = [proxied_query EXCEPT ![p] = broker_address[p].proxy]
      <3>1. broker_address[p] \in BrokerAddress
        BY DEF TypeOK
      <3>2. \A q \in Lookups \ {p} : proxied_query'[q] = proxied_query[q]
        BY <2>1 DEF TypeOK
      <3>3. p \in Topics => pc[p] # "done" /\ proxied_query'[p] = told[p].proxied
        BY <1>5, <2>1 DEF Follow, DirectionsInv, LeadsTo, TypeOK
      <3> QED
        BY <1>5, <2>1, <3>1, <3>2, <3>3, GetDirections DEF Follow
    <2> QED
      BY <1>2, <1>5, <2>1 DEF Follow
  <1>6. CASE QueryFails(p)
    <2>1. CASE Return(p, "connection_error")
      BY <1>1, <1>6, <2>1, ReturnDirections DEF QueryFails
    <2>2. CASE pc[p] = "query" /\ Goto(p, "reconnect") /\ UNCHANGED lookup
      BY <1>6, <2>2, TopicNumbers
         DEF QueryFails, Goto, DirectionsInv, LeadsTo, Reaches, TypeOK
    <2> QED
      BY <1>6, <2>1, <2>2 DEF QueryFails
  <1>7. CASE Failed(p) \/ NotFound(p)
    BY <1>1, <1>7, ReturnDirections DEF Failed, NotFound
  <1>8. CASE Confirm(p)
    BY <1>1, <1>8, ReturnDirections DEF Confirm, DirectionsInv
  <1>9. CASE NotReady(p)
    <2>1. CASE Return(p, "not_ready")
      BY <1>1, <1>9, <2>1, ReturnDirections DEF NotReady
    <2>2. CASE /\ Goto(p, "query")
               /\ UNCHANGED <<conn, broker_address, is_authoritative, proxied_query>>
      BY <1>9, <2>2, TopicNumbers
         DEF NotReady, Asking, Goto, DirectionsInv, LeadsTo, Reaches, TypeOK
    <2> QED
      BY <1>9, <2>1, <2>2 DEF NotReady
  <1>10. CASE StartTopic(p)
    BY <1>10, TopicNumbers DEF StartTopic, Goto, DirectionsInv, LeadsTo, Reaches, TypeOK
  <1>11. CASE p = Number /\ NumberAnswered
    BY <1>1, <1>11, ReturnDirections, TopicNumbers DEF NumberAnswered
  <1>12. ASSUME p # Number, NEW m \in LookupResponse, TopicAnswered(p, m)
         PROVE  DirectionsInv'
    <2> SUFFICES ASSUME NEW q \in Topics
                 PROVE  DirectionsInv!(q)'
      BY DEF DirectionsInv
    <2>1. CASE q = p
      <3>1. LeadsTo(Address(p, m), Directed(p, m))
        BY <1>12, <2>1, AddressLeads DEF TopicAnswered, Asking, DirectionsInv
      <3>2. /\ broker_address'[p] = Address(p, m)
            /\ told'[p] = Directed(p, m)
            /\ is_authoritative'[p] = Directed(p, m).authoritative
            /\ pc'[p] \in {"redirect", "confirm"}
        BY <1>12 DEF TopicAnswered, Goto, TypeOK, Directed
      <3> QED
        BY <2>1, <3>1, <3>2 DEF LeadsTo, Reaches
    <2>2. CASE q # p
      BY <1>12, <2>2, TopicNumbers
         DEF TopicAnswered, Goto, DirectionsInv, LeadsTo, Reaches, TypeOK
    <2> QED
      BY <2>1, <2>2
  <1> QED
    BY <1>3, <1>4, <1>5, <1>6, <1>7, <1>8, <1>9, <1>10, <1>11, <1>12 DEF Step

\* Every query lookup_topic sends, and the address it returns, follow the last
\* redirect, through reconnections and retries: service_discovery.rs, lookup_topic.
THEOREM Followed == Spec => []FollowsDirections
  <1>1. Init => DirectionsInv
    BY TopicNumbers
       DEF Init, DirectionsInv, LeadsTo, Reaches, get_base_address, BaseUrl
  <1>2. TypeOK /\ DirectionsInv /\ [Next]_vars => DirectionsInv'
    <2> SUFFICES ASSUME TypeOK, DirectionsInv, [Next]_vars PROVE DirectionsInv'
      OBVIOUS
    <2>1. CASE Join
      BY <2>1, TopicNumbers DEF Join, DirectionsInv, LeadsTo, Reaches, TypeOK
    <2>2. ASSUME NEW a \in BrokerAddress, Breaks(a) PROVE DirectionsInv'
      BY <2>2 DEF Breaks, DirectionsInv, LeadsTo, Reaches
    <2>3. CASE UNCHANGED vars
      BY <2>3 DEF vars, DirectionsInv, LeadsTo, Reaches
    <2> QED
      BY <2>1, <2>2, <2>3, StepDirections DEF Next
  <1>3. DirectionsInv => FollowsDirections
    BY DEF DirectionsInv, FollowsDirections
  <1> QED
    BY <1>1, <1>2, <1>3, TypeCorrect, PTL DEF Spec

-----------------------------------------------------------------------------
(* Retries *)

\* A lookup that returns has used no more than its budget.
LEMMA ReturnBudget ==
  ASSUME TypeOK, BudgetInv, NEW p \in Lookups, NEW what \in Outcomes,
         Return(p, what), UNCHANGED refused, what # "not_ready"
  PROVE  BudgetInv'
  BY DEF TypeOK, BudgetInv, Return

\* Every step of a lookup keeps to the budget.
LEMMA StepBudget ==
  ASSUME TypeOK, BudgetInv, NEW p \in Lookups, Step(p)
  PROVE  BudgetInv'
  <1>1. \A what \in {"ok", "connection_error", "query_error", "not_found"} :
          what \in Outcomes /\ what # "not_ready"
    BY DEF Outcomes
  <1>2. GetFails(p) /\ UNCHANGED refused => BudgetInv'
    BY <1>1, ReturnBudget DEF GetFails
  <1>3. ASSUME NEW place \in {"start", "query", "reconnect", "requery",
                              "redirect", "confirm"},
               pc[p] # "done", Goto(p, place), UNCHANGED <<current_retries, refused>>
        PROVE  BudgetInv'
    BY <1>3 DEF Goto, BudgetInv, TypeOK
  <1>4. CASE GetBase(p) \/ Reconnect(p) \/ Follow(p)
    BY <1>2, <1>3, <1>4 DEF GetBase, Reconnect, Follow, GetAndGoto
  <1>5. CASE QueryFails(p)
    BY <1>1, <1>3, <1>5, ReturnBudget DEF QueryFails
  <1>6. CASE Failed(p) \/ NotFound(p) \/ Confirm(p)
    BY <1>1, <1>6, ReturnBudget DEF Failed, NotFound, Confirm
  <1>7. CASE NotReady(p)
    <2>1. pc[p] # "done"
      BY <1>7 DEF NotReady, Asking
    <2>2. max_retries # NoLimit => max_retries \in Nat
      BY DiscoveryAssumption
    <2>3. refused[p] = current_retries[p] /\ refused[p] \in Nat
      BY <2>1 DEF BudgetInv, TypeOK
    <2>4. refused'[p] = refused[p] + 1
      BY <1>7 DEF NotReady, TypeOK
    <2>5. CASE /\ Retries(p)
               /\ current_retries' = [current_retries EXCEPT ![p] = @ + 1]
               /\ Goto(p, "query")
      BY <1>7, <2>1, <2>2, <2>3, <2>4, <2>5 DEF NotReady, Retries, Goto, BudgetInv, TypeOK
    <2>6. CASE ~Retries(p) /\ Return(p, "not_ready")
      <3>1. max_retries # NoLimit /\ refused[p] = max_retries
        BY <2>1, <2>2, <2>3, <2>6 DEF Retries, BudgetInv
      <3> QED
        BY <1>7, <2>2, <2>4, <2>6, <3>1 DEF NotReady, Return, BudgetInv, TypeOK
    <2> QED
      BY <1>7, <2>5, <2>6 DEF NotReady
  <1>8. CASE StartTopic(p)
    BY <1>3, <1>8 DEF StartTopic
  <1>9. CASE p = Number /\ NumberAnswered
    BY <1>1, <1>9, ReturnBudget DEF NumberAnswered
  <1>10. ASSUME NEW m \in LookupResponse, TopicAnswered(p, m)
         PROVE  BudgetInv'
    BY <1>3, <1>10 DEF TopicAnswered, Asking
  <1> QED
    BY <1>4, <1>5, <1>6, <1>7, <1>8, <1>9, <1>10 DEF Step

\* ServiceNotReady is retried max_retries times over all the brokers a lookup is
\* redirected to, no more and no fewer: service_discovery.rs, current_retries.
THEOREM Budgeted == Spec => []RetryBudget
  <1>1. Init => BudgetInv
    BY DiscoveryAssumption DEF Init, BudgetInv
  <1>2. TypeOK /\ BudgetInv /\ [Next]_vars => BudgetInv'
    <2> SUFFICES ASSUME TypeOK, BudgetInv, [Next]_vars PROVE BudgetInv'
      OBVIOUS
    <2>1. CASE Join
      BY <2>1 DEF Join, BudgetInv, TypeOK
    <2>2. ASSUME NEW a \in BrokerAddress, Breaks(a) PROVE BudgetInv'
      BY <2>2 DEF Breaks, BudgetInv
    <2>3. CASE UNCHANGED vars
      BY <2>3 DEF vars, BudgetInv
    <2> QED
      BY <2>1, <2>2, <2>3, StepBudget DEF Next
  <1>3. BudgetInv => RetryBudget
    BY DEF BudgetInv, RetryBudget
  <1> QED
    BY <1>1, <1>2, <1>3, TypeCorrect, PTL DEF Spec

-----------------------------------------------------------------------------
(* try_join_all *)

\* A topic lookup that runs, and the query for the number while it runs, are
\* where JoinInv says, whatever place they go to.
LEMMA GotoJoin ==
  ASSUME TypeOK, JoinInv, NEW p \in Lookups,
         NEW place \in {"query", "reconnect", "requery", "redirect", "confirm"},
         pc[p] \notin {"idle", "done"}, Goto(p, place)
  PROVE  JoinInv'
  <1>1. result = "none"
    BY DEF JoinInv, AllOrNothing, TypeOK
  <1> QED
    BY <1>1, TopicNumbers DEF Goto, JoinInv, AllOrNothing, TypeOK

\* A lookup returns while the call is running.
LEMMA ReturnJoin ==
  ASSUME TypeOK, JoinInv, NEW p \in Lookups, NEW what \in Outcomes,
         pc[p] \notin {"idle", "done"}, Return(p, what),
         UNCHANGED partitions \/ (p = Number /\ partitions' \in Counts)
  PROVE  JoinInv'
  <1>1. result = "none" /\ result' = "none"
    BY DEF JoinInv, AllOrNothing, TypeOK, Return
  <1>2. \A q \in Lookups : outcome'[q] # "none" => pc'[q] = "done"
    BY DEF JoinInv, Return, TypeOK
  <1>3. CASE UNCHANGED partitions
    BY <1>1, <1>2, <1>3, TopicNumbers DEF Return, JoinInv, AllOrNothing, TypeOK, Lookups
  <1>4. CASE p = Number /\ partitions' \in Counts
    <2>1. \A q \in Topics : pc[q] = "idle" /\ pc'[q] = "idle"
      BY <1>4, TopicNumbers DEF JoinInv, Return, TypeOK
    <2>2. pc'[Number] = "done"
      BY <1>4 DEF Return, TypeOK
    <2> QED
      BY <1>1, <1>2, <2>1, <2>2 DEF JoinInv, AllOrNothing
  <1> QED
    BY <1>3, <1>4

\* Every step of a lookup keeps JoinInv.
LEMMA StepJoin ==
  ASSUME TypeOK, JoinInv, NEW p \in Lookups, Step(p)
  PROVE  JoinInv'
  <1>1. \A what \in {"ok", "connection_error", "query_error", "not_ready", "not_found"} :
          what \in Outcomes
    BY DEF Outcomes
  <1>2. CASE StartTopic(p)
    <2>1. p # Number
      BY <1>2, DiscoveryAssumption DEF StartTopic, TopicsOf, Number, TypeOK
    <2> QED
      BY <1>2, <2>1, TopicNumbers DEF StartTopic, Goto, JoinInv, AllOrNothing, TypeOK
  <1>3. CASE GetBase(p) \/ Reconnect(p) \/ Follow(p)
    BY <1>1, <1>3, GotoJoin, ReturnJoin
       DEF GetBase, Reconnect, Follow, GetAndGoto, GetFails
  <1>4. CASE QueryFails(p)
    BY <1>1, <1>4, GotoJoin, ReturnJoin DEF QueryFails
  <1>5. CASE Failed(p) \/ NotFound(p) \/ Confirm(p)
    BY <1>1, <1>5, ReturnJoin DEF Failed, NotFound, Confirm, Asking
  <1>6. CASE NotReady(p)
    BY <1>1, <1>6, GotoJoin, ReturnJoin DEF NotReady, Asking
  <1>7. CASE p = Number /\ NumberAnswered
    BY <1>1, <1>7, ReturnJoin DEF NumberAnswered, Asking
  <1>8. ASSUME NEW m \in LookupResponse, TopicAnswered(p, m)
        PROVE  JoinInv'
    BY <1>8, GotoJoin DEF TopicAnswered, Asking
  <1> QED
    BY <1>2, <1>3, <1>4, <1>5, <1>6, <1>7, <1>8 DEF Step

\* lookup_partitioned_topic returns an address for every partition or an error,
\* and no lookup outlives it: service_discovery.rs, try_join_all.
THEOREM Joined == Spec => []AllOrNothing
  <1>1. Init => JoinInv
    BY TopicNumbers DEF Init, JoinInv, AllOrNothing
  <1>2. TypeOK /\ JoinInv /\ [Next]_vars => JoinInv'
    <2> SUFFICES ASSUME TypeOK, JoinInv, [Next]_vars PROVE JoinInv'
      OBVIOUS
    <2>1. CASE Join
      <3>1. CASE result' = "error"
        BY <2>1, <3>1 DEF Join, JoinInv, AllOrNothing, TypeOK, Lookups
      <3>2. CASE result' = "ok"
        <4>1. UNCHANGED <<pc, outcome, partitions>> /\ partitions # NoCount
          BY <2>1, <3>2 DEF Join
        <4>2. \A p \in TopicsOf(partitions) : outcome[p] = "ok"
          BY <2>1, <3>2 DEF Join
        <4>3. \A p \in Lookups : pc[p] \in {"idle", "done"}
          BY <4>1, <4>2 DEF JoinInv, TypeOK, Lookups
        <4> QED
          BY <3>2, <4>1, <4>2, <4>3 DEF JoinInv, AllOrNothing
      <3> QED
        BY <2>1, <3>1, <3>2 DEF Join
    <2>2. ASSUME NEW a \in BrokerAddress, Breaks(a) PROVE JoinInv'
      BY <2>2 DEF Breaks, JoinInv, AllOrNothing
    <2>3. CASE UNCHANGED vars
      BY <2>3 DEF vars, JoinInv, AllOrNothing
    <2> QED
      BY <2>1, <2>2, <2>3, StepJoin DEF Next
  <1>3. JoinInv => AllOrNothing
    BY DEF JoinInv
  <1> QED
    BY <1>1, <1>2, <1>3, TypeCorrect, PTL DEF Spec
=============================================================================
