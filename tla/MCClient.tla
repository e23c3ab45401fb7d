------------------------------ MODULE MCClient ------------------------------
(* A partitioned and a plain topic for Client. *)
EXTENDS Client

CONSTANTS t1, t2

MCPartitionsOf == [t \in Topics |-> IF t = t2 THEN 2 ELSE 0]

\* At most one frame is left for later, whether its message was published or not,
\* and it is read before the client is dropped.
FewLate ==
  \A m \in Messages : unread'[m] > 0 =>
    /\ unread'[m] = 1 /\ client' = "held"
    /\ \A k \in Messages \ {m} : unread'[k] = 0
=============================================================================
