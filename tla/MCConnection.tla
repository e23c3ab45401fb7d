---------------------------- MODULE MCConnection ----------------------------
(* Small instances of Connection for TLC. *)
EXTENDS ConnectionRpc, FiniteSets

CONSTANTS r1, s1, p1, u1, u2, g1

OpsOf(c) ==
  CASE c = r1 -> "request"
    [] c = s1 -> "send"
    [] c = p1 -> "create_producer"
    [] c = u1 -> "subscribe"
    [] c = u2 -> "subscribe"
    [] c = g1 -> "ping"

MCOp == [c \in Calls |-> OpsOf(c)]

MCConsumerOf == [c \in Calls |-> CHOOSE id \in Consumers : TRUE]

\* Bounds: two of a call of any kind, a flow command, a command pushed by the
\* broker and an error taken, in any order and interleaving.  None of these steps
\* is one of a fair action.
Overlap ==
  Cardinality({c \in Calls : pc'[c] # "idle"}) + pushed' + taken'
    + flows'[CHOOSE id \in Consumers : TRUE] <= 2
=============================================================================
