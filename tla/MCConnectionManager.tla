------------------------ MODULE MCConnectionManager ------------------------
(* Small instances of ConnectionManager for TLC. *)
EXTENDS ConnectionManager, TLC

CONSTANTS c1, c2, c3

\* At most two of these in a behaviour: a retry, a call that goes away, an error
\* taken, a connection that breaks.  The only constrained step of a fair action is
\* Refused, beside which Opened stays enabled.
TwoFaults ==
  drops' + taken' + Cardinality({c \in Callers : retries'[c] > 0})
    + Cardinality({c \in Callers : conn'[c] \in {"silent", "ended"}}) <= 2
=============================================================================
