-------------------------------- MODULE Rpc ---------------------------------
(***************************************************************************)
(* What a ConnectionSender promises its callers, with no channels, keys,   *)
(* tasks or parked replies: a call is made once and returns once, with a   *)
(* reply the broker gave to that very call, or with a failure that says    *)
(* truly what went wrong.  Replies may be lost and come in any order.      *)
(***************************************************************************)
CONSTANTS
  Calls,       \* the calls
  Pings,       \* the calls that are pings: their replies are interchangeable
  Numbered     \* the calls named by a request id, which the broker may reuse

VARIABLES
  stage,       \* "idle", "called" or "returned"
  outcome,     \* what each call returned
  replies,     \* the replies of the broker that are not lost
  link         \* "open" or "closed"

vars == <<stage, outcome, replies, link>>

Kinds == {"response", "not_ready", "error", "send_error", "pong"}

Init ==
  /\ stage = [c \in Calls |-> "idle"]
  /\ outcome = [c \in Calls |-> "none"]
  /\ replies = {}
  /\ link = "open"

Call(c) ==
  /\ stage[c] = "idle"
  /\ stage' = [stage EXCEPT ![c] = "called"]
  /\ UNCHANGED <<outcome, replies, link>>

\* The broker replies to calls that were made, while it is connected.
Serve(c) ==
  /\ link = "open"
  /\ stage[c] # "idle"
  /\ \E k \in Kinds : replies' = replies \cup {[call |-> c, kind |-> k]}
  /\ UNCHANGED <<stage, outcome, link>>

Lose ==
  /\ replies' \subseteq replies
  /\ UNCHANGED <<stage, outcome, link>>

Break ==
  /\ link = "open"
  /\ link' = "closed"
  /\ UNCHANGED <<stage, outcome, replies>>

\* A reply of one of the kinds ks was given to the call c.
Replied(c, ks) ==
  \E r \in replies :
    r.kind \in ks /\ (r.call = c \/ {c, r.call} \subseteq Pings)

\* The outcomes of a call, and what each of them tells the caller.
Justified(c, r) ==
  \/ r = "ok" /\ Replied(c, {"response", "pong"})
  \/ r = "pulsar_error" /\ Replied(c, {"error"})
  \/ r = "unexpected_response" /\ (Replied(c, {"send_error"}) \/ c \in Numbered)
  \/ r = "disconnected" /\ (link = "closed" \/ c \in Pings)
  \/ r = "timed_out"

Return(c) ==
  /\ stage[c] = "called"
  /\ stage' = [stage EXCEPT ![c] = "returned"]
  /\ \E r \in {"ok", "pulsar_error", "unexpected_response", "disconnected",
               "timed_out"} :
       Justified(c, r) /\ outcome' = [outcome EXCEPT ![c] = r]
  /\ UNCHANGED <<replies, link>>

Next ==
  \/ \E c \in Calls : Call(c) \/ Serve(c) \/ Return(c)
  \/ Lose
  \/ Break

Spec == Init /\ [][Next]_vars
=============================================================================
