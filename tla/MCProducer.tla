----------------------------- MODULE MCProducer -----------------------------
(***************************************************************************)
(* Producer for TLC.                                                        *)
(***************************************************************************)
EXTENDS Producer

\* Without a batch every message is a send of its own: two of them are enough
\* for a resend that overtakes another one.  The broker closes a producer, or asks
\* one to wait, without a batch only, and closes none when a connection breaks.
\* What is left out is in no fair action, or leaves the fair action another step.
Few ==
  /\ batch_size = NoBatch => next' <= 2
  /\ batch_size # NoBatch => (ready' \/ (~ready /\ pc' # "access"))
  /\ closes' > 0 => /\ batch_size = NoBatch
                    /\ \A k \in Conns : conn'[k] \in {"none", "open"}
=============================================================================
