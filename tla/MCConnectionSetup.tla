------------------------- MODULE MCConnectionSetup -------------------------
(* Small instances of ConnectionSetup for TLC. *)
EXTENDS ConnectionSetup

CONSTANTS a1, a2

\* A batch of two messages, the second without data
MCBatches == [message |-> <<[key |-> 5, data |-> <<9>>], [key |-> 6, data |-> <<>>]>>]

MCCommands == {<<3>>, <<14>>, <<9, 1>>}

MCFrames ==
  [connected |-> [command |-> <<3>>, payload |-> <<>>],
   error     |-> [command |-> <<14>>, payload |-> <<>>],
   message   |-> [command |-> <<9, 1>>, payload |-> <<send_batch(MCBatches["message"])>>],
   garbled   |-> [command |-> <<18>>, payload |-> <<>>]]

\* Attempts share nothing but the provider: without one, one attempt is checked,
\* with all that a broker may send and every cut of it; with one, two attempts are,
\* whose brokers accept them and send nothing more.  No constrained step is one of
\* a fair action.
Focus ==
  IF auth = "none" THEN pc'[a2] = "idle"
  ELSE \A a \in Attempts : sent'[a] \in {<<>>, <<"connected">>} /\ chunks'[a] = 0
=============================================================================
