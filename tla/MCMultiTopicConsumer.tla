------------------------ MODULE MCMultiTopicConsumer ------------------------
EXTENDS MultiTopicConsumer

CONSTANTS t1, t2

Config(listed, names, regex, fixed, reader) ==
  [listed |-> listed, names |-> names, regex |-> regex, fixed |-> fixed,
   reader |-> reader]

ListOfTwo  == Config(<<t1, t2>>, 2, FALSE, FALSE, FALSE)
ByRegex    == Config(<<>>, 0, TRUE, FALSE, FALSE)
OneTopic   == Config(<<t1>>, 1, FALSE, FALSE, FALSE)
OneReader  == Config(<<t1, t2>>, 1, FALSE, FALSE, TRUE)
Rejected   == {Config(<<>>, 0, FALSE, FALSE, FALSE), Config(<<>>, 0, TRUE, FALSE, TRUE),
               Config(<<t1, t2>>, 2, FALSE, FALSE, TRUE)}
FixedId    == Config(<<t1>>, 1, FALSE, TRUE, FALSE)
OneAndRegex == Config(<<t1>>, 1, TRUE, FALSE, FALSE)

All     == {ListOfTwo, ByRegex, OneTopic, OneReader} \cup Rejected
Fixed   == {FixedId}
Partial == {OneAndRegex}
Lists   == {ListOfTwo}
Regexes == {ByRegex}
MCSlots == 1..4

\* A consumer seeks t1 or all topics, before any fault, refresh that found the
\* previous one unfinished, or acknowledgement at the broker; with a regex, it
\* seeks while a refresh creates consumers, and then acknowledges nothing.
\* A fault strikes a refresh that was not overwritten, or a seek that is not
\* over.  Of a multi topic consumer's messages, those of t1 are acknowledged.
Overlap ==
  /\ seeks' # seeks => /\ faults = 0 /\ (inner = "Multi" => t1 \in call'.sought)
                       /\ \A t \in Topics : acked[t] = {}
                       /\ config.regex => early = 0 /\ new_consumers.stage = "create"
  /\ faults' # faults => early = 0 /\ (seeks = 0 \/ (call # Idle /\ ~config.regex))
  /\ (seeks > 0 /\ config.regex) =>
       early' = 0 /\ \A c \in Slots : Len(slot'[c].acks) <= Len(slot[c].acks)
  /\ inner = "Multi" => \A c \in Slots : slot'[c].topic = t2 => slot'[c].acks = <<>>
=============================================================================
