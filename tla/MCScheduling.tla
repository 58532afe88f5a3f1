----------------------------- MODULE MCScheduling -----------------------------
EXTENDS Scheduling

MCClocks == {0, 25, 38, 52}
MCGarbage == {0, 30}

\* Every ten seconds; and once, by a repetition that is never reached.
MCEvents == {
  [id |-> AVAILABLE_ID, status |-> TRUE, time |-> [start |-> 25, end |-> 52, repeat |-> 10], pid |-> 0],
  [id |-> 1, status |-> TRUE, time |-> [start |-> 0, end |-> 38, repeat |-> 127], pid |-> 1]}

MCWeekly == {
  [id |-> AVAILABLE_ID, status |-> TRUE, time |-> [day |-> 0, hour |-> 1, minute |-> 1], pid |-> 0]}

Do(unit, type, cmd, level) == [unit |-> unit, type |-> type, cmd |-> cmd, level |-> level]

MCPrograms == {
  [pid |-> AVAILABLE_ID, name |-> "evening",
   actions |-> <<Do("LAMP", "COMMAND_REQ", "TOGGLE", 0), Do("LEVEL", "COMMAND_REQ", "INCREASE", 1),
                 Do("LAMP", "SET_ATTR_REQ", "OFF", 0), Do("LEVEL", "COMMAND_REQ", "SET", 0)>>],
  [pid |-> 1, name |-> "night",
   actions |-> <<Do("LEVEL", "COMMAND_REQ", "DECREASE", 1), Do("LAMP", "COMMAND_REQ", "OFF", 0)>>],
  [pid |-> 0, name |-> "night", actions |-> <<Do("NONE", "COMMAND_REQ", "ON", 0)>>]}

Entered == Len(entries["EVENT"]) + Len(entries["WEEKLY"])

\* Two entries with nothing else going on, or one and a program.
Apart ==
  /\ Entered + Cardinality(programs) <= 2
  /\ Entered = 2 => units = [lamp |-> FALSE, level |-> 0]
  /\ Entered = 2 => \E s \in Services : enabled[s]
=============================================================================
