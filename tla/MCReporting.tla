----------------------------- MODULE MCReporting -----------------------------
(* One attribute that can be written and one that only the device changes. *)
EXTENDS Reporting, TLC

CONSTANTS d1, d2

MCDevices == {d1, d2}
MCConditions ==
  {[type |-> "COV", level |-> 0], [type |-> "HT", level |-> 0], [type |-> "LT", level |-> 1]}
Writes(u, v) == [uid |-> u, value |-> v]
\* Up and down again in one request, and past a read-only attribute.
MCAsked ==
  {<<Writes(1, 1), Writes(1, 0)>>, <<Writes(2, 0), Writes(1, 2)>>,
   <<Writes(1, 2), Writes(0, 0)>>, <<Writes(1, 2), Writes(2, 0)>>}

\* Bound: reports are sent for each rule apart, and ids and references do not
\* depend on values or time.  So either there are several rules, a stale
\* reference and an entry, at rest, or there is one rule: a
\* periodic one under the clock, or an event rule while values change.
Still == now = 0 /\ \A a \in Attr : value[a] = 0
Alone == Cardinality(periodic_rules) + Cardinality(event_rules) <= 1 /\ revoked = {}

Apart ==
  \/ Still /\ Cardinality(revoked) <= 1 /\ Cardinality(EventEntries) <= 1
     /\ \A e \in EventEntries : e[2].attr = 1 /\ e[2].on.type = "COV"
  \/ Alone /\ periodic_rules = {} /\ now = 0
  \/ Alone /\ event_rules = {} /\ \A a \in Attr : value[a] = 0

Symmetry == Permutations(MCDevices)
=============================================================================
