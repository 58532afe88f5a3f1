------------------------------- MODULE MCGroups -------------------------------
(* Groups managed by two controllers.                                      *)
EXTENDS Groups

MCLossy == {"disconnect", "transport_failure"}

\* Bound: two different additions are ever accepted, one of them by both
\* controllers; or three of one controller on one device, whose table they fill.
Twice == {a \in DOMAIN requests : \E w \in waiting : w[2] = a /\ w[1] # requests[a]}
Full == /\ raced = {} /\ Cardinality({requests[a] : a \in DOMAIN requests}) = 1
        /\ Cardinality({a.device : a \in DOMAIN requests}) = 1

Few ==
  /\ Cardinality(raced) <= 1 /\ Cardinality(Twice) <= 1
  /\ Cardinality(DOMAIN requests) <= IF Full THEN 3 ELSE 2

Symmetry ==
  Permutations(Controllers) \cup Permutations(Devices) \cup Permutations(Units) \cup Permutations(Names)
=============================================================================
