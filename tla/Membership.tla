------------------------------ MODULE Membership ------------------------------
(***************************************************************************)
(* What group management promises: the members of a group are a set, each  *)
(* change of which is one step, and a unit is a member only while it has   *)
(* the group stored.  It stores the group before it joins and forgets it   *)
(* only once it has left; there are no messages, places or answers here.   *)
(***************************************************************************)
CONSTANTS Addresses, Units

VARIABLES
  members,  \* group address -> the units that are members
  kept      \* <<group, unit>>: the unit acts on what is sent to the group

vars == <<members, kept>>

Init == members = [g \in {} |-> {}] /\ kept = {}

Create(g) ==
  /\ g \notin DOMAIN members
  /\ members' = [h \in DOMAIN members \cup {g} |-> IF h = g THEN {} ELSE members[h]]
  /\ UNCHANGED kept

Delete(g) ==
  /\ g \in DOMAIN members
  /\ members' = [h \in DOMAIN members \ {g} |-> members[h]]
  /\ UNCHANGED kept

IsMember(g, u) == g \in DOMAIN members /\ u \in members[g]

Join(g, u) ==
  /\ g \in DOMAIN members /\ ~IsMember(g, u) /\ <<g, u>> \in kept
  /\ members' = [members EXCEPT ![g] = @ \cup {u}]
  /\ UNCHANGED kept

Leave(g, u) ==
  /\ IsMember(g, u)
  /\ members' = [members EXCEPT ![g] = @ \ {u}]
  /\ UNCHANGED kept

Store(g, u) == kept' = kept \cup {<<g, u>>} /\ UNCHANGED members

Forget(g, u) == ~IsMember(g, u) /\ kept' = kept \ {<<g, u>>} /\ UNCHANGED members

Next ==
  \E g \in Addresses :
    \/ Create(g) \/ Delete(g)
    \/ \E u \in Units : Join(g, u) \/ Leave(g, u) \/ Store(g, u) \/ Forget(g, u)

Spec == Init /\ [][Next]_vars
===============================================================================
