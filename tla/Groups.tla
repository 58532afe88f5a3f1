-------------------------------- MODULE Groups --------------------------------
(***************************************************************************)
(* Groups of units: the group management server of the concentrator, its   *)
(* client of the devices' group tables, the group tables themselves, and   *)
(* the groups of the transport layer.                                      *)
(*                                                                         *)
(* Adding a member takes a round trip: the server reserves a place in the  *)
(* group, asks the device to store the group in its table, and completes   *)
(* the member when the device's answer arrives.  Links are FIFO and lose   *)
(* what they carry when they are closed.                                   *)
(***************************************************************************)
EXTENDS Integers, Sequences, FiniteSets, SequencesExt

CONSTANTS
  Controllers,  \* the devices that manage groups
  Devices,      \* registered devices
  Capable,      \* those whose unit 0 has a group table
  Units,        \* unit identifiers a controller may name
  Names,        \* group names
  MaxGroup,     \* last group address (0x7FFF in the code)
  MaxMembers,   \* Group::MAX_MEMBERS
  MaxTable,     \* number of max. entries of a device's group table
  MaxInFlight,  \* bound: messages on the links
  MaxLost,      \* bound: additions lost per group
  Environment   \* the events that may happen besides the commands

ASSUME DevicesAssumption == IsFiniteSet(Devices)
ASSUME CapableAssumption == Capable \subseteq Devices
ASSUME LimitsAssumption == MaxGroup \in Nat /\ MaxMembers \in Nat /\ MaxTable \in Nat
ASSUME BoundsAssumption == MaxInFlight \in Nat /\ MaxLost \in Nat
ASSUME EnvironmentAssumption == Environment \subseteq {"disconnect", "transport_failure"}

NO_ADDR == 0
GroupAddresses == 1..MaxGroup

Member == Devices \X Units
Reserved == <<>>  \* a member without device and unit: a reserved place

VARIABLES
  groups,     \* server: group address -> [name, members]
  requests,   \* group table client: who asked last for each addition
  transport,  \* transport layer: group address -> devices it reaches
  table,      \* device: its group table, <<group, unit>>
  down, up,   \* messages to and from each device
  waiting,    \* history: <<controller, addition>> still to be answered
  lost,       \* history: group address -> additions that will not be answered
  raced,      \* history: <<group, member>> whose last addition was accepted
              \* while another was under way
  cut         \* history: <<group, device>> taken out of the transport's group
              \* while a unit of the device stayed a member

vars == <<groups, requests, transport, table, down, up, waiting, lost, raced, cut>>

Group == [name : Names, members : Seq(Member \cup {Reserved})]

\* What an ADD_CMD asks for.
Addition == [group : GroupAddresses, device : Devices, unit : Units]

Request == [cmd : {"ADD", "REMOVE"}, group : GroupAddresses, unit : Units]
Answer == [code : {"OK", "FAIL_RESOURCES"}, group : GroupAddresses, unit : Units]

-----------------------------------------------------------------------------
(* The members of a group: a list in which a place may be reserved.        *)

Places(members, m) == {i \in DOMAIN members : members[i] = m}

exists(members, m) == Places(members, m) # {}

first(members, m) ==
  CHOOSE i \in Places(members, m) : \A j \in Places(members, m) : i <= j

\* Mutant: the limit is checked after the place is taken.
room_late(members) == Len(members) <= MaxMembers

room(members) == Len(members) < MaxMembers

reserve(members) == IF room(members) THEN Append(members, Reserved) ELSE members

\* Mutant: the place at the front goes, not the member's.
remove_front(members, m) == IF exists(members, m) THEN Tail(members) ELSE members

\* Mutant: a reserved place is never given back.
remove_member_only(members, m) ==
  IF m # Reserved /\ exists(members, m)
  THEN RemoveAt(members, first(members, m)) ELSE members

remove(members, m) ==
  IF exists(members, m) THEN RemoveAt(members, first(members, m)) ELSE members

\* Mutant: every reserved place becomes member m.
update_all(members, m) ==
  [i \in DOMAIN members |-> IF members[i] = Reserved THEN m ELSE members[i]]

\* A reserved place becomes member m.
update(members, m) ==
  IF exists(members, Reserved)
  THEN [members EXCEPT ![first(members, Reserved)] = m] ELSE members

-----------------------------------------------------------------------------
(* The messages.                                                           *)

Fold(ch) == FoldSet(LAMBDA d, sum : sum + Len(ch[d]), 0, Devices)
Quiet == Fold(down) + Fold(up) < MaxInFlight

Send(d, cmd, g, u) ==
  [down EXCEPT ![d] = Append(@, [cmd |-> cmd, group |-> g, unit |-> u])]

\* Positions of the additions of a group on the way to, and back from, d.
Asked(d, g) == {i \in DOMAIN down[d] : down[d][i].cmd = "ADD" /\ down[d][i].group = g}
Answered(d, g) == {i \in DOMAIN up[d] : up[d][i].group = g}

Pending(a) ==
  \/ \E i \in Asked(a.device, a.group) : down[a.device][i].unit = a.unit
  \/ \E i \in Answered(a.device, a.group) : up[a.device][i].unit = a.unit

-----------------------------------------------------------------------------
Init ==
  /\ groups = [g \in {} |-> <<>>] /\ transport = [g \in GroupAddresses |-> {}]
  /\ requests = [a \in {} |-> <<>>] /\ waiting = {}
  /\ table = [d \in Devices |-> {}]
  /\ down = [d \in Devices |-> <<>>] /\ up = [d \in Devices |-> <<>>]
  /\ lost = [g \in GroupAddresses |-> 0] /\ raced = {} /\ cut = {}

\* The lowest free group address.
next_address ==
  LET free == GroupAddresses \ DOMAIN groups
  IN  IF free = {} \/ Cardinality(DOMAIN groups) >= MaxMembers THEN NO_ADDR
      ELSE CHOOSE g \in free : \A h \in free : g <= h

\* The transport may refuse to make a group, which leaves things as they are.
create(name) ==
  /\ \A g \in DOMAIN groups : groups[g].name # name
  /\ next_address # NO_ADDR
  /\ groups' = [g \in DOMAIN groups \cup {next_address} |->
                  IF g = next_address THEN [name |-> name, members |-> <<>>] ELSE groups[g]]
  /\ UNCHANGED <<requests, transport, table, down, up, waiting, lost, raced, cut>>

\* The places of the members of g on device d, from the front (one way).
Leaving(g, d) ==
  LET members == groups[g].members
      own == {i \in DOMAIN members : members[i] # Reserved /\ members[i][1] = d}
  IN  {p \in [1..Cardinality(own) -> own] : \A i, j \in DOMAIN p : i < j => p[i] < p[j]}

\* Each member is told to forget the group; a reserved place names nobody.
delete(g) ==
  /\ g \in DOMAIN groups /\ Quiet
  /\ \E leaving \in [Devices -> UNION {Leaving(g, d) : d \in Devices}] :
       /\ \A d \in Devices : leaving[d] \in Leaving(g, d)
       /\ down' = [d \in Devices |->
                     down[d] \o [i \in DOMAIN leaving[d] |->
                       [cmd |-> "REMOVE", group |-> g,
                        unit |-> groups[g].members[leaving[d][i]][2]]]]
  /\ groups' = [h \in DOMAIN groups \ {g} |-> groups[h]]
  /\ transport' = [transport EXCEPT ![g] = {}]
  /\ lost' = [lost EXCEPT ![g] = 0] /\ cut' = cut \ ({g} \X Devices)
  /\ UNCHANGED <<requests, table, up, waiting, raced>>

\* Every path but that of a missing group reserves a place first.  A refused
\* addition then gives one up, its own or, in a full group, another's.
add(c, a) ==
  /\ a.group \in DOMAIN groups /\ Quiet
  /\ LET members == groups[a.group].members
         this == {<<a.group, <<a.device, a.unit>>>>}
         ok == /\ a.device \in Capable
               /\ ~exists(members, <<a.device, a.unit>>)
               /\ room(members)
     IN  IF ok
         THEN /\ groups' = [groups EXCEPT ![a.group].members = reserve(members)]
              /\ requests' = [b \in DOMAIN requests \cup {a} |->
                                IF b = a THEN c ELSE requests[b]]
              /\ waiting' = waiting \cup {<<c, a>>}
              /\ raced' = IF Pending(a) THEN raced \cup this ELSE raced \ this
              /\ down' = Send(a.device, "ADD", a.group, a.unit)
         ELSE /\ groups' = [groups EXCEPT ![a.group].members =
                              remove(reserve(members), Reserved)]
              /\ UNCHANGED <<requests, waiting, down, raced>>
  /\ UNCHANGED <<transport, table, up, lost, cut>>

\* The places of other units on m's device, or of m a second time.
Left(members, m) ==
  {i \in DOMAIN members : members[i] # Reserved /\ members[i][1] = m[1] /\ i # first(members, m)}

\* A member leaves: the transport drops its device, the device its entry.
remove_member(g, m) ==
  /\ g \in DOMAIN groups /\ Quiet
  /\ exists(groups[g].members, m)
  /\ groups' = [groups EXCEPT ![g].members = remove(@, m)]
  /\ transport' = [transport EXCEPT ![g] = @ \ {m[1]}]
  /\ cut' = IF Left(groups[g].members, m) = {} THEN cut \ {<<g, m[1]>>} ELSE cut \cup {<<g, m[1]>>}
  /\ down' = Send(m[1], "REMOVE", g, m[2])
  /\ UNCHANGED <<requests, table, up, waiting, lost, raced>>

-----------------------------------------------------------------------------
(* The device: its group table.  Only the answer to an ADD is of use to    *)
(* the server, so the answer to a REMOVE is left out.                      *)

\* Mutant: a full table does not answer.
table_add_silent(d) ==
  /\ down[d] # <<>> /\ Head(down[d]).cmd = "ADD"
  /\ LET m == Head(down[d])
         ok == Cardinality(table[d]) + 1 <= MaxTable
     IN  /\ table' = IF ok THEN [table EXCEPT ![d] = @ \cup {<<m.group, m.unit>>}] ELSE table
         /\ up' = IF ok THEN [up EXCEPT ![d] = Append(@, [code |-> "OK", group |-> m.group,
                                                          unit |-> m.unit])] ELSE up
  /\ down' = [down EXCEPT ![d] = Tail(@)]
  /\ UNCHANGED <<groups, requests, transport, waiting, lost, raced, cut>>

table_add(d) ==
  /\ down[d] # <<>> /\ Head(down[d]).cmd = "ADD"
  /\ LET m == Head(down[d])
         ok == Cardinality(table[d]) + 1 <= MaxTable
     IN  /\ table' = IF ok THEN [table EXCEPT ![d] = @ \cup {<<m.group, m.unit>>}] ELSE table
         /\ up' = [up EXCEPT ![d] = Append(@, [code |-> IF ok THEN "OK" ELSE "FAIL_RESOURCES",
                                              group |-> m.group, unit |-> m.unit])]
  /\ down' = [down EXCEPT ![d] = Tail(@)]
  /\ UNCHANGED <<groups, requests, transport, waiting, lost, raced, cut>>

table_remove(d) ==
  /\ down[d] # <<>> /\ Head(down[d]).cmd = "REMOVE"
  /\ LET m == Head(down[d])
     IN  table' = [table EXCEPT ![d] = @ \ {<<m.group, m.unit>>}]
  /\ down' = [down EXCEPT ![d] = Tail(@)]
  /\ UNCHANGED <<groups, requests, transport, up, waiting, lost, raced, cut>>

-----------------------------------------------------------------------------
(* The answer of a device at the server.                                   *)

\* Mutant: the member is completed whatever the device answered.
stored_anyway(r) == TRUE

stored(r) == r.code = "OK"

\* It goes to whoever asked last for that addition.
added(d) ==
  /\ up[d] # <<>>
  /\ LET r == Head(up[d])
         a == [group |-> r.group, device |-> d, unit |-> r.unit]
         members == groups[r.group].members
         complete(joins) ==
           /\ groups' = IF joins
                        THEN [groups EXCEPT ![r.group].members = update(members, <<d, r.unit>>)]
                        ELSE groups
           /\ transport' = IF joins THEN [transport EXCEPT ![r.group] = @ \cup {d}]
                           ELSE transport
           /\ cut' = IF joins THEN cut \ {<<r.group, d>>} ELSE cut
           /\ lost' = IF joins THEN lost ELSE [lost EXCEPT ![r.group] = @ + 1]
     IN  /\ waiting' = waiting \ {<<requests[a], a>>}
         /\ \/ /\ r.group \notin DOMAIN groups
               /\ UNCHANGED <<groups, transport, lost, cut>>
            \/ /\ r.group \in DOMAIN groups /\ ~stored(r)
               /\ groups' = [groups EXCEPT ![r.group].members = remove(members, Reserved)]
               /\ UNCHANGED <<transport, lost, cut>>
            \/ r.group \in DOMAIN groups /\ stored(r) /\ complete(TRUE)
            \/ /\ "transport_failure" \in Environment /\ lost[r.group] < MaxLost
               /\ r.group \in DOMAIN groups /\ stored(r) /\ complete(FALSE)
  /\ up' = [up EXCEPT ![d] = Tail(@)]
  /\ UNCHANGED <<requests, table, down, raced>>

\* The link to d is closed: the additions on it are never answered.
disconnect(d) ==
  /\ down[d] # <<>> \/ up[d] # <<>>
  /\ LET more(g) == IF g \in DOMAIN groups
                    THEN Cardinality(Asked(d, g)) + Cardinality(Answered(d, g)) ELSE 0
     IN  /\ \A g \in GroupAddresses : lost[g] + more(g) <= MaxLost
         /\ lost' = [g \in GroupAddresses |-> lost[g] + more(g)]
  /\ waiting' = {w \in waiting : w[2].device # d}
  /\ down' = [down EXCEPT ![d] = <<>>] /\ up' = [up EXCEPT ![d] = <<>>]
  /\ UNCHANGED <<groups, requests, transport, table, raced, cut>>

Next ==
  \/ \E name \in Names : create(name)
  \/ \E g \in GroupAddresses : delete(g) \/ \E m \in Member : remove_member(g, m)
  \/ \E c \in Controllers, a \in Addition : add(c, a)
  \/ \E d \in Devices :
       \/ table_add(d) \/ table_remove(d) \/ added(d)
       \/ "disconnect" \in Environment /\ disconnect(d)

Spec == Init /\ [][Next]_vars

-----------------------------------------------------------------------------
(* Properties.                                                             *)

\* Every variable holds what the code's types and limits allow: no group
\* outgrows MAX_MEMBERS, reserved places included.
TypeOK ==
  /\ groups \in [DOMAIN groups -> Group] /\ DOMAIN groups \subseteq GroupAddresses
  /\ \A g \in DOMAIN groups : Len(groups[g].members) <= MaxMembers
  /\ requests \in [DOMAIN requests -> Controllers] /\ DOMAIN requests \subseteq Addition
  /\ transport \in [GroupAddresses -> SUBSET Devices]
  /\ table \in [Devices -> SUBSET (GroupAddresses \X Units)]
  /\ down \in [Devices -> Seq(Request)] /\ up \in [Devices -> Seq(Answer)]
  /\ waiting \subseteq Controllers \X Addition
  /\ lost \in [GroupAddresses -> Nat]
  /\ raced \subseteq GroupAddresses \X Member /\ cut \subseteq GroupAddresses \X Devices

\* The members that a list names.
Listed(members) == {members[i] : i \in DOMAIN members} \ {Reserved}

\* The members of g whose last addition met no other of theirs under way.
Steady(g) == {m \in Listed(groups[g].members) : <<g, m>> \notin raced}

\* A member the server lists has the group in its table, so it acts on what is
\* sent to the group: through lost messages, groups deleted under an addition
\* and group addresses used again.
MembersStored ==
  \A g \in DOMAIN groups : \A m \in Steady(g) : <<g, m[2]>> \in table[m[1]]

\* Groups implement Membership: whatever is lost on the way, refused or deleted
\* meanwhile, a unit is listed when it has stored the group, in one step, and is
\* told to forget it only after it left the list; except units that were asked
\* for again before the answer, for which exists() is of no use.
Promise == INSTANCE Membership WITH
  Addresses <- GroupAddresses, Units <- Member,
  members <- [g \in DOMAIN groups |-> Steady(g)],
  kept <- {p \in GroupAddresses \X Member : <<p[1], p[2][2]>> \in table[p[2][1]]}

MembersInStep == Promise!Spec

\* No unit is listed twice in a group unless its last addition was accepted
\* while another was under way: exists() is asked when an addition starts, the
\* member appears when it ends.  Any number of races before that do no harm.
NoDuplicates ==
  \A g \in DOMAIN groups : \A i, j \in DOMAIN groups[g].members :
    LET m == groups[g].members[i]
    IN  m = groups[g].members[j] /\ m # Reserved /\ <<g, m>> \notin raced => i = j

\* The transport's group reaches the device of every member, unless the removal
\* of another member on the same device has cut it off since one last joined.
MembersReached ==
  \A g \in DOMAIN groups : \A m \in Listed(groups[g].members) :
    m[1] \in transport[g] \/ <<g, m[1]>> \in cut

\* The additions of a group under way: the link, and the place on it.
UnderWay(g) ==
  UNION {{<<"down", d, i>> : i \in Asked(d, g)} \cup {<<"up", d, i>> : i \in Answered(d, g)} :
           d \in Devices}

\* A place stays reserved only for an addition under way, or for one whose
\* answer was lost: failures of every kind give theirs back.
NoLeakedReservation ==
  \A g \in DOMAIN groups :
    Cardinality(Places(groups[g].members, Reserved)) <= lost[g] + Cardinality(UnderWay(g))

\* The controller that asked last for an addition, and waits, has one under way:
\* answers to those who asked for it before, which come to it as well, are not
\* the last.  (Those who asked before are never answered.)
NobodyForgotten ==
  \A w \in waiting : requests[w[2]] = w[1] => Pending(w[2])

\* test_group_management.cpp, Remove, asserts after a REMOVE answered with OK
\* "CHECK_FALSE(group->exists(dev_addr, dev_unit))".
RemovedIsGone ==
  [][\A g \in DOMAIN groups, m \in Member :
       remove_member(g, m) => ~exists(groups'[g].members, m)]_vars
=============================================================================
