----------------------------- MODULE GroupsProofs -----------------------------
(* Proofs that the lists of members agree with what the devices stored and *)
(* with the groups of the transport, whatever the numbers of devices,      *)
(* groups and members, the messages under way and the links that fail.     *)
EXTENDS Groups, FiniteSetTheorems, SequenceTheorems, WellFoundedInduction, TLAPS

-----------------------------------------------------------------------------
(* Lists of members.                                                       *)

Place == Member \cup {Reserved}

\* No member is listed twice, those in R excepted.
Distinct(members, R) ==
  \A i, j \in DOMAIN members :
    members[i] = members[j] /\ members[i] # Reserved /\ members[i] \notin R => i = j

\* A set of naturals has a least element.
LEMMA Minimum ==
  ASSUME NEW S, S \subseteq Nat, S # {}
  PROVE  \E a \in S : \A b \in S : a <= b
<1>1. PICK a \in S : \A b \in S : ~(<<b, a>> \in OpToRel(<, Nat))
  BY WFMin, NatLessThanWellFounded
<1>2. ASSUME NEW b \in S, b < a PROVE FALSE
  <2>1. <<b, a>> \in Nat \X Nat /\ <<b, a>>[1] < <<b, a>>[2]
    BY <1>2
  <2>2. <<b, a>> \in OpToRel(<, Nat)
    BY <2>1, Zenon DEF OpToRel
  <2> QED
    BY <2>2, <1>1
<1> QED
  BY <1>2

\* first() finds the member that exists() has seen.
LEMMA FirstIsAPlace ==
  ASSUME NEW members \in Seq(Place), NEW m, exists(members, m)
  PROVE  first(members, m) \in DOMAIN members /\ members[first(members, m)] = m
<1>1. Places(members, m) \subseteq Nat /\ Places(members, m) # {}
  BY LenProperties DEF Places, exists
<1>2. first(members, m) \in Places(members, m)
  BY <1>1, Minimum DEF first
<1> QED
  BY <1>2 DEF Places

\* A reservation takes a place if there is room, and nobody else's.
LEMMA Reserving ==
  ASSUME NEW members \in Seq(Place), Len(members) <= MaxMembers, NEW R, Distinct(members, R)
  PROVE  /\ reserve(members) \in Seq(Place) /\ Len(reserve(members)) <= MaxMembers
         /\ Distinct(reserve(members), R) /\ Listed(reserve(members)) = Listed(members)
<1>1. CASE ~room(members)
  BY <1>1 DEF reserve
<1>2. CASE room(members)
  <2> DEFINE more == Append(members, Reserved)
  <2>1. /\ more \in Seq(Place) /\ Len(more) = Len(members) + 1
        /\ \A i \in 1..Len(members) : more[i] = members[i]
        /\ more[Len(members) + 1] = Reserved
    BY AppendProperties DEF Place
  <2>2. DOMAIN more = 1..Len(members) + 1 /\ DOMAIN members = 1..Len(members) /\ Len(members) \in Nat
    BY <2>1, LenProperties
  <2>3. reserve(members) = more
    BY <1>2 DEF reserve
  <2> HIDE DEF more
  <2>4. Distinct(more, R)
    BY <2>1, <2>2 DEF Distinct
  <2>5. Listed(more) = Listed(members)
    BY <2>1, <2>2 DEF Listed
  <2>6. Len(more) <= MaxMembers
    BY <1>2, <2>1, <2>2, LimitsAssumption DEF room
  <2> QED
    BY <2>1, <2>3, <2>4, <2>5, <2>6
<1> QED
  BY <1>1, <1>2

\* Removing takes one place away, the first of its kind.
LEMMA Removed ==
  ASSUME NEW members \in Seq(Place), NEW m, exists(members, m)
  PROVE  LET fewer == remove(members, m)
             k == first(members, m)
         IN  /\ k \in 1..Len(members) /\ members[k] = m
             /\ fewer \in Seq(Place) /\ Len(fewer) = Len(members) - 1
             /\ \A i \in 1..Len(members) - 1 :
                  fewer[i] = IF i < k THEN members[i] ELSE members[i + 1]
<1> DEFINE k == first(members, m)
           before == SubSeq(members, 1, k - 1)
           after == SubSeq(members, k + 1, Len(members))
           fewer == before \o after
<1>1. Len(members) \in Nat /\ DOMAIN members = 1..Len(members)
  BY LenProperties
<1>2. k \in 1..Len(members) /\ members[k] = m
  BY <1>1, FirstIsAPlace
<1>3. remove(members, m) = fewer
  BY DEF remove, RemoveAt
<1> HIDE DEF k
<1>4. \A i \in 1..Len(members) : members[i] \in Place
  BY ElementOfSeq
<1>5. /\ before \in Seq(Place) /\ Len(before) = k - 1
      /\ \A i \in 1..k - 1 : before[i] = members[i]
  BY <1>1, <1>2, <1>4, SubSeqProperties
<1>6. /\ after \in Seq(Place) /\ Len(after) = Len(members) - k
      /\ \A i \in 1..Len(members) - k : after[i] = members[k + i]
  <2>1. \A i \in k + 1..Len(members) : members[i] \in Place
    BY <1>1, <1>2, <1>4
  <2>2. /\ after \in Seq(Place)
        /\ Len(after) = IF k + 1 <= Len(members) THEN Len(members) - (k + 1) + 1 ELSE 0
        /\ \A i \in 1..Len(members) - (k + 1) + 1 : after[i] = members[k + 1 + i - 1]
    BY <1>1, <1>2, <2>1, SubSeqProperties
  <2> DEFINE n == Len(members)
  <2>0. n \in Nat /\ k \in Nat /\ k <= n
    BY <1>1, <1>2
  <2>3. (IF k + 1 <= Len(members) THEN Len(members) - (k + 1) + 1 ELSE 0) = Len(members) - k
    <3> HIDE DEF n
    <3>1. (IF k + 1 <= n THEN n - (k + 1) + 1 ELSE 0) = n - k
      BY <2>0
    <3> QED
      BY <3>1 DEF n
  <2>4. Len(members) - (k + 1) + 1 = Len(members) - k
    BY <1>1, <1>2
  <2> HIDE DEF after
  <2>5. ASSUME NEW i \in 1..Len(members) - k PROVE after[i] = members[k + i]
    <3>1. k + 1 + i - 1 = k + i /\ i \in 1..Len(members) - (k + 1) + 1
      BY <1>1, <1>2, <2>4
    <3>2. after[i] = members[k + 1 + i - 1]
      BY <2>2, <3>1
    <3> QED
      BY <3>1, <3>2
  <2> QED
    BY <2>2, <2>3, <2>5
<1>7. /\ fewer \in Seq(Place) /\ Len(fewer) = Len(members) - 1
      /\ \A i \in 1..Len(members) - 1 :
           fewer[i] = IF i < k THEN members[i] ELSE members[i + 1]
  <2> HIDE DEF before, after
  <2>1. fewer \in Seq(Place) /\ Len(fewer) = Len(before) + Len(after)
    BY <1>5, <1>6, ConcatProperties
  <2>2. \A i \in 1..Len(before) + Len(after) :
          fewer[i] = IF i <= Len(before) THEN before[i] ELSE after[i - Len(before)]
    BY <1>5, <1>6, ConcatProperties
  <2>3. Len(fewer) = Len(members) - 1
    BY <1>1, <1>2, <1>5, <1>6, <2>1
  <2>4. ASSUME NEW i \in 1..Len(members) - 1
        PROVE  fewer[i] = IF i < k THEN members[i] ELSE members[i + 1]
    <3> HIDE DEF fewer
    <3>1. fewer[i] = IF i <= k - 1 THEN before[i] ELSE after[i - (k - 1)]
      BY <1>1, <1>2, <1>5, <1>6, <2>2
    <3>2. CASE i < k
      BY <1>2, <1>5, <3>1, <3>2
    <3>3. CASE ~(i < k)
      <4>1. i - (k - 1) \in 1..Len(members) - k
        BY <1>1, <1>2, <3>3
      <4>2. after[i - (k - 1)] = members[k + (i - (k - 1))]
        BY <1>6, <4>1
      <4>3. k + (i - (k - 1)) = i + 1
        BY <1>2
      <4> QED
        BY <1>2, <3>1, <3>3, <4>2, <4>3
    <3> QED
      BY <3>2, <3>3
  <2> QED
    BY <2>1, <2>3, <2>4
<1> QED
  BY <1>2, <1>3, <1>7 DEF k

\* Removing takes one place away, and with it the member if it was there.
LEMMA Removing ==
  ASSUME NEW members \in Seq(Place), Len(members) <= MaxMembers, NEW m,
         NEW R, Distinct(members, R)
  PROVE  /\ remove(members, m) \in Seq(Place) /\ Len(remove(members, m)) <= MaxMembers
         /\ Distinct(remove(members, m), R) /\ Listed(remove(members, m)) \subseteq Listed(members)
         /\ m \notin R => m \notin Listed(remove(members, m))
<1>1. CASE ~exists(members, m)
  BY <1>1 DEF remove, exists, Places, Listed
<1>2. CASE exists(members, m)
  <2> DEFINE k == first(members, m)
             fewer == remove(members, m)
  <2>1. Len(members) \in Nat /\ DOMAIN members = 1..Len(members)
    BY LenProperties
  <2>2. k \in 1..Len(members) /\ members[k] = m
    BY <1>2, Removed
  <2>7. /\ fewer \in Seq(Place) /\ Len(fewer) = Len(members) - 1
        /\ \A i \in 1..Len(members) - 1 :
             fewer[i] = IF i < k THEN members[i] ELSE members[i + 1]
    BY <1>2, Removed
  <2> HIDE DEF k
  <2>8. DOMAIN fewer = 1..Len(members) - 1
    BY <2>7, LenProperties
  <2> HIDE DEF fewer
  <2>9. Distinct(fewer, R)
    <3> SUFFICES ASSUME NEW i \in DOMAIN fewer, NEW j \in DOMAIN fewer,
                        fewer[i] = fewer[j], fewer[i] # Reserved, fewer[i] \notin R
                 PROVE  i = j
      BY DEF Distinct
    <3> DEFINE was(n) == IF n < k THEN n ELSE n + 1
    <3>1. \A n \in DOMAIN fewer : was(n) \in DOMAIN members /\ fewer[n] = members[was(n)]
      BY <2>1, <2>2, <2>7, <2>8
    <3>2. was(i) = was(j)
      BY <3>1 DEF Distinct
    <3> QED
      BY <2>1, <2>2, <2>8, <3>2
  <2>10. Listed(fewer) \subseteq Listed(members)
    BY <2>1, <2>2, <2>7, <2>8 DEF Listed
  <2>11. m \notin R => m \notin Listed(fewer)
    <3> SUFFICES ASSUME m \notin R, m # Reserved, NEW i \in DOMAIN fewer, fewer[i] = m PROVE FALSE
      BY DEF Listed
    <3>1. PICK j \in 1..Len(members) : j # k /\ members[j] = m
      BY <2>1, <2>2, <2>7, <2>8
    <3> QED
      BY <2>1, <2>2, <3>1 DEF Distinct
  <2>12. Len(fewer) <= MaxMembers
    BY <2>1, <2>7, LimitsAssumption
  <2> QED
    BY <2>7, <2>9, <2>10, <2>11, <2>12 DEF fewer
<1> QED
  BY <1>1, <1>2

\* A new member takes at most one reserved place.
LEMMA Updating ==
  ASSUME NEW members \in Seq(Place), Len(members) <= MaxMembers,
         NEW R, Distinct(members, R), NEW m \in Member, m \notin Listed(members) \/ m \in R
  PROVE  /\ update(members, m) \in Seq(Place) /\ Len(update(members, m)) <= MaxMembers
         /\ Distinct(update(members, m), R) /\ Listed(update(members, m)) \subseteq Listed(members) \cup {m}
<1>1. CASE ~exists(members, Reserved)
  BY <1>1 DEF update
<1>2. CASE exists(members, Reserved)
  <2> DEFINE k == first(members, Reserved)
             filled == [members EXCEPT ![k] = m]
  <2>1. k \in DOMAIN members /\ members[k] = Reserved
    BY <1>2, FirstIsAPlace
  <2>2. update(members, m) = filled
    BY <1>2 DEF update
  <2> HIDE DEF k
  <2>3. DOMAIN members = 1..Len(members) /\ Len(members) \in Nat
    BY LenProperties
  <2>4. filled \in Seq(Place) /\ Len(filled) = Len(members)
    BY <2>1, <2>3, ExceptSeq DEF Place
  <2>5. /\ DOMAIN filled = DOMAIN members /\ filled[k] = m
        /\ \A i \in DOMAIN members \ {k} : filled[i] = members[i]
    BY <2>1
  <2> HIDE DEF filled
  <2>6. Distinct(filled, R)
    BY <2>1, <2>5 DEF Distinct, Listed
  <2>7. Listed(filled) \subseteq Listed(members) \cup {m}
    BY <2>1, <2>5 DEF Listed
  <2> QED
    BY <2>2, <2>4, <2>6, <2>7
<1> QED
  BY <1>1, <1>2

-----------------------------------------------------------------------------
(* The inductive invariant.  A link never carries an addition with more    *)
(* about the same unit behind it, nor anything about a unit whose answer   *)
(* is on its way back; nothing about a member is under way at all.  So the *)
(* OK that makes a member finds the entry still in the device's table, and *)
(* no REMOVE follows it.  All this of the units that are calm: those whose *)
(* last addition was accepted when none was under way.                     *)

Calm(g, d, u) == <<g, <<d, u>>>> \notin raced

Racing(g) == {m \in Member : <<g, m>> \in raced}

About(m, g, u) == m.group = g /\ m.unit = u
Same(m, n) == About(m, n.group, n.unit)

Lists ==
  \A g \in DOMAIN groups :
    Len(groups[g].members) <= MaxMembers /\ Distinct(groups[g].members, Racing(g))

AdditionLast ==
  \A d \in Devices : \A i, j \in DOMAIN down[d] :
    i < j /\ Same(down[d][i], down[d][j]) /\ Calm(down[d][j].group, d, down[d][j].unit)
      => down[d][i].cmd # "ADD"

\* The answer at place i of the link from d.
Alone(d, i) ==
  /\ \A j \in DOMAIN down[d] : ~Same(up[d][i], down[d][j])
  /\ \A j \in DOMAIN up[d] : Same(up[d][i], up[d][j]) => i = j
  /\ up[d][i].code = "OK" => <<up[d][i].group, up[d][i].unit>> \in table[d]

AnswersAlone ==
  \A d \in Devices : \A i \in DOMAIN up[d] : Calm(up[d][i].group, d, up[d][i].unit) => Alone(d, i)

\* Of unit u of device d in group g: it is stored, and nothing is under way.
Settled(g, d, u) ==
  /\ <<g, u>> \in table[d]
  /\ \A j \in DOMAIN down[d] : ~About(down[d][j], g, u)
  /\ \A j \in DOMAIN up[d] : ~About(up[d][j], g, u)

MembersSettled ==
  \A g \in DOMAIN groups : \A m \in Steady(g) : Settled(g, m[1], m[2])

Types ==
  /\ groups \in [DOMAIN groups -> Group] /\ DOMAIN groups \subseteq GroupAddresses
  /\ requests \in [DOMAIN requests -> Controllers] /\ DOMAIN requests \subseteq Addition
  /\ transport \in [GroupAddresses -> SUBSET Devices]
  /\ table \in [Devices -> SUBSET (GroupAddresses \X Units)]
  /\ down \in [Devices -> Seq(Request)] /\ up \in [Devices -> Seq(Answer)]
  /\ waiting \subseteq Controllers \X Addition
  /\ lost \in [GroupAddresses -> Nat]
  /\ raced \subseteq GroupAddresses \X Member /\ cut \subseteq GroupAddresses \X Devices

IInv == Types /\ Lists /\ AdditionLast /\ AnswersAlone /\ MembersSettled

LEMMA ReservedIsNoMember == Reserved \notin Member
<1> SUFFICES ASSUME Reserved \in Member PROVE FALSE
  OBVIOUS
<1>1. PICK d \in Devices, u \in Units : Reserved = <<d, u>>
  BY DEF Member
<1>2. DOMAIN Reserved = {} /\ 1 \in DOMAIN <<1, 2>>
  BY DEF Reserved
<1> QED
  BY <1>1, <1>2 DEF Reserved

\* What is listed is a member.
LEMMA ListedMembers ==
  ASSUME Types, NEW g \in DOMAIN groups, NEW m \in Listed(groups[g].members)
  PROVE  m \in Member /\ m[1] \in Devices /\ m[2] \in Units /\ m = <<m[1], m[2]>>
<1>1. groups[g].members \in Seq(Place)
  BY DEF Types, Group, Place
<1>2. m \in Place /\ m # Reserved
  BY <1>1, ElementOfSeq, LenProperties DEF Listed
<1> QED
  BY <1>2 DEF Place, Member

\* The lists are in order by what will have raced.
ListsStay ==
  \A g \in DOMAIN groups :
    Len(groups[g].members) <= MaxMembers /\ Distinct(groups[g].members, Racing(g)')

LEMMA ListsDo == ASSUME Lists, raced' = raced PROVE ListsStay
BY DEF Lists, ListsStay, Racing

\* Replacing the members of one group by a list of the right kind.
LEMMA OneGroup ==
  ASSUME Types, ListsStay, NEW g \in DOMAIN groups, NEW list \in Seq(Place),
         Len(list) <= MaxMembers, Distinct(list, Racing(g)'),
         groups' = [groups EXCEPT ![g].members = list]
  PROVE  /\ groups' \in [DOMAIN groups' -> Group] /\ DOMAIN groups' = DOMAIN groups
         /\ groups'[g].members = list
         /\ \A h \in DOMAIN groups \ {g} : groups'[h] = groups[h]
         /\ Lists'
<1>1. groups[g] \in Group /\ groups \in [DOMAIN groups -> Group]
  BY DEF Types
<1>2. DOMAIN groups' = DOMAIN groups /\ groups'[g] = [groups[g] EXCEPT !.members = list]
  BY <1>1
<1>3. \A h \in DOMAIN groups \ {g} : groups'[h] = groups[h]
  BY <1>1
<1>4. groups'[g] \in Group /\ groups'[g].members = list
  BY <1>1, <1>2 DEF Group, Place
<1>5. groups' \in [DOMAIN groups' -> Group]
  BY <1>1, <1>2, <1>3, <1>4
<1>6. Lists'
  <2> SUFFICES ASSUME NEW h \in DOMAIN groups'
               PROVE  Len(groups'[h].members) <= MaxMembers /\ Distinct(groups'[h].members, Racing(h)')
    BY DEF Lists, Distinct
  <2>1. CASE h = g
    BY <1>4, <2>1
  <2>2. CASE h # g
    BY <1>2, <1>3, <2>2 DEF ListsStay
  <2> QED
    BY <2>1, <2>2
<1> QED
  BY <1>2, <1>3, <1>4, <1>5, <1>6

\* The lists of members are of places.
LEMMA MembersType ==
  ASSUME Types, NEW g \in DOMAIN groups
  PROVE  groups[g].members \in Seq(Place)
BY DEF Types, Group, Place

\* What the operations make of the lists.
LEMMA CreateStep ==
  ASSUME Types, Lists, NEW name \in Names, create(name)
  PROVE  /\ groups' \in [DOMAIN groups' -> Group] /\ DOMAIN groups' \subseteq GroupAddresses
         /\ Lists'
         /\ \A g \in DOMAIN groups' : \A m \in Listed(groups'[g].members) :
              g \in DOMAIN groups /\ m \in Listed(groups[g].members)
<1> DEFINE n == next_address
           free == GroupAddresses \ DOMAIN groups
<1>1. n \in GroupAddresses \ DOMAIN groups
  <2>1. free \subseteq Nat
    BY DEF GroupAddresses
  <2>2. n # NO_ADDR
    BY DEF create
  <2>3. free # {} /\ n = CHOOSE g \in free : \A h \in free : g <= h
    BY <2>2 DEF next_address
  <2> QED
    BY <2>1, <2>3, Minimum
<1> HIDE DEF n
<1>2. groups' = [g \in DOMAIN groups \cup {n} |->
                  IF g = n THEN [name |-> name, members |-> <<>>] ELSE groups[g]]
  BY DEF create, n
<1>3. DOMAIN groups' = DOMAIN groups \cup {n}
  BY <1>2
<1>4. groups'[n] = [name |-> name, members |-> <<>>] /\ \A g \in DOMAIN groups : groups'[g] = groups[g]
  BY <1>1, <1>2
<1>5. <<>> \in Seq(Member \cup {Reserved}) /\ Len(<<>>) = 0 /\ DOMAIN <<>> = {}
  BY EmptySeq
<1>6. groups'[n] \in Group /\ groups'[n].members = <<>>
  BY <1>4, <1>5 DEF Group
<1>7. groups' \in [DOMAIN groups' -> Group]
  <2>1. \A g \in DOMAIN groups' : groups'[g] \in Group
    BY <1>3, <1>4, <1>6 DEF Types
  <2> QED
    BY <1>2, <1>3, <2>1
<1>8. (\A R : Distinct(<<>>, R)) /\ Listed(<<>>) = {}
  BY <1>5 DEF Distinct, Listed
<1>9. Lists'
  <2> SUFFICES ASSUME NEW g \in DOMAIN groups'
               PROVE  Len(groups'[g].members) <= MaxMembers /\ Distinct(groups'[g].members, Racing(g)')
    BY DEF Lists, Distinct
  <2>1. CASE g = n
    BY <1>5, <1>6, <1>8, <2>1, LimitsAssumption
  <2>2. CASE g # n
    BY <1>3, <1>4, <2>2, ListsDo DEF ListsStay, create
  <2> QED
    BY <2>1, <2>2
<1>10. \A g \in DOMAIN groups' : \A m \in Listed(groups'[g].members) :
         g \in DOMAIN groups /\ m \in Listed(groups[g].members)
  BY <1>3, <1>4, <1>6, <1>8
<1>11. DOMAIN groups' \subseteq GroupAddresses
  BY <1>1, <1>3 DEF Types
<1> QED
  BY <1>7, <1>9, <1>10, <1>11

\* The lists stay in order, and nobody is listed who was not.
ListsKept ==
  /\ groups' \in [DOMAIN groups' -> Group] /\ DOMAIN groups' \subseteq GroupAddresses
  /\ Lists'
  /\ \A g \in DOMAIN groups' : \A m \in Listed(groups'[g].members) :
       g \in DOMAIN groups /\ m \in Listed(groups[g].members)

LEMMA OneGroupKept ==
  ASSUME Types, ListsStay, NEW g \in DOMAIN groups, NEW list \in Seq(Place),
         Len(list) <= MaxMembers, Distinct(list, Racing(g)'), Listed(list) \subseteq Listed(groups[g].members),
         groups' = [groups EXCEPT ![g].members = list]
  PROVE  ListsKept
<1>1. /\ groups' \in [DOMAIN groups' -> Group] /\ DOMAIN groups' = DOMAIN groups
      /\ groups'[g].members = list
      /\ \A h \in DOMAIN groups \ {g} : groups'[h] = groups[h]
      /\ Lists'
  BY OneGroup
<1>2. ASSUME NEW h \in DOMAIN groups', NEW m \in Listed(groups'[h].members)
      PROVE  h \in DOMAIN groups /\ m \in Listed(groups[h].members)
  <2>1. CASE h = g
    BY <1>1, <1>2, <2>1
  <2>2. CASE h # g
    BY <1>1, <1>2, <2>2
  <2> QED
    BY <2>1, <2>2
<1> QED
  BY <1>1, <1>2 DEF ListsKept, Types

LEMMA SameGroupsKept == ASSUME Types, Lists, UNCHANGED <<groups, raced>> PROVE ListsKept
BY DEF ListsKept, Types, Lists, Distinct, Racing

LEMMA DeleteKept ==
  ASSUME Types, Lists, NEW g \in DOMAIN groups, raced' = raced,
         groups' = [h \in DOMAIN groups \ {g} |-> groups[h]]
  PROVE  ListsKept
<1>1. DOMAIN groups' = DOMAIN groups \ {g} /\ \A h \in DOMAIN groups' : groups'[h] = groups[h]
  OBVIOUS
<1>2. groups' \in [DOMAIN groups' -> Group]
  BY <1>1 DEF Types
<1>3. Lists'
  BY <1>1 DEF Lists, Distinct, Racing
<1> QED
  BY <1>1, <1>2, <1>3 DEF ListsKept, Types

\* What add does to raced: it only forgets a unit that is not listed.
LEMMA AddRaces ==
  ASSUME Types, Lists, NEW c, NEW a \in Addition, add(c, a)
  PROVE  /\ ListsStay /\ raced' \subseteq GroupAddresses \X Member
         /\ \A g, d, u : ~Calm(g, d, u) /\ Calm(g, d, u)' =>
              /\ ~Pending(a) /\ g = a.group /\ d = a.device /\ u = a.unit
              /\ ~exists(groups[a.group].members, <<a.device, a.unit>>)
<1> DEFINE g == a.group
           m == <<a.device, a.unit>>
           members == groups[g].members
<1>1. /\ g \in DOMAIN groups /\ g \in GroupAddresses /\ m \in Member
      /\ \/ raced' = raced
         \/ ~exists(members, m) /\ Pending(a) /\ raced' = raced \cup {<<g, m>>}
         \/ ~exists(members, m) /\ ~Pending(a) /\ raced' = raced \ {<<g, m>>}
  BY DEF add, Addition, Member
<1>2. raced' \subseteq GroupAddresses \X Member
  <2>1. <<g, m>> \in GroupAddresses \X Member /\ raced \subseteq GroupAddresses \X Member
    BY <1>1 DEF Types
  <2>2. raced' \in {raced, raced \cup {<<g, m>>}, raced \ {<<g, m>>}}
    BY <1>1
  <2> HIDE DEF g, m
  <2> QED
    BY <2>1, <2>2
<1>3. ASSUME NEW h, NEW n, <<h, n>> \in raced, <<h, n>> \notin raced'
      PROVE  ~Pending(a) /\ h = g /\ n = m /\ ~exists(members, m)
  BY <1>1, <1>3
<1>4. ListsStay
  <2> SUFFICES ASSUME NEW h \in DOMAIN groups, NEW i \in DOMAIN groups[h].members,
                      NEW j \in DOMAIN groups[h].members,
                      groups[h].members[i] = groups[h].members[j], groups[h].members[i] # Reserved,
                      groups[h].members[i] \notin Racing(h)'
               PROVE  i = j
    BY DEF ListsStay, Lists, Distinct
  <2>1. groups[h].members[i] \in Member
    BY ListedMembers DEF Listed
  <2>2. <<h, groups[h].members[i]>> \notin raced'
    BY <2>1 DEF Racing
  <2>3. CASE <<h, groups[h].members[i]>> \in raced
    BY <2>2, <2>3, <1>3 DEF exists, Places
  <2>4. CASE <<h, groups[h].members[i]>> \notin raced
    BY <2>4 DEF Lists, Distinct, Racing
  <2> QED
    BY <2>3, <2>4
<1>5. ASSUME NEW h, NEW d, NEW u, ~Calm(h, d, u), Calm(h, d, u)'
      PROVE  /\ ~Pending(a) /\ h = g /\ d = a.device /\ u = a.unit /\ ~exists(members, m)
  <2>1. <<h, <<d, u>>>> \in raced /\ <<h, <<d, u>>>> \notin raced'
    BY <1>5 DEF Calm
  <2>2. ~Pending(a) /\ h = g /\ <<d, u>> = m /\ ~exists(members, m)
    BY <2>1, <1>3
  <2> QED
    BY <2>2
<1> QED
  BY <1>2, <1>4, <1>5

\* Both ways of reserving and giving up.
LEMMA AddKept ==
  ASSUME Types, Lists, NEW c, NEW a \in Addition, add(c, a)
  PROVE  ListsKept
<1> DEFINE g == a.group
           members == groups[g].members
<1>1. g \in DOMAIN groups
  BY DEF add
<1>2. members \in Seq(Place) /\ Len(members) <= MaxMembers /\ Distinct(members, Racing(g)') /\ ListsStay
  BY <1>1, MembersType, AddRaces DEF ListsStay
<1> HIDE DEF members
<1>3. /\ reserve(members) \in Seq(Place) /\ Len(reserve(members)) <= MaxMembers
      /\ Distinct(reserve(members), Racing(g)') /\ Listed(reserve(members)) = Listed(members)
  BY <1>2, Reserving
<1>4. /\ remove(reserve(members), Reserved) \in Seq(Place)
      /\ Len(remove(reserve(members), Reserved)) <= MaxMembers
      /\ Distinct(remove(reserve(members), Reserved), Racing(g)')
      /\ Listed(remove(reserve(members), Reserved)) \subseteq Listed(members)
  BY <1>3, Removing
<1>5. \/ groups' = [groups EXCEPT ![g].members = reserve(members)]
      \/ groups' = [groups EXCEPT ![g].members = remove(reserve(members), Reserved)]
  BY DEF add, members
<1> HIDE DEF g
<1>6. CASE groups' = [groups EXCEPT ![g].members = reserve(members)]
  BY <1>1, <1>2, <1>3, <1>6, OneGroupKept DEF members
<1>7. CASE groups' = [groups EXCEPT ![g].members = remove(reserve(members), Reserved)]
  BY <1>1, <1>2, <1>4, <1>7, OneGroupKept DEF members
<1> QED
  BY <1>5, <1>6, <1>7

\* A unit that is removed is listed no more.
LEMMA RemoveKept ==
  ASSUME Types, Lists, NEW g, NEW m, remove_member(g, m)
  PROVE  /\ ListsKept /\ g \in DOMAIN groups
         /\ Calm(g, m[1], m[2]) /\ m \in Member => m \notin Listed(groups'[g].members)
<1> DEFINE members == groups[g].members
           list == remove(members, m)
<1>1. g \in DOMAIN groups /\ groups' = [groups EXCEPT ![g].members = list]
      /\ raced' = raced /\ ListsStay
  BY ListsDo DEF remove_member
<1>2. members \in Seq(Place) /\ Len(members) <= MaxMembers /\ Distinct(members, Racing(g)')
  BY <1>1, MembersType DEF ListsStay
<1>3. /\ list \in Seq(Place) /\ Len(list) <= MaxMembers /\ Distinct(list, Racing(g)')
      /\ Listed(list) \subseteq Listed(members) /\ (m \notin Racing(g)' => m \notin Listed(list))
  <2> HIDE DEF members
  <2> QED
    BY <1>2, Removing
<1> HIDE DEF list
<1>4. ListsKept /\ groups'[g].members = list
  BY <1>1, <1>3, OneGroup, OneGroupKept
<1>5. Calm(g, m[1], m[2]) /\ m \in Member => m \notin Racing(g)'
  BY <1>1 DEF Calm, Racing, Member
<1> QED
  BY <1>1, <1>3, <1>4, <1>5

\* An answer gives a place up, or makes its unit a member.
LEMMA AddedLists ==
  ASSUME Types, Lists, NEW d \in Devices, added(d),
         Head(up[d]) \in Answer,
         Head(up[d]).group \in DOMAIN groups =>
           \/ <<d, Head(up[d]).unit>> \notin Listed(groups[Head(up[d]).group].members)
           \/ ~Calm(Head(up[d]).group, d, Head(up[d]).unit)
  PROVE  \/ ListsKept
         \/ /\ groups' \in [DOMAIN groups' -> Group] /\ DOMAIN groups' = DOMAIN groups
            /\ Lists' /\ Head(up[d]).code = "OK" /\ Head(up[d]).group \in DOMAIN groups
            /\ transport' = [transport EXCEPT ![Head(up[d]).group] = @ \cup {d}]
            /\ \A h \in DOMAIN groups \ {Head(up[d]).group} : groups'[h] = groups[h]
            /\ Listed(groups'[Head(up[d]).group].members)
                 \subseteq Listed(groups[Head(up[d]).group].members) \cup {<<d, Head(up[d]).unit>>}
<1>0. PICK r : r = Head(up[d])
  OBVIOUS
<1> DEFINE g == r.group
           members == groups[g].members
           m == <<d, r.unit>>
<1>1. m \in Member /\ raced' = raced /\ ListsStay
  BY <1>0, ListsDo DEF Answer, Member, added
<1>2. \/ groups' = groups
      \/ g \in DOMAIN groups /\ groups' = [groups EXCEPT ![g].members = remove(members, Reserved)]
      \/ /\ g \in DOMAIN groups /\ r.code = "OK"
         /\ groups' = [groups EXCEPT ![g].members = update(members, m)]
         /\ transport' = [transport EXCEPT ![g] = @ \cup {d}]
  BY <1>0 DEF added, stored
<1>3. CASE groups' = groups
  BY <1>1, <1>3, SameGroupsKept
<1>4. ASSUME g \in DOMAIN groups
      PROVE  members \in Seq(Place) /\ Len(members) <= MaxMembers /\ Distinct(members, Racing(g)')
  BY <1>1, <1>4, MembersType DEF ListsStay
<1>5. g \in DOMAIN groups => m \notin Listed(members) \/ m \in Racing(g)'
  <2>1. <<g, m>> \in raced' <=> <<g, m>> \in raced
    BY <1>1
  <2>2. g \in DOMAIN groups => m \notin Listed(members) \/ <<g, m>> \in raced
    BY <1>0 DEF Calm
  <2> QED
    BY <1>1, <2>1, <2>2 DEF Racing
<1>6. CASE g \in DOMAIN groups /\ groups' = [groups EXCEPT ![g].members = remove(members, Reserved)]
  <2>1. /\ remove(members, Reserved) \in Seq(Place) /\ Len(remove(members, Reserved)) <= MaxMembers
        /\ Distinct(remove(members, Reserved), Racing(g)') /\ Listed(remove(members, Reserved)) \subseteq Listed(members)
    <3> HIDE DEF members
    <3> QED
      BY <1>4, <1>6, Removing
  <2> HIDE DEF g
  <2> QED
    BY <1>1, <1>6, <2>1, OneGroupKept
<1>7. CASE /\ g \in DOMAIN groups /\ r.code = "OK"
           /\ groups' = [groups EXCEPT ![g].members = update(members, m)]
           /\ transport' = [transport EXCEPT ![g] = @ \cup {d}]
  <2>1. /\ update(members, m) \in Seq(Place) /\ Len(update(members, m)) <= MaxMembers
        /\ Distinct(update(members, m), Racing(g)') /\ Listed(update(members, m)) \subseteq Listed(members) \cup {m}
    <3> HIDE DEF members, m
    <3> QED
      BY <1>1, <1>4, <1>5, <1>7, Updating
  <2> HIDE DEF g, m
  <2>2. /\ groups' \in [DOMAIN groups' -> Group] /\ DOMAIN groups' = DOMAIN groups
        /\ groups'[g].members = update(members, m)
        /\ \A h \in DOMAIN groups \ {g} : groups'[h] = groups[h]
        /\ Lists'
    BY <1>1, <1>7, <2>1, OneGroup
  <2> QED
    BY <1>0, <1>7, <2>1, <2>2 DEF g, m
<1> QED
  BY <1>2, <1>3, <1>6, <1>7

-----------------------------------------------------------------------------
(* The steps.                                                              *)

\* The queues: what is taken off and put on.
LEMMA Popped ==
  ASSUME NEW S, NEW s \in Seq(S), s # <<>>
  PROVE  /\ Tail(s) \in Seq(S) /\ Head(s) = s[1] /\ 1 \in DOMAIN s /\ s[1] \in S
         /\ \A i \in DOMAIN Tail(s) : i \in Nat /\ i > 0 /\ i + 1 \in DOMAIN s /\ Tail(s)[i] = s[i + 1]
<1>1. Len(s) \in Nat /\ DOMAIN s = 1..Len(s) /\ Len(s) # 0
  BY LenProperties, EmptySeq
<1>2. /\ Head(s) = s[1] /\ Tail(s) \in Seq(S) /\ Len(Tail(s)) = Len(s) - 1
      /\ \A i \in 1..Len(Tail(s)) : Tail(s)[i] = s[i + 1]
  BY HeadTailProperties
<1>3. DOMAIN Tail(s) = 1..Len(Tail(s))
  BY <1>2, LenProperties
<1>4. s[1] \in S
  BY <1>1, ElementOfSeq
<1> QED
  BY <1>1, <1>2, <1>3, <1>4

LEMMA Pushed ==
  ASSUME NEW S, NEW s \in Seq(S), NEW e \in S
  PROVE  /\ Append(s, e) \in Seq(S)
         /\ \A i \in DOMAIN Append(s, e) :
              \/ i \in DOMAIN s /\ Append(s, e)[i] = s[i]
              \/ i = Len(s) + 1 /\ Append(s, e)[i] = e
         /\ \A i \in DOMAIN s : i \in Nat /\ i < Len(s) + 1
<1>1. /\ Append(s, e) \in Seq(S) /\ Len(Append(s, e)) = Len(s) + 1
      /\ \A i \in 1..Len(s) : Append(s, e)[i] = s[i]
      /\ Append(s, e)[Len(s) + 1] = e
  BY AppendProperties
<1>2. DOMAIN Append(s, e) = 1..Len(s) + 1 /\ DOMAIN s = 1..Len(s) /\ Len(s) \in Nat
  BY <1>1, LenProperties
<1> QED
  BY <1>1, <1>2

\* Positions on a link are numbers.
LEMMA Positions ==
  ASSUME Types, NEW d \in Devices
  PROVE  /\ down[d] \in Seq(Request) /\ up[d] \in Seq(Answer)
         /\ \A i \in DOMAIN down[d] : i \in Nat /\ i > 0 /\ down[d][i] \in Request
         /\ \A i \in DOMAIN up[d] : i \in Nat /\ i > 0 /\ up[d][i] \in Answer
<1>1. down[d] \in Seq(Request) /\ up[d] \in Seq(Answer)
  BY DEF Types
<1> QED
  BY <1>1, LenProperties, ElementOfSeq

\* What a step does to the lists of members alone.
LEMMA ListsOnly ==
  ASSUME IInv, Types', ListsKept, UNCHANGED <<table, down, up, raced>>
  PROVE  IInv'
<1>1. AdditionLast' /\ AnswersAlone'
  BY DEF IInv, AdditionLast, AnswersAlone, Alone, Calm
<1>2. MembersSettled'
  BY DEF IInv, MembersSettled, ListsKept, Settled, Steady
<1> QED
  BY <1>1, <1>2 DEF IInv, ListsKept

\* What is put on the link to d at position j is about a unit for which there
\* is no addition and no answer under way, and which is not listed, if it is calm.
Old(d, j) == j \in DOMAIN down[d] /\ down'[d][j] = down[d][j]

CalmNext(g, d, u) == <<g, <<d, u>>>> \notin raced'

NotListed(g, d, u) == g \in DOMAIN groups' => <<d, u>> \notin Listed(groups'[g].members)

New(d, j) ==
  LET n == down'[d][j]
  IN  /\ \A i \in DOMAIN down[d] : i < j
      /\ CalmNext(n.group, d, n.unit) =>
           /\ \A i \in DOMAIN down[d] : Same(down[d][i], n) => down[d][i].cmd = "REMOVE"
           /\ \A i \in DOMAIN up[d] : ~Same(up[d][i], n)
           /\ NotListed(n.group, d, n.unit)

\* A unit becomes calm when no addition of it is under way and it is not listed.
Cleared ==
  \A g, d, u : ~Calm(g, d, u) /\ CalmNext(g, d, u) =>
    /\ \A i \in DOMAIN down[d] : About(down[d][i], g, u) => down[d][i].cmd = "REMOVE"
    /\ \A i \in DOMAIN up[d] : ~About(up[d][i], g, u)
    /\ NotListed(g, d, u)

LEMMA SameCalm == ASSUME raced' = raced PROVE Cleared
BY DEF Cleared, Calm, CalmNext

LEMMA Telling ==
  ASSUME IInv, Types', ListsKept, Cleared, UNCHANGED <<table, up>>,
         \A d \in Devices : \A j \in DOMAIN down'[d] : Old(d, j) \/ New(d, j),
         \A d \in Devices : \A i, j \in DOMAIN down'[d] :
           i < j /\ New(d, i) => down'[d][i].cmd = "REMOVE"
  PROVE  IInv'
<1>1. AdditionLast'
  <2> SUFFICES ASSUME NEW d \in Devices, NEW i \in DOMAIN down'[d], NEW j \in DOMAIN down'[d],
                      i < j, Same(down'[d][i], down'[d][j]), down'[d][i].cmd = "ADD",
                      CalmNext(down'[d][j].group, d, down'[d][j].unit)
               PROVE  FALSE
    BY DEF AdditionLast, Same, About, Calm, CalmNext
  <2>1. i \in Nat /\ j \in Nat /\ down'[d] \in Seq(Request)
    BY LenProperties DEF Types
  <2>2. Old(d, i)
    OBVIOUS
  <2>3. CASE Old(d, j)
    <3>1. CASE Calm(down[d][j].group, d, down[d][j].unit)
      BY <2>2, <2>3, <3>1 DEF Old, IInv, AdditionLast
    <3>2. CASE ~Calm(down[d][j].group, d, down[d][j].unit)
      BY <2>2, <2>3, <3>2 DEF Old, Cleared, Same
    <3> QED
      BY <3>1, <3>2
  <2>4. CASE New(d, j)
    BY <2>2, <2>4 DEF Old, New
  <2> QED
    BY <2>3, <2>4
<1>2. AnswersAlone'
  <2> SUFFICES ASSUME NEW d \in Devices, NEW i \in DOMAIN up[d],
                      CalmNext(up[d][i].group, d, up[d][i].unit)
               PROVE  Alone(d, i)'
    BY DEF AnswersAlone, Calm, CalmNext, Alone
  <2>1. Same(up[d][i], up[d][i])
    BY DEF Same, About
  <2>2. Calm(up[d][i].group, d, up[d][i].unit)
    BY <2>1 DEF Cleared, Same
  <2>3. Alone(d, i)
    BY <2>2 DEF IInv, AnswersAlone
  <2>4. ASSUME NEW j \in DOMAIN down'[d], Same(up[d][i], down'[d][j])
        PROVE  FALSE
    <3>1. CASE Old(d, j)
      BY <2>3, <2>4, <3>1 DEF Old, Alone
    <3>2. CASE New(d, j)
      <4>1. CalmNext(down'[d][j].group, d, down'[d][j].unit)
        BY <2>4 DEF Same, About
      <4> QED
        BY <2>4, <3>2, <4>1 DEF New
    <3> QED
      BY <3>1, <3>2
  <2> QED
    BY <2>3, <2>4 DEF Alone, Same, About
<1>3. MembersSettled'
  <2> SUFFICES ASSUME NEW g \in DOMAIN groups', NEW m \in Listed(groups'[g].members),
                      <<g, m>> \notin raced'
               PROVE  Settled(g, m[1], m[2])'
    BY DEF MembersSettled, Steady, Listed
  <2>1. g \in DOMAIN groups /\ m \in Listed(groups[g].members)
    BY DEF ListsKept
  <2>2. m[1] \in Devices /\ m = <<m[1], m[2]>> /\ CalmNext(g, m[1], m[2])
    BY <2>1, ListedMembers DEF IInv, CalmNext
  <2>3. Calm(g, m[1], m[2])
    BY <2>2 DEF Cleared, NotListed
  <2>4. Settled(g, m[1], m[2])
    BY <2>1, <2>2, <2>3 DEF IInv, MembersSettled, Steady, Calm
  <2>5. ASSUME NEW j \in DOMAIN down'[m[1]], About(down'[m[1]][j], g, m[2]) PROVE FALSE
    <3>1. CASE Old(m[1], j)
      BY <2>4, <2>5, <3>1 DEF Old, Settled
    <3>2. CASE New(m[1], j)
      BY <2>2, <2>5, <3>2 DEF New, About, NotListed
    <3> QED
      BY <2>2, <3>1, <3>2
  <2> QED
    BY <2>4, <2>5 DEF Settled, About
<1> QED
  BY <1>1, <1>2, <1>3 DEF IInv, ListsKept

LEMMA CreateInductive ==
  ASSUME IInv, NEW name \in Names, create(name)
  PROVE  IInv'
<1>1. ListsKept
  BY CreateStep DEF IInv, ListsKept
<1>2. Types'
  BY <1>1 DEF ListsKept, IInv, Types, create
<1> QED
  BY <1>1, <1>2, ListsOnly DEF create

\* Deleting a group tells its members, after what they were told before.
LEMMA DeleteTells ==
  ASSUME Types, NEW g \in GroupAddresses, delete(g)
  PROVE  /\ down' = [d \in Devices |-> down'[d]] /\ g \in DOMAIN groups
         /\ \A d \in Devices : \E t \in Seq(Request) :
              /\ down'[d] = down[d] \o t
              /\ \A i \in DOMAIN t :
                   /\ t[i].cmd = "REMOVE" /\ t[i].group = g
                   /\ <<d, t[i].unit>> \in Listed(groups[g].members)
<1> DEFINE members == groups[g].members
           told(leaving, d) == [i \in DOMAIN leaving[d] |->
                                 [cmd |-> "REMOVE", group |-> g, unit |-> members[leaving[d][i]][2]]]
<1>1. PICK leaving \in [Devices -> UNION {Leaving(g, d) : d \in Devices}] :
        /\ \A d \in Devices : leaving[d] \in Leaving(g, d)
        /\ down' = [d \in Devices |-> down[d] \o told(leaving, d)]
  BY DEF delete
<1>2. g \in DOMAIN groups
  BY DEF delete
<1>3. members \in Seq(Place)
  BY <1>2, MembersType
<1>4. ASSUME NEW d \in Devices
      PROVE  /\ told(leaving, d) \in Seq(Request)
             /\ \A i \in DOMAIN told(leaving, d) :
                  /\ told(leaving, d)[i].cmd = "REMOVE" /\ told(leaving, d)[i].group = g
                  /\ <<d, told(leaving, d)[i].unit>> \in Listed(members)
  <2>1. PICK n \in Nat : DOMAIN leaving[d] = 1..n
    <3> DEFINE own == {i \in DOMAIN members : members[i] # Reserved /\ members[i][1] = d}
    <3>1. IsFiniteSet(own)
      <4>1. own \subseteq 1..Len(members) /\ Len(members) \in Nat
        BY <1>3, LenProperties
      <4> QED
        BY <4>1, FS_Interval, FS_Subset
    <3>2. Cardinality(own) \in Nat
      BY <3>1, FS_CardinalityType
    <3>3. leaving[d] \in [1..Cardinality(own) -> own]
      BY <1>1 DEF Leaving
    <3> QED
      BY <3>2, <3>3
  <2>2. ASSUME NEW i \in DOMAIN leaving[d]
        PROVE  <<d, members[leaving[d][i]][2]>> \in Listed(members) /\ members[leaving[d][i]][2] \in Units
    <3>1. leaving[d][i] \in DOMAIN members /\ members[leaving[d][i]] # Reserved /\ members[leaving[d][i]][1] = d
      BY <1>1 DEF Leaving
    <3>2. members[leaving[d][i]] \in Listed(members)
      BY <3>1 DEF Listed
    <3> QED
      BY <1>2, <3>1, <3>2, ListedMembers
  <2>3. \A i \in 1..n : told(leaving, d)[i] \in Request
    BY <1>2, <2>1, <2>2 DEF Request, Types
  <2>4. told(leaving, d) \in Seq(Request)
    <3> DEFINE t == told(leaving, d)
    <3>1. t = [i \in 1..n |-> t[i]]
      BY <2>1
    <3> HIDE DEF t
    <3>2. [i \in 1..n |-> t[i]] \in Seq(Request)
      BY <2>3, IsASeq DEF t
    <3> QED
      BY <3>1, <3>2 DEF t
  <2> QED
    BY <2>2, <2>4
<1> HIDE DEF told
<1>5. \A d \in Devices : down'[d] = down[d] \o told(leaving, d)
  BY <1>1
<1>6. down' = [d \in Devices |-> down'[d]]
  BY <1>1
<1> QED
  BY <1>2, <1>4, <1>5, <1>6

\* The members are settled, so nothing is under way about those told to go.
LEMMA DeleteInductive ==
  ASSUME IInv, NEW g \in GroupAddresses, delete(g)
  PROVE  IInv'
<1> DEFINE members == groups[g].members
<1>2. g \in DOMAIN groups /\ ListsKept /\ g \notin DOMAIN groups' /\ Cleared
  BY DeleteKept, SameCalm DEF delete, IInv
<1> HIDE DEF members
<1>5. ASSUME NEW d \in Devices
      PROVE  /\ down'[d] \in Seq(Request)
             /\ \A j \in DOMAIN down'[d] :
                  \/ Old(d, j)
                  \/ /\ j > Len(down[d]) /\ down'[d][j].cmd = "REMOVE" /\ down'[d][j].group = g
                     /\ <<d, down'[d][j].unit>> \in Listed(members)
  <2> DEFINE s == down[d]
  <2>0. PICK t \in Seq(Request) :
          /\ down'[d] = s \o t
          /\ \A i \in DOMAIN t :
               t[i].cmd = "REMOVE" /\ t[i].group = g /\ <<d, t[i].unit>> \in Listed(members)
    BY DeleteTells DEF members, IInv
  <2>1. s \in Seq(Request) /\ t \in Seq(Request) /\ down'[d] = s \o t
    BY <2>0 DEF IInv, Types
  <2> HIDE DEF s
  <2>2. /\ s \o t \in Seq(Request) /\ Len(s \o t) = Len(s) + Len(t)
        /\ \A i \in 1..Len(s) + Len(t) : (s \o t)[i] = IF i <= Len(s) THEN s[i] ELSE t[i - Len(s)]
    BY <2>1, ConcatProperties
  <2>3. /\ Len(s) \in Nat /\ Len(t) \in Nat /\ DOMAIN s = 1..Len(s) /\ DOMAIN t = 1..Len(t)
        /\ DOMAIN (s \o t) = 1..Len(s) + Len(t)
    BY <2>1, <2>2, LenProperties
  <2>4. ASSUME NEW j \in DOMAIN down'[d]
        PROVE  \/ Old(d, j)
               \/ j > Len(s) /\ \E i \in DOMAIN t : down'[d][j] = t[i]
    <3>1. CASE j <= Len(s)
      BY <2>1, <2>2, <2>3, <3>1 DEF Old, s
    <3>2. CASE ~(j <= Len(s))
      <4>1. j - Len(s) \in DOMAIN t /\ down'[d][j] = t[j - Len(s)] /\ j > Len(s)
        BY <2>1, <2>2, <2>3, <3>2
      <4> QED
        BY <4>1
    <3> QED
      BY <3>1, <3>2
  <2> QED
    BY <2>0, <2>1, <2>2, <2>4 DEF s
<1>6. Types'
  <2>1. down' \in [Devices -> Seq(Request)]
    BY <1>5, DeleteTells DEF IInv
  <2> QED
    BY <1>2, <2>1 DEF delete, IInv, Types, ListsKept
<1>7. ASSUME NEW d \in Devices, NEW j \in DOMAIN down'[d], ~Old(d, j)
      PROVE  New(d, j)
  <2>1. /\ j > Len(down[d]) /\ down'[d][j].group = g
        /\ <<d, down'[d][j].unit>> \in Listed(members)
    BY <1>5, <1>7
  <2>2. CalmNext(g, d, down'[d][j].unit) => Settled(g, d, down'[d][j].unit)
    <3>1. CalmNext(g, d, down'[d][j].unit) => <<d, down'[d][j].unit>> \in Steady(g)
      BY <1>2, <2>1 DEF Steady, CalmNext, delete, members
    <3> QED
      BY <1>2, <3>1, Zenon DEF IInv, MembersSettled
  <2>3. \A i \in DOMAIN down[d] : i < j
    <3>0. down[d] \in Seq(Request) /\ down'[d] \in Seq(Request)
      BY <1>5 DEF IInv, Types
    <3>1. DOMAIN down[d] = 1..Len(down[d]) /\ Len(down[d]) \in Nat /\ j \in Nat
      BY <3>0, LenProperties
    <3> QED
      BY <2>1, <3>1
  <2> QED
    BY <1>2, <2>1, <2>2, <2>3 DEF New, Settled, Same, About, NotListed
<1>8. ASSUME NEW d \in Devices, NEW j \in DOMAIN down'[d], New(d, j)
      PROVE  down'[d][j].cmd = "REMOVE"
  <2>1. ~Old(d, j)
    <3>1. CASE j \in DOMAIN down[d]
      <4>1. j \in Nat
        BY <3>1, Positions DEF IInv
      <4> QED
        BY <1>8, <3>1, <4>1 DEF New
    <3> QED
      BY <3>1 DEF Old
  <2> QED
    BY <1>5, <2>1
<1>9. UNCHANGED <<table, up>>
  BY DEF delete
<1> QED
  BY <1>2, <1>6, <1>7, <1>8, <1>9, Telling

\* A message at the end of the link to d.
LEMMA OneMore ==
  ASSUME IInv, ListsKept, NEW d \in Devices, NEW m \in Request,
         down' = [down EXCEPT ![d] = Append(@, m)], UNCHANGED <<table, up>>,
         CalmNext(m.group, d, m.unit) =>
           /\ \A i \in DOMAIN down[d] : Same(down[d][i], m) => down[d][i].cmd = "REMOVE"
           /\ \A i \in DOMAIN up[d] : ~Same(up[d][i], m)
           /\ NotListed(m.group, d, m.unit)
  PROVE  /\ down' \in [Devices -> Seq(Request)]
         /\ \A e \in Devices : \A j \in DOMAIN down'[e] : Old(e, j) \/ New(e, j)
         /\ \A e \in Devices : \A i, j \in DOMAIN down'[e] :
              i < j /\ New(e, i) => down'[e][i].cmd = "REMOVE"
<1>1. down \in [Devices -> Seq(Request)]
  BY DEF IInv, Types
<1>2. down'[d] = Append(down[d], m) /\ \A e \in Devices \ {d} : down'[e] = down[e]
  BY <1>1
<1>3. /\ down'[d] \in Seq(Request) /\ Len(down[d]) \in Nat
      /\ \A j \in DOMAIN down'[d] :
           \/ j \in DOMAIN down[d] /\ down'[d][j] = down[d][j]
           \/ j = Len(down[d]) + 1 /\ down'[d][j] = m
      /\ \A i \in DOMAIN down[d] : i \in Nat /\ i < Len(down[d]) + 1
  BY <1>1, <1>2, Pushed, LenProperties
<1>4. down' \in [Devices -> Seq(Request)]
  BY <1>1, <1>2, <1>3
<1>5. ASSUME NEW e \in Devices, NEW j \in DOMAIN down'[e]
      PROVE  /\ Old(e, j) \/ (e = d /\ New(e, j))
             /\ Old(e, j) \/ (e = d /\ j = Len(down[d]) + 1)
  <2>1. CASE e = d
    <3>1. CASE j \in DOMAIN down[d] /\ down'[d][j] = down[d][j]
      BY <2>1, <3>1 DEF Old
    <3>2. CASE j = Len(down[d]) + 1 /\ down'[d][j] = m
      BY <1>3, <2>1, <3>2 DEF New
    <3> QED
      BY <1>3, <2>1, <3>1, <3>2
  <2>2. CASE e # d
    BY <1>2, <2>2 DEF Old
  <2> QED
    BY <2>1, <2>2
<1>6. ASSUME NEW e \in Devices, NEW i \in DOMAIN down'[e], NEW j \in DOMAIN down'[e], i < j, New(e, i)
      PROVE  FALSE
  <2>1. ~Old(e, i)
    <3>1. i \in DOMAIN down[e] => i \in Nat
      BY Positions DEF IInv
    <3> QED
      BY <1>6, <3>1 DEF Old, New
  <2>2. e = d /\ i = Len(down[d]) + 1
    BY <1>5, <2>1
  <2>3. CASE Old(e, j)
    BY <1>3, <1>6, <2>2, <2>3 DEF Old
  <2>4. CASE e = d /\ j = Len(down[d]) + 1
    BY <1>3, <1>6, <2>2, <2>4
  <2> QED
    BY <1>5, <2>3, <2>4
<1> QED
  BY <1>4, <1>5, <1>6

\* After an addition its unit is calm only if none was under way before.
LEMMA AddInductive ==
  ASSUME IInv, NEW c \in Controllers, NEW a \in Addition, add(c, a)
  PROVE  IInv'
<1> DEFINE m == [cmd |-> "ADD", group |-> a.group, unit |-> a.unit]
<1>1. /\ ListsKept /\ UNCHANGED <<table, up, transport, lost, cut>>
      /\ raced' \subseteq GroupAddresses \X Member
  BY AddKept, AddRaces DEF add, IInv
<1>2. CASE UNCHANGED <<requests, waiting, down, raced>>
  <2>1. Types'
    BY <1>1, <1>2 DEF add, IInv, Types, ListsKept
  <2> QED
    BY <1>1, <1>2, <2>1, ListsOnly
<1>3. CASE /\ ~exists(groups[a.group].members, <<a.device, a.unit>>)
           /\ requests' = [b \in DOMAIN requests \cup {a} |-> IF b = a THEN c ELSE requests[b]]
           /\ waiting' = waiting \cup {<<c, a>>}
           /\ Pending(a) => ~CalmNext(a.group, a.device, a.unit)
           /\ down' = [down EXCEPT ![a.device] = Append(@, m)]
  <2>1. a.device \in Devices /\ m \in Request
    BY DEF Addition, Request
  <2>2. ASSUME ~Pending(a)
        PROVE  /\ \A i \in DOMAIN down[a.device] :
                    About(down[a.device][i], a.group, a.unit) => down[a.device][i].cmd = "REMOVE"
               /\ \A i \in DOMAIN up[a.device] : ~About(up[a.device][i], a.group, a.unit)
    <3>1. ASSUME NEW i \in DOMAIN down[a.device], About(down[a.device][i], a.group, a.unit)
          PROVE  down[a.device][i].cmd = "REMOVE"
      <4>1. down[a.device][i].cmd \in {"ADD", "REMOVE"}
        BY <2>1, Positions DEF IInv, Request
      <4> QED
        BY <2>2, <3>1, <4>1 DEF Pending, Asked, About
    <3>2. \A i \in DOMAIN up[a.device] : ~About(up[a.device][i], a.group, a.unit)
      BY <2>2 DEF Pending, Answered, About
    <3> QED
      BY <3>1, <3>2
  <2>3. NotListed(a.group, a.device, a.unit)
    BY <1>1, <1>3 DEF ListsKept, Listed, exists, Places, NotListed
  <2>4. Cleared
    <3> SUFFICES ASSUME NEW g, NEW d, NEW u, ~Calm(g, d, u), CalmNext(g, d, u)
                 PROVE  /\ \A i \in DOMAIN down[d] :
                             About(down[d][i], g, u) => down[d][i].cmd = "REMOVE"
                        /\ \A i \in DOMAIN up[d] : ~About(up[d][i], g, u)
                        /\ NotListed(g, d, u)
      BY DEF Cleared
    <3>1. ~Pending(a) /\ g = a.group /\ d = a.device /\ u = a.unit
      BY AddRaces DEF IInv, Calm, CalmNext
    <3> QED
      BY <2>2, <2>3, <3>1
  <2>5. CalmNext(m.group, a.device, m.unit) =>
          /\ \A i \in DOMAIN down[a.device] : Same(down[a.device][i], m) => down[a.device][i].cmd = "REMOVE"
          /\ \A i \in DOMAIN up[a.device] : ~Same(up[a.device][i], m)
          /\ NotListed(m.group, a.device, m.unit)
    BY <1>3, <2>2, <2>3 DEF Same
  <2>6. /\ down' \in [Devices -> Seq(Request)]
        /\ \A e \in Devices : \A j \in DOMAIN down'[e] : Old(e, j) \/ New(e, j)
        /\ \A e \in Devices : \A i, j \in DOMAIN down'[e] :
             i < j /\ New(e, i) => down'[e][i].cmd = "REMOVE"
    <3> HIDE DEF m
    <3> QED
      BY <1>1, <1>3, <2>1, <2>5, OneMore
  <2>7. Types'
    <3>1. DOMAIN requests' = DOMAIN requests \cup {a} /\ requests' \in [DOMAIN requests' -> Controllers]
      BY <1>3 DEF IInv, Types
    <3>2. waiting' \subseteq Controllers \X Addition
      BY <1>3 DEF IInv, Types
    <3> QED
      BY <1>1, <2>6, <3>1, <3>2 DEF IInv, Types, ListsKept
  <2> QED
    BY <1>1, <2>4, <2>6, <2>7, Telling
<1>4. \/ UNCHANGED <<requests, waiting, down, raced>>
      \/ /\ ~exists(groups[a.group].members, <<a.device, a.unit>>)
         /\ requests' = [b \in DOMAIN requests \cup {a} |-> IF b = a THEN c ELSE requests[b]]
         /\ waiting' = waiting \cup {<<c, a>>}
         /\ Pending(a) => ~CalmNext(a.group, a.device, a.unit)
         /\ down' = [down EXCEPT ![a.device] = Append(@, m)]
  BY DEF add, Send, CalmNext
<1> QED
  BY <1>2, <1>3, <1>4

\* What the device is told concerns a member, which is settled.
LEMMA RemoveInductive ==
  ASSUME IInv, NEW g \in GroupAddresses, NEW m \in Member, remove_member(g, m)
  PROVE  IInv'
<1> DEFINE told == [cmd |-> "REMOVE", group |-> g, unit |-> m[2]]
<1>1. ListsKept /\ g \in DOMAIN groups /\ (Calm(g, m[1], m[2]) => m \notin Listed(groups'[g].members))
      /\ Cleared /\ raced' = raced
  BY RemoveKept, SameCalm DEF IInv, remove_member
<1>2. m[1] \in Devices /\ m[2] \in Units /\ m = <<m[1], m[2]>> /\ told \in Request
  BY DEF Member, Request
<1>3. m \in Listed(groups[g].members)
  BY ReservedIsNoMember DEF remove_member, exists, Places, Listed
<1>4. Calm(g, m[1], m[2]) => Settled(g, m[1], m[2])
  BY <1>1, <1>2, <1>3 DEF IInv, MembersSettled, Steady, Calm
<1>5. down' = [down EXCEPT ![m[1]] = Append(@, told)] /\ UNCHANGED <<table, up>>
  BY DEF remove_member, Send
<1>6. /\ down' \in [Devices -> Seq(Request)]
      /\ \A e \in Devices : \A j \in DOMAIN down'[e] : Old(e, j) \/ New(e, j)
      /\ \A e \in Devices : \A i, j \in DOMAIN down'[e] :
           i < j /\ New(e, i) => down'[e][i].cmd = "REMOVE"
  <2>1. CalmNext(told.group, m[1], told.unit) =>
          /\ \A i \in DOMAIN down[m[1]] : ~Same(down[m[1]][i], told)
          /\ \A i \in DOMAIN up[m[1]] : ~Same(up[m[1]][i], told)
          /\ NotListed(told.group, m[1], told.unit)
    BY <1>1, <1>2, <1>4 DEF Settled, Same, About, Calm, CalmNext, NotListed
  <2> HIDE DEF told
  <2> QED
    BY <1>1, <1>2, <1>5, <2>1, OneMore
<1>7. Types'
  <2>1. cut' \subseteq GroupAddresses \X Devices
    BY <1>2 DEF IInv, Types, remove_member
  <2> QED
    BY <1>1, <1>2, <1>6, <2>1 DEF IInv, Types, ListsKept, remove_member
<1> QED
  BY <1>1, <1>5, <1>6, <1>7, Telling

\* The device takes the message at the front; what is behind it moves up.
LEMMA Taken ==
  ASSUME IInv, NEW d \in Devices, down[d] # <<>>, down' = [down EXCEPT ![d] = Tail(@)],
         raced' = raced
  PROVE  /\ down' \in [Devices -> Seq(Request)] /\ AdditionLast'
         /\ 1 \in DOMAIN down[d] /\ Head(down[d]) = down[d][1] /\ down[d][1] \in Request
         /\ \A e \in Devices : \A j \in DOMAIN down'[e] :
              \E i \in DOMAIN down[e] : down[e][i] = down'[e][j] /\ (e = d => i > 1)
<1> DEFINE rest == Tail(down[d])
<1>1. down \in [Devices -> Seq(Request)]
  BY DEF IInv, Types
<1>2. down'[d] = rest /\ \A e \in Devices \ {d} : down'[e] = down[e]
  BY <1>1
<1>3. /\ rest \in Seq(Request) /\ Head(down[d]) = down[d][1]
      /\ 1 \in DOMAIN down[d] /\ down[d][1] \in Request
      /\ \A i \in DOMAIN rest :
           i \in Nat /\ i > 0 /\ i + 1 \in DOMAIN down[d] /\ rest[i] = down[d][i + 1]
  BY <1>1, Popped
<1> HIDE DEF rest
<1>4. down' \in [Devices -> Seq(Request)]
  BY <1>1, <1>2, <1>3
<1>5. AdditionLast'
  <2> SUFFICES ASSUME NEW e \in Devices, NEW i \in DOMAIN down'[e], NEW j \in DOMAIN down'[e],
                      i < j, Same(down'[e][i], down'[e][j]),
                      Calm(down'[e][j].group, e, down'[e][j].unit)
               PROVE  down'[e][i].cmd # "ADD"
    BY DEF AdditionLast, Same, About, Calm
  <2>1. CASE e = d
    <3>1. /\ i + 1 \in DOMAIN down[d] /\ j + 1 \in DOMAIN down[d] /\ i + 1 < j + 1
          /\ down'[d][i] = down[d][i + 1] /\ down'[d][j] = down[d][j + 1]
      BY <1>2, <1>3, <2>1
    <3> QED
      BY <2>1, <3>1 DEF IInv, AdditionLast
  <2>2. CASE e # d
    BY <1>2, <2>2 DEF IInv, AdditionLast
  <2> QED
    BY <2>1, <2>2
<1>6. ASSUME NEW e \in Devices, NEW j \in DOMAIN down'[e]
      PROVE  \E i \in DOMAIN down[e] : down[e][i] = down'[e][j] /\ (e = d => i > 1)
  <2>1. CASE e = d
    <3>1. j + 1 \in DOMAIN down[d] /\ down[d][j + 1] = down'[d][j] /\ j + 1 > 1
      BY <1>2, <1>3, <2>1
    <3> QED
      BY <2>1, <3>1
  <2>2. CASE e # d
    BY <1>2, <2>2
  <2> QED
    BY <2>1, <2>2
<1> QED
  BY <1>3, <1>4, <1>5, <1>6

\* A table forgets a unit that is neither listed nor answered for.
LEMMA TableRemoveInductive ==
  ASSUME IInv, NEW d \in Devices, table_remove(d)
  PROVE  IInv'
<1> DEFINE h == down[d][1]
<1>1. /\ down' \in [Devices -> Seq(Request)] /\ AdditionLast'
      /\ 1 \in DOMAIN down[d] /\ Head(down[d]) = h /\ h \in Request
      /\ \A e \in Devices : \A j \in DOMAIN down'[e] :
           \E i \in DOMAIN down[e] : down[e][i] = down'[e][j] /\ (e = d => i > 1)
  BY Taken DEF table_remove
<1>2. /\ table' = [table EXCEPT ![d] = @ \ {<<h.group, h.unit>>}]
      /\ UNCHANGED <<groups, requests, transport, up, waiting, lost, raced, cut>>
  BY <1>1 DEF table_remove
<1>3. Types' /\ ListsKept
  <2>1. table' \in [Devices -> SUBSET (GroupAddresses \X Units)]
    BY <1>2 DEF IInv, Types
  <2> QED
    BY <1>1, <1>2, <2>1, SameGroupsKept DEF IInv, Types
<1>4. AnswersAlone'
  <2> SUFFICES ASSUME NEW e \in Devices, NEW i \in DOMAIN up[e],
                      Calm(up[e][i].group, e, up[e][i].unit)
               PROVE  /\ \A j \in DOMAIN down'[e] : ~Same(up[e][i], down'[e][j])
                      /\ \A j \in DOMAIN up[e] : Same(up[e][i], up[e][j]) => i = j
                      /\ up[e][i].code = "OK" => <<up[e][i].group, up[e][i].unit>> \in table'[e]
    BY <1>2 DEF AnswersAlone, Alone, Calm, Same, About
  <2>1. /\ \A j \in DOMAIN down[e] : ~Same(up[e][i], down[e][j])
        /\ \A j \in DOMAIN up[e] : Same(up[e][i], up[e][j]) => i = j
        /\ up[e][i].code = "OK" => <<up[e][i].group, up[e][i].unit>> \in table[e]
    BY DEF IInv, AnswersAlone, Alone
  <2>2. \A j \in DOMAIN down'[e] : ~Same(up[e][i], down'[e][j])
    BY <1>1, <2>1
  <2>3. up[e][i].code = "OK" => <<up[e][i].group, up[e][i].unit>> \in table'[e]
    <3>1. e = d => <<up[e][i].group, up[e][i].unit>> # <<h.group, h.unit>>
      BY <1>1, <2>1 DEF Same, About
    <3> QED
      BY <1>2, <2>1, <3>1 DEF IInv, Types
  <2> QED
    BY <2>1, <2>2, <2>3
<1>5. MembersSettled'
  <2> SUFFICES ASSUME NEW g \in DOMAIN groups', NEW m \in Listed(groups'[g].members),
                      <<g, m>> \notin raced
               PROVE  Settled(g, m[1], m[2])'
    BY <1>2 DEF MembersSettled, Steady, Listed
  <2>1. Settled(g, m[1], m[2]) /\ m[1] \in Devices
    BY <1>2, ListedMembers DEF IInv, MembersSettled, Steady
  <2>2. <<g, m[2]>> \in table'[m[1]]
    <3>1. m[1] = d => <<g, m[2]>> # <<h.group, h.unit>>
      BY <1>1, <2>1 DEF Settled, About
    <3> QED
      BY <1>2, <2>1, <3>1 DEF Settled, IInv, Types
  <2>3. \A j \in DOMAIN down'[m[1]] : ~About(down'[m[1]][j], g, m[2])
    BY <1>1, <2>1 DEF Settled
  <2> QED
    BY <1>2, <2>1, <2>2, <2>3 DEF Settled, About
<1> QED
  BY <1>1, <1>3, <1>4, <1>5 DEF IInv, ListsKept

\* The answer to an addition is the only thing about its unit on the links.
LEMMA TableAddInductive ==
  ASSUME IInv, NEW d \in Devices, table_add(d)
  PROVE  IInv'
<1> DEFINE h == down[d][1]
           ok == Cardinality(table[d]) + 1 <= MaxTable
           r == [code |-> IF ok THEN "OK" ELSE "FAIL_RESOURCES", group |-> h.group, unit |-> h.unit]
<1>1. /\ down' \in [Devices -> Seq(Request)] /\ AdditionLast'
      /\ 1 \in DOMAIN down[d] /\ Head(down[d]) = h /\ h \in Request
      /\ \A e \in Devices : \A j \in DOMAIN down'[e] :
           \E i \in DOMAIN down[e] : down[e][i] = down'[e][j] /\ (e = d => i > 1)
  BY Taken DEF table_add
<1>2. /\ table' = IF ok THEN [table EXCEPT ![d] = @ \cup {<<h.group, h.unit>>}] ELSE table
      /\ up' = [up EXCEPT ![d] = Append(@, r)] /\ h.cmd = "ADD"
      /\ UNCHANGED <<groups, requests, transport, waiting, lost, raced, cut>>
  BY <1>1 DEF table_add
<1>3. r \in Answer /\ r.group = h.group /\ r.unit = h.unit /\ (r.code = "OK" => ok)
  BY <1>1 DEF Answer, Request
<1> HIDE DEF r, ok
<1>4. /\ table' \in [Devices -> SUBSET (GroupAddresses \X Units)]
      /\ \A e \in Devices : table[e] \subseteq table'[e]
      /\ ok => <<h.group, h.unit>> \in table'[d]
  BY <1>1, <1>2 DEF IInv, Types, Request
<1>5. /\ up' \in [Devices -> Seq(Answer)]
      /\ \A e \in Devices : \A i \in DOMAIN up'[e] :
           \/ i \in DOMAIN up[e] /\ up'[e][i] = up[e][i]
           \/ e = d /\ i = Len(up[d]) + 1 /\ up'[e][i] = r
  <2>1. up \in [Devices -> Seq(Answer)] /\ up[d] \in Seq(Answer)
    BY DEF IInv, Types
  <2>2. up'[d] = Append(up[d], r) /\ \A e \in Devices \ {d} : up'[e] = up[e]
    BY <1>2, <2>1
  <2>3. Append(up[d], r) \in Seq(Answer) /\ \A i \in DOMAIN Append(up[d], r) :
              \/ i \in DOMAIN up[d] /\ Append(up[d], r)[i] = up[d][i]
              \/ i = Len(up[d]) + 1 /\ Append(up[d], r)[i] = r
    BY <1>3, <2>1, Pushed
  <2>4. up' \in [Devices -> Seq(Answer)]
    BY <1>2, <2>1, <2>2, <2>3
  <2> QED
    BY <2>2, <2>3, <2>4
<1>6. Types' /\ ListsKept
  BY <1>1, <1>2, <1>4, <1>5, SameGroupsKept DEF IInv, Types
<1>7. Calm(h.group, d, h.unit) => \A j \in DOMAIN down'[d] : ~Same(r, down'[d][j])
  <2> SUFFICES ASSUME Calm(h.group, d, h.unit), NEW j \in DOMAIN down'[d], Same(r, down'[d][j])
               PROVE  FALSE
    OBVIOUS
  <2>1. PICK i \in DOMAIN down[d] : down[d][i] = down'[d][j] /\ i > 1
    BY <1>1
  <2>2. 1 < i
    BY <2>1, Positions DEF IInv
  <2> QED
    BY <1>1, <1>2, <1>3, <2>1, <2>2 DEF IInv, AdditionLast, Same, About
<1>8. AnswersAlone'
  <2> SUFFICES ASSUME NEW e \in Devices, NEW i \in DOMAIN up'[e],
                      Calm(up'[e][i].group, e, up'[e][i].unit)
               PROVE  /\ \A j \in DOMAIN down'[e] : ~Same(up'[e][i], down'[e][j])
                      /\ \A j \in DOMAIN up'[e] : Same(up'[e][i], up'[e][j]) => i = j
                      /\ up'[e][i].code = "OK" => <<up'[e][i].group, up'[e][i].unit>> \in table'[e]
    BY <1>2 DEF AnswersAlone, Alone, Calm, Same, About
  <2>1. \A k \in DOMAIN up[e] : Calm(up[e][k].group, e, up[e][k].unit) =>
          /\ \A j \in DOMAIN down[e] : ~Same(up[e][k], down[e][j])
          /\ \A j \in DOMAIN up[e] : Same(up[e][k], up[e][j]) => k = j
          /\ up[e][k].code = "OK" => <<up[e][k].group, up[e][k].unit>> \in table[e]
    BY DEF IInv, AnswersAlone, Alone
  <2>2. \A k \in DOMAIN up[e] : e = d /\ Calm(h.group, d, h.unit) =>
          ~Same(up[e][k], r) /\ ~Same(r, up[e][k])
    <3> SUFFICES ASSUME NEW k \in DOMAIN up[d], Calm(h.group, d, h.unit)
                 PROVE  ~Same(up[d][k], r) /\ ~Same(r, up[d][k])
      OBVIOUS
    <3>1. \A l \in DOMAIN up[d] : Calm(up[d][l].group, d, up[d][l].unit) =>
            \A j \in DOMAIN down[d] : ~Same(up[d][l], down[d][j])
      BY DEF IInv, AnswersAlone, Alone
    <3>2. ~Same(up[d][k], h)
      <4> SUFFICES ASSUME Same(up[d][k], h) PROVE FALSE
        OBVIOUS
      <4>1. Calm(up[d][k].group, d, up[d][k].unit)
        BY Zenon DEF Same, About
      <4> QED
        BY <1>1, <3>1, <4>1, Zenon
    <3> QED
      BY <1>3, <3>2, Zenon DEF Same, About
  <2>3. CASE i \in DOMAIN up[e] /\ up'[e][i] = up[e][i]
    <3>1. \A j \in DOMAIN down'[e] : ~Same(up'[e][i], down'[e][j])
      BY <1>1, <2>1, <2>3
    <3>2. ASSUME NEW j \in DOMAIN up'[e], Same(up'[e][i], up'[e][j]) PROVE i = j
      <4>1. CASE j \in DOMAIN up[e] /\ up'[e][j] = up[e][j]
        BY <2>1, <2>3, <3>2, <4>1
      <4>2. CASE e = d /\ up'[e][j] = r
        BY <1>3, <2>2, <2>3, <3>2, <4>2 DEF Same, About
      <4> QED
        BY <1>5, <4>1, <4>2
    <3> QED
      BY <1>4, <2>1, <2>3, <3>1, <3>2
  <2>4. CASE e = d /\ i = Len(up[d]) + 1 /\ up'[e][i] = r
    <3>0. Calm(h.group, d, h.unit)
      BY <1>3, <2>4
    <3>1. \A j \in DOMAIN up'[e] : Same(up'[e][i], up'[e][j]) => i = j
      BY <1>5, <2>2, <2>4, <3>0
    <3> QED
      BY <1>3, <1>4, <1>7, <2>4, <3>0, <3>1
  <2> QED
    BY <1>5, <2>3, <2>4
<1>9. MembersSettled'
  <2> SUFFICES ASSUME NEW g \in DOMAIN groups', NEW m \in Listed(groups'[g].members),
                      <<g, m>> \notin raced
               PROVE  Settled(g, m[1], m[2])'
    BY <1>2 DEF MembersSettled, Steady, Listed
  <2>1. Settled(g, m[1], m[2]) /\ m[1] \in Devices
    BY <1>2, ListedMembers DEF IInv, MembersSettled, Steady
  <2>2. \A j \in DOMAIN down'[m[1]] : ~About(down'[m[1]][j], g, m[2])
    BY <1>1, <2>1 DEF Settled
  <2>3. m[1] = d => ~About(r, g, m[2])
    BY <1>1, <1>3, <2>1 DEF Settled, About
  <2>4. \A j \in DOMAIN up'[m[1]] : ~About(up'[m[1]][j], g, m[2])
    BY <1>5, <2>1, <2>3 DEF Settled
  <2> QED
    BY <1>4, <2>1, <2>2, <2>4 DEF Settled, About
<1> QED
  BY <1>1, <1>6, <1>8, <1>9 DEF IInv, ListsKept

\* The OK that makes a member finds the entry in the device's table.
LEMMA AddedInductive ==
  ASSUME IInv, NEW d \in Devices, added(d)
  PROVE  IInv'
<1> DEFINE r == up[d][1]
           rest == Tail(up[d])
<1>1. /\ rest \in Seq(Answer) /\ Head(up[d]) = r /\ 1 \in DOMAIN up[d] /\ r \in Answer
      /\ \A i \in DOMAIN rest : i \in Nat /\ i > 0 /\ i + 1 \in DOMAIN up[d] /\ rest[i] = up[d][i + 1]
  BY Popped DEF IInv, Types, added
<1>2. up' = [up EXCEPT ![d] = rest] /\ UNCHANGED <<requests, table, down, raced>>
  BY DEF added
<1> HIDE DEF rest
<1>3. up \in [Devices -> Seq(Answer)]
  BY DEF IInv, Types
<1>4. up'[d] = rest /\ up' \in [Devices -> Seq(Answer)] /\ \A e \in Devices \ {d} : up'[e] = up[e]
  BY <1>1, <1>2, <1>3
<1>5. /\ \A e \in Devices : \A i \in DOMAIN up'[e] :
           \E k \in DOMAIN up[e] : up[e][k] = up'[e][i] /\ (e = d => k = i + 1)
  <2> SUFFICES ASSUME NEW e \in Devices, NEW i \in DOMAIN up'[e]
               PROVE  \E k \in DOMAIN up[e] : up[e][k] = up'[e][i] /\ (e = d => k = i + 1)
    OBVIOUS
  <2>1. CASE e = d
    BY <1>1, <1>4, <2>1
  <2>2. CASE e # d
    BY <1>4, <2>2
  <2> QED
    BY <2>1, <2>2
<1>6. r.group \in DOMAIN groups =>
        <<d, r.unit>> \notin Listed(groups[r.group].members) \/ ~Calm(r.group, d, r.unit)
  <2> SUFFICES ASSUME Calm(r.group, d, r.unit), r.group \in DOMAIN groups, <<d, r.unit>> \in Listed(groups[r.group].members)
               PROVE  FALSE
    OBVIOUS
  <2>1. Settled(r.group, d, r.unit)
    BY DEF IInv, MembersSettled, Steady, Calm
  <2> QED
    BY <1>1, <2>1 DEF Settled, About
<1>7. AnswersAlone'
  <2> SUFFICES ASSUME NEW e \in Devices, NEW i \in DOMAIN up'[e],
                      Calm(up'[e][i].group, e, up'[e][i].unit)
               PROVE  /\ \A j \in DOMAIN down[e] : ~Same(up'[e][i], down[e][j])
                      /\ \A j \in DOMAIN up'[e] : Same(up'[e][i], up'[e][j]) => i = j
                      /\ up'[e][i].code = "OK" => <<up'[e][i].group, up'[e][i].unit>> \in table[e]
    BY <1>2 DEF AnswersAlone, Alone, Calm, Same, About
  <2>1. \A k \in DOMAIN up[e] : Calm(up[e][k].group, e, up[e][k].unit) =>
          /\ \A j \in DOMAIN down[e] : ~Same(up[e][k], down[e][j])
          /\ \A j \in DOMAIN up[e] : Same(up[e][k], up[e][j]) => k = j
          /\ up[e][k].code = "OK" => <<up[e][k].group, up[e][k].unit>> \in table[e]
    BY DEF IInv, AnswersAlone, Alone
  <2>2. \A j \in DOMAIN up'[e] : Same(up'[e][i], up'[e][j]) => i = j
    <3> SUFFICES ASSUME NEW j \in DOMAIN up'[e], Same(up'[e][i], up'[e][j]) PROVE i = j
      OBVIOUS
    <3>1. CASE e = d
      <4>1. /\ i \in Nat /\ j \in Nat /\ i + 1 \in DOMAIN up[d] /\ j + 1 \in DOMAIN up[d]
            /\ up'[d][i] = up[d][i + 1] /\ up'[d][j] = up[d][j + 1]
        BY <1>1, <1>4, <3>1
      <4>2. i + 1 = j + 1
        BY <2>1, <3>1, <4>1
      <4> QED
        BY <4>1, <4>2
    <3>2. CASE e # d
      BY <1>4, <2>1, <3>2
    <3> QED
      BY <3>1, <3>2
  <2> QED
    BY <1>5, <2>1, <2>2
<1>8. /\ groups' \in [DOMAIN groups' -> Group] /\ DOMAIN groups' \subseteq GroupAddresses /\ Lists'
      /\ \A g \in DOMAIN groups' : \A m \in Listed(groups'[g].members) :
           \/ g \in DOMAIN groups /\ m \in Listed(groups[g].members)
           \/ g = r.group /\ m = <<d, r.unit>> /\ r.code = "OK"
  <2>1. \/ ListsKept
        \/ /\ groups' \in [DOMAIN groups' -> Group] /\ DOMAIN groups' = DOMAIN groups
           /\ Lists' /\ r.code = "OK" /\ r.group \in DOMAIN groups
           /\ \A h \in DOMAIN groups \ {r.group} : groups'[h] = groups[h]
           /\ Listed(groups'[r.group].members)
                \subseteq Listed(groups[r.group].members) \cup {<<d, r.unit>>}
    BY <1>1, <1>6, AddedLists DEF IInv
  <2> HIDE DEF r
  <2>2. CASE ListsKept
    BY <2>2 DEF ListsKept
  <2>3. CASE /\ groups' \in [DOMAIN groups' -> Group] /\ DOMAIN groups' = DOMAIN groups
             /\ Lists' /\ r.code = "OK" /\ r.group \in DOMAIN groups
             /\ \A h \in DOMAIN groups \ {r.group} : groups'[h] = groups[h]
             /\ Listed(groups'[r.group].members)
                  \subseteq Listed(groups[r.group].members) \cup {<<d, r.unit>>}
    <3>1. DOMAIN groups' \subseteq GroupAddresses
      BY <2>3 DEF IInv, Types
    <3>2. ASSUME NEW g \in DOMAIN groups', NEW m \in Listed(groups'[g].members)
          PROVE  \/ g \in DOMAIN groups /\ m \in Listed(groups[g].members)
                 \/ g = r.group /\ m = <<d, r.unit>> /\ r.code = "OK"
      <4>1. CASE g = r.group
        BY <2>3, <3>2, <4>1
      <4>2. CASE g # r.group
        <5>1. groups'[g] = groups[g] /\ g \in DOMAIN groups
          BY <2>3, <4>2
        <5> QED
          BY <3>2, <5>1
      <4> QED
        BY <4>1, <4>2
    <3> QED
      BY <2>3, <3>1, <3>2
  <2> QED
    BY <2>1, <2>2, <2>3
<1>9. MembersSettled'
  <2> SUFFICES ASSUME NEW g \in DOMAIN groups', NEW m \in Listed(groups'[g].members),
                      <<g, m>> \notin raced
               PROVE  Settled(g, m[1], m[2])'
    BY <1>2 DEF MembersSettled, Steady, Listed
  <2>1. CASE g \in DOMAIN groups /\ m \in Listed(groups[g].members)
    <3>1. Settled(g, m[1], m[2]) /\ m[1] \in Devices
      BY <2>1, ListedMembers DEF IInv, MembersSettled, Steady
    <3>2. \A j \in DOMAIN up'[m[1]] : ~About(up'[m[1]][j], g, m[2])
      BY <1>5, <3>1 DEF Settled
    <3> QED
      BY <1>2, <3>1, <3>2 DEF Settled, About
  <2>2. CASE g = r.group /\ m = <<d, r.unit>> /\ r.code = "OK"
    <3>1. /\ \A j \in DOMAIN down[d] : ~Same(r, down[d][j])
          /\ \A j \in DOMAIN up[d] : Same(r, up[d][j]) => j = 1
          /\ <<r.group, r.unit>> \in table[d]
      BY <1>1, <2>2 DEF IInv, AnswersAlone, Alone, Calm
    <3>2. m[1] = d /\ m[2] = r.unit
      BY <2>2
    <3>3. ASSUME NEW j \in DOMAIN down[d], About(down[d][j], g, m[2]) PROVE FALSE
      BY <2>2, <3>1, <3>2, <3>3 DEF Same, About
    <3>4. ASSUME NEW j \in DOMAIN up'[d], About(up'[d][j], g, m[2]) PROVE FALSE
      <4>1. j \in Nat /\ j > 0 /\ j + 1 \in DOMAIN up[d] /\ up'[d][j] = up[d][j + 1]
        BY <1>1, <1>4
      <4>2. Same(r, up[d][j + 1])
        BY <2>2, <3>2, <3>4, <4>1 DEF Same, About
      <4> QED
        BY <3>1, <4>1, <4>2
    <3> QED
      BY <1>2, <2>2, <3>1, <3>2, <3>3, <3>4 DEF Settled, About
  <2> QED
    BY <1>8, <2>1, <2>2
<1>10. Types'
  <2>1. /\ lost' = lost \/ lost' = [lost EXCEPT ![r.group] = @ + 1]
        /\ transport' = transport \/ transport' = [transport EXCEPT ![r.group] = @ \cup {d}]
        /\ waiting' \subseteq waiting /\ cut' \subseteq cut
    BY <1>1 DEF added
  <2> HIDE DEF r
  <2>0. r.group \in GroupAddresses
    BY <1>1 DEF Answer
  <2>5. lost \in [GroupAddresses -> Nat] /\ transport \in [GroupAddresses -> SUBSET Devices]
    BY DEF IInv, Types
  <2>2. lost' \in [GroupAddresses -> Nat]
    <3>1. CASE lost' = lost
      BY <2>5, <3>1
    <3>2. CASE lost' = [lost EXCEPT ![r.group] = @ + 1]
      BY <2>0, <2>5, <3>2
    <3> QED
      BY <2>1, <3>1, <3>2
  <2>4. transport' \in [GroupAddresses -> SUBSET Devices]
    <3>1. CASE transport' = transport
      BY <2>5, <3>1
    <3>2. CASE transport' = [transport EXCEPT ![r.group] = @ \cup {d}]
      BY <2>0, <2>5, <3>2
    <3> QED
      BY <2>1, <3>1, <3>2
  <2>3. waiting' \subseteq Controllers \X Addition /\ cut' \subseteq GroupAddresses \X Devices
    BY <2>1 DEF IInv, Types
  <2> QED
    BY <1>2, <1>4, <1>8, <2>2, <2>3, <2>4 DEF IInv, Types
<1>11. AdditionLast'
  BY <1>2 DEF IInv, AdditionLast, Calm
<1> QED
  BY <1>7, <1>8, <1>9, <1>10, <1>11 DEF IInv

\* Closing a link only takes messages away.
LEMMA DisconnectInductive ==
  ASSUME IInv, NEW d \in Devices, disconnect(d)
  PROVE  IInv'
<1> DEFINE more(g) == IF g \in DOMAIN groups
                      THEN Cardinality(Asked(d, g)) + Cardinality(Answered(d, g)) ELSE 0
<1>1. /\ lost' = [g \in GroupAddresses |-> lost[g] + more(g)]
      /\ down' = [down EXCEPT ![d] = <<>>] /\ up' = [up EXCEPT ![d] = <<>>]
      /\ waiting' \subseteq waiting
      /\ UNCHANGED <<groups, requests, transport, table, raced, cut>>
  BY DEF disconnect
<1>2. \A g \in GroupAddresses : more(g) \in Nat
  <2> SUFFICES ASSUME NEW g \in GroupAddresses
               PROVE  Cardinality(Asked(d, g)) \in Nat /\ Cardinality(Answered(d, g)) \in Nat
    OBVIOUS
  <2>1. DOMAIN down[d] = 1..Len(down[d]) /\ Len(down[d]) \in Nat
    BY Positions, LenProperties DEF IInv
  <2>2. DOMAIN up[d] = 1..Len(up[d]) /\ Len(up[d]) \in Nat
    BY Positions, LenProperties DEF IInv
  <2>3. IsFiniteSet(Asked(d, g))
    <3>1. Asked(d, g) \subseteq 1..Len(down[d])
      BY <2>1 DEF Asked
    <3>2. IsFiniteSet(1..Len(down[d]))
      BY <2>1, FS_Interval
    <3> QED
      BY <3>1, <3>2, FS_Subset
  <2>4. IsFiniteSet(Answered(d, g))
    <3>1. Answered(d, g) \subseteq 1..Len(up[d])
      BY <2>2 DEF Answered
    <3>2. IsFiniteSet(1..Len(up[d]))
      BY <2>2, FS_Interval
    <3> QED
      BY <3>1, <3>2, FS_Subset
  <2> QED
    BY <2>3, <2>4, FS_CardinalityType
<1>3. lost' \in [GroupAddresses -> Nat]
  <2> HIDE DEF more
  <2> QED
    BY <1>1, <1>2 DEF IInv, Types
<1>4. <<>> \in Seq(Request) /\ <<>> \in Seq(Answer) /\ DOMAIN <<>> = {}
  BY EmptySeq
<1>5. /\ \A e \in Devices : down'[e] = down[e] \/ DOMAIN down'[e] = {}
      /\ \A e \in Devices : up'[e] = up[e] \/ DOMAIN up'[e] = {}
      /\ down' \in [Devices -> Seq(Request)] /\ up' \in [Devices -> Seq(Answer)]
  BY <1>1, <1>4 DEF IInv, Types
<1>6. Types' /\ ListsKept
  BY <1>1, <1>3, <1>5, SameGroupsKept DEF IInv, Types
<1>7. AdditionLast'
  BY <1>1, <1>5 DEF IInv, AdditionLast, Calm
<1>8. AnswersAlone'
  BY <1>1, <1>5 DEF IInv, AnswersAlone, Alone, Calm
<1>9. MembersSettled'
  <2> SUFFICES ASSUME NEW g \in DOMAIN groups', NEW m \in Listed(groups'[g].members),
                      <<g, m>> \notin raced
               PROVE  Settled(g, m[1], m[2])'
    BY <1>1 DEF MembersSettled, Steady, Listed
  <2>1. Settled(g, m[1], m[2]) /\ m[1] \in Devices
    BY <1>1, ListedMembers DEF IInv, MembersSettled, Steady
  <2> QED
    BY <1>1, <1>5, <2>1 DEF Settled, About
<1> QED
  BY <1>6, <1>7, <1>8, <1>9 DEF IInv, ListsKept

LEMMA InitInductive == ASSUME Init PROVE IInv
<1>1. <<>> \in Seq(Request) /\ <<>> \in Seq(Answer) /\ DOMAIN <<>> = {}
  BY EmptySeq
<1>2. DOMAIN groups = {} /\ DOMAIN requests = {}
  BY DEF Init
<1>3. \A d \in Devices : DOMAIN down[d] = {} /\ DOMAIN up[d] = {}
  BY <1>1 DEF Init
<1>4. Types
  <2>1. groups \in [DOMAIN groups -> Group] /\ requests \in [DOMAIN requests -> Controllers]
    BY <1>2 DEF Init
  <2> QED
    BY <1>1, <1>2, <2>1 DEF Init, Types
<1> QED
  BY <1>2, <1>3, <1>4 DEF IInv, Lists, AdditionLast, AnswersAlone, MembersSettled

LEMMA StepInductive == ASSUME IInv, [Next]_vars PROVE IInv'
<1>1. CASE \E name \in Names : create(name)
  BY <1>1, CreateInductive
<1>2. CASE \E g \in GroupAddresses : delete(g)
  BY <1>2, DeleteInductive
<1>3. CASE \E g \in GroupAddresses, m \in Member : remove_member(g, m)
  BY <1>3, RemoveInductive
<1>4. CASE \E c \in Controllers, a \in Addition : add(c, a)
  BY <1>4, AddInductive
<1>5. CASE \E d \in Devices : table_add(d)
  BY <1>5, TableAddInductive
<1>6. CASE \E d \in Devices : table_remove(d)
  BY <1>6, TableRemoveInductive
<1>7. CASE \E d \in Devices : added(d)
  BY <1>7, AddedInductive
<1>8. CASE \E d \in Devices : disconnect(d)
  BY <1>8, DisconnectInductive
<1>9. CASE UNCHANGED vars
  <2>1. UNCHANGED <<groups, requests, transport, table, down, up, waiting, lost, raced, cut>>
    BY <1>9 DEF vars
  <2>2. Types' /\ ListsKept
    BY <2>1, SameGroupsKept DEF IInv, Types
  <2> QED
    BY <2>1, <2>2, ListsOnly
<1> QED
  BY <1>1, <1>2, <1>3, <1>4, <1>5, <1>6, <1>7, <1>8, <1>9 DEF Next

LEMMA Inductive == Spec => []IInv
BY InitInductive, StepInductive, PTL DEF Spec

-----------------------------------------------------------------------------
(* What the invariant gives.                                               *)

\* A member whose last addition met no other under way has the group in its
\* table, whatever is lost, deleted or named again.
THEOREM MembersAreStored == Spec => []MembersStored
<1>1. IInv => MembersStored
  BY DEF IInv, MembersStored, MembersSettled, Settled
<1> QED
  BY <1>1, Inductive, PTL

\* No unit is listed twice in a group, unless its last addition was accepted
\* while another was under way.
THEOREM MembersAreDistinct == Spec => []NoDuplicates
<1>1. ASSUME IInv PROVE NoDuplicates
  <2> SUFFICES ASSUME NEW g \in DOMAIN groups, NEW i \in DOMAIN groups[g].members,
                      NEW j \in DOMAIN groups[g].members,
                      groups[g].members[i] = groups[g].members[j], groups[g].members[i] # Reserved,
                      <<g, groups[g].members[i]>> \notin raced
               PROVE  i = j
    BY DEF NoDuplicates
  <2> QED
    BY <1>1 DEF IInv, Lists, Distinct, Racing
<1> QED
  BY <1>1, Inductive, PTL

-----------------------------------------------------------------------------
(* The groups of the transport.  Removing a unit drops its device from the *)
(* transport's group; if a place is left to that device, it is cut.        *)

Reaches(g, d) == d \in transport[g] \/ <<g, d>> \in cut

\* What is listed of a device after a removal was in another place before.
LEMMA LeftBehind ==
  ASSUME NEW members \in Seq(Place), NEW o, exists(members, o),
         NEW m \in Listed(remove(members, o)), m[1] = o[1]
  PROVE  Left(members, o) # {}
<1> DEFINE k == first(members, o)
           fewer == remove(members, o)
<1>1. /\ k \in 1..Len(members) /\ fewer \in Seq(Place) /\ Len(fewer) = Len(members) - 1
      /\ \A i \in 1..Len(members) - 1 : fewer[i] = IF i < k THEN members[i] ELSE members[i + 1]
  BY Removed
<1> HIDE DEF k, fewer
<1>2. Len(members) \in Nat /\ DOMAIN members = 1..Len(members) /\ DOMAIN fewer = 1..Len(members) - 1
  BY <1>1, LenProperties
<1>3. PICK i \in DOMAIN fewer : fewer[i] = m /\ m # Reserved
  BY DEF Listed, fewer
<1>4. PICK j \in DOMAIN members : j # k /\ members[j] = m
  BY <1>1, <1>2, <1>3
<1> QED
  BY <1>3, <1>4 DEF Left, k

\* The transport reaches what it reached, or the lists are without the device.
LEMMA ReachedStep ==
  ASSUME IInv, MembersReached, [Next]_vars
  PROVE  MembersReached'
<1>1. ASSUME ListsKept, \A g \in DOMAIN groups', d \in Devices : Reaches(g, d) => Reaches(g, d)'
      PROVE  MembersReached'
  <2> SUFFICES ASSUME NEW g \in DOMAIN groups', NEW m \in Listed(groups'[g].members)
               PROVE  Reaches(g, m[1])'
    BY DEF MembersReached, Listed, Reaches
  <2>1. g \in DOMAIN groups /\ m \in Listed(groups[g].members)
    BY <1>1 DEF ListsKept
  <2>2. m[1] \in Devices /\ Reaches(g, m[1])
    BY <2>1, ListedMembers DEF IInv, MembersReached, Reaches
  <2> QED
    BY <1>1, <2>2
<1>2. ASSUME NEW name \in Names, create(name) PROVE MembersReached'
  <2>1. ListsKept
    BY <1>2, CreateStep DEF IInv, ListsKept
  <2>2. UNCHANGED <<transport, cut>>
    BY <1>2 DEF create
  <2> QED
    BY <1>1, <2>1, <2>2 DEF Reaches
<1>3. ASSUME NEW g \in GroupAddresses, delete(g) PROVE MembersReached'
  <2>1. ListsKept /\ g \notin DOMAIN groups'
    BY <1>3, DeleteKept DEF delete, IInv
  <2>2. transport' = [transport EXCEPT ![g] = {}] /\ cut' = cut \ ({g} \X Devices)
    BY <1>3 DEF delete
  <2>3. ASSUME NEW h \in DOMAIN groups', NEW d \in Devices, Reaches(h, d) PROVE Reaches(h, d)'
    BY <2>1, <2>2, <2>3 DEF Reaches, ListsKept, IInv, Types
  <2> QED
    BY <1>1, <2>1, <2>3
<1>4. ASSUME NEW c \in Controllers, NEW a \in Addition, add(c, a) PROVE MembersReached'
  <2>1. ListsKept
    BY <1>4, AddKept DEF IInv
  <2>2. UNCHANGED <<transport, cut>>
    BY <1>4 DEF add
  <2> QED
    BY <1>1, <2>1, <2>2 DEF Reaches
<1>5. ASSUME NEW h \in GroupAddresses, NEW o \in Member, remove_member(h, o) PROVE MembersReached'
  <2> DEFINE members == groups[h].members
  <2>1. ListsKept /\ h \in DOMAIN groups /\ members \in Seq(Place) /\ exists(members, o)
    BY <1>5, RemoveKept, MembersType DEF IInv, remove_member
  <2>2. transport' = [transport EXCEPT ![h] = @ \ {o[1]}]
    BY <1>5 DEF remove_member
  <2>3. /\ cut' = IF Left(members, o) = {} THEN cut \ {<<h, o[1]>>} ELSE cut \cup {<<h, o[1]>>}
        /\ groups' = [groups EXCEPT ![h].members = remove(members, o)]
    BY <1>5 DEF remove_member
  <2>4. groups'[h].members = remove(members, o)
    BY <2>1, <2>3 DEF IInv, Types, Group
  <2> HIDE DEF members
  <2> SUFFICES ASSUME NEW g \in DOMAIN groups', NEW m \in Listed(groups'[g].members)
               PROVE  Reaches(g, m[1])'
    BY DEF MembersReached, Listed, Reaches
  <2>5. /\ g \in DOMAIN groups /\ g \in GroupAddresses /\ m \in Listed(groups[g].members)
        /\ Reaches(g, m[1])
    BY <2>1 DEF ListsKept, IInv, Types, MembersReached, Reaches
  <2>6. CASE g = h /\ m[1] = o[1]
    <3>1. Left(members, o) # {}
      BY <2>1, <2>4, <2>6, LeftBehind
    <3> QED
      BY <2>3, <2>6, <3>1 DEF Reaches
  <2>7. CASE ~(g = h /\ m[1] = o[1])
    BY <2>2, <2>3, <2>5, <2>7 DEF Reaches, IInv, Types
  <2> QED
    BY <2>6, <2>7
<1>6. ASSUME NEW d \in Devices, added(d) PROVE MembersReached'
  <2> DEFINE r == Head(up[d])
  <2>1. r \in Answer /\ r = up[d][1] /\ 1 \in DOMAIN up[d]
    BY <1>6, Popped DEF IInv, Types, added
  <2>2. r.group \in DOMAIN groups =>
          <<d, r.unit>> \notin Listed(groups[r.group].members) \/ ~Calm(r.group, d, r.unit)
    <3> SUFFICES ASSUME Calm(r.group, d, r.unit), r.group \in DOMAIN groups,
                        <<d, r.unit>> \in Listed(groups[r.group].members)
                 PROVE  FALSE
      OBVIOUS
    <3>1. Settled(r.group, d, r.unit)
      BY DEF IInv, MembersSettled, Steady, Calm
    <3> QED
      BY <2>1, <3>1 DEF Settled, About
  <2>3. \/ UNCHANGED <<transport, cut>>
        \/ /\ transport' = [transport EXCEPT ![r.group] = @ \cup {d}]
           /\ cut' = cut \ {<<r.group, d>>}
    BY <1>6 DEF added
  <2>4. \/ ListsKept
        \/ /\ DOMAIN groups' = DOMAIN groups
           /\ transport' = [transport EXCEPT ![r.group] = @ \cup {d}]
           /\ \A h \in DOMAIN groups \ {r.group} : groups'[h] = groups[h]
           /\ Listed(groups'[r.group].members)
                \subseteq Listed(groups[r.group].members) \cup {<<d, r.unit>>}
    BY <1>6, <2>1, <2>2, AddedLists DEF IInv
  <2> HIDE DEF r
  <2>5. transport \in [GroupAddresses -> SUBSET Devices] /\ r.group \in GroupAddresses
        /\ DOMAIN groups \subseteq GroupAddresses
    BY <2>1 DEF IInv, Types, Answer
  <2>8. ASSUME NEW g \in GroupAddresses, NEW e \in Devices, Reaches(g, e) PROVE Reaches(g, e)'
    BY <2>3, <2>5, <2>8 DEF Reaches
  <2>6. CASE ListsKept
    BY <1>1, <2>6, <2>8 DEF ListsKept
  <2>7. CASE /\ DOMAIN groups' = DOMAIN groups
             /\ transport' = [transport EXCEPT ![r.group] = @ \cup {d}]
             /\ \A h \in DOMAIN groups \ {r.group} : groups'[h] = groups[h]
             /\ Listed(groups'[r.group].members)
                  \subseteq Listed(groups[r.group].members) \cup {<<d, r.unit>>}
    <3> SUFFICES ASSUME NEW g \in DOMAIN groups', NEW m \in Listed(groups'[g].members)
                 PROVE  Reaches(g, m[1])'
      BY DEF MembersReached, Listed, Reaches
    <3>1. CASE m \in Listed(groups[g].members)
      <4>1. g \in DOMAIN groups /\ m[1] \in Devices /\ Reaches(g, m[1])
        BY <2>7, <3>1, ListedMembers DEF IInv, MembersReached, Reaches
      <4> QED
        BY <2>5, <2>8, <4>1
    <3>2. CASE g = r.group /\ m = <<d, r.unit>>
      BY <2>5, <2>7, <3>2 DEF Reaches
    <3>3. g # r.group => groups'[g] = groups[g]
      BY <2>7
    <3> QED
      BY <2>7, <3>1, <3>2, <3>3
  <2> QED
    BY <2>4, <2>6, <2>7
<1>7. ASSUME NEW d \in Devices, table_add(d) \/ table_remove(d) \/ disconnect(d) PROVE MembersReached'
  <2>1. UNCHANGED <<groups, transport, cut>>
    BY <1>7 DEF table_add, table_remove, disconnect
  <2> QED
    BY <2>1 DEF MembersReached
<1>8. CASE UNCHANGED vars
  BY <1>8 DEF vars, MembersReached
<1> QED
  BY <1>2, <1>3, <1>4, <1>5, <1>6, <1>7, <1>8 DEF Next

\* The transport reaches the device of every member, unless the removal of
\* another place of that device has cut it off since a unit of it last joined.
THEOREM MembersAreReached == Spec => []MembersReached
<1>1. Init => MembersReached
  BY DEF Init, MembersReached
<1>2. IInv /\ MembersReached /\ [Next]_vars => MembersReached'
  BY ReachedStep
<1> QED
  BY <1>1, <1>2, Inductive, PTL DEF Spec

-----------------------------------------------------------------------------
(* Who waits.  The client remembers one controller for each addition, the  *)
(* last that asked.                                                        *)

\* Whoever waits for addition a as the last that asked for it has it under way.
Served(w) == w[2] \in DOMAIN requests /\ (requests[w[2]] = w[1] => Pending(w[2]))

Expected == \A w \in waiting : Served(w)

LEMMA PendingMeans ==
  ASSUME NEW a
  PROVE  Pending(a) <=>
           \/ \E i \in DOMAIN down[a.device] :
                down[a.device][i].cmd = "ADD" /\ About(down[a.device][i], a.group, a.unit)
           \/ \E i \in DOMAIN up[a.device] : About(up[a.device][i], a.group, a.unit)
BY DEF Pending, Asked, Answered, About

\* Queue q has e; it has all that s has.
Has(q, e) == \E j \in DOMAIN q : q[j] = e
HasAll(q, s) == \A i \in DOMAIN s : Has(q, s[i])

\* What only puts messages on the links leaves the additions under way.
LEMMA StillPending ==
  ASSUME NEW a,
         \A i \in DOMAIN down[a.device] :
           down[a.device][i].cmd = "ADD" =>
             \/ Has(down'[a.device], down[a.device][i])
             \/ \E j \in DOMAIN up'[a.device] : Same(up'[a.device][j], down[a.device][i]),
         \A i \in DOMAIN up[a.device] :
           About(up[a.device][i], a.group, a.unit) => Has(up'[a.device], up[a.device][i]),
         Pending(a)
  PROVE  Pending(a)'
<1>1. Pending(a)' <=>
           \/ \E i \in DOMAIN down'[a.device] :
                down'[a.device][i].cmd = "ADD" /\ About(down'[a.device][i], a.group, a.unit)
           \/ \E i \in DOMAIN up'[a.device] : About(up'[a.device][i], a.group, a.unit)
  BY DEF Pending, Asked, Answered, About
<1>2. CASE \E i \in DOMAIN down[a.device] :
             down[a.device][i].cmd = "ADD" /\ About(down[a.device][i], a.group, a.unit)
  <2>1. PICK i \in DOMAIN down[a.device] :
          down[a.device][i].cmd = "ADD" /\ About(down[a.device][i], a.group, a.unit)
    BY <1>2
  <2>2. CASE Has(down'[a.device], down[a.device][i])
    BY <1>1, <2>1, <2>2 DEF Has
  <2>3. CASE \E j \in DOMAIN up'[a.device] : Same(up'[a.device][j], down[a.device][i])
    BY <1>1, <2>1, <2>3 DEF Same, About
  <2> QED
    BY <2>1, <2>2, <2>3
<1>3. CASE \E i \in DOMAIN up[a.device] : About(up[a.device][i], a.group, a.unit)
  BY <1>1, <1>3 DEF Has
<1> QED
  BY <1>2, <1>3, PendingMeans

\* A message put at the end of a queue joins those it had.
LEMMA Joined ==
  ASSUME NEW S, NEW s \in Seq(S), NEW e \in S
  PROVE  HasAll(Append(s, e), s) /\ Has(Append(s, e), e)
<1>1. /\ Append(s, e) \in Seq(S) /\ Len(Append(s, e)) = Len(s) + 1
      /\ \A i \in 1..Len(s) : Append(s, e)[i] = s[i]
      /\ Append(s, e)[Len(s) + 1] = e
  BY AppendProperties
<1>2. DOMAIN Append(s, e) = 1..Len(s) + 1 /\ DOMAIN s = 1..Len(s) /\ Len(s) \in Nat
  BY <1>1, LenProperties
<1> QED
  BY <1>1, <1>2 DEF Has, HasAll

\* A longer queue has what it had.
LEMMA Longer ==
  ASSUME NEW S, NEW s \in Seq(S), NEW t \in Seq(S)
  PROVE  HasAll(s \o t, s)
<1>1. /\ s \o t \in Seq(S) /\ Len(s \o t) = Len(s) + Len(t)
      /\ \A k \in 1..Len(s) + Len(t) : (s \o t)[k] = IF k <= Len(s) THEN s[k] ELSE t[k - Len(s)]
  BY ConcatProperties
<1>2. DOMAIN s = 1..Len(s) /\ Len(s) \in Nat /\ Len(t) \in Nat /\ DOMAIN (s \o t) = 1..Len(s) + Len(t)
  BY <1>1, LenProperties
<1>3. \A i \in DOMAIN s : i \in DOMAIN (s \o t) /\ (s \o t)[i] = s[i]
  BY <1>1, <1>2
<1> QED
  BY <1>3 DEF Has, HasAll

LEMMA ExpectedAdd ==
  ASSUME IInv, Expected, NEW c \in Controllers, NEW a \in Addition, add(c, a)
  PROVE  Expected'
<1> DEFINE m == [cmd |-> "ADD", group |-> a.group, unit |-> a.unit]
<1>1. CASE UNCHANGED <<requests, waiting, down>>
  <2>1. UNCHANGED up
    BY DEF add
  <2> QED
    BY <1>1, <2>1 DEF Expected, Served, Pending, Asked, Answered
<1>2. CASE /\ requests' = [b \in DOMAIN requests \cup {a} |-> IF b = a THEN c ELSE requests[b]]
           /\ waiting' = waiting \cup {<<c, a>>}
           /\ down' = [down EXCEPT ![a.device] = Append(@, m)]
  <2>1. UNCHANGED up
    BY DEF add
  <2>2. a.device \in Devices /\ m \in Request /\ m.cmd = "ADD" /\ About(m, a.group, a.unit)
    BY DEF Addition, Request, About
  <2> HIDE DEF m
  <2>3. down'[a.device] = Append(down[a.device], m) /\ \A e \in Devices \ {a.device} : down'[e] = down[e]
    BY <1>2, <2>2 DEF IInv, Types
  <2>4. HasAll(down'[a.device], down[a.device]) /\ Has(down'[a.device], m)
    <3>1. down[a.device] \in Seq(Request)
      BY <2>2 DEF IInv, Types
    <3>2. HasAll(Append(down[a.device], m), down[a.device]) /\ Has(Append(down[a.device], m), m)
      BY <2>2, <3>1, Joined
    <3> QED
      BY <2>3, <3>2
  <2>5. Pending(a)'
    BY <2>2, <2>4 DEF Pending, Asked, About, Has
  <2>6. ASSUME NEW w \in waiting, Pending(w[2]) PROVE Pending(w[2])'
    <3>1. w[2].device \in Devices
      BY DEF IInv, Types, Addition
    <3> DEFINE e == w[2].device
    <3>3. HasAll(down'[e], down[e])
      <4>1. CASE e = a.device
        BY <2>4, <4>1
      <4>2. CASE e # a.device
        BY <2>3, <3>1, <4>2 DEF HasAll, Has
      <4> QED
        BY <4>1, <4>2
    <3>4. HasAll(up'[e], up[e])
      BY <2>1 DEF HasAll, Has
    <3> QED
      BY <2>6, <3>3, <3>4, StillPending DEF HasAll
  <2>7. SUFFICES ASSUME NEW w \in waiting'
                 PROVE  w[2] \in DOMAIN requests' /\ (requests'[w[2]] = w[1] => Pending(w[2])')
    BY DEF Expected, Served
  <2>8. CASE w \in waiting /\ w[2] # a
    BY <1>2, <2>6, <2>8 DEF Expected, Served
  <2>9. CASE w[2] = a
    BY <1>2, <2>5, <2>9
  <2> QED
    BY <1>2, <2>8, <2>9
<1> QED
  BY <1>1, <1>2 DEF add, Send

LEMMA ExpectedTell ==
  ASSUME IInv, Expected,
         (\E g \in GroupAddresses : delete(g)) \/ (\E g \in GroupAddresses, m \in Member : remove_member(g, m))
  PROVE  Expected'
<1>1. UNCHANGED <<requests, waiting, up>>
  BY DEF delete, remove_member
<1>2. ASSUME NEW d \in Devices PROVE HasAll(down'[d], down[d])
  <2>1. down[d] \in Seq(Request)
    BY DEF IInv, Types
  <2>2. ASSUME NEW g \in GroupAddresses, delete(g)
        PROVE  HasAll(down'[d], down[d])
    <3>1. PICK t \in Seq(Request) : down'[d] = down[d] \o t
      BY <2>2, DeleteTells DEF IInv
    <3>2. HasAll(down[d] \o t, down[d])
      BY <2>1, Longer
    <3> QED
      BY <3>1, <3>2
  <2>3. ASSUME NEW g \in GroupAddresses, NEW m \in Member, remove_member(g, m)
        PROVE  HasAll(down'[d], down[d])
    <3> DEFINE told == [cmd |-> "REMOVE", group |-> g, unit |-> m[2]]
    <3>1. told \in Request /\ m[1] \in Devices
      BY DEF Request, Member
    <3> HIDE DEF told
    <3>2. down' = [down EXCEPT ![m[1]] = Append(@, told)]
      BY <2>3 DEF remove_member, Send, told
    <3>3. CASE d = m[1]
      <4>1. down'[d] = Append(down[d], told)
        BY <3>1, <3>2, <3>3 DEF IInv, Types
      <4>2. HasAll(Append(down[d], told), down[d])
        BY <2>1, <3>1, Joined
      <4> QED
        BY <4>1, <4>2
    <3>4. CASE d # m[1]
      <4>1. down'[d] = down[d]
        BY <3>2, <3>4 DEF IInv, Types
      <4> QED
        BY <4>1 DEF HasAll, Has
    <3> QED
      BY <3>3, <3>4
  <2> QED
    BY <2>2, <2>3
<1> SUFFICES ASSUME NEW w \in waiting
             PROVE  w[2] \in DOMAIN requests /\ (requests[w[2]] = w[1] => Pending(w[2])')
  BY <1>1 DEF Expected, Served
<1>3. /\ w[2] \in DOMAIN requests /\ w[2].device \in Devices
      /\ requests[w[2]] = w[1] => Pending(w[2])
  BY DEF Expected, Served, IInv, Types, Addition
<1>4. HasAll(down'[w[2].device], down[w[2].device]) /\ HasAll(up'[w[2].device], up[w[2].device])
  BY <1>1, <1>2, <1>3 DEF HasAll, Has
<1>5. Pending(w[2]) => Pending(w[2])'
  BY <1>4, StillPending DEF HasAll
<1> QED
  BY <1>3, <1>5

\* A queue without its front has the rest.
LEMMA Rest ==
  ASSUME NEW S, NEW s \in Seq(S), s # <<>>
  PROVE  \A i \in DOMAIN s : i # 1 => Has(Tail(s), s[i])
<1>1. Len(s) \in Nat /\ DOMAIN s = 1..Len(s) /\ Len(s) # 0
  BY LenProperties, EmptySeq
<1> DEFINE t == Tail(s)
<1>2. /\ t \in Seq(S) /\ Len(t) = Len(s) - 1 /\ \A k \in 1..Len(t) : t[k] = s[k + 1]
  BY HeadTailProperties
<1> HIDE DEF t
<1>3. DOMAIN t = 1..Len(s) - 1
  BY <1>2, LenProperties
<1>4. \A i \in DOMAIN s : i # 1 => i - 1 \in DOMAIN t /\ t[i - 1] = s[i]
  BY <1>1, <1>2, <1>3
<1> QED
  BY <1>4 DEF t, Has

\* The answer follows its addition, a removal is none.
LEMMA ExpectedTable ==
  ASSUME IInv, Expected, NEW d \in Devices, table_add(d) \/ table_remove(d)
  PROVE  Expected'
<1> DEFINE h == Head(down[d])
<1>1. down[d] # <<>> /\ h = down[d][1] /\ down' = [down EXCEPT ![d] = Tail(@)] /\ UNCHANGED <<requests, waiting>>
  BY Popped DEF IInv, Types, table_add, table_remove
<1>2. \A e \in Devices \ {d} : down'[e] = down[e] /\ up'[e] = up[e]
  BY <1>1 DEF IInv, Types, table_add, table_remove
<1>3. \A i \in DOMAIN down[d] : i # 1 => Has(down'[d], down[d][i])
  <2>1. down[d] \in Seq(Request) /\ down'[d] = Tail(down[d])
    BY <1>1 DEF IInv, Types
  <2>2. \A i \in DOMAIN down[d] : i # 1 => Has(Tail(down[d]), down[d][i])
    BY <1>1, <2>1, Rest
  <2> QED
    BY <2>1, <2>2
<1>4. /\ HasAll(up'[d], up[d])
      /\ h.cmd = "ADD" => \E j \in DOMAIN up'[d] : Same(up'[d][j], h)
  <2>1. CASE table_remove(d)
    BY <2>1 DEF table_remove, HasAll, Has
  <2>2. CASE table_add(d)
    <3> DEFINE ok == Cardinality(table[d]) + 1 <= MaxTable
               r == [code |-> IF ok THEN "OK" ELSE "FAIL_RESOURCES", group |-> h.group, unit |-> h.unit]
    <3>1. h \in Request
      BY <1>1, Popped DEF IInv, Types
    <3>2. r \in Answer /\ Same(r, h)
      BY <3>1 DEF Answer, Request, Same, About
    <3>3. up[d] \in Seq(Answer) /\ up'[d] = Append(up[d], r)
      BY <2>2 DEF IInv, Types, table_add
    <3> HIDE DEF r
    <3>4. HasAll(Append(up[d], r), up[d]) /\ Has(Append(up[d], r), r)
      BY <3>2, <3>3, Joined
    <3>5. HasAll(up'[d], up[d]) /\ Has(up'[d], r)
      BY <3>3, <3>4
    <3> QED
      BY <3>2, <3>5 DEF Has
  <2> QED
    BY <2>1, <2>2
<1> SUFFICES ASSUME NEW w \in waiting
             PROVE  w[2] \in DOMAIN requests /\ (requests[w[2]] = w[1] => Pending(w[2])')
  BY <1>1 DEF Expected, Served
<1>6. /\ w[2] \in DOMAIN requests /\ w[2].device \in Devices
      /\ requests[w[2]] = w[1] => Pending(w[2])
  BY DEF Expected, Served, IInv, Types, Addition
<1>7. \A i \in DOMAIN down[w[2].device] :
        down[w[2].device][i].cmd = "ADD" =>
          \/ Has(down'[w[2].device], down[w[2].device][i])
          \/ \E j \in DOMAIN up'[w[2].device] : Same(up'[w[2].device][j], down[w[2].device][i])
  <2>1. CASE w[2].device = d
    BY <1>1, <1>3, <1>4, <2>1
  <2>2. CASE w[2].device # d
    BY <1>2, <1>6, <2>2 DEF Has
  <2> QED
    BY <2>1, <2>2
<1>8. \A i \in DOMAIN up[w[2].device] :
        Has(up'[w[2].device], up[w[2].device][i])
  <2>1. CASE w[2].device = d
    BY <1>4, <2>1 DEF HasAll
  <2>2. CASE w[2].device # d
    BY <1>2, <1>6, <2>2 DEF Has
  <2> QED
    BY <2>1, <2>2
<1>9. Pending(w[2]) => Pending(w[2])'
  BY <1>7, <1>8, StillPending
<1> QED
  BY <1>6, <1>9

\* An answer uses up the wait of the one it goes to; the others have their own.
LEMMA ExpectedAdded ==
  ASSUME IInv, Expected, NEW d \in Devices, added(d)
  PROVE  Expected'
<1> DEFINE r == Head(up[d])
           a == [group |-> r.group, device |-> d, unit |-> r.unit]
<1>1. /\ up[d] # <<>> /\ r = up[d][1] /\ 1 \in DOMAIN up[d]
      /\ up' = [up EXCEPT ![d] = Tail(@)] /\ UNCHANGED <<requests, down>>
      /\ waiting' = waiting \ {<<requests[a], a>>}
  BY Popped DEF IInv, Types, added
<1> HIDE DEF r, a
<1>0. \A w \in waiting : w[2] \in DOMAIN requests
  BY DEF Expected, Served
<1> SUFFICES ASSUME NEW w \in waiting, w # <<requests[a], a>>, requests[w[2]] = w[1]
             PROVE  Pending(w[2])'
  BY <1>0, <1>1 DEF Expected, Served
<1>2. /\ Pending(w[2]) /\ w[2].device \in Devices /\ w[2] \in Addition /\ w = <<w[1], w[2]>>
  BY DEF Expected, Served, IInv, Types, Addition
<1>3. w[2] # a
  BY <1>2
<1>4. w[2].device = d => ~About(r, w[2].group, w[2].unit)
  BY <1>2, <1>3 DEF Addition, About, a
<1>5. \A i \in DOMAIN up[w[2].device] :
        About(up[w[2].device][i], w[2].group, w[2].unit) =>
          Has(up'[w[2].device], up[w[2].device][i])
  <2>1. CASE w[2].device = d
    <3>1. up[d] \in Seq(Answer) /\ up'[d] = Tail(up[d])
      BY <1>1 DEF IInv, Types
    <3>2. \A i \in DOMAIN up[d] : i # 1 => Has(Tail(up[d]), up[d][i])
      BY <1>1, <3>1, Rest
    <3> QED
      BY <1>1, <1>4, <2>1, <3>1, <3>2
  <2>2. CASE w[2].device # d
    <3>1. up'[w[2].device] = up[w[2].device]
      BY <1>1, <1>2, <2>2 DEF IInv, Types
    <3> QED
      BY <3>1 DEF Has
  <2> QED
    BY <2>1, <2>2
<1>6. HasAll(down'[w[2].device], down[w[2].device])
  BY <1>1 DEF HasAll, Has
<1> QED
  BY <1>2, <1>5, <1>6, StillPending DEF HasAll

LEMMA ExpectedStep ==
  ASSUME IInv, Expected, [Next]_vars
  PROVE  Expected'
<1>1. ASSUME UNCHANGED <<requests, waiting, up, down>> PROVE Expected'
  BY <1>1 DEF Expected, Served, Pending, Asked, Answered
<1>2. ASSUME NEW d \in Devices, disconnect(d) PROVE Expected'
  <2>1. /\ waiting' = {w \in waiting : w[2].device # d} /\ UNCHANGED requests
        /\ \A e \in Devices \ {d} : down'[e] = down[e] /\ up'[e] = up[e]
    BY <1>2 DEF disconnect, IInv, Types
  <2> SUFFICES ASSUME NEW w \in waiting, w[2].device # d
               PROVE  w[2] \in DOMAIN requests /\ (requests[w[2]] = w[1] => Pending(w[2])')
    BY <2>1 DEF Expected, Served
  <2>2. /\ w[2] \in DOMAIN requests /\ w[2].device \in Devices
        /\ requests[w[2]] = w[1] => Pending(w[2])
    BY DEF Expected, Served, IInv, Types, Addition
  <2>3. Pending(w[2]) => Pending(w[2])'
    BY <2>1, <2>2 DEF Pending, Asked, Answered
  <2> QED
    BY <2>2, <2>3
<1>3. CASE \E name \in Names : create(name)
  BY <1>1, <1>3 DEF create
<1>4. CASE UNCHANGED vars
  BY <1>1, <1>4 DEF vars
<1>5. CASE \/ \E g \in GroupAddresses : delete(g)
           \/ \E g \in GroupAddresses, m \in Member : remove_member(g, m)
  BY <1>5, ExpectedTell
<1>6. CASE \E c \in Controllers, a \in Addition : add(c, a)
  BY <1>6, ExpectedAdd
<1>7. CASE \E d \in Devices : table_add(d) \/ table_remove(d)
  BY <1>7, ExpectedTable
<1>8. CASE \E d \in Devices : added(d)
  BY <1>8, ExpectedAdded
<1>9. CASE \E d \in Devices : disconnect(d)
  BY <1>2, <1>9
<1> QED
  BY <1>3, <1>4, <1>5, <1>6, <1>7, <1>8, <1>9 DEF Next

\* The controller that asked last for an addition, and waits, has one under way.
THEOREM NobodyIsForgotten == Spec => []NobodyForgotten
<1>1. Init => Expected
  BY DEF Init, Expected
<1>2. Expected => NobodyForgotten
  BY DEF Expected, Served, NobodyForgotten
<1>3. IInv /\ Expected /\ [Next]_vars => Expected'
  BY ExpectedStep
<1> QED
  BY <1>1, <1>2, <1>3, Inductive, PTL DEF Spec

-----------------------------------------------------------------------------
(* Counting.  What is under way to and from a device, and the places of a  *)
(* list, are the positions of a sequence that hold one of a set of values. *)

In(q, M) == {i \in DOMAIN q : q[i] \in M}
Count(q, M) == Cardinality(In(q, M))
One(e, M) == IF e \in M THEN 1 ELSE 0

LEMMA CountType ==
  ASSUME NEW S, NEW q \in Seq(S), NEW M
  PROVE  /\ IsFiniteSet(In(q, M)) /\ Count(q, M) \in Nat
         /\ In(q, M) \subseteq 1..Len(q) /\ Len(q) \in Nat /\ DOMAIN q = 1..Len(q)
<1>1. Len(q) \in Nat /\ DOMAIN q = 1..Len(q)
  BY LenProperties
<1>2. In(q, M) \in SUBSET (1..Len(q))
  BY <1>1 DEF In
<1>3. IsFiniteSet(1..Len(q))
  BY <1>1, FS_Interval
<1>4. IsFiniteSet(In(q, M))
  BY <1>2, <1>3, FS_Subset
<1> QED
  BY <1>1, <1>2, <1>4, FS_CardinalityType DEF Count

\* An injection cannot lead into a smaller set.
LEMMA Fits ==
  ASSUME NEW S, NEW T, IsFiniteSet(T), NEW f \in [S -> T],
         \A a, b \in S : f[a] = f[b] => a = b
  PROVE  /\ IsFiniteSet(S) /\ Cardinality(S) \in Nat /\ Cardinality(T) \in Nat
         /\ Cardinality(S) <= Cardinality(T)
<1>1. f \in Injection(S, T)
  BY Zenon DEF Injection, IsInjective
<1>2. IsFiniteSet(S) /\ Cardinality(S) <= Cardinality(T)
  BY <1>1, FS_Injection
<1> QED
  BY <1>2, FS_CardinalityType

LEMMA CountNone ==
  ASSUME NEW M
  PROVE  Count(<<>>, M) = 0
<1>1. DOMAIN <<>> = {}
  BY EmptySeq
<1>2. In(<<>>, M) = {}
  BY <1>1 DEF In
<1> QED
  BY <1>2, FS_EmptySet DEF Count

LEMMA CountAppend ==
  ASSUME NEW S, NEW q \in Seq(S), NEW e \in S, NEW M
  PROVE  Count(Append(q, e), M) = Count(q, M) + One(e, M)
<1> DEFINE more == Append(q, e)
<1>1. /\ more \in Seq(S) /\ Len(more) = Len(q) + 1
      /\ \A i \in 1..Len(q) : more[i] = q[i]
      /\ more[Len(q) + 1] = e
  BY AppendProperties
<1>2. IsFiniteSet(In(q, M)) /\ DOMAIN q = 1..Len(q) /\ Len(q) \in Nat /\ Count(q, M) \in Nat
  BY CountType
<1>3. DOMAIN more = 1..Len(q) + 1
  BY <1>1, LenProperties
<1> HIDE DEF more
<1>4. CASE e \in M
  <2>1. In(more, M) = In(q, M) \cup {Len(q) + 1} /\ Len(q) + 1 \notin In(q, M)
    BY <1>1, <1>2, <1>3, <1>4 DEF In
  <2>2. Cardinality(In(more, M)) = Cardinality(In(q, M)) + 1
    BY <1>2, <2>1, FS_AddElement
  <2> QED
    BY <1>4, <2>2 DEF Count, One, more
<1>5. CASE e \notin M
  <2>1. In(more, M) = In(q, M)
    BY <1>1, <1>2, <1>3, <1>5 DEF In
  <2> QED
    BY <1>2, <1>5, <2>1 DEF Count, One, more
<1> QED
  BY <1>4, <1>5

\* What is put behind, and is not counted.
LEMMA CountConcat ==
  ASSUME NEW S, NEW q \in Seq(S), NEW t \in Seq(S), NEW M,
         \A i \in DOMAIN t : t[i] \notin M
  PROVE  In(q \o t, M) = In(q, M)
<1> DEFINE more == q \o t
<1>1. /\ more \in Seq(S) /\ Len(more) = Len(q) + Len(t)
      /\ \A i \in 1..Len(q) + Len(t) : more[i] = IF i <= Len(q) THEN q[i] ELSE t[i - Len(q)]
  BY ConcatProperties
<1>2. /\ DOMAIN q = 1..Len(q) /\ Len(q) \in Nat /\ DOMAIN t = 1..Len(t) /\ Len(t) \in Nat
      /\ DOMAIN more = 1..Len(q) + Len(t)
  BY <1>1, LenProperties
<1> HIDE DEF more
<1>3. ASSUME NEW i \in DOMAIN more, i > Len(q) PROVE more[i] \notin M
  <2>1. i - Len(q) \in DOMAIN t /\ more[i] = t[i - Len(q)]
    BY <1>1, <1>2, <1>3
  <2> QED
    BY <2>1
<1>4. \A i \in DOMAIN q : i \in DOMAIN more /\ more[i] = q[i]
  BY <1>1, <1>2
<1>5. \A i \in DOMAIN more : i > Len(q) \/ i \in DOMAIN q
  BY <1>2
<1>6. In(more, M) = In(q, M)
  BY <1>3, <1>4, <1>5 DEF In
<1> QED
  BY <1>6 DEF more

\* A sequence without its k-th element.
LEMMA CountLess ==
  ASSUME NEW S, NEW q \in Seq(S), NEW fewer \in Seq(S), NEW k \in 1..Len(q), NEW M,
         Len(fewer) = Len(q) - 1,
         \A i \in 1..Len(q) - 1 : fewer[i] = IF i < k THEN q[i] ELSE q[i + 1]
  PROVE  Count(q, M) = Count(fewer, M) + One(q[k], M)
<1> DEFINE A == In(q, M) \ {k}
           B == In(fewer, M)
<1>1. /\ IsFiniteSet(In(q, M)) /\ DOMAIN q = 1..Len(q) /\ Len(q) \in Nat
      /\ IsFiniteSet(B) /\ DOMAIN fewer = 1..Len(q) - 1
  BY CountType
<1>2. IsFiniteSet(A) /\ Cardinality(A) = Cardinality(In(q, M)) - One(q[k], M)
  <2>1. k \in In(q, M) <=> q[k] \in M
    BY <1>1 DEF In
  <2>2. Cardinality(In(q, M)) \in Nat
    BY <1>1, FS_CardinalityType
  <2>3. IsFiniteSet(A) /\ Cardinality(A) = IF k \in In(q, M) THEN Cardinality(In(q, M)) - 1
                                                         ELSE Cardinality(In(q, M))
    BY <1>1, FS_RemoveElement
  <2> HIDE DEF A
  <2> QED
    BY <2>1, <2>2, <2>3 DEF One
<1>3. Cardinality(A) <= Cardinality(B)
  <2> DEFINE f == [i \in A |-> IF i < k THEN i ELSE i - 1]
  <2>1. ASSUME NEW i \in A PROVE f[i] \in B
    <3>1. i \in 1..Len(q) /\ q[i] \in M /\ i # k
      BY <1>1 DEF In
    <3>2. CASE i < k
      <4>1. i \in 1..Len(q) - 1 /\ fewer[i] = q[i]
        BY <1>1, <3>1, <3>2
      <4> QED
        BY <1>1, <3>1, <3>2, <4>1 DEF In
    <3>3. CASE i > k
      <4>1. i - 1 \in 1..Len(q) - 1 /\ ~(i - 1 < k) /\ (i - 1) + 1 = i
        BY <1>1, <3>1, <3>3
      <4>2. fewer[i - 1] = q[i] /\ f[i] = i - 1
        BY <3>1, <3>3, <4>1
      <4> HIDE DEF f
      <4> QED
        BY <1>1, <3>1, <4>1, <4>2 DEF In
    <3> QED
      BY <1>1, <3>1, <3>2, <3>3
  <2>2. \A i, j \in A : f[i] = f[j] => i = j
    BY <1>1 DEF In
  <2>3. f \in [A -> B]
    BY <2>1
  <2> HIDE DEF f, A, B
  <2> QED
    BY <1>1, <2>2, <2>3, Fits
<1>4. Cardinality(B) <= Cardinality(A)
  <2> DEFINE f == [i \in B |-> IF i < k THEN i ELSE i + 1]
  <2>1. ASSUME NEW i \in B PROVE f[i] \in A
    <3>1. i \in 1..Len(q) - 1 /\ fewer[i] \in M
      BY <1>1 DEF In
    <3>2. CASE i < k
      BY <1>1, <3>1, <3>2 DEF In
    <3>3. CASE ~(i < k)
      BY <1>1, <3>1, <3>3 DEF In
    <3> QED
      BY <3>2, <3>3
  <2>2. \A i, j \in B : f[i] = f[j] => i = j
    BY <1>1 DEF In
  <2>3. f \in [B -> A]
    BY <2>1
  <2> HIDE DEF f, A, B
  <2> QED
    BY <1>2, <2>2, <2>3, Fits
<1>5. Cardinality(A) \in Nat /\ Cardinality(B) \in Nat /\ Cardinality(In(q, M)) \in Nat
  BY <1>1, <1>2, FS_CardinalityType
<1>6. One(q[k], M) \in Nat
  BY DEF One
<1> HIDE DEF A
<1> QED
  BY <1>2, <1>3, <1>4, <1>5, <1>6 DEF Count

LEMMA CountTail ==
  ASSUME NEW S, NEW q \in Seq(S), q # <<>>, NEW M
  PROVE  Count(q, M) = Count(Tail(q), M) + One(Head(q), M)
<1>1. Len(q) \in Nat /\ DOMAIN q = 1..Len(q) /\ Len(q) # 0
  BY LenProperties, EmptySeq
<1>2. /\ Head(q) = q[1] /\ Tail(q) \in Seq(S) /\ Len(Tail(q)) = Len(q) - 1
      /\ \A i \in 1..Len(Tail(q)) : Tail(q)[i] = q[i + 1]
  BY HeadTailProperties
<1> DEFINE fewer == Tail(q)
<1> HIDE DEF fewer
<1>3. /\ fewer \in Seq(S) /\ Len(fewer) = Len(q) - 1
      /\ \A i \in 1..Len(q) - 1 : fewer[i] = IF i < 1 THEN q[i] ELSE q[i + 1]
  BY <1>1, <1>2 DEF fewer
<1>4. Count(q, M) = Count(fewer, M) + One(q[1], M)
  BY <1>1, <1>3, CountLess
<1> QED
  BY <1>2, <1>4 DEF fewer

\* One element is replaced by one that is not counted.
LEMMA CountExcept ==
  ASSUME NEW S, NEW q \in Seq(S), NEW k \in DOMAIN q, NEW e \in S, NEW M, q[k] \in M, e \notin M
  PROVE  Count(q, M) = Count([q EXCEPT ![k] = e], M) + 1
<1> DEFINE less == [q EXCEPT ![k] = e]
<1>1. IsFiniteSet(In(q, M)) /\ k \in In(q, M) /\ Count(q, M) \in Nat
  BY CountType DEF In
<1>2. DOMAIN less = DOMAIN q /\ less[k] = e /\ \A i \in DOMAIN q \ {k} : less[i] = q[i]
  BY LenProperties
<1> HIDE DEF less
<1>3. In(less, M) = In(q, M) \ {k}
  BY <1>2 DEF In
<1>4. Cardinality(In(less, M)) = Cardinality(In(q, M)) - 1
  BY <1>1, <1>3, FS_RemoveElement
<1> QED
  BY <1>1, <1>4 DEF Count, less


Tag(link, d, S) == {<<link, d, i>> : i \in S}

LEMMA Tagged ==
  ASSUME NEW S, IsFiniteSet(S), NEW link, NEW d
  PROVE  IsFiniteSet(Tag(link, d, S)) /\ Cardinality(Tag(link, d, S)) = Cardinality(S)
<1> DEFINE T == Tag(link, d, S)
           f == [i \in S |-> <<link, d, i>>]
<1>1. f \in [S -> T] /\ (\A i, j \in S : f[i] = f[j] => i = j) /\ (\A t \in T : \E i \in S : f[i] = t)
  BY DEF Tag
<1> HIDE DEF f, T
<1>2. f \in Bijection(S, T)
  BY <1>1 DEF Bijection, Injection, Surjection, IsInjective
<1>3. IsFiniteSet(T) /\ Cardinality(T) = Cardinality(S)
  BY <1>2, FS_Bijection DEF ExistsBijection
<1> QED
  BY <1>3 DEF T

-----------------------------------------------------------------------------
(* The additions of a group under way, and a device's share of them.       *)

Adds(g) == {m \in Request : m.cmd = "ADD" /\ m.group = g}
Answers(g) == {m \in Answer : m.group = g}

Share(dn, u, g, d) ==
  Tag("down", d, In(dn[d], Adds(g))) \cup Tag("up", d, In(u[d], Answers(g)))

Ways(dn, u, g, ds) == UNION {Share(dn, u, g, d) : d \in ds}

Links(dn, u) == dn \in [Devices -> Seq(Request)] /\ u \in [Devices -> Seq(Answer)]

Open(dn, u, g) == Cardinality(Ways(dn, u, g, Devices))

LEMMA ShareCounted ==
  ASSUME NEW dn, NEW u, Links(dn, u), NEW g, NEW d \in Devices
  PROVE  /\ IsFiniteSet(Share(dn, u, g, d))
         /\ Cardinality(Share(dn, u, g, d)) = Count(dn[d], Adds(g)) + Count(u[d], Answers(g))
<1> DEFINE A == In(dn[d], Adds(g))
           B == In(u[d], Answers(g))
           TA == Tag("down", d, A)
           TB == Tag("up", d, B)
<1>1. dn[d] \in Seq(Request) /\ u[d] \in Seq(Answer)
  BY DEF Links
<1>2. IsFiniteSet(A) /\ IsFiniteSet(B)
  BY <1>1, CountType
<1> HIDE DEF A, B
<1>3. IsFiniteSet(TA) /\ Cardinality(TA) = Cardinality(A)
  BY <1>2, Tagged
<1>4. IsFiniteSet(TB) /\ Cardinality(TB) = Cardinality(B)
  BY <1>2, Tagged
<1>5. TA \cap TB = {}
  BY DEF Tag
<1>6. Share(dn, u, g, d) = TA \cup TB
  BY DEF Share, A, B
<1> HIDE DEF TA, TB
<1>7. /\ IsFiniteSet(TA \cup TB)
      /\ Cardinality(TA \cup TB) = Cardinality(TA) + Cardinality(TB) - Cardinality(TA \cap TB)
  BY <1>3, <1>4, FS_Union
<1>8. Cardinality(TA \cap TB) = 0 /\ Cardinality(TA) \in Nat /\ Cardinality(TB) \in Nat
  BY <1>3, <1>4, <1>5, FS_EmptySet, FS_CardinalityType
<1> QED
  BY <1>3, <1>4, <1>6, <1>7, <1>8 DEF Count, A, B

LEMMA WaysFinite ==
  ASSUME NEW dn, NEW u, Links(dn, u), NEW g, NEW ds \in SUBSET Devices
  PROVE  IsFiniteSet(Ways(dn, u, g, ds)) /\ Cardinality(Ways(dn, u, g, ds)) \in Nat
<1> DEFINE share == [d \in ds |-> Share(dn, u, g, d)]
           all == {Share(dn, u, g, d) : d \in ds}
<1>1. IsFiniteSet(ds)
  BY DevicesAssumption, FS_Subset
<1>2. share \in Surjection(ds, all)
  BY DEF Surjection
<1>3. \A T \in all : IsFiniteSet(T)
  BY ShareCounted
<1> HIDE DEF share, all
<1>4. IsFiniteSet(all)
  BY <1>1, <1>2, FS_Surjection
<1>5. IsFiniteSet(UNION all)
  BY <1>3, <1>4, FS_UNION
<1> QED
  BY <1>5, FS_CardinalityType DEF Ways, all

\* What is under way is what is on the links of one device and of the rest.
LEMMA Split ==
  ASSUME NEW dn, NEW u, Links(dn, u), NEW g, NEW d \in Devices
  PROVE  /\ Open(dn, u, g) = Cardinality(Ways(dn, u, g, Devices \ {d}))
                             + (Count(dn[d], Adds(g)) + Count(u[d], Answers(g)))
         /\ Open(dn, u, g) \in Nat /\ Cardinality(Ways(dn, u, g, Devices \ {d})) \in Nat
         /\ Count(dn[d], Adds(g)) \in Nat /\ Count(u[d], Answers(g)) \in Nat
<1> DEFINE rest == Ways(dn, u, g, Devices \ {d})
           mine == Share(dn, u, g, d)
<1>1. IsFiniteSet(rest) /\ Cardinality(rest) \in Nat
  BY WaysFinite
<1>2. IsFiniteSet(mine) /\ Cardinality(mine) = Count(dn[d], Adds(g)) + Count(u[d], Answers(g))
  BY ShareCounted
<1>3. Ways(dn, u, g, Devices) = rest \cup mine
  BY DEF Ways
<1>4. rest \cap mine = {}
  <2> SUFFICES ASSUME NEW x, x \in rest, x \in mine PROVE FALSE
    OBVIOUS
  <2>1. x[2] = d
    BY DEF Share, Tag
  <2>2. PICK e \in Devices \ {d} : x \in Share(dn, u, g, e)
    BY DEF Ways
  <2>3. x[2] = e
    BY <2>2 DEF Share, Tag
  <2> QED
    BY <2>1, <2>2, <2>3
<1> HIDE DEF rest, mine
<1>5. Cardinality(rest \cup mine) = Cardinality(rest) + Cardinality(mine) - Cardinality(rest \cap mine)
  BY <1>1, <1>2, FS_Union
<1>6. Cardinality(rest \cap mine) = 0 /\ Cardinality(mine) \in Nat
  BY <1>2, <1>4, FS_EmptySet, FS_CardinalityType
<1>7. dn[d] \in Seq(Request) /\ u[d] \in Seq(Answer)
  BY DEF Links
<1>8. Count(dn[d], Adds(g)) \in Nat /\ Count(u[d], Answers(g)) \in Nat
  BY <1>7, CountType
<1>9. Open(dn, u, g) = Cardinality(rest) + Cardinality(mine)
  BY <1>1, <1>3, <1>5, <1>6 DEF Open
<1>10. Open(dn, u, g) \in Nat
  BY <1>1, <1>6, <1>9
<1> QED
  BY <1>1, <1>2, <1>8, <1>9, <1>10 DEF rest, mine

\* Only the links of d change.
LEMMA OneDevice ==
  ASSUME NEW dn, NEW u, Links(dn, u), NEW dn2, NEW u2, Links(dn2, u2), NEW g, NEW d \in Devices,
         \A e \in Devices \ {d} : dn2[e] = dn[e] /\ u2[e] = u[e]
  PROVE  Open(dn2, u2, g) = Open(dn, u, g)
           + ((Count(dn2[d], Adds(g)) - Count(dn[d], Adds(g)))
              + (Count(u2[d], Answers(g)) - Count(u[d], Answers(g))))
<1>1. \A e \in Devices \ {d} : Share(dn2, u2, g, e) = Share(dn, u, g, e)
  BY DEF Share
<1>2. Ways(dn2, u2, g, Devices \ {d}) = Ways(dn, u, g, Devices \ {d})
  BY <1>1 DEF Ways
<1> QED
  BY <1>2, Split

\* The counts of the links decide, wherever the messages are.
LEMMA SameCounts ==
  ASSUME NEW dn, NEW u, NEW dn2, NEW g,
         \A d \in Devices : In(dn2[d], Adds(g)) = In(dn[d], Adds(g))
  PROVE  Open(dn2, u, g) = Open(dn, u, g)
BY DEF Open, Ways, Share

\* In the terms of the model.
LEMMA OpenIsUnderWay ==
  ASSUME Types, NEW g
  PROVE  /\ Links(down, up) /\ Cardinality(UnderWay(g)) = Open(down, up, g)
         /\ \A d \in Devices : /\ Asked(d, g) = In(down[d], Adds(g))
                               /\ Answered(d, g) = In(up[d], Answers(g))
<1>1. Links(down, up)
  BY DEF Types, Links
<1>2. \A d \in Devices : Asked(d, g) = In(down[d], Adds(g)) /\ Answered(d, g) = In(up[d], Answers(g))
  BY Positions DEF Asked, Answered, In, Adds, Answers
<1>3. UnderWay(g) = Ways(down, up, g, Devices)
  BY <1>2, Zenon DEF UnderWay, Ways, Share, Tag
<1> QED
  BY <1>1, <1>2, <1>3 DEF Open

-----------------------------------------------------------------------------
(* The reserved places of a list.                                          *)

Held(members) == Count(members, {Reserved})

\* One less, if there is one.
Less(before, after) == \/ before = 0 /\ after = 0
                       \/ before > 0 /\ after = before - 1

LEMMA ExistsCounted ==
  ASSUME NEW members \in Seq(Place)
  PROVE  Held(members) \in Nat /\ (exists(members, Reserved) <=> Held(members) # 0)
<1> DEFINE held == In(members, {Reserved})
<1>1. Places(members, Reserved) = held
  BY DEF Places, In
<1>2. IsFiniteSet(held) /\ Held(members) \in Nat /\ Held(members) = Cardinality(held)
  BY CountType DEF Count, Held
<1> HIDE DEF held
<1>3. held = {} <=> Held(members) = 0
  BY <1>2, FS_EmptySet
<1>4. exists(members, Reserved) <=> held # {}
  BY <1>1 DEF exists
<1> QED
  BY <1>2, <1>3, <1>4

LEMMA HeldRemoved ==
  ASSUME NEW members \in Seq(Place), NEW m
  PROVE  /\ remove(members, m) \in Seq(Place) /\ Held(members) \in Nat
         /\ m # Reserved => Held(remove(members, m)) = Held(members)
         /\ m = Reserved => Less(Held(members), Held(remove(members, m)))
<1>1. Held(members) \in Nat
  BY CountType DEF Held
<1>2. CASE ~exists(members, m)
  <2>1. m = Reserved => Held(members) = 0
    BY <1>1, <1>2, ExistsCounted
  <2> QED
    BY <1>1, <1>2, <2>1 DEF remove, Less
<1>3. CASE exists(members, m)
  <2> DEFINE k == first(members, m)
             fewer == remove(members, m)
  <2>1. /\ k \in 1..Len(members) /\ members[k] = m
        /\ fewer \in Seq(Place) /\ Len(fewer) = Len(members) - 1
        /\ \A i \in 1..Len(members) - 1 :
             fewer[i] = IF i < k THEN members[i] ELSE members[i + 1]
    BY <1>3, Removed
  <2> HIDE DEF k, fewer
  <2>2. Count(members, {Reserved}) = Count(fewer, {Reserved}) + One(members[k], {Reserved})
    BY <2>1, CountLess
  <2>3. Count(fewer, {Reserved}) \in Nat
    BY <2>1, CountType
  <2>4. CASE m = Reserved
    <3>1. One(members[k], {Reserved}) = 1
      BY <2>1, <2>4 DEF One
    <3>2. Held(members) = Held(fewer) + 1 /\ Held(fewer) \in Nat
      BY <2>2, <2>3, <3>1 DEF Held
    <3> QED
      BY <1>1, <2>1, <2>4, <3>2 DEF Less, fewer
  <2>5. CASE m # Reserved
    <3>1. One(members[k], {Reserved}) = 0
      BY <2>1, <2>5 DEF One
    <3>2. Held(members) = Held(fewer)
      BY <2>2, <2>3, <3>1 DEF Held
    <3> QED
      BY <1>1, <2>1, <2>5, <3>2 DEF fewer
  <2> QED
    BY <2>4, <2>5
<1> QED
  BY <1>2, <1>3

LEMMA HeldReserved ==
  ASSUME NEW members \in Seq(Place)
  PROVE  /\ reserve(members) \in Seq(Place)
         /\ Held(reserve(members)) = Held(members) + (IF room(members) THEN 1 ELSE 0)
<1>1. Reserved \in Place /\ Held(members) \in Nat
  BY CountType DEF Place, Held
<1>2. CASE room(members)
  <2>1. Append(members, Reserved) \in Seq(Place)
    BY <1>1, AppendProperties
  <2>2. Count(Append(members, Reserved), {Reserved}) = Count(members, {Reserved}) + One(Reserved, {Reserved})
    BY <1>1, CountAppend
  <2>3. One(Reserved, {Reserved}) = 1
    BY DEF One
  <2> QED
    BY <1>2, <2>1, <2>2, <2>3 DEF reserve, Held
<1>3. CASE ~room(members)
  BY <1>1, <1>3 DEF reserve
<1> QED
  BY <1>2, <1>3

LEMMA HeldUpdated ==
  ASSUME NEW members \in Seq(Place), NEW m \in Member
  PROVE  Less(Held(members), Held(update(members, m)))
<1>1. Held(members) \in Nat
  BY CountType DEF Held
<1>2. CASE ~exists(members, Reserved)
  BY <1>1, <1>2, ExistsCounted DEF update, Less
<1>3. CASE exists(members, Reserved)
  <2> DEFINE k == first(members, Reserved)
  <2>1. k \in DOMAIN members /\ members[k] = Reserved
    BY <1>3, FirstIsAPlace
  <2> HIDE DEF k
  <2>2. m \in Place /\ m \notin {Reserved} /\ members[k] \in {Reserved}
    BY <2>1, ReservedIsNoMember DEF Place
  <2>3. Count(members, {Reserved}) = Count([members EXCEPT ![k] = m], {Reserved}) + 1
    BY <2>1, <2>2, CountExcept
  <2>4. [members EXCEPT ![k] = m] \in Seq(Place)
    <3>1. DOMAIN members = 1..Len(members)
      BY LenProperties
    <3> QED
      BY <2>1, <2>2, <3>1, ExceptSeq
  <2>5. Count([members EXCEPT ![k] = m], {Reserved}) \in Nat
    BY <2>4, CountType
  <2>6. update(members, m) = [members EXCEPT ![k] = m]
    BY <1>3 DEF update, k
  <2> HIDE DEF Count
  <2> QED
    BY <1>1, <2>3, <2>5, <2>6 DEF Held, Less
<1> QED
  BY <1>2, <1>3

-----------------------------------------------------------------------------
(* The types and limits, which hold however additions overlap.             *)

\* The lists of members stay lists, within the limit.
LEMMA WithinLimit ==
  ASSUME NEW members \in Seq(Place), Len(members) <= MaxMembers, NEW m
  PROVE  /\ reserve(members) \in Seq(Place) /\ Len(reserve(members)) <= MaxMembers
         /\ remove(members, m) \in Seq(Place) /\ Len(remove(members, m)) <= MaxMembers
         /\ m \in Member => /\ update(members, m) \in Seq(Place)
                             /\ Len(update(members, m)) <= MaxMembers
<1>1. Len(members) \in Nat /\ DOMAIN members = 1..Len(members)
  BY LenProperties
<1>2. reserve(members) \in Seq(Place) /\ Len(reserve(members)) <= MaxMembers
  <2>1. CASE ~room(members)
    BY <2>1 DEF reserve
  <2>2. CASE room(members)
    <3>1. Append(members, Reserved) \in Seq(Place) /\ Len(Append(members, Reserved)) = Len(members) + 1
      BY AppendProperties DEF Place
    <3>2. Len(members) + 1 <= MaxMembers
      BY <1>1, <2>2, LimitsAssumption DEF room
    <3> QED
      BY <2>2, <3>1, <3>2 DEF reserve
  <2> QED
    BY <2>1, <2>2
<1>3. remove(members, m) \in Seq(Place) /\ Len(remove(members, m)) <= MaxMembers
  <2>1. CASE ~exists(members, m)
    BY <2>1 DEF remove
  <2>2. CASE exists(members, m)
    <3>1. remove(members, m) \in Seq(Place) /\ Len(remove(members, m)) = Len(members) - 1
      BY <2>2, Removed
    <3>2. Len(members) - 1 <= MaxMembers
      BY <1>1, LimitsAssumption
    <3> QED
      BY <3>1, <3>2
  <2> QED
    BY <2>1, <2>2
<1>4. ASSUME m \in Member
      PROVE  update(members, m) \in Seq(Place) /\ Len(update(members, m)) <= MaxMembers
  <2>1. CASE ~exists(members, Reserved)
    BY <2>1 DEF update
  <2>2. CASE exists(members, Reserved)
    <3> DEFINE k == first(members, Reserved)
    <3>1. k \in 1..Len(members) /\ update(members, m) = [members EXCEPT ![k] = m]
      BY <1>1, <2>2, FirstIsAPlace DEF update
    <3>2. m \in Place
      BY <1>4 DEF Place
    <3> HIDE DEF k
    <3>3. /\ [members EXCEPT ![k] = m] \in Seq(Place)
          /\ Len([members EXCEPT ![k] = m]) = Len(members)
      BY <3>1, <3>2, ExceptSeq
    <3> QED
      BY <3>1, <3>3
  <2> QED
    BY <2>1, <2>2
<1> QED
  BY <1>2, <1>3, <1>4

Limits == \A g \in DOMAIN groups : Len(groups[g].members) <= MaxMembers

\* The groups of the server keep to their types and limits.
GroupsOK ==
  /\ groups' \in [DOMAIN groups' -> Group] /\ DOMAIN groups' \subseteq GroupAddresses
  /\ Limits'

LEMMA OneGroupOK ==
  ASSUME Types, Limits, NEW g \in DOMAIN groups, NEW list \in Seq(Place), Len(list) <= MaxMembers,
         groups' = [groups EXCEPT ![g].members = list]
  PROVE  GroupsOK
<1>1. groups[g] \in Group /\ groups \in [DOMAIN groups -> Group]
  BY DEF Types
<1>2. DOMAIN groups' = DOMAIN groups /\ groups'[g] = [groups[g] EXCEPT !.members = list]
  BY <1>1
<1>3. \A h \in DOMAIN groups \ {g} : groups'[h] = groups[h]
  BY <1>1
<1>4. groups'[g] \in Group /\ groups'[g].members = list
  BY <1>1, <1>2 DEF Group, Place
<1>5. groups' \in [DOMAIN groups' -> Group]
  BY <1>1, <1>2, <1>3, <1>4
<1>6. Limits'
  BY <1>2, <1>3, <1>4 DEF Limits
<1> QED
  BY <1>2, <1>5, <1>6 DEF GroupsOK, Types

LEMMA SameGroupsOK == ASSUME Types, Limits, groups' = groups PROVE GroupsOK
BY DEF GroupsOK, Types, Limits

LEMMA ListOf ==
  ASSUME Types, Limits, NEW g \in DOMAIN groups
  PROVE  groups[g].members \in Seq(Place) /\ Len(groups[g].members) <= MaxMembers
BY MembersType DEF Limits

\* What is put on and taken off a link.
LEMMA LinkTypes ==
  ASSUME NEW S, NEW links \in [Devices -> Seq(S)], NEW d \in Devices
  PROVE  /\ \A e \in S : [links EXCEPT ![d] = Append(@, e)] \in [Devices -> Seq(S)]
         /\ [links EXCEPT ![d] = <<>>] \in [Devices -> Seq(S)]
         /\ links[d] # <<>> => [links EXCEPT ![d] = Tail(@)] \in [Devices -> Seq(S)]
<1>1. links[d] \in Seq(S)
  OBVIOUS
<1>2. \A s \in Seq(S) : [links EXCEPT ![d] = s] \in [Devices -> Seq(S)]
  OBVIOUS
<1>3. \A e \in S : Append(links[d], e) \in Seq(S)
  BY <1>1, AppendProperties
<1>4. <<>> \in Seq(S)
  BY EmptySeq
<1>5. links[d] # <<>> => Tail(links[d]) \in Seq(S)
  BY <1>1, HeadTailProperties
<1> QED
  BY <1>2, <1>3, <1>4, <1>5

\* What the histories speak of.
Histories == raced \subseteq GroupAddresses \X Member /\ cut \subseteq GroupAddresses \X Devices

LEMMA HistoriesStep == ASSUME Types, [Next]_vars PROVE Histories'
<1>1. ASSUME NEW c \in Controllers, NEW a \in Addition, add(c, a) PROVE Histories'
  <2>1. <<a.group, <<a.device, a.unit>>>> \in GroupAddresses \X Member
    BY DEF Addition, Member
  <2>2. cut' = cut /\ raced' \in {raced, raced \cup {<<a.group, <<a.device, a.unit>>>>},
                                  raced \ {<<a.group, <<a.device, a.unit>>>>}}
    BY <1>1 DEF add
  <2> QED
    BY <2>1, <2>2 DEF Histories, Types
<1>2. ASSUME NEW g \in GroupAddresses, NEW m \in Member, remove_member(g, m) PROVE Histories'
  <2>1. <<g, m[1]>> \in GroupAddresses \X Devices
    BY DEF Member
  <2>2. raced' = raced /\ cut' \in {cut \ {<<g, m[1]>>}, cut \cup {<<g, m[1]>>}}
    BY <1>2 DEF remove_member
  <2> QED
    BY <2>1, <2>2 DEF Histories, Types
<1>3. ASSUME raced' = raced, cut' \subseteq cut PROVE Histories'
  BY <1>3 DEF Histories, Types
<1>4. CASE \E name \in Names : create(name)
  BY <1>3, <1>4 DEF create
<1>5. CASE \E g \in GroupAddresses : delete(g)
  <2>1. raced' = raced /\ cut' \subseteq cut
    BY <1>5 DEF delete
  <2> QED
    BY <1>3, <2>1
<1>6. CASE \E d \in Devices : table_add(d) \/ table_remove(d)
  BY <1>3, <1>6 DEF table_add, table_remove
<1>7. CASE \E d \in Devices : added(d)
  <2>1. raced' = raced /\ cut' \subseteq cut
    BY <1>7 DEF added
  <2> QED
    BY <1>3, <2>1
<1>8. CASE \E d \in Devices : disconnect(d)
  BY <1>3, <1>8 DEF disconnect
<1>9. CASE UNCHANGED vars
  BY <1>3, <1>9 DEF vars
<1> QED
  BY <1>1, <1>2, <1>4, <1>5, <1>6, <1>7, <1>8, <1>9 DEF Next

LEMMA CreateTypes ==
  ASSUME Types, Limits, NEW name \in Names, create(name)
  PROVE  GroupsOK
<1> DEFINE n == next_address
           free == GroupAddresses \ DOMAIN groups
<1>1. n \in GroupAddresses \ DOMAIN groups
  <2>1. free \subseteq Nat
    BY DEF GroupAddresses
  <2>2. n # NO_ADDR
    BY DEF create
  <2>3. free # {} /\ n = CHOOSE g \in free : \A h \in free : g <= h
    BY <2>2 DEF next_address
  <2> QED
    BY <2>1, <2>3, Minimum
<1> HIDE DEF n
<1>2. groups' = [g \in DOMAIN groups \cup {n} |->
                  IF g = n THEN [name |-> name, members |-> <<>>] ELSE groups[g]]
  BY DEF create, n
<1>3. DOMAIN groups' = DOMAIN groups \cup {n}
  BY <1>2
<1>4. groups'[n] = [name |-> name, members |-> <<>>] /\ \A g \in DOMAIN groups : groups'[g] = groups[g]
  BY <1>1, <1>2
<1>5. <<>> \in Seq(Member \cup {Reserved}) /\ Len(<<>>) = 0
  BY EmptySeq
<1>6. groups'[n] \in Group /\ groups'[n].members = <<>>
  BY <1>4, <1>5 DEF Group
<1>7. groups' \in [DOMAIN groups' -> Group]
  <2>1. \A g \in DOMAIN groups' : groups'[g] \in Group
    BY <1>3, <1>4, <1>6 DEF Types
  <2> QED
    BY <1>2, <1>3, <2>1
<1>8. Limits'
  <2> SUFFICES ASSUME NEW g \in DOMAIN groups' PROVE Len(groups'[g].members) <= MaxMembers
    BY DEF Limits
  <2>1. CASE g = n
    BY <1>5, <1>6, <2>1, LimitsAssumption
  <2>2. CASE g # n
    BY <1>3, <1>4, <2>2 DEF Limits
  <2> QED
    BY <2>1, <2>2
<1> QED
  BY <1>1, <1>3, <1>7, <1>8 DEF GroupsOK, Types

LEMMA DeleteTypes ==
  ASSUME Types, Limits, Histories', NEW g \in GroupAddresses, delete(g)
  PROVE  Types' /\ Limits'
<1>1. /\ groups' = [h \in DOMAIN groups \ {g} |-> groups[h]]
      /\ transport' = [transport EXCEPT ![g] = {}] /\ lost' = [lost EXCEPT ![g] = 0]
      /\ UNCHANGED <<requests, table, up, waiting>>
  BY DEF delete
<1>2. DOMAIN groups' = DOMAIN groups \ {g} /\ \A h \in DOMAIN groups' : groups'[h] = groups[h]
  BY <1>1
<1>3. groups' \in [DOMAIN groups' -> Group] /\ Limits'
  BY <1>1, <1>2 DEF Types, Limits
<1>4. \A d \in Devices : down'[d] \in Seq(Request)
  <2> SUFFICES ASSUME NEW d \in Devices PROVE down'[d] \in Seq(Request)
    OBVIOUS
  <2>1. \E t \in Seq(Request) : down'[d] = down[d] \o t
    BY DeleteTells
  <2>2. down[d] \in Seq(Request)
    BY DEF Types
  <2> QED
    BY <2>1, <2>2, ConcatProperties
<1>5. down' \in [Devices -> Seq(Request)]
  BY <1>4, DeleteTells
<1> QED
  BY <1>1, <1>2, <1>3, <1>5 DEF Histories, Types

LEMMA AddTypes ==
  ASSUME Types, Limits, Histories', NEW c \in Controllers, NEW a \in Addition, add(c, a)
  PROVE  Types' /\ Limits'
<1> DEFINE members == groups[a.group].members
           m == [cmd |-> "ADD", group |-> a.group, unit |-> a.unit]
           asked == [b \in DOMAIN requests \cup {a} |-> IF b = a THEN c ELSE requests[b]]
<1>1. a.group \in DOMAIN groups /\ UNCHANGED <<transport, table, up, lost>>
  BY DEF add
<1>2. members \in Seq(Place) /\ Len(members) <= MaxMembers
  BY <1>1, ListOf
<1>3. /\ reserve(members) \in Seq(Place) /\ Len(reserve(members)) <= MaxMembers
      /\ remove(reserve(members), Reserved) \in Seq(Place)
      /\ Len(remove(reserve(members), Reserved)) <= MaxMembers
  <2> HIDE DEF members
  <2> QED
    BY <1>2, WithinLimit
<1>4. \/ groups' = [groups EXCEPT ![a.group].members = reserve(members)]
      \/ groups' = [groups EXCEPT ![a.group].members = remove(reserve(members), Reserved)]
  BY DEF add
<1>5. GroupsOK
  <2> HIDE DEF members
  <2> QED
    BY <1>1, <1>3, <1>4, OneGroupOK
<1>6. \/ UNCHANGED <<requests, waiting, down>>
      \/ /\ requests' = asked /\ waiting' = waiting \cup {<<c, a>>}
         /\ down' = [down EXCEPT ![a.device] = Append(@, m)]
  BY DEF add, Send
<1>7. m \in Request /\ a.device \in Devices
  BY DEF Request, Addition
<1>8. [down EXCEPT ![a.device] = Append(@, m)] \in [Devices -> Seq(Request)]
  <2> HIDE DEF m
  <2> QED
    BY <1>7, LinkTypes DEF Types
<1>9. asked \in [DOMAIN asked -> Controllers] /\ DOMAIN asked \subseteq Addition
  BY DEF Types
<1>10. waiting \cup {<<c, a>>} \subseteq Controllers \X Addition
  BY DEF Types
<1> HIDE DEF m, asked
<1>11. /\ requests' \in [DOMAIN requests' -> Controllers] /\ DOMAIN requests' \subseteq Addition
       /\ waiting' \subseteq Controllers \X Addition
       /\ down' \in [Devices -> Seq(Request)]
  BY <1>6, <1>8, <1>9, <1>10 DEF Types
<1> QED
  BY <1>1, <1>5, <1>11 DEF Histories, Types, GroupsOK

LEMMA RemoveTypes ==
  ASSUME Types, Limits, Histories', NEW g \in GroupAddresses, NEW m \in Member, remove_member(g, m)
  PROVE  Types' /\ Limits'
<1> DEFINE members == groups[g].members
           req == [cmd |-> "REMOVE", group |-> g, unit |-> m[2]]
<1>1. /\ g \in DOMAIN groups /\ UNCHANGED <<requests, table, up, waiting, lost>>
      /\ groups' = [groups EXCEPT ![g].members = remove(members, m)]
      /\ transport' = [transport EXCEPT ![g] = @ \ {m[1]}]
      /\ down' = [down EXCEPT ![m[1]] = Append(@, req)]
  BY DEF remove_member, Send
<1>2. members \in Seq(Place) /\ Len(members) <= MaxMembers
  BY <1>1, ListOf
<1>3. GroupsOK
  <2> HIDE DEF members
  <2>1. remove(members, m) \in Seq(Place) /\ Len(remove(members, m)) <= MaxMembers
    BY <1>2, WithinLimit
  <2> QED
    BY <1>1, <2>1, OneGroupOK
<1>4. req \in Request /\ m[1] \in Devices
  BY DEF Member, Request
<1> HIDE DEF req
<1>5. down' \in [Devices -> Seq(Request)]
  BY <1>1, <1>4, LinkTypes DEF Types
<1>6. transport' \in [GroupAddresses -> SUBSET Devices]
  BY <1>1 DEF Types
<1> QED
  BY <1>1, <1>3, <1>5, <1>6 DEF Histories, Types, GroupsOK

LEMMA TableTypes ==
  ASSUME Types, Limits, Histories', NEW d \in Devices, table_add(d) \/ table_remove(d)
  PROVE  Types' /\ Limits'
<1> DEFINE req == Head(down[d])
<1>1. /\ UNCHANGED <<groups, requests, transport, waiting, lost>> /\ down[d] # <<>>
      /\ down' = [down EXCEPT ![d] = Tail(@)]
  BY DEF table_add, table_remove
<1>2. down[d] \in Seq(Request)
  BY DEF Types
<1>3. down' \in [Devices -> Seq(Request)] /\ req \in Request
  BY <1>1, <1>2, LinkTypes, Popped DEF Types
<1>4. \/ table' = [table EXCEPT ![d] = @ \cup {<<req.group, req.unit>>}]
      \/ table' = [table EXCEPT ![d] = @ \ {<<req.group, req.unit>>}]
      \/ table' = table
  BY DEF table_add, table_remove
<1>5. <<req.group, req.unit>> \in GroupAddresses \X Units
  BY <1>3 DEF Request
<1>6. table' \in [Devices -> SUBSET (GroupAddresses \X Units)]
  <2> DEFINE e == <<req.group, req.unit>>
  <2>1. /\ table[d] \cup {e} \in SUBSET (GroupAddresses \X Units)
        /\ table[d] \ {e} \in SUBSET (GroupAddresses \X Units)
    BY <1>5 DEF Types
  <2>2. table \in [Devices -> SUBSET (GroupAddresses \X Units)]
    BY DEF Types
  <2> HIDE DEF e
  <2>3. table' \in {table, [table EXCEPT ![d] = @ \cup {e}], [table EXCEPT ![d] = @ \ {e}]}
    BY <1>4 DEF e
  <2> QED
    BY <2>1, <2>2, <2>3
<1>7. up' \in [Devices -> Seq(Answer)]
  <2>1. CASE table_remove(d)
    BY <2>1 DEF table_remove, Types
  <2>2. CASE table_add(d)
    <3>1. PICK code \in {"OK", "FAIL_RESOURCES"} :
            up' = [up EXCEPT ![d] = Append(@, [code |-> code, group |-> req.group, unit |-> req.unit])]
      BY <2>2 DEF table_add
    <3> DEFINE ans == [code |-> code, group |-> req.group, unit |-> req.unit]
    <3>2. ans \in Answer
      BY <1>3 DEF Answer, Request
    <3> HIDE DEF ans
    <3>3. [up EXCEPT ![d] = Append(@, ans)] \in [Devices -> Seq(Answer)]
      BY <3>2, LinkTypes DEF Types
    <3> QED
      BY <3>1, <3>3 DEF ans
  <2> QED
    BY <2>1, <2>2
<1> QED
  BY <1>1, <1>3, <1>6, <1>7 DEF Histories, Types, Limits

LEMMA AddedTypes ==
  ASSUME Types, Limits, Histories', NEW d \in Devices, added(d)
  PROVE  Types' /\ Limits'
<1> DEFINE r == Head(up[d])
           g == r.group
           members == groups[g].members
           m == <<d, r.unit>>
<1>1. /\ UNCHANGED <<requests, table, down>> /\ up[d] # <<>> /\ up' = [up EXCEPT ![d] = Tail(@)]
      /\ waiting' \subseteq waiting
  BY DEF added
<1>2. up[d] \in Seq(Answer)
  BY DEF Types
<1>3. up' \in [Devices -> Seq(Answer)] /\ r \in Answer
  BY <1>1, <1>2, LinkTypes, Popped DEF Types
<1>4. m \in Member
  BY <1>3 DEF Answer, Member
<1>5. \/ groups' = groups
      \/ g \in DOMAIN groups /\ groups' = [groups EXCEPT ![g].members = remove(members, Reserved)]
      \/ g \in DOMAIN groups /\ groups' = [groups EXCEPT ![g].members = update(members, m)]
  BY DEF added
<1>6. ASSUME g \in DOMAIN groups
      PROVE  /\ remove(members, Reserved) \in Seq(Place)
             /\ Len(remove(members, Reserved)) <= MaxMembers
             /\ update(members, m) \in Seq(Place) /\ Len(update(members, m)) <= MaxMembers
  <2>1. members \in Seq(Place) /\ Len(members) <= MaxMembers
    BY <1>6, ListOf
  <2> HIDE DEF members, m
  <2> QED
    BY <1>4, <2>1, WithinLimit
<1>7. transport' = transport \/ transport' = [transport EXCEPT ![g] = @ \cup {d}]
  BY DEF added
<1>8. lost' = lost \/ lost' = [lost EXCEPT ![g] = @ + 1]
  BY DEF added
<1>9. transport' \in [GroupAddresses -> SUBSET Devices] /\ lost' \in [GroupAddresses -> Nat]
  <2>1. g \in GroupAddresses
    BY <1>3 DEF Answer
  <2> HIDE DEF g
  <2>2. transport' \in [GroupAddresses -> SUBSET Devices]
    <3>1. transport[g] \cup {d} \in SUBSET Devices
      BY <2>1 DEF Types
    <3> QED
      BY <1>7, <3>1 DEF Types
  <2>3. lost' \in [GroupAddresses -> Nat]
    <3>1. lost[g] + 1 \in Nat
      BY <2>1 DEF Types
    <3> QED
      BY <1>8, <3>1 DEF Types
  <2> QED
    BY <2>2, <2>3
<1>10. GroupsOK
  <2> HIDE DEF g, members, m
  <2>1. CASE groups' = groups
    BY <2>1, SameGroupsOK
  <2>2. CASE g \in DOMAIN groups /\ groups' = [groups EXCEPT ![g].members = remove(members, Reserved)]
    BY <1>6, <2>2, OneGroupOK
  <2>3. CASE g \in DOMAIN groups /\ groups' = [groups EXCEPT ![g].members = update(members, m)]
    BY <1>6, <2>3, OneGroupOK
  <2> QED
    BY <1>5, <2>1, <2>2, <2>3
<1> QED
  BY <1>1, <1>3, <1>9, <1>10 DEF Histories, Types, GroupsOK

LEMMA DisconnectTypes ==
  ASSUME Types, Limits, Histories', NEW d \in Devices, disconnect(d)
  PROVE  Types' /\ Limits'
<1> DEFINE more(g) == IF g \in DOMAIN groups
                      THEN Cardinality(Asked(d, g)) + Cardinality(Answered(d, g)) ELSE 0
<1>1. /\ lost' = [g \in GroupAddresses |-> lost[g] + more(g)]
      /\ down' = [down EXCEPT ![d] = <<>>] /\ up' = [up EXCEPT ![d] = <<>>]
      /\ waiting' \subseteq waiting
      /\ UNCHANGED <<groups, requests, transport, table>>
  BY DEF disconnect
<1>2. \A g \in GroupAddresses : more(g) \in Nat
  <2> SUFFICES ASSUME NEW g \in GroupAddresses
               PROVE  Cardinality(Asked(d, g)) \in Nat /\ Cardinality(Answered(d, g)) \in Nat
    OBVIOUS
  <2>1. /\ Cardinality(Asked(d, g)) = Count(down[d], Adds(g))
        /\ Cardinality(Answered(d, g)) = Count(up[d], Answers(g))
    BY OpenIsUnderWay DEF Count
  <2>2. down[d] \in Seq(Request) /\ up[d] \in Seq(Answer)
    BY DEF Types
  <2> QED
    BY <2>1, <2>2, CountType
<1>3. lost' \in [GroupAddresses -> Nat]
  <2> HIDE DEF more
  <2> QED
    BY <1>1, <1>2 DEF Types
<1>4. down' \in [Devices -> Seq(Request)] /\ up' \in [Devices -> Seq(Answer)]
  BY <1>1, LinkTypes DEF Types
<1> QED
  BY <1>1, <1>3, <1>4 DEF Histories, Types, Limits

LEMMA TypesInit == ASSUME Init PROVE TypeOK
<1>1. IInv
  BY InitInductive
<1>2. Limits
  BY <1>1 DEF IInv, Lists, Limits
<1> QED
  BY <1>1, <1>2 DEF IInv, Types, Limits, TypeOK

LEMMA TypesStep == ASSUME TypeOK, [Next]_vars PROVE TypeOK'
<1>1. Types /\ Limits
  BY DEF TypeOK, Types, Limits
<1>0. Histories'
  BY <1>1, HistoriesStep
<1>2. Types' /\ Limits' => TypeOK'
  BY DEF TypeOK, Types, Limits
<1>3. ASSUME NEW name \in Names, create(name) PROVE TypeOK'
  <2>1. GroupsOK
    BY <1>1, <1>3, CreateTypes
  <2>2. Types' /\ Limits'
    BY <1>0, <1>1, <1>3, <2>1 DEF create, Types, GroupsOK, Histories
  <2> QED
    BY <1>2, <2>2
<1>4. CASE \E g \in GroupAddresses : delete(g)
  BY <1>0, <1>1, <1>2, <1>4, DeleteTypes
<1>5. CASE \E g \in GroupAddresses, m \in Member : remove_member(g, m)
  BY <1>0, <1>1, <1>2, <1>5, RemoveTypes
<1>6. CASE \E c \in Controllers, a \in Addition : add(c, a)
  BY <1>0, <1>1, <1>2, <1>6, AddTypes
<1>7. CASE \E d \in Devices : table_add(d) \/ table_remove(d)
  BY <1>0, <1>1, <1>2, <1>7, TableTypes
<1>8. CASE \E d \in Devices : added(d)
  BY <1>0, <1>1, <1>2, <1>8, AddedTypes
<1>9. CASE \E d \in Devices : disconnect(d)
  BY <1>0, <1>1, <1>2, <1>9, DisconnectTypes
<1>10. CASE UNCHANGED vars
  BY <1>1, <1>2, <1>10 DEF vars, Types, Limits
<1> QED
  BY <1>3, <1>4, <1>5, <1>6, <1>7, <1>8, <1>9, <1>10 DEF Next

-----------------------------------------------------------------------------
(* No place stays reserved for nothing: the places of a group that are     *)
(* held, against what is under way for it and what was lost.               *)

Owed(g) == lost[g] + Open(down, up, g)

Covered == \A g \in DOMAIN groups : Held(groups[g].members) <= Owed(g)

LEMMA OpenType ==
  ASSUME NEW dn, NEW u, Links(dn, u), NEW g
  PROVE  Open(dn, u, g) \in Nat
BY WaysFinite DEF Open

LEMMA Numbers ==
  ASSUME Types, Types'
  PROVE  /\ Links(down, up) /\ Links(down', up')
         /\ \A g : Open(down, up, g) \in Nat /\ Open(down', up', g) \in Nat
         /\ \A g \in DOMAIN groups : /\ groups[g].members \in Seq(Place)
                                     /\ Held(groups[g].members) \in Nat /\ lost[g] \in Nat
         /\ \A g \in DOMAIN groups' : lost'[g] \in Nat
<1>1. Links(down, up) /\ Links(down', up')
  BY DEF Types, Links
<1>2. ASSUME NEW g \in DOMAIN groups
      PROVE  groups[g].members \in Seq(Place) /\ Held(groups[g].members) \in Nat /\ lost[g] \in Nat
  <2>1. groups[g].members \in Seq(Place)
    BY MembersType
  <2> QED
    BY <2>1, ExistsCounted DEF Types
<1>3. \A g \in DOMAIN groups' : lost'[g] \in Nat
  BY DEF Types
<1> QED
  BY <1>1, <1>2, <1>3, OpenType

\* The list of one group changes, and what is owed to the others does not.
LEMMA OneCovered ==
  ASSUME Types, Types', Covered, NEW g \in DOMAIN groups, NEW list,
         groups' = [groups EXCEPT ![g].members = list],
         \A h \in DOMAIN groups \ {g} : Owed(h) <= lost'[h] + Open(down', up', h),
         Held(list) <= lost'[g] + Open(down', up', g)
  PROVE  Covered'
<1>1. groups \in [DOMAIN groups -> Group]
  BY DEF Types
<1>2. DOMAIN groups' = DOMAIN groups /\ groups'[g].members = list
  BY <1>1 DEF Group
<1>3. \A h \in DOMAIN groups \ {g} : groups'[h] = groups[h]
  BY <1>1
<1>4. ASSUME NEW h \in DOMAIN groups \ {g}
      PROVE  Held(groups'[h].members) <= lost'[h] + Open(down', up', h)
  <2>1. Held(groups[h].members) <= Owed(h) /\ Owed(h) <= lost'[h] + Open(down', up', h)
    BY DEF Covered
  <2>2. Held(groups[h].members) \in Nat /\ Owed(h) \in Nat /\ lost'[h] + Open(down', up', h) \in Nat
    BY <1>2, Numbers DEF Owed
  <2> QED
    BY <1>3, <2>1, <2>2
<1> QED
  BY <1>2, <1>4 DEF Covered, Owed

\* No list changes.
LEMMA SameCovered ==
  ASSUME Types, Types', Covered, UNCHANGED groups,
         \A h \in DOMAIN groups : Owed(h) <= lost'[h] + Open(down', up', h)
  PROVE  Covered'
<1>1. ASSUME NEW h \in DOMAIN groups
      PROVE  Held(groups[h].members) <= lost'[h] + Open(down', up', h)
  <2>1. Held(groups[h].members) <= Owed(h) /\ Owed(h) <= lost'[h] + Open(down', up', h)
    BY DEF Covered
  <2>2. Held(groups[h].members) \in Nat /\ Owed(h) \in Nat /\ lost'[h] + Open(down', up', h) \in Nat
    BY Numbers DEF Owed
  <2> QED
    BY <2>1, <2>2
<1> QED
  BY <1>1 DEF Covered, Owed

LEMMA CreateCovered ==
  ASSUME Types, Types', Covered, NEW name \in Names, create(name)
  PROVE  Covered'
<1> SUFFICES ASSUME NEW g \in DOMAIN groups'
             PROVE  Held(groups'[g].members) <= lost'[g] + Open(down', up', g)
  BY DEF Covered, Owed
<1>1. UNCHANGED <<down, up, lost>>
  BY DEF create
<1>2. lost[g] \in Nat /\ Open(down, up, g) \in Nat
  BY <1>1, Numbers
<1>3. CASE g \in DOMAIN groups /\ g # next_address
  BY <1>1, <1>3 DEF create, Covered, Owed
<1>4. CASE ~(g \in DOMAIN groups /\ g # next_address)
  <2>1. groups'[g].members = <<>>
    BY <1>4 DEF create
  <2>2. Held(<<>>) = 0
    BY CountNone DEF Held
  <2> QED
    BY <1>1, <1>2, <2>1, <2>2
<1> QED
  BY <1>3, <1>4

\* Only REMOVEs are sent, and the group is gone.
LEMMA DeleteCovered ==
  ASSUME Types, Types', Covered, NEW g \in GroupAddresses, delete(g)
  PROVE  Covered'
<1> SUFFICES ASSUME NEW h \in DOMAIN groups'
             PROVE  Held(groups'[h].members) <= lost'[h] + Open(down', up', h)
  BY DEF Covered, Owed
<1>1. h \in DOMAIN groups /\ h # g /\ groups'[h] = groups[h] /\ lost'[h] = lost[h] /\ up' = up
  BY DEF delete, Types
<1>2. ASSUME NEW d \in Devices PROVE In(down'[d], Adds(h)) = In(down[d], Adds(h))
  <2>1. PICK t \in Seq(Request) :
          /\ down'[d] = down[d] \o t
          /\ \A i \in DOMAIN t :
               t[i].cmd = "REMOVE" /\ t[i].group = g /\ <<d, t[i].unit>> \in Listed(groups[g].members)
    BY DeleteTells
  <2>2. down[d] \in Seq(Request) /\ \A i \in DOMAIN t : t[i] \notin Adds(h)
    BY <2>1 DEF Types, Adds
  <2> QED
    BY <2>1, <2>2, CountConcat
<1>3. Open(down', up, h) = Open(down, up, h)
  BY <1>2, SameCounts
<1> QED
  BY <1>1, <1>3 DEF Covered, Owed

\* Something is put on the link to a device.
Sends(d, m) == down' = [down EXCEPT ![d] = Append(@, m)] /\ up' = up

LEMMA SentCovers ==
  ASSUME Types, Types', NEW d \in Devices, NEW m \in Request, Sends(d, m), NEW h
  PROVE  Open(down', up', h) = Open(down, up, h) + One(m, Adds(h))
<1>1. Links(down, up) /\ Links(down', up')
  BY Numbers
<1>2. up'[d] = up[d] /\ down[d] \in Seq(Request)
  BY DEF Sends, Types
<1>3. Count(down'[d], Adds(h)) = Count(down[d], Adds(h)) + One(m, Adds(h))
  <2>1. down'[d] = Append(down[d], m)
    BY DEF Sends, Types
  <2> QED
    BY <1>2, <2>1, CountAppend
<1>4. Open(down', up', h) = Open(down, up, h)
        + ((Count(down'[d], Adds(h)) - Count(down[d], Adds(h)))
           + (Count(up'[d], Answers(h)) - Count(up[d], Answers(h))))
  <2>1. \A e \in Devices \ {d} : down'[e] = down[e] /\ up'[e] = up[e]
    BY DEF Sends, Types
  <2> QED
    BY <1>1, <2>1, OneDevice
<1>5. /\ Open(down, up, h) \in Nat /\ Count(down[d], Adds(h)) \in Nat
      /\ Count(up[d], Answers(h)) \in Nat
  BY <1>1, Split
<1>6. One(m, Adds(h)) \in Nat
  BY DEF One
<1> QED
  BY <1>2, <1>3, <1>4, <1>5, <1>6

LEMMA AddCovered ==
  ASSUME Types, Types', Covered, NEW c \in Controllers, NEW a \in Addition, add(c, a)
  PROVE  Covered'
<1> DEFINE g == a.group
           members == groups[g].members
           m == [cmd |-> "ADD", group |-> a.group, unit |-> a.unit]
<1>1. g \in DOMAIN groups /\ UNCHANGED <<up, lost>>
  BY DEF add
<1>2. Types /\ Types' /\ members \in Seq(Place) /\ Held(members) \in Nat /\ lost[g] \in Nat
  BY <1>1, Numbers
<1>3. Held(members) <= lost[g] + Open(down, up, g) /\ \A h : Open(down, up, h) \in Nat
  BY <1>1, <1>2, Numbers DEF Covered, Owed
<1>4. CASE /\ room(members) /\ groups' = [groups EXCEPT ![g].members = reserve(members)]
           /\ down' = [down EXCEPT ![a.device] = Append(@, m)]
  <2>0. Sends(a.device, m)
    BY <1>1, <1>4 DEF Sends
  <2>1. a.device \in Devices /\ m \in Request
    BY DEF Addition, Request
  <2>2. One(m, Adds(g)) = 1 /\ \A h : One(m, Adds(h)) \in Nat
    BY <2>1 DEF One, Adds
  <2>3. \A h : Open(down', up', h) = Open(down, up, h) + One(m, Adds(h))
    <3> HIDE DEF m
    <3> QED
      BY <1>2, <2>0, <2>1, SentCovers
  <2>4. Held(reserve(members)) = Held(members) + 1
    <3> HIDE DEF members
    <3> QED
      BY <1>2, <1>4, HeldReserved
  <2> HIDE DEF g, members, m
  <2>5. Held(reserve(members)) <= lost'[g] + Open(down', up', g)
    BY <1>1, <1>2, <1>3, <2>2, <2>3, <2>4
  <2>6. \A h \in DOMAIN groups \ {g} : Owed(h) <= lost'[h] + Open(down', up', h)
    <3> SUFFICES ASSUME NEW h \in DOMAIN groups \ {g}
                 PROVE  lost[h] + Open(down, up, h) <= lost[h] + Open(down', up', h)
      BY <1>1 DEF Owed
    <3>1. lost[h] \in Nat
      BY <1>2, Numbers
    <3> QED
      BY <1>3, <2>2, <2>3, <3>1
  <2> QED
    BY <1>1, <1>2, <1>4, <2>5, <2>6, OneCovered
<1>5. CASE /\ groups' = [groups EXCEPT ![g].members = remove(reserve(members), Reserved)]
           /\ down' = down
           /\ ~room(members) \/ room(members)
  <2> DEFINE list == remove(reserve(members), Reserved)
  <2>1. Held(list) <= Held(members) /\ Held(list) \in Nat
    <3> HIDE DEF members
    <3>1. /\ reserve(members) \in Seq(Place)
          /\ Held(reserve(members)) = Held(members) + (IF room(members) THEN 1 ELSE 0)
      BY <1>2, HeldReserved
    <3>2. Less(Held(reserve(members)), Held(list)) /\ list \in Seq(Place)
      BY <3>1, HeldRemoved
    <3>3. Held(list) \in Nat
      BY <3>2, ExistsCounted
    <3> QED
      BY <1>2, <3>1, <3>2, <3>3 DEF Less
  <2> HIDE DEF list
  <2>2. Held(list) <= lost'[g] + Open(down', up', g)
    <3> HIDE DEF g, members
    <3> QED
      BY <1>1, <1>2, <1>3, <1>5, <2>1
  <2>3. \A h \in DOMAIN groups \ {g} : Owed(h) <= lost'[h] + Open(down', up', h)
    <3> SUFFICES ASSUME NEW h \in DOMAIN groups \ {g}
                 PROVE  lost[h] + Open(down, up, h) <= lost[h] + Open(down, up, h)
      BY <1>1, <1>5 DEF Owed
    <3>1. lost[h] \in Nat
      BY <1>2, Numbers
    <3> QED
      BY <1>3, <3>1
  <2> HIDE DEF g
  <2> QED
    BY <1>1, <1>2, <1>5, <2>2, <2>3, OneCovered DEF list
<1> QED
  BY <1>4, <1>5 DEF add, Send

\* A member that goes held no reservation.
LEMMA RemoveCovered ==
  ASSUME Types, Types', Covered, NEW g \in GroupAddresses, NEW m \in Member, remove_member(g, m)
  PROVE  Covered'
<1> DEFINE members == groups[g].members
           list == remove(members, m)
           req == [cmd |-> "REMOVE", group |-> g, unit |-> m[2]]
<1>1. /\ g \in DOMAIN groups /\ UNCHANGED <<up, lost>> /\ groups' = [groups EXCEPT ![g].members = list]
      /\ down' = [down EXCEPT ![m[1]] = Append(@, req)]
  BY DEF remove_member, Send
<1>2. /\ Types /\ Types' /\ members \in Seq(Place) /\ m # Reserved
      /\ m[1] \in Devices /\ req \in Request
  BY <1>1, Numbers, ReservedIsNoMember DEF Member, Request
<1>3. \A h : One(req, Adds(h)) = 0
  BY DEF One, Adds
<1>4. Held(list) = Held(members)
  <2> HIDE DEF members
  <2> QED
    BY <1>2, HeldRemoved
<1> HIDE DEF list, req
<1>5. \A h : Open(down', up', h) = Open(down, up, h) + 0
  <2>1. Sends(m[1], req)
    BY <1>1 DEF Sends
  <2> QED
    BY <1>2, <1>3, <2>1, SentCovers
<1>6. \A h : Open(down', up', h) = Open(down, up, h)
  BY <1>2, <1>5, Numbers
<1>7. \A h \in DOMAIN groups : lost[h] \in Nat /\ Open(down, up, h) \in Nat
  BY <1>2, Numbers
<1>8. \A h \in DOMAIN groups : Owed(h) <= lost'[h] + Open(down', up', h)
  <2> SUFFICES ASSUME NEW h \in DOMAIN groups PROVE Owed(h) <= lost'[h] + Open(down', up', h)
    OBVIOUS
  <2>1. Owed(h) = lost'[h] + Open(down', up', h)
    BY <1>1, <1>6 DEF Owed
  <2>2. Owed(h) \in Nat
    BY <1>7 DEF Owed
  <2> QED BY <2>1, <2>2
<1>9. Held(list) <= lost'[g] + Open(down', up', g)
  BY <1>1, <1>4, <1>6 DEF Covered, Owed
<1> QED
  BY <1>1, <1>2, <1>8, <1>9, OneCovered

\* The device takes a request off its link; what it answers counts as much.
LEMMA TableCovered ==
  ASSUME Types, Types', Covered, NEW d \in Devices, table_add(d) \/ table_remove(d)
  PROVE  Covered'
<1>1. /\ UNCHANGED <<groups, lost>> /\ down[d] # <<>>
      /\ down' = [down EXCEPT ![d] = Tail(@)]
  BY DEF table_add, table_remove
<1>2. Types /\ Types' /\ down[d] \in Seq(Request) /\ up[d] \in Seq(Answer)
  BY DEF Types
<1>3. Links(down, up) /\ Links(down', up')
  BY <1>2, Numbers
<1>4. down'[d] = Tail(down[d]) /\ \A e \in Devices \ {d} : down'[e] = down[e]
  BY <1>1, <1>2 DEF Types
<1>5. Head(down[d]) \in Request
  BY <1>1, <1>2, Popped
<1> DEFINE req == Head(down[d])
<1>6. ASSUME NEW h
      PROVE  /\ Count(up'[d], Answers(h)) = Count(up[d], Answers(h)) + One(req, Adds(h))
             /\ \A e \in Devices \ {d} : up'[e] = up[e]
  <2>1. CASE table_remove(d)
    <3>1. up' = up /\ One(req, Adds(h)) = 0
      BY <2>1 DEF table_remove, One, Adds
    <3>2. Count(up[d], Answers(h)) \in Nat
      BY <1>2, CountType
    <3> QED
      BY <3>1, <3>2
  <2>2. CASE table_add(d)
    <3>1. PICK code \in {"OK", "FAIL_RESOURCES"} :
            up' = [up EXCEPT ![d] = Append(@, [code |-> code, group |-> req.group, unit |-> req.unit])]
      BY <2>2 DEF table_add
    <3> DEFINE ans == [code |-> code, group |-> req.group, unit |-> req.unit]
    <3>2. ans \in Answer
      BY <1>5, <3>1 DEF Answer, Request
    <3>3. req.cmd = "ADD"
      BY <2>2 DEF table_add
    <3>4. One(ans, Answers(h)) = One(req, Adds(h))
      BY <1>5, <3>2, <3>3 DEF One, Answers, Adds
    <3> HIDE DEF ans, req
    <3>5. up'[d] = Append(up[d], ans) /\ \A e \in Devices \ {d} : up'[e] = up[e]
      BY <1>2, <3>1 DEF Types, ans
    <3>6. Count(Append(up[d], ans), Answers(h)) = Count(up[d], Answers(h)) + One(ans, Answers(h))
      BY <1>2, <3>2, CountAppend
    <3> QED
      BY <3>4, <3>5, <3>6
  <2> QED
    BY <2>1, <2>2
<1>7. ASSUME NEW h PROVE Open(down', up', h) = Open(down, up, h)
  <2>1. Count(down[d], Adds(h)) = Count(down'[d], Adds(h)) + One(req, Adds(h))
    BY <1>1, <1>2, <1>4, CountTail
  <2>2. /\ Open(down', up', h) = Open(down, up, h)
             + ((Count(down'[d], Adds(h)) - Count(down[d], Adds(h)))
                + (Count(up'[d], Answers(h)) - Count(up[d], Answers(h))))
    BY <1>3, <1>4, <1>6, OneDevice
  <2>3. /\ Open(down, up, h) \in Nat /\ Count(up[d], Answers(h)) \in Nat
        /\ Count(down'[d], Adds(h)) \in Nat
    BY <1>3, Split
  <2>4. One(req, Adds(h)) \in Nat
    BY DEF One
  <2>5. Count(up'[d], Answers(h)) = Count(up[d], Answers(h)) + One(req, Adds(h))
    BY <1>6
  <2> QED
    BY <2>1, <2>2, <2>3, <2>4, <2>5
<1>8. \A h \in DOMAIN groups : lost[h] \in Nat /\ Open(down, up, h) \in Nat
  BY <1>2, Numbers
<1>9. \A h \in DOMAIN groups : Owed(h) <= lost'[h] + Open(down', up', h)
  <2> SUFFICES ASSUME NEW h \in DOMAIN groups PROVE Owed(h) <= lost'[h] + Open(down', up', h)
    OBVIOUS
  <2>1. Owed(h) = lost'[h] + Open(down', up', h)
    BY <1>1, <1>7 DEF Owed
  <2>2. Owed(h) \in Nat
    BY <1>8 DEF Owed
  <2> QED BY <2>1, <2>2
<1> QED
  BY <1>1, <1>2, <1>9, SameCovered

\* An answer takes its place away, completes it, or is lost with it.
LEMMA AddedCovered ==
  ASSUME Types, Types', Covered, NEW d \in Devices, added(d)
  PROVE  Covered'
<1> DEFINE r == Head(up[d])
           g == r.group
           members == groups[g].members
           m == <<d, r.unit>>
<1>1. UNCHANGED down /\ up[d] # <<>> /\ up' = [up EXCEPT ![d] = Tail(@)]
  BY DEF added
<1>2. Types /\ Types' /\ up[d] \in Seq(Answer)
  BY DEF Types
<1>3. Links(down, up) /\ Links(down', up')
  BY <1>2, Numbers
<1>4. r \in Answer
  BY <1>1, <1>2, Popped
<1>5. /\ up'[d] = Tail(up[d]) /\ down'[d] = down[d]
      /\ \A e \in Devices \ {d} : up'[e] = up[e] /\ down'[e] = down[e]
  BY <1>1, <1>2 DEF Types
<1>6. ASSUME NEW h PROVE Open(down, up, h) = Open(down', up', h) + One(r, Answers(h))
  <2> HIDE DEF r
  <2>1. Count(up[d], Answers(h)) = Count(up'[d], Answers(h)) + One(r, Answers(h))
    BY <1>1, <1>2, <1>5, CountTail DEF r
  <2>2. /\ Open(down', up', h) = Open(down, up, h)
             + ((Count(down'[d], Adds(h)) - Count(down[d], Adds(h)))
                + (Count(up'[d], Answers(h)) - Count(up[d], Answers(h))))
    BY <1>3, <1>5, OneDevice
  <2>3. /\ Open(down, up, h) \in Nat /\ Count(down[d], Adds(h)) \in Nat
        /\ Count(up'[d], Answers(h)) \in Nat
    BY <1>3, Split
  <2>4. One(r, Answers(h)) \in Nat
    BY DEF One
  <2> QED
    BY <1>5, <2>1, <2>2, <2>3, <2>4
<1>7. One(r, Answers(g)) = 1 /\ \A h : h # g => One(r, Answers(h)) = 0
  BY <1>4 DEF One, Answers
<1>8. \A h : Open(down', up', h) \in Nat
  BY <1>2, Numbers
<1>9. Open(down, up, g) = Open(down', up', g) + 1
  BY <1>6, <1>7
<1>10. \A h : h # g => Open(down, up, h) = Open(down', up', h)
  BY <1>6, <1>7, <1>8
<1>11. \A h \in DOMAIN groups : lost[h] \in Nat
  BY <1>2, Numbers
<1>12. CASE UNCHANGED <<groups, lost>> /\ g \notin DOMAIN groups
  <2> HIDE DEF g
  <2>1. \A h \in DOMAIN groups : Owed(h) <= lost'[h] + Open(down', up', h)
    BY <1>8, <1>10, <1>11, <1>12 DEF Owed
  <2> QED
    BY <1>2, <1>12, <2>1, SameCovered
<1>13. CASE /\ g \in DOMAIN groups /\ UNCHANGED groups /\ lost' = [lost EXCEPT ![g] = @ + 1]
  <2> HIDE DEF g
  <2>1. lost'[g] = lost[g] + 1 /\ \A h \in DOMAIN groups \ {g} : lost'[h] = lost[h]
    BY <1>2, <1>13 DEF Types
  <2>2. lost[g] + Open(down, up, g) <= lost'[g] + Open(down', up', g)
    BY <1>8, <1>9, <1>11, <1>13, <2>1
  <2>3. \A h \in DOMAIN groups \ {g} : Owed(h) <= lost'[h] + Open(down', up', h)
    BY <1>8, <1>10, <1>11, <2>1 DEF Owed
  <2> QED
    BY <1>2, <1>13, <2>2, <2>3, SameCovered DEF Owed
<1>14. ASSUME NEW list, g \in DOMAIN groups, UNCHANGED lost,
              groups' = [groups EXCEPT ![g].members = list],
              Less(Held(members), Held(list))
       PROVE  Covered'
  <2>1. Held(members) <= lost[g] + Open(down, up, g) /\ Held(members) \in Nat
    BY <1>2, <1>14, Numbers DEF Covered, Owed
  <2> HIDE DEF g, members
  <2>2. Held(list) <= lost'[g] + Open(down', up', g)
    BY <1>8, <1>9, <1>11, <1>14, <2>1 DEF Less
  <2>3. \A h \in DOMAIN groups \ {g} : Owed(h) <= lost'[h] + Open(down', up', h)
    BY <1>8, <1>10, <1>11, <1>14 DEF Owed
  <2> QED
    BY <1>2, <1>14, <2>2, <2>3, OneCovered
<1>15. ASSUME g \in DOMAIN groups
       PROVE  /\ Less(Held(members), Held(remove(members, Reserved)))
              /\ Less(Held(members), Held(update(members, m)))
  <2>1. members \in Seq(Place) /\ m \in Member
    BY <1>2, <1>4, <1>15, Numbers DEF Answer, Member
  <2> HIDE DEF members, m
  <2> QED
    BY <2>1, HeldRemoved, HeldUpdated
<1>16. \/ UNCHANGED <<groups, lost>> /\ g \notin DOMAIN groups
       \/ /\ g \in DOMAIN groups /\ UNCHANGED lost
          /\ groups' = [groups EXCEPT ![g].members = remove(members, Reserved)]
       \/ /\ g \in DOMAIN groups /\ UNCHANGED lost
          /\ groups' = [groups EXCEPT ![g].members = update(members, m)]
       \/ g \in DOMAIN groups /\ UNCHANGED groups /\ lost' = [lost EXCEPT ![g] = @ + 1]
  BY DEF added
<1> HIDE DEF r, g, members, m
<1> QED
  BY <1>12, <1>13, <1>14, <1>15, <1>16

\* What a closed link carried is accounted for.
LEMMA DisconnectCovered ==
  ASSUME Types, Types', Covered, NEW d \in Devices, disconnect(d)
  PROVE  Covered'
<1>1. Types /\ Types' /\ UNCHANGED groups
  BY DEF disconnect
<1>2. Links(down, up) /\ Links(down', up')
  BY <1>1, Numbers
<1>3. /\ down'[d] = <<>> /\ up'[d] = <<>>
      /\ \A e \in Devices \ {d} : up'[e] = up[e] /\ down'[e] = down[e]
  BY <1>1 DEF disconnect, Types
<1>4. ASSUME NEW h \in DOMAIN groups
      PROVE  Owed(h) <= lost'[h] + Open(down', up', h)
  <2> DEFINE gone == Count(down[d], Adds(h)) + Count(up[d], Answers(h))
  <2>1. h \in GroupAddresses
    BY <1>1 DEF Types
  <2>2. lost'[h] = lost[h] + (Cardinality(Asked(d, h)) + Cardinality(Answered(d, h)))
    BY <2>1 DEF disconnect
  <2>3. lost'[h] = lost[h] + gone
    BY <1>1, <2>2, OpenIsUnderWay DEF Count
  <2>4. /\ Open(down', up', h) = Open(down, up, h)
             + ((Count(down'[d], Adds(h)) - Count(down[d], Adds(h)))
                + (Count(up'[d], Answers(h)) - Count(up[d], Answers(h))))
    BY <1>2, <1>3, OneDevice
  <2>5. Count(down'[d], Adds(h)) = 0 /\ Count(up'[d], Answers(h)) = 0
    BY <1>3, CountNone
  <2>6. /\ Open(down, up, h) \in Nat /\ Count(down[d], Adds(h)) \in Nat
        /\ Count(up[d], Answers(h)) \in Nat /\ lost[h] \in Nat
    BY <1>1, <1>2, Split, Numbers
  <2>7. lost'[h] + Open(down', up', h) = lost[h] + Open(down, up, h)
    BY <2>3, <2>4, <2>5, <2>6
  <2>8. lost[h] + Open(down, up, h) \in Nat
    BY <2>6
  <2> QED
    BY <2>7, <2>8 DEF Owed
<1> QED
  BY <1>1, <1>4, SameCovered

LEMMA CoveredStep == ASSUME Types, Types', Covered, [Next]_vars PROVE Covered'
<1>1. CASE \E name \in Names : create(name)
  BY <1>1, CreateCovered
<1>2. CASE \E g \in GroupAddresses : delete(g)
  BY <1>2, DeleteCovered
<1>3. CASE \E g \in GroupAddresses, m \in Member : remove_member(g, m)
  BY <1>3, RemoveCovered
<1>4. CASE \E c \in Controllers, a \in Addition : add(c, a)
  BY <1>4, AddCovered
<1>5. CASE \E d \in Devices : table_add(d) \/ table_remove(d)
  BY <1>5, TableCovered
<1>6. CASE \E d \in Devices : added(d)
  BY <1>6, AddedCovered
<1>7. CASE \E d \in Devices : disconnect(d)
  BY <1>7, DisconnectCovered
<1>8. CASE UNCHANGED vars
  BY <1>8 DEF vars, Covered, Owed
<1> QED
  BY <1>1, <1>2, <1>3, <1>4, <1>5, <1>6, <1>7, <1>8 DEF Next

\* Every variable keeps to what the code's types and limits allow, and no
\* group outgrows MAX_MEMBERS, also when additions are repeated.
THEOREM GroupsTyped == Spec => []TypeOK
BY TypesInit, TypesStep, PTL DEF Spec

\* A place stays reserved only for an addition under way or one that was lost:
\* whatever fails, is deleted or repeated, the server gives the others back.
THEOREM ReservationsAreGivenBack == Spec => []NoLeakedReservation
<1>1. ASSUME Init PROVE Covered
  <2>1. DOMAIN groups = {}
    BY <1>1 DEF Init
  <2> QED
    BY <2>1 DEF Covered
<1>2. ASSUME Types, Covered PROVE NoLeakedReservation
  <2> SUFFICES ASSUME NEW g \in DOMAIN groups
               PROVE  Cardinality(Places(groups[g].members, Reserved)) <= lost[g] + Cardinality(UnderWay(g))
    BY DEF NoLeakedReservation
  <2>1. Places(groups[g].members, Reserved) = In(groups[g].members, {Reserved})
    BY DEF Places, In
  <2>2. Cardinality(UnderWay(g)) = Open(down, up, g)
    BY <1>2, OpenIsUnderWay
  <2> QED
    BY <1>2, <2>1, <2>2 DEF Covered, Owed, Held, Count
<1>3. TypeOK => Types
  BY DEF TypeOK, Types
<1>4. TypeOK /\ TypeOK' /\ Covered /\ [Next]_vars => Covered'
  <2>1. TypeOK' => Types'
    BY DEF TypeOK, Types
  <2> QED
    BY <1>3, <2>1, CoveredStep
<1> QED
  BY <1>1, <1>2, <1>3, <1>4, GroupsTyped, PTL DEF Spec

-----------------------------------------------------------------------------
(* Groups implement Membership, the members being those listed and the     *)
(* units that keep a group those with an entry in their device's table.    *)

Sets == [g \in DOMAIN groups |-> Steady(g)]

\* The members of a list of group g that count.
Counted(g, list) == {m \in Listed(list) : <<g, m>> \notin raced}

Entries(tb) == {p \in GroupAddresses \X Member : <<p[1], p[2][2]>> \in tb[p[2][1]]}

\* What is left when one place goes.
LEMMA ListedRemoved ==
  ASSUME NEW members \in Seq(Place), Len(members) <= MaxMembers, NEW m,
         NEW R, Distinct(members, R)
  PROVE  /\ Listed(remove(members, m)) \subseteq Listed(members)
         /\ Listed(members) \ {m} \subseteq Listed(remove(members, m))
         /\ m \notin R => m \notin Listed(remove(members, m))
<1> DEFINE fewer == remove(members, m)
<1>1. Listed(fewer) \subseteq Listed(members) /\ (m \notin R => m \notin Listed(fewer))
  BY Removing
<1> HIDE DEF fewer
<1>2. ASSUME NEW n \in Listed(members), n # m PROVE n \in Listed(fewer)
  <2>1. CASE ~exists(members, m)
    BY <1>2, <2>1 DEF remove, fewer
  <2>2. CASE exists(members, m)
    <3> DEFINE k == first(members, m)
    <3>1. /\ k \in 1..Len(members) /\ members[k] = m
          /\ fewer \in Seq(Place) /\ Len(fewer) = Len(members) - 1
          /\ \A i \in 1..Len(members) - 1 :
               fewer[i] = IF i < k THEN members[i] ELSE members[i + 1]
      BY <2>2, Removed DEF fewer
    <3> HIDE DEF k
    <3>2. /\ Len(members) \in Nat /\ DOMAIN members = 1..Len(members)
          /\ DOMAIN fewer = 1..Len(members) - 1
      BY <3>1, LenProperties
    <3>3. PICK j \in 1..Len(members) : members[j] = n /\ n # Reserved
      BY <3>2 DEF Listed
    <3>4. j # k
      BY <1>2, <3>1, <3>3
    <3>5. CASE j < k
      <4>1. j \in DOMAIN fewer /\ fewer[j] = n
        BY <3>1, <3>2, <3>3, <3>5
      <4> QED
        BY <3>3, <4>1 DEF Listed
    <3>6. CASE j > k
      <4>1. j - 1 \in 1..Len(members) - 1 /\ ~(j - 1 < k) /\ (j - 1) + 1 = j
        BY <3>1, <3>2, <3>6
      <4>2. fewer[j - 1] = members[j]
        BY <3>1, <4>1
      <4> QED
        BY <3>2, <3>3, <4>1, <4>2 DEF Listed
    <3> QED
      BY <3>1, <3>2, <3>4, <3>5, <3>6
  <2> QED
    BY <2>1, <2>2
<1> QED
  BY <1>1, <1>2 DEF fewer

LEMMA ListedReserved ==
  ASSUME NEW members \in Seq(Place), Len(members) <= MaxMembers, NEW R, Distinct(members, R)
  PROVE  /\ Listed(reserve(members)) = Listed(members)
         /\ Listed(remove(reserve(members), Reserved)) = Listed(members)
<1> DEFINE more == reserve(members)
<1>1. /\ more \in Seq(Place) /\ Listed(more) = Listed(members)
      /\ Len(more) <= MaxMembers /\ Distinct(more, R)
  BY Reserving
<1> HIDE DEF more
<1>2. /\ Listed(remove(more, Reserved)) \subseteq Listed(more)
      /\ Listed(more) \ {Reserved} \subseteq Listed(remove(more, Reserved))
  BY <1>1, ListedRemoved
<1>3. Reserved \notin Listed(more)
  BY DEF Listed
<1> QED
  BY <1>1, <1>2, <1>3 DEF more

LEMMA ListedUpdated ==
  ASSUME NEW members \in Seq(Place), NEW m \in Member
  PROVE  Listed(update(members, m)) = IF exists(members, Reserved) THEN Listed(members) \cup {m}
                                      ELSE Listed(members)
<1>1. CASE ~exists(members, Reserved)
  BY <1>1 DEF update
<1>2. CASE exists(members, Reserved)
  <2> DEFINE k == first(members, Reserved)
             filled == [members EXCEPT ![k] = m]
  <2>1. k \in DOMAIN members /\ members[k] = Reserved
    BY <1>2, FirstIsAPlace
  <2>2. update(members, m) = filled
    BY <1>2 DEF update
  <2> HIDE DEF k
  <2>3. /\ DOMAIN filled = DOMAIN members /\ filled[k] = m
        /\ \A i \in DOMAIN members \ {k} : filled[i] = members[i]
    BY <2>1, LenProperties
  <2> HIDE DEF filled
  <2>4. m # Reserved
    BY ReservedIsNoMember
  <2>5. Listed(filled) = Listed(members) \cup {m}
    BY <2>1, <2>3, <2>4 DEF Listed
  <2> QED
    BY <1>2, <2>2, <2>5
<1> QED
  BY <1>1, <1>2

\* One list changes, and of the units listed then none is newly at odds.
LEMMA OneSet ==
  ASSUME Types, NEW g \in DOMAIN groups, NEW list,
         groups' = [groups EXCEPT ![g].members = list],
         \A h \in DOMAIN groups : \A m \in Listed(groups'[h].members) :
           <<h, m>> \in raced' <=> <<h, m>> \in raced
  PROVE  Sets' = [Sets EXCEPT ![g] = Counted(g, list)]
<1>1. groups \in [DOMAIN groups -> Group] /\ groups[g] \in Group
  BY DEF Types
<1>2. DOMAIN groups' = DOMAIN groups /\ groups'[g] = [groups[g] EXCEPT !.members = list]
  BY <1>1
<1>3. groups'[g].members = list
  BY <1>1, <1>2 DEF Group
<1>4. \A h \in DOMAIN groups \ {g} : groups'[h] = groups[h]
  BY <1>1
<1>5. \A h \in DOMAIN groups : Steady(h)' = Counted(h, groups'[h].members)
  <2> SUFFICES ASSUME NEW h \in DOMAIN groups
               PROVE  {m \in Listed(groups'[h].members) : <<h, m>> \notin raced'}
                        = Counted(h, groups'[h].members)
    BY DEF Steady, Listed
  <2> QED
    BY DEF Counted
<1>6. \A h \in DOMAIN groups \ {g} : Counted(h, groups'[h].members) = Steady(h)
  BY <1>4 DEF Counted, Steady
<1>7. Sets' = [h \in DOMAIN groups |-> Steady(h)']
  BY <1>2 DEF Sets
<1>8. [Sets EXCEPT ![g] = Counted(g, list)]
        = [h \in DOMAIN groups |-> IF h = g THEN Counted(g, list) ELSE Steady(h)]
  BY DEF Sets
<1> QED
  BY <1>3, <1>5, <1>6, <1>7, <1>8

\* Nothing changes about the lists.
LEMMA NoSet == ASSUME UNCHANGED <<groups, raced>> PROVE Sets' = Sets
BY DEF Sets, Steady, Listed

\* An entry of a device's table comes or goes.
LEMMA OneEntry ==
  ASSUME Types, NEW d \in Devices, NEW g \in GroupAddresses, NEW u \in Units
  PROVE  /\ <<g, <<d, u>>>> \in Entries(table) <=> <<g, u>> \in table[d]
         /\ Entries([table EXCEPT ![d] = @ \cup {<<g, u>>}]) = Entries(table) \cup {<<g, <<d, u>>>>}
         /\ Entries([table EXCEPT ![d] = @ \ {<<g, u>>}]) = Entries(table) \ {<<g, <<d, u>>>>}
<1> DEFINE e == <<g, u>>
           p == <<g, <<d, u>>>>
<1>1. p \in GroupAddresses \X Member /\ DOMAIN table = Devices
  BY DEF Member, Types
<1>2. \A q \in GroupAddresses \X Member :
        /\ q = <<q[1], <<q[2][1], q[2][2]>>>> /\ q[2][1] \in Devices
  BY DEF Member
<1>3. \A q \in GroupAddresses \X Member :
        q[2][1] = d /\ <<q[1], q[2][2]>> = e <=> q = p
  BY <1>2
<1>4. <<p[1], p[2][2]>> = e /\ p[2][1] = d
  OBVIOUS
<1> HIDE DEF e, p
<1>5. p \in Entries(table) <=> e \in table[d]
  BY <1>1, <1>4 DEF Entries
<1>6. ASSUME NEW q \in GroupAddresses \X Member, NEW s, s \in {table[d] \cup {e}, table[d] \ {e}}
      PROVE  [table EXCEPT ![d] = s][q[2][1]] = IF q[2][1] = d THEN s ELSE table[q[2][1]]
  BY <1>1, <1>2
<1>7. Entries([table EXCEPT ![d] = @ \cup {e}]) = Entries(table) \cup {p}
  BY <1>1, <1>3, <1>4, <1>6 DEF Entries
<1>8. Entries([table EXCEPT ![d] = @ \ {e}]) = Entries(table) \ {p}
  BY <1>1, <1>3, <1>4, <1>6 DEF Entries
<1> QED
  BY <1>5, <1>7, <1>8 DEF e, p

\* The steps of Membership, in these terms.
Steps ==
  \/ Sets' = Sets /\ Entries(table') = Entries(table)
  \/ \E g \in GroupAddresses :
       \/ /\ g \notin DOMAIN Sets /\ Entries(table') = Entries(table)
          /\ Sets' = [h \in DOMAIN Sets \cup {g} |-> IF h = g THEN {} ELSE Sets[h]]
       \/ /\ g \in DOMAIN Sets /\ Entries(table') = Entries(table)
          /\ Sets' = [h \in DOMAIN Sets \ {g} |-> Sets[h]]
       \/ \E m \in Member :
            \/ /\ g \in DOMAIN Sets /\ m \notin Sets[g] /\ <<g, m>> \in Entries(table)
               /\ Sets' = [Sets EXCEPT ![g] = @ \cup {m}] /\ Entries(table') = Entries(table)
            \/ /\ g \in DOMAIN Sets /\ m \in Sets[g]
               /\ Sets' = [Sets EXCEPT ![g] = @ \ {m}] /\ Entries(table') = Entries(table)
            \/ Sets' = Sets /\ Entries(table') = Entries(table) \cup {<<g, m>>}
            \/ /\ ~(g \in DOMAIN Sets /\ m \in Sets[g])
               /\ Sets' = Sets /\ Entries(table') = Entries(table) \ {<<g, m>>}

LEMMA PromisedSteps == ASSUME Steps PROVE [Promise!Next]_(Promise!vars)
<1>1. CASE Sets' = Sets /\ Entries(table') = Entries(table)
  BY <1>1 DEF Promise!vars, Sets, Entries
<1>2. ASSUME NEW g \in GroupAddresses, g \notin DOMAIN Sets, Entries(table') = Entries(table),
             Sets' = [h \in DOMAIN Sets \cup {g} |-> IF h = g THEN {} ELSE Sets[h]]
      PROVE  Promise!Next
  <2>1. Promise!Create(g)
    BY <1>2 DEF Promise!Create, Sets, Entries
  <2> QED
    BY <2>1 DEF Promise!Next
<1>3. ASSUME NEW g \in GroupAddresses, g \in DOMAIN Sets, Entries(table') = Entries(table),
             Sets' = [h \in DOMAIN Sets \ {g} |-> Sets[h]]
      PROVE  Promise!Next
  <2>1. Promise!Delete(g)
    BY <1>3 DEF Promise!Delete, Sets, Entries
  <2> QED
    BY <2>1 DEF Promise!Next
<1>4. ASSUME NEW g \in GroupAddresses, NEW m \in Member,
             g \in DOMAIN Sets, m \notin Sets[g], <<g, m>> \in Entries(table),
             Sets' = [Sets EXCEPT ![g] = @ \cup {m}], Entries(table') = Entries(table)
      PROVE  Promise!Next
  <2>1. Promise!Join(g, m)
    BY <1>4 DEF Promise!Join, Promise!IsMember, Sets, Entries
  <2> QED
    BY <2>1 DEF Promise!Next
<1>5. ASSUME NEW g \in GroupAddresses, NEW m \in Member, g \in DOMAIN Sets, m \in Sets[g],
             Sets' = [Sets EXCEPT ![g] = @ \ {m}], Entries(table') = Entries(table)
      PROVE  Promise!Next
  <2>1. Promise!Leave(g, m)
    BY <1>5 DEF Promise!Leave, Promise!IsMember, Sets, Entries
  <2> QED
    BY <2>1 DEF Promise!Next
<1>6. ASSUME NEW g \in GroupAddresses, NEW m \in Member,
             Sets' = Sets, Entries(table') = Entries(table) \cup {<<g, m>>}
      PROVE  Promise!Next
  <2>1. Promise!Store(g, m)
    BY <1>6 DEF Promise!Store, Sets, Entries
  <2> QED
    BY <2>1 DEF Promise!Next
<1>7. ASSUME NEW g \in GroupAddresses, NEW m \in Member, ~(g \in DOMAIN Sets /\ m \in Sets[g]),
             Sets' = Sets, Entries(table') = Entries(table) \ {<<g, m>>}
      PROVE  Promise!Next
  <2>1. Promise!Forget(g, m)
    BY <1>7 DEF Promise!Forget, Promise!IsMember, Sets, Entries
  <2> QED
    BY <2>1 DEF Promise!Next
<1> QED
  BY <1>1, <1>2, <1>3, <1>4, <1>5, <1>6, <1>7 DEF Steps

\* A list that changes and names the same members.
LEMMA SameSet ==
  ASSUME Types, NEW g \in DOMAIN groups, NEW list, Listed(list) = Listed(groups[g].members),
         groups' = [groups EXCEPT ![g].members = list],
         \A h \in DOMAIN groups : \A m \in Listed(groups'[h].members) :
           <<h, m>> \in raced' <=> <<h, m>> \in raced
  PROVE  Sets' = Sets
<1>1. Sets' = [Sets EXCEPT ![g] = Counted(g, list)]
  BY OneSet
<1>2. Counted(g, list) = Steady(g)
  BY DEF Counted, Steady
<1> QED
  BY <1>1, <1>2 DEF Sets

LEMMA CreatePromised ==
  ASSUME IInv, IInv', NEW name \in Names, create(name)
  PROVE  Steps
<1> DEFINE n == next_address
           free == GroupAddresses \ DOMAIN groups
<1>1. n \in GroupAddresses \ DOMAIN groups
  <2>1. free \subseteq Nat
    BY DEF GroupAddresses
  <2>2. n # NO_ADDR
    BY DEF create
  <2>3. free # {} /\ n = CHOOSE g \in free : \A h \in free : g <= h
    BY <2>2 DEF next_address
  <2> QED
    BY <2>1, <2>3, Minimum
<1> HIDE DEF n
<1>2. /\ groups' = [g \in DOMAIN groups \cup {n} |->
                     IF g = n THEN [name |-> name, members |-> <<>>] ELSE groups[g]]
      /\ table' = table /\ raced' = raced
  BY DEF create, n
<1>3. Listed(<<>>) = {}
  BY EmptySeq DEF Listed
<1>4. Sets' = [h \in DOMAIN Sets \cup {n} |-> IF h = n THEN {} ELSE Sets[h]]
  <2>1. DOMAIN groups' = DOMAIN groups \cup {n} /\ DOMAIN Sets = DOMAIN groups
    BY <1>2 DEF Sets
  <2>2. \A h \in DOMAIN groups' : Steady(h)' = IF h = n THEN {} ELSE Sets[h]
    <3>1. ASSUME NEW h \in DOMAIN groups'
          PROVE  Steady(h)' = Counted(h, groups'[h].members)
      BY <1>2 DEF Steady, Counted, Listed
    <3>2. groups'[n].members = <<>> /\ \A h \in DOMAIN groups : groups'[h] = groups[h]
      BY <1>1, <1>2
    <3>3. Counted(n, groups'[n].members) = {}
      BY <1>3, <3>2 DEF Counted
    <3>4. \A h \in DOMAIN groups : Counted(h, groups'[h].members) = Sets[h]
      BY <3>2 DEF Counted, Sets, Steady
    <3> QED
      BY <1>1, <2>1, <3>1, <3>3, <3>4
  <2>3. Sets' = [h \in DOMAIN groups' |-> Steady(h)']
    BY DEF Sets
  <2> QED
    BY <2>1, <2>2, <2>3
<1>5. n \notin DOMAIN Sets
  BY <1>1 DEF Sets
<1> QED
  BY <1>1, <1>2, <1>4, <1>5 DEF Steps

LEMMA DeletePromised ==
  ASSUME IInv, NEW g \in GroupAddresses, delete(g)
  PROVE  Steps
<1>1. /\ g \in DOMAIN groups /\ table' = table /\ raced' = raced
      /\ groups' = [h \in DOMAIN groups \ {g} |-> groups[h]]
  BY DEF delete
<1>2. g \in DOMAIN Sets /\ Sets' = [h \in DOMAIN Sets \ {g} |-> Sets[h]]
  <2>1. DOMAIN groups' = DOMAIN groups \ {g} /\ \A h \in DOMAIN groups' : groups'[h] = groups[h]
    BY <1>1
  <2>2. \A h \in DOMAIN groups' : Steady(h)' = Steady(h)
    BY <1>1, <2>1 DEF Steady, Listed
  <2>3. Sets' = [h \in DOMAIN groups' |-> Steady(h)']
    BY DEF Sets
  <2> QED
    BY <1>1, <2>1, <2>2, <2>3 DEF Sets
<1> QED
  BY <1>1, <1>2 DEF Steps

\* Reserving a place, or giving it up, makes nobody a member.
LEMMA AddPromised ==
  ASSUME IInv, NEW c \in Controllers, NEW a \in Addition, add(c, a)
  PROVE  Steps
<1> DEFINE g == a.group
           u == <<a.device, a.unit>>
           members == groups[g].members
<1>0. Types
  BY DEF IInv
<1>1. g \in DOMAIN groups /\ table' = table
  BY DEF add
<1>2. members \in Seq(Place) /\ Len(members) <= MaxMembers /\ Distinct(members, Racing(g))
  BY <1>1, MembersType DEF IInv, Lists
<1>3. /\ Listed(reserve(members)) = Listed(members)
      /\ Listed(remove(reserve(members), Reserved)) = Listed(members)
  <2> HIDE DEF members
  <2> QED
    BY <1>2, ListedReserved
<1>4. \/ groups' = [groups EXCEPT ![g].members = reserve(members)]
      \/ groups' = [groups EXCEPT ![g].members = remove(reserve(members), Reserved)]
  BY DEF add
<1>5. \/ raced' = raced
      \/ ~exists(members, u) /\ raced' \in {raced \cup {<<g, u>>}, raced \ {<<g, u>>}}
  BY DEF add
<1>6. exists(members, u) <=> u \in Listed(members)
  <2>1. u \in Member
    BY DEF Addition, Member
  <2> QED
    BY <2>1, ReservedIsNoMember DEF exists, Places, Listed
<1> HIDE DEF u
<1>7. ASSUME NEW list, Listed(list) = Listed(members),
             groups' = [groups EXCEPT ![g].members = list]
      PROVE  Sets' = Sets
  <2>1. \A h \in DOMAIN groups : Listed(groups'[h].members) = Listed(groups[h].members)
    <3>1. groups \in [DOMAIN groups -> Group] /\ groups[g] \in Group
      BY <1>0, <1>1 DEF Types
    <3>2. groups'[g].members = list /\ \A h \in DOMAIN groups \ {g} : groups'[h] = groups[h]
      BY <1>1, <1>7, <3>1 DEF Group
    <3> QED
      BY <1>7, <3>2
  <2>2. ASSUME NEW h \in DOMAIN groups, NEW m \in Listed(groups'[h].members)
        PROVE  <<h, m>> \in raced' <=> <<h, m>> \in raced
    <3>1. <<h, m>> = <<g, u>> => exists(members, u)
      BY <1>6, <2>1, <2>2
    <3> QED
      BY <1>5, <3>1
  <2> HIDE DEF g
  <2> QED
    BY <1>0, <1>1, <1>7, <2>2, SameSet
<1> HIDE DEF g
<1>8. Sets' = Sets
  BY <1>3, <1>4, <1>7
<1> QED
  BY <1>1, <1>8 DEF Steps

\* Whatever leaves the list, at most the one unit leaves the set.
LEMMA RemovePromised ==
  ASSUME IInv, NEW g \in GroupAddresses, NEW m \in Member, remove_member(g, m)
  PROVE  Steps
<1> DEFINE members == groups[g].members
<1>1. /\ g \in DOMAIN groups /\ table' = table /\ exists(members, m) /\ raced' = raced
      /\ groups' = [groups EXCEPT ![g].members = remove(members, m)]
  BY DEF remove_member
<1>2. members \in Seq(Place) /\ Len(members) <= MaxMembers /\ Distinct(members, Racing(g))
  BY <1>1, MembersType DEF IInv, Lists
<1>3. /\ Listed(remove(members, m)) \subseteq Listed(members)
      /\ Listed(members) \ {m} \subseteq Listed(remove(members, m))
      /\ m \notin Racing(g) => m \notin Listed(remove(members, m))
  <2> HIDE DEF members
  <2> QED
    BY <1>2, ListedRemoved
<1>4. m \in Listed(members)
  BY <1>1, ReservedIsNoMember DEF exists, Places, Listed
<1>5. g \in DOMAIN Sets /\ Sets[g] = Counted(g, members)
  BY <1>1 DEF Sets, Steady, Counted
<1>6. Counted(g, remove(members, m)) = Counted(g, members) \ {m}
  <2>1. m \in Racing(g) <=> <<g, m>> \in raced
    BY DEF Racing
  <2> QED
    BY <1>3, <2>1 DEF Counted
<1>7. Sets' = [Sets EXCEPT ![g] = Counted(g, remove(members, m))]
  BY <1>1, OneSet DEF IInv
<1>8. CASE m \in Sets[g]
  BY <1>1, <1>5, <1>6, <1>7, <1>8 DEF Steps
<1>9. CASE m \notin Sets[g]
  <2>1. Counted(g, remove(members, m)) = Sets[g]
    BY <1>5, <1>6, <1>9
  <2>2. Sets' = Sets
    BY <1>7, <2>1 DEF Sets
  <2> QED
    BY <1>1, <2>2 DEF Steps
<1> QED
  BY <1>8, <1>9

LEMMA TableAddPromised ==
  ASSUME IInv, NEW d \in Devices, table_add(d)
  PROVE  Steps
<1> DEFINE req == Head(down[d])
<1>1. UNCHANGED <<groups, raced>> /\ down[d] # <<>> /\ down[d] \in Seq(Request)
  BY DEF table_add, IInv, Types
<1>2. req \in Request
  BY <1>1, Popped
<1>3. req.group \in GroupAddresses /\ req.unit \in Units /\ <<d, req.unit>> \in Member
  BY <1>2 DEF Request, Member
<1>4. table' = table \/ table' = [table EXCEPT ![d] = @ \cup {<<req.group, req.unit>>}]
  BY DEF table_add
<1> HIDE DEF req
<1>5. \/ Entries(table') = Entries(table)
      \/ Entries(table') = Entries(table) \cup {<<req.group, <<d, req.unit>>>>}
  <2> DEFINE e == <<req.group, req.unit>>
             p == <<req.group, <<d, req.unit>>>>
  <2>1. Types
    BY DEF IInv
  <2>2. Entries([table EXCEPT ![d] = @ \cup {e}]) = Entries(table) \cup {p}
    BY <1>3, <2>1, OneEntry
  <2>3. CASE table' = table
    BY <2>3
  <2>4. CASE table' = [table EXCEPT ![d] = @ \cup {e}]
    BY <2>2, <2>4
  <2> QED
    BY <1>4, <2>3, <2>4
<1>6. Sets' = Sets
  BY <1>1, NoSet
<1> QED
  BY <1>3, <1>5, <1>6 DEF Steps

\* A device is told to forget a group only for units that are not listed.
LEMMA TableRemovePromised ==
  ASSUME IInv, NEW d \in Devices, table_remove(d)
  PROVE  Steps
<1> DEFINE req == Head(down[d])
           u == <<d, req.unit>>
<1>1. UNCHANGED <<groups, raced>> /\ down[d] # <<>> /\ down[d] \in Seq(Request)
  BY DEF table_remove, IInv, Types
<1>2. req \in Request /\ req = down[d][1] /\ 1 \in DOMAIN down[d]
  BY <1>1, Popped
<1>3. req.group \in GroupAddresses /\ req.unit \in Units /\ u \in Member
  BY <1>2 DEF Request, Member
<1>4. table' = [table EXCEPT ![d] = @ \ {<<req.group, req.unit>>}]
  BY DEF table_remove
<1>5. ~(req.group \in DOMAIN Sets /\ u \in Sets[req.group])
  <2> SUFFICES ASSUME req.group \in DOMAIN groups, u \in Steady(req.group)
               PROVE  FALSE
    BY DEF Sets
  <2>1. Settled(req.group, d, req.unit)
    BY DEF IInv, MembersSettled
  <2> QED
    BY <1>2, <2>1 DEF Settled, About
<1>6. Sets' = Sets
  BY <1>1, NoSet
<1> HIDE DEF req
<1>7. Entries(table') = Entries(table) \ {<<req.group, u>>}
  BY <1>3, <1>4, OneEntry DEF IInv
<1> HIDE DEF u
<1> QED
  BY <1>3, <1>5, <1>6, <1>7 DEF Steps

\* The answer that makes a member finds its entry still stored.
LEMMA AddedPromised ==
  ASSUME IInv, NEW d \in Devices, added(d)
  PROVE  Steps
<1> DEFINE r == Head(up[d])
           g == r.group
           members == groups[g].members
           m == <<d, r.unit>>
<1>0. Types
  BY DEF IInv
<1>1. table' = table /\ raced' = raced /\ up[d] # <<>> /\ up[d] \in Seq(Answer)
  BY DEF added, IInv, Types
<1>2. r \in Answer /\ r = up[d][1] /\ 1 \in DOMAIN up[d]
  BY <1>1, Popped
<1>3. g \in GroupAddresses /\ r.unit \in Units /\ m \in Member
  BY <1>2 DEF Answer, Member
<1>4. g \in DOMAIN groups => m \notin Counted(g, members)
  <2> SUFFICES ASSUME g \in DOMAIN groups, m \in Steady(g) PROVE FALSE
    BY DEF Counted, Steady
  <2>1. Settled(g, d, r.unit)
    BY DEF IInv, MembersSettled
  <2> QED
    BY <1>2, <2>1 DEF Settled, About
<1>5. r.code = "OK" /\ <<g, m>> \notin raced => <<g, r.unit>> \in table[d]
  BY <1>2 DEF IInv, AnswersAlone, Calm, Alone
<1>6. r.code = "OK" /\ <<g, m>> \notin raced => <<g, m>> \in Entries(table)
  <2> HIDE DEF r, g
  <2> QED
    BY <1>0, <1>3, <1>5, OneEntry
<1>7. \/ groups' = groups
      \/ g \in DOMAIN groups /\ groups' = [groups EXCEPT ![g].members = remove(members, Reserved)]
      \/ /\ g \in DOMAIN groups /\ r.code = "OK"
         /\ groups' = [groups EXCEPT ![g].members = update(members, m)]
  BY DEF added, stored
<1>8. ASSUME g \in DOMAIN groups
      PROVE  /\ Listed(remove(members, Reserved)) = Listed(members)
             /\ Listed(update(members, m)) \in {Listed(members), Listed(members) \cup {m}}
  <2>1. members \in Seq(Place) /\ Len(members) <= MaxMembers /\ Distinct(members, Racing(g))
    BY <1>0, <1>8, MembersType DEF IInv, Lists
  <2>2. Reserved \notin Listed(members)
    BY DEF Listed
  <2> HIDE DEF members, m
  <2>3. /\ Listed(remove(members, Reserved)) \subseteq Listed(members)
        /\ Listed(members) \ {Reserved} \subseteq Listed(remove(members, Reserved))
    BY <2>1, ListedRemoved
  <2>4. Listed(remove(members, Reserved)) = Listed(members)
    BY <2>2, <2>3
  <2> QED
    BY <1>3, <2>1, <2>4, ListedUpdated
<1> HIDE DEF r, g, m
<1>9. CASE groups' = groups
  BY <1>1, <1>9, NoSet DEF Steps
<1>10. ASSUME g \in DOMAIN groups, NEW list, groups' = [groups EXCEPT ![g].members = list],
              Listed(list) = Listed(members)
       PROVE  Steps
  <2>1. Sets' = Sets
    BY <1>0, <1>1, <1>10, SameSet
  <2> QED
    BY <1>1, <2>1 DEF Steps
<1>11. CASE g \in DOMAIN groups /\ groups' = [groups EXCEPT ![g].members = remove(members, Reserved)]
  BY <1>8, <1>10, <1>11
<1>12. CASE /\ g \in DOMAIN groups /\ r.code = "OK"
            /\ groups' = [groups EXCEPT ![g].members = update(members, m)]
  <2>1. CASE Listed(update(members, m)) = Listed(members)
    BY <1>10, <1>12, <2>1
  <2>2. CASE Listed(update(members, m)) = Listed(members) \cup {m}
    <3>1. Sets' = [Sets EXCEPT ![g] = Counted(g, update(members, m))]
      BY <1>0, <1>1, <1>12, OneSet
    <3>2. g \in DOMAIN Sets /\ Sets[g] = Counted(g, members)
      BY <1>12 DEF Sets, Steady, Counted
    <3>3. CASE <<g, m>> \in raced
      <4>1. Counted(g, update(members, m)) = Sets[g]
        BY <2>2, <3>2, <3>3 DEF Counted
      <4>2. Sets' = Sets
        BY <3>1, <4>1 DEF Sets
      <4> QED
        BY <1>1, <4>2 DEF Steps
    <3>4. CASE <<g, m>> \notin raced
      <4>1. Counted(g, update(members, m)) = Sets[g] \cup {m}
        BY <2>2, <3>2, <3>4 DEF Counted
      <4>2. Sets' = [Sets EXCEPT ![g] = @ \cup {m}] /\ m \notin Sets[g]
        BY <1>4, <1>12, <3>1, <3>2, <4>1
      <4>3. <<g, m>> \in Entries(table) /\ Entries(table') = Entries(table)
        BY <1>1, <1>6, <1>12, <3>4
      <4> QED
        BY <1>3, <3>2, <4>2, <4>3 DEF Steps
    <3> QED
      BY <3>3, <3>4
  <2> QED
    BY <1>8, <1>12, <2>1, <2>2
<1> QED
  BY <1>7, <1>9, <1>11, <1>12

LEMMA StepPromised == ASSUME IInv, IInv', [Next]_vars PROVE Steps
<1>1. CASE \E name \in Names : create(name)
  BY <1>1, CreatePromised
<1>2. CASE \E g \in GroupAddresses : delete(g)
  BY <1>2, DeletePromised
<1>3. CASE \E g \in GroupAddresses, m \in Member : remove_member(g, m)
  BY <1>3, RemovePromised
<1>4. CASE \E c \in Controllers, a \in Addition : add(c, a)
  BY <1>4, AddPromised
<1>5. CASE \E d \in Devices : table_add(d)
  BY <1>5, TableAddPromised
<1>6. CASE \E d \in Devices : table_remove(d)
  BY <1>6, TableRemovePromised
<1>7. CASE \E d \in Devices : added(d)
  BY <1>7, AddedPromised
<1>8. CASE \E d \in Devices : disconnect(d)
  BY <1>8, NoSet DEF disconnect, Steps
<1>9. CASE UNCHANGED vars
  BY <1>9, NoSet DEF vars, Steps
<1> QED
  BY <1>1, <1>2, <1>3, <1>4, <1>5, <1>6, <1>7, <1>8, <1>9 DEF Next

\* Groups implement Membership (MembersInStep): whatever is lost, refused or
\* deleted on the way, units join and leave in one step each, join when they have stored
\* the group and forget it when they have left.
THEOREM GroupsKeepPromise == Spec => MembersInStep
<1>1. Init => Promise!Init
  <2> SUFFICES ASSUME Init PROVE Promise!Init
    OBVIOUS
  <2>1. DOMAIN groups = {} /\ \A d \in Devices : table[d] = {}
    BY DEF Init
  <2>2. [g \in DOMAIN groups |-> Steady(g)] = [g \in {} |-> {}]
    BY <2>1
  <2>3. \A p \in GroupAddresses \X Member : <<p[1], p[2][2]>> \notin table[p[2][1]]
    BY <2>1 DEF Member
  <2> QED
    BY <2>2, <2>3 DEF Promise!Init
<1>2. IInv /\ IInv' /\ [Next]_vars => [Promise!Next]_(Promise!vars)
  BY StepPromised, PromisedSteps
<1> QED
  BY <1>1, <1>2, Inductive, PTL DEF Spec, MembersInStep, Promise!Spec
=============================================================================
