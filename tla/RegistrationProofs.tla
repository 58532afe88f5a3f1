------------------------- MODULE RegistrationProofs -------------------------
(* Proofs that the registration protocol keeps its tables consistent, for  *)
(* every finite set of devices, address range and environment.             *)
EXTENDS Registration, FiniteSetTheorems, SequenceTheorems, TLAPS

USE DEF START_ADDR, BROADCAST_ADDR, DeviceAddresses, Addresses

-----------------------------------------------------------------------------
(* The operators the protocol is built from.                               *)

LEMMA Minimum ==
  ASSUME NEW S, S \subseteq Nat, S # {}
  PROVE  \E a \in S : \A b \in S : a <= b
<1>1. PICK a \in S : \A b \in S : ~(<<b, a>> \in OpToRel(<, Nat))
  BY WFMin, NatLessThanWellFounded
<1>2. ASSUME NEW b \in S, b < a PROVE FALSE
  <2>1. <<b, a>> \in Nat \X Nat /\ <<b, a>>[1] < <<b, a>>[2]
    BY <1>2
  <2>2. <<b, a>> \in OpToRel(<, Nat)
    BY <2>1, Zenon DEF OpToRel
  <2> QED
    BY <2>2, <1>1
<1> QED
  BY <1>2

\* next_address returns an address nobody holds, or BROADCAST_ADDR.
LEMMA FirstFreeIsFree ==
  /\ FirstFree \in Addresses
  /\ FirstFree # BROADCAST_ADDR => At(FirstFree) = {}
<1>1. CASE Free = {}
  BY <1>1, MaxAddressAssumption DEF FirstFree
<1>2. CASE Free # {}
  <2>1. Free \subseteq Nat
    BY MaxAddressAssumption DEF Free
  <2>2. FirstFree \in Free
    BY <1>2, <2>1, Minimum DEF FirstFree
  <2> QED
    BY <2>2, MaxAddressAssumption DEF Free
<1> QED
  BY <1>1, <1>2

Link == [uid : Nodes, address : Addresses]

\* A link lookup yields a link of the list, or none.
LEMMA LinkToIsALink ==
  ASSUME links \in Seq(Link), NEW a
  PROVE  LinkTo(a) \in {0} \cup DOMAIN links
<1> DEFINE tagged == {i \in DOMAIN links : links[i].address = a}
<1>1. tagged \subseteq Nat
  BY LenProperties
<1>2. tagged # {} => LinkTo(a) \in tagged
  BY <1>1, Minimum DEF LinkTo
<1> QED
  BY <1>2 DEF LinkTo

-----------------------------------------------------------------------------
(* What a restart reads back.                                              *)

\* A set that holds 0 and, with each number below n, the next: it has all up to n.
LEMMA UpTo ==
  ASSUME NEW n \in Nat, NEW S, 0 \in S, \A i \in 0..n : i \in S /\ i < n => i + 1 \in S
  PROVE  \A i \in 0..n : i \in S
<1> DEFINE T == (0..n) \ S
<1> SUFFICES ASSUME T # {} PROVE FALSE
  OBVIOUS
<1>1. T \subseteq Nat
  OBVIOUS
<1> HIDE DEF T
<1>2. PICK a \in T : \A b \in T : a <= b
  BY <1>1, Minimum
<1>3. a \in 0..n /\ a \notin S
  BY DEF T
<1>4. a # 0
  BY <1>3
<1>5. a - 1 \in T
  BY <1>3, <1>4 DEF T
<1> QED
  BY <1>2, <1>3, <1>5

\* A list read over another is one of the same elements.
LEMMA OverType ==
  ASSUME NEW S, NEW new \in Seq(S), NEW old \in Seq(S), NEW blank \in S
  PROVE  Over(new, old, blank) \in Seq(S)
<1>1. Len(new) \in Nat /\ Len(old) \in Nat
  BY LenProperties
<1>2. \A i \in 1..(Len(new) + Len(old)) :
        (IF i <= Len(new) THEN new[i] ELSE IF i <= Len(old) THEN old[i] ELSE blank) \in S
  BY <1>1, ElementOfSeq
<1>3. Over(new, old, blank) \in [1..(Len(new) + Len(old)) -> S]
  BY <1>2 DEF Over
<1> QED
  BY <1>1, <1>3, SeqDef

LEMMA UnitsOverType ==
  ASSUME NEW new \in ConfigType, NEW old \in ConfigType
  PROVE  UnitsOver(new, old) \in ConfigType
<1>1. Len(new) \in Nat
  BY LenProperties DEF ConfigType
<1>2. ASSUME NEW i \in 1..Len(new) PROVE UnitOver(new[i], old, i) \in Unit
  <2>1. new[i] \in Unit
    BY <1>2, ElementOfSeq DEF ConfigType
  <2> DEFINE itfs == IF i <= Len(old) THEN old[i].itfs ELSE <<>>
  <2>2. itfs \in Seq(Played)
    <3>1. CASE i <= Len(old)
      <4>1. Len(old) \in Nat
        BY LenProperties DEF ConfigType
      <4>2. i \in 1..Len(old)
        BY <1>1, <3>1, <4>1
      <4>3. old[i] \in Unit
        BY <4>2, ElementOfSeq DEF ConfigType
      <4> QED
        BY <3>1, <4>3 DEF Unit
    <3>2. CASE ~(i <= Len(old))
      BY <3>2, EmptySeq
    <3> QED
      BY <3>1, <3>2
  <2>3. "blank" \in Played
    BY DEF Played
  <2> HIDE DEF itfs
  <2>4. new[i].itfs \in Seq(Played)
    BY <2>1 DEF Unit
  <2>5. Over(new[i].itfs, itfs, "blank") \in Seq(Played)
    BY <2>2, <2>3, <2>4, OverType
  <2>6. UnitOver(new[i], old, i) = [new[i] EXCEPT !.itfs = Over(new[i].itfs, itfs, "blank")]
    BY DEF UnitOver, itfs
  <2> QED
    BY <2>1, <2>5, <2>6 DEF Unit
<1> DEFINE head == [i \in 1..Len(new) |-> UnitOver(new[i], old, i)]
<1>3. head \in [1..Len(new) -> Unit]
  BY <1>2
<1> HIDE DEF head
<1>4. head \in Seq(Unit)
  BY <1>1, <1>3, SeqDef
<1>5. Blank \in Unit
  BY UnitIdsAssumption, EmptySeq DEF Blank, Unit, Played
<1>6. UnitsOver(new, old) = Over(head, old, Blank)
  BY DEF UnitsOver, head
<1> QED
  BY <1>4, <1>5, <1>6, OverType DEF ConfigType

\* The unit lists of a file exist, each read over the one before.
LEMMA UnitsReadUnfolds ==
  ASSUME NEW n \in Nat, Cardinality(devices) = n, NEW file
  PROVE  UnitsRead(file) = [i \in 0..n |-> IF i = 0 THEN <<>>
                              ELSE UnitsOver(file[i].units, UnitsRead(file)[i - 1])]
<1> DEFINE Run(read, m) ==
             read = [i \in 0..m |-> IF i = 0 THEN <<>>
                                    ELSE UnitsOver(file[i].units, read[i - 1])]
           S == {m \in 0..n : \E read : Run(read, m)}
<1>1. 0 \in S
  <2>1. Run([i \in 0..0 |-> <<>>], 0)
    OBVIOUS
  <2> HIDE DEF Run
  <2> QED
    BY <2>1
<1>2. ASSUME NEW m \in 0..n, m \in S, m < n PROVE m + 1 \in S
  <2>1. PICK f : Run(f, m)
    BY <1>2
  <2> DEFINE g == [i \in 0..(m + 1) |-> IF i <= m THEN f[i]
                                        ELSE UnitsOver(file[m + 1].units, f[m])]
  <2>2. Run(g, m + 1)
    <3>1. ASSUME NEW i \in 0..(m + 1)
          PROVE  g[i] = IF i = 0 THEN <<>> ELSE UnitsOver(file[i].units, g[i - 1])
      <4>1. CASE i = m + 1
        BY <4>1
      <4>2. CASE i <= m
        BY <4>2, <2>1
      <4> QED
        BY <4>1, <4>2
    <3> QED
      BY <3>1
  <2> HIDE DEF Run, g
  <2>3. \E read : Run(read, m + 1)
    BY <2>2
  <2> QED
    BY <1>2, <2>3
<1>3. n \in S
  <2> HIDE DEF S
  <2> QED
    BY <1>1, <1>2, UpTo
<1>4. \E read : Run(read, n)
  BY <1>3
<1>5. Run(CHOOSE read : Run(read, n), n)
  <2> HIDE DEF Run
  <2> QED
    BY <1>4
<1>6. UnitsRead(file) = CHOOSE read : Run(read, n)
  BY DEF UnitsRead
<1> HIDE DEF Run
<1>7. Run(UnitsRead(file), n)
  BY <1>5, <1>6
<1> QED
  BY <1>7 DEF Run

LEMMA UnitsReadType ==
  ASSUME NEW n \in Nat, Cardinality(devices) = n, NEW file \in [1..n -> Device]
  PROVE  \A i \in 0..n : UnitsRead(file)[i] \in ConfigType
<1> DEFINE read == UnitsRead(file)
           S == {i \in 0..n : read[i] \in ConfigType}
<1>1. read = [i \in 0..n |-> IF i = 0 THEN <<>> ELSE UnitsOver(file[i].units, read[i - 1])]
  BY UnitsReadUnfolds
<1> HIDE DEF read
<1>2. 0 \in S
  BY <1>1, EmptySeq DEF ConfigType
<1>3. ASSUME NEW i \in 0..n, i \in S, i < n PROVE i + 1 \in S
  <2>1. i + 1 \in 1..n /\ i + 1 \in 0..n
    BY <1>3
  <2>2. file[i + 1].units \in ConfigType
    BY <2>1 DEF Device
  <2>3. read[i] \in ConfigType
    BY <1>3
  <2>4. read[i + 1] = UnitsOver(file[i + 1].units, read[i])
    BY <1>1, <1>3, <2>1
  <2>5. read[i + 1] \in ConfigType
    BY <2>2, <2>3, <2>4, UnitsOverType
  <2> QED
    BY <2>1, <2>5
<1> HIDE DEF S
<1>4. \A i \in 0..n : i \in S
  BY <1>2, <1>3, UpTo
<1> QED
  BY <1>4 DEF S, read

\* There are finitely many devices: no two have the same UID.
LEMMA DevicesFinite ==
  ASSUME devices \subseteq Device, UniqueDevices
  PROVE  Cardinality(devices) \in Nat
<1> DEFINE uids == {d.uid : d \in devices}
           entry == [u \in uids |-> CHOOSE d \in devices : d.uid = u]
<1>1. uids \subseteq Nodes
  BY DEF Device
<1>2. IsFiniteSet(uids)
  BY <1>1, NodesAssumption, FS_Subset
<1>3. \A u \in uids : entry[u] \in devices /\ entry[u].uid = u
  OBVIOUS
<1>4. entry \in [uids -> devices]
  BY <1>3
<1>5. \A d \in devices : d.uid \in uids
  OBVIOUS
<1> HIDE DEF uids, entry
<1>6. \A d \in devices : entry[d.uid] = d
  BY <1>3, <1>5 DEF UniqueDevices
<1>7. entry \in Surjection(uids, devices)
  BY <1>4, <1>5, <1>6 DEF Surjection
<1> QED
  BY <1>2, <1>7, FS_Surjection, FS_CardinalityType

\* A restart gives every device back, with its UID and address.
LEMMA RestoreKeepsDevices ==
  ASSUME devices \subseteq Device, UniqueDevices, Restore
  PROVE  /\ devices' \subseteq Device /\ UniqueDevices'
         /\ \A d \in devices : \E e \in devices' : e.uid = d.uid /\ e.address = d.address
<1> DEFINE n == Cardinality(devices)
           entry(file, i) == [file[i] EXCEPT !.units = UnitsRead(file)[i]]
<1>1. PICK file \in Files : devices' = {entry(file, i) : i \in 1..n}
  BY DEF Restore
<1>2. n \in Nat
  BY DevicesFinite
<1>3. /\ file \in [1..n -> devices]
      /\ \A i, j \in 1..n : file[i] = file[j] => i = j
      /\ \A d \in devices : \E i \in 1..n : file[i] = d
  BY DEF Files, Bijection, Injection, Surjection, IsInjective
<1>4. \A i \in 1..n : UnitsRead(file)[i] \in ConfigType
  BY <1>2, <1>3, UnitsReadType
<1>5. \A i \in 1..n : /\ entry(file, i) \in Device
                      /\ entry(file, i).uid = file[i].uid
                      /\ entry(file, i).address = file[i].address
  BY <1>3, <1>4 DEF Device
<1> HIDE DEF n, entry
<1>6. devices' \subseteq Device
  BY <1>1, <1>5
<1>7. UniqueDevices'
  <2> SUFFICES ASSUME NEW d \in devices', NEW e \in devices',
                      d.address = e.address \/ d.uid = e.uid
               PROVE  d = e
    BY DEF UniqueDevices
  <2>1. PICK i \in 1..n : d = entry(file, i)
    BY <1>1
  <2>2. PICK j \in 1..n : e = entry(file, j)
    BY <1>1
  <2>3. file[i].address = file[j].address \/ file[i].uid = file[j].uid
    BY <1>5, <2>1, <2>2
  <2>4. file[i] = file[j]
    BY <1>3, <2>3 DEF UniqueDevices
  <2> QED
    BY <1>3, <2>1, <2>2, <2>4
<1>8. ASSUME NEW d \in devices
      PROVE  \E e \in devices' : e.uid = d.uid /\ e.address = d.address
  <2>1. PICK i \in 1..n : file[i] = d
    BY <1>3
  <2>2. entry(file, i) \in devices'
    BY <1>1
  <2> QED
    BY <1>5, <2>1, <2>2
<1> QED
  BY <1>6, <1>7, <1>8

-----------------------------------------------------------------------------
(* The inductive invariant.                                                *)

\* The address forced by the console is still free: every allocation uses it
\* up, so no allocation can have taken it since it was found available.
ForcedFree == next_address # BROADCAST_ADDR => At(next_address) = {}

\* A node has one link in the list, and only a linked node has packets queued.
LinksDistinct ==
  /\ \A i, j \in DOMAIN links : links[i].uid = links[j].uid => i = j
  /\ \A n \in Nodes : up[n] # <<>> => Linked(n)

\* LinksTagged without AddressOf.
LinksMatch ==
  \A i \in DOMAIN links, d \in devices :
    links[i].uid = d.uid => links[i].address = d.address

IInv == TypeOK /\ UniqueDevices /\ BindsResolve /\ ForcedFree
          /\ LinksDistinct /\ LinksMatch

LEMMA InitIInv == Init => IInv
BY EmptySeq, MaxAddressAssumption
   DEF Init, IInv, TypeOK, UniqueDevices, BindsResolve, ForcedFree,
       LinksDistinct, LinksMatch

\* The tag of a registered device's link is its address.
LEMMA TaggedLinks == IInv => LinksTagged
BY DEF IInv, LinksTagged, LinksMatch, UniqueDevices, Of, AddressOf

\* What a deregistration or a crash during one leaves is a subset of the
\* tables in which the rows still resolve.
LEMMA DeregisterKeepsTables ==
  ASSUME IInv, NEW a \in DeviceAddresses, Deregister(a)
  PROVE  /\ devices' \subseteq devices
         /\ binds' \subseteq binds
         /\ UniqueDevices' /\ BindsResolve'
<1>1. devices' \subseteq devices /\ binds' \subseteq binds
  BY DEF Deregister
<1>2. UniqueDevices'
  BY <1>1 DEF IInv, UniqueDevices
<1>3. ASSUME NEW x, x # a, Entry(x) # {} PROVE Entry(x)' # {}
  BY <1>3 DEF Deregister, At, Entry
<1>4. ASSUME NEW b \in binds' PROVE b.source.device # a /\ b.destination.device # a
  BY DEF Deregister, BindsOf
<1>5. BindsResolve'
  BY <1>1, <1>3, <1>4 DEF IInv, BindsResolve
<1> QED
  BY <1>1, <1>2, <1>5

\* A restart leaves tables in which the rows resolve that did.
LEMMA RestartKeepsTables ==
  ASSUME IInv, Restore, binds' \subseteq binds, BaseDown
  PROVE  IInv'
<1>1. /\ devices' \subseteq Device /\ UniqueDevices'
      /\ \A d \in devices : \E e \in devices' : e.uid = d.uid /\ e.address = d.address
  BY RestoreKeepsDevices DEF IInv, TypeOK
<1>2. TypeOK'
  BY <1>1, EmptySeq, MaxAddressAssumption DEF IInv, TypeOK, BaseDown
<1>3. BindsResolve'
  <2>1. ASSUME NEW x, Entry(x) # {} PROVE Entry(x)' # {}
    BY <1>1, <2>1 DEF At, Entry
  <2> QED
    BY <2>1 DEF IInv, BindsResolve
<1>4. ForcedFree' /\ LinksDistinct' /\ LinksMatch'
  BY DEF BaseDown, ForcedFree, LinksDistinct, LinksMatch
<1> QED
  BY <1>1, <1>2, <1>3, <1>4 DEF IInv

-----------------------------------------------------------------------------
(* Every step preserves the invariant.                                     *)

LEMMA ConnectStep ==
  ASSUME IInv, NEW n \in Nodes, Connect(n)
  PROVE  IInv'
<1> DEFINE new == [uid |-> n, address |-> AddressOf(n)]
<1>1. AddressOf(n) \in Addresses
  BY MaxAddressAssumption DEF IInv, TypeOK, AddressOf, Of, Device
<1>2. new \in Link /\ links \in Seq(Link)
  BY <1>1 DEF IInv, TypeOK, Link
<1> HIDE DEF new
<1>3. links' = <<new>> \o links
  BY DEF Connect, new
<1>4. /\ links' \in Seq(Link)
      /\ DOMAIN links' = 1..(Len(links) + 1)
      /\ \A i \in DOMAIN links' : links'[i] = IF i = 1 THEN new ELSE links[i - 1]
      /\ DOMAIN links = 1..Len(links) /\ Len(links) \in Nat
  <2>1. <<new>> \in Seq(Link) /\ Len(<<new>>) = 1 /\ <<new>>[1] = new
    BY <1>2
  <2> QED
    BY <1>2, <1>3, <2>1, ConcatProperties, LenProperties
<1>5. new.uid = n /\ \A d \in devices : d.uid = n => new.address = d.address
  BY DEF new, IInv, UniqueDevices, AddressOf, Of
<1>6. \A i \in DOMAIN links : links[i].uid # n
  BY DEF Connect, Linked
<1>7. TypeOK'
  BY <1>4 DEF IInv, TypeOK, Connect, Link
<1>8. UniqueDevices' /\ BindsResolve' /\ ForcedFree'
  BY DEF IInv, Connect, UniqueDevices, BindsResolve, ForcedFree, At, Entry
<1>9. LinksDistinct'
  <2>1. \A i, j \in DOMAIN links' : links'[i].uid = links'[j].uid => i = j
    BY <1>4, <1>5, <1>6 DEF IInv, LinksDistinct
  <2>2. \A m \in Nodes : Linked(m) => Linked(m)'
    <3> SUFFICES ASSUME NEW m \in Nodes, NEW i \in DOMAIN links, links[i].uid = m
                 PROVE  \E j \in DOMAIN links' : links'[j].uid = m
      BY DEF Linked
    <3>1. i + 1 \in DOMAIN links' /\ links'[i + 1] = links[i]
      BY <1>4
    <3> QED
      BY <3>1
  <2> QED
    BY <2>1, <2>2 DEF IInv, LinksDistinct, Connect
<1>10. LinksMatch'
  BY <1>4, <1>5 DEF IInv, LinksMatch, Connect
<1> QED
  BY <1>7, <1>8, <1>9, <1>10 DEF IInv

LEMMA DisconnectStep ==
  ASSUME IInv, NEW n \in Nodes, Disconnect(n)
  PROVE  IInv'
<1> DEFINE k == LinkOf(n)
           before == SubSeq(links, 1, k - 1)
           after == SubSeq(links, k + 1, Len(links))
<1>1. links \in Seq(Link)
  BY DEF IInv, TypeOK, Link
<1>2. k \in 1..Len(links) /\ links[k].uid = n /\ Len(links) \in Nat
  BY <1>1, LenProperties DEF Disconnect, Linked, LinkOf
<1>3. \A i \in 1..Len(links) : links[i] \in Link
  BY <1>1, ElementOfSeq
<1> HIDE DEF k
<1>4. /\ before \in Seq(Link) /\ Len(before) = k - 1
      /\ \A i \in 1..(k - 1) : before[i] = links[i]
  BY <1>2, <1>3, SubSeqProperties
<1>5. /\ after \in Seq(Link) /\ Len(after) = Len(links) - k
      /\ \A i \in 1..(Len(links) - k) : after[i] = links[k + i]
  BY <1>2, <1>3, SubSeqProperties
<1>6. links' = before \o after
  BY DEF Disconnect, RemoveAt, k
<1> HIDE DEF before, after
<1> DEFINE was(i) == IF i < k THEN i ELSE i + 1
<1>7. /\ links' \in Seq(Link)
      /\ DOMAIN links' = 1..(Len(links) - 1)
      /\ \A i \in DOMAIN links' : was(i) \in 1..Len(links) /\ links'[i] = links[was(i)]
  <2>1. /\ links' \in Seq(Link) /\ Len(links') = Len(before) + Len(after)
        /\ \A i \in 1..(Len(before) + Len(after)) :
             links'[i] = IF i <= Len(before) THEN before[i] ELSE after[i - Len(before)]
    BY <1>4, <1>5, <1>6, ConcatProperties
  <2>2. DOMAIN links' = 1..(Len(links) - 1)
    BY <1>2, <1>4, <1>5, <2>1, LenProperties
  <2>3. ASSUME NEW i \in 1..(Len(links) - 1)
        PROVE  was(i) \in 1..Len(links) /\ links'[i] = links[was(i)]
    <3>1. CASE i < k
      <4>1. i \in 1..(k - 1) /\ i <= Len(before)
        BY <1>2, <1>4, <3>1
      <4>2. i \in 1..(Len(before) + Len(after))
        BY <1>2, <1>4, <1>5
      <4>3. links'[i] = before[i]
        BY <2>1, <4>1, <4>2
      <4>4. before[i] = links[i]
        BY <1>4, <4>1
      <4> QED
        BY <1>2, <3>1, <4>1, <4>3, <4>4
    <3>2. CASE ~(i < k)
      <4>1. i - (k - 1) \in 1..(Len(links) - k)
        BY <1>2, <3>2
      <4>2. after[i - (k - 1)] = links[i + 1]
        BY <1>2, <1>5, <4>1
      <4> QED
        BY <1>2, <1>4, <1>5, <2>1, <3>2, <4>2
    <3> QED
      BY <3>1, <3>2
  <2> QED
    BY <2>1, <2>2, <2>3
<1>8. DOMAIN links = 1..Len(links)
  BY <1>1, LenProperties
<1>9. TypeOK'
  BY <1>7, EmptySeq DEF IInv, TypeOK, Disconnect, Link
<1>10. UniqueDevices' /\ BindsResolve' /\ ForcedFree'
  BY DEF IInv, Disconnect, UniqueDevices, BindsResolve, ForcedFree, At, Entry
<1>11. LinksDistinct'
  <2>1. ASSUME NEW i \in DOMAIN links', NEW j \in DOMAIN links', links'[i].uid = links'[j].uid
        PROVE  i = j
    <3>1. was(i) = was(j)
      BY <1>7, <1>8, <2>1 DEF IInv, LinksDistinct
    <3> QED
      BY <1>2, <1>7, <3>1
  <2>2. ASSUME NEW m \in Nodes, m # n, Linked(m) PROVE Linked(m)'
    <3>1. PICK i \in DOMAIN links : links[i].uid = m
      BY <2>2 DEF Linked
    <3>2. i # k
      BY <1>2, <2>2, <3>1
    <3> DEFINE j == IF i < k THEN i ELSE i - 1
    <3>3. j \in DOMAIN links' /\ links'[j] = links[i]
      BY <1>2, <1>7, <1>8, <3>2
    <3> QED
      BY <3>1, <3>3 DEF Linked
  <2>3. up'[n] = <<>> /\ \A m \in Nodes : m # n => up'[m] = up[m]
    BY DEF Disconnect, IInv, TypeOK
  <2> QED
    BY <2>1, <2>2, <2>3 DEF IInv, LinksDistinct
<1>12. LinksMatch'
  <2> HIDE DEF was
  <2> QED
    BY <1>7, <1>8 DEF IInv, LinksMatch, Disconnect
<1> QED
  BY <1>9, <1>10, <1>11, <1>12 DEF IInv

\* The entry a REGISTER saves replaces that of its own device only.
LEMMA RegisteringReplacesItself ==
  ASSUME IInv, NEW n \in Nodes, NEW units \in ConfigType
  PROVE  LET d == Registering(n, units)
         IN  /\ d.uid = n /\ d.address \in Addresses
             /\ d.address # BROADCAST_ADDR => d \in Device
             /\ d.address # BROADCAST_ADDR =>
                  \A e \in devices : e.address = d.address <=> e.uid = n
             /\ d.address = BROADCAST_ADDR => Of(n) = {}
<1> DEFINE d == Registering(n, units)
<1>1. d = [uid |-> n, units |-> units,
           address |-> IF Of(n) = {} THEN NextAddress ELSE AddressOf(n)]
  BY DEF Registering
<1>2. CASE Of(n) = {}
  <2>1. NextAddress \in Addresses /\ (NextAddress # BROADCAST_ADDR => At(NextAddress) = {})
    BY FirstFreeIsFree DEF NextAddress, IInv, TypeOK, ForcedFree
  <2> QED
    BY <1>1, <1>2, <2>1, MaxAddressAssumption DEF Device, At, Of
<1>3. CASE Of(n) # {}
  <2>1. PICK e \in Of(n) : TRUE
    BY <1>3
  <2>2. AddressOf(n) = e.address /\ e \in Device /\ e \in devices /\ e.uid = n
    BY <2>1, <1>3 DEF IInv, TypeOK, UniqueDevices, AddressOf, Of
  <2>3. d.address = e.address /\ d.uid = n /\ d.units = units
    BY <1>1, <1>3, <2>2
  <2>4. e.address \in DeviceAddresses
    BY <2>2 DEF Device
  <2>5. \A f \in devices : f.address = e.address <=> f.uid = n
    BY <2>2 DEF IInv, UniqueDevices
  <2> QED
    BY <1>1, <1>3, <2>3, <2>4, <2>5, MaxAddressAssumption DEF Device
<1> QED
  BY <1>2, <1>3

LEMMA RegisterStep ==
  ASSUME IInv, NEW n \in Nodes, RegisterDevice(n)
  PROVE  IInv'
<1> DEFINE m == Head(up[n])
           d == Registering(n, m.units)
           k == LinkOf(n)
<1>1. up[n] \in Seq(UpMessage) /\ up[n] # <<>> /\ m.type = "REGISTER"
  BY DEF IInv, TypeOK, RegisterDevice
<1>2. m \in UpMessage /\ Tail(up[n]) \in Seq(UpMessage)
  BY <1>1, HeadTailProperties
<1>3. m.units \in ConfigType
  BY <1>1, <1>2, ConfigsAssumption DEF UpMessage
<1> HIDE DEF m
<1>4. /\ d.uid = n /\ d.address \in Addresses
      /\ d.address # BROADCAST_ADDR => d \in Device
      /\ d.address # BROADCAST_ADDR =>
           \A e \in devices : e.address = d.address <=> e.uid = n
      /\ d.address = BROADCAST_ADDR => Of(n) = {}
  BY <1>3, RegisteringReplacesItself
<1>5. /\ devices' = IF d.address # BROADCAST_ADDR THEN Save(d) ELSE devices
      /\ links' = [links EXCEPT ![k].address = d.address]
      /\ down' = [down EXCEPT ![n] = Append(@, [type |-> "REGISTER_RES",
                     destination |-> d.address,
                     code |-> IF d.address # BROADCAST_ADDR THEN "OK" ELSE "FAIL"])]
      /\ next_address' = IF Of(n) = {} THEN BROADCAST_ADDR ELSE next_address
      /\ up' = [up EXCEPT ![n] = Tail(@)]
      /\ UNCHANGED <<binds, address>>
  BY DEF RegisterDevice, Deliver, m
<1> HIDE DEF d
<1>6. /\ links \in Seq(Link) /\ k \in DOMAIN links /\ links[k].uid = n
      /\ DOMAIN links = 1..Len(links)
      /\ links[k] \in Link
  <2>1. Linked(n)
    BY <1>1 DEF IInv, LinksDistinct
  <2> QED
    BY <2>1, LenProperties, ElementOfSeq DEF IInv, TypeOK, Link, Linked, LinkOf
<1> HIDE DEF k
<1>7. /\ links' \in Seq(Link) /\ DOMAIN links' = DOMAIN links
      /\ \A i \in DOMAIN links :
           /\ links'[i].uid = links[i].uid
           /\ links'[i].address = IF i = k THEN d.address ELSE links[i].address
  <2> DEFINE new == [links[k] EXCEPT !.address = d.address]
  <2>1. new \in Link /\ new.uid = n /\ new.address = d.address
    BY <1>4, <1>6 DEF Link
  <2>2. links' = [links EXCEPT ![k] = new]
    BY <1>5, <1>6
  <2> HIDE DEF new
  <2> QED
    BY <1>6, <2>1, <2>2, ExceptSeq, LenProperties
<1>8. \A e \in devices : e.uid # n => e \in devices'
  BY <1>4, <1>5 DEF Save, At
<1>9. \A e \in devices' :
        \/ e \in devices /\ e.uid # n
        \/ e = d /\ d.address # BROADCAST_ADDR
  BY <1>4, <1>5 DEF Save, At, Of
<1>10. TypeOK'
  <2>1. devices' \subseteq Device
    BY <1>4, <1>9 DEF IInv, TypeOK
  <2>2. up' \in [Nodes -> Seq(UpMessage)]
    BY <1>2, <1>5 DEF IInv, TypeOK
  <2>3. down' \in [Nodes -> Seq(DownMessage)]
    BY <1>4, <1>5, AppendProperties DEF IInv, TypeOK, DownMessage
  <2>4. next_address' \in Addresses
    BY <1>5, MaxAddressAssumption DEF IInv, TypeOK
  <2>5. links' \in Seq([uid : Nodes, address : Addresses])
    BY <1>7 DEF Link
  <2>6. binds' \subseteq Bind /\ address' \in [Nodes -> Addresses]
    BY <1>5 DEF IInv, TypeOK
  <2> QED
    BY <2>1, <2>2, <2>3, <2>4, <2>5, <2>6 DEF TypeOK
<1>11. UniqueDevices'
  BY <1>4, <1>9 DEF IInv, UniqueDevices
<1>12. BindsResolve'
  <2>1. ASSUME NEW a \in Addresses, At(a) # {} PROVE At(a)' # {}
    <3>1. PICK e \in devices : e.address = a
      BY <2>1 DEF At
    <3>2. CASE e.uid # n
      BY <1>8, <3>1, <3>2 DEF At
    <3>3. CASE e.uid = n
      <4>1. d \in devices' /\ d.address = a
        BY <1>4, <1>5, <3>1, <3>3 DEF Save, Of
      <4> QED
        BY <4>1 DEF At
    <3> QED
      BY <3>2, <3>3
  <2>2. ASSUME NEW a \in Addresses \cup {BASE_ADDR}, Entry(a) # {} PROVE Entry(a)' # {}
    BY <2>1, <2>2 DEF Entry
  <2> QED
    BY <1>5, <2>2 DEF IInv, TypeOK, BindsResolve, Bind
<1>13. ForcedFree'
  <2>1. CASE Of(n) = {}
    BY <1>5, <2>1 DEF ForcedFree
  <2>2. CASE Of(n) # {}
    <3>1. PICK e \in devices : e.uid = n
      BY <2>2 DEF Of
    <3>2. d.address = e.address
      BY <1>4, <2>2, <3>1
    <3> QED
      BY <1>5, <1>9, <2>2, <3>1, <3>2 DEF IInv, ForcedFree, At
  <2> QED
    BY <2>1, <2>2
<1>14. LinksDistinct'
  <2>1. \A i, j \in DOMAIN links' : links'[i].uid = links'[j].uid => i = j
    BY <1>7 DEF IInv, LinksDistinct
  <2>2. ASSUME NEW o \in Nodes, Linked(o) PROVE Linked(o)'
    BY <1>7, <2>2 DEF Linked
  <2>3. \A o \in Nodes : up'[o] # <<>> => up[o] # <<>>
    BY <1>1, <1>5 DEF IInv, TypeOK
  <2> QED
    BY <2>1, <2>2, <2>3 DEF IInv, LinksDistinct
<1>15. LinksMatch'
  <2> SUFFICES ASSUME NEW i \in DOMAIN links', NEW e \in devices', links'[i].uid = e.uid
               PROVE  links'[i].address = e.address
    BY DEF LinksMatch
  <2>1. CASE e = d
    BY <1>4, <1>6, <1>7, <2>1 DEF IInv, LinksDistinct
  <2>2. CASE e \in devices /\ e.uid # n
    BY <1>6, <1>7, <2>2 DEF IInv, LinksMatch
  <2> QED
    BY <1>9, <2>1, <2>2
<1> QED
  BY <1>10, <1>11, <1>12, <1>13, <1>14, <1>15 DEF IInv

LEMMA DeregisterStep ==
  ASSUME IInv, NEW n \in Nodes, DeregisterDevice(n)
  PROVE  IInv'
<1> DEFINE m == Head(up[n])
<1>1. up[n] \in Seq(UpMessage) /\ up[n] # <<>> /\ m.type = "DEREGISTER"
  BY DEF IInv, TypeOK, DeregisterDevice
<1>2. m \in UpMessage /\ Tail(up[n]) \in Seq(UpMessage)
  BY <1>1, HeadTailProperties
<1>3. m.source \in Addresses
  BY <1>1, <1>2 DEF UpMessage
<1> HIDE DEF m
<1>4. /\ up' = [up EXCEPT ![n] = Tail(@)]
      /\ UNCHANGED <<next_address, links, address>>
      /\ up' \in [Nodes -> Seq(UpMessage)]
      /\ \A o \in Nodes : up'[o] # <<>> => up[o] # <<>>
  BY <1>1, <1>2 DEF DeregisterDevice, IInv, TypeOK
<1>5. LinksDistinct'
  BY <1>4 DEF IInv, LinksDistinct, Linked
<1>6. CASE Authorized(m)
  <2>1. m.address \in DeviceAddresses /\ Deregister(m.address)
        /\ down' = SendTo(down, LinkTo(m.source),
                          [type |-> "DEREGISTER_RES", destination |-> m.source])
    BY <1>6 DEF DeregisterDevice, Authorized, At, IInv, TypeOK, Device, m
  <2>2. /\ devices' \subseteq devices /\ binds' \subseteq binds
        /\ UniqueDevices' /\ BindsResolve'
    BY <2>1, DeregisterKeepsTables
  <2>3. down' \in [Nodes -> Seq(DownMessage)]
    <3> DEFINE r == [type |-> "DEREGISTER_RES", destination |-> m.source]
    <3>1. r \in DownMessage
      BY <1>3 DEF DownMessage
    <3>2. CASE LinkTo(m.source) = 0
      BY <2>1, <3>2 DEF SendTo, IInv, TypeOK
    <3>3. CASE LinkTo(m.source) # 0
      <4>1. links \in Seq(Link)
        BY DEF IInv, TypeOK, Link
      <4>2. LinkTo(m.source) \in 1..Len(links)
        BY <3>3, <4>1, LinkToIsALink, LenProperties
      <4>3. links[LinkTo(m.source)] \in Link
        BY <4>1, <4>2, ElementOfSeq
      <4>4. links[LinkTo(m.source)].uid \in Nodes
        BY <4>3 DEF Link
      <4> QED
        BY <2>1, <3>1, <3>3, <4>4, AppendProperties DEF SendTo, Deliver, IInv, TypeOK
    <3> QED
      BY <3>2, <3>3
  <2>4. TypeOK'
    BY <1>4, <2>2, <2>3 DEF IInv, TypeOK
  <2>5. ForcedFree' /\ LinksMatch'
    BY <1>4, <2>2 DEF IInv, ForcedFree, LinksMatch, At
  <2> QED
    BY <1>5, <2>2, <2>4, <2>5 DEF IInv
<1>7. CASE ~Authorized(m)
  <2>1. UNCHANGED <<devices, binds, down>>
    BY <1>7 DEF DeregisterDevice, m
  <2>2. TypeOK'
    BY <1>4, <2>1 DEF IInv, TypeOK
  <2>3. UniqueDevices' /\ BindsResolve' /\ ForcedFree' /\ LinksMatch'
    BY <1>4, <2>1 DEF IInv, UniqueDevices, BindsResolve, ForcedFree, LinksMatch, At, Entry
  <2> QED
    BY <1>5, <2>2, <2>3 DEF IInv
<1> QED
  BY <1>6, <1>7

\* Steps of the devices: they change no table and no link.
LEMMA NodeStep ==
  ASSUME IInv, NEW n \in Nodes,
         SendRegister(n) \/ SendDeregister(n) \/ NodeReceives(n) \/ RestartNode(n)
  PROVE  IInv'
<1>1. UNCHANGED <<devices, next_address, binds, links>>
  BY DEF SendRegister, SendDeregister, NodeReceives, ReceiveRegisterResponse,
         ReceiveDeregisterResponse, RestartNode
<1>2. UniqueDevices' /\ BindsResolve' /\ ForcedFree' /\ LinksMatch'
  BY <1>1 DEF IInv, UniqueDevices, BindsResolve, ForcedFree, LinksMatch, At, Entry
<1>3. CASE SendRegister(n)
  <2>1. PICK c \in Configs :
          up' = [up EXCEPT ![n] = Append(@, [type |-> "REGISTER", source |-> address[n], units |-> c])]
    BY <1>3 DEF SendRegister, Deliver
  <2>2. [type |-> "REGISTER", source |-> address[n], units |-> c] \in UpMessage
    BY DEF IInv, TypeOK, UpMessage
  <2>3. TypeOK'
    BY <1>1, <1>3, <2>1, <2>2, AppendProperties DEF IInv, TypeOK, SendRegister
  <2>4. LinksDistinct'
    BY <1>1, <1>3, <2>1 DEF IInv, TypeOK, LinksDistinct, Linked, SendRegister, CanSend
  <2> QED
    BY <1>2, <2>3, <2>4 DEF IInv
<1>4. CASE SendDeregister(n)
  <2>1. PICK a \in DeviceAddresses :
          up' = [up EXCEPT ![n] = Append(@, [type |-> "DEREGISTER", source |-> address[n], address |-> a])]
    BY <1>4 DEF SendDeregister, Deliver
  <2>2. [type |-> "DEREGISTER", source |-> address[n], address |-> a] \in UpMessage
    BY MaxAddressAssumption DEF IInv, TypeOK, UpMessage
  <2>3. TypeOK'
    BY <1>1, <1>4, <2>1, <2>2, AppendProperties DEF IInv, TypeOK, SendDeregister
  <2>4. LinksDistinct'
    BY <1>1, <1>4, <2>1 DEF IInv, TypeOK, LinksDistinct, Linked, SendDeregister, CanSend
  <2> QED
    BY <1>2, <2>3, <2>4 DEF IInv
<1>5. CASE NodeReceives(n)
  <2>1. /\ down[n] # <<>> /\ up' = up /\ down' = [down EXCEPT ![n] = Tail(@)]
        /\ address' \in {address, [address EXCEPT ![n] = Head(down[n]).destination],
                          [address EXCEPT ![n] = BROADCAST_ADDR]}
    BY <1>5 DEF NodeReceives, ReceiveRegisterResponse, ReceiveDeregisterResponse
  <2>2. down[n] \in Seq(DownMessage)
    BY DEF IInv, TypeOK
  <2>3. Head(down[n]) \in DownMessage /\ Tail(down[n]) \in Seq(DownMessage)
    BY <2>1, <2>2, HeadTailProperties
  <2>4. Head(down[n]).destination \in Addresses
    BY <2>3 DEF DownMessage
  <2>5. TypeOK'
    <3>1. \E a \in Addresses : address' \in {address, [address EXCEPT ![n] = a]}
      BY <2>1, <2>4, MaxAddressAssumption
    <3>2. down' \in [Nodes -> Seq(DownMessage)]
      BY <2>1, <2>3 DEF IInv, TypeOK
    <3> QED
      BY <1>1, <2>1, <3>1, <3>2 DEF IInv, TypeOK
  <2>6. LinksDistinct'
    BY <1>1, <2>1 DEF IInv, LinksDistinct, Linked
  <2> QED
    BY <1>2, <2>5, <2>6 DEF IInv
<1>6. CASE RestartNode(n)
  <2>1. TypeOK'
    BY <1>1, <1>6, MaxAddressAssumption DEF RestartNode, IInv, TypeOK
  <2>2. LinksDistinct'
    BY <1>1, <1>6 DEF RestartNode, IInv, LinksDistinct, Linked
  <2> QED
    BY <1>2, <2>1, <2>2 DEF IInv
<1> QED
  BY <1>3, <1>4, <1>5, <1>6

\* Bind commands, console commands and restarts of the base.
LEMMA BaseStep ==
  ASSUME IInv,
         \/ \E b \in Rows : AddBind(b) \/ RemoveBind(b)
         \/ \E a \in DeviceAddresses :
              ConsoleDeregister(a) \/ ConsoleNextAddress(a) \/ CrashInDeregister(a)
         \/ RestartBase \/ CrashInSave
  PROVE  IInv'
<1>1. ASSUME NEW b \in Rows, AddBind(b) PROVE IInv'
  <2>1. Entry(b.destination.device) # {}
    BY <1>1 DEF AddBind, BindAllowed, HasInterface
  <2>2. b.source.unit # BROADCAST_UNIT /\ b.source.device # BROADCAST_ADDR
          => Entry(b.source.device) # {}
    BY <1>1 DEF AddBind, BindAllowed, HasInterface
  <2>3. BindsResolve'
    BY <1>1, <2>1, <2>2 DEF AddBind, IInv, BindsResolve, At, Entry
  <2> QED
    BY <1>1, <2>3, RowsAssumption
       DEF AddBind, IInv, TypeOK, UniqueDevices, ForcedFree, LinksDistinct, LinksMatch,
           Linked, At
<1>2. ASSUME NEW b \in Rows, RemoveBind(b) PROVE IInv'
  BY <1>2 DEF RemoveBind, IInv, TypeOK, UniqueDevices, BindsResolve, ForcedFree,
              LinksDistinct, LinksMatch, Linked, At, Entry
<1>3. ASSUME NEW a \in DeviceAddresses, ConsoleDeregister(a) PROVE IInv'
  <2>1. /\ devices' \subseteq devices /\ binds' \subseteq binds
        /\ UniqueDevices' /\ BindsResolve'
    BY <1>3, DeregisterKeepsTables DEF ConsoleDeregister
  <2> QED
    BY <1>3, <2>1 DEF ConsoleDeregister, IInv, TypeOK, ForcedFree, LinksDistinct,
                      LinksMatch, Linked, At
<1>4. ASSUME NEW a \in DeviceAddresses, ConsoleNextAddress(a) PROVE IInv'
  <2>1. BindsResolve'
    BY <1>4 DEF ConsoleNextAddress, IInv, BindsResolve, At, Entry
  <2> QED
    BY <1>4, <2>1, MaxAddressAssumption
       DEF ConsoleNextAddress, IInv, TypeOK, UniqueDevices, ForcedFree, LinksDistinct,
           LinksMatch, Linked, At
<1>5. ASSUME NEW a \in DeviceAddresses, CrashInDeregister(a) PROVE IInv'
  BY <1>5, RestartKeepsTables DEF CrashInDeregister
<1>6. CASE RestartBase
  BY <1>6, RestartKeepsTables DEF RestartBase
<1>7. CASE CrashInSave
  BY <1>7, EmptySeq, MaxAddressAssumption
     DEF CrashInSave, BaseDown, IInv, TypeOK, UniqueDevices, BindsResolve, ForcedFree,
         LinksDistinct, LinksMatch
<1> QED
  BY <1>1, <1>2, <1>3, <1>4, <1>5, <1>6, <1>7

LEMMA NextIInv == IInv /\ [Next]_vars => IInv'
<1> SUFFICES ASSUME IInv, [Next]_vars PROVE IInv'
  OBVIOUS
<1>1. CASE Next
  BY <1>1, ConnectStep, DisconnectStep, RegisterStep, DeregisterStep, NodeStep, BaseStep
     DEF Next, BaseReceives
<1>2. CASE UNCHANGED vars
  BY <1>2 DEF vars, IInv, TypeOK, UniqueDevices, BindsResolve, ForcedFree,
              LinksDistinct, LinksMatch, Linked, At, Entry
<1> QED
  BY <1>1, <1>2

LEMMA Invariance == Spec => []IInv
BY InitIInv, NextIInv, PTL DEF Spec

-----------------------------------------------------------------------------
(* The theorems.                                                           *)

\* The variables keep their types (TypeOK).
THEOREM TypeCorrect == Spec => []TypeOK
<1>1. IInv => TypeOK
  BY DEF IInv
<1> QED
  BY <1>1, Invariance, PTL

\* No two registrations ever share an address or a UID (UniqueDevices).
THEOREM RegistrationsUnique == Spec => []UniqueDevices
<1>1. IInv => UniqueDevices
  BY DEF IInv
<1> QED
  BY <1>1, Invariance, PTL

\* Deregistering, also when it dies half way, never leaves a bind row of the
\* address behind (BindsResolve).
THEOREM BindsAlwaysResolve == Spec => []BindsResolve
<1>1. IInv => BindsResolve
  BY DEF IInv
<1> QED
  BY <1>1, Invariance, PTL

\* The link of a registered device carries its address (LinksTagged).
THEOREM LinksAlwaysTagged == Spec => []LinksTagged
BY TaggedLinks, Invariance, PTL

-----------------------------------------------------------------------------
(* Nobody is evicted.                                                      *)

LEMMA StepEvictsNobody ==
  ASSUME IInv, [Next]_vars, NEW n \in Nodes, Of(n) # {}, Of(n)' = {}
  PROVE  devices' \subseteq devices
<1>1. PICK d \in devices : d.uid = n /\ d \notin devices'
  BY DEF Of
<1>2. \A e \in devices' : e.uid # n
  BY DEF Of
<1>3. ASSUME NEW o \in Nodes, RegisterDevice(o) PROVE FALSE
  <2> DEFINE m == Head(up[o])
             e == Registering(o, m.units)
  <2>1. up[o] \in Seq(UpMessage) /\ up[o] # <<>> /\ m.type = "REGISTER"
    BY <1>3 DEF IInv, TypeOK, RegisterDevice
  <2>2. m.units \in ConfigType
    <3>1. m \in UpMessage
      BY <2>1, HeadTailProperties
    <3> QED
      BY <2>1, <3>1, ConfigsAssumption DEF UpMessage
  <2>3. devices' = IF e.address # BROADCAST_ADDR THEN Save(e) ELSE devices
    BY <1>3 DEF RegisterDevice
  <2> HIDE DEF m
  <2>4. /\ e.uid = o
        /\ e.address # BROADCAST_ADDR => \A f \in devices : f.address = e.address <=> f.uid = o
    BY <2>2, RegisteringReplacesItself
  <2> HIDE DEF e
  <2>5. CASE o = n
    BY <1>1, <1>2, <2>3, <2>4, <2>5 DEF Save
  <2>6. CASE o # n
    BY <1>1, <2>3, <2>4, <2>6 DEF Save, At
  <2> QED
    BY <2>5, <2>6
<1>4. ~Restore
  BY <1>1, <1>2, RestoreKeepsDevices DEF IInv, TypeOK
<1>5. ~RestartBase /\ \A a \in DeviceAddresses : ~CrashInDeregister(a)
  BY <1>4 DEF RestartBase, CrashInDeregister
<1>6. ASSUME NEW o \in Nodes, DeregisterDevice(o) PROVE devices' \subseteq devices
  BY <1>6 DEF DeregisterDevice, Deregister
<1>7. ASSUME NEW a, ConsoleDeregister(a) PROVE devices' \subseteq devices
  BY <1>7 DEF ConsoleDeregister, Deregister
<1>8. CASE Next
  BY <1>3, <1>5, <1>6, <1>7, <1>8
     DEF Next, BaseReceives, NodeReceives, Connect, Disconnect, SendRegister, SendDeregister,
         ReceiveRegisterResponse, ReceiveDeregisterResponse, RestartNode, AddBind, RemoveBind,
         ConsoleNextAddress, CrashInSave
<1>9. CASE UNCHANGED vars
  BY <1>9 DEF vars
<1> QED
  BY <1>8, <1>9

\* A registration never removes another device's entry (NobodyEvicted).
THEOREM NobodyIsEvicted == Spec => NobodyEvicted
<1>1. IInv /\ [Next]_vars =>
        [(\E n \in Nodes : Of(n) # {} /\ Of(n)' = {}) => devices' \subseteq devices]_vars
  BY StepEvictsNobody
<1> QED
  BY <1>1, Invariance, PTL DEF Spec, NobodyEvicted

-----------------------------------------------------------------------------
(* While no device is deregistered, beliefs agree with the table.          *)

Has(n, a) == \E d \in devices : d.uid = n /\ d.address = a

\* What may be on its way to node n.
Answers(n, m) ==
  /\ m.type = "REGISTER_RES"
  /\ m.code = "OK" => m.destination \in DeviceAddresses
  /\ \A a \in DeviceAddresses : m.code = "OK" /\ m.destination = a => Has(n, a)

\* Beliefs, and the answers that will become beliefs, name the entry's address.
BeliefInv ==
  /\ \A n \in Nodes, a \in DeviceAddresses : address[n] = a => Has(n, a)
  /\ \A n \in Nodes : \A i \in 1..Len(up[n]) : up[n][i].type = "REGISTER"
  /\ \A n \in Nodes : \A i \in 1..Len(down[n]) : Answers(n, down[n][i])

LEMMA BeliefStep ==
  ASSUME {"deregister", "torn_save", "console"} \cap Environment = {},
         IInv, BeliefInv, [Next]_vars
  PROVE  BeliefInv'
<1> DEFINE Keeps == \A n \in Nodes, a \in DeviceAddresses : Has(n, a) => Has(n, a)'
<1>1. ASSUME Keeps, UNCHANGED <<up, down, address>> PROVE BeliefInv'
  <2>1. ASSUME NEW n \in Nodes, NEW i \in 1..Len(down[n]) PROVE Answers(n, down[n][i])'
    BY <1>1 DEF BeliefInv, Answers
  <2> QED
    BY <1>1, <2>1 DEF BeliefInv
<1>2. ASSUME UNCHANGED devices PROVE Keeps
  BY <1>2 DEF Has
<1>3. ASSUME NEW n \in Nodes, RegisterDevice(n) PROVE BeliefInv'
  <2> DEFINE m == Head(up[n])
             d == Registering(n, m.units)
             r == [type |-> "REGISTER_RES", destination |-> d.address,
                   code |-> IF d.address # BROADCAST_ADDR THEN "OK" ELSE "FAIL"]
  <2>1. up[n] \in Seq(UpMessage) /\ up[n] # <<>> /\ m.type = "REGISTER"
    BY <1>3 DEF IInv, TypeOK, RegisterDevice
  <2>2. m.units \in ConfigType
    <3>1. m \in UpMessage
      BY <2>1, HeadTailProperties
    <3> QED
      BY <2>1, <3>1, ConfigsAssumption DEF UpMessage
  <2>3. /\ devices' = IF d.address # BROADCAST_ADDR THEN Save(d) ELSE devices
        /\ down' = [down EXCEPT ![n] = Append(@, r)]
        /\ up' = [up EXCEPT ![n] = Tail(@)] /\ UNCHANGED address
    BY <1>3 DEF RegisterDevice, Deliver
  <2> HIDE DEF m
  <2>4. /\ d.uid = n /\ d.address \in Addresses
        /\ d.address # BROADCAST_ADDR =>
             \A f \in devices : f.address = d.address <=> f.uid = n
        /\ d.address = BROADCAST_ADDR => Of(n) = {}
    BY <2>2, RegisteringReplacesItself
  <2> HIDE DEF d
  <2>5. d.address # BROADCAST_ADDR => \E e \in devices' : e.uid = n /\ e.address = d.address
    BY <2>3, <2>4 DEF Save
  <2>6. Keeps
    <3> SUFFICES ASSUME NEW o \in Nodes, NEW a \in DeviceAddresses,
                        NEW e \in devices, e.uid = o, e.address = a
                 PROVE  \E f \in devices' : f.uid = o /\ f.address = a
      BY DEF Has
    <3>1. CASE o = n
      BY <2>4, <2>5, <3>1 DEF Of
    <3>2. CASE o # n
      BY <2>3, <2>4, <3>2 DEF Save, At
    <3> QED
      BY <3>1, <3>2
  <2>7. ASSUME NEW o \in Nodes, NEW i \in 1..Len(down'[o])
        PROVE  Answers(o, down[o][i])'
    <3>1. down[o] \in Seq(DownMessage) /\ Len(down[o]) \in Nat /\ r \in DownMessage
      BY <2>4, LenProperties DEF IInv, TypeOK, DownMessage
    <3>2. down'[o] = IF o = n THEN Append(down[o], r) ELSE down[o]
      BY <2>3 DEF IInv, TypeOK
    <3>3. CASE o = n /\ i = Len(down[n]) + 1
      <4>1. down'[o][i] = r
        BY <3>1, <3>2, <3>3, AppendProperties
      <4>2. r.type = "REGISTER_RES" /\ r.destination = d.address
            /\ (r.code = "OK" => d.address # BROADCAST_ADDR)
        OBVIOUS
      <4>3. d.address # BROADCAST_ADDR => d.address \in DeviceAddresses
        BY <2>4, MaxAddressAssumption
      <4> HIDE DEF r
      <4> QED
        BY <2>5, <3>3, <4>1, <4>2, <4>3 DEF Answers, Has
    <3>4. CASE ~(o = n /\ i = Len(down[n]) + 1)
      <4>1. i \in 1..Len(down[o]) /\ down'[o][i] = down[o][i]
        <5>1. CASE o = n
          <6>1. Len(down'[o]) = Len(down[o]) + 1
            BY <3>1, <3>2, <5>1, AppendProperties
          <6>2. i \in 1..Len(down[o])
            BY <3>1, <3>4, <5>1, <6>1
          <6> QED
            BY <3>1, <3>2, <5>1, <6>2, AppendProperties
        <5>2. CASE o # n
          BY <3>2, <5>2
        <5> QED
          BY <5>1, <5>2
      <4>2. Answers(o, down[o][i])
        BY <4>1 DEF BeliefInv
      <4> QED
        BY <2>6, <4>1, <4>2 DEF Answers
    <3> QED
      BY <3>3, <3>4
  <2>8. \A o \in Nodes : \A i \in 1..Len(up'[o]) : up'[o][i].type = "REGISTER"
    <3>1. /\ \A o \in Nodes : o # n => up'[o] = up[o]
          /\ up'[n] = Tail(up[n])
      BY <2>3 DEF IInv, TypeOK
    <3>2. \A i \in 1..Len(Tail(up[n])) : Tail(up[n])[i] = up[n][i + 1] /\ i + 1 \in 1..Len(up[n])
      BY <2>1, HeadTailProperties, LenProperties
    <3> SUFFICES ASSUME NEW o \in Nodes, NEW i \in 1..Len(up'[o])
                 PROVE  up'[o][i].type = "REGISTER"
      OBVIOUS
    <3>3. CASE o = n
      <4>1. i \in 1..Len(Tail(up[n])) /\ up'[o][i] = Tail(up[n])[i]
        BY <3>1, <3>3
      <4>2. i + 1 \in 1..Len(up[n]) /\ up'[o][i] = up[n][i + 1]
        BY <3>2, <4>1
      <4> QED
        BY <4>2 DEF BeliefInv
    <3>4. CASE o # n
      BY <3>1, <3>4 DEF BeliefInv
    <3> QED
      BY <3>3, <3>4
  <2>9. \A o \in Nodes, a \in DeviceAddresses : address'[o] = a => Has(o, a)'
    BY <2>3, <2>6 DEF BeliefInv
  <2> QED
    BY <2>7, <2>8, <2>9 DEF BeliefInv
<1>4. ASSUME NEW n \in Nodes, DeregisterDevice(n) PROVE FALSE
  <2>1. up[n] \in Seq(UpMessage) /\ up[n] # <<>> /\ Head(up[n]).type = "DEREGISTER"
    BY <1>4 DEF IInv, TypeOK, DeregisterDevice
  <2>2. Head(up[n]) = up[n][1] /\ 1 \in 1..Len(up[n])
    BY <2>1, EmptySeq
  <2> QED
    BY <2>1, <2>2 DEF BeliefInv
<1>5. ASSUME NEW n \in Nodes, NodeReceives(n) PROVE BeliefInv'
  <2>1. /\ down[n] \in Seq(DownMessage) /\ down[n] # <<>>
        /\ down' = [down EXCEPT ![n] = Tail(@)]
        /\ UNCHANGED <<devices, up>>
    BY <1>5 DEF NodeReceives, ReceiveRegisterResponse, ReceiveDeregisterResponse, IInv, TypeOK
  <2>2. Head(down[n]) = down[n][1] /\ 1 \in 1..Len(down[n])
    BY <2>1, EmptySeq
  <2>3. /\ Head(down[n]).type = "REGISTER_RES"
        /\ Answers(n, Head(down[n]))
    BY <2>2 DEF BeliefInv, Answers
  <2>4. \/ address' = address
        \/ /\ Head(down[n]).code = "OK"
           /\ address' = [address EXCEPT ![n] = Head(down[n]).destination]
    BY <1>5, <2>3 DEF NodeReceives, ReceiveRegisterResponse, ReceiveDeregisterResponse
  <2>5. \A o \in Nodes, a \in DeviceAddresses : address'[o] = a => Has(o, a)'
    <3>1. \A o \in Nodes, a \in DeviceAddresses : address'[o] = a => Has(o, a)
      BY <2>3, <2>4 DEF BeliefInv, Answers, IInv, TypeOK
    <3> QED
      BY <2>1, <3>1 DEF Has
  <2>6. /\ \A o \in Nodes : o # n => down'[o] = down[o]
        /\ down'[n] = Tail(down[n])
    BY <2>1 DEF IInv, TypeOK
  <2>7. \A i \in 1..Len(Tail(down[n])) :
          Tail(down[n])[i] = down[n][i + 1] /\ i + 1 \in 1..Len(down[n])
    BY <2>1, HeadTailProperties, LenProperties
  <2>8. ASSUME NEW o \in Nodes, NEW i \in 1..Len(down'[o])
        PROVE  Answers(o, down[o][i])'
    <3>1. Answers(o, down'[o][i])
      <4>1. CASE o = n
        BY <2>6, <2>7, <4>1 DEF BeliefInv
      <4>2. CASE o # n
        BY <2>6, <4>2 DEF BeliefInv
      <4> QED
        BY <4>1, <4>2
    <3> QED
      BY <2>1, <3>1 DEF Answers, Has
  <2> QED
    BY <2>1, <2>5, <2>8 DEF BeliefInv
<1>6. ASSUME NEW n \in Nodes, SendRegister(n) PROVE BeliefInv'
  <2>1. PICK c \in Configs :
          up' = [up EXCEPT ![n] = Append(@, [type |-> "REGISTER", source |-> address[n], units |-> c])]
    BY <1>6 DEF SendRegister, Deliver
  <2>2. [type |-> "REGISTER", source |-> address[n], units |-> c] \in UpMessage
    BY DEF IInv, TypeOK, UpMessage
  <2>3. \A o \in Nodes : \A i \in 1..Len(up'[o]) : up'[o][i].type = "REGISTER"
    BY <2>1, <2>2, AppendProperties, LenProperties DEF BeliefInv, IInv, TypeOK
  <2>4. UNCHANGED <<devices, down, address>>
    BY <1>6 DEF SendRegister
  <2> QED
    BY <2>3, <2>4 DEF BeliefInv, Answers, Has
<1>7. ASSUME NEW n \in Nodes, Connect(n) \/ Disconnect(n) \/ RestartNode(n) PROVE BeliefInv'
  <2>1. /\ devices' = devices
        /\ up' \in {up, [up EXCEPT ![n] = <<>>]} /\ down' \in {down, [down EXCEPT ![n] = <<>>]}
        /\ address' \in {address, [address EXCEPT ![n] = BROADCAST_ADDR]}
    BY <1>7 DEF Connect, Disconnect, RestartNode
  <2>2. \A o \in Nodes : /\ up'[o] \in {up[o], <<>>} /\ down'[o] \in {down[o], <<>>}
                        /\ address'[o] \in {address[o], BROADCAST_ADDR}
    BY <2>1 DEF IInv, TypeOK
  <2>3. \A o \in Nodes, a \in DeviceAddresses : address'[o] = a => Has(o, a)'
    BY <2>1, <2>2, MaxAddressAssumption DEF BeliefInv, Has
  <2>4. ASSUME NEW o \in Nodes, NEW i \in 1..Len(down'[o]) PROVE Answers(o, down[o][i])'
    <3>1. down'[o] = down[o]
      BY <2>2, EmptySeq
    <3> QED
      BY <2>1, <3>1 DEF BeliefInv, Answers, Has
  <2> QED
    BY <2>2, <2>3, <2>4, EmptySeq DEF BeliefInv
<1>8. ASSUME Restore, BaseDown PROVE BeliefInv'
  <2>1. Keeps
    BY <1>8, RestoreKeepsDevices DEF IInv, TypeOK, Has
  <2> QED
    BY <1>8, <2>1, EmptySeq DEF BaseDown, BeliefInv, IInv, TypeOK
<1>9. CASE Next
  <2>1. ASSUME NEW b \in Rows, AddBind(b) \/ RemoveBind(b) PROVE BeliefInv'
    BY <1>1, <1>2, <2>1 DEF AddBind, RemoveBind
  <2>2. RestartBase => BeliefInv'
    BY <1>8 DEF RestartBase
  <2>3. \A a \in DeviceAddresses : CrashInDeregister(a) => BeliefInv'
    BY <1>8 DEF CrashInDeregister
  <2> QED
    BY <1>3, <1>4, <1>5, <1>6, <1>7, <1>9, <2>1, <2>2, <2>3 DEF Next, BaseReceives
<1>10. CASE UNCHANGED vars
  BY <1>1, <1>2, <1>10 DEF vars
<1> QED
  BY <1>9, <1>10

\* In an environment that deregisters nothing and loses no file, the address a
\* node believes in is always the one it is registered with (BeliefsHold).
THEOREM BeliefsAlwaysHold ==
  ASSUME {"deregister", "torn_save", "console"} \cap Environment = {}
  PROVE  Spec => []BeliefsHold
<1>1. Init => BeliefInv
  <2> SUFFICES ASSUME Init PROVE BeliefInv
    OBVIOUS
  <2>1. \A n \in Nodes : up[n] = <<>> /\ down[n] = <<>> /\ address[n] = BROADCAST_ADDR
    BY DEF Init
  <2> QED
    BY <2>1, EmptySeq, MaxAddressAssumption DEF BeliefInv
<1>2. IInv /\ BeliefInv /\ [Next]_vars => BeliefInv'
  BY BeliefStep
<1>3. IInv /\ BeliefInv => BeliefsHold
  <2> SUFFICES ASSUME IInv, BeliefInv, NEW n \in Nodes, address[n] # BROADCAST_ADDR
               PROVE  address[n] = AddressOf(n)
    BY DEF BeliefsHold
  <2>1. address[n] \in DeviceAddresses
    BY MaxAddressAssumption DEF IInv, TypeOK
  <2>2. PICK d \in devices : d.uid = n /\ d.address = address[n]
    BY <2>1 DEF BeliefInv, Has
  <2> QED
    BY <2>2 DEF IInv, UniqueDevices, AddressOf, Of
<1> QED
  BY <1>1, <1>2, <1>3, Invariance, PTL DEF Spec
=============================================================================
