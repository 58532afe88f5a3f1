---------------------------- MODULE SessionsProofs ----------------------------
(* Proofs that a read session never mixes two tables, whatever the number  *)
(* of readers, the table's size and the slices they ask for.               *)
EXTENDS Sessions, SequenceTheorems, TLAPS

-----------------------------------------------------------------------------
(* The table's changes.                                                    *)

\* Destroying or replacing an entry leaves a table of entries.
LEMMA WithoutType ==
  ASSUME db \in Seq(Entry), NEW s
  PROVE  Without(s) \in Seq(Entry)
<1>1. CASE At(s) = {}
  BY <1>1 DEF Without
<1>2. CASE At(s) # {}
  <2> DEFINE k == CHOOSE i \in At(s) : TRUE
             before == SubSeq(db, 1, k - 1)
             after == SubSeq(db, k + 1, Len(db))
  <2>1. k \in 1..Len(db) /\ Len(db) \in Nat
    BY <1>2, LenProperties DEF At
  <2>2. \A i \in 1..Len(db) : db[i] \in Entry
    BY ElementOfSeq
  <2> HIDE DEF k
  <2>3. before \in Seq(Entry) /\ after \in Seq(Entry)
    BY <2>1, <2>2, SubSeqProperties
  <2>4. Without(s) = before \o after
    BY <1>2 DEF Without, RemoveAt, k
  <2> QED
    BY <2>3, <2>4, ConcatProperties
<1> QED
  BY <1>1, <1>2

\* The readers' view of check_offset: what a slice holds is in the table.
LEMMA SliceInTable ==
  ASSUME db \in Seq(Entry), NEW offset \in Nat, NEW count \in Nat,
         NEW p \in entries(offset, count)
  PROVE  p[1] \in DOMAIN db /\ p[2] = db[p[1]] /\ p \in Nat \X Entry
<1> DEFINE slice == check_offset(offset, count, Len(db))
<1>1. Len(db) \in Nat /\ DOMAIN db = 1..Len(db)
  BY LenProperties
<1>2. slice.code = "OK" /\ p \in {<<i, db[i]>> : i \in offset + 1..offset + slice.count}
  BY DEF entries
<1>3. offset < Len(db) /\ slice.count \in Nat /\ offset + slice.count <= Len(db)
  BY <1>1, <1>2 DEF check_offset
<1> HIDE DEF slice
<1>4. PICK i \in offset + 1..offset + slice.count : p = <<i, db[i]>>
  BY <1>2
<1>5. i \in 1..Len(db)
  BY <1>1, <1>3, <1>4
<1> QED
  BY <1>1, <1>4, <1>5, ElementOfSeq

-----------------------------------------------------------------------------
(* The inductive invariant: a reader whose session is valid would still    *)
(* read the table it started with.  Needs that no two readers share a      *)
(* source address, hence a session.                                        *)

OwnAddresses == \A r, q \in Readers : SourceOf[r] = SourceOf[q] => r = q

OwnSession ==
  \A r \in Readers : is_valid(SourceOf[r]) => r \in DOMAIN started /\ db = started[r]

IInv == TypeOK /\ ConsistentRead /\ OwnSession

\* The variables keep their types, shared addresses or not.
LEMMA TypeStep == TypeOK /\ [Next]_vars => TypeOK'
<1> SUFFICES ASSUME TypeOK, [Next]_vars PROVE TypeOK'
  OBVIOUS
<1> USE DEF TypeOK
<1>1. invalidate \in [DOMAIN sessions -> BOOLEAN]
  BY DEF invalidate
<1>2. ASSUME NEW s \in Slots \cup {NoSlot}, NEW d \in Data, save(s, d) PROVE TypeOK'
  <2>1. db' \in Seq(Entry)
    BY <1>2, WithoutType, AppendProperties DEF save, Entry
  <2> QED
    BY <1>1, <1>2, <2>1 DEF save
<1>3. ASSUME NEW s \in Slots, destroy(s) PROVE TypeOK'
  BY <1>1, <1>3, WithoutType DEF destroy
<1>4. ASSUME NEW r \in Readers, start_session(r) PROVE TypeOK'
  <2>1. SourceOf[r] \in Addresses
    BY SourceAssumption
  <2>2. sessions' \in [DOMAIN sessions \cup {SourceOf[r]} -> BOOLEAN]
    BY <1>4 DEF start_session
  <2>3. started' \in [DOMAIN started \cup {r} -> Seq(Entry)]
    BY <1>4 DEF start_session
  <2> QED
    BY <1>4, <2>1, <2>2, <2>3 DEF start_session
<1>5. ASSUME NEW r \in Readers, end_session(r) PROVE TypeOK'
  <2>1. sessions' \in [DOMAIN sessions \ {SourceOf[r]} -> BOOLEAN]
    BY <1>5 DEF end_session
  <2> QED
    BY <1>5, <2>1 DEF end_session
<1>6. ASSUME NEW r \in Readers, NEW offset \in Nat, NEW count \in Nat,
             get_entries(r, offset, count)
      PROVE  TypeOK'
  <2>1. entries(offset, count) \subseteq Nat \X Entry
    BY SliceInTable
  <2> QED
    BY <1>6, <2>1 DEF get_entries
<1>7. CASE UNCHANGED vars
  BY <1>7 DEF vars
<1>8. 0..MaxEntries \subseteq Nat /\ 0..MaxCount \subseteq Nat
  BY BoundsAssumption
<1> QED
  BY <1>2, <1>3, <1>4, <1>5, <1>6, <1>7, <1>8 DEF Next

LEMMA SessionStep ==
  ASSUME OwnAddresses, IInv, [Next]_vars
  PROVE  IInv'
<1> USE DEF IInv
<1>1. TypeOK'
  BY TypeStep
<1>2. ASSUME sessions' = invalidate, UNCHANGED <<read, started>>
      PROVE  ConsistentRead' /\ OwnSession'
  <2>1. \A a : ~is_valid(a)'
    BY <1>2 DEF invalidate, is_valid, exists
  <2> QED
    BY <1>2, <2>1 DEF ConsistentRead, OwnSession
<1>3. ASSUME NEW r \in Readers, start_session(r) PROVE ConsistentRead' /\ OwnSession'
  <2>1. started'[r] = db /\ read'[r] = {} /\ db' = db
    BY <1>3 DEF start_session, TypeOK
  <2>2. \A q \in Readers \ {r} :
          /\ read'[q] = read[q]
          /\ q \in DOMAIN started => q \in DOMAIN started' /\ started'[q] = started[q]
          /\ is_valid(SourceOf[q])' => is_valid(SourceOf[q])
    BY <1>3 DEF start_session, OwnAddresses, TypeOK, is_valid, exists
  <2>3. r \in DOMAIN started'
    BY <1>3 DEF start_session
  <2>4. ConsistentRead'
    <3> SUFFICES ASSUME NEW q \in Readers, NEW p \in read'[q]
                 PROVE  /\ q \in DOMAIN started' /\ p[1] \in DOMAIN started'[q]
                        /\ p[2] = started'[q][p[1]]
      BY DEF ConsistentRead
    <3>1. q # r /\ p \in read[q]
      BY <2>1, <2>2
    <3> QED
      BY <2>2, <3>1 DEF ConsistentRead
  <2>5. ASSUME NEW q \in Readers, is_valid(SourceOf[q])'
        PROVE  q \in DOMAIN started' /\ db' = started'[q]
    <3>1. CASE q = r
      BY <2>1, <2>3, <3>1
    <3>2. CASE q # r
      BY <2>1, <2>2, <2>5, <3>2 DEF OwnSession
    <3> QED
      BY <3>1, <3>2
  <2> QED
    BY <2>4, <2>5 DEF OwnSession
<1>4. ASSUME NEW r \in Readers, end_session(r) PROVE ConsistentRead' /\ OwnSession'
  <2>1. \A a : is_valid(a)' => is_valid(a)
    BY <1>4 DEF end_session, is_valid, exists
  <2> QED
    BY <1>4, <2>1 DEF end_session, ConsistentRead, OwnSession
<1>5. ASSUME NEW r \in Readers, NEW offset \in Nat, NEW count \in Nat,
             get_entries(r, offset, count)
      PROVE  ConsistentRead' /\ OwnSession'
  <2>1. UNCHANGED <<db, sessions, started>>
    BY <1>5 DEF get_entries
  <2>2. OwnSession'
    BY <2>1 DEF OwnSession, is_valid, exists
  <2>3. ASSUME NEW q \in Readers, NEW p \in read'[q], p \notin read[q]
        PROVE  q = r /\ p \in entries(offset, count) /\ is_valid(SourceOf[r])
    BY <1>5, <2>3 DEF get_entries, TypeOK, check_session
  <2>4. ConsistentRead'
    BY <2>1, <2>3, SliceInTable DEF ConsistentRead, OwnSession, TypeOK
  <2> QED
    BY <2>2, <2>4
<1>6. ASSUME UNCHANGED vars PROVE ConsistentRead' /\ OwnSession'
  <2>1. ConsistentRead'
    BY <1>6 DEF vars, ConsistentRead
  <2>2. OwnSession'
    BY <1>6 DEF vars, OwnSession, is_valid, exists
  <2> QED
    BY <2>1, <2>2
<1>7. 0..MaxEntries \subseteq Nat /\ 0..MaxCount \subseteq Nat
  BY BoundsAssumption
<1>8. \A s, d : save(s, d) \/ destroy(s) => ConsistentRead' /\ OwnSession'
  BY <1>2 DEF save, destroy
<1>9. ConsistentRead' /\ OwnSession'
  BY <1>3, <1>4, <1>5, <1>6, <1>7, <1>8 DEF Next
<1> QED
  BY <1>1, <1>9

-----------------------------------------------------------------------------
\* The variables keep their types (TypeOK).
THEOREM SessionTypes == Spec => []TypeOK
<1>1. Init => TypeOK
  BY EmptySeq DEF Init, TypeOK
<1> QED
  BY <1>1, TypeStep, PTL DEF Spec

\* As long as each reader has an address of its own, the slices it puts
\* together come from the one table its session started with (ConsistentRead).
THEOREM ReadsAreConsistent ==
  ASSUME OwnAddresses
  PROVE  Spec => []ConsistentRead
<1>1. Init => IInv
  BY EmptySeq DEF Init, IInv, TypeOK, ConsistentRead, OwnSession, is_valid, exists
<1>2. IInv /\ [Next]_vars => IInv'
  BY SessionStep
<1>3. IInv => ConsistentRead
  BY DEF IInv
<1> QED
  BY <1>1, <1>2, <1>3, PTL DEF Spec

-----------------------------------------------------------------------------
(* The refinement: sessions, seen as copies of the table.                   *)

\* START copies, a GET gives pieces of a copy that is still the table, and all
\* else changes the table or nothing that TableReads knows of.
LEMMA ReadStep ==
  ASSUME IInv, IInv', [Next]_vars
  PROVE  [Reads!Next]_(Reads!vars)
<1> USE DEF Reads!vars
<1>1. ASSUME UNCHANGED <<read, started>> PROVE [Reads!Next]_(Reads!vars)
  BY <1>1 DEF Reads!Next, Reads!Change, IInv, TypeOK
<1>2. ASSUME NEW r \in Readers, start_session(r) PROVE [Reads!Next]_(Reads!vars)
  BY <1>2 DEF start_session, Reads!Next, Reads!Copy
<1>3. ASSUME NEW r \in Readers, NEW offset \in Nat, NEW count \in Nat,
             get_entries(r, offset, count)
      PROVE  [Reads!Next]_(Reads!vars)
  <2>1. CASE check_session(SourceOf[r]) # "OK"
    BY <1>1, <1>3, <2>1 DEF get_entries
  <2>2. CASE check_session(SourceOf[r]) = "OK"
    <3>1. r \in DOMAIN started /\ db = started[r]
      BY <2>2 DEF check_session, IInv, OwnSession
    <3>2. entries(offset, count) \in SUBSET Reads!Pieces(db)
      <4> SUFFICES ASSUME NEW p \in entries(offset, count) PROVE p \in Reads!Pieces(db)
        OBVIOUS
      <4>1. p[1] \in DOMAIN db /\ p[2] = db[p[1]] /\ p = <<p[1], p[2]>>
        BY SliceInTable DEF IInv, TypeOK
      <4> QED
        BY <4>1 DEF Reads!Pieces
    <3>3. read' = [read EXCEPT ![r] = @ \cup entries(offset, count)] /\ UNCHANGED <<db, started>>
      BY <1>3, <2>2 DEF get_entries
    <3> QED
      BY <3>1, <3>2, <3>3 DEF Reads!Next, Reads!Give
  <2> QED
    BY <2>1, <2>2
<1>4. \A s, d, r : save(s, d) \/ destroy(s) \/ end_session(r) => UNCHANGED <<read, started>>
  BY DEF save, destroy, end_session
<1>5. UNCHANGED vars => UNCHANGED <<read, started>>
  BY DEF vars
<1>6. 0..MaxEntries \subseteq Nat /\ 0..MaxCount \subseteq Nat
  BY BoundsAssumption
<1> QED
  BY <1>1, <1>2, <1>3, <1>4, <1>5, <1>6 DEF Next

\* Sessions implement TableReads (ReadsAtOnce): to a reader with an address of
\* its own, the GETs of a session are looks at one copy of the table.
THEOREM ReadsImplementCopies ==
  ASSUME OwnAddresses
  PROVE  Spec => ReadsAtOnce
<1>1. Init => IInv
  BY EmptySeq DEF Init, IInv, TypeOK, ConsistentRead, OwnSession, is_valid, exists
<1>2. IInv /\ [Next]_vars => IInv'
  BY SessionStep
<1>3. Init => Reads!Init
  BY DEF Init, Reads!Init
<1>4. IInv /\ IInv' /\ [Next]_vars => [Reads!Next]_(Reads!vars)
  BY ReadStep
<1> QED
  BY <1>1, <1>2, <1>3, <1>4, PTL DEF Spec, ReadsAtOnce, Reads!Spec
=============================================================================
