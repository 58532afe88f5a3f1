------------------------------- MODULE Sessions -------------------------------
(***************************************************************************)
(* Read sessions over a table of the concentrator (SessionManagement): a   *)
(* device starts a session, reads the entries in slices and ends it, while *)
(* the table changes under it.  The table is the device management one, a  *)
(* vector in which saving an entry moves it to the end.                    *)
(*                                                                         *)
(* The library leaves to the application what it does with the slices; a   *)
(* reader here keeps all those it got since its last START.  Requests and  *)
(* answers of a device travel in order, so an exchange is one step.        *)
(***************************************************************************)
EXTENDS Integers, Sequences, FiniteSets, SequencesExt

CONSTANTS
  Readers,    \* the devices that read
  Addresses,  \* device addresses; BROADCAST_ADDR is one of them
  SourceOf,   \* the source address each reader puts in its packets
  Slots,      \* addresses of the entries, NoSlot the one save refuses
  NoSlot,
  Data,       \* what an entry says of its device
  MaxEntries, \* bound: entries in the table
  MaxCount    \* bound: entries asked for at a time (255 in the code)

ASSUME SourceAssumption == SourceOf \in [Readers -> Addresses]
ASSUME SlotsAssumption == NoSlot \notin Slots
ASSUME BoundsAssumption == MaxEntries \in Nat /\ MaxCount \in Nat

VARIABLES
  db,        \* the entries, in the order a session reads them
  sessions,  \* address -> is its session valid
  read,      \* reader: <<index, entry>> for each entry it has got
  started    \* history: reader -> the table its last START found

vars == <<db, sessions, read, started>>

Entry == [slot : Slots, data : Data]

Init ==
  /\ db = <<>> /\ sessions = [a \in {} |-> FALSE]
  /\ read = [r \in Readers |-> {}]
  /\ started = [r \in {} |-> <<>>]

-----------------------------------------------------------------------------
(* The table, wrapped so that changing it invalidates every session.       *)

\* Mutant: the table changes without a word to the session manager.
untouched == sessions

invalidate == [a \in DOMAIN sessions |-> FALSE]

\* The vector without the entry of an address.
At(s) == {i \in DOMAIN db : db[i].slot = s}
Without(s) == IF At(s) = {} THEN db ELSE RemoveAt(db, CHOOSE i \in At(s) : TRUE)

\* Mutant: the entry without an address is not refused.
save_any(s, d) ==
  /\ Len(Without(s)) < MaxEntries
  /\ db' = Append(Without(s), [slot |-> s, data |-> d])
  /\ sessions' = invalidate
  /\ UNCHANGED <<read, started>>

\* A refused entry invalidates the sessions as well.
save(s, d) ==
  /\ Len(Without(s)) < MaxEntries
  /\ db' = IF s = NoSlot THEN db ELSE Append(Without(s), [slot |-> s, data |-> d])
  /\ sessions' = invalidate
  /\ UNCHANGED <<read, started>>

\* So does destroying an entry that is not there.
destroy(s) ==
  /\ db' = Without(s)
  /\ sessions' = invalidate
  /\ UNCHANGED <<read, started>>

-----------------------------------------------------------------------------
(* The session commands, from reader r.                                    *)

exists(a) == a \in DOMAIN sessions

\* Mutant: a session is as good as valid if there is one.
exists_at_all(a) == exists(a)

is_valid(a) == exists(a) /\ sessions[a]

\* A device has at most one session: starting again renews it.
start_session(r) ==
  /\ sessions' = [a \in DOMAIN sessions \cup {SourceOf[r]} |->
                    a = SourceOf[r] \/ sessions[a]]
  /\ read' = [read EXCEPT ![r] = {}]
  /\ started' = [q \in DOMAIN started \cup {r} |-> IF q = r THEN db ELSE started[q]]
  /\ UNCHANGED db

end_session(r) ==
  /\ sessions' = [a \in DOMAIN sessions \ {SourceOf[r]} |-> sessions[a]]
  /\ UNCHANGED <<db, read, started>>

check_session(a) ==
  IF ~exists(a) THEN "FAIL_READ_SESSION" ELSE IF ~is_valid(a) THEN "FAIL_MODIFIED" ELSE "OK"

\* An offset past the last entry is refused, a count past it is cut.
check_offset(offset, count, size) ==
  [code |-> IF offset >= size THEN "FAIL_ARG" ELSE "OK",
   count |-> IF offset + count >= size THEN size - offset ELSE count]

entries(offset, count) ==
  LET slice == check_offset(offset, count, Len(db))
  IN  IF slice.code = "OK"
      THEN {<<i, db[i]>> : i \in offset + 1..offset + slice.count} ELSE {}

get_entries(r, offset, count) ==
  /\ read' = IF check_session(SourceOf[r]) = "OK"
             THEN [read EXCEPT ![r] = @ \cup entries(offset, count)] ELSE read
  /\ UNCHANGED <<db, sessions, started>>

Next ==
  \/ \E s \in Slots \cup {NoSlot}, d \in Data : save(s, d)
  \/ \E s \in Slots : destroy(s)
  \/ \E r \in Readers :
       \/ start_session(r) \/ end_session(r)
       \/ \E offset \in 0..MaxEntries, count \in 0..MaxCount : get_entries(r, offset, count)

Spec == Init /\ [][Next]_vars

-----------------------------------------------------------------------------
(* Properties.                                                             *)

\* Every variable holds what the code's types and bounds allow.
TypeOK ==
  /\ db \in Seq(Entry)
  /\ sessions \in [DOMAIN sessions -> BOOLEAN] /\ DOMAIN sessions \subseteq Addresses
  /\ read \in [Readers -> SUBSET (Nat \X Entry)]
  /\ started \in [DOMAIN started -> Seq(Entry)] /\ DOMAIN started \subseteq Readers

\* The slices a reader puts together are those of one table, the one there
\* was when its session started: a change between two slices is never missed
\* (EntriesWrapper invalidates, check_session refuses).
ConsistentRead ==
  \A r \in Readers : \A p \in read[r] :
    r \in DOMAIN started /\ p[1] \in DOMAIN started[r] /\ p[2] = started[r][p[1]]

\* Sessions implement TableReads: whatever the slices asked for, and however
\* changes, renewed and ended sessions interleave, a reader cannot tell its GETs
\* from looks at one copy made at its START, and is given nothing once the table
\* is another.
Reads == INSTANCE TableReads WITH Entries <- Entry, table <- db, copy <- started, given <- read

ReadsAtOnce == Reads!Spec
=============================================================================
