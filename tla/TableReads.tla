----------------------------- MODULE TableReads -----------------------------
(***************************************************************************)
(* What read sessions promise: each reader gets what it would have got had *)
(* it copied the whole table at once when it started, and gets it only as  *)
(* long as the table still is that copy.  There are no sessions here, and  *)
(* nothing to mark as modified.                                            *)
(***************************************************************************)
EXTENDS Integers, Sequences

CONSTANTS Readers, Entries

VARIABLES
  table,  \* the entries
  copy,   \* reader that started -> the table it found then
  given   \* reader -> <<index, entry>> for each entry it has got since

vars == <<table, copy, given>>

Init ==
  /\ table = <<>>
  /\ copy = [r \in {} |-> <<>>]
  /\ given = [r \in Readers |-> {}]

\* Anybody may change the table at any time.
Change == table' \in Seq(Entries) /\ UNCHANGED <<copy, given>>

Copy(r) ==
  /\ copy' = [q \in DOMAIN copy \cup {r} |-> IF q = r THEN table ELSE copy[q]]
  /\ given' = [given EXCEPT ![r] = {}]
  /\ UNCHANGED table

Pieces(t) == {<<i, t[i]>> : i \in DOMAIN t}

Give(r) ==
  /\ r \in DOMAIN copy /\ table = copy[r]
  /\ \E pieces \in SUBSET Pieces(copy[r]) : given' = [given EXCEPT ![r] = @ \cup pieces]
  /\ UNCHANGED <<table, copy>>

Next == Change \/ \E r \in Readers : Copy(r) \/ Give(r)

Spec == Init /\ [][Next]_vars
=============================================================================
