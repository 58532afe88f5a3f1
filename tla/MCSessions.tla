------------------------------ MODULE MCSessions ------------------------------
(* Two readers, each with an address of its own.                           *)
EXTENDS Sessions

CONSTANTS reader, other, a1, a2

MCReaders == {reader, other}
MCAddresses == {a1, a2}
MCRegistered == [r \in MCReaders |-> IF r = reader THEN a1 ELSE a2]
=============================================================================
