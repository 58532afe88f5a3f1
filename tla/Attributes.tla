------------------------------ MODULE Attributes ------------------------------
(***************************************************************************)
(* Writing the attributes of an interface: one attribute, a pack one after *)
(* the other, or a pack atomically (AbstractInterface::handle_attribute).  *)
(*                                                                         *)
(* A payload is kept byte by byte, since the atomic write reads UIDs where *)
(* there are none: its trial run does not skip the values it looks at.     *)
(* Attributes are one byte wide.  Requests are well formed; what matters   *)
(* is which attributes they name.                                          *)
(***************************************************************************)
EXTENDS Naturals, Sequences

CONSTANTS
  Byte,      \* what a byte of a payload may be, as a UID or as a value
  Attr,      \* UIDs of the attributes of the interface
  Writable,  \* the attributes that can be written to by requests
  MaxCount   \* bound: attributes named by a request (255 in the code)

ASSUME ByteAssumption == Byte \subseteq Nat
ASSUME AttrAssumption == Attr \subseteq Byte /\ Writable \subseteq Attr
ASSUME CountAssumption == MaxCount \in Nat

VARIABLE value  \* the attributes of the interface

\* A request names attributes and gives a value for each.
Requests == UNION {[1..n -> [uid : Byte, value : Byte]] : n \in 1..MaxCount}

\* The bytes of a request after the number of attributes.
Payload(req) ==
  [b \in 1..(2 * Len(req)) |->
     LET field == req[(b + 1) \div 2] IN IF b % 2 = 1 THEN field.uid ELSE field.value]

-----------------------------------------------------------------------------
(* One attribute: offset is the number of bytes read so far.  A trial      *)
(* (nop) stays in front of the value of an attribute it may write.         *)

Refuse(at, code, offset) == [at EXCEPT !.code = code, !.offset = offset]

Store(at, uid, new) ==
  [at EXCEPT !.code = "OK", !.offset = @ + 1, !.value[uid] = new,
             !.changes = Append(@, [uid |-> uid, old |-> at.value[uid], new |-> new])]

\* Mutant: the value of a read-only attribute is not skipped.
update_in_place(at, uid, bytes, nop) ==
  CASE uid \notin Attr -> Refuse(at, "FAIL_SUPPORT", at.offset)
    [] uid \in Attr \ Writable -> Refuse(at, "FAIL_RO_ATTR", at.offset)
    [] OTHER -> IF nop THEN [at EXCEPT !.code = "OK"]
                       ELSE Store(at, uid, bytes[at.offset + 1])

update_attribute(at, uid, bytes, nop) ==
  CASE uid \notin Attr -> Refuse(at, "FAIL_SUPPORT", at.offset)
    [] uid \in Attr \ Writable -> Refuse(at, "FAIL_RO_ATTR", at.offset + 1)
    [] uid \in Writable /\ at.offset >= Len(bytes) -> Refuse(at, "FAIL_UNKNOWN", at.offset)
    [] OTHER -> IF nop THEN [at EXCEPT !.code = "OK"]
                       ELSE Store(at, uid, bytes[at.offset + 1])

Start == [value |-> value, offset |-> 0, code |-> "OK", results |-> <<>>, changes |-> <<>>]

\* Mutant: attributes after one that does not exist are written as well.
GoesOnAlways(at) == TRUE

\* An attribute that does not exist ends the request, a read-only one does not.
GoesOn(at) == at.code \notin {"FAIL_SUPPORT", "FAIL_UNKNOWN"}

\* GoesOn is asked of the attribute before: the loop ends after the one refused.
update_attributes(req, nop) ==
  LET bytes == Payload(req)
      pass[i \in 0..Len(req)] ==
        IF i = 0 THEN Start
        ELSE LET at  == pass[i - 1]
                 uid == bytes[at.offset + 1]
                 new == update_attribute([at EXCEPT !.offset = @ + 1], uid, bytes, nop)
             IN IF GoesOn(at)
                THEN [new EXCEPT !.results = Append(@, [uid |-> uid, code |-> new.code])]
                ELSE at
  IN pass[Len(req)]

\* Mutant: the trial run already writes.
refused_late(req) ==
  LET trial == update_attributes(req, FALSE)
  IN IF \A i \in DOMAIN trial.results : trial.results[i].code = "OK"
     THEN update_attributes(req, FALSE)
     ELSE [trial EXCEPT !.code = "REFUSED"]

\* First a trial, then, when it met no error, the same again for real.
update_attributes_atomic(req) ==
  LET trial == update_attributes(req, TRUE)
      real  == update_attributes(req, FALSE)
  IN IF \A i \in DOMAIN trial.results : trial.results[i].code = "OK"
     THEN [real EXCEPT !.code = "OK"]
     ELSE [trial EXCEPT !.code = "REFUSED"]

-----------------------------------------------------------------------------
(* What the requests mean.                                                 *)

\* The fields of a request that a write may reach: a read-only attribute is
\* passed over, one that does not exist ends the request.
Reached(req) == {i \in DOMAIN req : \A j \in 1..i : req[j].uid \in Attr}

\* The last of the fields that name a writable attribute gives its value.
Wanted(req) ==
  [a \in Attr |->
     LET naming == {i \in Reached(req) : req[i].uid = a}
     IN IF a \in Writable /\ naming # {}
        THEN req[CHOOSE i \in naming : \A j \in naming : j <= i].value
        ELSE value[a]]
=============================================================================
