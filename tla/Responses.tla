------------------------------ MODULE Responses ------------------------------
(***************************************************************************)
(* What happens to a packet between devices: sending, receiving, routing   *)
(* in the concentrator, and the filter with which every device tells       *)
(* whether a request it was sent still lacks its response.                 *)
(*                                                                         *)
(* All devices are registered and linked, and their addresses identify     *)
(* them.  Requests of other kinds than commands go the same way, each kind *)
(* with a response of its own; an interface member stands for both.        *)
(***************************************************************************)
EXTENDS Integers, Sequences, FiniteSets, SequencesExt

CONSTANTS
  Nodes,       \* the devices around the concentrator
  Base,        \* the concentrator
  Units,       \* the units of a device that send
  Interfaces,  \* interface members
  Wildcard,    \* stands for BROADCAST_ADDR, BROADCAST_UNIT and ANY_UID
  Rows,        \* bind rows that may be in the bind table
  MaxRows,     \* bound: rows in the bind table
  MaxInFlight, \* bound: messages under way when a request is sent
  MaxEntries   \* bound: equal entries in a filter

Devices == Nodes \cup {Base}

Row == [device : Devices \cup {Wildcard}, unit : Units \cup {Wildcard},
        itf : Interfaces \cup {Wildcard}, destination : Devices]

ASSUME DevicesAssumption == Base \notin Nodes /\ Wildcard \notin Devices
ASSUME WildcardAssumption == Wildcard \notin Units \cup Interfaces
ASSUME RowsAssumption == Rows \subseteq Row
ASSUME BoundsAssumption == MaxRows \in Nat /\ MaxInFlight \in Nat /\ MaxEntries \in Nat

VARIABLES
  binds,    \* the bind table
  filter,   \* device -> how many responses it has noted, by address and member
  todo,     \* concentrator: copies of the packet it is routing still to be sent
  up, down  \* messages on each node's link, towards and from the concentrator

vars == <<binds, filter, todo, up, down>>

Message == [type : {"REQ", "RESP_REQ", "RES"}, source : Devices \cup {Wildcard},
            unit : Units \cup {Wildcard}, destination : Devices \cup {Wildcard}, itf : Interfaces]

Entries == Devices \X Interfaces

Init ==
  /\ binds \in {rows \in SUBSET Rows : Cardinality(rows) <= MaxRows}
  /\ filter = [d \in Devices |-> [e \in Entries |-> 0]]
  /\ todo = {}
  /\ up = [n \in Nodes |-> <<>>] /\ down = [n \in Nodes |-> <<>>]

-----------------------------------------------------------------------------
(* The filter.  db is one device's: a count for each address and member.   *)

Subject(m) == <<IF m.type = "RES" THEN m.destination ELSE m.source, m.itf>>

\* Mutant: an entry is erased whether or not there is one.
noted_unchecked(db, m) ==
  IF Subject(m) \notin Entries THEN db
  ELSE [db EXCEPT ![Subject(m)] = IF m.type = "RES" THEN @ + 1 ELSE @ - 1]

\* A response is noted under the address it goes to; a request of that address
\* to the same member takes one such entry away.  No request comes from the
\* broadcast address, so what is noted under it stays for good and is left out.
noted(db, m) ==
  IF Subject(m) \notin Entries THEN db
  ELSE [db EXCEPT ![Subject(m)] =
          IF m.type = "RES" THEN @ + 1 ELSE IF @ > 0 THEN @ - 1 ELSE @]

\* Mutant: every request is said to lack its response.
unanswered_always(db, m) == m.type = "RESP_REQ"

\* Whether the filter says that request m lacks its response.
unanswered(db, m) == m.type = "RESP_REQ" /\ db[Subject(m)] = 0

\* The response of a unit's handler, and the one made up for it: the packet of
\* the latter is given a link, and no address.
Reply(d, m) ==
  [type |-> "RES", source |-> d, unit |-> Wildcard, destination |-> m.source, itf |-> m.itf]
Generated(m) ==
  [type |-> "RES", source |-> Wildcard, unit |-> Wildcard, destination |-> Wildcard, itf |-> m.itf]

\* Device d receives m: its unit answers or not, and the filter has its say.
\* out is what d sends on the link m came from.
receive(d, db, m, answers) ==
  LET replies == answers /\ m.type # "RES" /\ m.destination = d
      after == IF replies THEN noted(db, Reply(d, m)) ELSE db
      reply == IF replies THEN <<Reply(d, m)>> ELSE <<>>
  IN  IF m.source = d THEN [db |-> db, out |-> <<>>]
      ELSE IF unanswered(after, m)
      THEN [db |-> noted(noted(after, m), Generated(m)), out |-> Append(reply, Generated(m))]
      ELSE [db |-> noted(after, m), out |-> reply]

-----------------------------------------------------------------------------
(* Sending.                                                                *)

InFlight ==
  Cardinality(todo) + FoldSet(LAMBDA n, sum : sum + Len(up[n]) + Len(down[n]), 0, Nodes)

Bounded(db) == \A e \in Entries : db[e] <= MaxEntries

\* A unit of node n sends a request; to Wildcard, for the bind table to route.
NodeSends(n) ==
  /\ InFlight < MaxInFlight
  /\ \E type \in {"REQ", "RESP_REQ"}, u \in Units, i \in Interfaces :
     \E to \in (Devices \cup {Wildcard}) \ {n} :
       LET m == [type |-> type, source |-> n, unit |-> u, destination |-> to, itf |-> i]
       IN  /\ up' = [up EXCEPT ![n] = Append(@, m)]
           /\ filter' = [filter EXCEPT ![n] = noted(@, m)]
  /\ UNCHANGED <<binds, todo, down>>

BaseSends(n) ==
  /\ todo = {}
  /\ InFlight < MaxInFlight
  /\ \E type \in {"REQ", "RESP_REQ"}, u \in Units, i \in Interfaces :
       LET m == [type |-> type, source |-> Base, unit |-> u, destination |-> n, itf |-> i]
       IN  /\ down' = [down EXCEPT ![n] = Append(@, m)]
           /\ filter' = [filter EXCEPT ![Base] = noted(@, m)]
  /\ UNCHANGED <<binds, todo, up>>

NodeReceives(n) ==
  /\ down[n] # <<>>
  /\ \E answers \in BOOLEAN :
       LET r == receive(n, filter[n], Head(down[n]), answers)
       IN  /\ Bounded(r.db)
           /\ filter' = [filter EXCEPT ![n] = r.db]
           /\ up' = [up EXCEPT ![n] = @ \o r.out]
  /\ down' = [down EXCEPT ![n] = Tail(@)]
  /\ UNCHANGED <<binds, todo>>

-----------------------------------------------------------------------------
(* The concentrator.                                                       *)

BaseReceives(n) ==
  /\ todo = {}
  /\ up[n] # <<>> /\ Head(up[n]).destination = Base
  /\ \E answers \in BOOLEAN :
       LET r == receive(Base, filter[Base], Head(up[n]), answers)
       IN  /\ Bounded(r.db)
           /\ filter' = [filter EXCEPT ![Base] = r.db]
           /\ down' = [down EXCEPT ![n] = @ \o r.out]
  /\ up' = [up EXCEPT ![n] = Tail(@)]
  /\ UNCHANGED <<binds, todo>>

\* A packet for another node goes out again on that node's link; to the filter
\* it is a packet sent like any other.
BaseForwards(n) ==
  /\ todo = {}
  /\ up[n] # <<>> /\ Head(up[n]).destination \in Nodes
  /\ LET m == Head(up[n])
     IN  /\ Bounded(noted(filter[Base], m))
         /\ down' = [down EXCEPT ![m.destination] = Append(@, m)]
         /\ filter' = [filter EXCEPT ![Base] = noted(@, m)]
  /\ up' = [up EXCEPT ![n] = Tail(@)]
  /\ UNCHANGED <<binds, todo>>

\* Mutant: the last two pairs are left without the unit of the packet.
route_pairs_no_unit(m) ==
  << <<m.source, m.unit, m.itf>>, <<m.source, m.unit, Wildcard>>,
     <<m.source, Wildcard, m.itf>>, <<m.source, Wildcard, Wildcard>>,
     <<Wildcard, Wildcard, m.itf>>, <<Wildcard, Wildcard, Wildcard>>,
     <<Wildcard, Wildcard, m.itf>>, <<Wildcard, Wildcard, Wildcard>> >>

\* What a bind row may say for a packet to match it, in the order tried.
route_pairs(m) ==
  << <<m.source, m.unit, m.itf>>, <<m.source, m.unit, Wildcard>>,
     <<m.source, Wildcard, m.itf>>, <<m.source, Wildcard, Wildcard>>,
     <<Wildcard, Wildcard, m.itf>>, <<Wildcard, Wildcard, Wildcard>>,
     <<Wildcard, m.unit, m.itf>>, <<Wildcard, m.unit, Wildcard>> >>

\* A command request for the broadcast address goes to the destination of each
\* row found; other packets go no further.
BaseRoutes(n) ==
  /\ todo = {}
  /\ up[n] # <<>> /\ Head(up[n]).destination = Wildcard
  /\ LET m == Head(up[n])
         found == {t \in (1..8) \X binds :
                     <<t[2].device, t[2].unit, t[2].itf>> = route_pairs(m)[t[1]]}
     IN  todo' = IF m.type = "RES" THEN {}
                 ELSE {[rank |-> t[1], row |-> t[2],
                        packet |-> [m EXCEPT !.destination = t[2].destination]] : t \in found}
  /\ up' = [up EXCEPT ![n] = Tail(@)]
  /\ UNCHANGED <<binds, filter, down>>

\* The rows found are served pair by pair, and nothing else is done meanwhile.
BaseServes ==
  \E t \in todo, answers \in BOOLEAN :
    /\ \A other \in todo : t.rank <= other.rank
    /\ LET m == t.packet
           r == receive(Base, filter[Base], m, answers)
       IN  IF m.destination = Base
           THEN /\ Bounded(r.db)
                /\ filter' = [filter EXCEPT ![Base] = r.db]
                /\ down' = [down EXCEPT ![m.source] = @ \o r.out]
           ELSE /\ filter' = [filter EXCEPT ![Base] = noted(@, m)]
                /\ down' = [down EXCEPT ![m.destination] = Append(@, m)]
    /\ todo' = todo \ {t}
    /\ UNCHANGED <<binds, up>>

-----------------------------------------------------------------------------
(* A device restarts: its filter is empty, its links were closed.  A node   *)
(* registers again, with the address it had, before it takes part again.   *)

none == [e \in Entries |-> 0]

NodeRestarts(n) ==
  /\ todo = {}
  /\ filter' = [filter EXCEPT ![n] = none]
  /\ up' = [up EXCEPT ![n] = <<>>] /\ down' = [down EXCEPT ![n] = <<>>]
  /\ UNCHANGED <<binds, todo>>

BaseRestarts ==
  /\ filter' = [filter EXCEPT ![Base] = none]
  /\ todo' = {}
  /\ up' = [n \in Nodes |-> <<>>] /\ down' = [n \in Nodes |-> <<>>]
  /\ UNCHANGED binds

Next ==
  \/ \E n \in Nodes :
       \/ NodeSends(n) \/ BaseSends(n) \/ NodeReceives(n)
       \/ BaseReceives(n) \/ BaseForwards(n) \/ BaseRoutes(n)
       \/ NodeRestarts(n)
  \/ BaseServes \/ BaseRestarts

Spec == Init /\ [][Next]_vars

-----------------------------------------------------------------------------
(* Properties.                                                             *)

\* Every variable holds what the code's types allow: no filter owes entries.
TypeOK ==
  /\ binds \subseteq Row
  /\ filter \in [Devices -> [Entries -> Nat]]
  /\ todo \subseteq [rank : 1..8, row : Row, packet : Message]
  /\ up \in [Nodes -> Seq(Message)] /\ down \in [Nodes -> Seq(Message)]

\* What came after the first k messages of a link.
New(s, k) == SubSeq(s, k + 1, Len(s))

\* A node sends one response, and no more, to each request that requires one,
\* whether its unit answers or not: what is left in its filter from earlier
\* exchanges, its own and those of others, never stands for a missing response
\* nor hides one that was sent.
AnswersOnce ==
  [][\A n \in Nodes :
       NodeReceives(n) /\ Head(down[n]).type = "RESP_REQ" /\ Head(down[n]).source # n
       => /\ Len(New(up'[n], Len(up[n]))) = 1
          /\ New(up'[n], Len(up[n]))[1].type = "RES"]_vars

\* A command that is routed is sent once for each row that asks for it, where
\* a row's address, unit and interface each match by value or as a wildcard.
RoutedOnce ==
  [][\A n \in Nodes :
       LET m == Head(up[n])
           matching == {b \in binds : /\ b.device \in {m.source, Wildcard}
                                      /\ b.unit \in {m.unit, Wildcard}
                                      /\ b.itf \in {m.itf, Wildcard}}
       IN  BaseRoutes(n) /\ m.type # "RES"
           => /\ {t.row : t \in todo'} = matching
              /\ \A t, o \in todo' : t.row = o.row => t = o]_vars

\* protocol.h says the filter is there "for generating a response when a
\* response is required from an incoming message received, but no response was
\* generated"; whoever required it is sent one.
RequesterAnswered ==
  [][\A n \in Nodes :
       LET m == Head(down[n])
       IN  NodeReceives(n) /\ m.type = "RESP_REQ" /\ m.source # n
           => \E k \in DOMAIN New(up'[n], Len(up[n])) :
                New(up'[n], Len(up[n]))[k].destination = m.source]_vars
=============================================================================
