---------------------------- MODULE ResponsesProofs ----------------------------
(* Proofs that nodes answer once and commands are routed once, for every   *)
(* set of devices, units, interfaces and bind rows.                        *)
EXTENDS Responses, SequenceTheorems, TLAPS

\* The filter of device d has entries for d itself only.
Clean(d, db) == \A a \in Devices \ {d}, i \in Interfaces : db[<<a, i>>] = 0

\* What is on the links: requests say who sent them, responses on the way to
\* a node are for it, and the packets being routed are requests of nodes.
UpMessage(n) == {m \in Message : m.type # "RES" => m.source = n /\ m.unit \in Units}
DownMessage(n) ==
  {m \in Message : /\ m.type # "RES" => m.source \in Devices
                   /\ m.type = "RES" => m.destination \in {n, Wildcard}}
Copy == [rank : 1..8, row : Row,
         packet : {m \in Message : /\ m.type # "RES" /\ m.source \in Nodes
                                   /\ m.destination \in Devices}]

Responding(to) == {m \in Message : m.type = "RES" /\ m.destination \in {to, Wildcard}}

FilterOK ==
  filter \in [Devices -> [Entries -> Nat]] /\ \A n \in Nodes : Clean(n, filter[n])
UpOK ==
  up \in [Nodes -> Seq(Message)] /\ \A n \in Nodes : up[n] \in Seq(UpMessage(n))
DownOK ==
  down \in [Nodes -> Seq(Message)] /\ \A n \in Nodes : down[n] \in Seq(DownMessage(n))

IInv == binds \subseteq Row /\ todo \subseteq Copy /\ FilterOK /\ UpOK /\ DownOK

-----------------------------------------------------------------------------
(* The filter.                                                             *)

\* Noting a packet keeps the counts natural numbers and changes one at most.
LEMMA NotedType ==
  ASSUME NEW db \in [Entries -> Nat], NEW m \in Message
  PROVE  /\ noted(db, m) \in [Entries -> Nat]
         /\ \A e \in Entries \ {Subject(m)} : noted(db, m)[e] = db[e]
<1>1. CASE Subject(m) \notin Entries
  BY <1>1 DEF noted
<1>2. CASE Subject(m) \in Entries
  <2>1. db[Subject(m)] \in Nat
    BY <1>2
  <2> QED
    BY <1>2, <2>1 DEF noted
<1> QED
  BY <1>1, <1>2

\* A reply is noted under the address of the request.
LEMMA ReplyNoted ==
  ASSUME NEW d \in Devices, NEW db \in [Entries -> Nat],
         NEW m \in Message, m.type # "RES", m.source \in Devices
  PROVE  /\ Reply(d, m) \in Responding(m.source)
         /\ Subject(Reply(d, m)) = <<m.source, m.itf>> /\ Subject(m) = <<m.source, m.itf>>
         /\ Subject(m) \in Entries
         /\ noted(db, Reply(d, m))[Subject(m)] = db[Subject(m)] + 1
<1>1. Reply(d, m) \in Responding(m.source)
  BY DEF Reply, Responding, Message, Devices
<1>2. /\ Subject(Reply(d, m)) = <<m.source, m.itf>> /\ Subject(m) = <<m.source, m.itf>>
      /\ Subject(m) \in Entries
  BY DEF Reply, Subject, Entries, Message
<1>3. noted(db, Reply(d, m))[Subject(m)] = db[Subject(m)] + 1
  BY <1>2 DEF noted, Reply
<1> QED
  BY <1>1, <1>2, <1>3

LEMMA GeneratedNoted ==
  ASSUME NEW db \in [Entries -> Nat], NEW m \in Message
  PROVE  Generated(m) \in Message /\ noted(db, Generated(m)) = db
<1>1. Generated(m) \in Message
  BY DEF Generated, Message
<1>2. Subject(Generated(m)) \notin Entries
  BY DevicesAssumption DEF Subject, Generated, Entries
<1> QED
  BY <1>1, <1>2 DEF noted

\* What a device sends when it receives m are responses, to whoever sent m or
\* to nobody.
LEMMA ReceiveType ==
  ASSUME NEW d \in Devices, NEW db \in [Entries -> Nat], NEW answers \in BOOLEAN,
         NEW m \in Message, m.type # "RES" => m.source \in Devices
  PROVE  /\ receive(d, db, m, answers).db \in [Entries -> Nat]
         /\ receive(d, db, m, answers).out \in Seq(Responding(m.source))
         /\ m.type = "RES" => receive(d, db, m, answers).out = <<>>
<1> DEFINE replies == answers /\ m.type # "RES" /\ m.destination = d
           after == IF replies THEN noted(db, Reply(d, m)) ELSE db
           reply == IF replies THEN <<Reply(d, m)>> ELSE <<>>
<1>1. after \in [Entries -> Nat] /\ reply \in Seq(Responding(m.source))
  <2>1. CASE replies
    <3>1. m.type # "RES" /\ m.source \in Devices
      BY <2>1
    <3>2. Reply(d, m) \in Responding(m.source) /\ Reply(d, m) \in Message
      BY <3>1, ReplyNoted DEF Responding
    <3> QED
      BY <2>1, <3>2, NotedType
  <2>2. CASE ~replies
    <3> HIDE DEF replies
    <3>1. after = db /\ reply = <<>>
      BY <2>2
    <3>2. <<>> \in Seq(Responding(m.source))
      BY EmptySeq
    <3> QED
      BY <3>1, <3>2
  <2> QED
    BY <2>1, <2>2
<1>2. noted(after, m) \in [Entries -> Nat]
  BY <1>1, NotedType
<1>3. /\ noted(noted(after, m), Generated(m)) \in [Entries -> Nat]
      /\ Generated(m) \in Responding(m.source)
  BY <1>2, GeneratedNoted DEF Responding, Generated
<1>4. m.type = "RES" => ~replies /\ ~unanswered(after, m)
  BY DEF unanswered
<1>5. Append(reply, Generated(m)) \in Seq(Responding(m.source))
  BY <1>1, <1>3
<1> HIDE DEF replies, after, reply
<1>6. receive(d, db, m, answers) =
        IF m.source = d THEN [db |-> db, out |-> <<>>]
        ELSE IF unanswered(after, m)
        THEN [db |-> noted(noted(after, m), Generated(m)),
              out |-> Append(reply, Generated(m))]
        ELSE [db |-> noted(after, m), out |-> reply]
  BY DEF receive, replies, after, reply
<1>7. m.type = "RES" => reply = <<>>
  BY <1>4 DEF reply
<1>8. <<>> \in Seq(Responding(m.source))
  BY EmptySeq
<1>9. CASE m.source = d
  BY <1>6, <1>8, <1>9
<1>10. CASE m.source # d /\ unanswered(after, m)
  BY <1>3, <1>4, <1>5, <1>6, <1>10
<1>11. CASE m.source # d /\ ~unanswered(after, m)
  BY <1>1, <1>2, <1>6, <1>7, <1>11
<1> QED
  BY <1>9, <1>10, <1>11

\* A node that receives something leaves no entry for another device behind.
LEMMA ReceiveClean ==
  ASSUME NEW n \in Nodes, NEW db \in [Entries -> Nat], Clean(n, db),
         NEW answers \in BOOLEAN, NEW m \in DownMessage(n)
  PROVE  Clean(n, receive(n, db, m, answers).db)
<1> DEFINE replies == answers /\ m.type # "RES" /\ m.destination = n
           after == IF replies THEN noted(db, Reply(n, m)) ELSE db
<1>0. n \in Devices /\ m \in Message
  BY DEF Devices, DownMessage
<1>1. CASE m.source = n
  BY <1>1 DEF receive
<1>2. CASE m.type = "RES" /\ m.source # n
  <2>1. receive(n, db, m, answers).db = noted(db, m)
    BY <1>2 DEF receive, unanswered
  <2>2. Subject(m) \in {<<n, m.itf>>, <<Wildcard, m.itf>>}
    BY <1>2 DEF Subject, DownMessage
  <2>3. ASSUME NEW a \in Devices \ {n}, NEW i \in Interfaces
        PROVE  noted(db, m)[<<a, i>>] = 0
    <3>1. <<a, i>> \in Entries /\ <<a, i>> # Subject(m)
      BY <2>2, DevicesAssumption DEF Entries
    <3> QED
      BY <3>1, <1>0, NotedType DEF Clean
  <2> QED
    BY <2>1, <2>3 DEF Clean
<1>3. CASE m.type # "RES" /\ m.source # n
  <2>1. m.source \in Devices /\ m.itf \in Interfaces
    BY <1>3, <1>0 DEF DownMessage, Message
  <2>2. /\ Subject(Reply(n, m)) = Subject(m) /\ Subject(m) \in Entries
        /\ noted(db, Reply(n, m))[Subject(m)] = db[Subject(m)] + 1
        /\ noted(db, Reply(n, m)) \in [Entries -> Nat]
        /\ \A e \in Entries \ {Subject(m)} : noted(db, Reply(n, m))[e] = db[e]
    BY <1>0, <1>3, <2>1, ReplyNoted, NotedType DEF Responding
  <2>3. db[Subject(m)] = 0
    BY <1>0, <1>3, <2>1, ReplyNoted DEF Clean
  <2>4. after \in [Entries -> Nat] /\ after[Subject(m)] \in {0, 1}
    BY <2>2, <2>3
  <2>5. \A e \in Entries \ {Subject(m)} : after[e] = db[e]
    BY <2>2
  <2>6. noted(after, m)[Subject(m)] = 0
    BY <1>3, <2>2, <2>4 DEF noted
  <2>7. \A e \in Entries \ {Subject(m)} : noted(after, m)[e] = db[e]
    BY <1>0, <2>4, <2>5, NotedType
  <2>8. noted(after, m) \in [Entries -> Nat]
    BY <1>0, <2>4, NotedType
  <2>9. receive(n, db, m, answers).db = noted(after, m)
    <3>1. noted(noted(after, m), Generated(m)) = noted(after, m)
      BY <1>0, <2>8, GeneratedNoted
    <3> QED
      BY <1>3, <3>1 DEF receive
  <2>10. \A e \in Entries : noted(after, m)[e] = 0 \/ noted(after, m)[e] = db[e]
    BY <2>6, <2>7
  <2> HIDE DEF after
  <2> QED
    BY <2>9, <2>10 DEF Clean, Entries
<1> QED
  BY <1>1, <1>2, <1>3

\* A clean filter finds the response of the unit, and misses it when there is
\* none.
LEMMA ReceiveOnce ==
  ASSUME NEW n \in Nodes, NEW db \in [Entries -> Nat], Clean(n, db),
         NEW answers \in BOOLEAN, NEW m \in DownMessage(n),
         m.type = "RESP_REQ", m.source # n
  PROVE  /\ Len(receive(n, db, m, answers).out) = 1
         /\ receive(n, db, m, answers).out[1].type = "RES"
<1> DEFINE replies == answers /\ m.type # "RES" /\ m.destination = n
<1>1. n \in Devices /\ m \in Message /\ m.source \in Devices
  BY DEF Devices, DownMessage
<1>2. /\ Subject(m) \in Entries /\ db[Subject(m)] = 0
      /\ noted(db, Reply(n, m))[Subject(m)] = 1
  <2>1. /\ Subject(m) = <<m.source, m.itf>> /\ Subject(m) \in Entries
        /\ noted(db, Reply(n, m))[Subject(m)] = db[Subject(m)] + 1
    BY <1>1, ReplyNoted
  <2>2. m.itf \in Interfaces
    BY <1>1 DEF Message
  <2> QED
    BY <1>1, <2>1, <2>2 DEF Clean
<1>3. CASE replies
  <2>1. ~unanswered(noted(db, Reply(n, m)), m)
    BY <1>2 DEF unanswered
  <2>2. receive(n, db, m, answers).out = <<Reply(n, m)>>
    BY <1>3, <2>1 DEF receive
  <2> QED
    BY <2>2 DEF Reply
<1>4. CASE ~replies
  <2>1. unanswered(db, m)
    BY <1>2 DEF unanswered
  <2>2. receive(n, db, m, answers).out = Append(<<>>, Generated(m))
    BY <1>4, <2>1 DEF receive
  <2> QED
    BY <2>2 DEF Generated
<1> QED
  BY <1>3, <1>4

-----------------------------------------------------------------------------
(* What each variable may become.                                          *)

LEMMA Kinds ==
  ASSUME NEW n \in Nodes
  PROVE  /\ UpMessage(n) \subseteq Message /\ DownMessage(n) \subseteq Message
         /\ \A to : Responding(to) \subseteq UpMessage(n)
         /\ Responding(n) \subseteq DownMessage(n)
         /\ n \in Devices /\ n # Base /\ n # Wildcard
BY DevicesAssumption DEF UpMessage, DownMessage, Responding, Devices

\* The link of one node changes.
LEMMA UpChanged ==
  ASSUME UpOK, NEW n \in Nodes, NEW s \in Seq(UpMessage(n)), up' = [up EXCEPT ![n] = s]
  PROVE  UpOK'
<1>1. s \in Seq(Message)
  BY Kinds, SeqMonotonic
<1> QED
  BY <1>1 DEF UpOK

LEMMA DownChanged ==
  ASSUME DownOK, NEW n \in Nodes, NEW s \in Seq(DownMessage(n)), down' = [down EXCEPT ![n] = s]
  PROVE  DownOK'
<1>1. s \in Seq(Message)
  BY Kinds, SeqMonotonic
<1> QED
  BY <1>1 DEF DownOK

\* The first message of a link, and what is left without it.
LEMMA UpHead ==
  ASSUME UpOK, NEW n \in Nodes, up[n] # <<>>
  PROVE  Head(up[n]) \in UpMessage(n) /\ Tail(up[n]) \in Seq(UpMessage(n))
BY HeadTailProperties DEF UpOK

LEMMA DownHead ==
  ASSUME DownOK, NEW n \in Nodes, down[n] # <<>>
  PROVE  Head(down[n]) \in DownMessage(n) /\ Tail(down[n]) \in Seq(DownMessage(n))
BY HeadTailProperties DEF DownOK

\* The filter of the concentrator, or of a node, changes.
LEMMA BaseFilterChanged ==
  ASSUME FilterOK, NEW db \in [Entries -> Nat], filter' = [filter EXCEPT ![Base] = db]
  PROVE  FilterOK'
BY DevicesAssumption DEF FilterOK, Clean, Devices

LEMMA NodeFilterChanged ==
  ASSUME FilterOK, NEW n \in Nodes, NEW db \in [Entries -> Nat], Clean(n, db),
         filter' = [filter EXCEPT ![n] = db]
  PROVE  FilterOK'
<1>1. filter' \in [Devices -> [Entries -> Nat]] /\ filter'[n] = db
  BY Kinds DEF FilterOK
<1>2. \A d \in Nodes \ {n} : filter'[d] = filter[d]
  BY Kinds DEF FilterOK
<1>3. \A d \in Nodes : Clean(d, filter'[d])
  BY <1>1, <1>2 DEF FilterOK
<1> QED
  BY <1>1, <1>3 DEF FilterOK, Clean

-----------------------------------------------------------------------------
(* The invariant.                                                          *)

LEMMA InitIInv == Init => IInv
<1> SUFFICES ASSUME Init PROVE IInv
  OBVIOUS
<1>1. binds \subseteq Row /\ todo \subseteq Copy
  BY RowsAssumption DEF Init
<1>2. FilterOK
  <2>1. filter = [d \in Devices |-> [e \in Entries |-> 0]]
    BY DEF Init
  <2>2. \A n \in Nodes : filter[n] = [e \in Entries |-> 0]
    BY <2>1, Kinds
  <2> QED
    BY <2>1, <2>2 DEF FilterOK, Clean, Entries
<1>3. UpOK
  BY EmptySeq DEF UpOK, Init
<1>4. DownOK
  BY EmptySeq DEF DownOK, Init
<1> QED
  BY <1>1, <1>2, <1>3, <1>4 DEF IInv

LEMMA NodeSendsIInv ==
  ASSUME IInv, NEW n \in Nodes, NodeSends(n)
  PROVE  IInv'
<1>1. PICK type \in {"REQ", "RESP_REQ"}, u \in Units, i \in Interfaces,
           to \in (Devices \cup {Wildcard}) \ {n} :
        LET m == [type |-> type, source |-> n, unit |-> u, destination |-> to, itf |-> i]
        IN  /\ up' = [up EXCEPT ![n] = Append(@, m)]
            /\ filter' = [filter EXCEPT ![n] = noted(@, m)]
  BY DEF NodeSends
<1> DEFINE m == [type |-> type, source |-> n, unit |-> u, destination |-> to, itf |-> i]
<1>2. m \in UpMessage(n) /\ m \in Message /\ Subject(m) = <<n, i>>
  BY Kinds DEF UpMessage, Message, Subject
<1>3. UpOK'
  <2>1. Append(up[n], m) \in Seq(UpMessage(n))
    BY <1>2, AppendProperties DEF IInv, UpOK
  <2>2. up' = [up EXCEPT ![n] = Append(up[n], m)]
    BY <1>1
  <2> HIDE DEF m
  <2> QED
    BY <2>1, <2>2, UpChanged DEF IInv
<1>4. FilterOK'
  <2>1. filter[n] \in [Entries -> Nat] /\ Clean(n, filter[n])
    BY Kinds DEF IInv, FilterOK
  <2>2. filter' = [filter EXCEPT ![n] = noted(filter[n], m)]
    BY <1>1
  <2> HIDE DEF m
  <2>3. noted(filter[n], m) \in [Entries -> Nat]
    BY <1>2, <2>1, NotedType
  <2>4. Clean(n, noted(filter[n], m))
    <3>1. ASSUME NEW a \in Devices \ {n}, NEW j \in Interfaces
          PROVE  noted(filter[n], m)[<<a, j>>] = 0
      <4>1. <<a, j>> \in Entries \ {Subject(m)}
        BY <1>2 DEF Entries
      <4>2. noted(filter[n], m)[<<a, j>>] = filter[n][<<a, j>>]
        BY <1>2, <2>1, <4>1, NotedType
      <4> QED
        BY <2>1, <4>2 DEF Clean
    <3> QED
      BY <3>1 DEF Clean
  <2> QED
    BY <2>2, <2>3, <2>4, NodeFilterChanged DEF IInv
<1> QED
  BY <1>3, <1>4 DEF NodeSends, IInv, DownOK

LEMMA BaseSendsIInv ==
  ASSUME IInv, NEW n \in Nodes, BaseSends(n)
  PROVE  IInv'
<1>1. PICK type \in {"REQ", "RESP_REQ"}, u \in Units, i \in Interfaces :
        LET m == [type |-> type, source |-> Base, unit |-> u, destination |-> n, itf |-> i]
        IN  /\ down' = [down EXCEPT ![n] = Append(@, m)]
            /\ filter' = [filter EXCEPT ![Base] = noted(@, m)]
  BY DEF BaseSends
<1> DEFINE m == [type |-> type, source |-> Base, unit |-> u, destination |-> n, itf |-> i]
<1>2. m \in DownMessage(n) /\ m \in Message
  BY Kinds DEF DownMessage, Message, Devices
<1>3. DownOK'
  <2>1. Append(down[n], m) \in Seq(DownMessage(n))
    BY <1>2, AppendProperties DEF IInv, DownOK
  <2>2. down' = [down EXCEPT ![n] = Append(down[n], m)]
    BY <1>1
  <2> HIDE DEF m
  <2> QED
    BY <2>1, <2>2, DownChanged DEF IInv
<1>4. FilterOK'
  <2>1. filter[Base] \in [Entries -> Nat]
    BY DEF IInv, FilterOK, Devices
  <2>2. filter' = [filter EXCEPT ![Base] = noted(filter[Base], m)]
    BY <1>1
  <2> HIDE DEF m
  <2> QED
    BY <1>2, <2>1, <2>2, NotedType, BaseFilterChanged DEF IInv
<1> QED
  BY <1>3, <1>4 DEF BaseSends, IInv, UpOK

LEMMA NodeReceivesIInv ==
  ASSUME IInv, NEW n \in Nodes, NodeReceives(n)
  PROVE  IInv'
<1> DEFINE m == Head(down[n])
<1>1. PICK answers \in BOOLEAN :
        /\ filter' = [filter EXCEPT ![n] = receive(n, filter[n], m, answers).db]
        /\ up' = [up EXCEPT ![n] = up[n] \o receive(n, filter[n], m, answers).out]
  BY DEF NodeReceives
<1>2. down[n] # <<>> /\ down' = [down EXCEPT ![n] = Tail(down[n])]
  BY DEF NodeReceives
<1>3. m \in DownMessage(n) /\ Tail(down[n]) \in Seq(DownMessage(n))
  BY <1>2, DownHead DEF IInv
<1>4. filter[n] \in [Entries -> Nat] /\ Clean(n, filter[n]) /\ n \in Devices
  BY Kinds DEF IInv, FilterOK
<1> HIDE DEF m
<1>5. /\ receive(n, filter[n], m, answers).db \in [Entries -> Nat]
      /\ receive(n, filter[n], m, answers).out \in Seq(Responding(m.source))
  BY <1>3, <1>4, ReceiveType DEF DownMessage
<1>6. FilterOK'
  BY <1>1, <1>3, <1>4, <1>5, ReceiveClean, NodeFilterChanged DEF IInv
<1>7. UpOK'
  <2>1. receive(n, filter[n], m, answers).out \in Seq(UpMessage(n))
    BY <1>5, Kinds, SeqMonotonic
  <2>2. up[n] \o receive(n, filter[n], m, answers).out \in Seq(UpMessage(n))
    BY <2>1, ConcatProperties DEF IInv, UpOK
  <2> QED
    BY <1>1, <2>2, UpChanged DEF IInv
<1>8. DownOK'
  BY <1>2, <1>3, DownChanged DEF IInv
<1> QED
  BY <1>6, <1>7, <1>8 DEF NodeReceives, IInv

LEMMA BaseReceivesIInv ==
  ASSUME IInv, NEW n \in Nodes, BaseReceives(n)
  PROVE  IInv'
<1> DEFINE m == Head(up[n])
<1>1. PICK answers \in BOOLEAN :
        /\ filter' = [filter EXCEPT ![Base] = receive(Base, filter[Base], m, answers).db]
        /\ down' = [down EXCEPT ![n] = down[n] \o receive(Base, filter[Base], m, answers).out]
  BY DEF BaseReceives
<1>2. up[n] # <<>> /\ up' = [up EXCEPT ![n] = Tail(up[n])]
  BY DEF BaseReceives
<1>3. m \in UpMessage(n) /\ Tail(up[n]) \in Seq(UpMessage(n))
  BY <1>2, UpHead DEF IInv
<1>4. filter[Base] \in [Entries -> Nat] /\ Base \in Devices
  BY DEF IInv, FilterOK, Devices
<1> HIDE DEF m
<1>5. m \in Message /\ (m.type # "RES" => m.source = n /\ m.source \in Devices)
  BY <1>3, Kinds DEF UpMessage
<1>6. /\ receive(Base, filter[Base], m, answers).db \in [Entries -> Nat]
      /\ receive(Base, filter[Base], m, answers).out \in Seq(Responding(m.source))
      /\ m.type = "RES" => receive(Base, filter[Base], m, answers).out = <<>>
  BY <1>4, <1>5, ReceiveType
<1>7. FilterOK'
  BY <1>1, <1>6, BaseFilterChanged DEF IInv
<1>8. DownOK'
  <2>1. receive(Base, filter[Base], m, answers).out \in Seq(DownMessage(n))
    <3>1. CASE m.type = "RES"
      BY <3>1, <1>6, EmptySeq
    <3>2. CASE m.type # "RES"
      BY <3>2, <1>5, <1>6, Kinds, SeqMonotonic
    <3> QED
      BY <3>1, <3>2
  <2>2. down[n] \o receive(Base, filter[Base], m, answers).out \in Seq(DownMessage(n))
    BY <2>1, ConcatProperties DEF IInv, DownOK
  <2> QED
    BY <1>1, <2>2, DownChanged DEF IInv
<1>9. UpOK'
  BY <1>2, <1>3, UpChanged DEF IInv
<1> QED
  BY <1>7, <1>8, <1>9 DEF BaseReceives, IInv

LEMMA BaseForwardsIInv ==
  ASSUME IInv, NEW n \in Nodes, BaseForwards(n)
  PROVE  IInv'
<1> DEFINE m == Head(up[n])
           to == m.destination
<1>1. /\ up[n] # <<>> /\ to \in Nodes
      /\ down' = [down EXCEPT ![to] = Append(down[to], m)]
      /\ filter' = [filter EXCEPT ![Base] = noted(filter[Base], m)]
      /\ up' = [up EXCEPT ![n] = Tail(up[n])]
  BY DEF BaseForwards
<1>2. m \in UpMessage(n) /\ Tail(up[n]) \in Seq(UpMessage(n))
  BY <1>1, UpHead DEF IInv
<1>3. m \in Message /\ m \in DownMessage(to)
  BY <1>1, <1>2, Kinds DEF UpMessage, DownMessage
<1> HIDE DEF m, to
<1>4. FilterOK'
  BY <1>1, <1>3, NotedType, BaseFilterChanged DEF IInv, FilterOK, Devices
<1>5. DownOK'
  <2>1. Append(down[to], m) \in Seq(DownMessage(to))
    BY <1>1, <1>3, AppendProperties DEF IInv, DownOK
  <2> QED
    BY <1>1, <2>1, DownChanged DEF IInv
<1>6. UpOK'
  BY <1>1, <1>2, UpChanged DEF IInv
<1> QED
  BY <1>4, <1>5, <1>6 DEF BaseForwards, IInv

LEMMA BaseRoutesIInv ==
  ASSUME IInv, NEW n \in Nodes, BaseRoutes(n)
  PROVE  IInv'
<1> DEFINE m == Head(up[n])
           found == {t \in (1..8) \X binds :
                       <<t[2].device, t[2].unit, t[2].itf>> = route_pairs(m)[t[1]]}
           copy(t) == [rank |-> t[1], row |-> t[2],
                       packet |-> [m EXCEPT !.destination = t[2].destination]]
<1>1. /\ up[n] # <<>> /\ up' = [up EXCEPT ![n] = Tail(up[n])]
      /\ todo' = IF m.type = "RES" THEN {} ELSE {copy(t) : t \in found}
  BY DEF BaseRoutes
<1>2. m \in UpMessage(n) /\ Tail(up[n]) \in Seq(UpMessage(n))
  BY <1>1, UpHead DEF IInv
<1>3. ASSUME m.type # "RES", NEW t \in found
      PROVE  copy(t) \in Copy
  <2>1. t[1] \in 1..8 /\ t[2] \in Row /\ t[2].destination \in Devices
    BY DEF IInv, Row
  <2>2. m \in Message /\ m.source \in Nodes
    BY <1>2, <1>3 DEF UpMessage
  <2> HIDE DEF m, found
  <2>3. [m EXCEPT !.destination = t[2].destination]
          \in {p \in Message : p.type # "RES" /\ p.source \in Nodes /\ p.destination \in Devices}
    BY <1>3, <2>1, <2>2 DEF Message
  <2> QED
    BY <2>1, <2>3 DEF Copy
<1>4. todo' \subseteq Copy
  BY <1>1, <1>3
<1>5. UpOK'
  BY <1>1, <1>2, UpChanged DEF IInv
<1> QED
  BY <1>4, <1>5 DEF BaseRoutes, IInv, FilterOK, DownOK

LEMMA BaseServesIInv ==
  ASSUME IInv, BaseServes
  PROVE  IInv'
<1>1. PICK t \in todo, answers \in BOOLEAN :
        LET m == t.packet
            r == receive(Base, filter[Base], m, answers)
        IN  IF m.destination = Base
            THEN /\ filter' = [filter EXCEPT ![Base] = r.db]
                 /\ down' = [down EXCEPT ![m.source] = down[m.source] \o r.out]
            ELSE /\ filter' = [filter EXCEPT ![Base] = noted(filter[Base], m)]
                 /\ down' = [down EXCEPT ![m.destination] = Append(down[m.destination], m)]
  BY DEF BaseServes
<1>2. /\ t.packet \in Message /\ t.packet.type # "RES"
      /\ t.packet.source \in Nodes /\ t.packet.destination \in Devices
  BY DEF IInv, Copy
<1>3. filter[Base] \in [Entries -> Nat] /\ Base \in Devices
  BY DEF IInv, FilterOK, Devices
<1> DEFINE m == t.packet
           r == receive(Base, filter[Base], m, answers)
<1>4. m \in Message /\ m.type # "RES" /\ m.source \in Nodes /\ m.destination \in Devices
  BY <1>2
<1>5. ASSUME m.destination = Base PROVE FilterOK' /\ DownOK'
  <2>1. /\ filter' = [filter EXCEPT ![Base] = r.db]
        /\ down' = [down EXCEPT ![m.source] = down[m.source] \o r.out]
    BY <1>1, <1>5
  <2> HIDE DEF m
  <2>2. r.db \in [Entries -> Nat] /\ r.out \in Seq(Responding(m.source))
    BY <1>3, <1>4, Kinds, ReceiveType
  <2> HIDE DEF r
  <2>3. down[m.source] \o r.out \in Seq(DownMessage(m.source))
    <3>1. r.out \in Seq(DownMessage(m.source))
      BY <1>4, <2>2, Kinds, SeqMonotonic
    <3> QED
      BY <1>4, <3>1, ConcatProperties DEF IInv, DownOK
  <2> QED
    BY <1>4, <2>1, <2>2, <2>3, BaseFilterChanged, DownChanged DEF IInv
<1>6. ASSUME m.destination # Base PROVE FilterOK' /\ DownOK'
  <2>1. /\ filter' = [filter EXCEPT ![Base] = noted(filter[Base], m)]
        /\ down' = [down EXCEPT ![m.destination] = Append(down[m.destination], m)]
    BY <1>1, <1>6
  <2> HIDE DEF m
  <2>2. m.destination \in Nodes
    BY <1>4, <1>6 DEF Devices
  <2>3. Append(down[m.destination], m) \in Seq(DownMessage(m.destination))
    <3>1. m \in DownMessage(m.destination)
      BY <1>4, Kinds DEF DownMessage
    <3> QED
      BY <2>2, <3>1, AppendProperties DEF IInv, DownOK
  <2>4. noted(filter[Base], m) \in [Entries -> Nat]
    BY <1>3, <1>4, NotedType
  <2> QED
    BY <2>1, <2>2, <2>3, <2>4, BaseFilterChanged, DownChanged DEF IInv
<1>7. FilterOK' /\ DownOK'
  BY <1>5, <1>6
<1> QED
  BY <1>7 DEF BaseServes, IInv, UpOK

\* An empty filter is clean.
LEMMA NoneClean ==
  none \in [Entries -> Nat] /\ \A n \in Nodes : Clean(n, none)
BY DEF none, Clean, Entries

LEMMA NodeRestartsIInv ==
  ASSUME IInv, NEW n \in Nodes, NodeRestarts(n)
  PROVE  IInv'
<1>1. FilterOK'
  BY NoneClean, NodeFilterChanged DEF NodeRestarts, IInv
<1>2. UpOK'
  BY EmptySeq, UpChanged DEF NodeRestarts, IInv
<1>3. DownOK'
  BY EmptySeq, DownChanged DEF NodeRestarts, IInv
<1> QED
  BY <1>1, <1>2, <1>3 DEF NodeRestarts, IInv

LEMMA BaseRestartsIInv ==
  ASSUME IInv, BaseRestarts
  PROVE  IInv'
<1>1. FilterOK'
  BY NoneClean, BaseFilterChanged DEF BaseRestarts, IInv
<1>2. UpOK' /\ DownOK'
  BY EmptySeq DEF BaseRestarts, UpOK, DownOK
<1> QED
  BY <1>1, <1>2 DEF BaseRestarts, IInv

LEMMA NextIInv == IInv /\ [Next]_vars => IInv'
<1> SUFFICES ASSUME IInv, [Next]_vars PROVE IInv'
  OBVIOUS
<1>1. CASE UNCHANGED vars
  BY <1>1 DEF IInv, FilterOK, UpOK, DownOK, Clean, vars
<1>2. CASE BaseServes
  BY <1>2, BaseServesIInv
<1>3. CASE BaseRestarts
  BY <1>3, BaseRestartsIInv
<1>4. ASSUME NEW n \in Nodes,
             \/ NodeSends(n) \/ BaseSends(n) \/ NodeReceives(n)
             \/ BaseReceives(n) \/ BaseForwards(n) \/ BaseRoutes(n)
             \/ NodeRestarts(n)
      PROVE  IInv'
  <2>1. CASE NodeSends(n)
    BY <2>1, NodeSendsIInv
  <2>2. CASE BaseSends(n)
    BY <2>2, BaseSendsIInv
  <2>3. CASE NodeReceives(n)
    BY <2>3, NodeReceivesIInv
  <2>4. CASE BaseReceives(n)
    BY <2>4, BaseReceivesIInv
  <2>5. CASE BaseForwards(n)
    BY <2>5, BaseForwardsIInv
  <2>6. CASE BaseRoutes(n)
    BY <2>6, BaseRoutesIInv
  <2>7. CASE NodeRestarts(n)
    BY <2>7, NodeRestartsIInv
  <2> QED
    BY <1>4, <2>1, <2>2, <2>3, <2>4, <2>5, <2>6, <2>7
<1> QED
  BY <1>1, <1>2, <1>3, <1>4 DEF Next

LEMMA Invariance == Spec => []IInv
<1> QED
  BY InitIInv, NextIInv, PTL DEF Spec

-----------------------------------------------------------------------------
(* Theorems.                                                               *)

\* Every filter holds natural numbers of entries, and nothing else than
\* messages travels: AbstractDevice::receive never erases what is not there.
THEOREM FilterTypes == Spec => []TypeOK
<1>1. IInv => TypeOK
  BY DEF IInv, TypeOK, FilterOK, UpOK, DownOK, Copy
<1> QED
  BY <1>1, Invariance, PTL

\* What is appended to a sequence is what is new in it.
LEMMA NewIsAppended ==
  ASSUME NEW S, NEW s \in Seq(S), NEW t \in Seq(S), Len(t) = 1
  PROVE  Len(New(s \o t, Len(s))) = 1 /\ New(s \o t, Len(s))[1] = t[1]
<1>1. /\ s \o t \in Seq(S) /\ Len(s \o t) = Len(s) + 1 /\ Len(s) \in Nat
      /\ (s \o t)[Len(s) + 1] = t[1]
  BY ConcatProperties, LenProperties
<1>2. \A i \in Len(s) + 1 .. Len(s \o t) : (s \o t)[i] \in S
  BY <1>1, ElementOfSeq
<1>3. /\ Len(New(s \o t, Len(s))) = 1
      /\ New(s \o t, Len(s))[1] = (s \o t)[Len(s) + 1]
  BY <1>1, <1>2, SubSeqProperties DEF New
<1> QED
  BY <1>1, <1>3

\* A node sends exactly one response to each request that requires one, in
\* every network: AbstractDevice::receive and Filters::ResponseRequired.
THEOREM NodesAnswerOnce == Spec => AnswersOnce
<1>1. ASSUME IInv, NEW n \in Nodes, NodeReceives(n),
             Head(down[n]).type = "RESP_REQ", Head(down[n]).source # n
      PROVE  /\ Len(New(up'[n], Len(up[n]))) = 1
             /\ New(up'[n], Len(up[n]))[1].type = "RES"
  <2> DEFINE m == Head(down[n])
  <2>1. PICK answers \in BOOLEAN :
          up' = [up EXCEPT ![n] = up[n] \o receive(n, filter[n], m, answers).out]
    BY <1>1 DEF NodeReceives
  <2>2. m \in DownMessage(n) /\ m.type = "RESP_REQ" /\ m.source # n
    BY <1>1, DownHead DEF IInv, NodeReceives
  <2>3. filter[n] \in [Entries -> Nat] /\ Clean(n, filter[n]) /\ n \in Devices
    BY <1>1, Kinds DEF IInv, FilterOK
  <2>4. up[n] \in Seq(Message) /\ up'[n] = up[n] \o receive(n, filter[n], m, answers).out
    BY <1>1, <2>1 DEF IInv, UpOK
  <2> HIDE DEF m
  <2>5. receive(n, filter[n], m, answers).out \in Seq(Message)
    <3>1. receive(n, filter[n], m, answers).out \in Seq(Responding(m.source))
      BY <2>2, <2>3, ReceiveType DEF DownMessage
    <3> QED
      BY <3>1, SeqMonotonic DEF Responding
  <2>6. /\ Len(receive(n, filter[n], m, answers).out) = 1
        /\ receive(n, filter[n], m, answers).out[1].type = "RES"
    BY <2>2, <2>3, ReceiveOnce
  <2> QED
    BY <2>4, <2>5, <2>6, NewIsAppended
<1>2. IInv /\ [Next]_vars =>
        [\A n \in Nodes :
           NodeReceives(n) /\ Head(down[n]).type = "RESP_REQ" /\ Head(down[n]).source # n
           => /\ Len(New(up'[n], Len(up[n]))) = 1
              /\ New(up'[n], Len(up[n]))[1].type = "RES"]_vars
  BY <1>1
<1> QED
  BY <1>2, Invariance, PTL DEF Spec, AnswersOnce

\* The eight pairs are the eight ways in which a row matches, each tried once.
LEMMA PairsAreMatches ==
  ASSUME NEW n \in Nodes, NEW m \in UpMessage(n), m.type # "RES", NEW b \in Row
  PROVE  LET key == <<b.device, b.unit, b.itf>>
         IN  /\ (\E k \in 1..8 : key = route_pairs(m)[k])
                <=> (/\ b.device \in {m.source, Wildcard}
                     /\ b.unit \in {m.unit, Wildcard}
                     /\ b.itf \in {m.itf, Wildcard})
             /\ \A j, k \in 1..8 :
                  key = route_pairs(m)[j] /\ key = route_pairs(m)[k] => j = k
<1>1. m.source # Wildcard /\ m.unit # Wildcard /\ m.itf # Wildcard
  BY Kinds, WildcardAssumption DEF UpMessage, Message
<1> DEFINE s == m.source
           u == m.unit
           i == m.itf
           w == Wildcard
           pairs == route_pairs(m)
<1>2. /\ pairs[1] = <<s, u, i>> /\ pairs[2] = <<s, u, w>>
      /\ pairs[3] = <<s, w, i>> /\ pairs[4] = <<s, w, w>>
      /\ pairs[5] = <<w, w, i>> /\ pairs[6] = <<w, w, w>>
      /\ pairs[7] = <<w, u, i>> /\ pairs[8] = <<w, u, w>>
  BY DEF route_pairs
<1>3. s # w /\ u # w /\ i # w
  BY <1>1
<1>4. 1..8 = {1, 2, 3, 4, 5, 6, 7, 8}
  OBVIOUS
<1> HIDE DEF s, u, i, w, pairs
<1> DEFINE key == <<b.device, b.unit, b.itf>>
<1>5. (\E k \in 1..8 : key = pairs[k])
        <=> b.device \in {s, w} /\ b.unit \in {u, w} /\ b.itf \in {i, w}
  BY <1>2, <1>4
<1>6. \A j, k \in 1..8 : key = pairs[j] /\ key = pairs[k] => j = k
  BY <1>2, <1>3, <1>4
<1> QED
  BY <1>5, <1>6 DEF s, u, i, w, pairs

\* A command is routed once for each matching row, whatever the bind table:
\* Concentrator::AbstractBase::route_packet.
THEOREM CommandsRoutedOnce == Spec => RoutedOnce
<1> DEFINE matching(m) == {b \in binds : /\ b.device \in {m.source, Wildcard}
                                         /\ b.unit \in {m.unit, Wildcard}
                                         /\ b.itf \in {m.itf, Wildcard}}
<1>1. ASSUME IInv, NEW n \in Nodes, BaseRoutes(n), Head(up[n]).type # "RES"
      PROVE  /\ {t.row : t \in todo'} = matching(Head(up[n]))
             /\ \A t, o \in todo' : t.row = o.row => t = o
  <2> DEFINE m == Head(up[n])
             key(b) == <<b.device, b.unit, b.itf>>
             found == {t \in (1..8) \X binds : key(t[2]) = route_pairs(m)[t[1]]}
             copy(t) == [rank |-> t[1], row |-> t[2],
                         packet |-> [m EXCEPT !.destination = t[2].destination]]
  <2>1. todo' = {copy(t) : t \in found} /\ up[n] # <<>>
    BY <1>1 DEF BaseRoutes
  <2>2. m \in UpMessage(n) /\ m.type # "RES" /\ binds \subseteq Row
    BY <1>1, <2>1, UpHead DEF IInv
  <2> HIDE DEF m
  <2>3. ASSUME NEW b \in binds
        PROVE  /\ (\E k \in 1..8 : key(b) = route_pairs(m)[k]) <=> b \in matching(m)
               /\ \A j, k \in 1..8 :
                    key(b) = route_pairs(m)[j] /\ key(b) = route_pairs(m)[k] => j = k
    BY <2>2, PairsAreMatches
  <2>4. {t.row : t \in todo'} = {t[2] : t \in found}
    <3>1. \A t \in found : copy(t).row = t[2]
      OBVIOUS
    <3> HIDE DEF found, copy
    <3>2. ASSUME NEW b
          PROVE  b \in {t.row : t \in todo'} <=> \E t \in found : b = t[2]
      BY <2>1, <3>1
    <3> QED
      BY <3>2
  <2>5. {t[2] : t \in found} = {b \in binds : \E k \in 1..8 : key(b) = route_pairs(m)[k]}
    <3>1. \A k \in 1..8, b \in binds : key(b) = route_pairs(m)[k] => <<k, b>> \in found
      OBVIOUS
    <3>2. \A t \in found : t[1] \in 1..8 /\ t[2] \in binds /\ key(t[2]) = route_pairs(m)[t[1]]
      OBVIOUS
    <3>3. \A k, b : <<k, b>>[2] = b
      OBVIOUS
    <3> HIDE DEF found, key
    <3>4. ASSUME NEW b
          PROVE  (\E t \in found : b = t[2])
                 <=> b \in binds /\ \E k \in 1..8 : key(b) = route_pairs(m)[k]
      BY <3>1, <3>2, <3>3
    <3> QED
      BY <3>4
  <2>6. {b \in binds : \E k \in 1..8 : key(b) = route_pairs(m)[k]} = matching(m)
    BY <2>3
  <2>7. \A s, t \in found : s[2] = t[2] => s = t
    BY <2>3
  <2>8. \A t, o \in todo' : t.row = o.row => t = o
    BY <2>1, <2>7
  <2> QED
    BY <2>4, <2>5, <2>6, <2>8 DEF m
<1>2. IInv /\ [Next]_vars =>
        [\A n \in Nodes :
           LET m == Head(up[n])
           IN  BaseRoutes(n) /\ m.type # "RES"
               => /\ {t.row : t \in todo'} = matching(m)
                  /\ \A t, o \in todo' : t.row = o.row => t = o]_vars
  BY <1>1
<1> QED
  BY <1>2, Invariance, PTL DEF Spec, RoutedOnce
=============================================================================
