--------------------------- MODULE ReportingProofs ---------------------------
(***************************************************************************)
(* Attribute reporting, for any number of devices, rules, attributes and   *)
(* requests: rules and entries are well formed (TypeOK), ids name one rule *)
(* (RuleIdsUnique), reports come in time (ReportsInTime), go where those   *)
(* who asked for them were told (EntriesOwned) and tell of every change    *)
(* (SubscribersCurrent); and a pack of attributes is written as it is      *)
(* asked (WritesAsAsked), or refused (RefusedChangesNothing).              *)
(*                                                                         *)
(* Intervals: the clock needs no more than Rest ticks to the next report.  *)
(* Ownership: references that were not revoked lead to a rule with the     *)
(* destination that was told with them (Leads).  Writes: after i rounds of its loop, a request has been *)
(* read up to its i-th field (Good), and the changes it lists end at the   *)
(* present value of each attribute (Tells).                                *)
(***************************************************************************)
EXTENDS Reporting, SequenceTheorems, FunctionTheorems, WellFoundedInduction, TLAPS

Max2(a, b) == IF a >= b THEN a ELSE b

\* Ticks until a rule that last reported at last reports, were the clock left alone.
Rest(last, interval, time) ==
  IF last <= time THEN Max2(last + interval - time, 1)
  ELSE IF Max2(time + 1, interval) <= last - interval THEN Max2(time + 1, interval) - time
  ELSE last + interval - time

Fires(last, interval, time) == time >= interval /\ Distance(time, last) >= interval

\* Waiting ends, and after the clock was set it ends within three intervals.
LEMMA RestBounds ==
  ASSUME NEW last \in Nat, NEW interval \in Nat \ {0}, NEW time \in Nat
  PROVE  /\ Rest(last, interval, time) \in Nat
         /\ 1 <= Rest(last, interval, time)
         /\ Rest(last, interval, time) <= 3 * interval
         /\ last <= time => Rest(last, interval, time) <= interval
BY DEF Rest, Max2

\* A tick at which no report is due brings the next report nearer.
LEMMA RestTick ==
  ASSUME NEW last \in Nat, NEW interval \in Nat \ {0}, NEW time \in Nat,
         ~Fires(last, interval, time + 1)
  PROVE  Rest(last, interval, time + 1) + 1 <= Rest(last, interval, time)
BY DEF Rest, Max2, Fires, Distance

LEMMA Division ==
  ASSUME NEW interval \in Nat \ {0}, NEW time \in Nat
  PROVE  time \div interval # 0 <=> time >= interval
<1>1. time \div interval \in Int /\ time % interval \in 0..(interval - 1)
  OBVIOUS
<1>2. time = interval * (time \div interval) + (time % interval)
  OBVIOUS
<1>3. QED
  BY <1>1, <1>2

LEMMA Room1 ==
  ASSUME NEW interval \in Nat \ {0}, NEW jumps \in Nat
  PROVE  /\ interval * (1 + 3 * jumps) \in Nat
         /\ interval <= interval * (1 + 3 * jumps)
         /\ interval * (1 + 3 * (jumps + 1)) = interval * (1 + 3 * jumps) + 3 * interval
OBVIOUS

-----------------------------------------------------------------------------
(* What the rules and references are made of.                              *)

APeriodicRule ==
  [id : Nat, destination : Devices, interval : Nat \ {0}, last_time : Nat,
   entries : SUBSET PeriodicEntry, silent : Nat, jumps : Nat]
EntryShape(e) ==
  e = [by |-> e.by, to |-> e.to, attr |-> e.attr, on |-> e.on, seen |-> e.seen]
EventShape(r) ==
  /\ r = [id |-> r.id, destination |-> r.destination, entries |-> r.entries]
  /\ r.id \in Nat /\ r.destination \in Devices
  /\ \A e \in r.entries : EntryShape(e)

ClockTyped == now \in Nat
PeriodicTyped == \A r \in periodic_rules : r \in APeriodicRule
EventsTyped == \A r \in event_rules : EventShape(r)
KnownTyped ==
  known \in [Devices -> SUBSET (References \X Devices)] /\ revoked \subseteq Devices \X References
Typed == ClockTyped /\ PeriodicTyped /\ EventsTyped /\ KnownTyped

LEMMA NewEntries ==
  ASSUME NEW r, EventShape(r), NEW es, \A e \in es : EntryShape(e)
  PROVE  LET s == [r EXCEPT !.entries = es] IN
         EventShape(s) /\ s.id = r.id /\ s.destination = r.destination /\ s.entries = es
<1>1. [r EXCEPT !.entries = es] = [id |-> r.id, destination |-> r.destination, entries |-> es]
  BY DEF EventShape
<1> QED
  BY <1>1 DEF EventShape

\* A report sets these fields of a periodic rule only, no report only one.
LEMMA PeriodicFields ==
  ASSUME NEW r \in APeriodicRule, NEW a, NEW b
  PROVE  /\ [r EXCEPT !.last_time = a, !.silent = b] =
              [id |-> r.id, destination |-> r.destination, interval |-> r.interval, last_time |-> a,
               entries |-> r.entries, silent |-> b, jumps |-> r.jumps]
         /\ [r EXCEPT !.silent = b] =
              [id |-> r.id, destination |-> r.destination, interval |-> r.interval,
               last_time |-> r.last_time, entries |-> r.entries, silent |-> b, jumps |-> r.jumps]
<1>1. r = [id |-> r.id, destination |-> r.destination, interval |-> r.interval,
           last_time |-> r.last_time, entries |-> r.entries, silent |-> r.silent, jumps |-> r.jumps]
  BY DEF APeriodicRule
<1>2. [r EXCEPT !.silent = b] =
              [id |-> r.id, destination |-> r.destination, interval |-> r.interval,
               last_time |-> r.last_time, entries |-> r.entries, silent |-> b, jumps |-> r.jumps]
  BY <1>1
<1>3. [r EXCEPT !.last_time = a, !.silent = b] =
              [id |-> r.id, destination |-> r.destination, interval |-> r.interval, last_time |-> a,
               entries |-> r.entries, silent |-> b, jumps |-> r.jumps]
  <2> DEFINE s == [r EXCEPT !.last_time = a]
  <2>1. [r EXCEPT !.last_time = a, !.silent = b] = [s EXCEPT !.silent = b]
    OBVIOUS
  <2>2. s = [id |-> r.id, destination |-> r.destination, interval |-> r.interval, last_time |-> a,
             entries |-> r.entries, silent |-> r.silent, jumps |-> r.jumps]
    BY <1>1
  <2> HIDE DEF s
  <2> QED
    BY <2>1, <2>2
<1> QED
  BY <1>2, <1>3

LEMMA ResetFields ==
  ASSUME NEW r \in APeriodicRule, NEW interval \in Intervals
  PROVE  /\ Reset(r, interval) \in APeriodicRule
         /\ Reset(r, interval) =
              [id |-> r.id, destination |-> r.destination, interval |-> interval,
               last_time |-> r.last_time, entries |-> r.entries, silent |-> 0, jumps |-> 1]
<1>1. Reset(r, interval) =
        [id |-> r.id, destination |-> r.destination, interval |-> interval,
         last_time |-> r.last_time, entries |-> r.entries, silent |-> 0, jumps |-> 1]
  <2>1. [r EXCEPT !.interval = interval, !.silent = 0, !.jumps = 1] =
        [id |-> r.id, destination |-> r.destination, interval |-> interval,
         last_time |-> r.last_time, entries |-> r.entries, silent |-> 0, jumps |-> 1]
    <3> DEFINE s == [r EXCEPT !.interval = interval]
               t == [s EXCEPT !.silent = 0]
    <3>1. [r EXCEPT !.interval = interval, !.silent = 0, !.jumps = 1] = [t EXCEPT !.jumps = 1]
      OBVIOUS
    <3>2. s = [id |-> r.id, destination |-> r.destination, interval |-> interval,
               last_time |-> r.last_time, entries |-> r.entries, silent |-> r.silent, jumps |-> r.jumps]
      BY DEF APeriodicRule
    <3>3. t = [id |-> r.id, destination |-> r.destination, interval |-> interval,
               last_time |-> r.last_time, entries |-> r.entries, silent |-> 0, jumps |-> r.jumps]
      <4> HIDE DEF s
      <4> QED
        BY <3>2
    <3> HIDE DEF s, t
    <3> QED
      BY <3>1, <3>3
  <2> QED
    BY <2>1 DEF Reset
<1> QED
  BY <1>1, IntervalAssumption DEF APeriodicRule

LEMMA PeriodicReport ==
  ASSUME NEW r \in APeriodicRule, NEW time \in Nat
  PROVE  LET s == periodic(r, time)
             due == Due(r, time) IN
         /\ s \in APeriodicRule
         /\ s.id = r.id /\ s.destination = r.destination /\ s.entries = r.entries
         /\ s.interval = r.interval /\ s.jumps = r.jumps
         /\ s.last_time = IF due THEN time ELSE r.last_time
         /\ s.silent = IF due THEN 0 ELSE r.silent + 1
<1>1. CASE Due(r, time)
  <2>1. periodic(r, time) =
            [id |-> r.id, destination |-> r.destination, interval |-> r.interval, last_time |-> time,
             entries |-> r.entries, silent |-> 0, jumps |-> r.jumps]
    BY <1>1, PeriodicFields DEF periodic
  <2> QED
    BY <1>1, <2>1 DEF APeriodicRule
<1>2. CASE ~Due(r, time)
  <2>1. periodic(r, time) =
            [id |-> r.id, destination |-> r.destination, interval |-> r.interval,
             last_time |-> r.last_time, entries |-> r.entries, silent |-> r.silent + 1,
             jumps |-> r.jumps]
    BY <1>2, PeriodicFields DEF periodic
  <2> QED
    BY <1>2, <2>1 DEF APeriodicRule
<1> QED
  BY <1>1, <1>2

LEMMA NotifyShape ==
  ASSUME NEW e, EntryShape(e), NEW changes
  PROVE  /\ EntryShape(notify(e, changes))
         /\ notify(e, changes).by = e.by /\ notify(e, changes).to = e.to
<1> DEFINE reported == {i \in DOMAIN changes : changes[i].uid = e.attr /\ Meets(e.on, changes[i])}
           v == changes[CHOOSE i \in reported : \A j \in reported : j <= i].new
<1>1. notify(e, changes) = IF reported = {} THEN e ELSE [e EXCEPT !.seen = v]
  BY DEF notify
<1> HIDE DEF reported, v
<1>2. [e EXCEPT !.seen = v] = [by |-> e.by, to |-> e.to, attr |-> e.attr, on |-> e.on, seen |-> v]
  BY DEF EntryShape
<1> QED
  BY <1>1, <1>2 DEF EntryShape

\* A rule after changes of attributes is the same but for what its entry saw.
LEMMA NotifiedRule ==
  ASSUME NEW r, EventShape(r), NEW changes
  PROVE  LET s == [r EXCEPT !.entries = {notify(e, changes) : e \in @}] IN
         /\ EventShape(s) /\ s.id = r.id /\ s.destination = r.destination
         /\ s.entries = {notify(e, changes) : e \in r.entries}
<1> DEFINE es == {notify(e, changes) : e \in r.entries}
<1>1. \A e \in es : EntryShape(e)
  BY NotifyShape DEF EventShape
<1> HIDE DEF es
<1>2. [r EXCEPT !.entries = {notify(e, changes) : e \in @}] = [r EXCEPT !.entries = es]
  BY DEF es
<1> QED
  BY <1>1, <1>2, NewEntries DEF es

\* The rule with an id for which no other is lower.
LEMMA FreshId ==
  ASSUME NEW list, NEW i \in find_available_id(list)
  PROVE  i \in Ids /\ \A r \in list : r.id # i
BY DEF find_available_id, Used

-----------------------------------------------------------------------------
(* Each kind of step keeps them well formed.                               *)

LEMMA FreshReference ==
  ASSUME KnownTyped, NEW d \in Devices, NEW type \in Types, NEW i \in Ids, NEW to \in Devices,
         NEW told \in BOOLEAN, Learn(d, Ref(type, i), to, told)
  PROVE  KnownTyped'
<1>1. Ref(type, i) \in References
  BY DEF References
<1> QED
  BY <1>1 DEF KnownTyped, Learn

LEMMA TypedRequest ==
  ASSUME Typed, NEW d \in Devices, Request(d)
  PROVE  Typed'
<1> USE DEF Typed, ClockTyped
<1>1. ASSUME NEW to \in Devices, NEW interval \in Intervals, NEW told \in BOOLEAN,
             CreatePeriodic(d, to, interval, told)
      PROVE  Typed'
  <2>1. PICK i \in find_available_id(periodic_rules) :
          /\ periodic_rules' = periodic_rules \union
               {[id |-> i, destination |-> to, interval |-> interval, last_time |-> 0,
                 entries |-> {}, silent |-> 0, jumps |-> 0]}
          /\ Learn(d, Ref("PERIODIC", i), to, told)
    BY <1>1 DEF CreatePeriodic
  <2>2. i \in Ids /\ i \in Nat
    BY FreshId DEF Ids
  <2>3. PeriodicTyped'
    BY <2>1, <2>2, IntervalAssumption DEF PeriodicTyped, APeriodicRule
  <2>4. EventsTyped' /\ ClockTyped'
    BY <1>1 DEF CreatePeriodic, EventsTyped, EventShape, EntryShape
  <2>5. KnownTyped'
    BY <2>1, <2>2, FreshReference DEF Types
  <2> QED
    BY <2>3, <2>4, <2>5
<1>2. ASSUME NEW to \in Devices, NEW told \in BOOLEAN, CreateEvent(d, to, told) PROVE Typed'
  <2>1. PICK i \in find_available_id(event_rules) :
          /\ event_rules' = event_rules \union {[id |-> i, destination |-> to, entries |-> {}]}
          /\ Learn(d, Ref("EVENT", i), to, told)
    BY <1>2 DEF CreateEvent
  <2>2. i \in Ids /\ i \in Nat
    BY FreshId DEF Ids
  <2>3. EventsTyped'
    BY <2>1, <2>2 DEF EventsTyped, EventShape, EntryShape
  <2>4. PeriodicTyped' /\ ClockTyped'
    BY <1>2 DEF CreateEvent, PeriodicTyped
  <2>5. KnownTyped'
    BY <2>1, <2>2, FreshReference DEF Types
  <2> QED
    BY <2>3, <2>4, <2>5
<1>3. ASSUME NEW ref \in References, Delete(d, ref) PROVE Typed'
  <2>1. PeriodicTyped' /\ EventsTyped' /\ ClockTyped'
    BY <1>3 DEF Delete, Without, PeriodicTyped, EventsTyped, EventShape, EntryShape
  <2>2. KnownTyped'
    BY <1>3 DEF Delete, Forget, KnownTyped
  <2> QED
    BY <2>1, <2>2
<1>4. ASSUME NEW type \in Types, DeleteAll(d, type) PROVE Typed'
  <2>1. PeriodicTyped' /\ EventsTyped' /\ ClockTyped'
    BY <1>4 DEF DeleteAll, PeriodicTyped, EventsTyped, EventShape, EntryShape
  <2>2. KnownTyped'
    BY <1>4 DEF DeleteAll, Forget, KnownTyped
  <2> QED
    BY <2>1, <2>2
<1>5. ASSUME NEW ref \in References, NEW to \in Devices, AddPeriodicEntry(d, ref, to) PROVE Typed'
  <2> DEFINE new == [by |-> d, to |-> to]
  <2>1. PeriodicTyped'
    <3> SUFFICES ASSUME NEW r \in periodic_rules
                 PROVE  (IF r.id = ref.id THEN [r EXCEPT !.entries = @ \union {new}] ELSE r) \in APeriodicRule
      BY <1>5 DEF AddPeriodicEntry, PeriodicTyped
    <3>1. new \in PeriodicEntry
      BY DEF PeriodicEntry
    <3> HIDE DEF new
    <3> QED
      BY <3>1 DEF PeriodicTyped, APeriodicRule
  <2> QED
    BY <1>5, <2>1 DEF AddPeriodicEntry, EventsTyped, EventShape, EntryShape, KnownTyped
<1>6. ASSUME NEW ref \in References, NEW to \in Devices, NEW attr \in Attr,
             NEW on \in Conditions, AddEventEntry(d, ref, to, attr, on)
      PROVE  Typed'
  <2> DEFINE e == [by |-> d, to |-> to, attr |-> attr, on |-> on, seen |-> value[attr]]
  <2>1. EventsTyped'
    <3> SUFFICES ASSUME NEW r \in event_rules
                 PROVE  EventShape(IF r.id = ref.id THEN [r EXCEPT !.entries = @ \union {e}] ELSE r)
      BY <1>6 DEF AddEventEntry, EventsTyped, EventShape, EntryShape
    <3>1. EventShape(r)
      BY DEF EventsTyped
    <3>2. EntryShape(e)
      BY DEF EntryShape
    <3> HIDE DEF e
    <3>3. \A f \in r.entries \union {e} : EntryShape(f)
      BY <3>1, <3>2 DEF EventShape
    <3>4. EventShape([r EXCEPT !.entries = r.entries \union {e}])
      BY <3>1, <3>3, NewEntries
    <3> QED
      BY <3>1, <3>4
  <2> QED
    BY <1>6, <2>1 DEF AddEventEntry, PeriodicTyped, KnownTyped
<1>7. ASSUME NEW ref \in References, NEW interval \in Intervals, UpdateInterval(d, ref, interval)
      PROVE  Typed'
  <2>1. PeriodicTyped'
    <3> SUFFICES ASSUME NEW r \in periodic_rules
                 PROVE  (IF r.id = ref.id THEN Reset(r, interval) ELSE r) \in APeriodicRule
      BY <1>7 DEF UpdateInterval, PeriodicTyped
    <3> QED
      BY ResetFields DEF PeriodicTyped
  <2> QED
    BY <1>7, <2>1 DEF UpdateInterval, EventsTyped, EventShape, EntryShape, KnownTyped
<1> HIDE DEF Typed
<1> QED
  BY <1>1, <1>2, <1>3, <1>4, <1>5, <1>6, <1>7 DEF Request

LEMMA TypedChange ==
  ASSUME Typed, NEW at, Change(at)
  PROVE  Typed'
<1>1. EventsTyped'
  BY NotifiedRule DEF Change, Typed, EventsTyped
<1> QED
  BY <1>1 DEF Change, Typed, ClockTyped, PeriodicTyped, KnownTyped

LEMMA TypedStep == Typed /\ [Next]_vars => Typed'
<1> SUFFICES ASSUME Typed, [Next]_vars PROVE Typed'
  OBVIOUS
<1>1. CASE \E d \in Devices : Request(d)
  BY <1>1, TypedRequest
<1>2. ASSUME NEW interval \in Intervals, UpdateAllIntervals(interval) PROVE Typed'
  <2>1. \A r \in periodic_rules : Reset(r, interval) \in APeriodicRule
    BY IntervalAssumption DEF Typed, PeriodicTyped, APeriodicRule, Reset
  <2> QED
    BY <1>2, <2>1 DEF UpdateAllIntervals, Typed, ClockTyped, PeriodicTyped, KnownTyped,
                      EventsTyped, EventShape, EntryShape
<1>3. CASE Tick
  <2>1. now' \in Nat
    BY <1>3 DEF Tick, Typed, ClockTyped
  <2>2. \A r \in periodic_rules : periodic(r, now') \in APeriodicRule
    BY <2>1, PeriodicReport DEF Typed, PeriodicTyped
  <2> QED
    BY <1>3, <2>1, <2>2 DEF Tick, Typed, ClockTyped, PeriodicTyped, KnownTyped,
                            EventsTyped, EventShape, EntryShape
<1>4. ASSUME NEW t \in 0..MaxTime, SetClock(t) PROVE Typed'
  <2>1. \A r \in periodic_rules : [r EXCEPT !.jumps = @ + 1] \in APeriodicRule
    BY DEF Typed, PeriodicTyped, APeriodicRule
  <2> QED
    BY <1>4, <2>1, ClockAssumption DEF SetClock, Typed, ClockTyped, PeriodicTyped, KnownTyped,
                      EventsTyped, EventShape, EntryShape
<1>5. CASE \E req \in Asked : SetPack(req) \/ SetPackAtomically(req)
  BY <1>5, TypedChange DEF SetPack, SetPackAtomically
<1>6. CASE \E uid \in Attr, new \in Byte : ApplicationSets(uid, new)
  BY <1>6, TypedChange DEF ApplicationSets
<1>7. CASE UNCHANGED vars
  BY <1>7 DEF vars, Typed, ClockTyped, PeriodicTyped, KnownTyped, EventsTyped, EventShape, EntryShape
<1> QED
  BY <1>1, <1>2, <1>3, <1>4, <1>5, <1>6, <1>7 DEF Next

LEMMA TypedInit == Init => Typed
BY DEF Init, Typed, ClockTyped, PeriodicTyped, EventsTyped, KnownTyped

-----------------------------------------------------------------------------
(* Ids are unique, and reports come in time.                               *)

LEMMA JumpFields ==
  ASSUME NEW r \in APeriodicRule
  PROVE  [r EXCEPT !.jumps = @ + 1] =
           [id |-> r.id, destination |-> r.destination, interval |-> r.interval,
            last_time |-> r.last_time, entries |-> r.entries, silent |-> r.silent, jumps |-> r.jumps + 1]
BY DEF APeriodicRule

LEMMA AddedFields ==
  ASSUME NEW r \in APeriodicRule, NEW e
  PROVE  [r EXCEPT !.entries = @ \union {e}] =
           [id |-> r.id, destination |-> r.destination, interval |-> r.interval,
            last_time |-> r.last_time, entries |-> r.entries \union {e}, silent |-> r.silent,
            jumps |-> r.jumps]
BY DEF APeriodicRule

LEMMA UniqueRequest ==
  ASSUME Typed, RuleIdsUnique, NEW d \in Devices, Request(d)
  PROVE  RuleIdsUnique'
<1> USE DEF RuleIdsUnique
<1>0. /\ \A r \in periodic_rules : r \in APeriodicRule
      /\ \A r \in event_rules : EventShape(r)
  BY DEF Typed, PeriodicTyped, EventsTyped
<1>1. ASSUME NEW to \in Devices, NEW interval \in Intervals, NEW told \in BOOLEAN,
             CreatePeriodic(d, to, interval, told)
      PROVE  RuleIdsUnique'
  <2>1. PICK i \in find_available_id(periodic_rules) :
          periodic_rules' = periodic_rules \union
            {[id |-> i, destination |-> to, interval |-> interval, last_time |-> 0,
              entries |-> {}, silent |-> 0, jumps |-> 0]}
    BY <1>1 DEF CreatePeriodic
  <2> DEFINE new == [id |-> i, destination |-> to, interval |-> interval, last_time |-> 0,
                     entries |-> {}, silent |-> 0, jumps |-> 0]
  <2>2. new.id = i /\ \A r \in periodic_rules : r.id # i
    BY FreshId
  <2>3. periodic_rules' = periodic_rules \union {new}
    BY <2>1
  <2> HIDE DEF new
  <2> QED
    BY <1>1, <2>2, <2>3 DEF CreatePeriodic
<1>2. ASSUME NEW to \in Devices, NEW told \in BOOLEAN, CreateEvent(d, to, told) PROVE RuleIdsUnique'
  <2>1. PICK i \in find_available_id(event_rules) :
          event_rules' = event_rules \union {[id |-> i, destination |-> to, entries |-> {}]}
    BY <1>2 DEF CreateEvent
  <2> DEFINE new == [id |-> i, destination |-> to, entries |-> {}]
  <2>2. new.id = i /\ \A r \in event_rules : r.id # i
    BY FreshId
  <2>3. event_rules' = event_rules \union {new}
    BY <2>1
  <2> HIDE DEF new
  <2> QED
    BY <1>2, <2>2, <2>3 DEF CreateEvent
<1>3. ASSUME NEW ref \in References, Delete(d, ref) PROVE RuleIdsUnique'
  BY <1>3 DEF Delete, Without
<1>4. ASSUME NEW type \in Types, DeleteAll(d, type) PROVE RuleIdsUnique'
  BY <1>4 DEF DeleteAll
<1>5. ASSUME NEW ref \in References, NEW to \in Devices, AddPeriodicEntry(d, ref, to) PROVE RuleIdsUnique'
  <2> DEFINE new == [by |-> d, to |-> to]
  <2>1. \A r \in periodic_rules :
          (IF r.id = ref.id THEN [r EXCEPT !.entries = @ \union {new}] ELSE r).id = r.id
    BY <1>0, AddedFields
  <2>2. \A r, s \in periodic_rules' : r.id = s.id => r = s
    <3> SUFFICES ASSUME NEW x \in periodic_rules', NEW y \in periodic_rules', x.id = y.id PROVE x = y
      OBVIOUS
    <3>1. PICK r \in periodic_rules : x = IF r.id = ref.id THEN [r EXCEPT !.entries = @ \union {new}] ELSE r
      BY <1>5 DEF AddPeriodicEntry
    <3>2. PICK s \in periodic_rules : y = IF s.id = ref.id THEN [s EXCEPT !.entries = @ \union {new}] ELSE s
      BY <1>5 DEF AddPeriodicEntry
    <3>3. x.id = r.id /\ y.id = s.id
      BY <2>1, <3>1, <3>2
    <3> QED
      BY <3>1, <3>2, <3>3 DEF RuleIdsUnique
  <2> QED
    BY <1>5, <2>2 DEF AddPeriodicEntry
<1>6. ASSUME NEW ref \in References, NEW to \in Devices, NEW attr \in Attr,
             NEW on \in Conditions, AddEventEntry(d, ref, to, attr, on)
      PROVE  RuleIdsUnique'
  <2> DEFINE new == [by |-> d, to |-> to, attr |-> attr, on |-> on, seen |-> value[attr]]
  <2>1. \A r \in event_rules : [r EXCEPT !.entries = @ \union {new}].id = r.id
    BY <1>0 DEF EventShape
  <2> HIDE DEF new
  <2>2. event_rules' = {IF r.id = ref.id THEN [r EXCEPT !.entries = @ \union {new}] ELSE r
                        : r \in event_rules}
    BY <1>6 DEF AddEventEntry, new
  <2>3. \A r \in event_rules : (IF r.id = ref.id THEN [r EXCEPT !.entries = @ \union {new}] ELSE r).id = r.id
    BY <2>1
  <2>4. \A r, s \in event_rules' : r.id = s.id => r = s
    <3> SUFFICES ASSUME NEW x \in event_rules', NEW y \in event_rules', x.id = y.id PROVE x = y
      OBVIOUS
    <3>1. PICK r \in event_rules : x = IF r.id = ref.id THEN [r EXCEPT !.entries = @ \union {new}] ELSE r
      BY <2>2
    <3>2. PICK s \in event_rules : y = IF s.id = ref.id THEN [s EXCEPT !.entries = @ \union {new}] ELSE s
      BY <2>2
    <3>3. x.id = r.id /\ y.id = s.id
      BY <2>3, <3>1, <3>2
    <3> QED
      BY <3>1, <3>2, <3>3 DEF RuleIdsUnique
  <2> QED
    BY <1>6, <2>4 DEF AddEventEntry
<1>7. ASSUME NEW ref \in References, NEW interval \in Intervals, UpdateInterval(d, ref, interval)
      PROVE  RuleIdsUnique'
  <2>1. \A r \in periodic_rules : Reset(r, interval).id = r.id
    BY <1>0, ResetFields
  <2> QED
    BY <1>7, <2>1 DEF UpdateInterval
<1> HIDE DEF RuleIdsUnique
<1> QED
  BY <1>1, <1>2, <1>3, <1>4, <1>5, <1>6, <1>7 DEF Request

LEMMA UniqueStep == Typed /\ RuleIdsUnique /\ [Next]_vars => RuleIdsUnique'
<1> SUFFICES ASSUME Typed, RuleIdsUnique, [Next]_vars PROVE RuleIdsUnique'
  OBVIOUS
<1>0. /\ \A r \in periodic_rules : r \in APeriodicRule
      /\ \A r \in event_rules : EventShape(r)
  BY DEF Typed, PeriodicTyped, EventsTyped
<1>1. CASE \E d \in Devices : Request(d)
  BY <1>1, UniqueRequest
<1>2. ASSUME NEW interval \in Intervals, UpdateAllIntervals(interval) PROVE RuleIdsUnique'
  <2>1. \A r \in periodic_rules : Reset(r, interval).id = r.id
    BY <1>0, ResetFields
  <2> QED
    BY <1>2, <2>1 DEF UpdateAllIntervals, RuleIdsUnique
<1>3. CASE Tick
  <2>1. now' \in Nat
    BY <1>3 DEF Tick, Typed, ClockTyped
  <2>2. \A r \in periodic_rules : periodic(r, now').id = r.id
    BY <1>0, <2>1, PeriodicReport
  <2> QED
    BY <1>3, <2>2 DEF Tick, RuleIdsUnique
<1>4. ASSUME NEW t \in 0..MaxTime, SetClock(t) PROVE RuleIdsUnique'
  <2>1. \A r \in periodic_rules : [r EXCEPT !.jumps = @ + 1].id = r.id
    BY <1>0, JumpFields
  <2>2. \A r, s \in periodic_rules' : r.id = s.id => r = s
    <3> SUFFICES ASSUME NEW x \in periodic_rules', NEW y \in periodic_rules', x.id = y.id PROVE x = y
      OBVIOUS
    <3>1. PICK r \in periodic_rules : x = [r EXCEPT !.jumps = @ + 1]
      BY <1>4 DEF SetClock
    <3>2. PICK s \in periodic_rules : y = [s EXCEPT !.jumps = @ + 1]
      BY <1>4 DEF SetClock
    <3>3. x.id = r.id /\ y.id = s.id
      BY <2>1, <3>1, <3>2
    <3> QED
      BY <3>1, <3>2, <3>3 DEF RuleIdsUnique
  <2> QED
    BY <1>4, <2>2 DEF SetClock, RuleIdsUnique
<1>5. ASSUME NEW at, Change(at) PROVE RuleIdsUnique'
  <2>1. \A r \in event_rules : [r EXCEPT !.entries = {notify(e, at.changes) : e \in @}].id = r.id
    BY <1>0, NotifiedRule
  <2>2. \A r, s \in event_rules' : r.id = s.id => r = s
    <3> SUFFICES ASSUME NEW x \in event_rules', NEW y \in event_rules', x.id = y.id PROVE x = y
      OBVIOUS
    <3>1. PICK r \in event_rules : x = [r EXCEPT !.entries = {notify(e, at.changes) : e \in @}]
      BY <1>5 DEF Change
    <3>2. PICK s \in event_rules : y = [s EXCEPT !.entries = {notify(e, at.changes) : e \in @}]
      BY <1>5 DEF Change
    <3>3. x.id = r.id /\ y.id = s.id
      BY <2>1, <3>1, <3>2
    <3> QED
      BY <3>1, <3>2, <3>3 DEF RuleIdsUnique
  <2> QED
    BY <1>5, <2>2 DEF Change, RuleIdsUnique
<1>6. CASE \E req \in Asked : SetPack(req) \/ SetPackAtomically(req)
  BY <1>5, <1>6 DEF SetPack, SetPackAtomically
<1>7. CASE \E uid \in Attr, new \in Byte : ApplicationSets(uid, new)
  BY <1>5, <1>7 DEF ApplicationSets
<1>8. CASE UNCHANGED vars
  BY <1>8 DEF vars, RuleIdsUnique
<1> QED
  BY <1>1, <1>2, <1>3, <1>4, <1>6, <1>7, <1>8 DEF Next

\* Rules of a type never share an id (find_available_id), for any number of
\* rules and whatever is deleted in between.
THEOREM IdsUnique == Spec => []RuleIdsUnique
<1>1. Init => Typed /\ RuleIdsUnique
  BY TypedInit DEF Init, RuleIdsUnique
<1>2. Typed /\ RuleIdsUnique /\ [Next]_vars => (Typed /\ RuleIdsUnique)'
  BY TypedStep, UniqueStep
<1> QED
  BY <1>1, <1>2, PTL DEF Spec

-----------------------------------------------------------------------------
(* What a rule was silent for and what is left until it reports.           *)

InTime(r, time) ==
  r.silent + Rest(r.last_time, r.interval, time) <= r.interval * (1 + 3 * r.jumps)

AllInTime == \A r \in periodic_rules : InTime(r, now)

LEMMA InTimeNew ==
  ASSUME NEW r \in APeriodicRule, r.silent = 0, NEW time \in Nat,
         r.last_time <= time \/ r.jumps = 1
  PROVE  InTime(r, time)
<1>1. r.last_time \in Nat /\ r.interval \in Nat \ {0} /\ r.jumps \in Nat
  BY DEF APeriodicRule
<1> DEFINE rest == Rest(r.last_time, r.interval, time)
           bound == r.interval * (1 + 3 * r.jumps)
<1>2. rest \in Nat /\ rest <= 3 * r.interval /\ (r.last_time <= time => rest <= r.interval)
  BY <1>1, RestBounds
<1>3. bound \in Nat /\ r.interval <= bound
  BY <1>1, Room1
<1>4. r.jumps = 1 => bound = 4 * r.interval
  BY <1>1
<1>5. rest <= bound
  <2> HIDE DEF rest, bound
  <2> QED
    BY <1>1, <1>2, <1>3, <1>4
<1>6. 0 + rest <= bound
  BY <1>2, <1>5
<1> QED
  BY <1>6 DEF InTime

LEMMA InTimeTick ==
  ASSUME NEW r \in APeriodicRule, NEW time \in Nat, InTime(r, time)
  PROVE  InTime(periodic(r, time + 1), time + 1)
<1>1. /\ r.last_time \in Nat /\ r.interval \in Nat \ {0} /\ r.jumps \in Nat /\ r.silent \in Nat
      /\ time + 1 \in Nat
  BY DEF APeriodicRule
<1> DEFINE bound == r.interval * (1 + 3 * r.jumps)
<1>2. Due(r, time + 1) <=> Fires(r.last_time, r.interval, time + 1)
  BY <1>1, Division DEF Due, Fires
<1>3. bound \in Nat /\ r.interval <= bound
  BY <1>1, Room1
<1>4. CASE Due(r, time + 1)
  <2>1. periodic(r, time + 1) \in APeriodicRule
    BY <1>1, PeriodicReport
  <2>2. periodic(r, time + 1).silent = 0 /\ periodic(r, time + 1).last_time = time + 1
    BY <1>1, <1>4, PeriodicReport
  <2>3. periodic(r, time + 1).last_time <= time + 1
    BY <1>1, <2>2
  <2> QED
    BY <1>1, <2>1, <2>2, <2>3, InTimeNew
<1>5. CASE ~Due(r, time + 1)
  <2>1. /\ periodic(r, time + 1).silent = r.silent + 1
        /\ periodic(r, time + 1).last_time = r.last_time
        /\ periodic(r, time + 1).interval = r.interval
        /\ periodic(r, time + 1).jumps = r.jumps
    BY <1>1, <1>5, PeriodicReport
  <2>2. /\ Rest(r.last_time, r.interval, time + 1) + 1 <= Rest(r.last_time, r.interval, time)
        /\ Rest(r.last_time, r.interval, time + 1) \in Nat
        /\ Rest(r.last_time, r.interval, time) \in Nat
    BY <1>1, <1>2, <1>5, RestTick, RestBounds
  <2>3. r.silent + Rest(r.last_time, r.interval, time) <= bound
    BY DEF InTime
  <2> HIDE DEF bound
  <2>4. (r.silent + 1) + Rest(r.last_time, r.interval, time + 1) <= bound
    BY <1>1, <1>3, <2>2, <2>3
  <2> QED
    BY <2>1, <2>4 DEF InTime, bound
<1> QED
  BY <1>4, <1>5

LEMMA InTimeJump ==
  ASSUME NEW r \in APeriodicRule, NEW time \in Nat, InTime(r, time), NEW t \in Nat
  PROVE  InTime([r EXCEPT !.jumps = @ + 1], t)
<1>1. /\ r.last_time \in Nat /\ r.interval \in Nat \ {0} /\ r.jumps \in Nat /\ r.silent \in Nat
  BY DEF APeriodicRule
<1> DEFINE bound == r.interval * (1 + 3 * r.jumps)
           later == r.interval * (1 + 3 * (r.jumps + 1))
<1>2. bound \in Nat /\ later = bound + 3 * r.interval
  BY <1>1, Room1
<1>3. r.silent + Rest(r.last_time, r.interval, time) <= bound
  BY DEF InTime
<1>4. /\ Rest(r.last_time, r.interval, time) \in Nat
      /\ Rest(r.last_time, r.interval, t) \in Nat
      /\ Rest(r.last_time, r.interval, t) <= 3 * r.interval
  BY <1>1, RestBounds
<1> HIDE DEF bound, later
<1>5. r.silent + Rest(r.last_time, r.interval, t) <= later
  BY <1>1, <1>2, <1>3, <1>4
<1> QED
  BY <1>5, JumpFields DEF InTime, later

LEMMA InTimeRequest ==
  ASSUME Typed, AllInTime, NEW d \in Devices, Request(d)
  PROVE  AllInTime'
<1>0. now \in Nat /\ \A r \in periodic_rules : r \in APeriodicRule /\ InTime(r, now)
  BY DEF Typed, ClockTyped, PeriodicTyped, AllInTime
<1>1. ASSUME NEW to \in Devices, NEW interval \in Intervals, NEW told \in BOOLEAN,
             CreatePeriodic(d, to, interval, told)
      PROVE  AllInTime'
  <2>1. PICK i \in find_available_id(periodic_rules) :
          periodic_rules' = periodic_rules \union
            {[id |-> i, destination |-> to, interval |-> interval, last_time |-> 0,
              entries |-> {}, silent |-> 0, jumps |-> 0]}
    BY <1>1 DEF CreatePeriodic
  <2> DEFINE new == [id |-> i, destination |-> to, interval |-> interval, last_time |-> 0,
                     entries |-> {}, silent |-> 0, jumps |-> 0]
  <2>2. new \in APeriodicRule /\ new.silent = 0 /\ new.last_time <= now
    BY <1>0, FreshId, IntervalAssumption DEF APeriodicRule, Ids
  <2>3. periodic_rules' = periodic_rules \union {new}
    BY <2>1
  <2> HIDE DEF new
  <2>4. InTime(new, now)
    BY <1>0, <2>2, InTimeNew
  <2>5. now' = now
    BY <1>1 DEF CreatePeriodic
  <2> QED
    BY <1>0, <2>3, <2>4, <2>5 DEF AllInTime
<1>2. ASSUME NEW to \in Devices, NEW told \in BOOLEAN, CreateEvent(d, to, told) PROVE AllInTime'
  BY <1>0, <1>2 DEF CreateEvent, AllInTime
<1>3. ASSUME NEW ref \in References, Delete(d, ref) PROVE AllInTime'
  BY <1>0, <1>3 DEF Delete, Without, AllInTime
<1>4. ASSUME NEW type \in Types, DeleteAll(d, type) PROVE AllInTime'
  BY <1>0, <1>4 DEF DeleteAll, AllInTime
<1>5. ASSUME NEW ref \in References, NEW to \in Devices, AddPeriodicEntry(d, ref, to) PROVE AllInTime'
  <2> DEFINE new == [by |-> d, to |-> to]
  <2> SUFFICES ASSUME NEW x \in periodic_rules' PROVE InTime(x, now')
    BY DEF AllInTime
  <2>1. PICK r \in periodic_rules : x = IF r.id = ref.id THEN [r EXCEPT !.entries = @ \union {new}] ELSE r
    BY <1>5 DEF AddPeriodicEntry
  <2>2. /\ x.silent = r.silent /\ x.last_time = r.last_time /\ x.interval = r.interval
        /\ x.jumps = r.jumps
    BY <1>0, <2>1, AddedFields
  <2>3. now' = now
    BY <1>5 DEF AddPeriodicEntry
  <2> QED
    BY <1>0, <2>2, <2>3 DEF InTime
<1>6. ASSUME NEW ref \in References, NEW to \in Devices, NEW attr \in Attr,
             NEW on \in Conditions, AddEventEntry(d, ref, to, attr, on)
      PROVE  AllInTime'
  BY <1>0, <1>6 DEF AddEventEntry, AllInTime
<1>7. ASSUME NEW ref \in References, NEW interval \in Intervals, UpdateInterval(d, ref, interval)
      PROVE  AllInTime'
  <2>1. \A r \in periodic_rules : InTime(Reset(r, interval), now)
    BY <1>0, ResetFields, InTimeNew
  <2> QED
    BY <1>0, <1>7, <2>1 DEF UpdateInterval, AllInTime
<1> QED
  BY <1>1, <1>2, <1>3, <1>4, <1>5, <1>6, <1>7 DEF Request

LEMMA InTimeStep == Typed /\ AllInTime /\ [Next]_vars => AllInTime'
<1> SUFFICES ASSUME Typed, AllInTime, [Next]_vars PROVE AllInTime'
  OBVIOUS
<1>0. now \in Nat /\ \A r \in periodic_rules : r \in APeriodicRule /\ InTime(r, now)
  BY DEF Typed, ClockTyped, PeriodicTyped, AllInTime
<1>1. CASE \E d \in Devices : Request(d)
  BY <1>1, InTimeRequest
<1>2. ASSUME NEW interval \in Intervals, UpdateAllIntervals(interval) PROVE AllInTime'
  <2>1. \A r \in periodic_rules : InTime(Reset(r, interval), now)
    BY <1>0, ResetFields, InTimeNew
  <2> QED
    BY <1>0, <1>2, <2>1 DEF UpdateAllIntervals, AllInTime
<1>3. CASE Tick
  <2>1. \A r \in periodic_rules : InTime(periodic(r, now + 1), now + 1)
    BY <1>0, InTimeTick
  <2> QED
    BY <1>3, <2>1 DEF Tick, AllInTime
<1>4. ASSUME NEW t \in 0..MaxTime, SetClock(t) PROVE AllInTime'
  <2>1. t \in Nat
    BY ClockAssumption
  <2>2. \A r \in periodic_rules : InTime([r EXCEPT !.jumps = @ + 1], t)
    BY <1>0, <2>1, InTimeJump
  <2>3. now' = t /\ periodic_rules' = {[r EXCEPT !.jumps = @ + 1] : r \in periodic_rules}
    BY <1>4 DEF SetClock
  <2> QED
    BY <2>2, <2>3 DEF AllInTime
<1>5. ASSUME NEW at, Change(at) PROVE AllInTime'
  BY <1>0, <1>5 DEF Change, AllInTime
<1>6. CASE \E req \in Asked : SetPack(req) \/ SetPackAtomically(req)
  BY <1>5, <1>6 DEF SetPack, SetPackAtomically
<1>7. CASE \E uid \in Attr, new \in Byte : ApplicationSets(uid, new)
  BY <1>5, <1>7 DEF ApplicationSets
<1>8. CASE UNCHANGED vars
  BY <1>0, <1>8 DEF vars, AllInTime
<1> QED
  BY <1>1, <1>2, <1>3, <1>4, <1>6, <1>7, <1>8 DEF Next

\* A periodic rule is never silent for its interval, nor, after the clock was
\* set, for three intervals more each time (periodic), for all intervals.
THEOREM ReportsComeInTime == Spec => []ReportsInTime
<1>1. Init => Typed /\ AllInTime
  BY TypedInit DEF Init, AllInTime
<1>2. Typed /\ AllInTime /\ [Next]_vars => (Typed /\ AllInTime)'
  BY TypedStep, InTimeStep
<1>3. Typed /\ AllInTime => ReportsInTime
  <2> SUFFICES ASSUME Typed, AllInTime, NEW r \in periodic_rules
               PROVE  r.silent < r.interval * (1 + 3 * r.jumps)
    BY DEF ReportsInTime
  <2>1. /\ r.last_time \in Nat /\ r.interval \in Nat \ {0} /\ r.jumps \in Nat /\ r.silent \in Nat
        /\ now \in Nat
    BY DEF Typed, ClockTyped, PeriodicTyped, APeriodicRule
  <2> DEFINE bound == r.interval * (1 + 3 * r.jumps)
             rest == Rest(r.last_time, r.interval, now)
  <2>2. rest \in Nat /\ 1 <= rest /\ bound \in Nat
    BY <2>1, RestBounds, Room1
  <2>3. r.silent + rest <= bound
    BY DEF AllInTime, InTime
  <2> HIDE DEF bound, rest
  <2>4. r.silent < bound
    BY <2>1, <2>2, <2>3
  <2> QED
    BY <2>4 DEF bound
<1> QED
  BY <1>1, <1>2, <1>3, PTL DEF Spec

-----------------------------------------------------------------------------
(* References lead to the rules they were given for until another device   *)
(* deletes these.                                                          *)

Leads(list, type) ==
  \A d \in Devices, i \in Ids, to \in Devices :
    <<Ref(type, i), to>> \in known[d] /\ <<d, Ref(type, i)>> \notin revoked
      => \E r \in list : r.id = i /\ r.destination = to

PeriodicOwned ==
  \A r \in periodic_rules : \A e \in r.entries :
    e.to = r.destination \/ <<e.by, Ref("PERIODIC", r.id)>> \in revoked
EventOwned ==
  \A r \in event_rules : \A e \in r.entries :
    e.to = r.destination \/ <<e.by, Ref("EVENT", r.id)>> \in revoked

Owned ==
  /\ Leads(periodic_rules, "PERIODIC") /\ Leads(event_rules, "EVENT")
  /\ PeriodicOwned /\ EventOwned

\* What device o was told of reference q and has not been deleted since.
Told(o, q, t) == <<q, t>> \in known[o] /\ <<o, q>> \notin revoked

\* Only the reference that was answered is learned and restored.
LEMMA LearnKeeps ==
  ASSUME KnownTyped, NEW d \in Devices, NEW ref \in References, NEW to \in Devices,
         NEW told \in BOOLEAN, Learn(d, ref, to, told)
  PROVE  /\ \A o \in Devices, q \in References, t \in Devices :
              Told(o, q, t)' => Told(o, q, t) \/ (o = d /\ q = ref /\ t = to)
         /\ \A o, q : <<o, q>> \in revoked /\ q # ref => <<o, q>> \in revoked'
<1>1. CASE told
  <2>1. /\ known' = [known EXCEPT ![d] = {p \in @ : p[1] # ref} \union {<<ref, to>>}]
        /\ revoked' = revoked \ {<<d, ref>>}
    BY <1>1 DEF Learn
  <2>2. \A o \in Devices, q \in References, t \in Devices : <<q, t>> \in known'[o] =>
          \/ o = d /\ q = ref /\ t = to
          \/ <<q, t>> \in known[o] /\ (o # d \/ q # ref)
    BY <2>1 DEF KnownTyped
  <2> QED
    BY <2>1, <2>2 DEF Told
<1>2. CASE ~told
  BY <1>2 DEF Learn, Told
<1> QED
  BY <1>1, <1>2

\* Forgotten references are gone for one device and revoked for the others.
LEMMA ForgetKeeps ==
  ASSUME KnownTyped, NEW d \in Devices, NEW refs, Forget(d, refs)
  PROVE  /\ \A o \in Devices, q \in References, t \in Devices :
              Told(o, q, t)' => q \notin refs /\ Told(o, q, t)
         /\ \A o, q : <<o, q>> \in revoked /\ q \notin refs => <<o, q>> \in revoked'
<1>1. /\ known' = [known EXCEPT ![d] = {p \in @ : p[1] \notin refs}]
      /\ revoked' = (revoked \ {<<d, ref>> : ref \in refs}) \union
                    {p \in (Devices \ {d}) \X refs : Knows(p[1], p[2])}
  BY DEF Forget
<1>2. \A o \in Devices, q \in References, t \in Devices : <<q, t>> \in known'[o] =>
        <<q, t>> \in known[o] /\ (o # d \/ q \notin refs)
  BY <1>1 DEF KnownTyped
<1>3. \A o \in Devices, q \in References, t \in Devices :
        <<q, t>> \in known[o] /\ o # d /\ q \in refs => <<o, q>> \in revoked'
  BY <1>1 DEF Knows
<1>4. \A o, q : <<o, q>> \in revoked /\ q \notin refs => <<o, q>> \in revoked'
  BY <1>1
<1>5. ASSUME NEW o \in Devices, NEW q \in References, NEW t \in Devices, Told(o, q, t)'
      PROVE  q \notin refs /\ Told(o, q, t)
  <2>1. <<q, t>> \in known'[o] /\ <<o, q>> \notin revoked'
    BY <1>5 DEF Told
  <2>2. <<q, t>> \in known[o] /\ (o # d \/ q \notin refs)
    BY <2>1, <1>2
  <2>3. q \notin refs
    BY <2>1, <2>2, <1>3
  <2>4. <<o, q>> \notin revoked
    BY <2>1, <2>3, <1>4
  <2> QED
    BY <2>2, <2>3, <2>4 DEF Told
<1> QED
  BY <1>4, <1>5

LEMMA RefFacts ==
  ASSUME NEW type \in Types, NEW i \in Ids
  PROVE  /\ Ref(type, i) \in References /\ Ref(type, i).type = type /\ Ref(type, i).id = i
         /\ \A t \in Types, j \in Ids : Ref(t, j) = Ref(type, i) => t = type /\ j = i
BY DEF Ref, References

\* A revoked reference is one.
LEMMA RevokedRefs ==
  ASSUME KnownTyped, NEW o, NEW q, <<o, q>> \in revoked
  PROVE  o \in Devices /\ q \in References
BY DEF KnownTyped

LEMMA RefParts ==
  ASSUME NEW type, NEW i
  PROVE  Ref(type, i).type = type /\ Ref(type, i).id = i
BY DEF Ref

LEMMA OwnedCreatePeriodic ==
  ASSUME Typed, Owned, NEW d \in Devices, NEW to \in Devices, NEW interval \in Intervals,
         NEW told \in BOOLEAN, CreatePeriodic(d, to, interval, told)
  PROVE  Owned'
<1>1. PICK i \in find_available_id(periodic_rules) :
        /\ periodic_rules' = periodic_rules \union
             {[id |-> i, destination |-> to, interval |-> interval, last_time |-> 0,
              entries |-> {}, silent |-> 0, jumps |-> 0]}
        /\ Learn(d, Ref("PERIODIC", i), to, told)
  BY DEF CreatePeriodic
<1> DEFINE new == [id |-> i, destination |-> to, interval |-> interval, last_time |-> 0,
              entries |-> {}, silent |-> 0, jumps |-> 0]
<1>2. new.id = i /\ new.destination = to /\ new.entries = {}
  OBVIOUS
<1>3. periodic_rules' = periodic_rules \union {new} /\ UNCHANGED event_rules
  BY <1>1 DEF CreatePeriodic
<1> HIDE DEF new
<1>4. /\ i \in Ids /\ \A r \in periodic_rules : r.id # i
      /\ KnownTyped /\ "PERIODIC" \in Types /\ "EVENT" \in Types
  BY FreshId DEF Typed, Types
<1>5. \A o \in Devices, q \in References, t \in Devices :
        Told(o, q, t)' => Told(o, q, t) \/ (q = Ref("PERIODIC", i) /\ t = to)
  BY <1>1, <1>4, RefFacts, LearnKeeps
<1>6. \A o, q : <<o, q>> \in revoked /\ q # Ref("PERIODIC", i) => <<o, q>> \in revoked'
  BY <1>1, <1>4, RefFacts, LearnKeeps
<1>7. Leads(periodic_rules, "PERIODIC")'
  <2> SUFFICES ASSUME NEW o \in Devices, NEW j \in Ids, NEW t \in Devices,
                      Told(o, Ref("PERIODIC", j), t)'
               PROVE  \E r \in periodic_rules' : r.id = j /\ r.destination = t
    BY DEF Leads, Told
  <2>1. CASE j = i /\ t = to
    BY <1>2, <1>3, <2>1
  <2>2. CASE Told(o, Ref("PERIODIC", j), t)
    BY <1>3, <2>2 DEF Owned, Leads, Told
  <2> QED
    BY <1>4, <1>5, <2>1, <2>2, RefFacts
<1>8. Leads(event_rules, "EVENT")'
  <2> SUFFICES ASSUME NEW o \in Devices, NEW j \in Ids, NEW t \in Devices,
                      Told(o, Ref("EVENT", j), t)'
               PROVE  \E r \in event_rules' : r.id = j /\ r.destination = t
    BY DEF Leads, Told
  <2>1. Told(o, Ref("EVENT", j), t)
    BY <1>4, <1>5, RefFacts
  <2> QED
    BY <1>3, <2>1 DEF Owned, Leads, Told
<1>9. PeriodicOwned'
  <2> SUFFICES ASSUME NEW r \in periodic_rules', NEW e \in r.entries
               PROVE  e.to = r.destination \/ <<e.by, Ref("PERIODIC", r.id)>> \in revoked'
    BY DEF PeriodicOwned
  <2>1. CASE r = new
    BY <1>2, <2>1
  <2>2. CASE r \in periodic_rules
    <3>1. r.id # i
      BY <1>4, <2>2
    <3> QED
      BY <1>6, <2>2, <3>1, RefParts DEF Owned, PeriodicOwned
  <2> QED
    BY <1>3, <2>1, <2>2
<1>10. EventOwned'
  BY <1>3, <1>6, RefParts DEF Owned, EventOwned
<1> QED
  BY <1>7, <1>8, <1>9, <1>10 DEF Owned

LEMMA OwnedCreateEvent ==
  ASSUME Typed, Owned, NEW d \in Devices, NEW to \in Devices, NEW told \in BOOLEAN,
         CreateEvent(d, to, told)
  PROVE  Owned'
<1>1. PICK i \in find_available_id(event_rules) :
        /\ event_rules' = event_rules \union
             {[id |-> i, destination |-> to, entries |-> {}]}
        /\ Learn(d, Ref("EVENT", i), to, told)
  BY DEF CreateEvent
<1> DEFINE new == [id |-> i, destination |-> to, entries |-> {}]
<1>2. new.id = i /\ new.destination = to /\ new.entries = {}
  OBVIOUS
<1>3. event_rules' = event_rules \union {new} /\ UNCHANGED periodic_rules
  BY <1>1 DEF CreateEvent
<1> HIDE DEF new
<1>4. /\ i \in Ids /\ \A r \in event_rules : r.id # i
      /\ KnownTyped /\ "PERIODIC" \in Types /\ "EVENT" \in Types
  BY FreshId DEF Typed, Types
<1>5. \A o \in Devices, q \in References, t \in Devices :
        Told(o, q, t)' => Told(o, q, t) \/ (q = Ref("EVENT", i) /\ t = to)
  BY <1>1, <1>4, RefFacts, LearnKeeps
<1>6. \A o, q : <<o, q>> \in revoked /\ q # Ref("EVENT", i) => <<o, q>> \in revoked'
  BY <1>1, <1>4, RefFacts, LearnKeeps
<1>7. Leads(event_rules, "EVENT")'
  <2> SUFFICES ASSUME NEW o \in Devices, NEW j \in Ids, NEW t \in Devices,
                      Told(o, Ref("EVENT", j), t)'
               PROVE  \E r \in event_rules' : r.id = j /\ r.destination = t
    BY DEF Leads, Told
  <2>1. CASE j = i /\ t = to
    BY <1>2, <1>3, <2>1
  <2>2. CASE Told(o, Ref("EVENT", j), t)
    BY <1>3, <2>2 DEF Owned, Leads, Told
  <2> QED
    BY <1>4, <1>5, <2>1, <2>2, RefFacts
<1>8. Leads(periodic_rules, "PERIODIC")'
  <2> SUFFICES ASSUME NEW o \in Devices, NEW j \in Ids, NEW t \in Devices,
                      Told(o, Ref("PERIODIC", j), t)'
               PROVE  \E r \in periodic_rules' : r.id = j /\ r.destination = t
    BY DEF Leads, Told
  <2>1. Told(o, Ref("PERIODIC", j), t)
    BY <1>4, <1>5, RefFacts
  <2> QED
    BY <1>3, <2>1 DEF Owned, Leads, Told
<1>9. EventOwned'
  <2> SUFFICES ASSUME NEW r \in event_rules', NEW e \in r.entries
               PROVE  e.to = r.destination \/ <<e.by, Ref("EVENT", r.id)>> \in revoked'
    BY DEF EventOwned
  <2>1. CASE r = new
    BY <1>2, <2>1
  <2>2. CASE r \in event_rules
    <3>1. r.id # i
      BY <1>4, <2>2
    <3> QED
      BY <1>6, <2>2, <3>1, RefParts DEF Owned, EventOwned
  <2> QED
    BY <1>3, <2>1, <2>2
<1>10. PeriodicOwned'
  BY <1>3, <1>6, RefParts DEF Owned, PeriodicOwned
<1> QED
  BY <1>7, <1>8, <1>9, <1>10 DEF Owned

\* Deleting: both kinds of deletion take away the rules of forgotten references.
LEMMA OwnedForget ==
  ASSUME Typed, Owned, NEW d \in Devices, NEW refs, Forget(d, refs),
         periodic_rules' = {r \in periodic_rules : Ref("PERIODIC", r.id) \notin refs},
         event_rules' = {r \in event_rules : Ref("EVENT", r.id) \notin refs}
  PROVE  Owned'
<1>1. KnownTyped /\ "PERIODIC" \in Types /\ "EVENT" \in Types
  BY DEF Typed, Types
<1>2. \A o \in Devices, q \in References, t \in Devices :
        Told(o, q, t)' => q \notin refs /\ Told(o, q, t)
  BY <1>1, ForgetKeeps
<1>3. \A o, q : <<o, q>> \in revoked /\ q \notin refs => <<o, q>> \in revoked'
  BY <1>1, ForgetKeeps
<1>4. Leads(periodic_rules, "PERIODIC")'
  <2> SUFFICES ASSUME NEW o \in Devices, NEW j \in Ids, NEW t \in Devices,
                      Told(o, Ref("PERIODIC", j), t)'
               PROVE  \E r \in periodic_rules' : r.id = j /\ r.destination = t
    BY DEF Leads, Told
  <2>1. Ref("PERIODIC", j) \notin refs /\ Told(o, Ref("PERIODIC", j), t)
    BY <1>1, <1>2, RefFacts
  <2> QED
    BY <2>1 DEF Owned, Leads, Told
<1>5. Leads(event_rules, "EVENT")'
  <2> SUFFICES ASSUME NEW o \in Devices, NEW j \in Ids, NEW t \in Devices,
                      Told(o, Ref("EVENT", j), t)'
               PROVE  \E r \in event_rules' : r.id = j /\ r.destination = t
    BY DEF Leads, Told
  <2>1. Ref("EVENT", j) \notin refs /\ Told(o, Ref("EVENT", j), t)
    BY <1>1, <1>2, RefFacts
  <2> QED
    BY <2>1 DEF Owned, Leads, Told
<1>6. PeriodicOwned' /\ EventOwned'
  BY <1>3 DEF Owned, PeriodicOwned, EventOwned
<1> QED
  BY <1>4, <1>5, <1>6 DEF Owned

LEMMA OwnedDelete ==
  ASSUME Typed, Owned, NEW d \in Devices, NEW ref \in References, Delete(d, ref)
  PROVE  Owned'
<1>1. ref = Ref(ref.type, ref.id)
  BY DEF References, Ref
<1>2. /\ Forget(d, {ref})
      /\ periodic_rules' = {r \in periodic_rules : Ref("PERIODIC", r.id) \notin {ref}}
      /\ event_rules' = {r \in event_rules : Ref("EVENT", r.id) \notin {ref}}
  BY <1>1, RefParts DEF Delete, Without
<1> QED
  BY <1>2, OwnedForget

LEMMA OwnedDeleteAll ==
  ASSUME Typed, Owned, NEW d \in Devices, NEW type \in Types, DeleteAll(d, type)
  PROVE  Owned'
<1> DEFINE refs == {ref \in References : ref.type = type}
<1>1. Forget(d, refs) /\ KnownTyped
  BY DEF DeleteAll, Typed
<1>2. \A o, q : <<o, q>> \in revoked /\ q.type # type => <<o, q>> \in revoked'
  BY <1>1, ForgetKeeps
<1>3. \A o \in Devices, q \in References, t \in Devices :
        Told(o, q, t)' => q.type # type /\ Told(o, q, t)
  BY <1>1, ForgetKeeps
<1> HIDE DEF refs
<1>4. "PERIODIC" \in Types /\ "EVENT" \in Types /\ type \in {"PERIODIC", "EVENT"}
  BY DEF Types
<1>5. ASSUME NEW t \in Types, NEW list, t # type, list = IF t = "PERIODIC" THEN periodic_rules ELSE event_rules
      PROVE  \A o \in Devices, j \in Ids, to \in Devices :
               Told(o, Ref(t, j), to)' => \E r \in list : r.id = j /\ r.destination = to
  BY <1>3, <1>5, RefFacts DEF Owned, Leads, Told, Types
<1>6. \A o \in Devices, j \in Ids, to \in Devices : ~Told(o, Ref(type, j), to)'
  BY <1>3, RefFacts
<1>7. CASE type = "PERIODIC"
  <2>1. periodic_rules' = {} /\ event_rules' = event_rules
    BY <1>7 DEF DeleteAll
  <2>2. Leads(periodic_rules, "PERIODIC")'
    BY <1>6, <1>7 DEF Leads, Told
  <2>3. Leads(event_rules, "EVENT")'
    BY <1>4, <1>5, <1>7, <2>1 DEF Leads, Told
  <2>4. PeriodicOwned' /\ EventOwned'
    BY <1>2, <1>7, <2>1, RefParts DEF Owned, PeriodicOwned, EventOwned
  <2> QED
    BY <2>2, <2>3, <2>4 DEF Owned
<1>8. CASE type = "EVENT"
  <2>1. event_rules' = {} /\ periodic_rules' = periodic_rules
    BY <1>8 DEF DeleteAll
  <2>2. Leads(event_rules, "EVENT")'
    BY <1>6, <1>8 DEF Leads, Told
  <2>3. Leads(periodic_rules, "PERIODIC")'
    BY <1>4, <1>5, <1>8, <2>1 DEF Leads, Told
  <2>4. PeriodicOwned' /\ EventOwned'
    BY <1>2, <1>8, <2>1, RefParts DEF Owned, PeriodicOwned, EventOwned
  <2> QED
    BY <2>2, <2>3, <2>4 DEF Owned
<1> QED
  BY <1>4, <1>7, <1>8

\* What leaves known and revoked alone, and the ids and destinations of rules.
LEMMA OwnedPeriodicStep ==
  ASSUME Owned, UNCHANGED <<event_rules, known, revoked>>,
         \A r \in periodic_rules : \E x \in periodic_rules' : x.id = r.id /\ x.destination = r.destination,
         \A x \in periodic_rules' : \E r \in periodic_rules :
           x.id = r.id /\ x.destination = r.destination /\ x.entries = r.entries
  PROVE  Owned'
<1>1. Leads(periodic_rules, "PERIODIC")' /\ Leads(event_rules, "EVENT")' /\ EventOwned'
  BY DEF Owned, Leads, EventOwned
<1>2. PeriodicOwned'
  <2> SUFFICES ASSUME NEW x \in periodic_rules', NEW e \in x.entries
               PROVE  e.to = x.destination \/ <<e.by, Ref("PERIODIC", x.id)>> \in revoked'
    BY DEF PeriodicOwned
  <2> QED
    BY DEF Owned, PeriodicOwned
<1> QED
  BY <1>1, <1>2 DEF Owned

LEMMA OwnedEventStep ==
  ASSUME Owned, UNCHANGED <<periodic_rules, known, revoked>>,
         \A r \in event_rules : \E x \in event_rules' : x.id = r.id /\ x.destination = r.destination,
         \A x \in event_rules' : \E r \in event_rules :
           /\ x.id = r.id /\ x.destination = r.destination
           /\ \A e \in x.entries : \E f \in r.entries : e.by = f.by /\ e.to = f.to
  PROVE  Owned'
<1>1. Leads(periodic_rules, "PERIODIC")' /\ Leads(event_rules, "EVENT")' /\ PeriodicOwned'
  BY DEF Owned, Leads, PeriodicOwned
<1>2. EventOwned'
  <2> SUFFICES ASSUME NEW x \in event_rules', NEW e \in x.entries
               PROVE  e.to = x.destination \/ <<e.by, Ref("EVENT", x.id)>> \in revoked'
    BY DEF EventOwned
  <2> QED
    BY DEF Owned, EventOwned
<1> QED
  BY <1>1, <1>2 DEF Owned

\* Adding an entry: the reference leads to the rule it was given for, or it was revoked.
LEMMA OwnedAddPeriodic ==
  ASSUME Typed, RuleIdsUnique, Owned, NEW d \in Devices, NEW ref \in References,
         NEW to \in Devices, AddPeriodicEntry(d, ref, to)
  PROVE  Owned'
<1> DEFINE new == [by |-> d, to |-> to]
<1>1. <<ref, to>> \in known[d] /\ ref.type = "PERIODIC" /\ \A r \in periodic_rules : r \in APeriodicRule
  BY DEF Typed, PeriodicTyped, AddPeriodicEntry
<1>2. ref.id \in Ids /\ ref = Ref("PERIODIC", ref.id)
  BY <1>1 DEF References, Ref
<1>3. /\ UNCHANGED <<event_rules, known, revoked>> /\ new.by = d /\ new.to = to
      /\ periodic_rules' = {IF r.id = ref.id THEN [r EXCEPT !.entries = @ \union {new}] ELSE r
                            : r \in periodic_rules}
  BY DEF AddPeriodicEntry
<1> HIDE DEF new
<1>4. \A r \in periodic_rules : \E x \in periodic_rules' : x.id = r.id /\ x.destination = r.destination
  <2> SUFFICES ASSUME NEW r \in periodic_rules
               PROVE  \E x \in periodic_rules' : x.id = r.id /\ x.destination = r.destination
    OBVIOUS
  <2> DEFINE x == IF r.id = ref.id THEN [r EXCEPT !.entries = @ \union {new}] ELSE r
  <2>1. x \in periodic_rules'
    BY <1>3
  <2>2. x.id = r.id /\ x.destination = r.destination
    BY <1>1, AddedFields
  <2> QED
    BY <2>1, <2>2
<1>5. Leads(periodic_rules, "PERIODIC")' /\ Leads(event_rules, "EVENT")' /\ EventOwned'
  <2>1. Leads(periodic_rules, "PERIODIC")'
    <3> SUFFICES ASSUME NEW o \in Devices, NEW i \in Ids, NEW t \in Devices,
                        <<Ref("PERIODIC", i), t>> \in known'[o],
                        <<o, Ref("PERIODIC", i)>> \notin revoked'
                 PROVE  \E x \in periodic_rules' : x.id = i /\ x.destination = t
      BY DEF Leads
    <3>1. PICK r \in periodic_rules : r.id = i /\ r.destination = t
      BY <1>3 DEF Owned, Leads
    <3> QED
      BY <3>1, <1>4
  <2>2. Leads(event_rules, "EVENT")' /\ EventOwned'
    BY <1>3 DEF Owned, Leads, EventOwned
  <2> QED
    BY <2>1, <2>2
<1>6. PeriodicOwned'
  <2> SUFFICES ASSUME NEW x \in periodic_rules', NEW e \in x.entries
               PROVE  e.to = x.destination \/ <<e.by, Ref("PERIODIC", x.id)>> \in revoked'
    BY DEF PeriodicOwned
  <2>1. PICK r \in periodic_rules :
          x = IF r.id = ref.id THEN [r EXCEPT !.entries = @ \union {new}] ELSE r
    BY <1>3
  <2>2. x.id = r.id /\ x.destination = r.destination
    BY <1>1, <2>1, AddedFields
  <2>3. e \in r.entries \/ (e = new /\ r.id = ref.id)
    BY <1>1, <2>1, AddedFields
  <2>4. CASE e \in r.entries
    BY <1>3, <2>2, <2>4 DEF Owned, PeriodicOwned
  <2>5. CASE e = new /\ r.id = ref.id
    <3>1. CASE <<d, ref>> \in revoked
      BY <1>2, <1>3, <2>2, <2>5, <3>1
    <3>2. CASE <<d, ref>> \notin revoked
      <4>1. PICK q \in periodic_rules : q.id = ref.id /\ q.destination = to
        BY <1>1, <1>2, <3>2 DEF Owned, Leads
      <4>2. q = r
        BY <2>5, <4>1 DEF RuleIdsUnique
      <4> QED
        BY <1>3, <2>2, <2>5, <4>1, <4>2
    <3> QED
      BY <3>1, <3>2
  <2> QED
    BY <2>3, <2>4, <2>5
<1> QED
  BY <1>5, <1>6 DEF Owned

LEMMA OwnedAddEvent ==
  ASSUME Typed, RuleIdsUnique, Owned, NEW d \in Devices, NEW ref \in References,
         NEW to \in Devices, NEW attr \in Attr, NEW on \in Conditions,
         AddEventEntry(d, ref, to, attr, on)
  PROVE  Owned'
<1> DEFINE new == [by |-> d, to |-> to, attr |-> attr, on |-> on, seen |-> value[attr]]
<1>1. <<ref, to>> \in known[d] /\ ref.type = "EVENT" /\ \A r \in event_rules : EventShape(r)
  BY DEF Typed, EventsTyped, AddEventEntry
<1>2. ref.id \in Ids /\ ref = Ref("EVENT", ref.id)
  BY <1>1 DEF References, Ref
<1>3. UNCHANGED <<periodic_rules, known, revoked>>
  BY DEF AddEventEntry
<1>4. /\ new.by = d /\ new.to = to /\ EntryShape(new)
      /\ event_rules' = {IF r.id = ref.id THEN [r EXCEPT !.entries = @ \union {new}] ELSE r
                         : r \in event_rules}
  BY DEF AddEventEntry, EntryShape
<1> HIDE DEF new
<1>5. ASSUME NEW r \in event_rules
      PROVE  LET x == [r EXCEPT !.entries = @ \union {new}] IN
             x.id = r.id /\ x.destination = r.destination /\ x.entries = r.entries \union {new}
  <2>1. EventShape(r) /\ \A e \in r.entries \union {new} : EntryShape(e)
    BY <1>1, <1>4 DEF EventShape
  <2> QED
    BY <2>1, NewEntries
<1>6. \A r \in event_rules : \E x \in event_rules' : x.id = r.id /\ x.destination = r.destination
  <2> SUFFICES ASSUME NEW r \in event_rules
               PROVE  \E x \in event_rules' : x.id = r.id /\ x.destination = r.destination
    OBVIOUS
  <2> DEFINE x == IF r.id = ref.id THEN [r EXCEPT !.entries = @ \union {new}] ELSE r
  <2>1. x \in event_rules'
    BY <1>4
  <2>2. x.id = r.id /\ x.destination = r.destination
    BY <1>5
  <2> QED
    BY <2>1, <2>2
<1>7. Leads(periodic_rules, "PERIODIC")' /\ Leads(event_rules, "EVENT")' /\ PeriodicOwned'
  BY <1>3, <1>6 DEF Owned, Leads, PeriodicOwned
<1>8. EventOwned'
  <2> SUFFICES ASSUME NEW x \in event_rules', NEW e \in x.entries
               PROVE  e.to = x.destination \/ <<e.by, Ref("EVENT", x.id)>> \in revoked'
    BY DEF EventOwned
  <2>1. PICK r \in event_rules : x = IF r.id = ref.id THEN [r EXCEPT !.entries = @ \union {new}] ELSE r
    BY <1>4
  <2>2. x.id = r.id /\ x.destination = r.destination /\ (e \in r.entries \/ (e = new /\ r.id = ref.id))
    BY <1>5, <2>1
  <2>3. CASE e \in r.entries
    BY <1>3, <2>2, <2>3 DEF Owned, EventOwned
  <2>4. CASE e = new /\ r.id = ref.id
    <3>1. CASE <<d, ref>> \in revoked
      BY <1>2, <1>3, <1>4, <2>2, <2>4, <3>1
    <3>2. CASE <<d, ref>> \notin revoked
      <4>1. PICK q \in event_rules : q.id = ref.id /\ q.destination = to
        BY <1>1, <1>2, <3>2 DEF Owned, Leads
      <4>2. q = r
        BY <2>4, <4>1 DEF RuleIdsUnique
      <4> QED
        BY <1>4, <2>2, <2>4, <4>1, <4>2
    <3> QED
      BY <3>1, <3>2
  <2> QED
    BY <2>2, <2>3, <2>4
<1> QED
  BY <1>7, <1>8 DEF Owned

LEMMA OwnedStep == Typed /\ RuleIdsUnique /\ Owned /\ [Next]_vars => Owned'
<1> SUFFICES ASSUME Typed, RuleIdsUnique, Owned, [Next]_vars PROVE Owned'
  OBVIOUS
<1>0. /\ \A r \in periodic_rules : r \in APeriodicRule
      /\ \A r \in event_rules : EventShape(r)
      /\ now \in Nat
  BY DEF Typed, PeriodicTyped, EventsTyped, ClockTyped
<1>1. ASSUME NEW d \in Devices, NEW ref \in References, NEW interval \in Intervals,
             UpdateInterval(d, ref, interval)
      PROVE  Owned'
  <2>1. \A r \in periodic_rules :
          LET x == IF r.id = ref.id THEN Reset(r, interval) ELSE r IN
          x.id = r.id /\ x.destination = r.destination /\ x.entries = r.entries
    BY <1>0, ResetFields
  <2>2. periodic_rules' = {IF r.id = ref.id THEN Reset(r, interval) ELSE r : r \in periodic_rules}
        /\ UNCHANGED <<event_rules, known, revoked>>
    BY <1>1 DEF UpdateInterval
  <2> QED
    BY <2>1, <2>2, OwnedPeriodicStep
<1>2. ASSUME NEW d \in Devices, Request(d) PROVE Owned'
  BY <1>1, <1>2, OwnedCreatePeriodic, OwnedCreateEvent, OwnedDelete, OwnedDeleteAll,
     OwnedAddPeriodic, OwnedAddEvent DEF Request
<1>3. ASSUME NEW interval \in Intervals, UpdateAllIntervals(interval) PROVE Owned'
  <2>1. \A r \in periodic_rules :
          LET x == Reset(r, interval) IN
          x.id = r.id /\ x.destination = r.destination /\ x.entries = r.entries
    BY <1>0, ResetFields
  <2>2. periodic_rules' = {Reset(r, interval) : r \in periodic_rules}
        /\ UNCHANGED <<event_rules, known, revoked>>
    BY <1>3 DEF UpdateAllIntervals
  <2> QED
    BY <2>1, <2>2, OwnedPeriodicStep
<1>4. CASE Tick
  <2>1. now' \in Nat /\ periodic_rules' = {periodic(r, now') : r \in periodic_rules}
        /\ UNCHANGED <<event_rules, known, revoked>>
    BY <1>0, <1>4 DEF Tick
  <2>2. \A r \in periodic_rules :
          LET x == periodic(r, now') IN
          x.id = r.id /\ x.destination = r.destination /\ x.entries = r.entries
    BY <1>0, <2>1, PeriodicReport
  <2> QED
    BY <2>1, <2>2, OwnedPeriodicStep
<1>5. ASSUME NEW t \in 0..MaxTime, SetClock(t) PROVE Owned'
  <2>1. \A r \in periodic_rules :
          LET x == [r EXCEPT !.jumps = @ + 1] IN
          x.id = r.id /\ x.destination = r.destination /\ x.entries = r.entries
    BY <1>0, JumpFields
  <2>2. periodic_rules' = {[r EXCEPT !.jumps = @ + 1] : r \in periodic_rules}
        /\ UNCHANGED <<event_rules, known, revoked>>
    BY <1>5 DEF SetClock
  <2> QED
    BY <2>1, <2>2, OwnedPeriodicStep
<1>6. ASSUME NEW at, Change(at) PROVE Owned'
  <2>1. \A r \in event_rules :
          LET x == [r EXCEPT !.entries = {notify(e, at.changes) : e \in @}] IN
          /\ x.id = r.id /\ x.destination = r.destination
          /\ \A e \in x.entries : \E f \in r.entries : e.by = f.by /\ e.to = f.to
    <3> SUFFICES ASSUME NEW r \in event_rules
                 PROVE  LET x == [r EXCEPT !.entries = {notify(e, at.changes) : e \in @}] IN
                        /\ x.id = r.id /\ x.destination = r.destination
                        /\ \A e \in x.entries : \E f \in r.entries : e.by = f.by /\ e.to = f.to
      OBVIOUS
    <3>1. \A f \in r.entries :
            notify(f, at.changes).by = f.by /\ notify(f, at.changes).to = f.to
      BY <1>0, NotifyShape DEF EventShape
    <3> QED
      BY <1>0, <3>1, NotifiedRule
  <2>2. event_rules' = {[r EXCEPT !.entries = {notify(e, at.changes) : e \in @}] : r \in event_rules}
        /\ UNCHANGED <<periodic_rules, known, revoked>>
    BY <1>6 DEF Change
  <2> DEFINE after(r) == [r EXCEPT !.entries = {notify(e, at.changes) : e \in @}]
  <2>3. \A r \in event_rules :
          /\ after(r).id = r.id /\ after(r).destination = r.destination
          /\ \A e \in after(r).entries : \E f \in r.entries : e.by = f.by /\ e.to = f.to
    BY <2>1
  <2>4. event_rules' = {after(r) : r \in event_rules} /\ UNCHANGED <<periodic_rules, known, revoked>>
    BY <2>2
  <2> HIDE DEF after
  <2>5. \A r \in event_rules : \E x \in event_rules' : x.id = r.id /\ x.destination = r.destination
    BY <2>3, <2>4
  <2>6. \A x \in event_rules' : \E r \in event_rules :
          /\ x.id = r.id /\ x.destination = r.destination
          /\ \A e \in x.entries : \E f \in r.entries : e.by = f.by /\ e.to = f.to
    BY <2>3, <2>4
  <2> QED
    BY <2>4, <2>5, <2>6, OwnedEventStep
<1>7. CASE \E req \in Asked : SetPack(req) \/ SetPackAtomically(req)
  BY <1>6, <1>7 DEF SetPack, SetPackAtomically
<1>8. CASE \E uid \in Attr, new \in Byte : ApplicationSets(uid, new)
  BY <1>6, <1>8 DEF ApplicationSets
<1>9. CASE UNCHANGED vars
  BY <1>9 DEF vars, Owned, Leads, PeriodicOwned, EventOwned
<1> QED
  BY <1>2, <1>3, <1>4, <1>5, <1>7, <1>8, <1>9 DEF Next

\* Reports of an entry go where its device was told the rule sends them, unless
\* another device deleted that rule before (handle of DeleteMessage), for any
\* number of devices, rules and entries.
THEOREM ReportsGoToOwners == Spec => []EntriesOwned
<1>1. Init => Typed /\ RuleIdsUnique /\ Owned
  BY TypedInit DEF Init, RuleIdsUnique, Owned, Leads, PeriodicOwned, EventOwned
<1>2. Typed /\ RuleIdsUnique /\ Owned /\ [Next]_vars => (Typed /\ RuleIdsUnique /\ Owned)'
  BY TypedStep, UniqueStep, OwnedStep
<1>3. Owned => EntriesOwned
  BY DEF Owned, PeriodicOwned, EventOwned, EntriesOwned
<1> QED
  BY <1>1, <1>2, <1>3, PTL DEF Spec

-----------------------------------------------------------------------------
(* Counting.                                                               *)

\* A set that holds 0 and, with each number below n, the next: it has all up to n.
LEMMA UpTo ==
  ASSUME NEW n \in Nat, NEW S, 0 \in S, \A i \in 0..n : i \in S /\ i < n => i + 1 \in S
  PROVE  \A i \in 0..n : i \in S
<1> DEFINE T == (0..n) \ S
<1> SUFFICES ASSUME T # {} PROVE FALSE
  OBVIOUS
<1>1. T \subseteq Nat
  OBVIOUS
<1> HIDE DEF T
<1>2. PICK a \in T : \A b \in T : ~(<<b, a>> \in OpToRel(<, Nat))
  BY <1>1, WFMin, NatLessThanWellFounded
<1>3. a \in 0..n /\ a \notin S
  BY DEF T
<1>4. a # 0
  BY <1>3
<1>5. a - 1 \in T
  BY <1>3, <1>4 DEF T
<1>6. <<a - 1, a>> \in Nat \X Nat /\ <<a - 1, a>>[1] < <<a - 1, a>>[2]
  BY <1>3, <1>4
<1>7. <<a - 1, a>> \in OpToRel(<, Nat)
  BY <1>6, Zenon DEF OpToRel
<1> QED
  BY <1>2, <1>5, <1>7

-----------------------------------------------------------------------------
(* Writing attributes.                                                     *)

\* The record that update_attributes works on.
Working == {"value", "offset", "code", "results", "changes"}

\* One round of its loop.
One(at, bytes, nop) ==
  LET uid == bytes[at.offset + 1]
      new == update_attribute([at EXCEPT !.offset = @ + 1], uid, bytes, nop)
  IN IF GoesOn(at)
     THEN [new EXCEPT !.results = Append(@, [uid |-> uid, code |-> new.code])]
     ELSE at

\* The bytes of a request: UID and value of each of its fields.
LEMMA PayloadIs ==
  ASSUME NEW n \in Nat, NEW req, Len(req) = n
  PROVE  /\ DOMAIN Payload(req) = 1..(2 * n) /\ Len(Payload(req)) = 2 * n
         /\ \A i \in 1..n : /\ Payload(req)[2 * (i - 1) + 1] = req[i].uid
                            /\ Payload(req)[2 * (i - 1) + 2] = req[i].value
<1>1. Payload(req) = [b \in 1..(2 * n) |-> IF b % 2 = 1 THEN req[(b + 1) \div 2].uid
                                                         ELSE req[(b + 1) \div 2].value]
  BY DEF Payload
<1>2. 2 * n \in Nat
  OBVIOUS
<1>3. DOMAIN Payload(req) = 1..(2 * n) /\ Len(Payload(req)) = 2 * n
  BY <1>1, <1>2
<1>4. ASSUME NEW i \in 1..n
      PROVE  /\ 2 * (i - 1) + 1 \in 1..(2 * n) /\ 2 * (i - 1) + 2 \in 1..(2 * n)
             /\ (2 * (i - 1) + 1) % 2 = 1 /\ (2 * (i - 1) + 2) \div 2 = i
             /\ (2 * (i - 1) + 2) % 2 = 0 /\ (2 * (i - 1) + 3) \div 2 = i
             /\ 2 * (i - 1) + 1 + 1 = 2 * (i - 1) + 2 /\ 2 * (i - 1) + 2 + 1 = 2 * (i - 1) + 3
  OBVIOUS
<1>5. ASSUME NEW i \in 1..n
      PROVE  /\ Payload(req)[2 * (i - 1) + 1] = req[i].uid
             /\ Payload(req)[2 * (i - 1) + 2] = req[i].value
  <2> DEFINE a == 2 * (i - 1) + 1
             b == 2 * (i - 1) + 2
  <2>1. /\ a \in 1..(2 * n) /\ b \in 1..(2 * n)
        /\ a % 2 = 1 /\ (a + 1) \div 2 = i /\ b % 2 = 0 /\ (b + 1) \div 2 = i
    BY <1>4
  <2> HIDE DEF a, b
  <2>2. Payload(req)[a] = req[i].uid /\ Payload(req)[b] = req[i].value
    BY <1>1, <2>1
  <2> QED BY <2>2 DEF a, b
<1> QED BY <1>3, <1>5

\* What a round does to the values and to what is reported of them.
Outcome(o, at, u, bytes, nop) ==
  /\ DOMAIN o = Working
  /\ u \notin Attr => o.value = at.value /\ o.changes = at.changes /\ ~GoesOn(o) /\ o.offset \in Nat
  /\ u \in Attr \ Writable =>
       o.value = at.value /\ o.changes = at.changes /\ GoesOn(o) /\ o.offset = at.offset + 2
  /\ nop => o.value = at.value /\ o.changes = at.changes /\ o.offset \in Nat
  /\ ~nop /\ u \in Writable /\ at.offset + 2 <= Len(bytes) /\ Len(bytes) \in Nat =>
       /\ GoesOn(o) /\ o.offset = at.offset + 2
       /\ o.value = [at.value EXCEPT ![u] = bytes[at.offset + 2]]
       /\ o.changes = Append(at.changes, [uid |-> u, old |-> at.value[u], new |-> bytes[at.offset + 2]])

LEMMA OneRound ==
  ASSUME NEW at, DOMAIN at = Working, at.offset \in Nat, GoesOn(at), NEW bytes, NEW nop \in BOOLEAN,
         NEW u, u = bytes[at.offset + 1], NEW o, o = One(at, bytes, nop)
  PROVE  Outcome(o, at, u, bytes, nop)
<1> USE DEF Outcome
<1> DEFINE b == [at EXCEPT !.offset = at.offset + 1]
           new == update_attribute(b, u, bytes, nop)
<1>1. /\ DOMAIN b = Working /\ b.offset = at.offset + 1 /\ b.value = at.value /\ b.changes = at.changes
      /\ b.results = at.results
  BY DEF Working
<1>2. o = [new EXCEPT !.results = Append(new.results, [uid |-> u, code |-> new.code])]
  BY DEF One
<1> HIDE DEF b, new
<1>3. DOMAIN new = Working =>
        /\ DOMAIN o = Working /\ o.value = new.value /\ o.changes = new.changes
        /\ o.code = new.code /\ o.offset = new.offset
  BY <1>2 DEF Working
<1>4. ASSUME NEW code, NEW offset
      PROVE  LET x == Refuse(b, code, offset)
             IN /\ DOMAIN x = Working /\ x.code = code /\ x.offset = offset
                /\ x.value = at.value /\ x.changes = at.changes
  BY <1>1 DEF Refuse, Working
<1>5. LET x == [b EXCEPT !.code = "OK"]
      IN /\ DOMAIN x = Working /\ x.code = "OK" /\ x.offset = at.offset + 1
         /\ x.value = at.value /\ x.changes = at.changes
  BY <1>1 DEF Working
<1>6. ASSUME NEW v
      PROVE  LET x == Store(b, u, v)
             IN /\ DOMAIN x = Working /\ x.code = "OK" /\ x.offset = at.offset + 2
                /\ x.value = [at.value EXCEPT ![u] = v]
                /\ x.changes = Append(at.changes, [uid |-> u, old |-> at.value[u], new |-> v])
  <2> DEFINE c == [uid |-> u, old |-> at.value[u], new |-> v]
             b1 == [b EXCEPT !.code = "OK"]
             b2 == [b1 EXCEPT !.offset = at.offset + 2]
             b3 == [b2 EXCEPT !.value = [at.value EXCEPT ![u] = v]]
             b4 == [b3 EXCEPT !.changes = Append(at.changes, c)]
  <2>1. b.offset + 1 = at.offset + 2 /\ b.value[u] = at.value[u]
    BY <1>1
  <2> HIDE DEF c
  <2>2. /\ DOMAIN b4 = Working /\ b4.code = "OK" /\ b4.offset = at.offset + 2
        /\ b4.value = [at.value EXCEPT ![u] = v] /\ b4.changes = Append(at.changes, c)
    BY <1>1 DEF Working
  <2>3. Store(b, u, v) = b4
    BY <1>1, <2>1 DEF Store, Working, c
  <2> HIDE DEF b4
  <2> QED BY <2>2, <2>3 DEF c
<1>7. CASE u \notin Attr
  <2>1. new = Refuse(b, "FAIL_SUPPORT", b.offset)
    BY <1>7, AttrAssumption DEF new, update_attribute
  <2> QED BY <1>1, <1>3, <1>4, <1>7, <2>1, AttrAssumption DEF GoesOn
<1>8. CASE u \in Attr \ Writable
  <2>1. new = Refuse(b, "FAIL_RO_ATTR", b.offset + 1)
    BY <1>8 DEF new, update_attribute
  <2> QED BY <1>1, <1>3, <1>4, <1>8, <2>1 DEF GoesOn
<1>9. CASE u \in Writable
  <2>1. u \in Attr
    BY <1>9, AttrAssumption
  <2>2. CASE b.offset >= Len(bytes)
    <3>1. new = Refuse(b, "FAIL_UNKNOWN", b.offset)
      BY <1>9, <2>1, <2>2 DEF new, update_attribute
    <3> QED BY <1>1, <1>3, <1>4, <1>9, <2>1, <2>2, <3>1 DEF GoesOn
  <2>3. CASE ~(b.offset >= Len(bytes))
    <3>1. new = IF nop THEN [b EXCEPT !.code = "OK"] ELSE Store(b, u, bytes[at.offset + 2])
      <4>1. b.offset + 1 = at.offset + 2
        BY <1>1
      <4> QED BY <1>9, <2>1, <2>3, <4>1 DEF new, update_attribute
    <3>2. CASE nop
      <4>1. /\ DOMAIN o = Working /\ o.value = at.value /\ o.changes = at.changes
            /\ o.offset = at.offset + 1 /\ o.offset \in Nat
        <5>1. new = [b EXCEPT !.code = "OK"]
          BY <3>1, <3>2
        <5>2. DOMAIN o = Working /\ o.value = new.value /\ o.changes = new.changes /\ o.offset = new.offset
          BY <1>3, <1>5, <5>1
        <5>3. new.value = at.value /\ new.changes = at.changes /\ new.offset = at.offset + 1
          BY <1>5, <5>1
        <5>4. at.offset + 1 \in Nat
          OBVIOUS
        <5> QED BY <5>2, <5>3, <5>4
      <4> QED BY <1>9, <2>1, <3>2, <4>1
    <3>3. CASE ~nop
      BY <1>1, <1>3, <1>6, <1>9, <2>1, <3>1, <3>3 DEF GoesOn
    <3> QED BY <3>2, <3>3
  <2> QED BY <2>2, <2>3
<1> QED BY <1>7, <1>8, <1>9

\* The rounds of a request with n fields.
Rounds(pass, req, n, nop) ==
  pass = [i \in 0..n |-> IF i = 0 THEN Start ELSE One(pass[i - 1], Payload(req), nop)]

\* They exist, and update_attributes is what the last of them leaves.
LEMMA PassUnfolds ==
  ASSUME NEW n \in Nat, NEW req, Len(req) = n, NEW nop
  PROVE  \E pass : Rounds(pass, req, n, nop) /\ update_attributes(req, nop) = pass[n]
<1> DEFINE bytes == Payload(req)
           Run(pass, m) == pass = [i \in 0..m |-> IF i = 0 THEN Start ELSE One(pass[i - 1], bytes, nop)]
           S == {m \in 0..n : \E pass : Run(pass, m)}
<1>0. update_attributes(req, nop) = (CHOOSE pass : Run(pass, n))[n]
  BY DEF update_attributes, One
<1> HIDE DEF bytes
<1>1. 0 \in S
  <2>1. Run([i \in 0..0 |-> Start], 0)
    OBVIOUS
  <2> HIDE DEF Run
  <2> QED BY <2>1
<1>2. ASSUME NEW m \in 0..n, m \in S, m < n PROVE m + 1 \in S
  <2>1. PICK f : Run(f, m)
    BY <1>2
  <2> DEFINE g == [i \in 0..(m + 1) |-> IF i <= m THEN f[i] ELSE One(f[m], bytes, nop)]
  <2>2. Run(g, m + 1)
    <3>1. ASSUME NEW i \in 0..(m + 1)
          PROVE  g[i] = IF i = 0 THEN Start ELSE One(g[i - 1], bytes, nop)
      <4>1. CASE i = m + 1
        BY <4>1
      <4>2. CASE i <= m
        BY <4>2, <2>1
      <4> QED BY <4>1, <4>2
    <3> QED BY <3>1
  <2> HIDE DEF Run, g
  <2>3. \E pass : Run(pass, m + 1)
    BY <2>2
  <2> QED BY <1>2, <2>3
<1>3. n \in S
  <2> HIDE DEF S
  <2>1. \A i \in 0..n : i \in S /\ i < n => i + 1 \in S
    BY <1>2
  <2>2. \A i \in 0..n : i \in S
    BY <1>1, <2>1, UpTo
  <2> QED BY <2>2
<1>4. \E pass : Run(pass, n)
  BY <1>3
<1>5. Run(CHOOSE pass : Run(pass, n), n)
  <2> HIDE DEF Run
  <2> QED BY <1>4
<1>6. Rounds(CHOOSE pass : Run(pass, n), req, n, nop)
  BY <1>5 DEF bytes, Rounds
<1> HIDE DEF Run
<1> QED BY <1>0, <1>6

\* Each round comes after the one before it.
LEMMA RoundAfterRound ==
  ASSUME NEW n \in Nat, NEW req, NEW nop, NEW pass, Rounds(pass, req, n, nop)
  PROVE  /\ pass[0] = Start
         /\ \A i \in 0..n : i < n => i + 1 \in 0..n /\ pass[i + 1] = One(pass[i], Payload(req), nop)
BY DEF Rounds

\* A trial changes nothing, whatever bytes it takes for UIDs.
LEMMA TrialChangesNothing ==
  ASSUME NEW n \in Nat, NEW req, Len(req) = n
  PROVE  LET trial == update_attributes(req, TRUE)
         IN DOMAIN trial = Working /\ trial.value = value /\ trial.changes = <<>>
<1> DEFINE nop == TRUE
<1>0. nop \in BOOLEAN /\ nop
  OBVIOUS
<1> HIDE DEF nop
<1>1. PICK pass : Rounds(pass, req, n, nop) /\ update_attributes(req, nop) = pass[n]
  BY PassUnfolds
<1> DEFINE T == {i \in 0..n : /\ DOMAIN pass[i] = Working /\ pass[i].offset \in Nat
                           /\ pass[i].value = value /\ pass[i].changes = <<>>}
<1>2. 0 \in T
  <2>1. pass[0] = Start
    BY <1>1, RoundAfterRound
  <2> QED BY <2>1 DEF Start, Working
<1>3. ASSUME NEW i \in 0..n, i \in T, i < n PROVE i + 1 \in T
  <2>1. pass[i + 1] = One(pass[i], Payload(req), nop) /\ i + 1 \in 0..n
    BY <1>1, <1>3, RoundAfterRound
  <2>2. CASE GoesOn(pass[i])
    <3> DEFINE at == pass[i]
               o == pass[i + 1]
               bytes == Payload(req)
               u == bytes[at.offset + 1]
    <3>1. DOMAIN at = Working /\ at.offset \in Nat /\ at.value = value /\ at.changes = <<>> /\ o = One(at, bytes, nop)
          /\ GoesOn(at)
      BY <1>3, <2>1, <2>2
    <3> HIDE DEF at, o, bytes
    <3>2. Outcome(o, at, bytes[at.offset + 1], bytes, nop)
      BY <1>0, <3>1, OneRound
    <3>3. DOMAIN o = Working /\ o.value = at.value /\ o.changes = at.changes /\ o.offset \in Nat
      BY <1>0, <3>2 DEF Outcome
    <3> QED BY <2>1, <3>1, <3>3 DEF o
  <2>3. CASE ~GoesOn(pass[i])
    BY <1>3, <2>1, <2>3 DEF One
  <2> QED BY <2>2, <2>3
<1>4. n \in T
  <2> HIDE DEF T
  <2>1. \A i \in 0..n : i \in T /\ i < n => i + 1 \in T
    BY <1>3
  <2>2. \A i \in 0..n : i \in T
    BY <1>2, <2>1, UpTo
  <2> QED BY <2>2
<1> QED BY <1>1, <1>4 DEF nop

\* The fields up to the i-th that give a value to an attribute, and the last of some.
Naming(req, a, i) == {j \in Reached(req) : j <= i /\ req[j].uid = a}
Latest(S, k) == k \in S /\ \A j \in S : j <= k

\* The values that these fields make.
Valued(v, req, i) ==
  /\ v \in [Attr -> Byte]
  /\ \A a \in Attr : a \notin Writable \/ Naming(req, a, i) = {} => v[a] = value[a]
  /\ \A a \in Writable : \A k : Latest(Naming(req, a, i), k) => v[a] = req[k].value

\* Changes that tell of everything that is new.
Change1 == [uid : Attr, old : Byte, new : Byte]
Changing(changes, a) == {j \in DOMAIN changes : changes[j].uid = a}
Tells(changes, before, after) ==
  /\ changes \in Seq(Change1)
  /\ \A a \in Attr : Changing(changes, a) = {} => after[a] = before[a]
  /\ \A a \in Attr : \A k : Latest(Changing(changes, a), k) => changes[k].new = after[a]

LEMMA OneMoreChange ==
  ASSUME NEW changes, NEW before, NEW mid \in [Attr -> Byte], Tells(changes, before, mid),
         NEW u \in Attr, NEW v \in Byte
  PROVE  Tells(Append(changes, [uid |-> u, old |-> mid[u], new |-> v]), before, [mid EXCEPT ![u] = v])
<1> DEFINE c == [uid |-> u, old |-> mid[u], new |-> v]
           new == Append(changes, c)
           after == [mid EXCEPT ![u] = v]
           n == Len(changes)
<1>1. c \in Change1 /\ c.uid = u /\ c.new = v
  BY DEF Change1
<1>2. changes \in Seq(Change1)
  BY DEF Tells
<1> HIDE DEF c
<1>3. /\ new \in Seq(Change1) /\ n \in Nat /\ DOMAIN changes = 1..n /\ DOMAIN new = 1..(n + 1)
      /\ new[n + 1] = c /\ \A i \in 1..n : new[i] = changes[i]
  BY <1>1, <1>2
<1>4. after[u] = v /\ \A a \in Attr \ {u} : after[a] = mid[a]
  OBVIOUS
<1> HIDE DEF new, after, n
<1>5. \A a \in Attr \ {u} : Changing(new, a) = Changing(changes, a)
  BY <1>1, <1>3 DEF Changing
<1>6. n + 1 \in Changing(new, u)
  BY <1>1, <1>3 DEF Changing
<1>7. ASSUME NEW k, Latest(Changing(new, u), k) PROVE k = n + 1
  BY <1>3, <1>6, <1>7 DEF Latest, Changing
<1>8. ASSUME NEW a \in Attr \ {u}, NEW k, Latest(Changing(changes, a), k) PROVE new[k] = changes[k]
  BY <1>3, <1>8 DEF Latest, Changing
<1>9. ASSUME NEW a \in Attr, Changing(new, a) = {} PROVE after[a] = before[a]
  BY <1>4, <1>5, <1>6, <1>9 DEF Tells
<1>10. ASSUME NEW a \in Attr, NEW k, Latest(Changing(new, a), k) PROVE new[k].new = after[a]
  <2>1. CASE a = u
    BY <1>1, <1>3, <1>4, <1>7, <1>10, <2>1
  <2>2. CASE a # u
    <3>1. Latest(Changing(changes, a), k)
      BY <1>5, <1>10, <2>2
    <3> QED BY <1>4, <1>8, <2>2, <3>1 DEF Tells
  <2> QED BY <2>1, <2>2
<1>11. Tells(new, before, after)
  BY <1>3, <1>9, <1>10 DEF Tells
<1> QED BY <1>11 DEF new, after, c

\* What is known after i rounds: the bytes read are those of i fields, unless
\* an attribute that does not exist has ended the request.
Good(at, req, i) ==
  /\ DOMAIN at = Working /\ at.offset \in Nat
  /\ GoesOn(at) => (i = 0 \/ i \in Reached(req)) /\ at.offset = 2 * i
  /\ ~GoesOn(at) => i # 0 /\ i \notin Reached(req)
  /\ Valued(at.value, req, i)
  /\ Tells(at.changes, value, at.value)

\* A field that is not reached, or that gives no value to an attribute.
LEMMA NothingNamed ==
  ASSUME NEW n \in Nat, NEW req, DOMAIN req = 1..n, NEW i \in 0..n, i < n, NEW v, Valued(v, req, i),
         i + 1 \in Reached(req) => req[i + 1].uid \notin Writable
  PROVE  Valued(v, req, i + 1)
<1>1. \A a \in Writable : Naming(req, a, i + 1) = Naming(req, a, i)
  BY DEF Naming, Reached
<1>2. Writable \subseteq Attr
  BY AttrAssumption
<1> QED BY <1>1, <1>2 DEF Valued

LEMMA GoodRound ==
  ASSUME NEW n \in Nat, NEW req \in [1..n -> [uid : Byte, value : Byte]], Len(req) = n,
         NEW i \in 0..n, i < n, NEW at, Good(at, req, i), NEW nop \in BOOLEAN, ~nop,
         NEW o, o = One(at, Payload(req), nop)
  PROVE  Good(o, req, i + 1)
<1>0. DOMAIN req = 1..n /\ req[i + 1] \in [uid : Byte, value : Byte] /\ i + 1 \in 1..n
  OBVIOUS
<1>1. DOMAIN at = Working /\ at.offset \in Nat
  BY DEF Good
<1>2. CASE ~GoesOn(at)
  <2>1. o = at
    BY <1>2 DEF One
  <2>2. i # 0 /\ i \notin Reached(req)
    BY <1>2 DEF Good
  <2>3. i + 1 \notin Reached(req)
    BY <1>0, <2>2 DEF Reached
  <2>4. Valued(at.value, req, i + 1)
    BY <1>0, <2>3, NothingNamed DEF Good
  <2> QED BY <1>2, <2>1, <2>3, <2>4 DEF Good
<1>3. CASE GoesOn(at)
  <2> DEFINE bytes == Payload(req)
             u == req[i + 1].uid
             w == req[i + 1].value
  <2>1. i = 0 \/ i \in Reached(req)
    BY <1>3 DEF Good
  <2>2. i + 1 \in Reached(req) <=> u \in Attr
    BY <1>0, <2>1 DEF Reached
  <2>3. /\ bytes[at.offset + 1] = u /\ bytes[at.offset + 2] = w
        /\ Len(bytes) = 2 * n /\ at.offset = 2 * i
    <3>1. at.offset = 2 * ((i + 1) - 1)
      BY <1>3 DEF Good
    <3>2. at.offset = 2 * i
      BY <1>3 DEF Good
    <3> DEFINE j == i + 1
    <3>3. j \in 1..n /\ at.offset + 1 = 2 * (j - 1) + 1 /\ at.offset + 2 = 2 * (j - 1) + 2
          /\ u = req[j].uid /\ w = req[j].value
      BY <1>0, <3>1
    <3> HIDE DEF j, u, w, bytes
    <3>4. /\ bytes[2 * (j - 1) + 1] = req[j].uid /\ bytes[2 * (j - 1) + 2] = req[j].value
          /\ Len(bytes) = 2 * n
      BY <3>3, PayloadIs DEF bytes
    <3> QED BY <3>2, <3>3, <3>4
  <2>4. u \in Byte /\ w \in Byte
    BY <1>0
  <2> HIDE DEF bytes, u, w
  <2>5. /\ DOMAIN o = Working
        /\ u \notin Attr => /\ o.value = at.value /\ o.changes = at.changes /\ ~GoesOn(o) /\ o.offset \in Nat
        /\ u \in Attr \ Writable => /\ o.value = at.value /\ o.changes = at.changes /\ GoesOn(o)
                                    /\ o.offset = at.offset + 2
        /\ u \in Writable => /\ GoesOn(o) /\ o.offset = at.offset + 2
                             /\ o.value = [at.value EXCEPT ![u] = w]
                             /\ o.changes = Append(at.changes, [uid |-> u, old |-> at.value[u], new |-> w])
    <3>1. o = One(at, bytes, nop)
      BY DEF bytes
    <3>2. at.offset + 2 <= Len(bytes) /\ Len(bytes) \in Nat
      BY <2>3
    <3>3. u = bytes[at.offset + 1] /\ w = bytes[at.offset + 2]
      BY <2>3
    <3>4. Outcome(o, at, u, bytes, nop)
      BY <1>1, <1>3, <3>1, <3>3, OneRound
    <3>5. u \in Writable =>
            /\ GoesOn(o) /\ o.offset = at.offset + 2
            /\ o.value = [at.value EXCEPT ![u] = bytes[at.offset + 2]]
            /\ o.changes = Append(at.changes, [uid |-> u, old |-> at.value[u], new |-> bytes[at.offset + 2]])
      BY <3>2, <3>4 DEF Outcome
    <3> QED BY <3>3, <3>4, <3>5 DEF Outcome
  <2>6. at.offset + 2 = 2 * (i + 1) /\ at.offset + 2 \in Nat
    BY <2>3
  <2>7. CASE u \notin Attr
    <3>1. i + 1 \notin Reached(req) /\ i + 1 # 0
      BY <2>2, <2>7
    <3>2. Valued(at.value, req, i + 1)
      BY <1>0, <3>1, NothingNamed DEF Good
    <3> QED BY <2>5, <2>7, <3>1, <3>2 DEF Good
  <2>8. CASE u \in Attr \ Writable
    <3>1. i + 1 \in Reached(req)
      BY <2>2, <2>8
    <3>2. Valued(at.value, req, i + 1)
      BY <1>0, <2>8, NothingNamed DEF Good, u
    <3> QED BY <2>5, <2>6, <2>8, <3>1, <3>2 DEF Good
  <2>9. CASE u \in Writable
    <3>0. u \in Attr
      BY <2>9, AttrAssumption
    <3>1. i + 1 \in Reached(req)
      BY <2>2, <3>0
    <3> DEFINE v == at.value
               x == [v EXCEPT ![u] = w]
    <3>2. v \in [Attr -> Byte] /\ Tells(at.changes, value, v) /\ Valued(v, req, i)
      BY DEF Good, Valued
    <3> HIDE DEF v
    <3>3. x \in [Attr -> Byte] /\ x[u] = w /\ \A a \in Attr \ {u} : x[a] = v[a]
      BY <2>4, <3>0, <3>2
    <3>4. Tells(Append(at.changes, [uid |-> u, old |-> v[u], new |-> w]), value, x)
      BY <2>4, <3>0, <3>2, OneMoreChange
    <3> HIDE DEF x
    <3>5. Valued(x, req, i + 1)
      <4>1. \A a \in Attr \ {u} : Naming(req, a, i + 1) = Naming(req, a, i)
        BY DEF Naming, Reached, u
      <4>2. i + 1 \in Naming(req, u, i + 1)
        BY <3>1 DEF Naming, u
      <4>3. ASSUME NEW k, Latest(Naming(req, u, i + 1), k) PROVE k = i + 1
        BY <1>0, <4>2, <4>3 DEF Latest, Naming, Reached
      <4>4. ASSUME NEW a \in Attr, a \notin Writable \/ Naming(req, a, i + 1) = {} PROVE x[a] = value[a]
        <5>1. a # u
          BY <2>9, <4>2, <4>4
        <5> QED BY <3>2, <3>3, <4>1, <4>4, <5>1 DEF Valued
      <4>5. ASSUME NEW a \in Writable, NEW k, Latest(Naming(req, a, i + 1), k) PROVE x[a] = req[k].value
        <5>1. CASE a = u
          BY <3>3, <4>3, <4>5, <5>1 DEF w
        <5>2. CASE a # u
          <6>1. a \in Attr
            BY AttrAssumption
          <6> QED BY <3>2, <3>3, <4>1, <4>5, <5>2, <6>1 DEF Valued
        <5> QED BY <5>1, <5>2
      <4> QED BY <3>3, <4>4, <4>5 DEF Valued
    <3>6. o.value = x /\ o.changes = Append(at.changes, [uid |-> u, old |-> v[u], new |-> w])
      BY <2>5, <2>9 DEF v, x
    <3> QED BY <2>5, <2>6, <2>9, <3>1, <3>4, <3>5, <3>6 DEF Good
  <2> QED BY <2>7, <2>8, <2>9
<1> QED BY <1>2, <1>3

\* A write gives every attribute the value that is wanted, and tells of it.
LEMMA Wrote ==
  ASSUME value \in [Attr -> Byte], NEW n \in Nat, NEW req \in [1..n -> [uid : Byte, value : Byte]],
         Len(req) = n
  PROVE  Good(update_attributes(req, FALSE), req, n)
<1> DEFINE nop == FALSE
<1>0. nop \in BOOLEAN /\ ~nop
  OBVIOUS
<1> HIDE DEF nop
<1>1. PICK pass : Rounds(pass, req, n, nop) /\ update_attributes(req, nop) = pass[n]
  BY PassUnfolds
<1> DEFINE T == {i \in 0..n : Good(pass[i], req, i)}
<1>2. 0 \in T
  <2>1. pass[0] = Start
    BY <1>1, RoundAfterRound
  <2>2. DOMAIN Start = Working /\ Start.offset = 0 /\ Start.value = value /\ Start.changes = <<>> /\ GoesOn(Start)
    BY DEF Start, Working, GoesOn
  <2>3. Tells(<<>>, value, value)
    BY DEF Tells, Latest, Changing
  <2>4. Valued(value, req, 0)
    <3>1. \A a : Naming(req, a, 0) = {}
      BY DEF Naming, Reached
    <3> QED BY <3>1 DEF Valued, Latest
  <2> HIDE DEF Start
  <2>5. Good(Start, req, 0)
    BY <2>2, <2>3, <2>4 DEF Good
  <2> QED BY <2>1, <2>5
<1>3. ASSUME NEW i \in 0..n, i \in T, i < n PROVE i + 1 \in T
  <2>1. pass[i + 1] = One(pass[i], Payload(req), nop) /\ i + 1 \in 0..n
    BY <1>1, <1>3, RoundAfterRound
  <2>2. Good(pass[i + 1], req, i + 1)
    BY <1>0, <1>3, <2>1, GoodRound
  <2> QED BY <2>1, <2>2
<1>4. n \in T
  <2> HIDE DEF T
  <2>1. \A i \in 0..n : i \in T /\ i < n => i + 1 \in T
    BY <1>3
  <2>2. \A i \in 0..n : i \in T
    BY <1>2, <2>1, UpTo
  <2> QED BY <2>2
<1> QED BY <1>1, <1>4 DEF nop

\* A request is a list of fields.
LEMMA RequestIs ==
  ASSUME NEW req \in Asked
  PROVE  \E n \in Nat : req \in [1..n -> [uid : Byte, value : Byte]] /\ Len(req) = n
<1>1. PICK n \in 1..MaxCount : req \in [1..n -> [uid : Byte, value : Byte]]
  BY AskedAssumption DEF Requests
<1>2. n \in Nat
  BY CountAssumption
<1> QED BY <1>1, <1>2

\* Some numbers up to n have a last one.
LEMMA HasLatest ==
  ASSUME NEW n \in Nat, NEW S, S \subseteq 1..n, S # {}
  PROVE  \E k : Latest(S, k)
<1> DEFINE T == {n - j : j \in S}
<1>1. T \subseteq Nat /\ T # {}
  <2>1. \A j \in S : j \in 1..n
    OBVIOUS
  <2>2. \A j \in S : n - j \in Nat
    BY <2>1
  <2> QED BY <2>2
<1> HIDE DEF T
<1>2. PICK a \in T : \A b \in T : ~(<<b, a>> \in OpToRel(<, Nat))
  BY <1>1, WFMin, NatLessThanWellFounded
<1>3. \A b \in T : ~(b < a)
  <2> SUFFICES ASSUME NEW b \in T, b < a PROVE FALSE
    OBVIOUS
  <2>1. <<b, a>> \in Nat \X Nat /\ <<b, a>>[1] < <<b, a>>[2]
    BY <1>1
  <2>2. <<b, a>> \in OpToRel(<, Nat)
    BY <2>1, Zenon DEF OpToRel
  <2> QED BY <1>2, <2>2
<1>4. PICK k \in S : a = n - k
  BY DEF T
<1>5. \A j \in S : j <= k
  <2> SUFFICES ASSUME NEW j \in S PROVE j <= k
    OBVIOUS
  <2>1. n - j \in T
    BY DEF T
  <2> QED BY <1>3, <1>4, <2>1
<1> QED BY <1>5 DEF Latest

\* What is wanted is what the last field that names an attribute gives.
LEMMA WantedIs ==
  ASSUME NEW n \in Nat, NEW req \in [1..n -> [uid : Byte, value : Byte]], NEW v, Valued(v, req, n)
  PROVE  v = Wanted(req)
<1> SUFFICES ASSUME NEW a \in Attr PROVE v[a] = Wanted(req)[a]
  BY DEF Valued, Wanted
<1> DEFINE naming == {i \in Reached(req) : req[i].uid = a}
           k == CHOOSE i \in naming : \A j \in naming : j <= i
<1>1. Wanted(req)[a] = IF a \in Writable /\ naming # {} THEN req[k].value ELSE value[a]
  BY DEF Wanted
<1>2. naming = Naming(req, a, n) /\ naming \subseteq 1..n
  BY DEF Naming, Reached
<1> HIDE DEF naming
<1>3. naming # {} => Latest(naming, k)
  <2>1. naming # {} => \E i : Latest(naming, i)
    BY <1>2, HasLatest
  <2> QED BY <2>1 DEF Latest
<1> HIDE DEF k
<1> QED BY <1>1, <1>2, <1>3 DEF Valued

\* Every way to change attributes keeps their type and tells of each change.
Telling(at) == at.value \in [Attr -> Byte] /\ Tells(at.changes, value, at.value)

LEMMA PackTells ==
  ASSUME value \in [Attr -> Byte], NEW req \in Asked
  PROVE  Telling(update_attributes(req, FALSE)) /\ update_attributes(req, FALSE).value = Wanted(req)
<1>1. PICK n \in Nat : req \in [1..n -> [uid : Byte, value : Byte]] /\ Len(req) = n
  BY RequestIs
<1> DEFINE at == update_attributes(req, FALSE)
<1>2. Good(at, req, n)
  BY <1>1, Wrote
<1> HIDE DEF at
<1>3. Telling(at) /\ Valued(at.value, req, n)
  BY <1>2 DEF Good, Valued, Telling
<1>4. at.value = Wanted(req)
  BY <1>1, <1>3, WantedIs
<1> QED BY <1>3, <1>4 DEF at

LEMMA AtomicTells ==
  ASSUME value \in [Attr -> Byte], NEW req \in Asked
  PROVE  LET at == update_attributes_atomic(req)
         IN Telling(at) /\ (at.code # "OK" => at.value = value)
<1> DEFINE trial == update_attributes(req, TRUE)
           real == update_attributes(req, FALSE)
           fine == \A i \in DOMAIN trial.results : trial.results[i].code = "OK"
           done == [real EXCEPT !.code = "OK"]
           refused == [trial EXCEPT !.code = "REFUSED"]
<1>1. PICK n \in Nat : req \in [1..n -> [uid : Byte, value : Byte]] /\ Len(req) = n
  BY RequestIs
<1>2. DOMAIN trial = Working /\ trial.value = value /\ trial.changes = <<>>
  BY <1>1, TrialChangesNothing
<1>3. DOMAIN real = Working /\ Telling(real)
  BY <1>1, Wrote, PackTells DEF Good
<1>4. update_attributes_atomic(req) = IF fine THEN done ELSE refused
  BY DEF update_attributes_atomic
<1> HIDE DEF trial, real, fine
<1>5. done.value = real.value /\ done.changes = real.changes /\ done.code = "OK"
  BY <1>3 DEF Working
<1>6. refused.value = value /\ refused.changes = <<>>
  BY <1>2 DEF Working
<1>7. Telling(done)
  BY <1>3, <1>5 DEF Telling
<1>8. Telling(refused)
  <2>1. Tells(<<>>, value, value)
    BY DEF Tells, Changing, Latest
  <2> QED BY <1>6, <2>1 DEF Telling
<1> HIDE DEF done, refused
<1> QED BY <1>4, <1>5, <1>6, <1>7, <1>8

LEMMA ApplicationTells ==
  ASSUME value \in [Attr -> Byte], NEW u \in Attr, NEW new \in Byte
  PROVE  Telling(Store(Start, u, new))
<1> DEFINE c == [uid |-> u, old |-> value[u], new |-> new]
           v == [value EXCEPT ![u] = new]
           at == Store(Start, u, new)
<1>1. at.value = v /\ at.changes = Append(<<>>, c)
  BY DEF Store, Start
<1>2. Tells(<<>>, value, value)
  BY DEF Tells, Changing, Latest
<1>3. Tells(Append(<<>>, c), value, v)
  BY <1>2, OneMoreChange
<1>4. v \in [Attr -> Byte]
  OBVIOUS
<1> HIDE DEF c, v, at
<1> QED BY <1>1, <1>3, <1>4 DEF Telling, at

\* A value that a condition holds for is one that its change was reported for.
LEMMA HoldsMeets ==
  ASSUME NEW on \in Conditions, NEW change, Holds(on, change.new)
  PROVE  Meets(on, change)
<1>1. on.type \in {"COV", "HT", "LT", "EQ"}
  BY ConditionAssumption
<1> QED BY <1>1 DEF Holds, Meets

\* An entry has seen the value if its condition holds, after changes as before.
Seen(e, v) == Holds(e.on, v[e.attr]) => e.seen = v[e.attr]

LEMMA NotifiedEntry ==
  ASSUME NEW e \in Entry, NEW changes, NEW before, NEW after, Tells(changes, before, after),
         Seen(e, before)
  PROVE  notify(e, changes) \in Entry /\ Seen(notify(e, changes), after)
<1> DEFINE a == e.attr
           all == Changing(changes, a)
           reported == {i \in DOMAIN changes : changes[i].uid = a /\ Meets(e.on, changes[i])}
           k == CHOOSE i \in reported : \A j \in reported : j <= i
           n == Len(changes)
           f == notify(e, changes)
<1>1. f = IF reported = {} THEN e ELSE [e EXCEPT !.seen = changes[k].new]
  BY DEF notify
<1>2. a \in Attr /\ e.on \in Conditions
  BY DEF Entry
<1>3. n \in Nat /\ DOMAIN changes = 1..n /\ \A i \in 1..n : changes[i] \in Change1
  BY DEF Tells
<1>4. reported \subseteq all /\ all \subseteq 1..n
  BY <1>3 DEF Changing
<1>5. \A i \in all : Holds(e.on, changes[i].new) => i \in reported
  BY <1>2, HoldsMeets DEF Changing
<1> HIDE DEF reported, all, n, f
<1>6. reported # {} => Latest(reported, k)
  <2>1. reported # {} => \E i : Latest(reported, i)
    BY <1>3, <1>4, HasLatest
  <2> QED BY <2>1 DEF Latest
<1> HIDE DEF k
<1>7. ASSUME Holds(e.on, after[a])
      PROVE  IF reported = {} THEN after[a] = before[a] ELSE changes[k].new = after[a]
  <2>1. CASE all = {}
    <3>1. reported = {}
      BY <1>4, <2>1
    <3>2. after[a] = before[a]
      BY <1>2, <2>1 DEF Tells, all
    <3> QED BY <3>1, <3>2
  <2>2. CASE all # {}
    <3>1. PICK l : Latest(all, l)
      BY <1>3, <1>4, <2>2, HasLatest
    <3>2. changes[l].new = after[a]
      BY <1>2, <3>1 DEF Tells, all
    <3>3. l \in reported
      BY <1>5, <1>7, <3>1, <3>2 DEF Latest
    <3>4. Latest(reported, k) /\ k <= l /\ l <= k
      BY <1>4, <1>6, <3>1, <3>3 DEF Latest
    <3>5. k \in 1..n /\ l \in 1..n
      BY <1>4, <3>3, <3>4 DEF Latest
    <3>6. k = l
      BY <1>3, <3>4, <3>5
    <3> QED BY <3>2, <3>3, <3>6
  <2> QED BY <2>1, <2>2
<1>8. CASE reported = {}
  <2>1. f = e
    BY <1>1, <1>8
  <2> QED BY <1>7, <1>8, <2>1 DEF Seen, f
<1>9. CASE reported # {}
  <2> DEFINE v == changes[k].new
  <2>1. v \in Byte
    BY <1>3, <1>4, <1>6, <1>9 DEF Latest, Change1
  <2>2. f = [e EXCEPT !.seen = v]
    BY <1>1, <1>9
  <2> HIDE DEF v
  <2>3. f \in Entry /\ f.on = e.on /\ f.attr = e.attr /\ f.seen = v
    BY <2>1, <2>2 DEF Entry
  <2> QED BY <1>7, <1>9, <2>3 DEF Seen, f, v
<1> QED BY <1>8, <1>9

-----------------------------------------------------------------------------
(* What the constants allow, and what entries have seen.                   *)

Valid ==
  /\ value \in [Attr -> Byte] /\ now \in 0..MaxTime
  /\ periodic_rules \subseteq PeriodicRule
  /\ \A r \in event_rules : r \in EventRule /\ \A e \in r.entries : Seen(e, value)

LEMMA PeriodicRules ==
  ASSUME NEW r \in PeriodicRule
  PROVE  /\ \A e \in PeriodicEntry : [r EXCEPT !.entries = @ \union {e}] \in PeriodicRule
         /\ \A interval \in Intervals : Reset(r, interval) \in PeriodicRule
         /\ \A time \in 0..MaxTime : periodic(r, time) \in PeriodicRule
         /\ [r EXCEPT !.jumps = @ + 1] \in PeriodicRule
<1>1. \A time \in 0..MaxTime : [r EXCEPT !.last_time = time] \in PeriodicRule
  BY DEF PeriodicRule
<1>2. \A interval \in Intervals : [r EXCEPT !.interval = interval] \in PeriodicRule
  BY DEF PeriodicRule
<1>3. \A e \in PeriodicEntry : [r EXCEPT !.entries = @ \union {e}] \in PeriodicRule
  <2>1. \A es \in SUBSET PeriodicEntry : [r EXCEPT !.entries = es] \in PeriodicRule
    BY DEF PeriodicRule
  <2>2. \A e \in PeriodicEntry : r.entries \union {e} \in SUBSET PeriodicEntry
    BY DEF PeriodicRule
  <2> QED BY <2>1, <2>2
<1>4. \A x \in PeriodicRule : x.silent \in Nat /\ x.jumps \in Nat
  BY DEF PeriodicRule
<1>5. \A x \in PeriodicRule, n \in Nat :
        [x EXCEPT !.silent = n] \in PeriodicRule /\ [x EXCEPT !.jumps = n] \in PeriodicRule
  BY DEF PeriodicRule
<1>6. \A interval \in Intervals : Reset(r, interval) \in PeriodicRule
  <2> SUFFICES ASSUME NEW interval \in Intervals PROVE Reset(r, interval) \in PeriodicRule
    OBVIOUS
  <2> DEFINE set == [r EXCEPT !.interval = interval]
             heard == [set EXCEPT !.silent = 0]
  <2>1. heard \in PeriodicRule
    BY <1>2, <1>5
  <2>2. Reset(r, interval) = [heard EXCEPT !.jumps = 1]
    BY DEF Reset
  <2> HIDE DEF heard
  <2> QED BY <1>5, <2>1, <2>2
<1>7. \A time \in 0..MaxTime : periodic(r, time) \in PeriodicRule
  <2> SUFFICES ASSUME NEW time \in 0..MaxTime PROVE periodic(r, time) \in PeriodicRule
    OBVIOUS
  <2>1. CASE Due(r, time)
    <3> DEFINE fired == [r EXCEPT !.last_time = time]
    <3>1. fired \in PeriodicRule
      BY <1>1
    <3>2. periodic(r, time) = [fired EXCEPT !.silent = 0]
      BY <2>1 DEF periodic
    <3> HIDE DEF fired
    <3> QED BY <1>5, <3>1, <3>2
  <2>2. CASE ~Due(r, time)
    <3>1. periodic(r, time) = [r EXCEPT !.silent = r.silent + 1]
      BY <2>2 DEF periodic
    <3>2. r.silent + 1 \in Nat
      BY <1>4
    <3> QED BY <1>5, <3>1, <3>2
  <2> QED BY <2>1, <2>2
<1>8. [r EXCEPT !.jumps = @ + 1] \in PeriodicRule
  <2>1. r.jumps + 1 \in Nat
    BY <1>4
  <2> QED BY <1>5, <2>1
<1> QED BY <1>3, <1>6, <1>7, <1>8

LEMMA RuleWith ==
  ASSUME NEW r \in EventRule, NEW es \in SUBSET Entry
  PROVE  LET x == [r EXCEPT !.entries = es] IN x \in EventRule /\ x.entries = es
BY DEF EventRule

LEMMA ValidInit == Init => Valid
BY ClockAssumption DEF Init, Valid

LEMMA ValidRequest ==
  ASSUME Valid, Typed, NEW d \in Devices, Request(d)
  PROVE  Valid'
<1> USE DEF Valid
<1>1. ASSUME NEW to \in Devices, NEW interval \in Intervals, NEW told \in BOOLEAN,
             CreatePeriodic(d, to, interval, told)
      PROVE  Valid'
  <2>1. PICK i \in find_available_id(periodic_rules) :
          periodic_rules' = periodic_rules \union
            {[id |-> i, destination |-> to, interval |-> interval, last_time |-> 0,
              entries |-> {}, silent |-> 0, jumps |-> 0]}
    BY <1>1 DEF CreatePeriodic
  <2>2. i \in Ids
    BY FreshId
  <2>3. periodic_rules' \subseteq PeriodicRule
    BY <2>1, <2>2, ClockAssumption DEF PeriodicRule
  <2> QED BY <1>1, <2>3 DEF CreatePeriodic
<1>2. ASSUME NEW to \in Devices, NEW told \in BOOLEAN, CreateEvent(d, to, told) PROVE Valid'
  <2>1. PICK i \in find_available_id(event_rules) :
          event_rules' = event_rules \union {[id |-> i, destination |-> to, entries |-> {}]}
    BY <1>2 DEF CreateEvent
  <2>2. i \in Ids
    BY FreshId
  <2> DEFINE new == [id |-> i, destination |-> to, entries |-> {}]
  <2>3. new \in EventRule /\ new.entries = {}
    BY <2>2 DEF EventRule
  <2> HIDE DEF new
  <2>4. \A r \in event_rules' : r \in event_rules \/ r = new
    BY <2>1 DEF new
  <2> QED BY <1>2, <2>3, <2>4 DEF CreateEvent
<1>3. ASSUME NEW ref \in References, Delete(d, ref) PROVE Valid'
  BY <1>3 DEF Delete, Without
<1>4. ASSUME NEW type \in Types, DeleteAll(d, type) PROVE Valid'
  BY <1>4 DEF DeleteAll
<1>5. ASSUME NEW ref \in References, NEW to \in Devices, AddPeriodicEntry(d, ref, to) PROVE Valid'
  <2>1. [by |-> d, to |-> to] \in PeriodicEntry
    BY DEF PeriodicEntry
  <2> QED
    BY <1>5, <2>1, PeriodicRules DEF AddPeriodicEntry
<1>6. ASSUME NEW ref \in References, NEW to \in Devices, NEW attr \in Attr,
             NEW on \in Conditions, AddEventEntry(d, ref, to, attr, on)
      PROVE  Valid'
  <2> DEFINE e == [by |-> d, to |-> to, attr |-> attr, on |-> on, seen |-> value[attr]]
  <2>1. e \in Entry /\ Seen(e, value)
    BY DEF Entry, Seen
  <2>2. event_rules' = {IF r.id = ref.id THEN [r EXCEPT !.entries = @ \union {e}] ELSE r
                        : r \in event_rules}
        /\ UNCHANGED <<value, now, periodic_rules>>
    BY <1>6 DEF AddEventEntry
  <2> HIDE DEF e
  <2>3. ASSUME NEW r \in event_rules
        PROVE  LET x == [r EXCEPT !.entries = @ \union {e}]
               IN x \in EventRule /\ x.entries = r.entries \union {e}
    <3>1. r.entries \union {e} \in SUBSET Entry
      BY <2>1 DEF EventRule
    <3> QED
      BY <3>1, RuleWith
  <2>4. ASSUME NEW x \in event_rules' PROVE x \in EventRule /\ \A f \in x.entries : Seen(f, value)
    <3>1. PICK r \in event_rules :
            x = IF r.id = ref.id THEN [r EXCEPT !.entries = @ \union {e}] ELSE r
      BY <2>2
    <3>2. r \in EventRule /\ \A f \in r.entries : Seen(f, value)
      OBVIOUS
    <3>3. CASE r.id = ref.id
      <4>1. x \in EventRule /\ x.entries = r.entries \union {e}
        BY <3>1, <3>3, <2>3
      <4> QED
        BY <4>1, <3>2, <2>1
    <3> QED
      BY <3>1, <3>2, <3>3
  <2> QED BY <2>2, <2>4
<1>7. ASSUME NEW ref \in References, NEW interval \in Intervals, UpdateInterval(d, ref, interval)
      PROVE  Valid'
  BY <1>7, PeriodicRules DEF UpdateInterval
<1> HIDE DEF Valid
<1> QED
  BY <1>1, <1>2, <1>3, <1>4, <1>5, <1>6, <1>7 DEF Request

LEMMA ValidChange ==
  ASSUME Valid, NEW at, Telling(at), Change(at)
  PROVE  Valid'
<1>1. value' = at.value /\ UNCHANGED <<now, periodic_rules>>
  BY DEF Change
<1> DEFINE new(r) == {notify(e, at.changes) : e \in r.entries}
<1>2. ASSUME NEW x \in event_rules'
      PROVE  x \in EventRule /\ \A f \in x.entries : Seen(f, at.value)
  <2>1. PICK r \in event_rules : x = [r EXCEPT !.entries = new(r)]
    BY DEF Change
  <2>2. r \in EventRule /\ \A e \in r.entries : e \in Entry /\ Seen(e, value)
    BY DEF Valid, EventRule
  <2>3. \A e \in r.entries : notify(e, at.changes) \in Entry /\ Seen(notify(e, at.changes), at.value)
    BY <2>2, NotifiedEntry DEF Telling
  <2>4. \A f \in new(r) : f \in Entry /\ Seen(f, at.value)
    BY <2>3
  <2> HIDE DEF new
  <2>5. x \in EventRule /\ x.entries = new(r)
    BY <2>1, <2>2, <2>4, RuleWith
  <2> QED BY <2>4, <2>5
<1> QED BY <1>1, <1>2 DEF Valid, Telling

LEMMA ValidStep == Valid /\ Typed /\ [Next]_vars => Valid'
<1> SUFFICES ASSUME Valid, Typed, [Next]_vars PROVE Valid'
  OBVIOUS
<1>1. CASE \E d \in Devices : Request(d)
  BY <1>1, ValidRequest
<1>2. ASSUME NEW interval \in Intervals, UpdateAllIntervals(interval) PROVE Valid'
  BY <1>2, PeriodicRules DEF UpdateAllIntervals, Valid
<1>3. CASE Tick
  <2>1. now' \in 0..MaxTime
    BY <1>3, ClockAssumption DEF Tick, Valid
  <2> QED BY <1>3, <2>1, PeriodicRules DEF Tick, Valid
<1>4. ASSUME NEW t \in 0..MaxTime, SetClock(t) PROVE Valid'
  BY <1>4, PeriodicRules DEF SetClock, Valid
<1>5. value \in [Attr -> Byte]
  BY DEF Valid
<1>6. ASSUME NEW req \in Asked, SetPack(req) \/ SetPackAtomically(req) PROVE Valid'
  <2>1. CASE SetPack(req)
    BY <1>5, <2>1, PackTells, ValidChange DEF SetPack
  <2>2. CASE SetPackAtomically(req)
    BY <1>5, <2>2, AtomicTells, ValidChange DEF SetPackAtomically
  <2> QED BY <1>6, <2>1, <2>2
<1>7. ASSUME NEW u \in Attr, NEW new \in Byte, ApplicationSets(u, new) PROVE Valid'
  BY <1>5, <1>7, ApplicationTells, ValidChange DEF ApplicationSets
<1>8. CASE UNCHANGED vars
  BY <1>8 DEF vars, Valid
<1> QED BY <1>1, <1>2, <1>3, <1>4, <1>6, <1>7, <1>8 DEF Next

\* Valid holds in every state.
LEMMA AlwaysValid == Spec => [](Valid /\ Typed)
<1>1. Init => Valid /\ Typed
  BY ValidInit, TypedInit
<1>2. Valid /\ Typed /\ [Next]_vars => (Valid /\ Typed)'
  BY ValidStep, TypedStep
<1> QED BY <1>1, <1>2, PTL DEF Spec

\* Rules, entries and references are well formed: what is stored and reported
\* of an attribute is a byte that was received for it.
THEOREM RulesTyped == Spec => []TypeOK
<1>1. Valid /\ Typed => TypeOK
  BY DEF Valid, Typed, KnownTyped, TypeOK
<1> QED BY <1>1, AlwaysValid, PTL

\* No change of an attribute escapes a device that is to be told of it, also
\* when one request changes the attribute several times.
THEOREM SubscribersKnow == Spec => []SubscribersCurrent
<1>1. Valid => SubscribersCurrent
  BY DEF Valid, Seen, SubscribersCurrent
<1> QED BY <1>1, AlwaysValid, PTL

\* A pack of attributes of any length and order stores the last value given to
\* each attribute, and the UIDs that are read are those of its fields.
THEOREM WritesStoreWhatIsAsked == Spec => []WritesAsAsked
<1>1. Valid => WritesAsAsked
  BY PackTells DEF Valid, WritesAsAsked
<1> QED BY <1>1, AlwaysValid, PTL

\* Whatever a refused atomic write takes for UIDs in its trial, it changes nothing.
THEOREM RefusalsChangeNothing == Spec => []RefusedChangesNothing
<1>1. Valid => RefusedChangesNothing
  BY AtomicTells DEF Valid, RefusedChangesNothing
<1> QED BY <1>1, AlwaysValid, PTL
=============================================================================
