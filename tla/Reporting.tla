------------------------------ MODULE Reporting ------------------------------
(***************************************************************************)
(* Attribute reporting (AttributeReporting::Server) of a device: other     *)
(* devices make rules, add entries to them by the reference their answer   *)
(* gave, and get reports when time passes or an attribute changes.         *)
(*                                                                         *)
(* Several devices use the one server.  It keeps no owner: a command names *)
(* a rule by its id only, ids are used again, and a device may delete all  *)
(* the rules at once.  Answers may be lost; reports of a rule are sent to  *)
(* the device that the one that made it has named, itself or another.      *)
(***************************************************************************)
EXTENDS Attributes, Integers, FiniteSets

CONSTANTS
  Devices,    \* the devices that ask for reports
  Intervals,  \* intervals of periodic rules; 0 divides by zero in periodic
  Conditions, \* [type, level] of event entries
  Asked,      \* bound: the requests to write that are sent
  LastId,     \* the last id of a rule (0x7E in the code)
  MaxRules,   \* bound: rules of both types
  MaxEntries, \* bound: entries of event rules
  MaxTime,    \* bound: the clock
  MaxJumps    \* bound: times the clock is set under a rule

ASSUME IntervalAssumption == Intervals \subseteq Nat \ {0}
ASSUME ConditionAssumption == Conditions \subseteq [type : {"COV", "HT", "LT", "EQ"}, level : Byte]
ASSUME AskedAssumption == Asked \subseteq Requests
ASSUME BoundsAssumption == LastId \in Nat /\ MaxRules \in Nat /\ MaxEntries \in Nat
ASSUME ClockAssumption == MaxTime \in Nat /\ MaxJumps \in Nat

VARIABLES
  now,             \* the clock of the device, as given to periodic
  periodic_rules,
  event_rules,
  known,           \* device -> <<reference, destination>> of the rules it was told
                   \* of and has not deleted
  revoked          \* history: <<device, reference>> whose rule another has deleted

rules == <<periodic_rules, event_rules>>
vars == <<value, now, periodic_rules, event_rules, known, revoked>>

Types == {"PERIODIC", "EVENT"}
Ids == 1..LastId
Ref(type, id) == [type |-> type, id |-> id]
References == {Ref(t, i) : t \in Types, i \in Ids}

\* Two entries that are equal now are treated alike for ever, so that a set
\* stands for the list of the entries.  An entry's history: by, the device that
\* added it, and to, the one it was told the reports go to.
PeriodicEntry == [by : Devices, to : Devices]

\* silent and jumps are history: ticks since the last report, and how often
\* the clock was set, a new interval counting as once.
PeriodicRule ==
  [id : Ids, destination : Devices, interval : Intervals, last_time : 0..MaxTime,
   entries : SUBSET PeriodicEntry, silent : Nat, jumps : Nat]

\* An entry watches one attribute.  History: seen, the value last reported for
\* it, at first the one it was added at.
Entry == [by : Devices, to : Devices, attr : Attr, on : Conditions, seen : Byte]
EventRule == [id : Ids, destination : Devices, entries : SUBSET Entry]

Init ==
  /\ value \in [Attr -> Byte] /\ \A a, b \in Attr : value[a] = value[b]
  /\ now = 0
  /\ periodic_rules = {} /\ event_rules = {}
  /\ known = [d \in Devices |-> {}]
  /\ revoked = {}

-----------------------------------------------------------------------------
(* Making and deleting rules.  Each command is handled and answered in one *)
(* step; told says whether the answer arrives.                             *)

Used(list) == {r.id : r \in list}

\* Mutant: ids are counted instead of searched for.
counted_id(list) == {Cardinality(list) + 1} \cap Ids

\* The lowest free id; no id when all are used.
find_available_id(list) ==
  {i \in Ids \ Used(list) : \A j \in Ids \ Used(list) : i <= j}

\* An answer takes the place of one that named the same reference.
Learn(d, ref, to, told) ==
  IF told
  THEN /\ known' = [known EXCEPT ![d] = {p \in @ : p[1] # ref} \union {<<ref, to>>}]
       /\ revoked' = revoked \ {<<d, ref>>}
  ELSE UNCHANGED <<known, revoked>>

Knows(d, ref) == \E to \in Devices : <<ref, to>> \in known[d]

\* d deletes the rules its references in refs name; the others are not told.
Forget(d, refs) ==
  /\ known' = [known EXCEPT ![d] = {p \in @ : p[1] \notin refs}]
  /\ revoked' = (revoked \ {<<d, ref>> : ref \in refs}) \union
                {p \in (Devices \ {d}) \X refs : Knows(p[1], p[2])}

Room == Cardinality(periodic_rules) + Cardinality(event_rules) < MaxRules

\* The destination is what the message says, whoever sends it.
CreatePeriodic(d, to, interval, told) ==
  /\ Room
  /\ \E i \in find_available_id(periodic_rules) :
       /\ periodic_rules' = periodic_rules \union
            {[id |-> i, destination |-> to, interval |-> interval, last_time |-> 0,
              entries |-> {}, silent |-> 0, jumps |-> 0]}
       /\ Learn(d, Ref("PERIODIC", i), to, told)
  /\ UNCHANGED <<value, now, event_rules>>

CreateEvent(d, to, told) ==
  /\ Room
  /\ \E i \in find_available_id(event_rules) :
       /\ event_rules' = event_rules \union {[id |-> i, destination |-> to, entries |-> {}]}
       /\ Learn(d, Ref("EVENT", i), to, told)
  /\ UNCHANGED <<value, now, periodic_rules>>

\* Mutant: a rule is looked for by its id alone, whatever its type.
Others(list, ref, type) == {r \in list : r.id # ref.id}

\* The rules of a type without those a reference names.
Without(list, ref, type) == {r \in list : ~(ref.type = type /\ r.id = ref.id)}

Delete(d, ref) ==
  /\ Knows(d, ref)
  /\ periodic_rules' = Without(periodic_rules, ref, "PERIODIC")
  /\ event_rules' = Without(event_rules, ref, "EVENT")
  /\ Forget(d, {ref})
  /\ UNCHANGED <<value, now>>

\* All rules of a type, whoever made them.
DeleteAll(d, type) ==
  /\ IF type = "PERIODIC" THEN periodic_rules' = {} /\ UNCHANGED event_rules
                          ELSE event_rules' = {} /\ UNCHANGED periodic_rules
  /\ Forget(d, {ref \in References : ref.type = type})
  /\ UNCHANGED <<value, now>>

-----------------------------------------------------------------------------
(* Entries and intervals, by the references a device has.                  *)

AddPeriodicEntry(d, ref, to) ==
  /\ <<ref, to>> \in known[d] /\ ref.type = "PERIODIC"
  /\ periodic_rules' = {IF r.id = ref.id THEN [r EXCEPT !.entries = @ \union {[by |-> d, to |-> to]}]
                                         ELSE r
                        : r \in periodic_rules}
  /\ UNCHANGED <<value, now, event_rules, known, revoked>>

EventEntries == UNION {{<<r.id, e>> : e \in r.entries} : r \in event_rules}

AddEventEntry(d, ref, to, attr, on) ==
  /\ <<ref, to>> \in known[d] /\ ref.type = "EVENT"
  /\ Cardinality(EventEntries) < MaxEntries
  /\ LET new == [by |-> d, to |-> to, attr |-> attr, on |-> on, seen |-> value[attr]]
     IN event_rules' = {IF r.id = ref.id THEN [r EXCEPT !.entries = @ \union {new}] ELSE r
                        : r \in event_rules}
  /\ UNCHANGED <<value, now, periodic_rules, known, revoked>>

Reset(r, interval) == [r EXCEPT !.interval = interval, !.silent = 0, !.jumps = 1]

UpdateInterval(d, ref, interval) ==
  /\ Knows(d, ref) /\ ref.type = "PERIODIC"
  /\ periodic_rules' = {IF r.id = ref.id THEN Reset(r, interval) ELSE r : r \in periodic_rules}
  /\ UNCHANGED <<value, now, event_rules, known, revoked>>

UpdateAllIntervals(interval) ==
  /\ periodic_rules' = {Reset(r, interval) : r \in periodic_rules}
  /\ UNCHANGED <<value, now, event_rules, known, revoked>>

-----------------------------------------------------------------------------
(* Periodic reports.                                                       *)

Distance(s, t) == IF s <= t THEN t - s ELSE s - t

\* Mutant: the time since the last report without its absolute value.
DueForward(r, time) == time \div r.interval # 0 /\ time - r.last_time >= r.interval

\* The clock may have been set back since the last report.
Due(r, time) == time \div r.interval # 0 /\ Distance(time, r.last_time) >= r.interval

\* Mutant: the reports keep to multiples of the interval.
periodic_in_phase(r, time) ==
  IF Due(r, time) THEN [r EXCEPT !.last_time = @ + r.interval, !.silent = 0]
                  ELSE [r EXCEPT !.silent = @ + 1]

periodic(r, time) ==
  IF Due(r, time) THEN [r EXCEPT !.last_time = time, !.silent = 0] ELSE [r EXCEPT !.silent = @ + 1]

Tick ==
  /\ now < MaxTime
  /\ now' = now + 1
  /\ periodic_rules' = {periodic(r, now') : r \in periodic_rules}
  /\ UNCHANGED <<value, event_rules, known, revoked>>

\* The application's clock is set, from the time attribute for instance.
SetClock(t) ==
  /\ t # now
  /\ \A r \in periodic_rules : r.jumps < MaxJumps
  /\ now' = t
  /\ periodic_rules' = {[r EXCEPT !.jumps = @ + 1] : r \in periodic_rules}
  /\ UNCHANGED <<value, event_rules, known, revoked>>

-----------------------------------------------------------------------------
(* Changes of attributes and the reports of event rules.                   *)

\* Mutant: the old value is held against the condition.
MeetsBefore(on, change) ==
  CASE on.type = "COV" -> on.level = 0 \/ on.level * change.old < 255 * (change.new - change.old)
    [] on.type = "HT"  -> change.old > on.level
    [] on.type = "LT"  -> change.old < on.level
    [] on.type = "EQ"  -> change.old = on.level

\* process_field: COV 0 is any change, another level a rise by that share.
Meets(on, change) ==
  CASE on.type = "COV" -> on.level = 0 \/ on.level * change.old < 255 * (change.new - change.old)
    [] on.type = "HT"  -> change.new > on.level
    [] on.type = "LT"  -> change.new < on.level
    [] on.type = "EQ"  -> change.new = on.level

\* Every change is reported as it happens; the last report is what counts.
notify(entry, changes) ==
  LET reported == {i \in DOMAIN changes : changes[i].uid = entry.attr /\ Meets(entry.on, changes[i])}
  IN IF reported = {} THEN entry
     ELSE [entry EXCEPT !.seen = changes[CHOOSE i \in reported : \A j \in reported : j <= i].new]

Change(at) ==
  /\ value' = at.value
  /\ event_rules' = {[r EXCEPT !.entries = {notify(e, at.changes) : e \in @}] : r \in event_rules}
  /\ UNCHANGED <<now, periodic_rules, known, revoked>>

SetPack(req) == Change(update_attributes(req, FALSE))
SetPackAtomically(req) == Change(update_attributes_atomic(req))

\* The application sets an attribute of its own, a read-only one as well.
ApplicationSets(uid, new) == Change(Store(Start, uid, new))

-----------------------------------------------------------------------------

\* What devices ask of the server.
Request(d) ==
  \/ \E to \in Devices, interval \in Intervals, told \in BOOLEAN :
       CreatePeriodic(d, to, interval, told)
  \/ \E to \in Devices, told \in BOOLEAN : CreateEvent(d, to, told)
  \/ \E ref \in References : Delete(d, ref)
  \/ \E type \in Types : DeleteAll(d, type)
  \/ \E ref \in References, to \in Devices : AddPeriodicEntry(d, ref, to)
  \/ \E ref \in References, to \in Devices, attr \in Attr, on \in Conditions :
       AddEventEntry(d, ref, to, attr, on)
  \/ \E ref \in References, interval \in Intervals : UpdateInterval(d, ref, interval)

Next ==
  \/ \E d \in Devices : Request(d)
  \/ \E interval \in Intervals : UpdateAllIntervals(interval)
  \/ Tick
  \/ \E t \in 0..MaxTime : SetClock(t)
  \/ \E req \in Asked : SetPack(req) \/ SetPackAtomically(req)
  \/ \E uid \in Attr, new \in Byte : ApplicationSets(uid, new)

Spec == Init /\ [][Next]_vars

-----------------------------------------------------------------------------
(* Properties.                                                             *)

\* Rules, entries and references are well formed.
TypeOK ==
  /\ value \in [Attr -> Byte] /\ now \in 0..MaxTime
  /\ periodic_rules \subseteq PeriodicRule /\ event_rules \subseteq EventRule
  /\ known \in [Devices -> SUBSET (References \X Devices)]
  /\ revoked \subseteq Devices \X References

\* No two rules of a type have the same id, however often rules were deleted
\* and ids used again: a reference names one rule (find_available_id).
RuleIdsUnique ==
  /\ \A r, s \in periodic_rules : r.id = s.id => r = s
  /\ \A r, s \in event_rules : r.id = s.id => r = s

\* The reports an entry asks for go to the device that they were to go to when
\* the one that added it was told of the rule, unless another device had
\* deleted that rule: only then can the reference name one made since.
EntriesOwned ==
  /\ \A r \in periodic_rules : \A e \in r.entries :
       e.to = r.destination \/ <<e.by, Ref("PERIODIC", r.id)>> \in revoked
  /\ \A r \in event_rules : \A e \in r.entries :
       e.to = r.destination \/ <<e.by, Ref("EVENT", r.id)>> \in revoked

\* A periodic rule stays silent for less than its interval, and for at most
\* three intervals more each time the clock was set forward or back.
ReportsInTime == \A r \in periodic_rules : r.silent < r.interval * (1 + 3 * r.jumps)

\* Does the value of an attribute meet a condition that compares with a level?
Holds(on, v) ==
  CASE on.type = "COV" -> on.level = 0
    [] on.type = "HT"  -> v > on.level
    [] on.type = "LT"  -> v < on.level
    [] on.type = "EQ"  -> v = on.level

\* A device that asked for every change has been told the present value, and
\* one that asked for values above, below or at a level has whenever the value
\* is there, also when one request changed the attribute several times.
SubscribersCurrent ==
  \A r \in event_rules : \A e \in r.entries : Holds(e.on, value[e.attr]) => e.seen = value[e.attr]

\* Writing a pack stores the last value given to each writable attribute that
\* is named before one that does not exist, and nothing else.
WritesAsAsked == \A req \in Asked : update_attributes(req, FALSE).value = Wanted(req)

\* An atomic write that is refused has changed nothing.
RefusedChangesNothing ==
  \A req \in Asked : update_attributes_atomic(req).code # "OK" => update_attributes_atomic(req).value = value

\* An atomic write stores all it was asked to or nothing: "Update the given
\* interface attributes with the values present in the payload, if all values
\* can be set" (src/interfaces.cpp:143).  The code may store a part of it.
AtomicAllOrNothing ==
  [][\A req \in Asked :
       SetPackAtomically(req) =>
         \/ value' = value
         \/ /\ \A i \in DOMAIN req : req[i].uid \in Writable
            /\ value' = Wanted(req)]_vars
=============================================================================
