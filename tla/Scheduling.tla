------------------------------ MODULE Scheduling ------------------------------
(***************************************************************************)
(* The event and the weekly scheduler of a device, the batch programs they *)
(* invoke, the clock they go by, and a unit with a lamp (on-off) and one   *)
(* with a level that the programs act on.                                  *)
(*                                                                         *)
(* Both schedulers are one implementation with two kinds of time.  Periods *)
(* of the calendar are constants, so that a week can be short; timestamps  *)
(* and the results of the arithmetic on them wrap at Modulus.              *)
(***************************************************************************)
EXTENDS Integers, Sequences, FiniteSets

CONSTANTS
  Modulus,      \* timestamps are taken modulo this, 2^32
  MINUTE, HOUR, DAY, DAYS, DAY_OF_WEEK_BASE,  \* the calendar
  Clocks,       \* what the time attribute may be set to
  Garbage,      \* what memory that is not initialised may hold
  MaxId,        \* the last id of an entry, and of a program
  Maximum,      \* maximum_number_of_entries of each server
  EventRequests, WeeklyRequests, ProgramRequests,  \* what is asked for
  MaxLevel,     \* the highest level, 255
  MaxRuns       \* bound: runs of an entry that are counted

ASSUME CalendarAssumption ==
  /\ {Modulus, MINUTE, HOUR, DAY, DAYS} \subseteq Nat \ {0}
  /\ DAY_OF_WEEK_BASE \in Nat
  /\ DAY % HOUR = 0 /\ HOUR % MINUTE = 0
  /\ {DAYS + DAY_OF_WEEK_BASE, DAY \div HOUR, HOUR \div MINUTE} \subseteq 0..256  \* fields are bytes
ASSUME ClockAssumption == Clocks \cup Garbage \subseteq 0..(Modulus - 1)
ASSUME BoundAssumption == {MaxId, Maximum, MaxLevel, MaxRuns} \subseteq Nat

WEEK == DAYS * DAY
Services == {"EVENT", "WEEKLY"}

AVAILABLE_ID == MaxId + 1   \* asks the server for an id
Ids == 0..MaxId

(* The units: what a program does is done by their interfaces. *)
Units == [lamp : BOOLEAN, level : 0..MaxLevel]

\* An action of a program: unit "NONE" is one that the device does not have.
Action == [unit : {"LAMP", "LEVEL", "NONE"},
           type : {"COMMAND_REQ", "SET_ATTR_REQ", "GET_ATTR_REQ"},
           cmd : {"ON", "OFF", "TOGGLE", "SET", "INCREASE", "DECREASE", "OTHER"},
           level : 0..MaxLevel]

Interval == [start : 0..(Modulus - 1), end : 0..(Modulus - 1), repeat : 0..(Modulus - 1)]
Day      == [day : Nat, hour : Nat, minute : Nat]

ASSUME RequestAssumption ==
  /\ EventRequests \subseteq [id : Ids \cup {AVAILABLE_ID}, status : BOOLEAN, time : Interval, pid : Ids]
  /\ WeeklyRequests \subseteq [id : Ids \cup {AVAILABLE_ID}, status : BOOLEAN, time : Day, pid : Ids]
  /\ \A req \in ProgramRequests :
       /\ req.pid \in Ids \cup {AVAILABLE_ID}
       /\ req.actions \in Seq(Action)

VARIABLES
  time,      \* the time attribute of unit 0
  enabled,   \* status of each scheduler
  entries,   \* entries of each scheduler, the last one defined first
  programs,  \* the batch programs
  units,     \* the lamp and the level
  latest     \* history: the latest time so far

vars == <<time, enabled, entries, programs, units, latest>>

(* Besides what the code keeps, an entry has a history: the time its first *)
(* run was looked for from, whether next_run was set then and to what, and *)
(* if it was, the number of runs.                                          *)

Init ==
  /\ time = 0 /\ latest = 0
  /\ enabled = [s \in Services |-> TRUE]
  /\ entries = [s \in Services |-> <<>>]
  /\ programs = {}
  /\ units = [lamp |-> FALSE, level |-> 0]

-----------------------------------------------------------------------------
(* Units: the state after a command, and whether it was supported.         *)

on_off(cmd, us) ==
  CASE cmd = "ON"     -> [ok |-> TRUE, units |-> [us EXCEPT !.lamp = TRUE]]
    [] cmd = "OFF"    -> [ok |-> TRUE, units |-> [us EXCEPT !.lamp = FALSE]]
    [] cmd = "TOGGLE" -> [ok |-> TRUE, units |-> [us EXCEPT !.lamp = ~ @]]
    [] OTHER          -> [ok |-> FALSE, units |-> us]

\* Mutant: only the lower end is looked at.
check_below(level) == IF level < 0 THEN 0 ELSE level

\* Levels are computed in 16 bits and brought back into their range.
check_and_fix(level) == IF level < 0 THEN 0 ELSE IF level > MaxLevel THEN MaxLevel ELSE level

level_control(cmd, n, us) ==
  CASE cmd = "SET"      -> [ok |-> TRUE, units |-> [us EXCEPT !.level = n]]
    [] cmd = "INCREASE" -> [ok |-> TRUE, units |-> [us EXCEPT !.level = check_and_fix(@ + n)]]
    [] cmd = "DECREASE" -> [ok |-> TRUE, units |-> [us EXCEPT !.level = check_and_fix(@ - n)]]
    [] OTHER            -> [ok |-> FALSE, units |-> us]

\* Of the attributes, a message can write the level; the lamp's is read-only.
handle(action, us) ==
  CASE action.unit = "LAMP" /\ action.type = "COMMAND_REQ"   -> on_off(action.cmd, us)
    [] action.unit = "LEVEL" /\ action.type = "COMMAND_REQ"  -> level_control(action.cmd, action.level, us)
    [] action.unit = "LEVEL" /\ action.type = "SET_ATTR_REQ" -> level_control("SET", action.level, us)
    [] OTHER -> [ok |-> FALSE, units |-> us]

-----------------------------------------------------------------------------
(* Batch programs.                                                         *)

program(pid) == {p \in programs : p.pid = pid}

\* The smallest id that is not in use, if there is one.
next_id(used) == LET free == Ids \ used IN {i \in free : \A j \in free : i <= j}

\* The id a definition gets: the one it asks for unless that is taken, or one
\* of the server's choice.  None: the definition is refused.
accepted(id, used) == IF id = AVAILABLE_ID THEN next_id(used) ELSE {id} \ used

\* Insertion in a map: a program that is there already stays as it is.
insert(p) == programs' = IF program(p.pid) = {} THEN programs \cup {p} ELSE programs

DefineProgram(req) ==
  /\ Cardinality(programs) # Maximum
  /\ \A p \in programs : p.name # req.name
  /\ \A i \in DOMAIN req.actions :
       req.actions[i].unit # "NONE" /\ req.actions[i].type \in {"COMMAND_REQ", "SET_ATTR_REQ"}
  /\ \E pid \in accepted(req.pid, {p.pid : p \in programs}) :
       insert([pid |-> pid, name |-> req.name, actions |-> req.actions])
  /\ UNCHANGED <<time, enabled, entries, units, latest>>

\* The actions of a program, up to the first one that fails.
perform(actions, us) ==
  LET after[i \in 0..Len(actions)] ==
        IF i = 0 THEN [ok |-> TRUE, units |-> us]
        ELSE IF after[i - 1].ok THEN handle(actions[i], after[i - 1].units) ELSE after[i - 1]
  IN after[Len(actions)].units

\* A program that does not exist is not missed.
invoke_program(pid, us) ==
  IF program(pid) = {} THEN us ELSE perform((CHOOSE p \in program(pid) : TRUE).actions, us)

InvokeProgram(pid) ==
  /\ units' = invoke_program(pid, units)
  /\ UNCHANGED <<time, enabled, entries, programs, latest>>

DeleteProgram(pid) ==
  /\ program(pid) # {}
  /\ programs' = programs \ program(pid)
  /\ UNCHANGED <<time, enabled, entries, units, latest>>

DeleteAllPrograms ==
  /\ programs' = {}
  /\ UNCHANGED <<time, enabled, entries, units, latest>>

-----------------------------------------------------------------------------
(* The calendar of weekly entries.  Timestamps are converted as signed     *)
(* integers, whose division rounds towards zero; fields are bytes.         *)

Signed(t) == IF t >= Modulus \div 2 THEN t - Modulus ELSE t
Quot(a, b) == IF a < 0 THEN -((-a) \div b) ELSE a \div b
Rem(a, b) == a - b * Quot(a, b)
ToByte(n) == n % 256

convert(timestamp) ==
  LET days    == Quot(Signed(timestamp), DAY)
      seconds == Rem(Signed(timestamp), DAY)
  IN [day    |-> ToByte(Rem(days, DAYS) + DAY_OF_WEEK_BASE) % DAYS,
      hour   |-> ToByte(Quot(seconds, HOUR)),
      minute |-> ToByte(Quot(Rem(seconds, HOUR), MINUTE))]

\* Mutant: a time of this week that has passed is taken for the first one.
first_this_week(d, timestamp) ==
  LET current == convert(timestamp)
  IN (timestamp + (d.hour - current.hour) * HOUR + (d.minute - current.minute) * MINUTE
                + (d.day - current.day) * DAY) % Modulus

first(d, timestamp) ==
  LET current == convert(timestamp)
      result  == (timestamp + (d.hour - current.hour) * HOUR + (d.minute - current.minute) * MINUTE
                            + (d.day - current.day) * DAY) % Modulus
  IN IF timestamp > result THEN (result + WEEK) % Modulus ELSE result

-----------------------------------------------------------------------------
(* Entries of the schedulers.                                              *)

Entry(id, req, next_run, asked, set) ==
  [id |-> id, status |-> req.status, time |-> req.time, pid |-> req.pid, next_run |-> next_run,
   asked |-> asked, first |-> IF set THEN next_run ELSE asked, set |-> set, runs |-> 0]

\* Mutant: an entry that is switched off is taken for none.
ActiveIds(s) == {entries[s][i].id : i \in {j \in DOMAIN entries[s] : entries[s][j].status}}

\* The ids that exist.
UsedIds(s) == {entries[s][i].id : i \in DOMAIN entries[s]}

\* Refused for an id that exists, whoever calls it.
save(s, e) ==
  /\ e.id \notin UsedIds(s)
  /\ entries' = [entries EXCEPT ![s] = <<e>> \o @]

\* A definition that is received: next_run is left as it was in memory.
DefineEvent(req) ==
  /\ Len(entries["EVENT"]) # Maximum
  /\ \E id \in accepted(req.id, UsedIds("EVENT")), next_run \in Garbage :
       save("EVENT", Entry(id, req, next_run, req.time.start, FALSE))
  /\ UNCHANGED <<time, enabled, programs, units, latest>>

\* A definition by the device itself, into the entries.
SaveEvent(req) ==
  /\ req.id \in Ids
  /\ save("EVENT", Entry(req.id, req, req.time.start, req.time.start, TRUE))
  /\ UNCHANGED <<time, enabled, programs, units, latest>>

DefineWeekly(req) ==
  /\ Len(entries["WEEKLY"]) # Maximum
  /\ \E id \in accepted(req.id, UsedIds("WEEKLY")) :
       save("WEEKLY", Entry(id, req, first(req.time, time), time, TRUE))
  /\ UNCHANGED <<time, enabled, programs, units, latest>>

UpdateStatus(s, id, status) ==
  /\ id \in UsedIds(s)
  /\ entries' = [entries EXCEPT ![s] =
       [i \in DOMAIN @ |-> IF @[i].id = id THEN [@[i] EXCEPT !.status = status] ELSE @[i]]]
  /\ UNCHANGED <<time, enabled, programs, units, latest>>

\* Ids are unique: the first entry with the id is the only one.
destroy(list, id) ==
  LET gone == CHOOSE i \in DOMAIN list : list[i].id = id
  IN [i \in 1..(Len(list) - 1) |-> IF i < gone THEN list[i] ELSE list[i + 1]]

Delete(s, id) ==
  /\ id \in UsedIds(s)
  /\ entries' = [entries EXCEPT ![s] = destroy(@, id)]
  /\ UNCHANGED <<time, enabled, programs, units, latest>>

DeleteAll(s) ==
  /\ entries' = [entries EXCEPT ![s] = <<>>]
  /\ UNCHANGED <<time, enabled, programs, units, latest>>

ActivateScheduler(s, status) ==
  /\ enabled' = [enabled EXCEPT ![s] = status]
  /\ UNCHANGED <<time, entries, programs, units, latest>>

-----------------------------------------------------------------------------
(* The clock and the periodic run.                                         *)

\* Events have a start and an end, weekly entries last for ever.
active(s, e, t) ==
  /\ e.status /\ t >= e.next_run
  /\ s = "EVENT" => e.time.start <= t /\ t <= e.time.end

Step(s, e) == IF s = "EVENT" THEN e.time.repeat ELSE WEEK

\* History: one more run, of those that are counted.
Counted(e) == IF e.set /\ e.runs < MaxRuns THEN e.runs + 1 ELSE e.runs

\* Mutant: next_run stays where it is.
step_omitted(s, e) == [e EXCEPT !.runs = Counted(e)]

\* Mutant: an entry only goes on when there is a program to invoke.
step_invoked(s, e) ==
  IF program(e.pid) = {} THEN e
  ELSE [e EXCEPT !.next_run = (@ + Step(s, e)) % Modulus, !.runs = Counted(e)]

step(s, e) == [e EXCEPT !.next_run = (@ + Step(s, e)) % Modulus, !.runs = Counted(e)]

\* The programs of the entries that are due, from the front of the list.
invoke_due(s, us) ==
  LET list == entries[s]
      after[i \in 0..Len(list)] ==
        IF i = 0 THEN us
        ELSE IF enabled[s] /\ active(s, list[i], time) THEN invoke_program(list[i].pid, after[i - 1])
        ELSE after[i - 1]
  IN after[Len(list)]

Periodic ==
  /\ entries' = [s \in Services |->
       [i \in DOMAIN entries[s] |->
          LET e == entries[s][i]
          IN IF enabled[s] /\ active(s, e, time) THEN step(s, e) ELSE e]]
  /\ units' = invoke_due("WEEKLY", invoke_due("EVENT", units))
  /\ UNCHANGED <<time, enabled, programs, latest>>

SetTime(t) ==
  /\ time' = t
  /\ latest' = IF t > latest THEN t ELSE latest
  /\ UNCHANGED <<enabled, entries, programs, units>>

-----------------------------------------------------------------------------

Programs ==
  \/ \E req \in ProgramRequests : DefineProgram(req)
  \/ \E pid \in Ids : InvokeProgram(pid) \/ DeleteProgram(pid)
  \/ DeleteAllPrograms

Schedules ==
  \/ \E req \in EventRequests : DefineEvent(req) \/ SaveEvent(req)
  \/ \E req \in WeeklyRequests : DefineWeekly(req)
  \/ \E s \in Services, id \in Ids : Delete(s, id) \/ (\E status \in BOOLEAN : UpdateStatus(s, id, status))
  \/ \E s \in Services : DeleteAll(s) \/ (\E status \in BOOLEAN : ActivateScheduler(s, status))

Next ==
  \/ Programs
  \/ Schedules
  \/ Periodic
  \/ \E t \in Clocks : SetTime(t)

\* The application goes on calling periodic.
Spec == Init /\ [][Next]_vars /\ WF_vars(Periodic)

-----------------------------------------------------------------------------
(* Properties.                                                             *)

\* Entries, programs and units are well formed; levels stay in their range.
TypeOK ==
  /\ time \in 0..(Modulus - 1) /\ latest \in 0..(Modulus - 1)
  /\ enabled \in [Services -> BOOLEAN]
  /\ \A p \in programs : p.pid \in Ids
  /\ units \in Units
  /\ DOMAIN entries = Services
  /\ \A s \in Services : \A i \in DOMAIN entries[s] :
       LET e == entries[s][i]
       IN /\ e.id \in Ids /\ e.pid \in Ids /\ e.status \in BOOLEAN
          /\ e.time \in IF s = "EVENT" THEN Interval ELSE Day
          /\ {e.next_run, e.first, e.asked} \subseteq 0..(Modulus - 1)
          /\ e.set \in BOOLEAN /\ e.runs \in 0..MaxRuns

\* No two entries of a scheduler have the same id, and no two programs the
\* same pid or name, however often entries are deleted and ids given out again:
\* an update, a deletion or a run concerns what it names (next_id, next_pid).
IdsUnique ==
  /\ \A s \in Services : \A i, j \in DOMAIN entries[s] : entries[s][i].id = entries[s][j].id => i = j
  /\ \A p, q \in programs : p.pid = q.pid \/ p.name = q.name => p = q

\* Timestamps up to one step after t do not wrap.
Representable(s, e, t) == t + Step(s, e) < Modulus

\* An entry runs at most once in each of its periods, counted from its first
\* run, also when the clock is set back, the scheduler is switched off and on,
\* or missed runs are caught up with.
RunsOncePerPeriod ==
  \A s \in Services : \A i \in DOMAIN entries[s] :
    LET e == entries[s][i]
    IN e.set /\ e.runs > 0 /\ Representable(s, e, latest)
         => e.first + (e.runs - 1) * Step(s, e) <= latest

\* The times that a week has; a request may name others.
TimesOfWeek ==
  [day : 0..(DAYS - 1), hour : 0..(DAY \div HOUR - 1), minute : 0..(HOUR \div MINUTE - 1)]

\* Is a timestamp on the day, in the hour and in the minute of a weekly entry?
OnTheDay(d, t) ==
  /\ (DAY_OF_WEEK_BASE + t \div DAY) % DAYS = d.day
  /\ (t % DAY) \div HOUR = d.hour
  /\ (t % HOUR) \div MINUTE = d.minute

\* The first run of a weekly entry comes in the week after its definition, and
\* all of them at its day and time, if a week has these: for clocks after the first week (before
\* it, first() wraps) and before they turn negative as signed integers.
WeeklyOnTheDay ==
  \A i \in DOMAIN entries["WEEKLY"] :
    LET e == entries["WEEKLY"][i]
    IN e.time \in TimesOfWeek /\ e.asked \in WEEK..(Modulus \div 2 - 1)
         /\ Representable("WEEKLY", e, latest)
         => /\ e.asked <= e.first /\ e.first < e.asked + WEEK
            /\ OnTheDay(e.time, e.first) /\ OnTheDay(e.time, e.next_run)

\* Is an entry due that has a period and does not wrap?
Overdue(s, id) ==
  /\ enabled[s]
  /\ \E i \in DOMAIN entries[s] :
       LET e == entries[s][i]
       IN e.id = id /\ active(s, e, time) /\ Step(s, e) > 0 /\ Representable(s, e, latest)

\* No entry stays due for ever: missed runs are caught up with, as long as the
\* scheduler is called.
CatchesUp == \A s \in Services : \A id \in Ids : []<>~Overdue(s, id)
=============================================================================
