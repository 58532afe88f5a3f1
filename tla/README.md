# HAN-FUN: models, checks and proofs

TLA+ specifications of the HAN-FUN library (C++), written from its source. HAN-FUN is the home
automation profile of DECT ULE: *nodes* register with a *concentrator* (the base) and exchange
messages between *interfaces* of their *units*. The library is single threaded: a device handles
one received packet, or one call of the application, at a time. What is concurrent is the network:
several devices, FIFO links between each node and the base that can break, and processes that end
and start again. All paths below are relative to the repository.

## 1. The system

| Component | State | Operations | Talks to |
|---|---|---|---|
| Device management (`src/core/device_management*.cpp`, `apps/base.cpp`) | server: entries (device, UID, units), indexed by address; the address forced by the console. client: the address the node holds | REGISTER, DEREGISTER and their responses; console register/deregister; save, restore | bind management (removes rows of a device), transport (tags links), application (saves) |
| Bind management (`src/core/bind_management*.cpp`) | a set of rows source / interface / destination | ADD, REMOVE, removal of a device's rows, look-up for routing | device management, routing |
| Session management (`src/core/session_management_*.cpp`, `.h`) | address -> is its session valid | START, GET, END; invalidation by every change of the table | tables of device, bind and group management |
| Group management (`src/core/group_management*.cpp`) | groups with their list of members, places reserved for additions under way | CREATE, DELETE, ADD, REMOVE, GET_INFO | group tables of the nodes (a round trip), transport groups |
| Group table (`src/core/group_table*.cpp`) | a node's set of (group, unit); client: who asked for an addition | ADD, REMOVE, REMOVE_ALL, READ | group management |
| Devices and routing (`src/devices.cpp`, `src/protocol.cpp`, `src/units.cpp`) | links of the base; each device's filter of responses it sent | send, receive, forward, route by bind rows, make up a missing response | everything |
| Attribute reporting (`src/core/attribute_reporting*.cpp`) | periodic and event rules with an id, the device they report to, entries and the time of the last report | create, add entries, delete one or all, change interval, periodic run, notification of a change | attributes of all interfaces, time |
| Interfaces and attributes (`src/interfaces.cpp`, `src/attributes.cpp`) | attribute values of the interfaces | get and set one, a pack, or a pack atomically; notify the device | attribute reporting |
| Batch programs (`src/core/batch_program_management*.cpp`) | programs: id, name, list of actions | define, invoke, delete, read | any interface of the device |
| Event and weekly scheduling (`src/core/*scheduling*.cpp`) | each: entries with a status, the time of the next run and a program; on/off | define, update status, delete, switch on and off, periodic run | time, batch programs |
| Time (`src/core/time*.cpp`) | the time attribute | set, advance, read, conversion to a date and back | schedulers, reporting |
| RSSI, device information, SUOTA (`src/core/`) | attributes; SUOTA none | attribute access; SUOTA version checks | - |
| Colour control (`src/interfaces/colour_control*.cpp`, `.h`) | colour and mode of each light; one list of the moves under way, of all lights of a process | fourteen commands in three forms (to, by steps, without end), STOP; the passing of time | the application's timer |
| Simple button (`src/interfaces/simple_button_server.cpp`) | three durations, one time stamp, whether the last press was short | pressed, released, setting the durations | the application's clock |
| Other functional interfaces (`src/interfaces/`) | attributes of lights, sensors, thermostats, ... | commands and notifications | programs |
| Example applications (`apps/`) | the JSON file with both tables, console, TCP transport | save, restore, console commands | device and bind management |

### What is hard here, and what makes each part correct

* **Device management.** Two maps must agree; addresses are scarce, given out, taken back, forced by
  the console and given out again; a node's idea of its address is built from responses that may
  be late or lost; the base saves two tables one after the other and may crash in between. Correct
  means: one entry per device and per address, nobody loses an entry to another's registration,
  binds lead to devices, links lead to the device they are tagged with, and a node that keeps
  trying ends up agreeing with the base.
* **Sessions.** A table changes between two reads of its entries. Correct means: a reader never
  puts pieces of two tables together.
* **Groups.** A membership is made of four pieces of state (place in the group, the node's table,
  the transport's group, the request that waits) that are changed by a round trip which can fail,
  overlap with other round trips or outlive its group.
* **Response filter and routing.** Whether a response is missing is decided by counting entries
  that carry no identity of the request, on a path where packets are also forwarded and routed.
  Correct means: one response per request that wants one, and one copy per matching bind row.
* **Attributes and reports.** An atomic write has a trial run that must examine what the real run
  will write. Reports are a matter of clocks that are set forward and back, and of rules that are
  named by ids which are used again, by several devices that may delete each other's rules. Correct
  means: a report comes in time, goes to who asked for it, and says the present value.
* **Schedulers.** Clock arithmetic in unsigned integers, missed runs, a next run that may never
  have been set. Correct means: an entry runs once in a period and on its day, and catches up.
* **Colour control.** Moves of several lights share one list whose front says how much time passes
  for all of them; colours go step by step, rounded, over the ends of ranges. Correct means: a move
  ends when it should, keeps its course, arrives, and stops when told to.
* **Simple button.** One time stamp and one flag stand for the start of a press, the end of a short one and
  nothing at all, by a clock that wraps. Correct means: each press is reported once, by the time it took.

`PROJECT.json` lists the hazards line by line, each with the properties that cover it.

## 2. Modules

`Registration` - device management and binds. `Sessions` - read sessions, which implement
`TableReads`, what a reader is promised. `Groups` - group management with the nodes' group tables,
which implements `Membership`, the members of a group as a set.
`Responses` - the filter and routing. `Attributes` - writing attributes, used by `Reporting` -
reporting of their changes and of the passing of time. `Scheduling` - both schedulers, batch
programs and the clock. `ColourControl` - lights whose colour moves. `SimpleButton` - the
classification of presses. Each `MC...` module
gives the constants of its runs; each `...Proofs` module holds the theorems. One action stands for
one received packet or application call, with everything the handler does until it returns,
including packets it sends and files it saves.

### Registration

Variables `devices`, `next_address`, `binds` (base), `links` (base: most recent first, as
`connected` pushes to the front), `address` (nodes), `up`/`down` (FIFO links). The configuration
file is not a variable: the base saves after every change, so its content is that of the tables,
except at two places, which are actions of their own: `CrashInDeregister` (the bind rows were saved
without the device or the other way round) and `CrashInSave` (the file was truncated).
`RestartBase` reads the file as the code does, in any order of its entries (`Files`) and into one list of
units that is never cleared (`UnitsRead`): an entry has its own units at the head of its list, perhaps with
optional interfaces of the units that stood there before, and behind them units of earlier entries and
`Unit(0)`. The lists grow with every restart, and `MaxUnits` bounds them. A unit is its id, the role in which
its profile has the interface that bind rows name, and its optional interfaces; `HasInterface` asks the
first unit with the id, as `find_if` does, and the base's own address stands for the base's own units
(`Entry`, `BaseUnits`). `Rows` are the rows that may be asked for. `RegisterDevice`, `DeregisterDevice`, `AddBind`, `RemoveBind`, `Connect`,
`Disconnect`, `ConsoleDeregister` and `ConsoleNextAddress` are the base's operations;
`SendRegister`, `SendDeregister`, `ReceiveRegisterResponse`, `ReceiveDeregisterResponse` and
`RestartNode` the nodes'. `Connect` is for a node without a link: that a node opens a connection when it
has none is the transport's doing (`apps/transport.cpp`), and a connection that the base takes for open after
the node has opened another is not modelled. `Environment` says which of the events outside the devices' control
occur. Assertions (`HF_ASSERT`) are modelled as in a release build, by their fallback.

### Sessions

The table is a vector; `save` moves an entry to its end, as the code does by erasing and
appending, so positions shift under a reader. Every change goes through the wrapper that
invalidates the sessions. A request and its answer are one step: nothing between the two can
change what the answer holds. `started` and `read` are history variables: the table a session
found when it started, and what its reader was given since.

`TableReads` is the same service without sessions: a reader copies the whole table at once, and is
given pieces of its copy for as long as the table still equals it. `Sessions` maps its table, `started` and
`read` to the variables of `TableReads`; `ReadsAtOnce` says that every step is one of a
`TableReads` step or changes nothing there.

### Groups

ADD is split as in the code: `add` reserves a place and sends the request to the node,
`table_add` is the node, `added` is the handler of the node's answer at the base. `disconnect`
drops what is on a link; `lost` and `waiting` are history variables that count the answers that
will never come and those still owed. The client looks a request up from the front
(`src/core/group_management_server.cpp:603` and `:618`) and never drops one, so that an answer goes to whoever asked last
for that addition (`requests`); of several controllers that wait for one, the others are never answered. `raced`
are the units whose last addition was accepted while another of theirs was under way, `cut` those devices that a removal
took out of the transport's group while another of their units was listed; both are history. Node addresses are fixed
here: what happens to groups when a device leaves is in no module (the code leaves its memberships in place). `delete` tells each
device of its members in their order; the order between devices does not matter, as each has a
link of its own.

`Membership` is what the two tables promise together: a unit joins and leaves in one step, joins only
while it has the group stored, and forgets the group only when it is no member. `Groups` maps the
units listed at the base (reserved places are nobody, nor are the units in `raced`, which may be listed twice or told
to forget a group after they joined it again) to its members and the entries of the nodes'
tables to what they keep; `MembersInStep` says that every step is one of a `Membership` step or
changes nothing there. `add` never is, whatever place it reserves or gives up; `added` is a
join only if the node said OK and the group still has a reserved place.

### Responses

`receive` is `AbstractDevice::receive` together with the filter, as one operator on the filter of
the device; `noted` is what a packet does to the filter and `unanswered` what the filter answers.
Entries are counted by address and member. The concentrator's routing is split in `BaseRoutes`,
which finds the rows, and `BaseServes`, which sends one copy; while copies are left the base does
nothing else. Devices are registered and keep their addresses. Entries noted under the broadcast
address are left out: no packet ever takes them away, and none is answered because of them.

### Attributes and Reporting

`Attributes` is the writing of attributes over a payload kept byte by byte: `update_attribute` with
its early returns, `update_attributes` as a function from the number of attributes handled to the
state reached, and `update_attributes_atomic` with its trial run (`nop`), which reads UIDs where
values are because it does not pass over them. `Wanted` is the reference definition: what a request
means. Attributes are one byte wide and requests well formed.

`Reporting` is the server of a device with several clients. Rules are records in sets, since the
code keeps them sorted and looks them up by id, and so are their entries, which every
`AddPeriodicEntry` and `AddEventEntry` adds to. The destination of a rule is the one the message names,
which may be another device than its sender. `known` holds the references a device got, with the
destination it had asked for, and has not deleted, as a device may only use those. Its actions are the requests (`CreatePeriodic`,
`CreateEvent`, `Delete`, `DeleteAll`, `AddPeriodicEntry`, `AddEventEntry`, `UpdateInterval`), each with an
answer that may be lost, and `UpdateAllIntervals` by the device itself; `SetPack`, `SetPackAtomically` and
`ApplicationSets`, each with the notification of every change; and
`Tick`, a unit of time with the call of `periodic` that follows, and `SetClock`. `silent`, `jumps`, `seen` and
`revoked` are history.

### Scheduling

The scheduler is one definition with two kinds of time (`EVENT`, `WEEKLY`), as it is one template in
the code. Timestamps wrap at `Modulus`; the calendar is given by constants so that a week can be
short. `Garbage` is what an uninitialised `next_run` may hold, for an event that a command defined.
`Periodic` is a call of `periodic` on both schedulers: it invokes the programs of what is due and moves the
entries on by one period. A program's actions are carried out in order until one fails, on a lamp and a level.
The history in an entry (`asked`, `first`, `set`, `runs`) says from when its first run was computed and
how often it ran.

### ColourControl

One list of transitions for all servers, in the order the code keeps it in: a new one goes to the
back, and the list is sorted by the time left when time passes (`Transition`). `Command` is a command: a
colour taken at once, or a move with its steps computed in the signed and unsigned widths of the
code (`Byte`, `Word`), rounded as `round` does (`Round`). Steps add without regard to the ends of a range:
saturation, X, Y and temperature wrap, and a hue above 359, or below 0, becomes 359 (`Stored`); it has the hue asked
for again with the last step. `STOP` takes the server's
transitions out. `goal` is history: what a move that is alone at its light is to lead to.

### SimpleButton

`pressed` and `released` alternate, as their documentation demands, and `Time` advances the clock that the
application reads, modulo `Word`. The setters of the durations come at any time. `sent` is what was sent about the
present press or the last one; `mark` and `wrapped` are history: when the button last moved, and whether
the clock has wrapped since. Over a wrap the code measures the complement of the time that passed: a short
press may then be reported as an extra long one, a quick second one may be missed, and one that comes a whole
turn of the clock after a short press is a double click. The properties exclude the wrap and nothing else.

## 3. Runs

All runs use the definitions of the modules as they are. Deadlock is checked in all of them but
those of ColourControl, where the lights rest when the bounded number of commands is used up and all
moves are over.

| Run | Bounds | Shows |
|---|---|---|
| RegistrationSafety | 2 nodes, 2 addresses, unit lists of one unit with 2 roles, restored lists of up to 2, 2 messages under way, 1 of 5 bind rows, every event, symmetric nodes | type correctness, `UniqueDevices`, `BindsResolve`, `LinksTagged`, `NobodyEvicted` |
| RegistrationAgreement | 3 nodes for 2 addresses, no deregistration, no torn file, no console | `BeliefsHold`, `RegistrationCompletes` |
| Sessions | 2 readers, 2 entries of 2 contents, slices of up to 2 | `ConsistentRead`; `ReadsAtOnce`, the refinement of `TableReads` |
| Groups | 2 controllers, 2 nodes with two units, symmetric, 2 groups of 2 members, node tables of 2, 2 messages, 1 lost answer per group, additions repeated before their answer | `NoDuplicates`, `MembersReached`, `NoLeakedReservation`, `NobodyForgotten`; `MembersInStep`, the refinement of `Membership` |
| RemovedIsGone | 2 controllers, 1 node, the same addition twice | **violated**: a unit added twice at once is still a member after its removal |
| Responses | 2 nodes and the base, 1 unit, 1 member, up to 2 of 8 bind rows, 2 messages, 1 leftover per entry | `AnswersOnce`, `RoutedOnce` |
| RequesterAnswered | the same without binds | **violated**: a made-up response goes to nobody |
| Reporting | 2 devices, 2 attributes of 3 values (one read-only), 3 conditions, 4 requests, rules of 2 intervals to either device, 2 ids, 2 rules, 2 event entries, clock to 4, set once under a rule | `RuleIdsUnique`, `EntriesOwned`, `ReportsInTime`, `SubscribersCurrent`, `WritesAsAsked`, `RefusedChangesNothing` |
| AtomicWrite | every request of up to 2 attributes, no rules | **violated**: an atomic write stores a part |
| Scheduling | a week of 3 days of 2 hours, 32 bits shortened to 7, 2 events and a weekly entry, 3 programs, 2 ids, 4 clocks | `IdsUnique`, `RunsOncePerPeriod`, `WeeklyOnTheDay`, `CatchesUp` |
| ColourControl | 2 lights, any 3 of 14 commands, 6 hues, 4 and 16 for the widths, a second of 3 units | `KeepsTime`, `Arrives`, `StaysStopped`, `OnCourse` |
| SimpleButton | a clock of 8 values, 4 durations, a gap of at least 2 | `ThresholdsOrdered`, `EachPressAnswered`, `PressesTimed`, `DoubleClickIsQuick` |

Why these bounds are enough for the cases that matter: two addresses and two or three nodes let an
address be given away and taken again, let the table be full and let two nodes race for the last
address (the full table occurs in RegistrationAgreement, with more nodes than addresses); two
messages under way are a request overtaken by a restart, a late response and the next
request; one bind suffices since rows do not interact, and the five lead from a device to the base and back, between
devices, to a unit that a restart left behind, and from anybody; two entries and slices of one let the
table shift between slices; groups of two members with two additions under way fill a group,
refuse one and lose one, and two units on a node let one go while the other stays; in Responses, two nodes suffice since the filter separates addresses, and
the theorems remove the bounds. In Reporting, two devices, rules and ids let an id be used again
for somebody else's rule, and a clock to 4 passes the longer interval twice and is set over it in both
directions. The constraint `Apart` of that run keeps several rules and a clock that runs or values
that change from multiplying: reports are sent for each rule apart, and ids and references do not
depend on values or time. With several rules, at most one reference is stale and one event entry is
made; with one rule, its entries watch whatever they may while the values change. In Scheduling, weeks are short enough for the clock to pass two of them, for
`first` to wrap round, and for runs to be missed and made up for; its constraint keeps either two
entries, or one with a program, and is never left by `Periodic`, so that a behaviour the fairness
speaks of is not cut off. In ColourControl, three commands give two moves at one light and one at
another, or a move and two that disturb it; the widths are small enough for colours to
cross the ends of their range.
In SimpleButton, a gap can be shorter and longer than a short press, and an extra long press as long as a
short one, longer, or off; a clock of 8 wraps within a press and between two. The violations need no more than
ten steps.

Groups has a constraint too, `Few`: one unit at most has raced, and additions of at most two different units are
accepted, or three as long as one controller adds units of one device and none has raced. A race needs one addition twice, a
cut two units of one device, and a node whose table of two is full needs a third to refuse.

### Fairness

RegistrationAgreement: weak fairness of `BaseReceives` and `NodeReceives` for each node,
since the event loops of the applications keep reading the sockets. Nothing makes a node send, a
link come up or a console act. `RegistrationCompletes` speaks of a REGISTER that is on its way.

Scheduling: weak fairness of `Periodic`, since the application has to go on calling `periodic`
(`inc/hanfun/core/scheduling.h`). Nothing makes time advance or a client ask. `CatchesUp` speaks of entries
that have a period and are due at the present time.

### Findings

1. `RemovedIsGone` - a reserved place is not recognised as the member it is for
   (`src/core/group_management_server.cpp:383`).
2. `RequesterAnswered` - a made-up response has no destination (`src/devices.cpp:135`).
3. `AtomicAllOrNothing` - the trial run of an atomic write reads values as UIDs
   (`src/interfaces.cpp:65`).

Other things the models show, without a run of their own: no test or comment states the opposite, or
the code itself calls them open, or a property of a passing run names the case in its proviso:

* Removing one unit from a group takes its device out of the transport's group, though another of its units stays a
  member (`src/core/group_management_server.cpp:449`): `cut`, which `MembersReached` excepts.
* A full group gives up the place of another addition (`src/core/group_management_server.cpp:395`): the unit whose place
  it was stores the group, its device joins the transport's, and its controller is told FAIL_MODIFIED.
* A full table refuses an entry it has already (`src/core/group_table_server.cpp:120`): the unit is no member, and acts on
  what is sent to the group.
* When two controllers wait for the same addition, both answers go to the one that asked last.
* Deregistering leaves the address on the link (`src/core/device_management_server.cpp:285`, a todo of the
  code); once the address is given out again, packets may go to the old device.
* `Node::Abstract::to_local` (`inc/hanfun/devices.h:495`) accepts the response to a registration
  only without an address or with the same one, so a node that is given another address drops it.
* Sessions are kept by address, and devices without one share the broadcast address
  (`src/core/session_management_server.cpp:35`): one's START makes the other's session valid again.
* A move that is given the time T is over after T - 1 units: its first run is at once, and it makes T of them
  (`src/interfaces/colour_control_server.cpp:539` and `:558`). `KeepsTime` is stated with that.
* A move added behind one that has longer to wait is let go by up to ten units for one, and then waits for its
  remaining time to wrap, 6553.6 seconds (`inc/hanfun/interfaces/colour_control.h:1636`): the second case of `KeepsTime`.
* A hue that is moved up over 359 stays at 359 until its last step, and one moved down below 0 goes on from 359
  (`inc/hanfun/interfaces/colour_control.h:131`): `OnCourse` follows a move up to there.
* After a short press, the next one is reported as short (or double) when it begins, however long it is then
  held (`src/interfaces/simple_button_server.cpp:131`), though `inc/hanfun/interfaces/simple_button.h:231` speaks of
  the message as going by the time between the two calls. `PressesTimed` is accordingly about presses
  that are classified at their release.
* `move_to_saturation` takes the target for the distance; `first()` of a weekly entry is
  wrong in the first week of the epoch; a received event's `next_run` is whatever was in memory.

## 4. Proofs

Every theorem holds for all values of the constants that meet the named assumptions.

* `RegistrationProofs`. `IInv` is `TypeOK`, `UniqueDevices` and `BindsResolve` with three facts
  that the code relies on without stating them: an address forced by the console is still free
  (`ForcedFree`), each device has one link in the list, and packets under way only with a link
  (`LinksDistinct`), and a registered device's link has its address (`LinksMatch`). Without the last, `LinksTagged` is not
  inductive, since a registration sets the tag of one link only. The theorems `TypeCorrect`,
  `RegistrationsUnique`, `BindsAlwaysResolve`, `LinksAlwaysTagged` and `NobodyIsEvicted` follow.
  A restart is shown to give back every device with its UID and address (`RestoreKeepsDevices`), and lists of
  units of the right kind, by counting up the entries of the file (`UpTo`).
  `BeliefsAlwaysHold` needs a second invariant on the responses under way, and the assumption that
  nothing takes a registration away.
* `SessionsProofs`. Besides the types, a valid session of a reader means that the table is the one
  its session started with (`OwnSession`); with it `ReadsAreConsistent` is inductive. It assumes
  that each reader has an address of its own: two that share one can mix two tables.
  `ReadsImplementCopies` is the refinement: the abstract copy is `started`, and `OwnSession` is what
  makes a valid GET a legal `Give`.
* `GroupsProofs`. `TypeOK` is inductive by itself (`GroupsTyped`). `ReservationsAreGivenBack` counts: the
  reserved places of a group (`Held`) against what is under way for it and was lost (`Owed`). Each
  step touches the links of at most one device, so what is under way is split into the positions on
  that device's links and those on the others (`Split`); taking a message off one link and putting its answer
  on the other leaves the sum as it was, and every other way for a message to go is matched by a
  place given back or an addition lost. It assumes that there are finitely many devices
  (`DevicesAssumption`), nothing else. For the rest, `IInv` says, besides types and limits, that the links carry nothing that could
  undo what the lists say: an addition has nothing about the same unit behind it on its link
  (`AdditionLast`), an answer on its way back is the only thing about its unit, and if it says OK the entry is in
  the device's table (`AnswersAlone`), and about a listed member nothing is under way at all (`MembersSettled`).
  All this is said of the units that are not in `raced` (`Calm`): whether a unit is calm is settled when its addition is accepted, by
  what was then under way, and it may have raced before. That an addition makes a unit calm is where the work is: nothing of it is
  under way then but removals, and it is not listed (`Cleared`).
  `MembersAreStored` and `MembersAreDistinct` follow; `MembersAreReached` (`Reaches`) and
  `NobodyIsForgotten` (`Served`) each add one fact to `IInv` and speak of every unit, calm or not. `GroupsKeepPromise` is the
  refinement: `AnswersAlone` makes an addition that ends a legal `Join`, since the unit is not listed yet and its entry is
  still stored, and `MembersSettled` makes a removal at the node a legal `Forget`, since nothing is on its way to a node about
  a unit that is listed; what happens to a unit that raced changes nothing in `Membership`. No theorem assumes how many units a device
  has or that additions do not overlap.
* `ReportingProofs`. `IdsUnique` needs that `find_available_id` returns an id that no rule has.
  `ReportsComeInTime` bounds the ticks a rule has been silent and those until its next report
  together (`AllInTime`), whichever way the clock was set. `ReportsGoToOwners` needs
  that a reference a device holds leads to a rule with the destination it was told of, or was revoked (`Leads`).
  The writing of attributes is a recursive function of the number of fields handled. It is proved by induction over
  that number, once for the trial run and once for the real one: `Rounds` says that the function is
  defined and steps as the code's loop does, `Good` what holds after `i` fields - each attribute has the last value
  given to it so far (`Valued`), and the list of changes leads from the value before to the present
  one (`Tells`). At the end `Good` is `WritesStoreWhatIsAsked`, and `Tells` is what
  `notify` needs to leave no entry behind: with it `Valid` is inductive, which gives `RulesTyped`
  and `SubscribersKnow`. `RefusalsChangeNothing` holds since the trial writes nothing, and
  a refusal leaves what the trial left.
* `SchedulingProofs`. `IInv` ties an entry's next run to its first, its count of runs and the
  latest time there was (`Counting`), from which `RunsAtMostOnce` follows; `NamesAreUnique` is part of it. For
  `WeeklyRunsOnItsDay` it says that the first and the next run of a weekly entry are on its day (`OnDay`): the
  arithmetic of `first` is done for any lengths of minute, hour, day and week that divide one another
  (`CalendarAssumption`), and steps of a week stay on the day. Times that no week has, such as hour 25, are
  accepted by the code and never come: `WeeklyOnTheDay` leaves them out. `SchedulesTyped`
  needs that programs hold only actions (`Runnable`), by induction over the actions a program has carried out.
* `ColourControlProofs`. A move that did not begin behind a slower one has only moves before it that
  wait for one unit, as it does; so the front of the list, which says how much time passes,
  lets one unit pass. More than a move waits for can pass for it only the first time: once time has passed, the list is
  sorted up to it, and the front waits no longer than it does. Both are in `IInv`, which gives `MovesKeepTime`. `ColoursTyped` needs that every move
  is as the code made it (`Made`, in `TInv`): its steps are integers of coordinates that there are, no more of them than the
  counter holds, and its period is that of its kind; a step, clamped or wrapped as the code does it, then stays in range. For a move with a goal, `AInv` says that it is
  the only one of its light in the list and that the colour is where the steps made so far put
  it (while that is within the range), or at the end if it has left the list: that is `MovesOnCourse` and `MovesArrive`, and a light without a move
  keeps its colour, which is `StoppedStays`. The pass over the list is a recursive function
  here too, unfolded one element at a time by induction over the position. What a
  light's colour and a command's arguments may be is assumed (`ColoursAssumption`, `MessagesAssumption`).
* `SimpleButtonProofs`. `Stamped` says what the time stamp is of in each state: the start of a press that is
  yet to be classified, or the end of a short one; in the other two states nothing is said of it, and the
  proofs of `PressesMeasured` and `DoubleClicksAreQuick` show that it is not used there.
* `ResponsesProofs`. The heart is that a node's filter holds entries for its own address only,
  between two packets (`Clean`): whatever it notes for a requester while it handles a request is
  taken away again by that request. From `Clean` follow `NodesAnswerOnce` and `FilterTypes`;
  `CommandsRoutedOnce` needs that the eight pairs tried are the eight ways to match and that they
  differ. The concentrator's own filter has no such invariant, since it also notes what it forwards
  and routes; `AnswersOnce` is accordingly stated of nodes.

Recursive functions over a sequence, as the code's loops are modelled, are defined by `CHOOSE`; the proofs show
by induction over a number (`UpTo`, from the well-foundedness of `<`) that a function with the
defining equation exists, and then what it returns.

Only model-checked: `RegistrationCompletes` and `CatchesUp`, which are liveness properties and out
of reach of the prover. The three properties that runs refute are, of course, not proved either.

## 5. Not modelled, and the plan

The plan was, in this order, and is done: Registration, Sessions, Groups, Responses, Attributes and
Reporting, Scheduling, each with proofs; the abstract specification of reading a table; and, beyond
the plan, colour control and the simple button.

Not modelled, though part of the library:

* **Programs that address unit 0.** A program may invoke programs, itself among them, and define or delete
  entries of the scheduler that is going through them (`src/core/event_scheduling_server.cpp:283`).
  The first recurses without end, the second goes on in a list that has changed: neither has a next
  state to specify. The same holds for a rule of interval 0 (division by zero) and for `transition()` on an
  empty list of moves.
* **SUOTA.** The library builds and parses its messages and keeps no state; what an
  upgrade is lies with the application.
* **RSSI, device information, alert, thermostat, power meter**: attributes that are set, read and
  reported, as `Attributes` and `Reporting` have it for any interface.
* **The conversion of time to a date and back** (`src/core/time.cpp`): pure functions over 49711 days, which a
  test goes through better than a model. Read closely, `convert(date)` accepts dates of 2136 after 7 February, where 32
  bits of seconds end, and gives them a time in 2000, and it takes 30 February for a day in March.
* **Group and table reads** (GET_INFO, READ_ENTRIES): they change no state.
* **Groups whose devices deregister**: the code leaves memberships in place, so no property relates
  the two tables.
* Packet layouts, serialisation, profiles, UIDs and debug output: pure conversions and constants.
  They, the vendored JSON parser, the console's parsing, TCP, and the generators under `tools/`
  are the larger part of the repository's lines, which is why the modelled part is a small share
  of it: the headers consist mostly of messages with `size`, `pack` and `unpack`, and `debug.cpp` with the
  JSON parser is as long as two thirds of all of `src/core`.
