---------------------------- MODULE Registration ----------------------------
(***************************************************************************)
(* Device registration between HAN-FUN nodes and a concentrator: the       *)
(* device management server and client, the concentrator's list of links,  *)
(* the bind table rows that name device addresses, and the JSON file in    *)
(* which the base application keeps both tables.                           *)
(*                                                                         *)
(* A node is identified by its UID.  The base is single threaded, so every *)
(* received packet is one step; links are FIFO in each direction and lose  *)
(* what they carry when they are closed.                                   *)
(***************************************************************************)
EXTENDS Integers, Sequences, FiniteSets, SequencesExt, Functions

CONSTANTS
  Nodes,        \* the UIDs of the devices
  MaxAddress,   \* last assignable device address (0x7FFE in the code)
  UnitIds,      \* unit identifiers
  Configs,      \* unit lists a device may announce
  BaseUnits,    \* the units of the base itself
  Rows,         \* bind rows that may be asked for
  MaxUnits,     \* bound: entries of a restored list of units or interfaces
  MaxChannel,   \* bound: messages in one direction of a link
  MaxInFlight,  \* bound: messages on all the links together
  MaxBinds,     \* bound: rows of the bind table
  Environment   \* the events outside the devices' control that may happen

Roles == {"server", "client"}

\* Where an interface may be played: "blank" by a profile that does not have
\* it, and by the interface 0 that an optional one is before it is read.
Played == Roles \cup {"blank"}

\* A unit: the role in which its profile has the interface that bind rows
\* name, and the optional interfaces it announced.
Unit == [id : UnitIds, profile : Played, itfs : Seq(Played)]

Blank == [id |-> 0, profile |-> "blank", itfs |-> <<>>]

ConfigType == Seq(Unit)

ASSUME NodesAssumption == IsFiniteSet(Nodes)
ASSUME MaxAddressAssumption == MaxAddress \in Nat \ {0}
ASSUME UnitIdsAssumption == UnitIds \subseteq 0..254 /\ 0 \in UnitIds
ASSUME ConfigsAssumption == Configs \subseteq ConfigType /\ BaseUnits \in ConfigType
ASSUME BoundsAssumption ==
  /\ MaxChannel \in Nat /\ MaxInFlight \in Nat
  /\ MaxBinds \in Nat /\ MaxUnits \in Nat
ASSUME EnvironmentAssumption ==
  Environment \subseteq {"deregister", "disconnect", "node_restart",
                         "base_restart", "torn_save", "console"}

BASE_ADDR == 0
START_ADDR == 1
BROADCAST_ADDR == MaxAddress + 1
BROADCAST_UNIT == 255

DeviceAddresses == START_ADDR..MaxAddress
Addresses == START_ADDR..BROADCAST_ADDR

VARIABLES
  devices,      \* base: registered devices, [uid, address, units]
  next_address, \* base application: address forced on the next new device
  binds,        \* base: bind table, [source, itf, destination]
  links,        \* base: connected links, most recent first, [uid, address]
  address,      \* node: the address its device management client holds
  up, down      \* messages on each node's link, towards and from the base

vars == <<devices, next_address, binds, links, address, up, down>>

Device == [uid : Nodes, address : DeviceAddresses, units : ConfigType]

\* An end of a bind row may be a unit of the base; "any" is ANY_UID.
Bind == [source : [device : Addresses \cup {BASE_ADDR},
                   unit : UnitIds \cup {BROADCAST_UNIT}],
         itf : Roles \cup {"any"},
         destination : [device : Addresses \cup {BASE_ADDR}, unit : UnitIds]]

ASSUME RowsAssumption == Rows \subseteq Bind

UpMessage ==
  [type : {"REGISTER"}, source : Addresses, units : Configs]
    \cup [type : {"DEREGISTER"}, source : Addresses, address : Addresses]

DownMessage ==
  [type : {"REGISTER_RES"}, destination : Addresses, code : {"OK", "FAIL"}]
    \cup [type : {"DEREGISTER_RES"}, destination : Addresses]

-----------------------------------------------------------------------------
(* The tables.                                                             *)

\* Devices registered with address a, with UID n.
At(a) == {d \in devices : d.address = a}
Of(n) == {d \in devices : d.uid = n}

\* The address UID n is registered with, BROADCAST_ADDR when it is not.
AddressOf(n) ==
  IF Of(n) = {} THEN BROADCAST_ADDR ELSE (CHOOSE d \in Of(n) : TRUE).address

Free == {a \in DeviceAddresses : At(a) = {}}

\* Mutant: the search starts below START_ADDR.
FirstFreeFromZero ==
  LET free == Free \cup {0}
  IN  CHOOSE a \in free : \A b \in free : a <= b

\* The lowest address that no device holds, BROADCAST_ADDR when there is none.
FirstFree ==
  IF Free = {} THEN BROADCAST_ADDR ELSE CHOOSE a \in Free : \A b \in Free : a <= b

\* Mutant: addresses are counted, not searched for.
CountedAddress ==
  IF next_address # BROADCAST_ADDR THEN next_address
  ELSE IF Cardinality(devices) = MaxAddress THEN BROADCAST_ADDR
  ELSE Cardinality(devices) + 1

\* The address of a new device: the one the console forced, or the first free.
NextAddress ==
  IF next_address # BROADCAST_ADDR THEN next_address ELSE FirstFree

\* Mutant: saving leaves the entry that holds the address in place.
SaveBeside(d) == devices \cup {d}

\* Saving an entry replaces the one with the same address.
Save(d) == (devices \ At(d.address)) \cup {d}

\* Mutant: only the rows that start at an address are found.
BindsFrom(a) == {b \in binds : b.source.device = a}

\* The rows that name a device address as source or destination.
BindsOf(a) == {b \in binds : b.source.device = a \/ b.destination.device = a}

-----------------------------------------------------------------------------
(* The links.                                                              *)

Linked(n) == \E i \in DOMAIN links : links[i].uid = n

LinkOf(n) == CHOOSE i \in DOMAIN links : links[i].uid = n

\* The link found for an address: the most recent one that carries it.
LinkTo(a) ==
  LET tagged == {i \in DOMAIN links : links[i].address = a}
  IN  IF tagged = {} THEN 0 ELSE CHOOSE i \in tagged : \A j \in tagged : i <= j

InFlight == FoldSet(LAMBDA n, sum : sum + Len(up[n]) + Len(down[n]), 0, Nodes)

\* A packet sent on the link of node n, on link i (none when i = 0).
Deliver(ch, n, m) == [ch EXCEPT ![n] = Append(@, m)]
SendTo(ch, i, m) == IF i = 0 THEN ch ELSE Deliver(ch, links[i].uid, m)

-----------------------------------------------------------------------------
Init ==
  /\ devices = {} /\ binds = {} /\ links = <<>>
  /\ next_address = BROADCAST_ADDR
  /\ address = [n \in Nodes |-> BROADCAST_ADDR]
  /\ up = [n \in Nodes |-> <<>>] /\ down = [n \in Nodes |-> <<>>]

\* Mutant: a new link is never given the address of a registered device.
ConnectUntagged(n) ==
  /\ ~Linked(n)
  /\ links' = <<[uid |-> n, address |-> BROADCAST_ADDR]>> \o links
  /\ UNCHANGED <<devices, next_address, binds, address, up, down>>

\* A link to node n is up: it carries the address n is registered with.  That
\* a node has one connection at a time is the transport's doing.
Connect(n) ==
  /\ ~Linked(n)
  /\ links' = <<[uid |-> n, address |-> AddressOf(n)]>> \o links
  /\ UNCHANGED <<devices, next_address, binds, address, up, down>>

\* The link of n goes away with the messages on it.
Disconnect(n) ==
  /\ Linked(n)
  /\ links' = RemoveAt(links, LinkOf(n))
  /\ up' = [up EXCEPT ![n] = <<>>] /\ down' = [down EXCEPT ![n] = <<>>]
  /\ UNCHANGED <<devices, next_address, binds, address>>

-----------------------------------------------------------------------------
(* The device side.                                                        *)

CanSend(n) ==
  Linked(n) /\ Len(up[n]) < MaxChannel /\ InFlight < MaxInFlight

SendRegister(n) ==
  /\ CanSend(n)
  /\ \E c \in Configs :
       up' = Deliver(up, n, [type |-> "REGISTER", source |-> address[n], units |-> c])
  /\ UNCHANGED <<devices, next_address, binds, links, address, down>>

SendDeregister(n) ==
  /\ CanSend(n)
  /\ \E a \in DeviceAddresses :
       up' = Deliver(up, n, [type |-> "DEREGISTER", source |-> address[n], address |-> a])
  /\ UNCHANGED <<devices, next_address, binds, links, address, down>>

\* Mutant: a node without an address takes nothing that is sent to another one.
ToOwnAddress(n, m) == address[n] = m.destination

\* A node handles what is sent to its address; while it has none, whatever
\* is sent to unit 0, as every message here is.
ToLocal(n, m) == address[n] \in {m.destination, BROADCAST_ADDR}

ReceiveRegisterResponse(n) ==
  /\ down[n] # <<>> /\ Head(down[n]).type = "REGISTER_RES"
  /\ LET m == Head(down[n])
     IN  address' = IF ToLocal(n, m) /\ m.code = "OK"
                    THEN [address EXCEPT ![n] = m.destination] ELSE address
  /\ down' = [down EXCEPT ![n] = Tail(@)]
  /\ UNCHANGED <<devices, next_address, binds, links, up>>

ReceiveDeregisterResponse(n) ==
  /\ down[n] # <<>> /\ Head(down[n]).type = "DEREGISTER_RES"
  /\ address' = IF ToLocal(n, Head(down[n]))
                THEN [address EXCEPT ![n] = BROADCAST_ADDR] ELSE address
  /\ down' = [down EXCEPT ![n] = Tail(@)]
  /\ UNCHANGED <<devices, next_address, binds, links, up>>

\* A node restarts without an address; its connection is closed.
RestartNode(n) ==
  /\ ~Linked(n) /\ address[n] # BROADCAST_ADDR
  /\ address' = [address EXCEPT ![n] = BROADCAST_ADDR]
  /\ UNCHANGED <<devices, next_address, binds, links, up, down>>

-----------------------------------------------------------------------------
(* The concentrator side.                                                  *)

\* Mutant: a device that registers again is taken for a new one.
RegisteringAnew(n, units) == [uid |-> n, address |-> NextAddress, units |-> units]

\* The entry a REGISTER on the link of n saves: the device keeps the address
\* it has, a new one takes the next address.
Registering(n, units) ==
  [uid |-> n,
   address |-> IF Of(n) = {} THEN NextAddress ELSE AddressOf(n),
   units |-> units]

RegisterDevice(n) ==
  /\ up[n] # <<>> /\ Head(up[n]).type = "REGISTER"
  /\ LET d == Registering(n, Head(up[n]).units)
         ok == d.address # BROADCAST_ADDR
     IN  /\ devices' = IF ok THEN Save(d) ELSE devices
         /\ links' = [links EXCEPT ![LinkOf(n)].address = d.address]
         /\ down' = Deliver(down, n, [type |-> "REGISTER_RES",
                                      destination |-> d.address,
                                      code |-> IF ok THEN "OK" ELSE "FAIL"])
  /\ next_address' = IF Of(n) = {} THEN BROADCAST_ADDR ELSE next_address
  /\ up' = [up EXCEPT ![n] = Tail(@)]
  /\ UNCHANGED <<binds, address>>

\* Removing a device removes the bind rows of its address first.
Deregister(a) ==
  /\ binds' = binds \ BindsOf(a)
  /\ devices' = devices \ At(a)

\* Only the device that holds an address may give it up: the address in the
\* message is compared with the source address of the packet.
Authorized(m) == At(m.source) # {} /\ At(m.address) # {} /\ m.source = m.address

DeregisterDevice(n) ==
  /\ up[n] # <<>> /\ Head(up[n]).type = "DEREGISTER"
  /\ LET m == Head(up[n])
     IN  IF Authorized(m)
         THEN /\ Deregister(m.address)
              /\ down' = SendTo(down, LinkTo(m.source),
                                [type |-> "DEREGISTER_RES", destination |-> m.source])
         ELSE UNCHANGED <<devices, binds, down>>
  /\ up' = [up EXCEPT ![n] = Tail(@)]
  /\ UNCHANGED <<next_address, links, address>>

\* Console commands of the base application: deregister a device, and force
\* the address of the next new device.
ConsoleDeregister(a) ==
  /\ At(a) # {}
  /\ Deregister(a)
  /\ UNCHANGED <<next_address, links, address, up, down>>

ConsoleNextAddress(a) ==
  /\ At(a) = {}
  /\ next_address' = a
  /\ UNCHANGED <<devices, binds, links, address, up, down>>

\* The unit lists kept for an address: the base's own for its own address.
Entry(a) == IF a = BASE_ADDR THEN {BaseUnits} ELSE {d.units : d \in At(a)}

\* Whether a unit has the interface in role r; "any" asks for no interface.
Plays(unit, r) == r \in {"any", unit.profile} \cup Range(unit.itfs)

\* Whether there is a unit u at address a and the first one plays r.
HasInterface(a, u, r) ==
  \E units \in Entry(a) : \E i \in DOMAIN units :
    /\ units[i].id = u /\ \A j \in 1..(i - 1) : units[j].id # u
    /\ Plays(units[i], r)

Complement(r) ==
  CASE r = "any" -> "any" [] r = "client" -> "server" [] r = "server" -> "client"

\* The checks made before a bind row is saved.
BindAllowed(b) ==
  /\ HasInterface(b.destination.device, b.destination.unit, b.itf)
  /\ \/ b.source.device = BROADCAST_ADDR
     \/ b.source.unit = BROADCAST_UNIT
     \/ HasInterface(b.source.device, b.source.unit, Complement(b.itf))

AddBind(b) ==
  /\ Cardinality(binds) < MaxBinds
  /\ BindAllowed(b)
  /\ binds' = binds \cup {b}
  /\ UNCHANGED <<devices, next_address, links, address, up, down>>

RemoveBind(b) ==
  /\ b \in binds
  /\ binds' = binds \ {b}
  /\ UNCHANGED <<devices, next_address, links, address, up, down>>

-----------------------------------------------------------------------------
(* Restarts of the base application.  Each change of a table rewrites the  *)
(* file, so a restart finds the tables as they were; links are lost.       *)

BaseDown ==
  /\ links' = <<>> /\ next_address' = BROADCAST_ADDR
  /\ up' = [n \in Nodes |-> <<>>] /\ down' = [n \in Nodes |-> <<>>]
  /\ UNCHANGED address

\* The orders in which the file may hold the entries.
Files == Bijection(1..Cardinality(devices), devices)

\* Reading a list into one that is not cleared: as many elements are pushed as
\* there are to read, and those at the head are written over.
Over(new, old, blank) ==
  [i \in 1..(Len(new) + Len(old)) |->
     IF i <= Len(new) THEN new[i] ELSE IF i <= Len(old) THEN old[i] ELSE blank]

\* A unit is read over the one that stood in its place, and its optional
\* interfaces over that unit's.
UnitOver(unit, old, i) ==
  [unit EXCEPT !.itfs = Over(@, IF i <= Len(old) THEN old[i].itfs ELSE <<>>, "blank")]

UnitsOver(new, old) ==
  Over([i \in 1..Len(new) |-> UnitOver(new[i], old, i)], old, Blank)

\* One Device object is filled for every entry of the file and its list of
\* units is never cleared: an entry comes back with its own units first, and
\* after them what earlier entries left in the list.
UnitsRead(file) ==
  LET read[i \in 0..Cardinality(devices)] ==
        IF i = 0 THEN <<>> ELSE UnitsOver(file[i].units, read[i - 1])
  IN  read

\* The bound on what restarts pile up in the lists.
Bounded(units) ==
  Len(units) <= MaxUnits /\ \A i \in 1..Len(units) : Len(units[i].itfs) <= MaxUnits

Restore ==
  \E file \in Files :
    /\ \A i \in 1..Cardinality(devices) : Bounded(UnitsRead(file)[i])
    /\ devices' = {[file[i] EXCEPT !.units = UnitsRead(file)[i]] :
                     i \in 1..Cardinality(devices)}

RestartBase ==
  /\ Restore
  /\ UNCHANGED binds
  /\ BaseDown

\* The application dies in Deregister after some of the rows were destroyed,
\* before the device was.
CrashInDeregister(a) ==
  /\ At(a) # {}
  /\ \E rows \in SUBSET BindsOf(a) : binds' = binds \ rows
  /\ Restore
  /\ BaseDown

\* Save truncates the file before it writes it: dying in between leaves
\* nothing to restore.
CrashInSave ==
  /\ devices' = {} /\ binds' = {}
  /\ BaseDown

-----------------------------------------------------------------------------
BaseReceives(n) == RegisterDevice(n) \/ DeregisterDevice(n)
NodeReceives(n) == ReceiveRegisterResponse(n) \/ ReceiveDeregisterResponse(n)

Next ==
  \/ \E n \in Nodes :
       \/ BaseReceives(n) \/ NodeReceives(n)
       \/ Connect(n) \/ SendRegister(n)
       \/ "deregister" \in Environment /\ SendDeregister(n)
       \/ "disconnect" \in Environment /\ Disconnect(n)
       \/ "node_restart" \in Environment /\ RestartNode(n)
  \/ \E b \in Rows : AddBind(b) \/ RemoveBind(b)
  \/ /\ "console" \in Environment
     /\ \E a \in DeviceAddresses : ConsoleDeregister(a) \/ ConsoleNextAddress(a)
  \/ /\ "base_restart" \in Environment
     /\ RestartBase \/ \E a \in DeviceAddresses : CrashInDeregister(a)
  \/ "torn_save" \in Environment /\ CrashInSave

Spec == Init /\ [][Next]_vars

\* The event loops of the base and of each node keep reading their links.
FairSpec ==
  Spec /\ \A n \in Nodes : WF_vars(BaseReceives(n)) /\ WF_vars(NodeReceives(n))

-----------------------------------------------------------------------------
(* Properties.                                                             *)

\* Every variable holds what the code's types and bounds allow.
TypeOK ==
  /\ devices \subseteq Device
  /\ next_address \in Addresses
  /\ binds \subseteq Bind
  /\ links \in Seq([uid : Nodes, address : Addresses])
  /\ address \in [Nodes -> Addresses]
  /\ up \in [Nodes -> Seq(UpMessage)]
  /\ down \in [Nodes -> Seq(DownMessage)]

\* No two entries of the registration table share an address or a UID, however
\* registrations, forced addresses, deregistrations and restarts interleave
\* (register_device looks the UID up, next_address picks the address).
UniqueDevices ==
  \A d, e \in devices : d.address = e.address \/ d.uid = e.uid => d = e

\* Registering a device never throws another out of the table: Entries::save
\* erases whoever holds the address it is given.
NobodyEvicted ==
  [][(\E n \in Nodes : Of(n) # {} /\ Of(n)' = {}) => devices' \subseteq devices]_vars

\* Each bind row sends to a registered device or the base, and comes from one
\* unless it is a catch-all: a device that leaves, in a crash too, leaves no row behind for
\* the next holder of its address to inherit.
BindsResolve ==
  \A b \in binds :
    /\ Entry(b.destination.device) # {}
    /\ b.source.unit # BROADCAST_UNIT /\ b.source.device # BROADCAST_ADDR
         => Entry(b.source.device) # {}

\* A link whose device is registered carries that device's address, whether
\* the link or the registration came first.
LinksTagged ==
  \A i \in DOMAIN links :
    Of(links[i].uid) # {} => links[i].address = AddressOf(links[i].uid)

\* While no device is deregistered, an address a node believes in is the one
\* the base has for it, through closed links, lost responses, repeated
\* registrations and restarts of either side.
BeliefsHold ==
  \A n \in Nodes : address[n] # BROADCAST_ADDR => address[n] = AddressOf(n)

\* A REGISTER that is on its way ends with node and base agreeing on an
\* address, unless the link goes down or the table is full.
RegistrationCompletes ==
  \A n \in Nodes :
    (\E i \in DOMAIN up[n] : up[n][i].type = "REGISTER")
      ~> \/ Of(n) # {} /\ address[n] = AddressOf(n)
         \/ ~Linked(n)
         \/ Of(n) = {} /\ Free = {}
=============================================================================
