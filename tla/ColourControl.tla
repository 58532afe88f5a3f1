---------------------------- MODULE ColourControl ----------------------------
(***************************************************************************)
(* The colour control interface (ColourControl::Server): lights that take  *)
(* on a colour at once, step by step within a time, or keep on moving.     *)
(*                                                                         *)
(* The moves under way (transitions) of all servers of a process are in    *)
(* one list.  The application learns from the front of the list when to    *)
(* call transition(), which lets that much time pass for every move.       *)
(* Times are in units of 100 ms.                                           *)
(***************************************************************************)
EXTENDS Integers, Sequences, FiniteSets

CONSTANTS
  Servers,
  Hues,            \* 360
  Byte, Word,      \* 2^8 and 2^16: saturation; the other values, and times
  Second,          \* the period of moves without an end, 10
  Colours,         \* the colours at the start
  Messages,        \* the commands that are sent
  MaxTransitions,  \* bound: moves under way
  MaxCommands      \* bound: commands received

Coordinates == {"hue", "saturation", "X", "Y", "temperature"}
Top(c) == IF c = "hue" THEN Hues - 1 ELSE IF c = "saturation" THEN Byte - 1 ELSE Word - 1
Colour == {col \in [Coordinates -> 0..(Word - 1)] : \A c \in Coordinates : col[c] <= Top(c)}

Commands == {"MOVE_TO_HUE", "MOVE_HUE", "STEP_HUE", "MOVE_TO_SATURATION", "MOVE_SATURATION",
  "STEP_SATURATION", "MOVE_TO_HUE_AND_SATURATION", "MOVE_TO_XY", "MOVE_XY", "STEP_XY",
  "MOVE_TO_COLOUR_TEMPERATURE", "STOP"}
Directions == {"UP", "DOWN", "SHORTEST", "LONGEST"}

\* The fields of a command besides its direction and time.
Arguments(cmd) ==
  CASE cmd = "MOVE_TO_HUE"                            -> {"hue"}
    [] cmd = "MOVE_TO_SATURATION"                     -> {"saturation"}
    [] cmd = "MOVE_TO_HUE_AND_SATURATION"             -> {"hue", "saturation"}
    [] cmd \in {"MOVE_HUE", "MOVE_SATURATION"}        -> {"rate"}
    [] cmd \in {"STEP_HUE", "STEP_SATURATION"}        -> {"step_size"}
    [] cmd = "MOVE_TO_XY"                             -> {"X", "Y"}
    [] cmd = "MOVE_XY"                                -> {"X_rate", "Y_rate"}
    [] cmd = "STEP_XY"                                -> {"X_step", "Y_step"}
    [] cmd = "MOVE_TO_COLOUR_TEMPERATURE"             -> {"colour"}
    [] cmd = "STOP"                                   -> {}

ASSUME SizeAssumption ==
  /\ {Hues, Byte, Word} \subseteq Nat \ {0} /\ Hues <= Word /\ Word % Byte = 0
  /\ Second \in 1..(Word - 1)
ASSUME ColoursAssumption == Colours \subseteq Colour
ASSUME MessagesAssumption ==
  \A m \in Messages :
    /\ m.cmd \in Commands /\ m.direction \in Directions /\ m.time \in 0..(Word - 1)
    /\ \A f \in Arguments(m.cmd) : m[f] \in Int
ASSUME BoundsAssumption == MaxTransitions \in Nat /\ MaxCommands \in Nat

VARIABLES
  colour,       \* server -> the colour attributes
  mode,         \* server -> the mode attribute
  transitions,  \* the moves under way, of all servers
  goal,         \* history: server -> what the colour is to become, if that is known
  commands      \* bound: commands received so far

vars == <<colour, mode, transitions, goal, commands>>

Init ==
  /\ colour \in [Servers -> Colours]
  /\ mode = [s \in Servers |-> "NONE"]
  /\ transitions = <<>>
  /\ goal = [s \in Servers |-> {}]
  /\ commands = 0

-----------------------------------------------------------------------------
(* Values.                                                                 *)

Abs(n) == IF n < 0 THEN -n ELSE n

\* Mutant: cut off instead of rounded.
Cut(a, b) == IF a >= 0 THEN a \div b ELSE -((-a) \div b)

\* round(a / b): half away from zero.
Round(a, b) == IF a >= 0 THEN (2 * a + b) \div (2 * b) ELSE -((b - 2 * a) \div (2 * b))

\* Mutant: hues are stored as they are.
Wrapped(c, n) == IF c = "saturation" THEN n % Byte ELSE n % Word

\* What becomes of an integer that is stored: values wrap, a hue is then cut off.
Stored(c, n) ==
  CASE c = "saturation" -> n % Byte
    [] c = "hue" /\ n % Word >= Hues -> Hues - 1
    [] OTHER -> n % Word

\* The values of a colour with those in some of its coordinates replaced.
With(col, new) == [c \in Coordinates |-> IF c \in DOMAIN new THEN Stored(c, new[c]) ELSE col[c]]

invert_angle(angle, max) ==
  LET rest == (max - Abs(angle)) % max IN IF angle >= 0 THEN -rest ELSE rest

get_travel_distance(direction, initial, final, max) ==
  LET dist == (final - initial) % max
      back == invert_angle(dist, max)
  IN CASE direction = "UP"       -> dist
       [] direction = "DOWN"     -> back
       [] direction = "SHORTEST" -> IF dist <= max \div 2 THEN dist ELSE back
       [] direction = "LONGEST"  -> IF dist > max \div 2 THEN dist ELSE back

Directed(m, n) == IF m.direction = "UP" THEN n ELSE -n

-----------------------------------------------------------------------------
(* A transition changes some coordinates by a step in each of its periods; *)
(* n_steps more times, when it has an end, and once to the end.  History:  *)
(* the time it was given, and how much has passed; whether it began behind *)
(* a move that had longer to wait.                                         *)

Finite(s, step, end, time) ==
  [server |-> s, continuous |-> FALSE, period |-> IF time = 0 THEN 0 ELSE 1,
   remaining_time |-> 1, step |-> step, end |-> end,
   n_steps |-> IF time = 0 THEN 0 ELSE time - 1,
   time |-> time, elapsed |-> 0,
   behind |-> \E i \in DOMAIN transitions : transitions[i].remaining_time > 1]

Continuous(s, step) ==
  [server |-> s, continuous |-> TRUE, period |-> Second, remaining_time |-> Second,
   step |-> step, end |-> step, n_steps |-> 0, time |-> 0, elapsed |-> 0, behind |-> FALSE]

\* Mutant: the last run is a step like the others.
PaintedByStep(t, col) == With(col, [c \in DOMAIN t.step |-> col[c] + t.step[c]])

\* One run: what it does to the colour of its server, and to itself.
Painted(t, col) ==
  IF t.continuous \/ t.n_steps # 0
  THEN With(col, [c \in DOMAIN t.step |-> col[c] + t.step[c]])
  ELSE With(col, t.end)

Ran(t) ==
  CASE t.continuous -> t
    [] ~t.continuous /\ t.n_steps # 0 -> [t EXCEPT !.n_steps = @ - 1]
    [] OTHER -> [t EXCEPT !.period = 0]

\* Unsigned: a time that is too long for the transition wraps.
Remaining(t, time) == (t.remaining_time - time) % Word

runs(t, time) == Remaining(t, time) = 0

run(t, time) ==
  LET waited == [t EXCEPT !.elapsed = IF t.continuous THEN 0 ELSE @ + time,
                          !.remaining_time = Remaining(t, time)]
  IN IF runs(t, time) THEN Ran([waited EXCEPT !.remaining_time = t.period]) ELSE waited

next(t) == t.period # 0

-----------------------------------------------------------------------------
(* Commands.                                                               *)

Of(s) == {i \in DOMAIN transitions : transitions[i].server = s}

\* A new transition runs at once and is added if it goes on.
Start(s, t, new_mode) ==
  /\ colour' = [colour EXCEPT ![s] = Painted(t, @)]
  /\ mode' = [mode EXCEPT ![s] = new_mode]
  /\ transitions' = IF next(Ran(t)) THEN Append(transitions, Ran(t)) ELSE transitions

\* History: the end is known if no other transition of the server is under way.
Aim(s, dist, end) ==
  goal' = [goal EXCEPT ![s] =
             IF Of(s) = {} THEN {[from |-> colour[s], dist |-> dist, end |-> end]} ELSE {}]

\* A move with an end; refused (FAIL_ARG) when the steps would all be zero.
MoveBy(s, new_mode, dist, end, time) ==
  LET step == [c \in DOMAIN dist |-> IF time = 0 THEN 0 ELSE Round(dist[c], time)]
  IN IF time # 0 /\ \A c \in DOMAIN step : step[c] = 0
     THEN UNCHANGED <<colour, mode, transitions, goal>>
     ELSE Start(s, Finite(s, step, end, time), new_mode) /\ Aim(s, dist, end)

KeepMoving(s, new_mode, step) ==
  /\ Start(s, Continuous(s, step), new_mode)
  /\ goal' = [goal EXCEPT ![s] = {}]

move_to_hue(s, m) ==
  MoveBy(s, "HS", [hue |-> get_travel_distance(m.direction, colour[s]["hue"], m.hue, Hues)],
         [hue |-> m.hue], m.time)

move_hue(s, m) == KeepMoving(s, "HS", [hue |-> Directed(m, m.rate)])

step_hue(s, m) ==
  LET step == Directed(m, m.step_size)
  IN MoveBy(s, "HS", [hue |-> step], [hue |-> colour[s]["hue"] + step], m.time)

\* The distance is the saturation to move to, wherever the move begins.
move_to_saturation(s, m) ==
  MoveBy(s, "HS", [saturation |-> Directed(m, m.saturation)], [saturation |-> m.saturation], m.time)

move_saturation(s, m) == KeepMoving(s, "HS", [saturation |-> Directed(m, m.rate)])

step_saturation(s, m) ==
  LET step == Directed(m, m.step_size)
  IN MoveBy(s, "HS", [saturation |-> step], [saturation |-> colour[s]["saturation"] + step], m.time)

move_to_hue_and_saturation(s, m) ==
  MoveBy(s, "HS",
         [hue |-> get_travel_distance(m.direction, colour[s]["hue"], m.hue, Hues),
          saturation |-> get_travel_distance(m.direction, colour[s]["saturation"], m.saturation, Byte)],
         [hue |-> m.hue, saturation |-> m.saturation], m.time)

move_to_xy(s, m) ==
  MoveBy(s, "XY", [X |-> m.X - colour[s]["X"], Y |-> m.Y - colour[s]["Y"]],
         [X |-> m.X, Y |-> m.Y], m.time)

move_xy(s, m) == KeepMoving(s, "XY", [X |-> m.X_rate, Y |-> m.Y_rate])

step_xy(s, m) ==
  MoveBy(s, "XY", [X |-> m.X_step, Y |-> m.Y_step],
         [X |-> colour[s]["X"] + m.X_step, Y |-> colour[s]["Y"] + m.Y_step], m.time)

move_to_colour_temperature(s, m) ==
  MoveBy(s, "TEMPERATURE", [temperature |-> m.colour - colour[s]["temperature"]],
         [temperature |-> m.colour], m.time)

\* The positions in kept, in their order.
Positions(kept) ==
  {p \in [1..Cardinality(kept) -> kept] : \A i, j \in DOMAIN p : i < j => p[i] < p[j]}

\* Mutant: only the first of its transitions is removed.
remove_first(s) ==
  LET first == {i \in Of(s) : \A j \in Of(s) : i <= j}
  IN {[i \in DOMAIN p |-> transitions[p[i]]] : p \in Positions(DOMAIN transitions \ first)}

\* The transitions of the other servers, in their order (one way).
remove(s) ==
  {[i \in DOMAIN p |-> transitions[p[i]]] : p \in Positions(DOMAIN transitions \ Of(s))}

stop(s) ==
  /\ transitions' \in remove(s)
  /\ goal' = [goal EXCEPT ![s] = {[from |-> colour[s], dist |-> <<>>, end |-> <<>>]}]
  /\ UNCHANGED <<colour, mode>>

handle_command(s, m) ==
  \/ m.cmd = "MOVE_TO_HUE" /\ move_to_hue(s, m)
  \/ m.cmd = "MOVE_HUE" /\ move_hue(s, m)
  \/ m.cmd = "STEP_HUE" /\ step_hue(s, m)
  \/ m.cmd = "MOVE_TO_SATURATION" /\ move_to_saturation(s, m)
  \/ m.cmd = "MOVE_SATURATION" /\ move_saturation(s, m)
  \/ m.cmd = "STEP_SATURATION" /\ step_saturation(s, m)
  \/ m.cmd = "MOVE_TO_HUE_AND_SATURATION" /\ move_to_hue_and_saturation(s, m)
  \/ m.cmd = "MOVE_TO_XY" /\ move_to_xy(s, m)
  \/ m.cmd = "MOVE_XY" /\ move_xy(s, m)
  \/ m.cmd = "STEP_XY" /\ step_xy(s, m)
  \/ m.cmd = "MOVE_TO_COLOUR_TEMPERATURE" /\ move_to_colour_temperature(s, m)
  \/ m.cmd = "STOP" /\ stop(s)

Command(s, m) ==
  /\ commands < MaxCommands /\ Len(transitions) < MaxTransitions
  /\ commands' = commands + 1
  /\ handle_command(s, m)

-----------------------------------------------------------------------------
(* Time.                                                                   *)

\* Mutant: they are left in the order they are in.
Unsorted(ran, kept) == Positions(kept)

\* The ways to sort the transitions that go on by their remaining time.
Sorted(ran, kept) ==
  {p \in [1..Cardinality(kept) -> kept] :
     \A i, j \in DOMAIN p :
       i < j => p[i] # p[j] /\ ran[p[i]].remaining_time <= ran[p[j]].remaining_time}

\* The colours after the transitions up to the i-th have run.
Painting(time_step) ==
  LET after[i \in 0..Len(transitions)] ==
        IF i = 0 THEN colour
        ELSE LET t == transitions[i]
             IN IF runs(t, time_step)
                THEN [after[i - 1] EXCEPT ![t.server] = Painted(t, @)] ELSE after[i - 1]
  IN after[Len(transitions)]

\* The application calls this when the time of the first one has passed.
Transition ==
  /\ transitions # <<>>
  /\ LET time_step == transitions[1].remaining_time
         ran == [i \in DOMAIN transitions |-> run(transitions[i], time_step)]
     IN /\ \E p \in Sorted(ran, {i \in DOMAIN ran : next(ran[i])}) :
             transitions' = [i \in DOMAIN p |-> ran[p[i]]]
        /\ colour' = Painting(time_step)
  /\ UNCHANGED <<mode, goal, commands>>

Next ==
  \/ \E s \in Servers, m \in Messages : Command(s, m)
  \/ Transition

Spec == Init /\ [][Next]_vars

-----------------------------------------------------------------------------
(* Properties.                                                             *)

\* Colours stay in their ranges, through all steps that wrap or are cut off.
TypeOK ==
  /\ \A s \in Servers : \A c \in Coordinates : colour[s][c] \in 0..Top(c)
  /\ mode \in [Servers -> {"NONE", "HS", "XY", "TEMPERATURE"}]
  /\ \A i \in DOMAIN transitions :
       LET t == transitions[i]
       IN /\ t.server \in Servers
          /\ t.remaining_time \in 1..(Word - 1) /\ t.n_steps \in 0..(Word - 1)
          /\ t.period = IF t.continuous THEN Second ELSE 1

\* The units a move has taken so far, and those that it is still to take.
Total(t) == t.elapsed + t.remaining_time + t.n_steps

\* Whatever other moves of any light are started, stopped and sorted meanwhile, a
\* move that was given the time T is at its end T - 1 units after the command (its
\* first run is at once) - or exactly one turn of its counter later if it began
\* behind a slower one, when transition() lets more time pass than it waits for.
KeepsTime ==
  \A i \in DOMAIN transitions :
    LET t == transitions[i]
    IN ~t.continuous => \/ Total(t) = t.time - 1
                        \/ t.behind /\ Total(t) = t.time - 1 + Word

\* A move that was alone ends at what was asked for, with the other values as
\* they were, whatever rounding, wrapping and stopping of others did meanwhile.
Arrives ==
  \A s \in Servers : \A g \in goal[s] : Of(s) = {} => colour[s] = With(g.from, g.end)

\* After STOP the colour stays as it is until the next command, also when the
\* server had several moves under way and those of other servers go on.
StaysStopped ==
  \A s \in Servers : \A g \in goal[s] : DOMAIN g.end = {} => colour[s] = g.from

\* Have the steps of a move so far stayed in the range?  (A hue that goes up over
\* the end of its range waits there, other values begin again at the other end.)
WithinRange(t, g, c) == g.from[c] + (t.time - 1 - t.n_steps) * t.step[c] \in 0..Top(c)

\* A move that is alone follows the straight line of the distance that it is given,
\* until it comes to the end of a range, to within half a unit for each step that
\* it took: rounding does not add up to more, nor does another move disturb it.
OnCourse ==
  \A s \in Servers : \A g \in goal[s] : \A i \in Of(s) :
    LET t == transitions[i]
        k == t.time - 1 - t.n_steps
    IN \A c \in DOMAIN g.dist :
         WithinRange(t, g, c) => 2 * Abs(t.time * (colour[s][c] - g.from[c]) - k * g.dist[c]) <= k * t.time
=============================================================================
