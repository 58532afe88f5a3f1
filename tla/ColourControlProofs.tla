------------------------- MODULE ColourControlProofs -------------------------
(***************************************************************************)
(* For any number of lights, colours and moves: the colour stays in range  *)
(* (TypeOK), a move with an end is over when it should be (KeepsTime),     *)
(* follows its line (OnCourse) and ends at the colour asked for (Arrives), *)
(* and nothing moves a light that was stopped (StaysStopped).              *)
(*                                                                         *)
(* Time (IInv): a move that did not begin behind a slower one has only     *)
(* moves before it in the list that wait for one unit, as it does; so the  *)
(* front of the list, which says how much time passes, lets one unit pass. *)
(* More than a move waits for can pass only the first time: from then on   *)
(* the list is sorted up to that move, and the front waits no longer.      *)
(* Colours (TInv): every move in the list changes coordinates of one kind  *)
(* by whole steps, and every colour written is brought into range.         *)
(* Ends (AInv): a light with a goal has at most one move in the list, the  *)
(* one that was asked for; its colour is what the steps made so far say,   *)
(* and when the move has left the list the colour is the end.              *)
(***************************************************************************)
EXTENDS ColourControl, TLAPS, FiniteSetTheorems, FunctionTheorems, SequenceTheorems,
        WellFoundedInduction

Fields == {"server", "continuous", "period", "remaining_time", "step", "end", "n_steps",
           "time", "elapsed", "behind"}

\* A transition in the list: it waits, and has a period.
Waiting(t) ==
  /\ DOMAIN t = Fields /\ t = [f \in Fields |-> t[f]]
  /\ t.continuous \in BOOLEAN /\ t.behind \in BOOLEAN
  /\ t.period \in 1..(Word - 1) /\ t.remaining_time \in 1..(Word - 1)
  /\ t.time \in Nat /\ t.elapsed \in Nat /\ t.n_steps \in Nat
  /\ ~t.continuous => t.period = 1

\* A move that did not begin behind a slower one.
Prompt(t) == ~t.continuous /\ ~t.behind

InTime(t) == Total(t) = t.time - 1
TurnLater(t) == Total(t) = t.time - 1 + Word

\* A move with an end is in time, or a turn of the counter behind - not at first.
OnTime(t) ==
  ~t.continuous =>
    /\ InTime(t) \/ (t.behind /\ TurnLater(t))
    /\ t.elapsed = 0 => t.remaining_time = 1 /\ InTime(t)

IInv ==
  /\ transitions \in Seq({transitions[i] : i \in DOMAIN transitions})
  /\ \A i \in DOMAIN transitions : Waiting(transitions[i]) /\ OnTime(transitions[i])
  /\ \A i \in DOMAIN transitions :
       /\ Prompt(transitions[i]) => \A j \in 1..i : transitions[j].remaining_time = 1
       /\ transitions[i].elapsed > 0 =>
            \A j \in 1..i : transitions[j].remaining_time <= transitions[i].remaining_time

-----------------------------------------------------------------------------
(* Lists.                                                                  *)

\* A list written down by its elements is a sequence of them.
LEMMA ListIsSeq ==
  ASSUME NEW n \in Nat, NEW F, F = [i \in 1..n |-> F[i]]
  PROVE  F \in Seq({F[i] : i \in DOMAIN F}) /\ Len(F) = n /\ DOMAIN F = 1..n
  OBVIOUS

\* The numbers of elements to keep.
LEMMA KeptSize ==
  ASSUME NEW n \in Nat, NEW kept \in SUBSET (1..n)
  PROVE  Cardinality(kept) \in Nat
  <1>1. IsFiniteSet(1..n)
    BY FS_Interval
  <1>2. IsFiniteSet(kept)
    BY <1>1, FS_Subset
  <1> QED BY <1>2, FS_CardinalityType

-----------------------------------------------------------------------------
(* Counting and recursion.                                                 *)

\* A set that holds 0 and, with each number below n, the next: it has all up to n.
LEMMA UpTo ==
  ASSUME NEW n \in Nat, NEW S, 0 \in S, \A i \in 0..n : i \in S /\ i < n => i + 1 \in S
  PROVE  \A i \in 0..n : i \in S
  <1> DEFINE T == (0..n) \ S
  <1> SUFFICES ASSUME T # {} PROVE FALSE
    OBVIOUS
  <1>1. T \subseteq Nat
    OBVIOUS
  <1> HIDE DEF T
  <1>2. PICK a \in T : \A b \in T : ~(<<b, a>> \in OpToRel(<, Nat))
    BY <1>1, WFMin, NatLessThanWellFounded
  <1>3. a \in 0..n /\ a \notin S
    BY DEF T
  <1>4. a # 0
    BY <1>3
  <1>5. a - 1 \in T
    BY <1>3, <1>4 DEF T
  <1>6. <<a - 1, a>> \in Nat \X Nat /\ <<a - 1, a>>[1] < <<a - 1, a>>[2]
    BY <1>3, <1>4
  <1>7. <<a - 1, a>> \in OpToRel(<, Nat)
    BY <1>6, Zenon DEF OpToRel
  <1> QED
    BY <1>2, <1>5, <1>7

\* A list of the numbers to keep that names none twice leaves none out.
LEMMA Onto ==
  ASSUME NEW n \in Nat, NEW kept \in SUBSET (1..n), NEW p \in [1..Cardinality(kept) -> kept],
         \A i, j \in DOMAIN p : i < j => p[i] # p[j]
  PROVE  \A k \in kept : \E i \in DOMAIN p : p[i] = k
  <1> DEFINE size == Cardinality(kept)
  <1>1. size \in Nat
    BY KeptSize
  <1>2. IsFiniteSet(kept)
    <2>1. IsFiniteSet(1..n)
      BY FS_Interval
    <2> QED BY <2>1, FS_Subset
  <1> HIDE DEF size
  <1>3. p \in [1..size -> kept] /\ \A i, j \in 1..size : i < j => p[i] # p[j]
    BY DEF size
  <1>4. \A i, j \in 1..size : p[i] = p[j] => i = j
    <2> SUFFICES ASSUME NEW i \in 1..size, NEW j \in 1..size, i # j PROVE p[i] # p[j]
      OBVIOUS
    <2>1. i < j \/ j < i
      BY <1>1
    <2> QED BY <1>3, <2>1
  <1>5. p \in Injection(1..size, kept)
    BY <1>3, <1>4, Fun_IsInj
  <1>6. IsFiniteSet(1..size) /\ Cardinality(1..size) = size
    BY <1>1, FS_Interval
  <1>7. p \in Surjection(1..size, kept)
    BY <1>2, <1>5, <1>6, FS_Injection DEF size
  <1>8. \A k \in kept : \E i \in 1..size : p[i] = k
    BY <1>7 DEF Surjection
  <1>9. DOMAIN p = 1..size
    BY <1>3
  <1> QED BY <1>8, <1>9

\* What a transition does to the colours, as the loop of transition() has it.
Paint(before, t, time_step) ==
  IF runs(t, time_step) THEN [before EXCEPT ![t.server] = Painted(t, @)] ELSE before

\* The colours after each transition exist, and the last of them are Painting.
LEMMA PaintingUnfolds ==
  ASSUME NEW n \in Nat, Len(transitions) = n, NEW time_step
  PROVE  \E after :
           /\ after = [i \in 0..n |-> IF i = 0 THEN colour
                                      ELSE Paint(after[i - 1], transitions[i], time_step)]
           /\ Painting(time_step) = after[n]
  <1> DEFINE Run(after, m) ==
               after = [i \in 0..m |-> IF i = 0 THEN colour
                                       ELSE Paint(after[i - 1], transitions[i], time_step)]
             S == {m \in 0..n : \E after : Run(after, m)}
  <1>1. 0 \in S
    <2>1. Run([i \in 0..0 |-> colour], 0)
      OBVIOUS
    <2> HIDE DEF Run
    <2> QED BY <2>1
  <1>2. ASSUME NEW m \in 0..n, m \in S, m < n PROVE m + 1 \in S
    <2>1. PICK f : Run(f, m)
      BY <1>2
    <2> DEFINE g == [i \in 0..(m + 1) |-> IF i <= m THEN f[i]
                                          ELSE Paint(f[m], transitions[m + 1], time_step)]
    <2>2. Run(g, m + 1)
      <3>1. ASSUME NEW i \in 0..(m + 1)
            PROVE  g[i] = IF i = 0 THEN colour ELSE Paint(g[i - 1], transitions[i], time_step)
        <4>1. CASE i = m + 1
          BY <4>1
        <4>2. CASE i <= m
          BY <4>2, <2>1
        <4> QED BY <4>1, <4>2
      <3> QED BY <3>1
    <2> HIDE DEF Run, g
    <2>3. \E after : Run(after, m + 1)
      BY <2>2
    <2> QED BY <1>2, <2>3
  <1>3. n \in S
    <2> HIDE DEF S
    <2> QED BY <1>1, <1>2, UpTo
  <1>4. \E after : Run(after, n)
    BY <1>3
  <1>5. Run(CHOOSE after : Run(after, n), n)
    <2> HIDE DEF Run
    <2> QED BY <1>4
  <1>6. Painting(time_step) = (CHOOSE after : Run(after, n))[n]
    BY DEF Painting, Paint
  <1> QED BY <1>5, <1>6

-----------------------------------------------------------------------------
(* Values.                                                                 *)

\* Values are stored in their range, and those that are in it as they are.
LEMMA StoredInRange ==
  ASSUME SizeAssumption, NEW c \in Coordinates, NEW n \in Int
  PROVE  /\ Stored(c, n) \in 0..Top(c) /\ Top(c) \in 0..(Word - 1)
         /\ n \in 0..Top(c) => Stored(c, n) = n
  <1>1. /\ Hues \in Nat \ {0} /\ Byte \in Nat \ {0} /\ Word \in Nat \ {0}
        /\ Hues <= Word /\ Word % Byte = 0
    BY DEF SizeAssumption
  <1>2. Byte <= Word
    BY <1>1
  <1>3. n % Word \in 0..(Word - 1) /\ (n \in 0..(Word - 1) => n % Word = n)
    BY <1>1
  <1>4. n % Byte \in 0..(Byte - 1) /\ (n \in 0..(Byte - 1) => n % Byte = n)
    BY <1>1
  <1>5. CASE c = "hue"
    BY <1>1, <1>3, <1>5 DEF Stored, Top
  <1>6. CASE c = "saturation"
    BY <1>1, <1>2, <1>4, <1>6 DEF Stored, Top
  <1>7. CASE c # "hue" /\ c # "saturation"
    BY <1>1, <1>3, <1>7 DEF Stored, Top
  <1> QED BY <1>5, <1>6, <1>7

\* What a colour is: a value in its range for each coordinate.
LEMMA ColourIs ==
  ASSUME SizeAssumption, NEW col
  PROVE  col \in Colour <=> /\ col = [c \in Coordinates |-> col[c]]
                            /\ \A c \in Coordinates : col[c] \in 0..Top(c)
  <1>1. \A c \in Coordinates : Top(c) \in 0..(Word - 1)
    BY StoredInRange
  <1>2. Word \in Nat
    BY DEF SizeAssumption
  <1> HIDE DEF Coordinates
  <1>3. ASSUME col \in Colour
        PROVE  /\ col = [c \in Coordinates |-> col[c]]
               /\ \A c \in Coordinates : col[c] \in 0..Top(c)
    BY <1>1, <1>2, <1>3 DEF Colour
  <1>4. ASSUME col = [c \in Coordinates |-> col[c]], \A c \in Coordinates : col[c] \in 0..Top(c)
        PROVE  col \in Colour
    BY <1>1, <1>2, <1>4 DEF Colour
  <1> QED BY <1>3, <1>4

\* A colour some of whose values are replaced by numbers is a colour.
LEMMA WithIsColour ==
  ASSUME SizeAssumption, NEW col \in Colour, NEW new, \A c \in DOMAIN new : new[c] \in Int
  PROVE  With(col, new) \in Colour
  <1> DEFINE w == With(col, new)
  <1>1. w = [c \in Coordinates |-> w[c]]
    BY DEF With
  <1>2. ASSUME NEW c \in Coordinates PROVE w[c] \in 0..Top(c)
    <2>1. w[c] = IF c \in DOMAIN new THEN Stored(c, new[c]) ELSE col[c]
      BY DEF With
    <2>2. col[c] \in 0..Top(c)
      BY ColourIs
    <2>3. c \in DOMAIN new => Stored(c, new[c]) \in 0..Top(c)
      BY StoredInRange
    <2> QED BY <2>1, <2>2, <2>3
  <1> HIDE DEF w
  <1>3. w \in Colour
    BY <1>1, <1>2, ColourIs
  <1> QED BY <1>3 DEF w

\* One run leaves a colour.
LEMMA PaintedIsColour ==
  ASSUME SizeAssumption, NEW col \in Colour, NEW t,
         DOMAIN t.step \subseteq Coordinates,
         \A c \in DOMAIN t.step : t.step[c] \in Int, \A c \in DOMAIN t.end : t.end[c] \in Int
  PROVE  Painted(t, col) \in Colour
  <1> DEFINE new == [c \in DOMAIN t.step |-> col[c] + t.step[c]]
  <1>1. \A c \in DOMAIN new : new[c] \in Int
    <2> SUFFICES ASSUME NEW c \in DOMAIN t.step PROVE col[c] + t.step[c] \in Int
      OBVIOUS
    <2>1. col[c] \in 0..Top(c) /\ Top(c) \in 0..(Word - 1)
      BY ColourIs, StoredInRange
    <2> QED BY <2>1
  <1> HIDE DEF new
  <1>2. With(col, new) \in Colour
    BY <1>1, WithIsColour
  <1>3. With(col, t.end) \in Colour
    BY WithIsColour
  <1> QED BY <1>2, <1>3 DEF Painted, new

\* Rounding is off by at most a half.
LEMMA RoundWithin ==
  ASSUME NEW a \in Int, NEW b \in Nat \ {0}
  PROVE  /\ Round(a, b) \in Int
         /\ 2 * b * Round(a, b) - 2 * a <= b /\ 2 * a - 2 * b * Round(a, b) <= b
  <1>1. CASE a >= 0
    <2> DEFINE n == 2 * a + b
               d == 2 * b
               q == n \div d
    <2>1. n \in Nat /\ d \in Nat \ {0}
      BY <1>1
    <2>2. q \in Int /\ d * q <= n /\ n < d * q + d
      <3> HIDE DEF n, d
      <3> QED BY <2>1
    <2>3. Round(a, b) = q
      BY <1>1 DEF Round
    <2> HIDE DEF q
    <2> QED BY <2>2, <2>3
  <1>2. CASE a < 0
    <2> DEFINE n == b - 2 * a
               d == 2 * b
               q == n \div d
    <2>1. n \in Nat /\ d \in Nat \ {0}
      BY <1>2
    <2>2. q \in Int /\ d * q <= n /\ n < d * q + d
      <3> HIDE DEF n, d
      <3> QED BY <2>1
    <2>3. Round(a, b) = -q
      BY <1>2 DEF Round
    <2> HIDE DEF q
    <2> QED BY <2>2, <2>3
  <1> QED BY <1>1, <1>2

\* Between two points of the range, a straight line is in the range.
LEMMA LineInRange ==
  ASSUME NEW top \in Nat, NEW a \in 0..top, NEW T \in Nat, NEW k \in 0..T, NEW step \in Int,
         a + T * step \in 0..top
  PROVE  a + k * step \in 0..top
  <1>1. CASE step >= 0
    <2>1. 0 <= k * step /\ k * step <= T * step
      BY <1>1
    <2> QED BY <2>1
  <1>2. CASE step < 0
    <2>1. k * step <= 0 /\ T * step <= k * step
      BY <1>2
    <2> QED BY <2>1
  <1> QED BY <1>1, <1>2

-----------------------------------------------------------------------------
(* One transition.                                                         *)

\* What a transition is after some time: still well formed, unless it is over.
LEMMA RunWaits ==
  ASSUME NEW t, Waiting(t), NEW time \in 1..(Word - 1), Word \in Nat, next(run(t, time))
  PROVE  Waiting(run(t, time)) /\ (run(t, time).behind <=> t.behind)
         /\ (run(t, time).continuous <=> t.continuous)
  <1> DEFINE left == (t.remaining_time - time) % Word
             wait == [t EXCEPT !.elapsed = IF t.continuous THEN 0 ELSE @ + time,
                               !.remaining_time = left]
             again == [wait EXCEPT !.remaining_time = t.period]
  <1>1. left \in 0..(Word - 1)
    BY DEF Waiting
  <1>2. /\ DOMAIN wait = Fields /\ wait = [f \in Fields |-> wait[f]]
        /\ wait.remaining_time = left /\ wait.elapsed \in Nat
        /\ wait.continuous = t.continuous /\ wait.behind = t.behind /\ wait.period = t.period
        /\ wait.time = t.time /\ wait.n_steps = t.n_steps
    <2>1. DOMAIN wait = Fields /\ wait = [f \in Fields |-> wait[f]]
      BY DEF Waiting
    <2>2. wait.remaining_time = left
      BY DEF Waiting, Fields
    <2>3. wait.elapsed = IF t.continuous THEN 0 ELSE t.elapsed + time
      BY DEF Waiting, Fields
    <2>4. wait.elapsed \in Nat
      BY <2>3 DEF Waiting
    <2> QED BY <2>1, <2>2, <2>4 DEF Waiting, Fields
  <1>3. /\ DOMAIN again = Fields /\ again = [f \in Fields |-> again[f]]
        /\ again.remaining_time = t.period /\ again.elapsed \in Nat
        /\ again.continuous = t.continuous /\ again.behind = t.behind /\ again.period = t.period
        /\ again.time = t.time /\ again.n_steps = t.n_steps
    BY <1>2 DEF Waiting, Fields
  <1> HIDE DEF left, wait, again
  <1>4. run(t, time) = IF left = 0 THEN Ran(again) ELSE wait
    BY DEF run, runs, Remaining, wait, again, left
  <1>5. CASE left # 0
    BY <1>1, <1>2, <1>4, <1>5 DEF Waiting
  <1>6. CASE left = 0 /\ t.continuous
    BY <1>3, <1>4, <1>6 DEF Waiting, Ran
  <1>7. CASE left = 0 /\ ~t.continuous /\ t.n_steps # 0
    <2>1. run(t, time) = [again EXCEPT !.n_steps = @ - 1]
      BY <1>3, <1>4, <1>7 DEF Ran
    <2> QED BY <2>1, <1>3, <1>7 DEF Waiting, Fields
  <1>8. CASE left = 0 /\ ~t.continuous /\ t.n_steps = 0
    <2>1. run(t, time) = [again EXCEPT !.period = 0]
      BY <1>3, <1>4, <1>8 DEF Ran
    <2>2. run(t, time).period = 0
      BY <2>1, <1>3 DEF Fields
    <2> QED BY <2>2 DEF next
  <1> QED BY <1>5, <1>6, <1>7, <1>8 DEF Waiting

\* What time does to a move: it goes on as it should, or falls behind by a turn.
LEMMA RunKeepsTime ==
  ASSUME NEW t, Waiting(t), ~t.continuous, OnTime(t), NEW time \in 1..(Word - 1),
         Word \in Nat \ {0}, next(run(t, time)),
         t.behind \/ time = 1, t.elapsed > 0 => time <= t.remaining_time
  PROVE  /\ OnTime(run(t, time))
         /\ time = 1 /\ t.remaining_time = 1 => run(t, time).remaining_time = 1
  <1> DEFINE wait == [t EXCEPT !.elapsed = IF t.continuous THEN 0 ELSE @ + time,
                               !.remaining_time = Remaining(t, time)]
             again == [wait EXCEPT !.remaining_time = 1]
             e == t.elapsed
             w == t.remaining_time
             n == t.n_steps
             r == run(t, time)
  <1>1. /\ DOMAIN wait = Fields /\ wait.remaining_time = Remaining(t, time)
        /\ wait.elapsed = e + time /\ ~wait.continuous /\ wait.behind = t.behind
        /\ wait.time = t.time /\ wait.n_steps = n
    BY DEF Waiting, Fields
  <1>2. /\ DOMAIN again = Fields /\ again.remaining_time = 1
        /\ again.elapsed = e + time /\ ~again.continuous /\ again.behind = t.behind
        /\ again.time = t.time /\ again.n_steps = n
    BY <1>1 DEF Fields
  <1>3. r = IF Remaining(t, time) = 0 THEN Ran(again) ELSE wait
    BY DEF run, runs, Waiting
  <1>4. e \in Nat /\ w \in 1..(Word - 1) /\ n \in Nat /\ t.time \in Nat
    BY DEF Waiting
  <1> HIDE DEF wait, again
  <1>5. CASE time = w
    <2>1. Remaining(t, time) = 0
      BY <1>4, <1>5 DEF Remaining
    <2>2. n # 0
      <3> SUFFICES ASSUME n = 0 PROVE FALSE
        OBVIOUS
      <3>1. r = [again EXCEPT !.period = 0]
        BY <1>2, <1>3, <2>1 DEF Ran
      <3> QED BY <3>1, <1>2 DEF next, Fields
    <2>3. r = [again EXCEPT !.n_steps = @ - 1]
      BY <1>2, <1>3, <2>1, <2>2 DEF Ran
    <2>4. /\ r.remaining_time = 1 /\ r.elapsed = e + time /\ r.behind = t.behind
          /\ r.time = t.time /\ r.n_steps = n - 1
      BY <1>2, <2>3 DEF Fields
    <2>5. r.elapsed > 0 /\ Total(r) = Total(t)
      BY <1>4, <1>5, <2>4 DEF Total
    <2> QED BY <2>4, <2>5 DEF OnTime, InTime, TurnLater
  <1>6. CASE time < w
    <2>1. Remaining(t, time) = w - time
      BY <1>4, <1>6 DEF Remaining
    <2>2. /\ r.remaining_time = w - time /\ r.elapsed = e + time /\ r.behind = t.behind
          /\ r.time = t.time /\ r.n_steps = n
      BY <1>1, <1>3, <1>4, <1>6, <2>1
    <2>3. r.elapsed > 0 /\ Total(r) = Total(t) /\ ~(w = 1)
      BY <1>4, <1>6, <2>2 DEF Total
    <2> QED BY <2>2, <2>3 DEF OnTime, InTime, TurnLater
  <1>7. CASE time > w
    <2>1. e = 0
      BY <1>4, <1>7
    <2>2. w = 1 /\ InTime(t)
      BY <2>1 DEF OnTime
    <2>3. Remaining(t, time) = Word + 1 - time
      BY <1>4, <1>7, <2>2 DEF Remaining
    <2>4. /\ r.remaining_time = Word + 1 - time /\ r.elapsed = time /\ r.behind = t.behind
          /\ r.time = t.time /\ r.n_steps = n
      BY <1>1, <1>3, <1>4, <1>7, <2>1, <2>3
    <2>5. time # 1 /\ r.elapsed > 0 /\ Total(r) = Total(t) + Word
      BY <1>4, <1>7, <2>1, <2>2, <2>4 DEF Total
    <2>6. TurnLater(r)
      BY <1>4, <2>2, <2>4, <2>5 DEF InTime, TurnLater
    <2> QED BY <2>4, <2>5, <2>6 DEF OnTime
  <1> QED BY <1>4, <1>5, <1>6, <1>7

-----------------------------------------------------------------------------
(* Steps.                                                                  *)

\* Keeping some transitions in their order keeps the invariant.
LEMMA KeepSome ==
  ASSUME IInv, NEW kept \in SUBSET (DOMAIN transitions), NEW p \in Positions(kept),
         transitions' = [i \in DOMAIN p |-> transitions[p[i]]]
  PROVE  IInv'
  <1>1. PICK n \in Nat : DOMAIN transitions = 1..n
    BY DEF IInv
  <1>2. Cardinality(kept) \in Nat
    BY <1>1, KeptSize
  <1>3. p \in [1..Cardinality(kept) -> kept] /\ \A i, j \in DOMAIN p : i < j => p[i] < p[j]
    BY DEF Positions
  <1>4. /\ DOMAIN transitions' = 1..Cardinality(kept)
        /\ \A i \in DOMAIN transitions' : transitions'[i] = transitions[p[i]] /\ p[i] \in DOMAIN transitions
    BY <1>3
  <1>5. transitions' \in Seq({transitions'[i] : i \in DOMAIN transitions'})
    BY <1>2, <1>3, <1>4, ListIsSeq
  <1>6. \A i \in DOMAIN transitions' : Waiting(transitions'[i]) /\ OnTime(transitions'[i])
    BY <1>4 DEF IInv
  <1>7. ASSUME NEW i \in DOMAIN transitions'
        PROVE  /\ Prompt(transitions'[i]) => \A j \in 1..i : transitions'[j].remaining_time = 1
               /\ transitions'[i].elapsed > 0 =>
                    \A j \in 1..i : transitions'[j].remaining_time <= transitions'[i].remaining_time
    <2>1. /\ Prompt(transitions[p[i]]) => \A j \in 1..p[i] : transitions[j].remaining_time = 1
          /\ transitions[p[i]].elapsed > 0 =>
               \A j \in 1..p[i] : transitions[j].remaining_time <= transitions[p[i]].remaining_time
      BY <1>4, <1>7 DEF IInv
    <2>2. \A j \in 1..i : p[j] \in 1..p[i]
      BY <1>1, <1>2, <1>3, <1>4
    <2>3. \A j \in 1..i : j \in DOMAIN transitions'
      BY <1>2, <1>4
    <2> QED BY <1>4, <2>1, <2>2, <2>3
  <1> QED BY <1>5, <1>6, <1>7 DEF IInv, Waiting, Prompt, OnTime, InTime, TurnLater, Total

\* Adding a transition keeps it, when the new one is prompt only if nobody waits longer.
LEMMA AddOne ==
  ASSUME IInv, NEW t, Waiting(t), OnTime(t), t.elapsed = 0, transitions' = Append(transitions, t),
         Prompt(t) => /\ t.remaining_time = 1
                      /\ \A i \in DOMAIN transitions : ~(transitions[i].remaining_time > 1)
  PROVE  IInv'
  <1>1. PICK n \in Nat : DOMAIN transitions = 1..n /\ Len(transitions) = n
    BY DEF IInv
  <1> DEFINE S == {transitions[i] : i \in DOMAIN transitions} \cup {t}
  <1>2. transitions \in Seq(S) /\ t \in S
    BY <1>1 DEF IInv
  <1>3. /\ DOMAIN transitions' = 1..(n + 1)
        /\ \A i \in 1..(n + 1) : transitions'[i] = IF i = n + 1 THEN t ELSE transitions[i]
    BY <1>1, <1>2
  <1>4. Append(transitions, t) = [i \in 1..(n + 1) |-> Append(transitions, t)[i]]
    <2> HIDE DEF S
    <2>1. Append(transitions, t) \in Seq(S) /\ Len(Append(transitions, t)) = n + 1
      BY <1>1, <1>2, AppendProperties
    <2>2. Append(transitions, t) \in [1..(n + 1) -> S]
      BY <2>1, LenProperties
    <2> QED BY <2>2
  <1>5. transitions' \in Seq({transitions'[i] : i \in DOMAIN transitions'})
    <2>1. n + 1 \in Nat /\ transitions' = [i \in 1..(n + 1) |-> transitions'[i]]
      BY <1>4
    <2> HIDE DEF S
    <2> QED BY ONLY <2>1, ListIsSeq
  <1>6. \A i \in DOMAIN transitions' : Waiting(transitions'[i]) /\ OnTime(transitions'[i])
    BY <1>1, <1>3 DEF IInv
  <1>7. ASSUME NEW i \in DOMAIN transitions'
        PROVE  /\ Prompt(transitions'[i]) => \A j \in 1..i : transitions'[j].remaining_time = 1
               /\ transitions'[i].elapsed > 0 =>
                    \A j \in 1..i : transitions'[j].remaining_time <= transitions'[i].remaining_time
    <2>1. CASE i # n + 1
      BY <1>1, <1>3, <2>1 DEF IInv
    <2>2. CASE i = n + 1
      <3>1. Prompt(t) => \A j \in 1..n : transitions[j].remaining_time = 1
        BY <1>1 DEF IInv, Waiting
      <3> QED BY <1>3, <2>2, <3>1
    <2> QED BY <2>1, <2>2
  <1> QED BY <1>5, <1>6, <1>7 DEF IInv, Waiting, Prompt, OnTime, InTime, TurnLater, Total

\* A new transition with an end.
LEMMA FiniteAdded ==
  ASSUME IInv, SizeAssumption, NEW s, NEW step, NEW end, NEW time \in 0..(Word - 1), NEW new_mode,
         Start(s, Finite(s, step, end, time), new_mode)
  PROVE  IInv'
  <1> DEFINE t == Finite(s, step, end, time)
  <1>0. Word \in Nat /\ Word > 1
    BY DEF SizeAssumption
  <1>1. CASE ~next(Ran(t))
    BY <1>1 DEF Start, IInv, Waiting, Prompt, OnTime, InTime, TurnLater, Total
  <1>2. CASE next(Ran(t))
    <2>1. t.n_steps # 0
      BY <1>2 DEF Finite, Ran, next
    <2>2. Ran(t) = [t EXCEPT !.n_steps = @ - 1]
      BY <2>1 DEF Finite, Ran
    <2>3. time # 0 /\ t.n_steps = time - 1
      BY <2>1 DEF Finite
    <2>4. Waiting(Ran(t))
      <3>1. /\ DOMAIN Ran(t) = Fields /\ Ran(t) = [f \in Fields |-> Ran(t)[f]]
        BY <2>2 DEF Finite, Fields
      <3>2. /\ Ran(t).n_steps = time - 2 /\ Ran(t).period = 1 /\ Ran(t).remaining_time = 1
            /\ Ran(t).time = time /\ Ran(t).elapsed = 0 /\ Ran(t).continuous = FALSE
        BY <1>0, <2>2, <2>3 DEF Finite
      <3>4. Ran(t).behind \in BOOLEAN
        <4>1. Ran(t).behind = t.behind
          BY <2>2 DEF Finite
        <4>2. t.behind \in BOOLEAN
          BY DEF Finite
        <4> HIDE DEF t
        <4> QED BY <4>1, <4>2
      <3>3. time \in Nat /\ time - 2 \in Nat
        BY <1>0, <2>1, <2>3
      <3> DEFINE r == Ran(t)
      <3> HIDE DEF r, t
      <3>5. r.continuous \in BOOLEAN /\ r.behind \in BOOLEAN
        BY <3>2, <3>4 DEF r
      <3>6. r.period \in 1..(Word - 1) /\ r.remaining_time \in 1..(Word - 1) /\ (~r.continuous => r.period = 1)
        BY <1>0, <3>2 DEF r
      <3>7. r.time \in Nat /\ r.elapsed \in Nat /\ r.n_steps \in Nat
        BY <3>2, <3>3 DEF r
      <3>8. DOMAIN r = Fields /\ r = [f \in Fields |-> r[f]]
        BY <3>1 DEF r
      <3>9. Waiting(r)
        BY ONLY <3>5, <3>6, <3>7, <3>8 DEF Waiting
      <3> QED BY <3>9 DEF r
    <2>5. /\ Prompt(Ran(t)) => /\ Ran(t).remaining_time = 1
                               /\ \A i \in DOMAIN transitions : ~(transitions[i].remaining_time > 1)
          /\ Ran(t).elapsed = 0
      BY <2>2, <2>3 DEF Finite, Prompt
    <2>7. OnTime(Ran(t))
      BY <1>0, <2>2, <2>3 DEF Finite, OnTime, InTime, Total
    <2>6. transitions' = Append(transitions, Ran(t))
      BY <1>2 DEF Start
    <2> HIDE DEF t
    <2> QED BY <2>4, <2>5, <2>6, <2>7, AddOne
  <1> QED BY <1>1, <1>2

\* A new transition without an end.
LEMMA ContinuousAdded ==
  ASSUME IInv, SizeAssumption, NEW s, NEW step, NEW new_mode, Start(s, Continuous(s, step), new_mode)
  PROVE  IInv'
  <1> DEFINE t == Continuous(s, step)
  <1>1. Ran(t) = t /\ Second \in 1..(Word - 1)
    BY DEF Continuous, Ran, SizeAssumption
  <1>2. Waiting(t) /\ ~Prompt(t) /\ OnTime(t) /\ t.elapsed = 0
    BY <1>1 DEF Continuous, Waiting, Prompt, Fields, OnTime
  <1>3. transitions' = Append(transitions, t)
    BY <1>1 DEF Start, next, Continuous
  <1> HIDE DEF t
  <1> QED BY <1>2, <1>3, AddOne

\* Commands keep the invariant.
LEMMA CommandKeeps ==
  ASSUME IInv, SizeAssumption, MessagesAssumption, NEW s \in Servers, NEW m \in Messages, Command(s, m)
  PROVE  IInv'
  <1>0. m.time \in 0..(Word - 1)
    BY DEF MessagesAssumption
  <1>1. ASSUME NEW new_mode, NEW dist, NEW end, MoveBy(s, new_mode, dist, end, m.time)
        PROVE  IInv'
    <2>1. CASE UNCHANGED transitions
      BY <2>1 DEF IInv, Waiting, Prompt, OnTime, InTime, TurnLater, Total
    <2>2. CASE \E step : Start(s, Finite(s, step, end, m.time), new_mode)
      BY <1>0, <2>2, FiniteAdded
    <2> QED BY <1>1, <2>1, <2>2 DEF MoveBy
  <1>2. ASSUME NEW new_mode, NEW step, KeepMoving(s, new_mode, step)
        PROVE  IInv'
    BY <1>2, ContinuousAdded DEF KeepMoving
  <1>3. CASE stop(s)
    <2>1. PICK p \in Positions(DOMAIN transitions \ Of(s)) :
            transitions' = [i \in DOMAIN p |-> transitions[p[i]]]
      BY <1>3 DEF stop, remove
    <2> QED BY <2>1, KeepSome
  <1>4. CASE move_to_hue(s, m)
    BY <1>1, <1>4 DEF move_to_hue
  <1>5. CASE step_hue(s, m)
    BY <1>1, <1>5 DEF step_hue
  <1>6. CASE move_to_saturation(s, m) \/ step_saturation(s, m)
    BY <1>1, <1>6 DEF move_to_saturation, step_saturation
  <1>7. CASE move_to_hue_and_saturation(s, m)
    BY <1>1, <1>7 DEF move_to_hue_and_saturation
  <1>8. CASE move_to_xy(s, m) \/ step_xy(s, m)
    BY <1>1, <1>8 DEF move_to_xy, step_xy
  <1>9. CASE move_to_colour_temperature(s, m)
    BY <1>1, <1>9 DEF move_to_colour_temperature
  <1>10. CASE move_hue(s, m) \/ move_saturation(s, m) \/ move_xy(s, m)
    BY <1>2, <1>10 DEF move_hue, move_saturation, move_xy
  <1> QED BY <1>3, <1>4, <1>5, <1>6, <1>7, <1>8, <1>9, <1>10 DEF Command, handle_command

\* Time passes for all transitions, which are then sorted.
LEMMA TransitionKeeps ==
  ASSUME IInv, SizeAssumption, Transition
  PROVE  IInv'
  <1> DEFINE time_step == transitions[1].remaining_time
             ran == [i \in DOMAIN transitions |-> run(transitions[i], time_step)]
             kept == {i \in DOMAIN ran : next(ran[i])}
  <1>1. PICK n \in Nat : DOMAIN transitions = 1..n /\ n > 0
    BY DEF IInv, Transition
  <1>2. Word \in Nat \ {0} /\ time_step \in 1..(Word - 1)
    BY <1>1 DEF IInv, Waiting, SizeAssumption
  <1>3. PICK p \in Sorted(ran, kept) : transitions' = [i \in DOMAIN p |-> ran[p[i]]]
    BY DEF Transition
  <1>4. Cardinality(kept) \in Nat
    BY <1>1, KeptSize
  <1>5. /\ p \in [1..Cardinality(kept) -> kept]
        /\ \A i, j \in DOMAIN p : i < j => ran[p[i]].remaining_time <= ran[p[j]].remaining_time
    BY <1>3 DEF Sorted
  <1>6. /\ DOMAIN transitions' = 1..Cardinality(kept)
        /\ \A i \in DOMAIN transitions' :
             /\ p[i] \in DOMAIN transitions /\ transitions'[i] = run(transitions[p[i]], time_step)
             /\ next(run(transitions[p[i]], time_step))
    BY <1>3, <1>5
  <1>7. transitions' \in Seq({transitions'[i] : i \in DOMAIN transitions'})
    <2>1. transitions' = [i \in 1..Cardinality(kept) |-> transitions'[i]]
      BY <1>3, <1>5
    <2> DEFINE size == Cardinality(kept)
    <2> HIDE DEF size
    <2>2. size \in Nat /\ transitions' = [i \in 1..size |-> transitions'[i]]
      BY <1>4, <2>1 DEF size
    <2> QED BY ONLY <2>2, ListIsSeq
  <1> HIDE DEF time_step
  <1>8. \A i \in DOMAIN transitions' : /\ Waiting(transitions'[i])
                                       /\ Prompt(transitions'[i]) => Prompt(transitions[p[i]])
    <2> SUFFICES ASSUME NEW i \in DOMAIN transitions'
                 PROVE  /\ Waiting(transitions'[i])
                        /\ Prompt(transitions'[i]) => Prompt(transitions[p[i]])
      OBVIOUS
    <2>1. Waiting(transitions[p[i]])
      BY <1>6 DEF IInv
    <2>2. next(run(transitions[p[i]], time_step)) /\ transitions'[i] = run(transitions[p[i]], time_step)
      BY <1>6
    <2>3. /\ Waiting(run(transitions[p[i]], time_step))
          /\ (run(transitions[p[i]], time_step).behind <=> transitions[p[i]].behind)
          /\ (run(transitions[p[i]], time_step).continuous <=> transitions[p[i]].continuous)
      BY <1>2, <2>1, <2>2, RunWaits
    <2> QED BY <2>2, <2>3 DEF Prompt
  <1>9. ASSUME NEW i \in DOMAIN transitions', NEW j \in 1..i
        PROVE  transitions'[j].remaining_time <= transitions'[i].remaining_time
    <2>1. j \in DOMAIN transitions' /\ j \in DOMAIN p /\ i \in DOMAIN p
      BY <1>4, <1>5, <1>6
    <2>2. transitions'[j] = ran[p[j]] /\ transitions'[i] = ran[p[i]]
      BY <1>3, <2>1
    <2>3. transitions'[j].remaining_time \in Int
      BY <1>8, <2>1 DEF Waiting
    <2>4. CASE j = i
      BY <2>3, <2>4
    <2>5. CASE j < i
      BY <1>5, <2>1, <2>2, <2>5
    <2> QED BY <1>4, <1>6, <2>4, <2>5
  <1>10. ASSUME NEW i \in DOMAIN transitions'
         PROVE  /\ OnTime(transitions'[i])
                /\ Prompt(transitions'[i]) => transitions'[i].remaining_time = 1
    <2> DEFINE t == transitions[p[i]]
    <2>1. /\ Waiting(t) /\ OnTime(t)
          /\ Prompt(t) => \A j \in 1..p[i] : transitions[j].remaining_time = 1
          /\ t.elapsed > 0 => \A j \in 1..p[i] : transitions[j].remaining_time <= t.remaining_time
      BY <1>6 DEF IInv
    <2>2. 1 \in 1..p[i] /\ p[i] \in 1..p[i]
      <3>1. p[i] \in 1..n
        BY <1>1, <1>6
      <3> QED BY <3>1
    <2>3. /\ Prompt(t) => time_step = 1 /\ t.remaining_time = 1
          /\ t.elapsed > 0 => time_step <= t.remaining_time
      BY <2>1, <2>2 DEF time_step
    <2>4. transitions'[i] = run(t, time_step) /\ next(run(t, time_step))
      BY <1>6
    <2> HIDE DEF t
    <2>5. CASE t.continuous
      <3>1. run(t, time_step).continuous
        BY <1>2, <2>1, <2>4, <2>5, RunWaits
      <3> QED BY <2>4, <3>1 DEF OnTime, Prompt
    <2>6. CASE ~t.continuous
      <3>1. t.behind \/ time_step = 1
        BY <2>3, <2>6 DEF Prompt
      <3>2. /\ OnTime(run(t, time_step))
            /\ time_step = 1 /\ t.remaining_time = 1 => run(t, time_step).remaining_time = 1
        BY <1>2, <2>1, <2>3, <2>4, <2>6, <3>1, RunKeepsTime
      <3>3. Prompt(transitions'[i]) => Prompt(t)
        BY <1>8 DEF t
      <3> QED BY <2>3, <2>4, <3>2, <3>3
    <2> QED BY <2>5, <2>6
  <1>11. ASSUME NEW i \in DOMAIN transitions', Prompt(transitions'[i]), NEW j \in 1..i
         PROVE  transitions'[j].remaining_time = 1
    <2>1. j \in DOMAIN transitions'
      BY <1>4, <1>6
    <2>2. transitions'[j].remaining_time \in 1..(Word - 1)
      BY <1>8, <2>1 DEF Waiting
    <2> QED BY <1>2, <1>9, <1>10, <1>11, <2>2
  <1>12. \A i \in DOMAIN transitions' : Waiting(transitions'[i]) /\ OnTime(transitions'[i])
    BY <1>8, <1>10
  <1> QED BY <1>7, <1>9, <1>11, <1>12 DEF IInv, Waiting, Prompt, OnTime, InTime, TurnLater, Total

-----------------------------------------------------------------------------
(* What colours, goals and moves under way are.                            *)

\* A transition in the list as the code made it: its steps and end are numbers,
\* its steps are as many as fit its time, its period is that of its kind.
Made(t) ==
  /\ t.server \in Servers
  /\ DOMAIN t.step \subseteq Coordinates /\ \A c \in DOMAIN t.step : t.step[c] \in Int
  /\ \A c \in DOMAIN t.end : t.end[c] \in Int
  /\ t.n_steps \in 0..(Word - 1)
  /\ t.period = IF t.continuous THEN Second ELSE 1

TInv ==
  /\ colour \in [Servers -> Colour]
  /\ mode \in [Servers -> {"NONE", "HS", "XY", "TEMPERATURE"}]
  /\ \A i \in DOMAIN transitions : Made(transitions[i])

\* The number of steps a move has made.
Steps(t) == t.time - 1 - t.n_steps

\* A move that is alone: it is the one that was asked for, has changed only
\* what it is to change, and is on its line until that leaves the range.
OnItsWay(col, g, t) ==
  /\ ~t.continuous /\ t.time \in Nat \ {0} /\ Steps(t) \in 0..(t.time - 1)
  /\ t.end = g.end /\ DOMAIN g.end # {}
  /\ DOMAIN t.step = DOMAIN g.end /\ DOMAIN g.dist = DOMAIN g.end
  /\ DOMAIN g.dist \subseteq Coordinates
  /\ \A c \in DOMAIN g.dist : g.dist[c] \in Int /\ t.step[c] = Round(g.dist[c], t.time)
  /\ \A c \in Coordinates \ DOMAIN g.end : col[c] = g.from[c]
  /\ \A c \in DOMAIN g.dist :
       WithinRange(t, g, c) => col[c] = g.from[c] + Steps(t) * t.step[c]

\* The places of a light's moves in a list.
Moving(list, s) == {i \in DOMAIN list : list[i].server = s}

\* What is known of a goal: reached when no move is under way, else the only
\* move under way leads there.
Aimed(col, list, s, g) ==
  /\ g.from \in Colour
  /\ DOMAIN g.end = {} => Moving(list, s) = {}
  /\ Moving(list, s) = {} => col = With(g.from, g.end)
  /\ \A i \in Moving(list, s) : Moving(list, s) = {i} /\ OnItsWay(col, g, list[i])

AInv ==
  /\ DOMAIN goal = Servers
  /\ \A s \in Servers : \A g \in goal[s] : Aimed(colour[s], transitions, s, g)

-----------------------------------------------------------------------------
(* Time passes.                                                            *)

\* What some time leaves as it is in a transition, and the steps that are left.
LEMMA RunLeaves ==
  ASSUME NEW t, Waiting(t), NEW time \in 1..(Word - 1), Word \in Nat
  PROVE  LET u == run(t, time)
         IN /\ u.server = t.server /\ u.step = t.step /\ u.end = t.end /\ u.time = t.time
            /\ u.continuous = t.continuous
            /\ ~runs(t, time) => u.n_steps = t.n_steps /\ u.period = t.period
            /\ runs(t, time) => 
                 /\ t.continuous => u.n_steps = t.n_steps /\ u.period = t.period
                 /\ ~t.continuous /\ t.n_steps # 0 => u.n_steps = t.n_steps - 1 /\ u.period = t.period
                 /\ ~t.continuous /\ t.n_steps = 0 => u.period = 0
  <1> DEFINE wait == [t EXCEPT !.elapsed = IF t.continuous THEN 0 ELSE @ + time,
                               !.remaining_time = Remaining(t, time)]
             again == [wait EXCEPT !.remaining_time = t.period]
  <1>1. /\ DOMAIN wait = Fields
        /\ wait.server = t.server /\ wait.step = t.step /\ wait.end = t.end /\ wait.time = t.time
        /\ wait.continuous = t.continuous /\ wait.n_steps = t.n_steps /\ wait.period = t.period
    BY DEF Waiting, Fields
  <1> HIDE DEF wait
  <1>2. /\ DOMAIN again = Fields
        /\ again.server = t.server /\ again.step = t.step /\ again.end = t.end /\ again.time = t.time
        /\ again.continuous = t.continuous /\ again.n_steps = t.n_steps /\ again.period = t.period
    BY <1>1 DEF Fields
  <1>3. run(t, time) = IF runs(t, time) THEN Ran(again) ELSE wait
    BY DEF run, wait, again
  <1> HIDE DEF again
  <1>4. CASE ~runs(t, time)
    BY <1>1, <1>3, <1>4
  <1>5. CASE runs(t, time) /\ t.continuous
    BY <1>2, <1>3, <1>5 DEF Ran
  <1>6. CASE runs(t, time) /\ ~t.continuous /\ t.n_steps # 0
    <2>1. run(t, time) = [again EXCEPT !.n_steps = @ - 1]
      BY <1>2, <1>3, <1>6 DEF Ran
    <2> QED BY <1>2, <1>6, <2>1 DEF Fields
  <1>7. CASE runs(t, time) /\ ~t.continuous /\ t.n_steps = 0
    <2>1. run(t, time) = [again EXCEPT !.period = 0]
      BY <1>2, <1>3, <1>7 DEF Ran
    <2> QED BY <1>2, <1>7, <2>1 DEF Fields
  <1> QED BY <1>4, <1>5, <1>6, <1>7

\* The colours after time has passed: colours, changed by the moves of their
\* light only, and by the one there is if it is alone.
LEMMA PaintingIs ==
  ASSUME IInv, TInv, SizeAssumption, NEW time_step
  PROVE  /\ Painting(time_step) \in [Servers -> Colour]
         /\ \A s \in Servers :
              /\ Moving(transitions, s) = {} => Painting(time_step)[s] = colour[s]
              /\ \A k \in Moving(transitions, s) : Moving(transitions, s) = {k} =>
                   Painting(time_step)[s] =
                     IF runs(transitions[k], time_step) THEN Painted(transitions[k], colour[s])
                                                        ELSE colour[s]
  <1>1. PICK n \in Nat : DOMAIN transitions = 1..n /\ Len(transitions) = n
    BY DEF IInv
  <1>2. PICK after : /\ after = [i \in 0..n |-> IF i = 0 THEN colour
                                      ELSE Paint(after[i - 1], transitions[i], time_step)]
                     /\ Painting(time_step) = after[n]
    BY <1>1, PaintingUnfolds
  <1>3. after[0] = colour
    BY <1>2
  <1>4. ASSUME NEW i \in 0..n, i < n
        PROVE  after[i + 1] = Paint(after[i], transitions[i + 1], time_step)
    BY <1>2, <1>4
  <1>5. \A i \in 0..n : after[i] \in [Servers -> Colour]
    <2> DEFINE S == {i \in 0..n : after[i] \in [Servers -> Colour]}
    <2>1. 0 \in S
      BY <1>3 DEF TInv
    <2>2. ASSUME NEW i \in 0..n, i \in S, i < n PROVE i + 1 \in S
      <3> DEFINE t == transitions[i + 1]
      <3>1. i + 1 \in DOMAIN transitions /\ i + 1 \in 0..n
        BY <1>1, <2>2
      <3>2. Made(t)
        BY <3>1 DEF TInv
      <3>3. after[i] \in [Servers -> Colour] /\ t.server \in Servers /\ after[i][t.server] \in Colour
        BY <2>2, <3>2 DEF Made
      <3>4. Painted(t, after[i][t.server]) \in Colour
        <4> HIDE DEF t
        <4> QED BY <3>2, <3>3, PaintedIsColour DEF Made
      <3>5. after[i + 1] \in [Servers -> Colour]
        <4> HIDE DEF t
        <4>1. after[i + 1] = Paint(after[i], t, time_step)
          BY <1>4, <2>2 DEF t
        <4> QED BY <4>1, <3>3, <3>4 DEF Paint
      <3> QED BY <3>1, <3>5
    <2> HIDE DEF S
    <2>3. \A i \in 0..n : i \in S
      BY <2>1, <2>2, UpTo
    <2> QED BY <2>3 DEF S
  <1>6. ASSUME NEW s \in Servers, Moving(transitions, s) = {} PROVE after[n][s] = colour[s]
    <2> DEFINE S == {i \in 0..n : after[i][s] = colour[s]}
    <2>1. 0 \in S
      BY <1>3
    <2>2. ASSUME NEW i \in 0..n, i \in S, i < n PROVE i + 1 \in S
      <3>1. i + 1 \in DOMAIN transitions /\ i + 1 \in 0..n
        BY <1>1, <2>2
      <3>2. transitions[i + 1].server # s
        BY <1>6, <3>1 DEF Moving
      <3>3. after[i + 1][s] = after[i][s]
        BY <1>4, <1>5, <2>2, <3>2 DEF Paint
      <3> QED BY <2>2, <3>1, <3>3
    <2> HIDE DEF S
    <2>3. \A i \in 0..n : i \in S
      BY <2>1, <2>2, UpTo
    <2> QED BY <2>3 DEF S
  <1>7. ASSUME NEW s \in Servers, NEW k \in Moving(transitions, s), Moving(transitions, s) = {k}
        PROVE  after[n][s] = IF runs(transitions[k], time_step) THEN Painted(transitions[k], colour[s])
                                                                ELSE colour[s]
    <2> DEFINE painted == IF runs(transitions[k], time_step) THEN Painted(transitions[k], colour[s])
                                                             ELSE colour[s]
               S == {i \in 0..n : after[i][s] = IF i < k THEN colour[s] ELSE painted}
    <2>0. k \in 1..n /\ transitions[k].server = s
      BY <1>1 DEF Moving
    <2>1. 0 \in S
      <3> HIDE DEF painted
      <3> QED BY <1>3, <2>0
    <2>2. ASSUME NEW i \in 0..n, i \in S, i < n PROVE i + 1 \in S
      <3>1. i + 1 \in DOMAIN transitions /\ i + 1 \in 0..n
        BY <1>1, <2>2
      <3>2. CASE i + 1 # k
        <4>1. transitions[i + 1].server # s
          BY <1>7, <3>1, <3>2 DEF Moving
        <4>2. after[i + 1][s] = after[i][s]
          BY <1>4, <1>5, <2>2, <4>1 DEF Paint
        <4> HIDE DEF painted
        <4> QED BY <2>0, <2>2, <3>1, <3>2, <4>2
      <3>3. CASE i + 1 = k
        <4>1. after[i][s] = colour[s]
          <5> HIDE DEF painted
          <5> QED BY <2>0, <2>2, <3>3
        <4>2. after[k] = Paint(after[i], transitions[k], time_step) /\ after[i] \in [Servers -> Colour]
          BY <1>4, <1>5, <2>2, <3>3
        <4>3. after[k][s] = painted
          BY <2>0, <4>1, <4>2 DEF Paint
        <4> HIDE DEF painted
        <4> QED BY <2>0, <3>1, <3>3, <4>3
      <3> QED BY <3>2, <3>3
    <2> HIDE DEF S
    <2>3. n \in S
      BY <2>1, <2>2, UpTo
    <2> HIDE DEF painted
    <2>4. after[n][s] = painted
      BY <2>0, <2>3 DEF S
    <2> QED BY <2>4 DEF painted
  <1> QED BY <1>2, <1>5, <1>6, <1>7

\* Another step keeps a move on its way.
LEMMA StepOnItsWay ==
  ASSUME SizeAssumption, NEW col \in Colour, NEW g, g.from \in Colour,
         NEW t, OnItsWay(col, g, t), t.n_steps \in Nat \ {0},
         NEW u, u.continuous = FALSE, u.step = t.step, u.end = t.end, u.time = t.time,
         u.n_steps = t.n_steps - 1
  PROVE  OnItsWay(Painted(t, col), g, u)
  <1> DEFINE new == [c \in DOMAIN t.step |-> col[c] + t.step[c]]
  <1>1. Painted(t, col) = With(col, new)
    BY DEF Painted
  <1>2. \A c \in Coordinates \ DOMAIN g.end : With(col, new)[c] = g.from[c]
    BY DEF With, OnItsWay
  <1>3. Steps(u) = Steps(t) + 1 /\ Steps(t) \in 0..(t.time - 2) /\ t.time \in Nat
    BY DEF Steps, OnItsWay
  <1>4. ASSUME NEW c \in DOMAIN g.dist, WithinRange(u, g, c)
        PROVE  With(col, new)[c] = g.from[c] + Steps(u) * u.step[c]
    <2>2. c \in Coordinates /\ c \in DOMAIN t.step /\ t.step[c] \in Int
      BY RoundWithin DEF OnItsWay
    <2>3. g.from[c] \in 0..Top(c) /\ Top(c) \in Nat
      BY <2>2, ColourIs, StoredInRange
    <2>5. g.from[c] + Steps(u) * t.step[c] \in 0..Top(c)
      BY <1>4 DEF WithinRange, Steps
    <2>4. WithinRange(t, g, c)
      <3>1. Steps(t) \in 0..Steps(u) /\ Steps(u) \in Nat
        BY <1>3
      <3>2. g.from[c] + Steps(t) * t.step[c] \in 0..Top(c)
        BY <2>2, <2>3, <2>5, <3>1, LineInRange
      <3> QED BY <3>2 DEF WithinRange, Steps
    <2>1. col[c] = g.from[c] + Steps(t) * t.step[c]
      BY <2>4 DEF OnItsWay
    <2>6. col[c] + t.step[c] = g.from[c] + Steps(u) * t.step[c]
      <3> DEFINE k == Steps(t)
                 d == t.step[c]
      <3>1. k \in Int /\ d \in Int /\ (k + 1) * d = k * d + d
        <4> HIDE DEF k, d
        <4>1. k \in Int /\ d \in Int
          BY <1>3, <2>2 DEF k, d
        <4> QED BY <4>1
      <3> QED BY <1>3, <2>1, <2>3, <3>1
    <2>7. With(col, new)[c] = Stored(c, col[c] + t.step[c])
      BY <2>2 DEF With
    <2>8. g.from[c] + Steps(u) * t.step[c] \in Int
      BY <2>5
    <2>9. Stored(c, g.from[c] + Steps(u) * t.step[c]) = g.from[c] + Steps(u) * t.step[c]
      BY <2>2, <2>5, <2>8, StoredInRange
    <2> QED BY <2>6, <2>7, <2>9
  <1>5. \A c \in DOMAIN g.dist : WithinRange(u, g, c) =>
          Painted(t, col)[c] = g.from[c] + Steps(u) * u.step[c]
    BY <1>1, <1>4
  <1>6. \A c \in Coordinates \ DOMAIN g.end : Painted(t, col)[c] = g.from[c]
    BY <1>1, <1>2
  <1> HIDE DEF new
  <1>7. Steps(u) \in 0..(u.time - 1)
    BY <1>3
  <1> QED BY <1>5, <1>6, <1>7 DEF OnItsWay

\* A list that keeps some transitions of an old one, each at the place that p says.
Keeps(old, n, kept, p, list) ==
  /\ n \in Nat /\ DOMAIN old = 1..n /\ kept \in SUBSET (1..n)
  /\ p \in [1..Cardinality(kept) -> kept] /\ \A i, j \in DOMAIN p : i < j => p[i] # p[j]
  /\ DOMAIN list = DOMAIN p /\ \A i \in DOMAIN p : list[i].server = old[p[i]].server

\* A light's moves in it are those of the old one that are kept, each once.
KeepsMoves(old, kept, p, list, s) ==
  /\ \A i \in Moving(list, s) : i \in DOMAIN p /\ p[i] \in Moving(old, s)
  /\ \A k \in Moving(old, s) : k \in kept => \E i \in Moving(list, s) : p[i] = k
  /\ \A i, j \in Moving(list, s) : p[i] = p[j] => i = j

LEMMA KeptOf ==
  ASSUME NEW old, NEW n, NEW kept, NEW p, NEW list, Keeps(old, n, kept, p, list), NEW s
  PROVE  KeepsMoves(old, kept, p, list, s)
  <1>0. /\ n \in Nat /\ DOMAIN old = 1..n /\ kept \in SUBSET (1..n)
        /\ p \in [1..Cardinality(kept) -> kept] /\ \A i, j \in DOMAIN p : i < j => p[i] # p[j]
        /\ DOMAIN list = DOMAIN p /\ \A i \in DOMAIN p : list[i].server = old[p[i]].server
    BY DEF Keeps
  <1>1. Cardinality(kept) \in Nat
    BY <1>0, KeptSize
  <1>2. \A k \in kept : \E i \in DOMAIN p : p[i] = k
    BY <1>0, Onto
  <1>3. DOMAIN p = 1..Cardinality(kept) /\ \A i \in DOMAIN p : p[i] \in kept
    BY <1>0
  <1>4. Moving(list, s) = {i \in DOMAIN p : old[p[i]].server = s}
    BY <1>0 DEF Moving
  <1>5. Moving(old, s) = {k \in 1..n : old[k].server = s}
    BY <1>0 DEF Moving
  <1>6. \A i, j \in DOMAIN p : p[i] = p[j] => i = j
    <2> SUFFICES ASSUME NEW i \in DOMAIN p, NEW j \in DOMAIN p, i # j PROVE p[i] # p[j]
      OBVIOUS
    <2>1. i < j \/ j < i
      BY <1>1, <1>3
    <2> QED BY <1>0, <2>1
  <1>7. \A i \in Moving(list, s) : i \in DOMAIN p /\ p[i] \in Moving(old, s)
    BY <1>0, <1>3, <1>4, <1>5
  <1>8. \A k \in Moving(old, s) : k \in kept => \E i \in Moving(list, s) : p[i] = k
    BY <1>2, <1>4, <1>5
  <1>9. \A i, j \in Moving(list, s) : p[i] = p[j] => i = j
    BY <1>4, <1>6
  <1> QED BY <1>7, <1>8, <1>9 DEF KeepsMoves

\* Time that passes keeps colours in range and goals in sight.
LEMMA TransitionAims ==
  ASSUME IInv, TInv, AInv, SizeAssumption, Transition
  PROVE  TInv' /\ AInv'
  <1> DEFINE time_step == transitions[1].remaining_time
             ran == [i \in DOMAIN transitions |-> run(transitions[i], time_step)]
             kept == {i \in DOMAIN ran : next(ran[i])}
  <1>1. PICK n \in Nat : DOMAIN transitions = 1..n /\ n > 0
    BY DEF IInv, Transition
  <1>2. Word \in Nat \ {0} /\ time_step \in 1..(Word - 1)
    BY <1>1 DEF IInv, Waiting, SizeAssumption
  <1>3. PICK p \in Sorted(ran, kept) : transitions' = [i \in DOMAIN p |-> ran[p[i]]]
    BY DEF Transition
  <1>4. p \in [1..Cardinality(kept) -> kept] /\ \A i, j \in DOMAIN p : i < j => p[i] # p[j]
    BY <1>3 DEF Sorted
  <1>5. colour' = Painting(time_step) /\ mode' = mode /\ goal' = goal
    BY DEF Transition
  <1> HIDE DEF time_step
  <1>6. ASSUME NEW k \in DOMAIN transitions
        PROVE  /\ ran[k] = run(transitions[k], time_step) /\ Waiting(transitions[k])
               /\ Made(transitions[k])
               /\ ran[k].server = transitions[k].server
    <2>1. Waiting(transitions[k]) /\ Made(transitions[k])
      BY DEF IInv, TInv
    <2> QED BY <1>2, <2>1, RunLeaves
  <1>7. ASSUME NEW k \in kept PROVE Made(ran[k])
    <2> DEFINE t == transitions[k]
               u == ran[k]
    <2>1. k \in DOMAIN transitions /\ Waiting(t) /\ Made(t) /\ u = run(t, time_step) /\ u.period # 0
      BY <1>6 DEF next
    <2> HIDE DEF t, u
    <2>2. /\ u.server = t.server /\ u.step = t.step /\ u.end = t.end /\ u.continuous = t.continuous
          /\ u.period = t.period
          /\ u.n_steps = t.n_steps \/ (u.n_steps = t.n_steps - 1 /\ t.n_steps # 0)
      BY <1>2, <2>1, RunLeaves DEF Waiting
    <2>3. u.n_steps \in 0..(Word - 1) /\ u.period = t.period
      BY <1>2, <2>1, <2>2 DEF Made
    <2>4. Made(u)
      BY <2>1, <2>2, <2>3 DEF Made
    <2> QED BY <2>4 DEF u
  <1>8. kept \in SUBSET (DOMAIN transitions) /\ \A k \in kept : ran[k].server = transitions[k].server
    BY <1>6
  <1> HIDE DEF kept
  <1> DEFINE R == ran
  <1>9. \A k \in DOMAIN transitions : k \in kept <=> next(R[k])
    BY DEF kept
  <1>10. /\ transitions' = [i \in DOMAIN p |-> R[p[i]]]
         /\ \A k \in kept : Made(R[k]) /\ R[k].server = transitions[k].server
         /\ \A k \in DOMAIN transitions : R[k] = run(transitions[k], time_step)
    BY <1>3, <1>6, <1>7, <1>8
  <1> HIDE DEF ran, R
  <1>11. \A i \in DOMAIN transitions' : Made(transitions'[i])
    BY <1>4, <1>10
  <1>12. TInv'
    <2>1. colour' \in [Servers -> Colour]
      BY <1>5, PaintingIs
    <2> QED BY <1>5, <1>11, <2>1 DEF TInv, Made
  <1>13. ASSUME NEW s \in Servers, NEW g \in goal[s] PROVE Aimed(colour'[s], transitions', s, g)
    <2>1. Aimed(colour[s], transitions, s, g)
      BY DEF AInv
    <2>2. /\ Moving(transitions, s) = {} => colour'[s] = colour[s]
          /\ \A k \in Moving(transitions, s) : Moving(transitions, s) = {k} =>
               colour'[s] = IF runs(transitions[k], time_step) THEN Painted(transitions[k], colour[s])
                                                               ELSE colour[s]
      BY <1>5, PaintingIs
    <2>3. /\ \A i \in Moving(transitions', s) : i \in DOMAIN p /\ p[i] \in Moving(transitions, s)
          /\ \A k \in Moving(transitions, s) : k \in kept => \E i \in Moving(transitions', s) : p[i] = k
          /\ \A i, j \in Moving(transitions', s) : p[i] = p[j] => i = j
      <3>1. kept \in SUBSET (1..n) /\ DOMAIN transitions = 1..n
        BY <1>1, <1>8
      <3>2. DOMAIN transitions' = DOMAIN p /\ \A i \in DOMAIN p : transitions'[i].server = transitions[p[i]].server
        BY <1>4, <1>10
      <3>3. Keeps(transitions, n, kept, p, transitions')
        BY <1>4, <3>1, <3>2 DEF Keeps
      <3>4. KeepsMoves(transitions, kept, p, transitions', s)
        BY <3>3, KeptOf
      <3> QED BY <3>4 DEF KeepsMoves
    <2>0. \A i \in DOMAIN p : transitions'[i] = R[p[i]] /\ p[i] \in kept
      BY <1>4, <1>10
    <2>4. CASE Moving(transitions, s) = {}
      <3>1. Moving(transitions', s) = {}
        BY <2>3, <2>4
      <3>2. colour'[s] = colour[s]
        BY <2>2, <2>4
      <3> QED BY <2>1, <2>4, <3>1, <3>2 DEF Aimed
    <2>5. ASSUME NEW k \in Moving(transitions, s) PROVE Aimed(colour'[s], transitions', s, g)
      <3> DEFINE t == transitions[k]
                 u == R[k]
      <3>1. Moving(transitions, s) = {k} /\ OnItsWay(colour[s], g, t) /\ g.from \in Colour /\ DOMAIN g.end # {}
        BY <2>1, <2>5 DEF Aimed, OnItsWay
      <3>2. k \in DOMAIN transitions /\ Waiting(t) /\ Made(t) /\ u = run(t, time_step) /\ ~t.continuous
        BY <1>6, <1>10, <3>1 DEF Moving, OnItsWay
      <3>3. colour[s] \in Colour
        BY DEF TInv
      <3>4. colour'[s] = IF runs(t, time_step) THEN Painted(t, colour[s]) ELSE colour[s]
        BY <2>2, <3>1
      <3>5. /\ u.step = t.step /\ u.end = t.end /\ u.time = t.time /\ u.continuous = FALSE
            /\ ~runs(t, time_step) => u.n_steps = t.n_steps /\ u.period = t.period
            /\ runs(t, time_step) /\ t.n_steps # 0 => u.n_steps = t.n_steps - 1 /\ u.period = t.period
            /\ runs(t, time_step) /\ t.n_steps = 0 => u.period = 0
        <4> HIDE DEF t, u
        <4>1. t.continuous = FALSE
          BY <3>2 DEF Waiting
        <4> QED BY <1>2, <3>2, <4>1, RunLeaves
      <3>6. t.period = 1 /\ t.n_steps \in Nat
        BY <3>2 DEF Waiting
      <3>7. k \in kept <=> u.period # 0
        BY <1>9, <3>2 DEF next
      <3> HIDE DEF t, u
      <3>8. CASE k \in kept
        <4>1. ~runs(t, time_step) \/ t.n_steps # 0
          BY <3>5, <3>7, <3>8
        <4>2. OnItsWay(colour'[s], g, u)
          <5>1. CASE ~runs(t, time_step)
            BY <3>1, <3>4, <3>5, <5>1 DEF OnItsWay, Steps, WithinRange
          <5>2. CASE runs(t, time_step) /\ t.n_steps # 0
            <6>1. colour'[s] = Painted(t, colour[s]) /\ t.n_steps \in Nat \ {0}
              BY <3>4, <3>6, <5>2
            <6>2. /\ u.continuous = FALSE /\ u.step = t.step /\ u.end = t.end /\ u.time = t.time
                  /\ u.n_steps = t.n_steps - 1
              BY <3>5, <5>2
            <6>3. OnItsWay(Painted(t, colour[s]), g, u)
              BY <3>1, <3>3, <6>1, <6>2, StepOnItsWay
            <6> QED BY <6>1, <6>3
          <5> QED BY <4>1, <5>1, <5>2
        <4>3. PICK i \in Moving(transitions', s) : p[i] = k
          BY <2>3, <3>8
        <4>4. Moving(transitions', s) = {i}
          BY <2>3, <3>1, <4>3
        <4>5. transitions'[i] = u
          BY <2>0, <2>3, <4>3 DEF u
        <4> QED BY <1>5, <3>1, <4>2, <4>4, <4>5 DEF Aimed
      <3>9. CASE k \notin kept
        <4>1. runs(t, time_step) /\ t.n_steps = 0
          BY <3>5, <3>6, <3>7, <3>9
        <4>2. colour'[s] = With(colour[s], t.end)
          BY <3>2, <3>4, <4>1 DEF Painted
        <4>3. With(colour[s], t.end) = With(g.from, g.end)
          BY <3>1 DEF With, OnItsWay
        <4>4. Moving(transitions', s) = {}
          BY <2>0, <2>3, <3>1, <3>9
        <4> QED BY <3>1, <4>2, <4>3, <4>4 DEF Aimed
      <3> QED BY <3>8, <3>9
    <2> QED BY <2>4, <2>5
  <1>14. AInv'
    BY <1>5, <1>13 DEF AInv
  <1> QED BY <1>12, <1>14

-----------------------------------------------------------------------------
(* Commands.                                                               *)

\* A new transition changes its light's colour and mode, and is the last if it goes on.
LEMMA StartIs ==
  ASSUME IInv, TInv, NEW s \in Servers, NEW t, NEW new_mode \in {"HS", "XY", "TEMPERATURE"},
         Start(s, t, new_mode), t.server = s,
         Painted(t, colour[s]) \in Colour,
         next(Ran(t)) => Made(Ran(t)) /\ Ran(t).server = s
  PROVE  /\ TInv'
         /\ colour'[s] = Painted(t, colour[s])
         /\ \A q \in Servers \ {s} : /\ colour'[q] = colour[q] /\ Moving(transitions', q) = Moving(transitions, q)
                                     /\ \A i \in Moving(transitions, q) : transitions'[i] = transitions[i]
         /\ ~next(Ran(t)) => Moving(transitions', s) = Moving(transitions, s)
         /\ next(Ran(t)) /\ Moving(transitions, s) = {} => \E i : Moving(transitions', s) = {i} /\ transitions'[i] = Ran(t)
  <1> DEFINE r == Ran(t)
  <1>1. PICK n \in Nat : DOMAIN transitions = 1..n /\ Len(transitions) = n
    BY DEF IInv
  <1>2. /\ colour' = [colour EXCEPT ![s] = Painted(t, @)]
        /\ mode' = [mode EXCEPT ![s] = new_mode]
        /\ transitions' = IF next(r) THEN Append(transitions, r) ELSE transitions
    BY DEF Start
  <1> HIDE DEF r
  <1>3. colour' \in [Servers -> Colour] /\ mode' \in [Servers -> {"NONE", "HS", "XY", "TEMPERATURE"}]
    BY <1>2 DEF TInv
  <1>4. colour'[s] = Painted(t, colour[s]) /\ \A q \in Servers \ {s} : colour'[q] = colour[q]
    BY <1>2 DEF TInv
  <1>5. CASE ~next(r)
    <2>1. transitions' = transitions
      BY <1>2, <1>5
    <2>2. TInv'
      BY <1>3, <2>1 DEF TInv, Made
    <2>3. \A q : Moving(transitions', q) = Moving(transitions, q)
      BY <2>1 DEF Moving
    <2> QED BY <1>4, <1>5, <2>1, <2>2, <2>3 DEF r
  <1>6. CASE next(r)
    <2>1. /\ DOMAIN transitions' = 1..(n + 1)
          /\ \A i \in 1..n : transitions'[i] = transitions[i]
          /\ transitions'[n + 1] = r
      <3> DEFINE S == {transitions[i] : i \in DOMAIN transitions} \cup {r}
      <3>1. transitions \in Seq(S) /\ r \in S
        BY <1>1 DEF IInv
      <3> HIDE DEF S
      <3> QED BY <1>1, <1>2, <1>6, <3>1
    <2>2. \A i \in DOMAIN transitions' : Made(transitions'[i])
      <3>1. Made(r)
        BY <1>6 DEF r
      <3> QED BY <1>1, <2>1, <3>1 DEF TInv
    <2>3. TInv'
      BY <1>3, <2>2 DEF TInv, Made
    <2>4. r.server = s
      BY <1>6 DEF r
    <2>5. ASSUME NEW q \in Servers \ {s} PROVE Moving(transitions', q) = Moving(transitions, q)
      BY <1>1, <2>1, <2>4 DEF Moving
    <2>6. \A q : \A i \in Moving(transitions, q) : i \in 1..n
      BY <1>1 DEF Moving
    <2>7. \A q \in Servers \ {s} : \A i \in Moving(transitions, q) : transitions'[i] = transitions[i]
      BY <2>1, <2>6
    <2>8. Moving(transitions, s) = {} => Moving(transitions', s) = {n + 1} /\ transitions'[n + 1] = r
      BY <1>1, <2>1, <2>4 DEF Moving
    <2> QED BY <1>4, <1>6, <2>3, <2>5, <2>7, <2>8 DEF r
  <1> QED BY <1>5, <1>6 DEF r

\* The goals of the other lights are not touched by a command.
LEMMA OthersAimed ==
  ASSUME AInv, NEW s \in Servers, NEW new, goal' = [goal EXCEPT ![s] = new],
         \A q \in Servers \ {s} : /\ colour'[q] = colour[q] /\ Moving(transitions', q) = Moving(transitions, q)
                                  /\ \A i \in Moving(transitions, q) : transitions'[i] = transitions[i],
         \A g \in new : Aimed(colour'[s], transitions', s, g)
  PROVE  AInv'
  <1>1. DOMAIN goal' = Servers /\ goal'[s] = new /\ \A q \in Servers \ {s} : goal'[q] = goal[q]
    BY DEF AInv
  <1>2. ASSUME NEW q \in Servers \ {s}, NEW g \in goal[q] PROVE Aimed(colour'[q], transitions', q, g)
    <2>1. Aimed(colour[q], transitions, q, g)
      BY DEF AInv
    <2> QED BY <1>2, <2>1 DEF Aimed
  <1> QED BY <1>1, <1>2 DEF AInv

\* A move with an end.
LEMMA MoveByAims ==
  ASSUME IInv, TInv, AInv, SizeAssumption, NEW s \in Servers,
         NEW new_mode \in {"HS", "XY", "TEMPERATURE"}, NEW dist, NEW end,
         DOMAIN dist = DOMAIN end, DOMAIN dist # {}, DOMAIN dist \subseteq Coordinates,
         \A c \in DOMAIN dist : dist[c] \in Int /\ end[c] \in Int,
         NEW time \in 0..(Word - 1), MoveBy(s, new_mode, dist, end, time)
  PROVE  TInv' /\ AInv'
  <1> DEFINE step == [c \in DOMAIN dist |-> IF time = 0 THEN 0 ELSE Round(dist[c], time)]
             t == Finite(s, step, end, time)
  <1>1. CASE UNCHANGED <<colour, mode, transitions, goal>>
    <2>1. TInv'
      BY <1>1 DEF TInv, Made
    <2>2. AInv'
      BY <1>1 DEF AInv
    <2> QED BY <2>1, <2>2
  <1>2. CASE Start(s, t, new_mode) /\ Aim(s, dist, end)
    <2>1. Word \in Nat /\ Word > 1 /\ time \in Nat
      BY DEF SizeAssumption
    <2>2. \A c \in DOMAIN dist : step[c] \in Int
      <3> SUFFICES ASSUME NEW c \in DOMAIN dist PROVE (IF time = 0 THEN 0 ELSE Round(dist[c], time)) \in Int
        OBVIOUS
      <3>1. time # 0 => Round(dist[c], time) \in Int
        BY <2>1, RoundWithin
      <3> QED BY <3>1
    <2>3. /\ t.server = s /\ t.continuous = FALSE /\ t.step = step /\ t.end = end /\ t.time = time
          /\ t.n_steps = (IF time = 0 THEN 0 ELSE time - 1)
      BY DEF Finite
    <2>4. colour[s] \in Colour
      BY DEF TInv
    <2>5. next(Ran(t)) => time > 1
      BY <2>1 DEF Finite, Ran, next
    <2>6. time > 1 =>
            /\ Ran(t).server = s /\ Ran(t).continuous = FALSE /\ Ran(t).step = step
            /\ Ran(t).end = end /\ Ran(t).time = time /\ Ran(t).n_steps = time - 2
            /\ Ran(t).period = 1 /\ next(Ran(t))
      BY <2>1 DEF Finite, Ran, next
    <2> DEFINE r == Ran(t)
               g == [from |-> colour[s], dist |-> dist, end |-> end]
    <2>7. DOMAIN step = DOMAIN dist /\ \A c \in DOMAIN dist : time > 1 => step[c] = Round(dist[c], time)
      BY <2>1
    <2>8. goal' = [goal EXCEPT ![s] = IF Moving(transitions, s) = {} THEN {g} ELSE {}]
      BY <1>2 DEF Aim, Of, Moving
    <2>9. g.from = colour[s] /\ g.dist = dist /\ g.end = end
      OBVIOUS
    <2> HIDE DEF step, t, r, g
    <2>10. Painted(t, colour[s]) \in Colour
      BY <2>2, <2>3, <2>4, <2>7, PaintedIsColour
    <2>11. next(r) => Made(r) /\ r.server = s
      BY <2>1, <2>2, <2>5, <2>6, <2>7 DEF Made, r
    <2>12. /\ TInv'
           /\ colour'[s] = Painted(t, colour[s])
           /\ \A q \in Servers \ {s} : /\ colour'[q] = colour[q] /\ Moving(transitions', q) = Moving(transitions, q)
                                       /\ \A i \in Moving(transitions, q) : transitions'[i] = transitions[i]
           /\ ~next(r) => Moving(transitions', s) = Moving(transitions, s)
           /\ next(r) /\ Moving(transitions, s) = {} => \E i : Moving(transitions', s) = {i} /\ transitions'[i] = r
      BY <1>2, <2>3, <2>10, <2>11, StartIs DEF r
    <2>13. ASSUME Moving(transitions, s) = {} PROVE Aimed(colour'[s], transitions', s, g)
      <3>1. CASE next(r)
        <4>1. time > 1
          BY <2>5, <3>1 DEF r
        <4>2. OnItsWay(colour[s], g, t)
          <5>1. Steps(t) = 0 /\ 0 \in 0..(time - 1)
            BY <2>1, <2>3, <4>1 DEF Steps
          <5>2. \A c \in DOMAIN dist : colour[s][c] = colour[s][c] + Steps(t) * step[c]
            <6> SUFFICES ASSUME NEW c \in DOMAIN dist
                         PROVE  colour[s][c] = colour[s][c] + Steps(t) * step[c]
              OBVIOUS
            <6>1. colour[s][c] \in 0..Top(c) /\ Top(c) \in Nat
              BY <2>4, <2>7, ColourIs, StoredInRange
            <6>2. step[c] \in Int
              BY <2>2
            <6> QED BY <5>1, <6>1, <6>2
          <5> QED BY <2>1, <2>3, <2>7, <2>9, <4>1, <5>1, <5>2 DEF OnItsWay
        <4>3. t.n_steps \in Nat \ {0}
          BY <2>1, <2>3, <4>1
        <4>4. OnItsWay(Painted(t, colour[s]), g, r)
          <5>1. /\ r.continuous = FALSE /\ r.step = t.step /\ r.end = t.end /\ r.time = t.time
                /\ r.n_steps = t.n_steps - 1
            BY <2>1, <2>3, <2>6, <4>1 DEF r
          <5> QED BY <2>4, <2>9, <4>2, <4>3, <5>1, StepOnItsWay
        <4>5. PICK i : Moving(transitions', s) = {i} /\ transitions'[i] = r
          BY <2>12, <2>13, <3>1
        <4> QED BY <2>4, <2>9, <2>12, <4>4, <4>5 DEF Aimed
      <3>2. CASE ~next(r)
        <4>1. t.n_steps = 0
          BY <2>1, <2>3, <2>6, <3>2 DEF r
        <4>2. colour'[s] = With(colour[s], end)
          BY <2>3, <2>12, <4>1 DEF Painted
        <4>3. Moving(transitions', s) = {}
          BY <2>12, <2>13, <3>2
        <4> QED BY <2>4, <2>9, <4>2, <4>3 DEF Aimed
      <3> QED BY <3>1, <3>2
    <2>14. \A h \in (IF Moving(transitions, s) = {} THEN {g} ELSE {}) : Aimed(colour'[s], transitions', s, h)
      BY <2>13
    <2>15. AInv'
      <3> DEFINE new == IF Moving(transitions, s) = {} THEN {g} ELSE {}
      <3>1. goal' = [goal EXCEPT ![s] = new] /\ \A h \in new : Aimed(colour'[s], transitions', s, h)
        BY <2>8, <2>14
      <3> HIDE DEF new
      <3> QED BY <2>12, <3>1, OthersAimed
    <2> QED BY <2>12, <2>15
  <1> QED BY <1>1, <1>2 DEF MoveBy

\* A move without an end.
LEMMA KeepMovingAims ==
  ASSUME IInv, TInv, AInv, SizeAssumption, NEW s \in Servers,
         NEW new_mode \in {"HS", "XY", "TEMPERATURE"}, NEW step,
         DOMAIN step \subseteq Coordinates, \A c \in DOMAIN step : step[c] \in Int,
         KeepMoving(s, new_mode, step)
  PROVE  TInv' /\ AInv'
  <1> DEFINE t == Continuous(s, step)
  <1>1. /\ Ran(t) = t /\ t.server = s /\ t.step = step /\ t.end = step /\ t.n_steps = 0
        /\ t.continuous = TRUE /\ t.period = Second
    BY DEF Continuous, Ran
  <1>2. Start(s, t, new_mode) /\ goal' = [goal EXCEPT ![s] = {}]
    BY DEF KeepMoving
  <1> HIDE DEF t
  <1>3. Painted(t, colour[s]) \in Colour
    <2>1. colour[s] \in Colour
      BY DEF TInv
    <2> QED BY <1>1, <2>1, PaintedIsColour
  <1>4. Made(t)
    BY <1>1 DEF Made, SizeAssumption
  <1>5. /\ TInv'
        /\ \A q \in Servers \ {s} : /\ colour'[q] = colour[q] /\ Moving(transitions', q) = Moving(transitions, q)
                                    /\ \A i \in Moving(transitions, q) : transitions'[i] = transitions[i]
    BY <1>1, <1>2, <1>3, <1>4, StartIs
  <1>6. AInv'
    <2> DEFINE new == {}
    <2>1. goal' = [goal EXCEPT ![s] = new]
      BY <1>2
    <2>2. \A h \in new : Aimed(colour'[s], transitions', s, h)
      OBVIOUS
    <2> HIDE DEF new
    <2> QED BY <1>5, <2>1, <2>2, OthersAimed
  <1> QED BY <1>5, <1>6

\* A light that is stopped has what it asked for: the colour it has.
LEMMA StopAims ==
  ASSUME IInv, TInv, AInv, SizeAssumption, NEW s \in Servers, stop(s)
  PROVE  TInv' /\ AInv'
  <1> DEFINE kept == DOMAIN transitions \ Moving(transitions, s)
             g == [from |-> colour[s], dist |-> <<>>, end |-> <<>>]
  <1>1. PICK p \in Positions(kept) : transitions' = [i \in DOMAIN p |-> transitions[p[i]]]
    BY DEF stop, remove, Of, Moving
  <1>2. PICK n \in Nat : DOMAIN transitions = 1..n
    BY DEF IInv
  <1>3. Cardinality(kept) \in Nat
    BY <1>2, KeptSize
  <1>4. p \in [1..Cardinality(kept) -> kept] /\ \A i, j \in DOMAIN p : i < j => p[i] # p[j]
    <2>1. kept \subseteq 1..n
      BY <1>2
    <2> HIDE DEF kept
    <2>2. p \in [1..Cardinality(kept) -> kept] /\ \A i, j \in DOMAIN p : i < j => p[i] < p[j]
      BY <1>1 DEF Positions
    <2>3. \A i \in DOMAIN p : p[i] \in kept
      BY <2>2
    <2>4. \A i \in DOMAIN p : p[i] \in Nat
      BY <2>1, <2>3
    <2> QED BY <2>2, <2>4
  <1>5. kept \in SUBSET (DOMAIN transitions) /\ \A k \in DOMAIN transitions : k \in kept <=> k \notin Moving(transitions, s)
    OBVIOUS
  <1>6. colour' = colour /\ mode' = mode /\ goal' = [goal EXCEPT ![s] = {g}]
    BY DEF stop
  <1>7. g.from = colour[s] /\ g.end = <<>> /\ DOMAIN g.end = {}
    OBVIOUS
  <1> HIDE DEF kept, g
  <1>8. DOMAIN transitions' = DOMAIN p /\ \A i \in DOMAIN p : p[i] \in kept /\ transitions'[i] = transitions[p[i]]
    BY <1>1, <1>4
  <1>13. ASSUME NEW q
        PROVE  /\ \A i \in Moving(transitions', q) : i \in DOMAIN p /\ p[i] \in Moving(transitions, q)
               /\ \A k \in Moving(transitions, q) :
                    k \in kept => \E i \in Moving(transitions', q) : p[i] = k
               /\ \A i, j \in Moving(transitions', q) : p[i] = p[j] => i = j
    <2>1. kept \in SUBSET (1..n) /\ DOMAIN transitions = 1..n
      BY <1>2, <1>5
    <2>2. \A i \in DOMAIN p : transitions'[i].server = transitions[p[i]].server
      BY <1>8
    <2>3. Keeps(transitions, n, kept, p, transitions')
      BY <1>4, <1>8, <2>1, <2>2 DEF Keeps
    <2>4. KeepsMoves(transitions, kept, p, transitions', q)
      BY <2>3, KeptOf
    <2> QED BY <2>4 DEF KeepsMoves
  <1>9. TInv'
    <2>1. \A i \in DOMAIN transitions' : Made(transitions'[i])
      BY <1>5, <1>8 DEF TInv
    <2> QED BY <1>6, <2>1 DEF TInv, Made
  <1>10. Aimed(colour'[s], transitions', s, g)
    <2>1. Moving(transitions', s) = {}
      BY <1>5, <1>8, <1>13
    <2>2. colour[s] \in Colour
      BY DEF TInv
    <2>3. With(colour[s], <<>>) = colour[s]
      <3>1. colour[s] = [c \in Coordinates |-> colour[s][c]]
        BY <2>2, ColourIs
      <3>2. With(colour[s], <<>>) = [c \in Coordinates |-> colour[s][c]]
        BY DEF With
      <3> QED BY <3>1, <3>2
    <2> QED BY <1>6, <1>7, <2>1, <2>2, <2>3 DEF Aimed
  <1>11. ASSUME NEW q \in Servers \ {s}, NEW h \in goal[q] PROVE Aimed(colour'[q], transitions', q, h)
    <2>1. Aimed(colour[q], transitions, q, h)
      BY DEF AInv
    <2>2. \A k \in Moving(transitions, q) : k \in kept
      BY <1>5 DEF Moving
    <2>3. CASE Moving(transitions, q) = {}
      <3>1. Moving(transitions', q) = {}
        BY <1>13, <2>3
      <3> QED BY <1>6, <2>1, <2>3, <3>1 DEF Aimed
    <2>4. ASSUME NEW k \in Moving(transitions, q) PROVE Aimed(colour'[q], transitions', q, h)
      <3>1. PICK i \in Moving(transitions', q) : p[i] = k
        BY <1>13, <2>2
      <3>2. Moving(transitions, q) = {k} /\ OnItsWay(colour[q], h, transitions[k])
        BY <2>1 DEF Aimed
      <3>3. Moving(transitions', q) = {i}
        BY <1>13, <3>1, <3>2
      <3>4. transitions'[i] = transitions[k]
        BY <1>8, <1>13, <3>1
      <3> QED BY <1>6, <2>1, <3>2, <3>3, <3>4 DEF Aimed
    <2> QED BY <2>3, <2>4
  <1>12. AInv'
    <2>1. DOMAIN goal' = Servers /\ goal'[s] = {g} /\ \A q \in Servers \ {s} : goal'[q] = goal[q]
      BY <1>6 DEF AInv
    <2> QED BY <1>10, <1>11, <2>1 DEF AInv
  <1> QED BY <1>9, <1>12

\* The distances there are to go are numbers.
LEMMA DistanceIsInt ==
  ASSUME NEW direction \in Directions, NEW initial \in Int, NEW final \in Int, NEW max \in Nat \ {0}
  PROVE  get_travel_distance(direction, initial, final, max) \in Int
  <1> DEFINE dist == (final - initial) % max
             rest == (max - Abs(dist)) % max
  <1>1. dist \in Int
    OBVIOUS
  <1>2. Abs(dist) \in Int
    <2> HIDE DEF dist
    <2> QED BY <1>1 DEF Abs
  <1>3. rest \in Int
    <2> HIDE DEF dist
    <2> QED BY <1>2
  <1>4. invert_angle(dist, max) \in Int
    <2>1. invert_angle(dist, max) = IF dist >= 0 THEN -rest ELSE rest
      BY DEF invert_angle
    <2> HIDE DEF dist, rest
    <2> QED BY <1>3, <2>1
  <1>5. \/ get_travel_distance(direction, initial, final, max) = dist
        \/ get_travel_distance(direction, initial, final, max) = invert_angle(dist, max)
    BY DEF get_travel_distance, Directions
  <1> HIDE DEF dist
  <1> QED BY <1>1, <1>4, <1>5

\* Commands keep colours in range and goals in sight.
LEMMA CommandAims ==
  ASSUME IInv, TInv, AInv, SizeAssumption, MessagesAssumption,
         NEW s \in Servers, NEW m \in Messages, Command(s, m)
  PROVE  TInv' /\ AInv'
  <1>0. /\ m.time \in 0..(Word - 1) /\ m.direction \in Directions
        /\ \A f \in Arguments(m.cmd) : m[f] \in Int
    BY DEF MessagesAssumption
  <1>1. \A c \in Coordinates : colour[s][c] \in Int
    <2> SUFFICES ASSUME NEW c \in Coordinates PROVE colour[s][c] \in Int
      OBVIOUS
    <2>1. colour[s] \in Colour
      BY DEF TInv
    <2>2. colour[s][c] \in 0..Top(c) /\ Top(c) \in 0..(Word - 1)
      BY <2>1, ColourIs, StoredInRange
    <2> QED BY <2>2
  <1>2. Hues \in Nat \ {0} /\ Byte \in Nat \ {0}
    BY DEF SizeAssumption
  <1>3. ASSUME NEW c \in Coordinates, NEW dist \in Int, NEW end \in Int,
               NEW f, NEW g, DOMAIN f = {c}, DOMAIN g = {c}, f[c] = dist, g[c] = end,
               NEW new_mode \in {"HS", "XY", "TEMPERATURE"},
               MoveBy(s, new_mode, f, g, m.time)
        PROVE  TInv' /\ AInv'
    <2>1. /\ DOMAIN f = {c} /\ DOMAIN g = {c} /\ DOMAIN f # {} /\ DOMAIN f \subseteq Coordinates
          /\ \A x \in DOMAIN f : f[x] \in Int /\ g[x] \in Int
      BY <1>3
    <2> QED BY <1>0, <1>3, <2>1, MoveByAims
  <1>4. ASSUME NEW b \in Coordinates, NEW c \in Coordinates, b # c,
               NEW distb \in Int, NEW distc \in Int, NEW endb \in Int, NEW endc \in Int,
               NEW f, NEW g, DOMAIN f = {b, c}, DOMAIN g = {b, c},
               f[b] = distb, f[c] = distc, g[b] = endb, g[c] = endc,
               NEW new_mode \in {"HS", "XY", "TEMPERATURE"},
               MoveBy(s, new_mode, f, g, m.time)
        PROVE  TInv' /\ AInv'
    <2>1. /\ DOMAIN f = {b, c} /\ DOMAIN g = {b, c} /\ DOMAIN f # {} /\ DOMAIN f \subseteq Coordinates
          /\ \A x \in DOMAIN f : f[x] \in Int /\ g[x] \in Int
      BY <1>4
    <2> QED BY <1>0, <1>4, <2>1, MoveByAims
  <1>5. {"hue", "saturation", "X", "Y", "temperature"} \subseteq Coordinates
    BY DEF Coordinates
  <1>6. CASE m.cmd = "MOVE_TO_HUE" /\ move_to_hue(s, m)
    <2>1. m.hue \in Int
      BY <1>0, <1>6 DEF Arguments
    <2>2. get_travel_distance(m.direction, colour[s]["hue"], m.hue, Hues) \in Int
      BY <1>0, <1>1, <1>2, <1>5, <2>1, DistanceIsInt
    <2> DEFINE d == get_travel_distance(m.direction, colour[s]["hue"], m.hue, Hues)
    <2>3. MoveBy(s, "HS", [hue |-> d], [hue |-> m.hue], m.time)
      BY <1>6 DEF move_to_hue
    <2> HIDE DEF d
    <2>4. d \in Int /\ [hue |-> d] = [x \in {"hue"} |-> d] /\ [hue |-> m.hue] = [x \in {"hue"} |-> m.hue]
      BY <2>2 DEF d
    <2> QED BY <1>3, <1>5, <2>1, <2>3, <2>4
  <1>7. CASE m.cmd = "STEP_HUE" /\ step_hue(s, m)
    <2>1. m.step_size \in Int
      BY <1>0, <1>7 DEF Arguments
    <2>2. Directed(m, m.step_size) \in Int
      BY <2>1 DEF Directed
    <2> DEFINE d == Directed(m, m.step_size)
               e == colour[s]["hue"] + d
    <2>3. MoveBy(s, "HS", [hue |-> d], [hue |-> e], m.time)
      BY <1>7 DEF step_hue
    <2>4. d \in Int /\ e \in Int
      BY <1>1, <1>5, <2>2
    <2> HIDE DEF d, e
    <2>5. [hue |-> d] = [x \in {"hue"} |-> d] /\ [hue |-> e] = [x \in {"hue"} |-> e]
      OBVIOUS
    <2> QED BY <1>3, <1>5, <2>3, <2>4, <2>5
  <1>8. CASE m.cmd = "MOVE_TO_SATURATION" /\ move_to_saturation(s, m)
    <2>1. m.saturation \in Int
      BY <1>0, <1>8 DEF Arguments
    <2>2. Directed(m, m.saturation) \in Int
      BY <2>1 DEF Directed
    <2> QED BY <1>3, <1>5, <1>8, <2>1, <2>2 DEF move_to_saturation
  <1>9. CASE m.cmd = "STEP_SATURATION" /\ step_saturation(s, m)
    <2>1. m.step_size \in Int
      BY <1>0, <1>9 DEF Arguments
    <2>2. Directed(m, m.step_size) \in Int
      BY <2>1 DEF Directed
    <2> DEFINE d == Directed(m, m.step_size)
               e == colour[s]["saturation"] + d
    <2>3. MoveBy(s, "HS", [saturation |-> d], [saturation |-> e], m.time)
      BY <1>9 DEF step_saturation
    <2>4. d \in Int /\ e \in Int
      BY <1>1, <1>5, <2>2
    <2> HIDE DEF d, e
    <2>5. [saturation |-> d] = [x \in {"saturation"} |-> d] /\ [saturation |-> e] = [x \in {"saturation"} |-> e]
      OBVIOUS
    <2> QED BY <1>3, <1>5, <2>3, <2>4, <2>5
  <1>10. CASE m.cmd = "MOVE_TO_HUE_AND_SATURATION" /\ move_to_hue_and_saturation(s, m)
    <2>1. m.hue \in Int /\ m.saturation \in Int
      BY <1>0, <1>10 DEF Arguments
    <2>2. /\ get_travel_distance(m.direction, colour[s]["hue"], m.hue, Hues) \in Int
          /\ get_travel_distance(m.direction, colour[s]["saturation"], m.saturation, Byte) \in Int
      BY <1>0, <1>1, <1>2, <1>5, <2>1, DistanceIsInt
    <2> QED BY <1>4, <1>5, <1>10, <2>1, <2>2 DEF move_to_hue_and_saturation
  <1>11. CASE m.cmd = "MOVE_TO_XY" /\ move_to_xy(s, m)
    <2>1. m.X \in Int /\ m.Y \in Int
      BY <1>0, <1>11 DEF Arguments
    <2>2. m.X - colour[s]["X"] \in Int /\ m.Y - colour[s]["Y"] \in Int
      BY <1>1, <1>5, <2>1
    <2> DEFINE dx == m.X - colour[s]["X"]
               dy == m.Y - colour[s]["Y"]
    <2>3. MoveBy(s, "XY", [X |-> dx, Y |-> dy], [X |-> m.X, Y |-> m.Y], m.time)
      BY <1>11 DEF move_to_xy
    <2>4. dx \in Int /\ dy \in Int
      BY <2>2
    <2> HIDE DEF dx, dy
    <2>5. /\ [X |-> dx, Y |-> dy] = [x \in {"X", "Y"} |-> IF x = "X" THEN dx ELSE dy]
          /\ [X |-> m.X, Y |-> m.Y] = [x \in {"X", "Y"} |-> IF x = "X" THEN m.X ELSE m.Y]
      OBVIOUS
    <2> QED BY <1>4, <1>5, <2>1, <2>3, <2>4, <2>5
  <1>12. CASE m.cmd = "STEP_XY" /\ step_xy(s, m)
    <2>1. m.X_step \in Int /\ m.Y_step \in Int
      BY <1>0, <1>12 DEF Arguments
    <2>2. colour[s]["X"] + m.X_step \in Int /\ colour[s]["Y"] + m.Y_step \in Int
      BY <1>1, <1>5, <2>1
    <2> DEFINE ex == colour[s]["X"] + m.X_step
               ey == colour[s]["Y"] + m.Y_step
    <2>3. MoveBy(s, "XY", [X |-> m.X_step, Y |-> m.Y_step], [X |-> ex, Y |-> ey], m.time)
      BY <1>12 DEF step_xy
    <2>4. ex \in Int /\ ey \in Int
      BY <2>2
    <2> HIDE DEF ex, ey
    <2>5. /\ [X |-> m.X_step, Y |-> m.Y_step] = [x \in {"X", "Y"} |-> IF x = "X" THEN m.X_step ELSE m.Y_step]
          /\ [X |-> ex, Y |-> ey] = [x \in {"X", "Y"} |-> IF x = "X" THEN ex ELSE ey]
      OBVIOUS
    <2> QED BY <1>4, <1>5, <2>1, <2>3, <2>4, <2>5
  <1>13. CASE m.cmd = "MOVE_TO_COLOUR_TEMPERATURE" /\ move_to_colour_temperature(s, m)
    <2>1. m.colour \in Int
      BY <1>0, <1>13 DEF Arguments
    <2>2. m.colour - colour[s]["temperature"] \in Int
      BY <1>1, <1>5, <2>1
    <2> DEFINE d == m.colour - colour[s]["temperature"]
    <2>3. MoveBy(s, "TEMPERATURE", [temperature |-> d], [temperature |-> m.colour], m.time)
      BY <1>13 DEF move_to_colour_temperature
    <2>4. d \in Int
      BY <2>2
    <2> HIDE DEF d
    <2>5. /\ [temperature |-> d] = [x \in {"temperature"} |-> d]
          /\ [temperature |-> m.colour] = [x \in {"temperature"} |-> m.colour]
      OBVIOUS
    <2> QED BY <1>3, <1>5, <2>1, <2>3, <2>4, <2>5
  <1>14. CASE m.cmd = "MOVE_HUE" /\ move_hue(s, m)
    <2>1. m.rate \in Int
      BY <1>0, <1>14 DEF Arguments
    <2>2. Directed(m, m.rate) \in Int
      BY <2>1 DEF Directed
    <2> QED BY <1>5, <1>14, <2>2, KeepMovingAims DEF move_hue
  <1>15. CASE m.cmd = "MOVE_SATURATION" /\ move_saturation(s, m)
    <2>1. m.rate \in Int
      BY <1>0, <1>15 DEF Arguments
    <2>2. Directed(m, m.rate) \in Int
      BY <2>1 DEF Directed
    <2> QED BY <1>5, <1>15, <2>2, KeepMovingAims DEF move_saturation
  <1>16. CASE m.cmd = "MOVE_XY" /\ move_xy(s, m)
    <2>1. m.X_rate \in Int /\ m.Y_rate \in Int
      BY <1>0, <1>16 DEF Arguments
    <2> QED BY <1>5, <1>16, <2>1, KeepMovingAims DEF move_xy
  <1>17. CASE m.cmd = "STOP" /\ stop(s)
    BY <1>17, StopAims
  <1> QED BY <1>6, <1>7, <1>8, <1>9, <1>10, <1>11, <1>12, <1>13, <1>14, <1>15, <1>16, <1>17
          DEF Command, handle_command

-----------------------------------------------------------------------------
(* The theorems.                                                           *)

LEMMA Invariant == Spec => [](IInv /\ TInv /\ AInv)
  <1>1. Init => IInv /\ TInv /\ AInv
    <2> SUFFICES ASSUME Init PROVE IInv /\ TInv /\ AInv
      OBVIOUS
    <2>1. transitions = <<>> /\ DOMAIN transitions = {}
      BY DEF Init
    <2>2. IInv
      BY <2>1 DEF IInv
    <2>3. TInv
      BY <2>1, ColoursAssumption DEF Init, TInv
    <2>4. AInv
      BY DEF Init, AInv
    <2> QED BY <2>2, <2>3, <2>4
  <1>2. IInv /\ TInv /\ AInv /\ [Next]_vars => (IInv /\ TInv /\ AInv)'
    <2> SUFFICES ASSUME IInv, TInv, AInv, [Next]_vars PROVE (IInv /\ TInv /\ AInv)'
      OBVIOUS
    <2>1. CASE UNCHANGED vars
      <3>1. UNCHANGED <<colour, mode, transitions, goal>>
        BY <2>1 DEF vars
      <3>2. IInv'
        BY <3>1 DEF IInv, Waiting, Prompt, OnTime, InTime, TurnLater, Total
      <3>3. TInv' /\ AInv'
        BY <3>1 DEF TInv, AInv, Made
      <3> QED BY <3>2, <3>3
    <2>2. ASSUME NEW s \in Servers, NEW m \in Messages, Command(s, m) PROVE (IInv /\ TInv /\ AInv)'
      BY <2>2, CommandKeeps, CommandAims, SizeAssumption, MessagesAssumption
    <2>3. CASE Transition
      BY <2>3, TransitionKeeps, TransitionAims, SizeAssumption
    <2> QED BY <2>1, <2>2, <2>3 DEF Next
  <1> QED BY <1>1, <1>2, PTL DEF Spec

\* A move is over one unit before the time it was given, or, if it began behind a
\* slower one, perhaps a turn of its counter later, and nothing else can delay or hurry
\* it (ColourControl::Server::transition, add_transition, Hue_Transition::run).
THEOREM MovesKeepTime == Spec => []KeepsTime
  <1>1. IInv => KeepsTime
    BY DEF IInv, KeepsTime, OnTime, InTime, TurnLater
  <1> QED BY <1>1, Invariant, PTL

\* Colours stay in their ranges, modes and moves under way are well formed, for
\* any number of lights, sizes of the values, and commands.
THEOREM ColoursTyped == Spec => []TypeOK
  <1>1. IInv /\ TInv => TypeOK
    <2> SUFFICES ASSUME IInv, TInv PROVE TypeOK
      OBVIOUS
    <2>1. \A s \in Servers : \A c \in Coordinates : colour[s][c] \in 0..Top(c)
      <3> SUFFICES ASSUME NEW s \in Servers, NEW c \in Coordinates PROVE colour[s][c] \in 0..Top(c)
        OBVIOUS
      <3>1. colour[s] \in Colour
        BY DEF TInv
      <3> QED BY <3>1, ColourIs, SizeAssumption
    <2> QED BY <2>1 DEF TypeOK, IInv, TInv, Waiting, Made
  <1> QED BY <1>1, Invariant, PTL

\* A move that was alone ends at what was asked for, and leaves the other values
\* as they were, whatever the distance, the rounding of its steps, the values
\* that wrapped on the way and the moves of other lights.
THEOREM MovesArrive == Spec => []Arrives
  <1>1. AInv => Arrives
    BY DEF AInv, Aimed, Arrives, Of, Moving
  <1> QED BY <1>1, Invariant, PTL

\* After STOP a light keeps its colour: none of its moves is left in the list
\* that all lights share.
THEOREM StoppedStays == Spec => []StaysStopped
  <1>1. AInv /\ TInv => StaysStopped
    <2> SUFFICES ASSUME AInv, TInv, NEW s \in Servers, NEW g \in goal[s], DOMAIN g.end = {}
                 PROVE  colour[s] = g.from
      BY DEF StaysStopped
    <2>1. colour[s] = With(g.from, g.end) /\ g.from \in Colour
      BY DEF AInv, Aimed
    <2>2. With(g.from, g.end) = [c \in Coordinates |-> g.from[c]]
      BY DEF With
    <2>3. g.from = [c \in Coordinates |-> g.from[c]]
      BY <2>1, ColourIs, SizeAssumption
    <2> QED BY <2>1, <2>2, <2>3
  <1> QED BY <1>1, Invariant, PTL

\* The steps of a move that is alone add up: after k of them the value is within
\* k halves of the straight line to the end, for all distances and times.
THEOREM MovesOnCourse == Spec => []OnCourse
  <1>1. IInv /\ AInv /\ TInv => OnCourse
    <2> SUFFICES ASSUME IInv, AInv, TInv, NEW s \in Servers, NEW g \in goal[s], NEW i \in Of(s),
                        NEW c \in DOMAIN g.dist, WithinRange(transitions[i], g, c)
                 PROVE  LET t == transitions[i]
                            k == t.time - 1 - t.n_steps
                        IN 2 * Abs(t.time * (colour[s][c] - g.from[c]) - k * g.dist[c]) <= k * t.time
      BY DEF OnCourse
    <2> DEFINE t == transitions[i]
    <2>1. OnItsWay(colour[s], g, t)
      BY DEF AInv, Aimed, Of, Moving
    <2> DEFINE T == t.time
               k == t.time - 1 - t.n_steps
               d == g.dist[c]
               x == colour[s][c]
               a == g.from[c]
               r == Round(d, T)
    <2>2. /\ T \in Nat \ {0} /\ k \in 0..(T - 1) /\ d \in Int /\ x = a + k * r
      BY <2>1 DEF OnItsWay, Steps
    <2>3. a \in Int
      <3>1. g.from \in Colour /\ c \in Coordinates
        BY <2>1 DEF AInv, Aimed, OnItsWay
      <3>2. Top(c) \in Nat
        <4>1. 0 \in Int
          OBVIOUS
        <4>2. Top(c) \in 0..(Word - 1)
          BY <3>1, <4>1, StoredInRange, SizeAssumption
        <4> QED BY <4>2
      <3>3. a \in 0..Top(c)
        BY <3>1, ColourIs, SizeAssumption
      <3> QED BY <3>2, <3>3
    <2>4. r \in Int /\ 2 * T * r - 2 * d <= T /\ 2 * d - 2 * T * r <= T
      <3> HIDE DEF T, d
      <3> QED BY <2>2, RoundWithin
    <2> HIDE DEF T, k, d, x, a, r
    <2> DEFINE e == T * r - d
    <2>5. e \in Int /\ 2 * e <= T /\ -2 * e <= T
      BY <2>2, <2>4
    <2>6. T * (x - a) - k * d = k * e
      <3>1. x - a = k * r
        BY <2>2, <2>3, <2>4
      <3>2. T * (k * r) - k * d = k * (T * r - d)
        BY <2>2, <2>4
      <3> QED BY <3>1, <3>2
    <2> HIDE DEF e
    <2>7. k \in Nat /\ 2 * (k * e) <= k * T /\ -2 * (k * e) <= k * T
      <3>1. k \in Nat /\ T \in Nat
        BY <2>2
      <3>2. k * (2 * e) <= k * T /\ k * (-2 * e) <= k * T
        BY <2>5, <3>1
      <3> QED BY <2>5, <3>1, <3>2
    <2>8. 2 * Abs(k * e) <= k * T
      <3>1. k * e \in Int
        BY <2>5, <2>7
      <3> QED BY <2>7, <3>1 DEF Abs
    <2>9. 2 * Abs(T * (x - a) - k * d) <= k * T
      BY <2>6, <2>8
    <2> QED BY <2>9 DEF T, x, a, k, d
  <1> QED BY <1>1, Invariant, PTL
=============================================================================
