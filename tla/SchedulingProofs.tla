--------------------------- MODULE SchedulingProofs ---------------------------
(***************************************************************************)
(* For every calendar, clock and set of requests: entries, programs and    *)
(* units are well formed (TypeOK), ids name one entry or program           *)
(* (IdsUnique), no entry runs more than once in one of its periods         *)
(* (RunsOncePerPeriod), and weekly entries run on their day                *)
(* (WeeklyOnTheDay).                                                       *)
(*                                                                         *)
(* The invariant: next_run has moved on by a step for each run, never      *)
(* further than a step past the latest time (Counting); a weekly entry's   *)
(* is on its day, and a step is a week (OnDay); programs consist of        *)
(* actions that the units know (Runnable).                                 *)
(***************************************************************************)
EXTENDS Scheduling, SequenceTheorems, WellFoundedInduction, TLAPS

Stamp == 0..(Modulus - 1)

Time(s) == IF s = "EVENT" THEN Interval ELSE Day

EntryOf(s) ==
  [id : Ids, status : BOOLEAN, time : Time(s), pid : Ids, next_run : Stamp,
   asked : Stamp, first : Stamp, set : BOOLEAN, runs : 0..MaxRuns]

Unique(list) == \A i, j \in DOMAIN list : list[i].id = list[j].id => i = j

\* Runs leave their mark on next_run: it has moved on by a step for each of
\* them, and is no more than a step past the latest time.
Counting(s, e, l) ==
  e.set /\ Representable(s, e, l) =>
    /\ e.first + e.runs * Step(s, e) <= e.next_run
    /\ e.runs > 0 => e.next_run <= l + Step(s, e)

\* A weekly entry that was defined after the first week is on its day.
OnDay(s, e, l) ==
  /\ s = "WEEKLY" /\ e.time \in TimesOfWeek
  /\ e.asked \in WEEK..(Modulus \div 2 - 1) /\ Representable(s, e, l)
  => /\ e.asked <= e.first /\ e.first < e.asked + WEEK
     /\ OnTheDay(e.time, e.first) /\ OnTheDay(e.time, e.next_run)

Kept(s, e, l) == Counting(s, e, l) /\ OnDay(s, e, l)

ListOK(s, list, l) ==
  /\ list \in Seq(EntryOf(s))
  /\ Unique(list)
  /\ \A i \in DOMAIN list : Kept(s, list[i], l)

\* Every program has actions, that the units can be asked for.
Runnable == \A p \in programs : p.actions \in Seq(Action)

ProgramsOK ==
  /\ \A p \in programs : p.pid \in Ids
  /\ \A p, q \in programs : p.pid = q.pid \/ p.name = q.name => p = q

\* The inductive invariant.
IInv ==
  /\ time \in Stamp /\ latest \in Stamp /\ time <= latest
  /\ enabled \in [Services -> BOOLEAN]
  /\ entries = [s \in Services |-> entries[s]]
  /\ \A s \in Services : ListOK(s, entries[s], latest)
  /\ ProgramsOK /\ Runnable
  /\ units \in Units

-----------------------------------------------------------------------------
(* Arithmetic.                                                             *)

LEMMA Constants ==
  /\ Modulus \in Nat \ {0} /\ MINUTE \in Nat \ {0} /\ HOUR \in Nat \ {0}
  /\ DAY \in Nat \ {0} /\ DAYS \in Nat \ {0} /\ DAY_OF_WEEK_BASE \in Nat
  /\ MaxId \in Nat /\ MaxRuns \in Nat /\ WEEK \in Nat
  /\ Clocks \subseteq Stamp /\ Garbage \subseteq Stamp
<1>1. DAYS * DAY \in Nat
  BY CalendarAssumption
<1> QED
  BY <1>1, CalendarAssumption, ClockAssumption, BoundAssumption DEF WEEK, Stamp

\* The rest of a division by the modulus is a timestamp.
LEMMA InStamp == \A n \in Int : n % Modulus \in Stamp
BY Constants DEF Stamp

\* A timestamp in range is not changed by taking it modulo the modulus.
LEMMA NoWrap == \A n \in Stamp : n % Modulus = n
BY Constants DEF Stamp

\* One run more is one step more.
LEMMA OneMore == \A n, k \in Nat : (n + 1) * k = n * k + k /\ n * k \in Nat
OBVIOUS

\* The first run of a weekly entry is a timestamp.
LEMMA FirstIsStamp ==
  ASSUME NEW d \in Day, NEW t \in Stamp PROVE first(d, t) \in Stamp
<1>1. \A a \in Int, b \in Nat \ {0} : Quot(a, b) \in Int
  BY DEF Quot
<1>2. \A a \in Int, b \in Nat \ {0} : Rem(a, b) \in Int
  <2> TAKE a \in Int, b \in Nat \ {0}
  <2>1. \A q \in Int : a - b * q \in Int
    OBVIOUS
  <2> QED
    BY <1>1, <2>1 DEF Rem
<1>3. Signed(t) \in Int
  BY Constants DEF Signed, Stamp
<1>4. Rem(Quot(Signed(t), DAY), DAYS) + DAY_OF_WEEK_BASE \in Int
  <2>1. Quot(Signed(t), DAY) \in Int
    BY <1>1, <1>3, Constants
  <2>2. Rem(Quot(Signed(t), DAY), DAYS) \in Int
    BY <1>2, <2>1, Constants
  <2> QED
    BY <2>2, Constants
<1>5. \A n \in Int : ToByte(n) \in Int
  BY DEF ToByte
<1>6. convert(t).day \in Int
  BY <1>4, <1>5, Constants DEF convert
<1>7. Rem(Signed(t), DAY) \in Int
  BY <1>2, <1>3, Constants
<1>8. convert(t).hour \in Int
  <2>1. Quot(Rem(Signed(t), DAY), HOUR) \in Int
    BY <1>1, <1>7, Constants
  <2> QED
    BY <2>1, <1>5 DEF convert
<1>9. convert(t).minute \in Int
  <2>1. Rem(Rem(Signed(t), DAY), HOUR) \in Int
    BY <1>2, <1>7, Constants
  <2>2. Quot(Rem(Rem(Signed(t), DAY), HOUR), MINUTE) \in Int
    BY <2>1, <1>1, Constants
  <2> QED
    BY <2>2, <1>5 DEF convert
<1> DEFINE c == convert(t)
           sum == t + (d.hour - c.hour) * HOUR + (d.minute - c.minute) * MINUTE
                    + (d.day - c.day) * DAY
<1>10. sum \in Int
  <2>1. d.day \in Nat /\ d.hour \in Nat /\ d.minute \in Nat /\ t \in Int
    BY DEF Day, Stamp
  <2>2. \A x, y \in Int : x * y \in Int
    OBVIOUS
  <2> HIDE DEF c
  <2>3. c.day \in Int /\ c.hour \in Int /\ c.minute \in Int
    BY <1>6, <1>8, <1>9 DEF c
  <2>4. (d.hour - c.hour) * HOUR \in Int /\ (d.minute - c.minute) * MINUTE \in Int
        /\ (d.day - c.day) * DAY \in Int
    BY <2>1, <2>2, <2>3, Constants
  <2> QED
    BY <2>1, <2>4
<1>11. first(d, t) = IF t > sum % Modulus THEN ((sum % Modulus) + WEEK) % Modulus ELSE sum % Modulus
  BY DEF first
<1> HIDE DEF sum
<1>12. sum % Modulus \in Stamp
  BY <1>10, InStamp
<1>13. ((sum % Modulus) + WEEK) % Modulus \in Stamp
  <2>1. (sum % Modulus) + WEEK \in Int
    BY <1>12, Constants DEF Stamp
  <2> QED
    BY <2>1, InStamp
<1> QED
  BY <1>11, <1>12, <1>13

\* The length of a step is a number.
LEMMA StepIsNat ==
  ASSUME NEW s \in Services, NEW e \in EntryOf(s) PROVE Step(s, e) \in Nat
BY Constants DEF Step, EntryOf, Time, Interval, Services

-----------------------------------------------------------------------------
(* The calendar.                                                           *)

\* Division of numbers that are not negative, and of integers.
LEMMA Division ==
  ASSUME NEW n \in Int, NEW b \in Nat \ {0}
  PROVE  /\ n = b * (n \div b) + (n % b) /\ n \div b \in Int /\ n % b \in 0..(b - 1)
         /\ n \in Nat => n \div b \in Nat
OBVIOUS

\* Quotient and rest are what adds up.
LEMMA Divided ==
  ASSUME NEW q \in Int, NEW b \in Nat \ {0}, NEW r \in 0..(b - 1)
  PROVE  (b * q + r) \div b = q /\ (b * q + r) % b = r
OBVIOUS

\* A week more is the same day of the week.
LEMMA Congruent ==
  ASSUME NEW x \in Int, NEW b \in Nat \ {0}, NEW k \in Int
  PROVE  (x + b * k) % b = x % b
<1> DEFINE q == x \div b
           r == x % b
<1>1. x = b * q + r /\ q \in Int /\ r \in 0..(b - 1)
  BY Division
<1> HIDE DEF q, r
<1>2. b * (q + k) = b * q + b * k /\ b * q \in Int /\ b * k \in Int
  BY <1>1
<1>3. x + b * k = b * (q + k) + r /\ q + k \in Int
  BY <1>1, <1>2
<1>4. (b * (q + k) + r) % b = r
  BY <1>1, <1>3, Divided
<1> QED BY <1>3, <1>4 DEF r

LEMMA OneRound ==
  ASSUME NEW x \in Int, NEW b \in Nat \ {0}
  PROVE  (x + b) % b = x % b
<1> DEFINE one == 1
<1>1. one \in Int /\ b * one = b
  OBVIOUS
<1> HIDE DEF one
<1>2. (x + b * one) % b = x % b
  BY <1>1, Congruent
<1> QED BY <1>1, <1>2

\* Going on from some day to a day of the week comes to that day.
LEMMA ToTheDay ==
  ASSUME NEW x \in Int, NEW b \in Nat \ {0}, NEW d \in 0..(b - 1)
  PROVE  (x + d - (x % b)) % b = d
<1> DEFINE q == x \div b
           r == x % b
           p == b * q
<1>1. x = p + r /\ q \in Int /\ r \in 0..(b - 1)
  BY Division
<1>2. p \in Int
  BY <1>1
<1> HIDE DEF p, r
<1>3. x + d - r = p + d
  BY <1>1, <1>2
<1> HIDE DEF q
<1>4. (p + d) % b = d
  BY <1>1, Divided DEF p
<1> QED BY <1>3, <1>4 DEF r

\* The moment s of minute m of hour h of a day.
Moment(h, m, s) == HOUR * h + MINUTE * m + s

LEMMA Calendar ==
  /\ DAY \div HOUR \in Nat \ {0} /\ DAY = HOUR * (DAY \div HOUR)
  /\ HOUR \div MINUTE \in Nat \ {0} /\ HOUR = MINUTE * (HOUR \div MINUTE)
<1>1. ASSUME NEW a \in Nat \ {0}, NEW b \in Nat \ {0}, a % b = 0
      PROVE  a \div b \in Nat \ {0} /\ a = b * (a \div b)
  <2> DEFINE q == a \div b
  <2>1. a = b * q + (a % b) /\ q \in Nat
    BY Division
  <2> HIDE DEF q
  <2>2. a = b * q /\ b * 0 = 0
    BY <1>1, <2>1
  <2> QED BY <2>1, <2>2 DEF q
<1> QED BY <1>1, CalendarAssumption

\* A part of a whole that comes before the end.
LEMMA Within ==
  ASSUME NEW b \in Nat \ {0}, NEW n \in Nat, NEW i \in 0..(n - 1), NEW r \in 0..(b - 1)
  PROVE  b * i + r \in 0..(b * n - 1)
<1>1. b * (i + 1) <= b * n /\ b * (i + 1) = b * i + b /\ b * i \in Nat /\ b * n \in Nat
  <2>1. b * n = b * (i + 1) + b * (n - (i + 1)) /\ b * (n - (i + 1)) \in Nat
    OBVIOUS
  <2> QED BY <2>1
<1> DEFINE p == b * i
           w == b * n
<1>2. p + b <= w /\ p \in Nat /\ w \in Nat
  BY <1>1
<1> HIDE DEF p, w
<1>3. p + r \in 0..(w - 1)
  BY <1>2
<1> QED BY <1>3 DEF p, w

\* Day, hour and minute of a timestamp that is put together from them.
LEMMA PutTogether ==
  ASSUME NEW k \in Nat, NEW h \in 0..(DAY \div HOUR - 1), NEW m \in 0..(HOUR \div MINUTE - 1),
         NEW s \in 0..(MINUTE - 1), NEW t, t = DAY * k + Moment(h, m, s)
  PROVE  /\ Moment(h, m, s) \in 0..(DAY - 1)
         /\ t \div DAY = k /\ t % DAY = Moment(h, m, s) /\ t \in Nat
         /\ (t % DAY) \div HOUR = h /\ (t % HOUR) \div MINUTE = m
<1> DEFINE H == DAY \div HOUR
           M == HOUR \div MINUTE
           r == MINUTE * m + s
<1>1. H \in Nat /\ DAY = HOUR * H /\ M \in Nat /\ HOUR = MINUTE * M
  BY Calendar
<1> HIDE DEF H, M
<1>2. r \in 0..(HOUR - 1) /\ r \div MINUTE = m
  <2>1. m \in 0..(M - 1)
    BY DEF M
  <2>2. MINUTE * m + s \in 0..(MINUTE * M - 1)
    BY <1>1, <2>1, Within, Constants
  <2>3. m \in Int
    OBVIOUS
  <2>4. (MINUTE * m + s) \div MINUTE = m
    BY <2>3, Divided, Constants
  <2> QED BY <1>1, <2>2, <2>4
<1> DEFINE p == HOUR * h + r
<1>3. Moment(h, m, s) = p
  <2>1. HOUR * h \in Int /\ MINUTE * m \in Int /\ s \in Int
    BY Constants
  <2> QED BY <2>1 DEF Moment
<1> HIDE DEF r
<1>4. p \in 0..(DAY - 1) /\ p \div HOUR = h /\ p % HOUR = r
  <2>1. h \in 0..(H - 1)
    BY DEF H
  <2>2. HOUR * h + r \in 0..(HOUR * H - 1)
    BY <1>1, <1>2, <2>1, Within, Constants
  <2>3. h \in Int
    OBVIOUS
  <2>4. (HOUR * h + r) \div HOUR = h /\ (HOUR * h + r) % HOUR = r
    <3>1. HOUR \in Nat \ {0} /\ r \in 0..(HOUR - 1) /\ h \in Int
      BY <1>2, Constants
    <3> QED BY <3>1, Divided
  <2> QED BY <1>1, <2>2, <2>4
<1>5. t % HOUR = r
  <2>1. DAY * k = HOUR * (H * k) /\ H * k \in Nat
    BY <1>1, Constants
  <2> DEFINE c == H * k
             d == HOUR * h
  <2>2. c \in Nat /\ d \in Int /\ t = HOUR * c + (d + r)
    BY <1>3, <2>1, Constants
  <2>3. HOUR * (c + h) = HOUR * c + d
    <3> HIDE DEF c
    <3> QED BY <2>2, Constants
  <2>4. c + h \in Int /\ HOUR * c \in Int
    BY <2>2, Constants
  <2> HIDE DEF c, d
  <2>5. t = HOUR * (c + h) + r
    BY <1>2, <2>2, <2>3, <2>4
  <2>6. (HOUR * (c + h) + r) % HOUR = r
    BY <1>2, <2>4, Divided, Constants
  <2> QED BY <2>5, <2>6
<1> HIDE DEF p
<1>6. t \div DAY = k /\ t % DAY = p
  <2>1. DAY \in Nat \ {0} /\ p \in 0..(DAY - 1) /\ k \in Int
    BY <1>4, Constants
  <2>2. (DAY * k + p) \div DAY = k /\ (DAY * k + p) % DAY = p
    BY <2>1, Divided
  <2> QED BY <1>3, <2>2
<1>7. t \in Nat
  <2>1. DAY * k \in Nat
    BY Constants
  <2> QED BY <1>3, <1>4, <2>1
<1> QED BY <1>2, <1>3, <1>4, <1>5, <1>6, <1>7

\* The week day of a day that is counted from the start.
WeekDay(k) == (DAY_OF_WEEK_BASE + k) % DAYS

\* Every timestamp is put together from its day, hour and minute, which are
\* what convert makes of it.
LEMMA TakenApart ==
  ASSUME NEW t \in Nat, t < Modulus \div 2
  PROVE  \E k \in Nat, h \in 0..(DAY \div HOUR - 1), m \in 0..(HOUR \div MINUTE - 1), s \in 0..(MINUTE - 1) :
           /\ t = DAY * k + Moment(h, m, s)
           /\ convert(t) = [day |-> WeekDay(k), hour |-> h, minute |-> m]
<1> DEFINE k == t \div DAY
           u == t % DAY
           h == u \div HOUR
           r == u % HOUR
           m == r \div MINUTE
           s == r % MINUTE
<1>0. DAY \in Nat \ {0} /\ HOUR \in Nat \ {0} /\ MINUTE \in Nat \ {0} /\ t \in Int
  BY Constants
<1>1. t = DAY * k + u /\ k \in Nat /\ u \in 0..(DAY - 1)
  BY <1>0, Division
<1> HIDE DEF k, u
<1>2. u = HOUR * h + r /\ h \in Nat /\ r \in 0..(HOUR - 1)
  <2>1. u \in Int /\ u \in Nat
    BY <1>0, <1>1
  <2> QED BY <1>0, <2>1, Division
<1> HIDE DEF h, r
<1>3. r = MINUTE * m + s /\ m \in Nat /\ s \in 0..(MINUTE - 1)
  <2>1. r \in Int /\ r \in Nat
    BY <1>0, <1>2
  <2> QED BY <1>0, <2>1, Division
<1> HIDE DEF m, s
<1>4. ASSUME NEW b \in Nat \ {0}, NEW n \in Nat, NEW i \in Nat, NEW x \in Nat, b * i + x \in 0..(b * n - 1)
      PROVE  i \in 0..(n - 1)
  <2>1. b * i <= b * n - 1
    <3> DEFINE p == b * i
               w == b * n
    <3>1. p \in Nat /\ w \in Nat /\ p + x \in 0..(w - 1)
      BY <1>4
    <3> HIDE DEF p, w
    <3>2. p <= w - 1
      BY <3>1
    <3> QED BY <3>2 DEF p, w
  <2>2. ASSUME i >= n PROVE FALSE
    <3>1. b * i = b * n + b * (i - n) /\ b * (i - n) \in Nat /\ b * n \in Nat
      BY <2>2
    <3> QED BY <2>1, <3>1
  <2> QED BY <2>2
<1>5. h \in 0..(DAY \div HOUR - 1)
  <2> DEFINE H == DAY \div HOUR
  <2>1. H \in Nat /\ DAY = HOUR * H
    BY Calendar
  <2> HIDE DEF H
  <2>2. h \in 0..(H - 1)
    BY <1>1, <1>2, <1>4, <2>1, Constants
  <2> QED BY <2>2 DEF H
<1>6. m \in 0..(HOUR \div MINUTE - 1)
  <2> DEFINE M == HOUR \div MINUTE
  <2>1. M \in Nat /\ HOUR = MINUTE * M
    BY Calendar
  <2> HIDE DEF M
  <2>2. m \in 0..(M - 1)
    BY <1>2, <1>3, <1>4, <2>1, Constants
  <2> QED BY <2>2 DEF M
<1>7. t = DAY * k + Moment(h, m, s)
  <2>1. DAY * k \in Int /\ HOUR * h \in Int /\ MINUTE * m \in Int /\ s \in Int
    BY <1>1, <1>2, <1>3, Constants
  <2> QED BY <1>1, <1>2, <1>3, <2>1 DEF Moment
<1>8. Signed(t) = t
  BY Constants DEF Signed
<1>9. \A a \in Nat, b \in Nat \ {0} : Quot(a, b) = a \div b /\ Rem(a, b) = a % b
  <2> TAKE a \in Nat, b \in Nat \ {0}
  <2>1. Quot(a, b) = a \div b
    BY DEF Quot
  <2> DEFINE q == a \div b
             x == a % b
  <2>2. a = b * q + x /\ q \in Int /\ x \in Int
    BY Division
  <2> HIDE DEF q, x
  <2>3. b * q \in Int
    BY <2>2
  <2>4. a - b * q = x
    BY <2>2, <2>3
  <2> QED BY <2>1, <2>4 DEF Rem, q, x
<1>10. \A n \in 0..255 : ToByte(n) = n
  BY DEF ToByte
<1>11. ToByte(Rem(k, DAYS) + DAY_OF_WEEK_BASE) % DAYS = WeekDay(k)
  <2> DEFINE x == k % DAYS
             q == k \div DAYS
  <2>1. k = DAYS * q + x /\ q \in Int /\ x \in 0..(DAYS - 1)
    BY <1>1, Division, Constants
  <2>2. Rem(k, DAYS) = x
    BY <1>1, <1>9, Constants
  <2> HIDE DEF x, q
  <2>3. x + DAY_OF_WEEK_BASE \in 0..255
    BY <2>1, Constants, CalendarAssumption
  <2>4. WeekDay(k) = (x + DAY_OF_WEEK_BASE + DAYS * q) % DAYS
    <3>1. DAYS * q \in Int
      BY <2>1, Constants
    <3>2. DAY_OF_WEEK_BASE + k = x + DAY_OF_WEEK_BASE + DAYS * q
      BY <2>1, <3>1, Constants
    <3> QED BY <3>2 DEF WeekDay
  <2>5. x + DAY_OF_WEEK_BASE \in Int
    BY <2>3
  <2>6. WeekDay(k) = (x + DAY_OF_WEEK_BASE) % DAYS
    BY <2>1, <2>4, <2>5, Congruent, Constants
  <2> QED BY <1>10, <2>2, <2>3, <2>6
<1>12. convert(t) = [day |-> WeekDay(k), hour |-> h, minute |-> m]
  <2>1. Quot(Signed(t), DAY) = k /\ Rem(Signed(t), DAY) = u
    BY <1>8, <1>9, Constants DEF k, u
  <2>2. Quot(u, HOUR) = h /\ Rem(u, HOUR) = r
    <3>1. u \in Nat
      BY <1>0, <1>1
    <3> QED BY <1>0, <1>9, <3>1 DEF h, r
  <2>3. Quot(r, MINUTE) = m
    BY <1>2, <1>9, Constants DEF m
  <2>4. ToByte(h) = h /\ ToByte(m) = m
    <3>1. h \in 0..255
      <4> DEFINE H == DAY \div HOUR
      <4>1. h \in 0..(H - 1) /\ H \in 0..256
        BY <1>5, CalendarAssumption
      <4> HIDE DEF H
      <4> QED BY <4>1
    <3>2. m \in 0..255
      <4> DEFINE M == HOUR \div MINUTE
      <4>1. m \in 0..(M - 1) /\ M \in 0..256
        BY <1>6, CalendarAssumption
      <4> HIDE DEF M
      <4> QED BY <4>1
    <3> QED BY <1>10, <3>1, <3>2
  <2> QED BY <2>1, <2>2, <2>3, <2>4, <1>11 DEF convert
<1> QED BY <1>1, <1>3, <1>5, <1>6, <1>7, <1>12

\* A timestamp is on the day of the week that it is put together from.
LEMMA OnItsDay ==
  ASSUME NEW d \in TimesOfWeek, NEW k \in Nat, WeekDay(k) = d.day, NEW s \in 0..(MINUTE - 1), NEW t,
         t = DAY * k + Moment(d.hour, d.minute, s)
  PROVE  OnTheDay(d, t)
<1>1. d.hour \in 0..(DAY \div HOUR - 1) /\ d.minute \in 0..(HOUR \div MINUTE - 1)
  BY DEF TimesOfWeek
<1>2. t \div DAY = k /\ (t % DAY) \div HOUR = d.hour /\ (t % HOUR) \div MINUTE = d.minute
  BY <1>1, PutTogether
<1> QED BY <1>2 DEF OnTheDay, WeekDay

\* One week later it is the same day, hour and minute.
LEMMA NextWeek ==
  ASSUME NEW d \in TimesOfWeek, NEW t \in Nat, OnTheDay(d, t)
  PROVE  OnTheDay(d, t + WEEK)
<1> DEFINE k == t \div DAY
           u == t % DAY
           h == u \div HOUR
           v == t % HOUR
<1>0. DAY \in Nat \ {0} /\ HOUR \in Nat \ {0} /\ DAYS \in Nat \ {0} /\ t \in Int
      /\ DAY_OF_WEEK_BASE \in Int
  BY Constants
<1>1. t = DAY * k + u /\ k \in Nat /\ u \in 0..(DAY - 1)
  BY <1>0, Division
<1>2. t = HOUR * (t \div HOUR) + v /\ t \div HOUR \in Int /\ v \in 0..(HOUR - 1)
  BY <1>0, Division
<1> HIDE DEF k, u, v
<1>3. t + WEEK = DAY * (k + DAYS) + u /\ k + DAYS \in Int
  <2> DEFINE p == DAY * k
             w == DAYS * DAY
             n == DAY * (k + DAYS)
  <2>1. n = p + w /\ p \in Int /\ w \in Int /\ WEEK = w
    BY <1>0, <1>1 DEF WEEK
  <2>2. k + DAYS \in Int
    BY <1>0, <1>1
  <2> HIDE DEF p, w, n
  <2>3. t + w = n + u
    BY <1>1, <2>1 DEF p
  <2> QED BY <2>1, <2>2, <2>3 DEF n
<1>4. (t + WEEK) \div DAY = k + DAYS /\ (t + WEEK) % DAY = u
  <2>1. (DAY * (k + DAYS) + u) \div DAY = k + DAYS /\ (DAY * (k + DAYS) + u) % DAY = u
    BY <1>0, <1>1, <1>3, Divided
  <2> QED BY <1>3, <2>1
<1>5. (t + WEEK) % HOUR = v
  <2> DEFINE H == DAY \div HOUR
  <2>1. DAY = HOUR * H /\ H \in Nat
    BY Calendar
  <2> HIDE DEF H
  <2>2. WEEK = HOUR * (H * DAYS) /\ H * DAYS \in Int
    BY <1>0, <2>1 DEF WEEK
  <2>3. (t + HOUR * (H * DAYS)) % HOUR = t % HOUR
    BY <1>0, <2>2, Congruent
  <2> QED BY <2>2, <2>3 DEF v
<1>6. (DAY_OF_WEEK_BASE + (k + DAYS)) % DAYS = (DAY_OF_WEEK_BASE + k) % DAYS
  <2>1. (DAY_OF_WEEK_BASE + k + DAYS) % DAYS = (DAY_OF_WEEK_BASE + k) % DAYS
    <3>1. DAY_OF_WEEK_BASE + k \in Int
      BY <1>0, <1>1
    <3> QED BY <1>0, <3>1, OneRound
  <2>2. DAY_OF_WEEK_BASE + (k + DAYS) = DAY_OF_WEEK_BASE + k + DAYS
    BY <1>0, <1>1
  <2> QED BY <2>1, <2>2
<1>7. /\ (DAY_OF_WEEK_BASE + k) % DAYS = d.day
      /\ u \div HOUR = d.hour /\ v \div MINUTE = d.minute
  BY DEF OnTheDay, k, u, v
<1> QED BY <1>4, <1>5, <1>6, <1>7 DEF OnTheDay

\* The first run is in the week that follows, on the day asked for.
LEMMA FirstIsOnTheDay ==
  ASSUME NEW d \in TimesOfWeek, NEW t \in WEEK..(Modulus \div 2 - 1), t + WEEK < Modulus
  PROVE  t <= first(d, t) /\ first(d, t) < t + WEEK /\ OnTheDay(d, first(d, t))
<1>0. DAY \in Nat \ {0} /\ HOUR \in Nat \ {0} /\ DAYS \in Nat \ {0} /\ MINUTE \in Nat \ {0}
      /\ t \in Nat /\ WEEK \in Nat /\ DAY_OF_WEEK_BASE \in Nat /\ Modulus \in Nat \ {0}
  BY Constants
<1>1. t < Modulus \div 2
  BY <1>0
<1>2. PICK k \in Nat, h \in 0..(DAY \div HOUR - 1), m \in 0..(HOUR \div MINUTE - 1), s \in 0..(MINUTE - 1) :
        /\ t = DAY * k + Moment(h, m, s)
        /\ convert(t) = [day |-> WeekDay(k), hour |-> h, minute |-> m]
  BY <1>0, <1>1, TakenApart
<1>3. d.day \in 0..(DAYS - 1) /\ d.hour \in 0..(DAY \div HOUR - 1) /\ d.minute \in 0..(HOUR \div MINUTE - 1)
  BY DEF TimesOfWeek
<1> DEFINE w == WeekDay(k)
           x == Moment(h, m, s)
           y == Moment(d.hour, d.minute, s)
           g == k + d.day - w
           sum == t + (d.hour - h) * HOUR + (d.minute - m) * MINUTE + (d.day - w) * DAY
           result == sum % Modulus
<1>4. w \in 0..(DAYS - 1)
  <2>1. DAY_OF_WEEK_BASE + k \in Int
    BY <1>0
  <2> QED BY <1>0, <2>1, Division DEF WeekDay
<1>5. x \in 0..(DAY - 1) /\ y \in 0..(DAY - 1)
  <2>1. DAY * k + Moment(h, m, s) = DAY * k + Moment(h, m, s)
        /\ DAY * k + Moment(d.hour, d.minute, s) = DAY * k + Moment(d.hour, d.minute, s)
    OBVIOUS
  <2> QED BY <1>3, <2>1, PutTogether
<1>6. first(d, t) = IF t > result THEN (result + WEEK) % Modulus ELSE result
  BY <1>2 DEF first
<1>7. sum = DAY * g + y /\ g \in Int
  <2>1. (d.hour - h) * HOUR = HOUR * d.hour - HOUR * h /\ HOUR * d.hour \in Int /\ HOUR * h \in Int
    BY <1>0, <1>3
  <2>2. (d.minute - m) * MINUTE = MINUTE * d.minute - MINUTE * m /\ MINUTE * d.minute \in Int /\ MINUTE * m \in Int
    BY <1>0, <1>3
  <2> HIDE DEF w
  <2>3. DAY * g = DAY * k + (d.day - w) * DAY /\ DAY * k \in Int /\ (d.day - w) * DAY \in Int /\ g \in Int
    BY <1>0, <1>3, <1>4
  <2>4. t = DAY * k + (HOUR * h + MINUTE * m + s) /\ y = HOUR * d.hour + MINUTE * d.minute + s /\ s \in Int
    BY <1>2 DEF Moment
  <2> DEFINE a1 == (d.hour - h) * HOUR
             a2 == (d.minute - m) * MINUTE
             a3 == (d.day - w) * DAY
             b1 == HOUR * h
             b2 == MINUTE * m
             b3 == DAY * k
             c1 == HOUR * d.hour
             c2 == MINUTE * d.minute
             c3 == DAY * g
  <2>5. a1 = c1 - b1 /\ a2 = c2 - b2 /\ c3 = b3 + a3 /\ t = b3 + (b1 + b2 + s) /\ y = c1 + c2 + s
        /\ sum = t + a1 + a2 + a3
        /\ {a3, b1, b2, b3, c1, c2, s} \subseteq Int
    BY <2>1, <2>2, <2>3, <2>4
  <2> HIDE DEF a1, a2, a3, b1, b2, b3, c1, c2, c3, sum, y, g
  <2>6. sum = c3 + y
    BY <2>5
  <2> QED BY <2>3, <2>6 DEF c3
<1>8. WeekDay(g) = d.day /\ WeekDay(g + DAYS) = d.day
  <2> DEFINE z == DAY_OF_WEEK_BASE + k
  <2>1. (z + d.day - (z % DAYS)) % DAYS = d.day
    <3>1. z \in Int
      BY <1>0
    <3> HIDE DEF z
    <3> QED BY <1>0, <1>3, <3>1, ToTheDay
  <2>2. z % DAYS = w
    BY DEF WeekDay
  <2> HIDE DEF w
  <2>3. DAY_OF_WEEK_BASE + g = z + d.day - w
    BY <1>0, <1>3, <1>4
  <2>4. WeekDay(g) = d.day
    BY <2>1, <2>2, <2>3 DEF WeekDay
  <2>5. DAY_OF_WEEK_BASE + g \in Int /\ DAY_OF_WEEK_BASE + (g + DAYS) = DAY_OF_WEEK_BASE + g + DAYS
    BY <1>0, <1>7
  <2>6. (DAY_OF_WEEK_BASE + g + DAYS) % DAYS = (DAY_OF_WEEK_BASE + g) % DAYS
    BY <1>0, <2>5, OneRound
  <2> QED BY <2>4, <2>5, <2>6 DEF WeekDay
<1>9. sum > t - WEEK /\ sum < t + WEEK
  <2> HIDE DEF w
  <2> DEFINE n == d.day - w
             e == DAY * n
             f == DAY * k
  <2>1. n \in Int /\ n <= DAYS - 1 /\ n >= 1 - DAYS
    BY <1>0, <1>3, <1>4
  <2>2. e <= WEEK - DAY /\ e >= DAY - WEEK /\ e \in Int
    <3>1. DAY * (DAYS - 1 - n) \in Nat /\ DAY * (DAYS - 1 + n) \in Nat
      <4> HIDE DEF n
      <4>1. DAYS - 1 - n \in Nat /\ DAYS - 1 + n \in Nat
        BY <1>0, <2>1
      <4> QED BY <1>0, <4>1
    <3> HIDE DEF n
    <3>2. DAY * (DAYS - 1 - n) = DAYS * DAY - DAY - DAY * n /\ DAY * (DAYS - 1 + n) = DAYS * DAY - DAY + DAY * n
          /\ DAY * n \in Int /\ DAYS * DAY \in Int
      BY <1>0, <2>1
    <3> HIDE DEF e
    <3>3. DAY * n = e
      BY DEF e
    <3> QED BY <1>0, <3>1, <3>2, <3>3 DEF WEEK
  <2>3. DAY * g = f + e /\ f \in Int
    <3>1. g = k + n
      BY <1>3, <1>4
    <3> HIDE DEF g, n
    <3> QED BY <1>0, <2>1, <3>1
  <2>4. t = f + x
    BY <1>2
  <2> HIDE DEF e, f, g, sum, x, y
  <2>5. sum = f + e + y
    <3> DEFINE v == DAY * g
    <3>1. sum = v + y /\ v = f + e
      BY <1>7, <2>3
    <3> HIDE DEF v
    <3> QED BY <1>5, <2>2, <2>3, <3>1
  <2> QED BY <1>0, <1>5, <2>2, <2>3, <2>4, <2>5
<1> HIDE DEF sum, g, y, x, w
<1>10. sum \in Int
  <2> DEFINE v == DAY * g
  <2>1. v \in Int /\ sum = v + y
    BY <1>0, <1>7
  <2> HIDE DEF v
  <2> QED BY <2>1, <1>5
<1>11. sum \in Stamp
  BY <1>0, <1>9, <1>10 DEF Stamp
<1>12. result = sum
  BY <1>11, NoWrap
<1>13. g \in Nat
  <2>1. ASSUME g < 0 PROVE FALSE
    <3> DEFINE p == DAY * (-g - 1)
               v == DAY * g
    <3>1. p \in Nat
      <4>1. -g - 1 \in Nat
        BY <1>7, <2>1
      <4> QED BY <1>0, <4>1
    <3>2. p = - v - DAY /\ v \in Int
      BY <1>0, <1>7
    <3>3. sum = v + y
      BY <1>7
    <3> HIDE DEF p, v
    <3> QED BY <1>0, <1>5, <1>11, <3>1, <3>2, <3>3 DEF Stamp
  <2> QED BY <1>7, <2>1
<1> HIDE DEF result
<1>14. CASE t > sum
  <2>1. sum + WEEK \in Stamp
    BY <1>0, <1>9, <1>10, <1>11, <1>14 DEF Stamp
  <2>2. first(d, t) = sum + WEEK
    BY <1>6, <1>12, <1>14, <2>1, NoWrap
  <2>3. OnTheDay(d, sum)
    BY <1>7, <1>8, <1>13, OnItsDay DEF y
  <2>4. OnTheDay(d, sum + WEEK)
    BY <1>11, <2>3, NextWeek DEF Stamp
  <2> QED BY <1>0, <1>9, <1>10, <1>14, <2>2, <2>4
<1>15. CASE ~(t > sum)
  <2>1. first(d, t) = sum
    BY <1>6, <1>12, <1>15
  <2>2. OnTheDay(d, sum)
    BY <1>7, <1>8, <1>13, OnItsDay DEF y
  <2> QED BY <1>0, <1>9, <1>10, <1>15, <2>1, <2>2
<1> QED BY <1>14, <1>15

-----------------------------------------------------------------------------
(* The units.                                                              *)

\* A set that holds 0 and, with each number below n, the next: it has all up to n.
LEMMA UpTo ==
  ASSUME NEW n \in Nat, NEW S, 0 \in S, \A i \in 0..n : i \in S /\ i < n => i + 1 \in S
  PROVE  \A i \in 0..n : i \in S
<1> DEFINE T == (0..n) \ S
<1> SUFFICES ASSUME T # {} PROVE FALSE
  OBVIOUS
<1>1. T \subseteq Nat
  OBVIOUS
<1> HIDE DEF T
<1>2. PICK a \in T : \A b \in T : ~(<<b, a>> \in OpToRel(<, Nat))
  BY <1>1, WFMin, NatLessThanWellFounded
<1>3. a \in 0..n /\ a \notin S
  BY DEF T
<1>4. a # 0
  BY <1>3
<1>5. a - 1 \in T
  BY <1>3, <1>4 DEF T
<1>6. <<a - 1, a>> \in Nat \X Nat /\ <<a - 1, a>>[1] < <<a - 1, a>>[2]
  BY <1>3, <1>4
<1>7. <<a - 1, a>> \in OpToRel(<, Nat)
  BY <1>6, Zenon DEF OpToRel
<1> QED
  BY <1>2, <1>5, <1>7

\* What an action leaves behind, also one that fails.
LEMMA Handled ==
  ASSUME NEW action \in Action, NEW us \in Units
  PROVE  handle(action, us).units \in Units /\ handle(action, us).ok \in BOOLEAN
<1>1. us.level \in 0..MaxLevel /\ us.lamp \in BOOLEAN /\ action.level \in 0..MaxLevel /\ MaxLevel \in Nat
  BY BoundAssumption DEF Units, Action
<1>2. \A n \in Int : check_and_fix(n) \in 0..MaxLevel
  BY <1>1 DEF check_and_fix
<1>3. us.level + action.level \in Int /\ us.level - action.level \in Int
  BY <1>1
<1>4. \A b \in BOOLEAN : [us EXCEPT !.lamp = b] \in Units
  BY DEF Units
<1>5. \A n \in 0..MaxLevel : [us EXCEPT !.level = n] \in Units
  BY DEF Units
<1>6. on_off(action.cmd, us).units \in Units /\ on_off(action.cmd, us).ok \in BOOLEAN
  BY <1>1, <1>4 DEF on_off
<1>7. \A cmd : level_control(cmd, action.level, us).units \in Units
               /\ level_control(cmd, action.level, us).ok \in BOOLEAN
  BY <1>1, <1>2, <1>3, <1>5 DEF level_control
<1> HIDE DEF Units
<1> QED
  BY <1>6, <1>7 DEF handle

\* Units and whether they supported what was asked.
Outcome == [ok : BOOLEAN, units : Units]

\* One more action after a state.
After(state, action) == IF state.ok THEN handle(action, state.units) ELSE state

\* A program leaves the units in a state they can be in.
LEMMA Performed ==
  ASSUME NEW actions, NEW n \in Nat, Len(actions) = n, \A i \in 1..n : actions[i] \in Action,
         NEW us \in Units
  PROVE  perform(actions, us) \in Units
<1> DEFINE start == [ok |-> TRUE, units |-> us]
<1> DEFINE Run(after, m) ==
             after = [i \in 0..m |-> IF i = 0 THEN start
                                     ELSE After(after[i - 1], actions[i])]
           S == {m \in 0..n : \E after : Run(after, m)}
<1>0. start \in Outcome
  BY DEF Outcome
<1> HIDE DEF start
<1>1. 0 \in S
  <2>1. Run([i \in 0..0 |-> start], 0)
    OBVIOUS
  <2> HIDE DEF Run
  <2> QED BY <2>1
<1>2. ASSUME NEW m \in 0..n, m \in S, m < n PROVE m + 1 \in S
  <2>1. PICK f : Run(f, m)
    BY <1>2
  <2> DEFINE g == [i \in 0..(m + 1) |-> IF i <= m THEN f[i] ELSE After(f[m], actions[m + 1])]
  <2>2. Run(g, m + 1)
    <3>1. ASSUME NEW i \in 0..(m + 1)
          PROVE  g[i] = IF i = 0 THEN start ELSE After(g[i - 1], actions[i])
      <4>1. CASE i = m + 1
        BY <4>1
      <4>2. CASE i <= m
        BY <4>2, <2>1
      <4> QED BY <4>1, <4>2
    <3> QED BY <3>1
  <2> HIDE DEF Run, g
  <2>3. \E after : Run(after, m + 1)
    BY <2>2
  <2> QED BY <1>2, <2>3
<1>3. n \in S
  <2> HIDE DEF S
  <2>1. \A i \in 0..n : i \in S /\ i < n => i + 1 \in S
    BY <1>2
  <2>2. \A i \in 0..n : i \in S
    BY <1>1, <2>1, UpTo
  <2> QED BY <2>2
<1>4. \E after : Run(after, n)
  BY <1>3
<1> DEFINE a == CHOOSE after : Run(after, n)
<1>5. Run(a, n)
  <2> HIDE DEF Run
  <2> QED BY <1>4
<1>6. perform(actions, us) = a[n].units
  BY DEF perform, After, start
<1> HIDE DEF a
<1> DEFINE T == {i \in 0..n : a[i] \in Outcome}
<1>7. 0 \in T
  <2>1. a[0] = start
    BY <1>5
  <2> QED BY <1>0, <2>1
<1>8. ASSUME NEW i \in 0..n, i \in T, i < n PROVE i + 1 \in T
  <2>1. a[i + 1] = After(a[i], actions[i + 1]) /\ i + 1 \in 1..n
    BY <1>5, <1>8
  <2>2. a[i] \in Outcome /\ actions[i + 1] \in Action
    BY <1>8, <2>1
  <2>3. ASSUME a[i].ok PROVE handle(actions[i + 1], a[i].units) \in Outcome
    <3>1. a[i].units \in Units
      BY <2>2 DEF Outcome
    <3> DEFINE h == handle(actions[i + 1], a[i].units)
    <3>2. h.units \in Units /\ h.ok \in BOOLEAN
      BY <2>2, <3>1, Handled
    <3>3. DOMAIN h = {"ok", "units"} /\ h = [ok |-> h.ok, units |-> h.units]
      BY DEF handle, on_off, level_control
    <3> HIDE DEF h
    <3>4. h \in Outcome
      BY <3>2, <3>3 DEF Outcome
    <3> QED BY <3>4 DEF h
  <2>4. After(a[i], actions[i + 1]) \in Outcome
    BY <2>2, <2>3 DEF After
  <2> QED BY <2>1, <2>4
<1>9. n \in T
  <2> HIDE DEF T
  <2>1. \A i \in 0..n : i \in T /\ i < n => i + 1 \in T
    BY <1>8
  <2>2. \A i \in 0..n : i \in T
    BY <1>7, <2>1, UpTo
  <2> QED BY <2>2
<1> QED BY <1>6, <1>9 DEF Outcome

LEMMA Invoked ==
  ASSUME Runnable, NEW pid, NEW us \in Units
  PROVE  invoke_program(pid, us) \in Units
<1>1. CASE program(pid) = {}
  BY <1>1 DEF invoke_program
<1>2. CASE program(pid) # {}
  <2> DEFINE p == CHOOSE p \in program(pid) : TRUE
  <2>1. p \in programs
    BY <1>2 DEF program
  <2>2. p.actions \in Seq(Action)
    BY <2>1 DEF Runnable
  <2>3. invoke_program(pid, us) = perform(p.actions, us)
    BY <1>2 DEF invoke_program
  <2> HIDE DEF p
  <2> DEFINE n == Len(p.actions)
  <2>4. n \in Nat /\ \A i \in 1..n : p.actions[i] \in Action
    BY <2>2
  <2>5. Len(p.actions) = n
    OBVIOUS
  <2> HIDE DEF n
  <2> QED BY <2>3, <2>4, <2>5, Performed
<1> QED BY <1>1, <1>2

\* One more entry looked at.
Due(s, e, us) == IF enabled[s] /\ active(s, e, time) THEN invoke_program(e.pid, us) ELSE us

\* So do the programs of all entries that are due.
LEMMA InvokedDue ==
  ASSUME Runnable, NEW s \in Services, NEW n \in Nat, n = Len(entries[s]), NEW us \in Units
  PROVE  invoke_due(s, us) \in Units
<1> DEFINE list == entries[s]
           Run(after, m) == after = [i \in 0..m |-> IF i = 0 THEN us ELSE Due(s, list[i], after[i - 1])]
           S == {m \in 0..n : \E after : Run(after, m)}
<1> HIDE DEF list
<1>1. 0 \in S
  <2>1. Run([i \in 0..0 |-> us], 0)
    OBVIOUS
  <2> HIDE DEF Run
  <2> QED BY <2>1
<1>2. ASSUME NEW m \in 0..n, m \in S, m < n PROVE m + 1 \in S
  <2>1. PICK f : Run(f, m)
    BY <1>2
  <2> DEFINE g == [i \in 0..(m + 1) |-> IF i <= m THEN f[i] ELSE Due(s, list[m + 1], f[m])]
  <2>2. Run(g, m + 1)
    <3>1. ASSUME NEW i \in 0..(m + 1)
          PROVE  g[i] = IF i = 0 THEN us ELSE Due(s, list[i], g[i - 1])
      <4>1. CASE i = m + 1
        BY <4>1
      <4>2. CASE i <= m
        BY <4>2, <2>1
      <4> QED BY <4>1, <4>2
    <3> QED BY <3>1
  <2> HIDE DEF Run, g
  <2>3. \E after : Run(after, m + 1)
    BY <2>2
  <2> QED BY <1>2, <2>3
<1>3. n \in S
  <2> HIDE DEF S
  <2>1. \A i \in 0..n : i \in S /\ i < n => i + 1 \in S
    BY <1>2
  <2>2. \A i \in 0..n : i \in S
    BY <1>1, <2>1, UpTo
  <2> QED BY <2>2
<1>4. \E after : Run(after, n)
  BY <1>3
<1> DEFINE a == CHOOSE after : Run(after, n)
<1>5. Run(a, n)
  <2> HIDE DEF Run
  <2> QED BY <1>4
<1>6. invoke_due(s, us) = a[n]
  BY DEF invoke_due, Due, list
<1> HIDE DEF a
<1> DEFINE T == {i \in 0..n : a[i] \in Units}
<1>7. 0 \in T
  BY <1>5
<1>8. ASSUME NEW i \in 0..n, i \in T, i < n PROVE i + 1 \in T
  <2>1. a[i + 1] = Due(s, list[i + 1], a[i]) /\ i + 1 \in 0..n
    BY <1>5, <1>8
  <2>2. Due(s, list[i + 1], a[i]) \in Units
    BY <1>8, Invoked DEF Due
  <2> QED BY <2>1, <2>2
<1>9. n \in T
  <2> HIDE DEF T
  <2>1. \A i \in 0..n : i \in T /\ i < n => i + 1 \in T
    BY <1>8
  <2>2. \A i \in 0..n : i \in T
    BY <1>7, <2>1, UpTo
  <2> QED BY <2>2
<1> QED BY <1>6, <1>9

-----------------------------------------------------------------------------
(* What the operations do to a list of entries.                            *)

\* A new entry in front.
LEMMA Push ==
  ASSUME NEW s \in Services, NEW l \in Stamp, NEW list, ListOK(s, list, l),
         NEW e \in EntryOf(s), \A i \in DOMAIN list : list[i].id # e.id, Kept(s, e, l)
  PROVE  ListOK(s, <<e>> \o list, l)
<1>1. <<e>> \o list \in Seq(EntryOf(s)) /\ Len(<<e>> \o list) = Len(list) + 1 /\ Len(list) \in Nat
  BY DEF ListOK
<1>2. \A i \in DOMAIN (<<e>> \o list) :
        (<<e>> \o list)[i] = IF i = 1 THEN e ELSE list[i - 1]
  BY DEF ListOK
<1>3. \A i \in DOMAIN (<<e>> \o list) : i # 1 => i - 1 \in DOMAIN list /\ i \in Nat
  BY <1>1 DEF ListOK
<1> DEFINE new == <<e>> \o list
<1> HIDE DEF new
<1>4. Unique(new)
  BY <1>1, <1>2, <1>3 DEF Unique, ListOK, new
<1>5. \A i \in DOMAIN new : Kept(s, new[i], l)
  BY <1>2, <1>3 DEF ListOK, new
<1> QED
  BY <1>1, <1>4, <1>5 DEF ListOK, new

\* The entry with an id taken out.
LEMMA Destroy ==
  ASSUME NEW s \in Services, NEW l \in Stamp, NEW list, ListOK(s, list, l),
         NEW id, \E i \in DOMAIN list : list[i].id = id
  PROVE  ListOK(s, destroy(list, id), l)
<1> DEFINE gone == CHOOSE i \in DOMAIN list : list[i].id = id
           new == destroy(list, id)
           old(i) == IF i < gone THEN i ELSE i + 1
<1>1. Len(list) \in Nat /\ DOMAIN list = 1..Len(list) /\ \A i \in DOMAIN list : list[i] \in EntryOf(s)
  BY DEF ListOK
<1>2. gone \in 1..Len(list)
  BY <1>1
<1>3. new = [i \in 1..(Len(list) - 1) |-> IF i < gone THEN list[i] ELSE list[i + 1]]
  BY DEF destroy
<1> HIDE DEF gone, new
<1>4. \A i \in 1..(Len(list) - 1) : new[i] = list[old(i)] /\ old(i) \in DOMAIN list
  BY <1>1, <1>2, <1>3
<1>5. \A i, j \in 1..(Len(list) - 1) : old(i) = old(j) => i = j
  BY <1>1, <1>2
<1>6. DOMAIN new = 1..(Len(list) - 1) /\ Len(list) - 1 \in Nat
  BY <1>1, <1>2, <1>3
<1> HIDE DEF old
<1>7. new \in Seq(EntryOf(s))
  <2>1. \A i \in 1..(Len(list) - 1) : new[i] \in EntryOf(s)
    BY <1>1, <1>4
  <2>2. new \in [1..(Len(list) - 1) -> EntryOf(s)]
    BY <2>1, <1>3, <1>6
  <2> QED
    BY <2>2, <1>6, SeqDef
<1>8. Unique(new)
  BY <1>4, <1>5, <1>6 DEF Unique, ListOK
<1>9. \A i \in DOMAIN new : Kept(s, new[i], l)
  BY <1>4, <1>6 DEF ListOK
<1> QED
  BY <1>7, <1>8, <1>9 DEF ListOK, new

\* Each entry changed in place, its id kept.
LEMMA Change ==
  ASSUME NEW s \in Services, NEW l \in Stamp, NEW list, ListOK(s, list, l), NEW new,
         DOMAIN new = DOMAIN list, new = [i \in DOMAIN list |-> new[i]],
         \A i \in DOMAIN list :
           new[i] \in EntryOf(s) /\ new[i].id = list[i].id /\ Kept(s, new[i], l)
  PROVE  ListOK(s, new, l)
<1>1. Len(list) \in Nat /\ DOMAIN list = 1..Len(list)
  BY DEF ListOK
<1>2. new \in Seq(EntryOf(s))
  <2>1. new \in [1..Len(list) -> EntryOf(s)]
    BY <1>1
  <2> QED
    BY <1>1, <2>1, SeqDef
<1>3. Unique(new)
  BY DEF Unique, ListOK
<1> QED
  BY <1>2, <1>3 DEF ListOK

\* The latest time moves on.
LEMMA Later ==
  ASSUME NEW s \in Services, NEW l \in Stamp, NEW m \in Stamp, l <= m,
         NEW list, ListOK(s, list, l)
  PROVE  ListOK(s, list, m)
<1> SUFFICES ASSUME NEW i \in DOMAIN list PROVE Kept(s, list[i], m)
  BY DEF ListOK
<1>1. list[i] \in EntryOf(s) /\ Kept(s, list[i], l)
  BY DEF ListOK
<1>2. Step(s, list[i]) \in Nat
  BY <1>1, StepIsNat
<1>3. list[i].next_run \in Nat /\ l \in Nat /\ m \in Nat
  BY <1>1 DEF EntryOf, Stamp
<1>4. Representable(s, list[i], m) => Representable(s, list[i], l)
  BY <1>2, <1>3, Constants DEF Representable
<1>5. Counting(s, list[i], m)
  BY <1>1, <1>2, <1>3, <1>4 DEF Kept, Counting
<1> QED
  BY <1>1, <1>4, <1>5 DEF Kept, OnDay

\* A run: the entry was due at a time that is not after the latest one.
LEMMA RunCounted ==
  ASSUME NEW s \in Services, NEW l \in Stamp, NEW t \in Stamp, t <= l,
         NEW e \in EntryOf(s), Counting(s, e, l), active(s, e, t)
  PROVE  step(s, e) \in EntryOf(s) /\ step(s, e).id = e.id /\ Counting(s, step(s, e), l)
<1> DEFINE k == Step(s, e)
           n == step(s, e)
<1>1. k \in Nat
  BY StepIsNat
<1>2. e.next_run \in Stamp /\ e.first \in Nat /\ e.runs \in 0..MaxRuns /\ e.next_run <= t /\ l \in Nat /\ t \in Nat
  BY DEF EntryOf, active, Stamp
<1>3. (e.next_run + k) % Modulus \in Stamp
  <2>1. e.next_run + k \in Int
    BY <1>1, <1>2 DEF Stamp
  <2> QED
    BY <2>1, InStamp
<1>4. Counted(e) \in 0..MaxRuns /\ Counted(e) <= e.runs + 1
  BY <1>2, Constants DEF Counted
<1>5. /\ n.id = e.id /\ n.time = e.time /\ n.first = e.first /\ n.set = e.set
      /\ n.next_run = (e.next_run + k) % Modulus /\ n.runs = Counted(e)
  BY DEF step, EntryOf
<1>6. n \in EntryOf(s)
  <2> DEFINE a == [e EXCEPT !.next_run = (e.next_run + k) % Modulus]
             b == [a EXCEPT !.runs = Counted(e)]
  <2> HIDE DEF k
  <2>1. a \in EntryOf(s)
    BY <1>3 DEF EntryOf
  <2> HIDE DEF a
  <2>2. b \in EntryOf(s)
    BY <2>1, <1>4 DEF EntryOf
  <2>3. n = b
    BY DEF step, EntryOf, k, a
  <2> QED
    BY <2>2, <2>3
<1>7. Step(s, n) = k
  BY <1>5 DEF Step
<1> HIDE DEF n, k
<1>8. ASSUME n.set, l + k < Modulus
      PROVE  n.first + n.runs * k <= n.next_run /\ n.next_run <= l + k
  <2>1. e.first + e.runs * k <= e.next_run
    BY <1>5, <1>8 DEF Counting, Representable, k
  <2>2. e.next_run + k \in Stamp
    BY <1>1, <1>2, <1>8, Constants DEF Stamp
  <2>3. n.next_run = e.next_run + k
    BY <2>2, <1>5, NoWrap
  <2>4. Counted(e) * k <= e.runs * k + k /\ Counted(e) * k \in Nat /\ e.runs * k \in Nat
    <3>1. e.runs \in Nat
      BY <1>2
    <3>2. CASE Counted(e) = e.runs
      BY <3>1, <3>2, <1>1, OneMore
    <3>3. CASE Counted(e) = e.runs + 1
      BY <3>1, <3>3, <1>1, OneMore
    <3> QED
      BY <3>2, <3>3 DEF Counted
  <2>5. e.next_run + k <= l + k
    BY <1>1, <1>2 DEF Stamp
  <2> HIDE DEF n
  <2>6. n.first + n.runs * k <= e.next_run + k
    <3> DEFINE x == Counted(e) * k
               y == e.runs * k
    <3>1. n.first + n.runs * k = e.first + x
      BY <1>5
    <3> HIDE DEF x, y
    <3>2. x <= y + k /\ x \in Nat /\ y \in Nat /\ e.first + y <= e.next_run
      BY <2>1, <2>4 DEF x, y
    <3> QED
      BY <3>1, <3>2, <1>1, <1>2 DEF Stamp
  <2> QED
    BY <2>3, <2>5, <2>6
<1> QED
  BY <1>5, <1>6, <1>7, <1>8 DEF Counting, Representable, n

\* It stays on its day.
LEMMA RunOnDay ==
  ASSUME NEW s \in Services, NEW l \in Stamp, NEW t \in Stamp, t <= l,
         NEW e \in EntryOf(s), OnDay(s, e, l), active(s, e, t)
  PROVE  OnDay(s, step(s, e), l)
<1> DEFINE n == step(s, e)
<1>1. /\ n.time = e.time /\ n.first = e.first /\ n.asked = e.asked
      /\ n.next_run = (e.next_run + Step(s, e)) % Modulus
  BY DEF step, EntryOf
<1>2. Step(s, n) = Step(s, e)
  BY <1>1 DEF Step
<1> HIDE DEF n
<1>3. SUFFICES ASSUME s = "WEEKLY", e.time \in TimesOfWeek, Representable(s, e, l), OnTheDay(e.time, e.next_run)
               PROVE  OnTheDay(e.time, n.next_run)
  BY <1>1, <1>2 DEF OnDay, Representable, n
<1>4. Step(s, e) = WEEK /\ e.next_run \in Nat /\ e.next_run + WEEK \in Stamp
  <2>1. Step(s, e) = WEEK /\ WEEK \in Nat
    BY <1>3, Constants DEF Step
  <2>2. e.next_run \in Nat /\ e.next_run <= t /\ t \in Nat /\ l \in Nat
    BY DEF EntryOf, active, Stamp
  <2> QED BY <1>3, <2>1, <2>2, Constants DEF Representable, Stamp
<1>5. n.next_run = e.next_run + WEEK
  BY <1>1, <1>4, NoWrap
<1> QED BY <1>3, <1>4, <1>5, NextWeek

LEMMA RunKept ==
  ASSUME NEW s \in Services, NEW l \in Stamp, NEW t \in Stamp, t <= l,
         NEW e \in EntryOf(s), Kept(s, e, l), active(s, e, t)
  PROVE  step(s, e) \in EntryOf(s) /\ step(s, e).id = e.id /\ Kept(s, step(s, e), l)
BY RunCounted, RunOnDay DEF Kept

-----------------------------------------------------------------------------
(* The invariant.                                                          *)

LEMMA InitIInv == Init => IInv
<1> SUFFICES ASSUME Init PROVE IInv
  OBVIOUS
<1> USE DEF Init
<1>1. \A s \in Services : ListOK(s, entries[s], latest)
  BY DEF ListOK, Unique
<1>2. 0 \in Stamp
  BY Constants DEF Stamp
<1>3. units \in Units
  BY BoundAssumption DEF Units
<1> QED
  BY <1>1, <1>2, <1>3 DEF IInv, ProgramsOK, Runnable

\* Ids that definitions get are ids that are free.
LEMMA Accepted ==
  ASSUME NEW id \in Ids \cup {AVAILABLE_ID}, NEW used, NEW i \in accepted(id, used)
  PROVE  i \in Ids /\ i \notin used
BY Constants DEF accepted, next_id, Ids, AVAILABLE_ID

\* An entry that has not run yet.
LEMMA NewEntry ==
  ASSUME NEW s \in Services, NEW l \in Stamp, NEW e \in EntryOf(s), e.runs = 0,
         e.set => e.first = e.next_run
  PROVE  Counting(s, e, l) /\ (s = "EVENT" => Kept(s, e, l))
<1>1. Step(s, e) \in Nat /\ e.next_run \in Nat /\ 0 * Step(s, e) = 0
  BY StepIsNat DEF EntryOf, Stamp
<1> QED
  BY <1>1 DEF Counting, Kept, OnDay

LEMMA StepIInv == IInv /\ [Next]_vars => IInv'
<1> SUFFICES ASSUME IInv, [Next]_vars PROVE IInv'
  OBVIOUS
<1> USE DEF IInv
<1>1. CASE UNCHANGED vars
  BY <1>1 DEF vars, ProgramsOK, Runnable
<1>2. CASE \E t \in Clocks : SetTime(t)
  <2>1. PICK t \in Clocks : SetTime(t)
    BY <1>2
  <2>2. time' \in Stamp /\ latest' \in Stamp /\ time' <= latest' /\ latest <= latest'
    BY <2>1, Constants DEF SetTime, Stamp
  <2>3. \A s \in Services : ListOK(s, entries[s], latest')
    BY <2>2, Later
  <2> QED
    BY <2>1, <2>2, <2>3 DEF SetTime, ProgramsOK, Runnable
<1>3. ASSUME NEW s \in Services, NEW list, ListOK(s, list, latest),
             entries' = [entries EXCEPT ![s] = list],
             UNCHANGED <<time, enabled, programs, units, latest>>
      PROVE  IInv'
  <2>1. \A r \in Services : entries'[r] = IF r = s THEN list ELSE entries[r]
    BY <1>3
  <2>2. entries' = [r \in Services |-> entries'[r]]
    BY <1>3
  <2> QED
    BY <1>3, <2>1, <2>2 DEF ProgramsOK, Runnable
<1>4. CASE Programs
  <2>1. ProgramsOK' /\ Runnable' /\ UNCHANGED <<time, enabled, entries, latest>>
    <3>1. ASSUME NEW req \in ProgramRequests, DefineProgram(req) PROVE ProgramsOK' /\ Runnable'
      <4>1. PICK pid \in accepted(req.pid, {p.pid : p \in programs}) :
              insert([pid |-> pid, name |-> req.name, actions |-> req.actions])
        BY <3>1 DEF DefineProgram
      <4>2. pid \in Ids /\ \A p \in programs : p.pid # pid
        BY <4>1, Accepted, RequestAssumption
      <4>3. programs' = programs \cup {[pid |-> pid, name |-> req.name, actions |-> req.actions]}
        BY <4>1, <4>2 DEF insert, program
      <4>4. Runnable'
        BY <4>3, RequestAssumption DEF Runnable
      <4> QED
        BY <3>1, <4>2, <4>3, <4>4 DEF ProgramsOK, DefineProgram
    <3>2. ASSUME NEW req \in ProgramRequests, DefineProgram(req)
          PROVE  UNCHANGED <<time, enabled, entries, latest>>
      BY <3>2 DEF DefineProgram
    <3> QED
      BY <1>4, <3>1, <3>2
      DEF Programs, InvokeProgram, DeleteProgram, DeleteAllPrograms, ProgramsOK, Runnable
  <2>2. units' \in Units
    <3>1. \A pid \in Ids : invoke_program(pid, units) \in Units
      BY Invoked
    <3> QED
      BY <1>4, <3>1
      DEF Programs, DefineProgram, InvokeProgram, DeleteProgram, DeleteAllPrograms
  <2> QED
    BY <2>1, <2>2
<1>5. CASE Periodic
  <2>1. \A s \in Services : ListOK(s, entries'[s], latest)
    <3> SUFFICES ASSUME NEW s \in Services PROVE ListOK(s, entries'[s], latest)
      OBVIOUS
    <3> DEFINE list == entries[s]
               new == entries'[s]
    <3>1. new = [i \in DOMAIN list |->
                   IF enabled[s] /\ active(s, list[i], time) THEN step(s, list[i]) ELSE list[i]]
      BY <1>5 DEF Periodic
    <3> HIDE DEF new
    <3>2. ListOK(s, list, latest)
      OBVIOUS
    <3> HIDE DEF list
    <3>3. \A i \in DOMAIN list : list[i] \in EntryOf(s) /\ Kept(s, list[i], latest)
      BY <3>2 DEF ListOK
    <3>4. \A i \in DOMAIN list :
            new[i] \in EntryOf(s) /\ new[i].id = list[i].id /\ Kept(s, new[i], latest)
      <4> TAKE i \in DOMAIN list
      <4>1. CASE enabled[s] /\ active(s, list[i], time)
        BY <3>1, <3>3, <4>1, RunKept
      <4>2. CASE ~(enabled[s] /\ active(s, list[i], time))
        BY <3>1, <3>3, <4>2
      <4> QED
        BY <4>1, <4>2
    <3>5. DOMAIN new = DOMAIN list /\ new = [i \in DOMAIN list |-> new[i]]
      BY <3>1
    <3>6. ListOK(s, new, latest)
      BY <3>2, <3>4, <3>5, Change
    <3> QED
      BY <3>6 DEF new
  <2>2. entries' = [s \in Services |-> entries'[s]]
    BY <1>5 DEF Periodic
  <2>3. units' \in Units
    <3>1. \A s \in Services : Len(entries[s]) \in Nat
      BY DEF ListOK
    <3>2. "EVENT" \in Services /\ "WEEKLY" \in Services
      BY DEF Services
    <3>3. invoke_due("EVENT", units) \in Units
      BY <3>1, <3>2, InvokedDue
    <3>4. invoke_due("WEEKLY", invoke_due("EVENT", units)) \in Units
      BY <3>1, <3>2, <3>3, InvokedDue
    <3> QED BY <1>5, <3>4 DEF Periodic
  <2> QED
    BY <1>5, <2>1, <2>2, <2>3 DEF Periodic, ProgramsOK, Runnable
<1>6. CASE Schedules
  <2>1. ASSUME NEW s \in Services, NEW e \in EntryOf(s), e.id \notin UsedIds(s),
               Kept(s, e, latest), save(s, e), UNCHANGED <<time, enabled, programs, units, latest>>
        PROVE  IInv'
    <3>1. ListOK(s, <<e>> \o entries[s], latest)
      BY <2>1, Push DEF UsedIds
    <3> QED
      BY <2>1, <3>1, <1>3 DEF save
  <2>3. ASSUME NEW req \in EventRequests
        PROVE  /\ req.id \in Ids \cup {AVAILABLE_ID} /\ req.status \in BOOLEAN
               /\ req.time \in Time("EVENT") /\ req.pid \in Ids /\ req.time.start \in Stamp
    BY RequestAssumption DEF Time, Interval, Stamp
  <2>4. ASSUME NEW req \in EventRequests, DefineEvent(req) PROVE IInv'
    <3>1. PICK id \in accepted(req.id, UsedIds("EVENT")), next_run \in Garbage :
            save("EVENT", Entry(id, req, next_run, req.time.start, FALSE))
      BY <2>4 DEF DefineEvent
    <3>2. id \in Ids /\ id \notin UsedIds("EVENT") /\ next_run \in Stamp /\ "EVENT" \in Services
      BY <2>3, <3>1, Accepted, Constants DEF Services
    <3>3. UNCHANGED <<time, enabled, programs, units, latest>>
      BY <2>4 DEF DefineEvent
    <3> DEFINE e == Entry(id, req, next_run, req.time.start, FALSE)
    <3>4. e \in EntryOf("EVENT") /\ Kept("EVENT", e, latest) /\ e.id = id
      <4>1. e \in EntryOf("EVENT")
        BY <2>3, <3>2, Constants DEF Entry, EntryOf
      <4>2. e.runs = 0 /\ e.set = FALSE /\ e.id = id
        BY DEF Entry
      <4> HIDE DEF e
      <4> QED
        BY <3>2, <4>1, <4>2, NewEntry
    <3> HIDE DEF e
    <3> QED
      BY <2>1, <3>1, <3>2, <3>3, <3>4 DEF e
  <2>5. ASSUME NEW req \in EventRequests, SaveEvent(req) PROVE IInv'
    <3>1. /\ req.id \in Ids /\ req.id \notin UsedIds("EVENT") /\ "EVENT" \in Services
          /\ save("EVENT", Entry(req.id, req, req.time.start, req.time.start, TRUE))
          /\ UNCHANGED <<time, enabled, programs, units, latest>>
      BY <2>5 DEF SaveEvent, Services, save, Entry
    <3> DEFINE e == Entry(req.id, req, req.time.start, req.time.start, TRUE)
    <3>2. e \in EntryOf("EVENT") /\ Kept("EVENT", e, latest) /\ e.id = req.id
      <4>1. e \in EntryOf("EVENT")
        BY <2>3, <3>1, Constants DEF Entry, EntryOf
      <4>2. e.runs = 0 /\ e.first = e.next_run /\ e.id = req.id
        BY DEF Entry
      <4> HIDE DEF e
      <4> QED
        BY <3>1, <4>1, <4>2, NewEntry
    <3> HIDE DEF e
    <3> QED
      BY <2>1, <3>1, <3>2 DEF e
  <2>6. ASSUME NEW req \in WeeklyRequests, DefineWeekly(req) PROVE IInv'
    <3>1. PICK id \in accepted(req.id, UsedIds("WEEKLY")) :
            save("WEEKLY", Entry(id, req, first(req.time, time), time, TRUE))
      BY <2>6 DEF DefineWeekly
    <3>2. /\ req.id \in Ids \cup {AVAILABLE_ID} /\ req.status \in BOOLEAN
          /\ req.time \in Day /\ req.pid \in Ids /\ Time("WEEKLY") = Day
      BY RequestAssumption DEF Time
    <3>3. id \in Ids /\ id \notin UsedIds("WEEKLY") /\ "WEEKLY" \in Services
      BY <3>1, <3>2, Accepted DEF Services
    <3>4. first(req.time, time) \in Stamp
      BY <3>2, FirstIsStamp
    <3>5. UNCHANGED <<time, enabled, programs, units, latest>>
      BY <2>6 DEF DefineWeekly
    <3> DEFINE e == Entry(id, req, first(req.time, time), time, TRUE)
    <3>6. e \in EntryOf("WEEKLY") /\ Kept("WEEKLY", e, latest) /\ e.id = id
      <4>1. e \in EntryOf("WEEKLY")
        BY <3>2, <3>3, <3>4, Constants DEF Entry, EntryOf
      <4>2. /\ e.runs = 0 /\ e.first = e.next_run /\ e.id = id
            /\ e.time = req.time /\ e.asked = time /\ e.first = first(req.time, time)
        BY DEF Entry
      <4> HIDE DEF e
      <4>3. Counting("WEEKLY", e, latest)
        BY <3>3, <4>1, <4>2, NewEntry
      <4>4. ASSUME e.time \in TimesOfWeek, e.asked \in WEEK..(Modulus \div 2 - 1),
                   Representable("WEEKLY", e, latest)
            PROVE  /\ e.asked <= e.first /\ e.first < e.asked + WEEK
                   /\ OnTheDay(e.time, e.first) /\ OnTheDay(e.time, e.next_run)
        <5>1. time + WEEK < Modulus
          <6>1. Step("WEEKLY", e) = WEEK
            BY DEF Step
          <6> QED BY <4>4, <6>1, Constants DEF Representable, Stamp
        <5>2. /\ time <= first(e.time, time) /\ first(e.time, time) < time + WEEK
              /\ OnTheDay(e.time, first(e.time, time))
          BY <4>2, <4>4, <5>1, FirstIsOnTheDay
        <5> QED BY <4>2, <5>2
      <4> QED
        BY <4>1, <4>2, <4>3, <4>4 DEF Kept, OnDay
    <3> HIDE DEF e
    <3> QED
      BY <2>1, <3>1, <3>3, <3>5, <3>6 DEF e
  <2>7. ASSUME NEW s \in Services, NEW id \in Ids, Delete(s, id) PROVE IInv'
    <3>1. ListOK(s, destroy(entries[s], id), latest)
      BY <2>7, Destroy DEF Delete, UsedIds
    <3> QED
      BY <2>7, <3>1, <1>3 DEF Delete
  <2>8. ASSUME NEW s \in Services, NEW id \in Ids, NEW status \in BOOLEAN,
               UpdateStatus(s, id, status)
        PROVE  IInv'
    <3> DEFINE list == entries[s]
               new == [i \in DOMAIN list |->
                         IF list[i].id = id THEN [list[i] EXCEPT !.status = status] ELSE list[i]]
    <3>1. ListOK(s, list, latest) /\ entries' = [entries EXCEPT ![s] = new]
      BY <2>8 DEF UpdateStatus
    <3> HIDE DEF list
    <3>2. \A i \in DOMAIN list :
            new[i] \in EntryOf(s) /\ new[i].id = list[i].id /\ Kept(s, new[i], latest)
      <4> TAKE i \in DOMAIN list
      <4>1. list[i] \in EntryOf(s) /\ Kept(s, list[i], latest)
        BY <3>1 DEF ListOK
      <4> DEFINE e == list[i]
                 n == [e EXCEPT !.status = status]
      <4>2. new[i] = IF e.id = id THEN n ELSE e
        OBVIOUS
      <4> HIDE DEF e, new
      <4>3. n \in EntryOf(s) /\ n.id = e.id
        BY <4>1 DEF EntryOf, e
      <4>4. Kept(s, n, latest)
        <5>1. n.set = e.set /\ n.first = e.first /\ n.runs = e.runs /\ n.next_run = e.next_run
              /\ n.time = e.time /\ n.asked = e.asked
          BY <4>1 DEF EntryOf, e
        <5>2. Representable(s, n, latest) = Representable(s, e, latest) /\ Step(s, n) = Step(s, e)
          BY <5>1 DEF Representable, Step
        <5> HIDE DEF n
        <5>3. Counting(s, n, latest)
          BY <4>1, <5>1, <5>2 DEF Counting, Kept, e
        <5>4. OnDay(s, n, latest)
          BY <4>1, <5>1, <5>2 DEF OnDay, Kept, e
        <5> QED BY <5>3, <5>4 DEF Kept
      <4> QED
        BY <4>1, <4>2, <4>3, <4>4 DEF e
    <3>3. ListOK(s, new, latest)
      BY <3>1, <3>2, Change
    <3> QED
      BY <2>8, <3>1, <3>3, <1>3 DEF UpdateStatus
  <2>9. ASSUME NEW s \in Services, DeleteAll(s) PROVE IInv'
    <3>1. ListOK(s, <<>>, latest)
      BY DEF ListOK, Unique
    <3> QED
      BY <2>9, <3>1, <1>3 DEF DeleteAll
  <2>10. ASSUME NEW s \in Services, NEW status \in BOOLEAN, ActivateScheduler(s, status)
         PROVE  IInv'
    BY <2>10 DEF ActivateScheduler, ProgramsOK, Runnable
  <2> QED
    BY <1>6, <2>4, <2>5, <2>6, <2>7, <2>8, <2>9, <2>10 DEF Schedules
<1> QED
  BY <1>1, <1>2, <1>4, <1>5, <1>6 DEF Next

\* IInv holds in every state.
LEMMA Inductive == Spec => []IInv
<1>1. Init => IInv
  BY InitIInv
<1>2. IInv /\ [Next]_vars => IInv'
  BY StepIInv
<1> QED
  BY <1>1, <1>2, PTL DEF Spec

\* Whatever is received and invoked, entries, programs and units are well
\* formed, and the level stays in its range.
THEOREM SchedulesTyped == Spec => []TypeOK
<1>1. IInv => TypeOK
  <2> SUFFICES ASSUME IInv PROVE TypeOK
    OBVIOUS
  <2>1. ASSUME NEW s \in Services, NEW i \in DOMAIN entries[s]
        PROVE  entries[s][i] \in EntryOf(s)
    BY DEF IInv, ListOK
  <2>2. ASSUME NEW s \in Services, NEW i \in DOMAIN entries[s]
        PROVE  LET e == entries[s][i]
               IN /\ e.id \in Ids /\ e.pid \in Ids /\ e.status \in BOOLEAN
                  /\ e.time \in IF s = "EVENT" THEN Interval ELSE Day
                  /\ {e.next_run, e.first, e.asked} \subseteq 0..(Modulus - 1)
                  /\ e.set \in BOOLEAN /\ e.runs \in 0..MaxRuns
    BY <2>1 DEF EntryOf, Time, Stamp
  <2>3. DOMAIN entries = Services
    BY DEF IInv
  <2> QED BY <2>2, <2>3 DEF IInv, ProgramsOK, TypeOK, Stamp
<1> QED
  BY <1>1, Inductive, PTL

\* Ids of entries, and pids and names of programs, name one of them.
THEOREM NamesAreUnique == Spec => []IdsUnique
<1>1. IInv => IdsUnique
  BY DEF IInv, ListOK, Unique, ProgramsOK, IdsUnique
<1> QED
  BY <1>1, Inductive, PTL

\* No entry runs twice in one of its periods, whatever happens to the clock,
\* to the scheduler and to the other entries.
THEOREM RunsAtMostOnce == Spec => []RunsOncePerPeriod
<1>1. IInv => RunsOncePerPeriod
  <2> SUFFICES ASSUME IInv, NEW s \in Services, NEW i \in DOMAIN entries[s],
                      entries[s][i].set, entries[s][i].runs > 0,
                      Representable(s, entries[s][i], latest)
               PROVE  entries[s][i].first + (entries[s][i].runs - 1) * Step(s, entries[s][i]) <= latest
    BY DEF RunsOncePerPeriod
  <2> DEFINE e == entries[s][i]
             k == Step(s, e)
  <2>1. e \in EntryOf(s) /\ Counting(s, e, latest)
    BY DEF IInv, ListOK, Kept
  <2> HIDE DEF e
  <2>2. k \in Nat
    BY <2>1, StepIsNat
  <2>3. e.first + e.runs * k <= e.next_run /\ e.next_run <= latest + k
    BY <2>1 DEF Counting, e
  <2>4. /\ e.first \in Nat /\ e.next_run \in Nat /\ latest \in Nat
        /\ e.runs - 1 \in Nat /\ e.runs = (e.runs - 1) + 1
    BY <2>1 DEF EntryOf, Stamp, IInv, e
  <2> HIDE DEF k
  <2>5. e.runs * k = (e.runs - 1) * k + k /\ (e.runs - 1) * k \in Nat
    BY <2>2, <2>4, OneMore
  <2> DEFINE x == (e.runs - 1) * k
  <2>6. e.first + x <= latest
    <3>1. e.runs * k = x + k /\ x \in Nat
      BY <2>5
    <3> HIDE DEF x
    <3> QED
      BY <2>2, <2>3, <2>4, <3>1
  <2> QED
    BY <2>6 DEF e, k
<1> QED
  BY <1>1, Inductive, PTL

\* A weekly entry first runs in the week after its definition, and always at
\* the day, hour and minute asked for, if the clock is past its first week.
THEOREM WeeklyRunsOnItsDay == Spec => []WeeklyOnTheDay
<1>1. IInv => WeeklyOnTheDay
  <2>1. "WEEKLY" \in Services
    BY DEF Services
  <2> QED BY <2>1 DEF IInv, ListOK, Kept, OnDay, WeeklyOnTheDay
<1> QED
  BY <1>1, Inductive, PTL
=============================================================================
