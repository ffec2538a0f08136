--------------------------- MODULE Library_proofs ---------------------------
(***************************************************************************)
(* Proofs about the parts of the library, for all threads, periods,        *)
(* offsets, stamps, types, programs and bounds: a TimerFD computes at the  *)
(* instants of its grid and a SimpleTimer keeps its period; removing       *)
(* samples from the buffer of a reader loses nothing, in whatever order    *)
(* they arrive and are asked for; a program that has a parameter has the   *)
(* current one; of the old answers at most one gets into a measurement of  *)
(* round trip times; the list of logs is of the search or the level that   *)
(* the user chose, misses none of the newest logs and has none from before *)
(* a reset; and a timer is quiet when stop() has returned, to whichever    *)
(* thread.                                                                 *)
(***************************************************************************)
EXTENDS TimerThread, Library, Integers, Recursion, TLAPS

-----------------------------------------------------------------------------
(* TimerDeadlines                                                          *)

(* Numbers that differ by less than m are equal if their remainders are.   *)
LEMMA SmallModulus ==
  ASSUME NEW a \in Nat, NEW b \in Nat, NEW m \in Nat \ {0},
         a % m = b % m, a <= b, b < a + m
  PROVE  a = b
<1> DEFINE p == a \div m
           q == b \div m
           d == q - p
<1>1. /\ p \in Int /\ q \in Int /\ a % m \in Nat
      /\ a = m * p + (a % m) /\ b = m * q + (b % m)
  OBVIOUS
<1>2. d \in Int /\ q = p + d
  BY <1>1
<1> HIDE DEF p, q, d
<1>3. m * q = m * p + m * d
  BY <1>1, <1>2, SMTT(30)
<1>4. b - a = m * d
  <2>1. ASSUME NEW x \in Int, NEW y \in Int, NEW z \in Int, NEW e \in Int,
               a = x + e, b = y + e, y = x + z
        PROVE  b - a = z
    BY <2>1
  <2>2. m * q \in Int /\ m * p \in Int /\ m * d \in Int
    BY <1>1, <1>2
  <2> QED
    BY <1>1, <1>3, <2>1, <2>2
<1>5. d = 0
  BY <1>2, <1>4, SmallMultiple
<1>6. m * d = 0
  BY <1>5
<1> QED
  BY <1>4, <1>6

(* Sums and differences that stay below the width of a word are exact.     *)
LEMMA NoOverflow ==
  ASSUME NEW a \in Nat, NEW b \in Nat
  PROVE  /\ a + b < Word => Deadlines!Plus(a, b) = a + b
         /\ b <= a /\ a < Word => Deadlines!Minus(a, b) = a - b
<1>0. Word \in Nat
  BY TimesAssumption
<1>1. CASE a + b < Word
  <2>1. (Word * 0 + (a + b)) % Word = a + b
    BY <1>0, <1>1, Division
  <2>2. Word * 0 + (a + b) = a + b
    BY <1>0
  <2> QED
    BY <1>0, <1>1, <2>1, <2>2 DEF Deadlines!Plus, Deadlines!Minus
<1>2. CASE b <= a /\ a < Word
  <2>1. (Word * 1 + (a - b)) % Word = a - b
    BY <1>0, <1>2, Division
  <2>2. Word * 1 + (a - b) = a + Word - b
    BY <1>0
  <2>3. Deadlines!Minus(a, b) = a - b
    BY <2>1, <2>2 DEF Deadlines!Minus
  <2> QED
    BY <2>3, <1>1
<1> QED
  BY <1>1, <1>2

(* The instants of the grid are those a number of periods after the offset. *)
LEMMA Grid ==
  ASSUME NEW k \in Nat
  PROVE  Deadlines!OnGrid(k * Period + Offset)
<1>1. Period \in Nat \ {0} /\ Offset \in Nat
  BY TimesAssumption
<1>2. (Period * k + 0) % Period = 0
  BY <1>1, Division
<1>3. k * Period \in Nat /\ k * Period = Period * k
  BY <1>1, SMTT(30)
<1>4. (k * Period + Offset) - Offset = Period * k + 0
  BY <1>1, <1>3
<1> QED
  BY <1>1, <1>2, <1>3, <1>4 DEF Deadlines!OnGrid

(* Whole periods lead from the grid to the grid.                           *)
LEMMA PeriodsLater ==
  ASSUME NEW t \in Nat, Deadlines!OnGrid(t), NEW k \in Nat
  PROVE  Deadlines!OnGrid(t + k * Period)
<1>1. Period \in Nat \ {0} /\ Offset \in Nat
  BY TimesAssumption
<1> DEFINE j == (t - Offset) \div Period
<1>2. t - Offset \in Nat /\ (t - Offset) % Period = 0
  BY <1>1 DEF Deadlines!OnGrid
<1>3. j \in Nat /\ t - Offset = Period * j
  BY <1>1, <1>2
<1> HIDE DEF j
<1>4. j + k \in Nat /\ (j + k) * Period = Period * j + k * Period /\ k * Period \in Nat
  BY <1>1, <1>3, SMTT(30)
<1>5. t + k * Period = (j + k) * Period + Offset
  BY <1>1, <1>3, <1>4
<1> QED
  BY <1>4, <1>5, Grid

(* How many whole periods there are in a, and the first after it.          *)
LEMMA WholePeriods ==
  ASSUME NEW a \in Nat
  PROVE  /\ a \div Period \in Nat
         /\ (a \div Period) * Period <= a /\ a < (a \div Period) * Period + Period
         /\ (a \div Period + 1) * Period = (a \div Period) * Period + Period
         /\ (a \div Period) * Period \in Nat
<1>1. Period \in Nat \ {0}
  BY TimesAssumption
<1> DEFINE j == a \div Period
<1>2. j \in Nat /\ a = Period * j + (a % Period) /\ a % Period \in 0 .. Period - 1
  BY <1>1
<1> HIDE DEF j
<1>3. j * Period = Period * j /\ j * Period \in Nat /\ (j + 1) * Period = j * Period + Period
  BY <1>1, <1>2, SMTT(30)
<1> QED
  BY <1>1, <1>2, <1>3 DEF j

(* The first deadline is the first instant of the grid from start on.      *)
LEMMA FirstOnGrid ==
  ASSUME NEW start \in Offset .. LastTime
  PROVE  LET d == Deadlines!FirstDeadline(start)
         IN  d \in Nat /\ Deadlines!OnGrid(d) /\ start <= d /\ d <= start + Period
<1>1. /\ Period \in Nat \ {0} /\ Offset \in Nat /\ LastTime \in Nat /\ start \in Nat
      /\ Word \in Nat /\ LastTime + 2 * Period < Word /\ Offset < Period
  BY TimesAssumption
<1>2. Deadlines!Minus(start, Offset) = start - Offset /\ start - Offset \in Nat
  BY <1>1, NoOverflow
<1>3. CASE (start - Offset) % Period = 0
  BY <1>1, <1>2, <1>3 DEF Deadlines!FirstDeadline, Deadlines!OnGrid
<1>4. CASE (start - Offset) % Period # 0
  <2> DEFINE j == (start - Offset) \div Period
  <2>1. /\ j \in Nat /\ j * Period <= start - Offset /\ start - Offset < j * Period + Period
        /\ (j + 1) * Period = j * Period + Period /\ j * Period \in Nat
    BY <1>2, WholePeriods
  <2>2. Deadlines!FirstDeadline(start) = Deadlines!Plus((j + 1) * Period, Offset)
    BY <1>2, <1>4 DEF Deadlines!FirstDeadline
  <2> HIDE DEF j
  <2>3. (j + 1) * Period \in Nat /\ (j + 1) * Period + Offset < Word
    BY <1>1, <2>1
  <2>4. Deadlines!FirstDeadline(start) = (j + 1) * Period + Offset
    BY <1>1, <2>2, <2>3, NoOverflow
  <2>5. Deadlines!OnGrid((j + 1) * Period + Offset)
    BY <2>1, Grid
  <2> QED
    BY <1>1, <2>1, <2>3, <2>4, <2>5
<1> QED
  BY <1>3, <1>4

(* The next deadline is the first instant of the grid that is still to     *)
(* come.                                                                   *)
LEMMA NextOnGrid ==
  ASSUME NEW d \in Nat, Deadlines!OnGrid(d), time \in 0 .. LastTime, d <= time
  PROVE  LET n == Deadlines!NextDeadline(d)
         IN  /\ n \in Nat /\ Deadlines!OnGrid(n) /\ d + Period <= n
             /\ time < n /\ n <= time + Period
<1>1. /\ Period \in Nat \ {0} /\ LastTime \in Nat /\ time \in Nat /\ time <= LastTime
      /\ Word \in Nat /\ LastTime + 2 * Period < Word
  BY TimesAssumption
<1> DEFINE next == d + Period
<1>2. /\ Deadlines!Plus(d, Period) = next /\ next \in Nat /\ 1 * Period = Period
      /\ Deadlines!OnGrid(next)
  <2>1. d + 1 * Period = next
    BY <1>1
  <2>2. Deadlines!OnGrid(d + 1 * Period)
    BY PeriodsLater
  <2>3. Deadlines!Plus(d, Period) = d + Period
    BY <1>1, NoOverflow
  <2> QED
    BY <1>1, <2>1, <2>2, <2>3
<1>3. CASE time < next
  <2>1. Deadlines!NextDeadline(d) = next
    BY <1>1, <1>2, <1>3 DEF Deadlines!NextDeadline
  <2> QED
    BY <1>1, <1>2, <1>3, <2>1
<1>4. CASE next <= time
  <2> DEFINE j == (time - next) \div Period
  <2>1. time - next \in Nat /\ Deadlines!Minus(time, next) = time - next
    BY <1>1, <1>2, <1>4, NoOverflow
  <2>2. /\ j \in Nat /\ j * Period <= time - next /\ time - next < j * Period + Period
        /\ (j + 1) * Period = j * Period + Period /\ j * Period \in Nat
    BY <2>1, WholePeriods
  <2>3. Deadlines!NextDeadline(d) = Deadlines!Plus(next, (j + 1) * Period)
    BY <1>1, <1>2, <1>4, <2>1 DEF Deadlines!NextDeadline
  <2> HIDE DEF j, next
  <2>4. (j + 1) * Period \in Nat /\ next + (j + 1) * Period < Word
    BY <1>1, <1>2, <2>2
  <2>5. Deadlines!NextDeadline(d) = next + (j + 1) * Period
    BY <1>2, <2>3, <2>4, NoOverflow
  <2>6. Deadlines!OnGrid(next + (j + 1) * Period)
    BY <1>2, <2>2, PeriodsLater
  <2>7. d + Period <= next
    BY <1>1 DEF next
  <2> QED
    BY <1>1, <1>2, <1>4, <2>1, <2>2, <2>4, <2>5, <2>6, <2>7
<1> QED
  BY <1>1, <1>2, <1>3, <1>4

(* Once it is started the timer waits for an instant of the grid, and it   *)
(* calls back when that has come.                                          *)
Instants ==
  /\ time \in 0 .. LastTime
  /\ pc \in {"start", "wait", "awake", "callback"} /\ expired \in BOOLEAN
  /\ start_point \in 0 .. LastTime /\ deadline \in 0 .. LastTime + Period
  /\ called \subseteq Nat
  /\ IF pc = "start" THEN called = {}
     ELSE Deadlines!OnGrid(deadline) /\ start_point <= deadline
  /\ pc = "callback" => deadline <= time
  /\ Deadlines!OnTheGrid

(* How many periods of the TimerFD have passed since a callback of the     *)
(* SimpleTimer.                                                            *)
Passed == IF pc = "callback" THEN internal_timer_counter ELSE internal_timer_counter + 1

Simple ==
  /\ internal_timer_counter \in Nat
  /\ simple \subseteq Nat
  /\ pc = "start" => simple = {}
  /\ \A s \in simple : s + Passed * Period <= deadline
  /\ Deadlines!SimplePeriodKept

DeadlineInv == Instants /\ Simple

(* No timer has been started.                                              *)
LEMMA DeadlineInit == Deadlines!Init => DeadlineInv
<1> SUFFICES ASSUME Deadlines!Init PROVE DeadlineInv
  OBVIOUS
<1>1. /\ Period \in Nat \ {0} /\ LastTime \in Nat
      /\ 0 \in 0 .. LastTime /\ 0 \in 0 .. LastTime + Period
  BY TimesAssumption
<1>2. Instants
  BY <1>1 DEF Deadlines!Init, Instants, Deadlines!OnTheGrid
<1>3. Deadlines!counter_max \in Nat
  <2>1. SimplePeriod \in Nat
    BY TickAssumption
  <2> QED
    BY <1>1, <2>1, TickAssumption, WholePeriods DEF Deadlines!counter_max
<1>4. Simple
  BY <1>3 DEF Deadlines!Init, Simple, Deadlines!SimplePeriodKept
<1> QED
  BY <1>2, <1>4 DEF DeadlineInv

(* Only Start and Return choose a deadline, only Callback uses it.         *)
LEMMA InstantsStep == ASSUME Instants, Deadlines!Next PROVE Instants'
<1>0. Period \in Nat \ {0} /\ LastTime \in Nat /\ Offset \in Nat
  BY TimesAssumption
<1>1. ASSUME NEW start \in Offset .. LastTime, Deadlines!Start(start) PROVE Instants'
  <2>1. /\ deadline' = Deadlines!FirstDeadline(start)
        /\ pc = "start" /\ pc' = "wait" /\ start_point' = start /\ expired' \in BOOLEAN
        /\ UNCHANGED <<time, called>>
    BY <1>1 DEF Deadlines!Start
  <2>2. /\ deadline' \in Nat /\ Deadlines!OnGrid(deadline') /\ start <= deadline'
        /\ deadline' <= start + Period
    BY <1>1, <2>1, FirstOnGrid
  <2>3. start \in 0 .. LastTime /\ deadline' \in 0 .. LastTime + Period
    BY <1>0, <1>1, <2>2
  <2>4. called = {}
    BY <2>1 DEF Instants
  <2> QED
    BY <2>1, <2>2, <2>3, <2>4 DEF Instants, Deadlines!OnTheGrid
<1>2. CASE Deadlines!Pass
  <2>1. /\ time' = time + 1 /\ time < LastTime /\ expired' \in BOOLEAN
        /\ UNCHANGED <<start_point, deadline, pc, called>>
    BY <1>2 DEF Deadlines!Pass, Instants
  <2>2. time' \in 0 .. LastTime /\ time <= time' /\ time \in Nat
    BY <1>0, <2>1 DEF Instants
  <2>3. Deadlines!OnTheGrid'
    BY <2>1, <2>2 DEF Instants, Deadlines!OnTheGrid
  <2>4. deadline \in Nat
    BY <1>0 DEF Instants
  <2> QED
    BY <2>1, <2>2, <2>3, <2>4 DEF Instants
<1>3. CASE Deadlines!Read \/ Deadlines!TooEarly
  BY <1>3 DEF Deadlines!Read, Deadlines!TooEarly, Instants, Deadlines!OnTheGrid
<1>4. CASE Deadlines!Callback
  <2>1. /\ pc = "awake" /\ pc' = "callback" /\ deadline <= time
        /\ called' \subseteq called \cup {deadline}
        /\ UNCHANGED <<time, start_point, deadline, expired>>
    BY <1>0, <1>4 DEF Deadlines!Callback, Deadlines!Later, Instants
  <2>2. Deadlines!OnGrid(deadline) /\ start_point <= deadline /\ deadline \in Nat
    BY <1>0, <2>1 DEF Instants
  <2>3. Deadlines!OnTheGrid'
    BY <2>1, <2>2 DEF Instants, Deadlines!OnTheGrid
  <2> QED
    BY <2>1, <2>2, <2>3 DEF Instants
<1>5. CASE Deadlines!Return
  <2>1. /\ pc = "callback" /\ pc' = "wait"
        /\ deadline' = Deadlines!NextDeadline(deadline)
        /\ UNCHANGED <<time, start_point, expired, called>>
    BY <1>5 DEF Deadlines!Return
  <2>2. Deadlines!OnGrid(deadline) /\ deadline \in Nat /\ time \in 0 .. LastTime /\ deadline <= time
        /\ start_point <= deadline /\ start_point \in Nat
    BY <1>0, <2>1 DEF Instants
  <2>3. /\ deadline' \in Nat /\ Deadlines!OnGrid(deadline') /\ deadline + Period <= deadline'
        /\ deadline' <= time + Period
    BY <2>1, <2>2, NextOnGrid
  <2>4. deadline' \in 0 .. LastTime + Period /\ start_point <= deadline'
    BY <1>0, <2>2, <2>3
  <2>5. Deadlines!OnTheGrid'
    BY <2>1 DEF Instants, Deadlines!OnTheGrid
  <2> QED
    BY <2>1, <2>3, <2>4, <2>5 DEF Instants
<1> QED
  BY <1>1, <1>2, <1>3, <1>4, <1>5 DEF Deadlines!Next

(* The counter of the SimpleTimer counts the periods since its callback.   *)
LEMMA SimpleStep == ASSUME DeadlineInv, Deadlines!Next PROVE Simple'
<1>0. /\ Period \in Nat \ {0} /\ LastTime \in Nat /\ deadline \in Nat
      /\ internal_timer_counter \in Nat /\ simple \subseteq Nat
  BY TimesAssumption DEF DeadlineInv, Instants, Simple
<1> DEFINE c == internal_timer_counter
<1>a. c * Period \in Nat /\ (c + 1) * Period = c * Period + Period
  BY <1>0, SMTT(30)
<1>1. ASSUME NEW start \in Offset .. LastTime, Deadlines!Start(start) PROVE Simple'
  <2>1. simple = {} /\ pc' = "wait" /\ UNCHANGED <<internal_timer_counter, simple>>
    BY <1>1 DEF Deadlines!Start, DeadlineInv, Simple
  <2> QED
    BY <1>0, <2>1 DEF Simple, Deadlines!SimplePeriodKept
<1>2. CASE Deadlines!Pass \/ Deadlines!Read \/ Deadlines!TooEarly
  <2>1. /\ UNCHANGED <<internal_timer_counter, simple, deadline>> /\ Passed' = Passed
        /\ pc' = "start" => pc = "start"
    BY <1>2 DEF Deadlines!Pass, Deadlines!Read, Deadlines!TooEarly, Passed
  <2> QED
    BY <2>1 DEF DeadlineInv, Simple, Deadlines!SimplePeriodKept
<1>3. CASE Deadlines!Callback
  <2>1. /\ pc = "awake" /\ pc' = "callback" /\ UNCHANGED deadline /\ Passed = c + 1
        /\ Passed' = internal_timer_counter'
    BY <1>3 DEF Deadlines!Callback, Passed
  <2>2. \A s \in simple : s + (c * Period + Period) <= deadline
    BY <1>a, <2>1 DEF DeadlineInv, Simple
  <2>3. CASE c + 1 >= Deadlines!counter_max
    <3>1. /\ internal_timer_counter' = 0
          /\ simple' = {x \in simple : \A y \in simple : y <= x} \cup {deadline}
      BY <1>3, <2>3 DEF Deadlines!Callback, Deadlines!SimpleCallback, Deadlines!Later
    <3>2. SimplePeriod <= c * Period + Period
      <4> DEFINE n == Deadlines!counter_max
      <4>1. n \in Nat /\ SimplePeriod = Period * n
        BY <1>0, TickAssumption DEF Deadlines!counter_max
      <4> HIDE DEF n
      <4>2. PICK e \in Nat : c + 1 = n + e
        <5>1. (c + 1) - n \in Nat /\ c + 1 = n + ((c + 1) - n)
          BY <1>0, <2>3, <4>1 DEF n
        <5> QED
          BY <5>1
      <4>3. (n + e) * Period = Period * n + e * Period /\ e * Period \in Nat /\ Period * n \in Nat
        BY <1>0, <4>1, SMTT(30)
      <4>4. c * Period + Period = Period * n + e * Period
        BY <1>a, <4>2, <4>3
      <4> QED
        BY <4>1, <4>3, <4>4
    <3>3. SimplePeriod \in Nat
      BY TickAssumption
    <3>4. \A s \in simple : deadline - s >= SimplePeriod
      BY <1>0, <1>a, <2>2, <3>2, <3>3
    <3>5. Deadlines!SimplePeriodKept'
      BY <1>0, <3>1, <3>3, <3>4 DEF Deadlines!SimplePeriodKept
    <3>6. 0 * Period = 0 /\ \A s \in simple' : s \in Nat /\ s <= deadline
      BY <1>0, <3>1, <3>3, <3>4
    <3>7. \A s \in simple' : s + Passed' * Period <= deadline'
      BY <1>0, <2>1, <3>1, <3>6
    <3> QED
      BY <2>1, <3>1, <3>5, <3>6, <3>7 DEF Simple
  <2>4. CASE ~(c + 1 >= Deadlines!counter_max)
    <3>1. internal_timer_counter' = c + 1 /\ UNCHANGED simple
      BY <1>3, <2>4 DEF Deadlines!Callback, Deadlines!SimpleCallback
    <3>2. \A s \in simple' : s + Passed' * Period <= deadline'
      BY <1>a, <2>1, <2>2, <3>1
    <3> QED
      BY <1>0, <2>1, <3>1, <3>2 DEF DeadlineInv, Simple, Deadlines!SimplePeriodKept
  <2> QED
    BY <2>3, <2>4
<1>4. CASE Deadlines!Return
  <2>1. /\ pc = "callback" /\ pc' = "wait" /\ Passed = c /\ Passed' = c + 1
        /\ deadline' = Deadlines!NextDeadline(deadline)
        /\ UNCHANGED <<internal_timer_counter, simple>>
    BY <1>4 DEF Deadlines!Return, Passed
  <2>2. deadline' \in Nat /\ deadline + Period <= deadline'
    BY <1>0, <2>1, NextOnGrid DEF DeadlineInv, Instants
  <2>3. \A s \in simple : s + c * Period <= deadline
    BY <2>1 DEF DeadlineInv, Simple
  <2>4. \A s \in simple' : s + Passed' * Period <= deadline'
    BY <1>0, <1>a, <2>1, <2>2, <2>3
  <2> QED
    BY <2>1, <2>4 DEF DeadlineInv, Simple, Deadlines!SimplePeriodKept
<1> QED
  BY <1>1, <1>2, <1>3, <1>4 DEF Deadlines!Next

(* What PeriodsKept says follows from the invariant.                       *)
LEMMA PeriodsKeptInv == DeadlineInv => PeriodsKept
<1> SUFFICES ASSUME DeadlineInv PROVE PeriodsKept
  OBVIOUS
<1>1. /\ Period \in Nat \ {0} /\ LastTime \in Nat
      /\ Word \in Nat /\ LastTime + 2 * Period < Word
  BY TimesAssumption
<1>2. start_point \in 0 .. Word - 1 /\ deadline \in 0 .. Word - 1
  BY <1>1 DEF DeadlineInv, Instants
<1>3. \A t \in called : t \in 0 .. Word - 1
  BY <1>1 DEF DeadlineInv, Instants, Deadlines!OnTheGrid
<1>4. \A s \in simple : s \in 0 .. Word - 1
  <2>1. ASSUME NEW s \in simple PROVE s \in 0 .. Word - 1
    <3>1. s \in Nat /\ Passed \in Nat /\ s + Passed * Period <= deadline
      BY DEF DeadlineInv, Simple, Passed
    <3>2. Passed * Period \in Nat
      BY <1>1, <3>1, SMTT(30)
    <3> QED
      BY <1>1, <1>2, <3>1, <3>2
  <2> QED
    BY <2>1
<1>5. Deadlines!TypeOK
  BY <1>2, <1>3, <1>4 DEF DeadlineInv, Instants, Simple, Deadlines!TypeOK
<1> QED
  BY <1>5 DEF DeadlineInv, Instants, Simple, PeriodsKept

(* The invariant is inductive.                                             *)
LEMMA DeadlineStep == DeadlineInv /\ [Deadlines!Next]_Deadlines!vars => DeadlineInv'
<1> SUFFICES ASSUME DeadlineInv, [Deadlines!Next]_Deadlines!vars PROVE DeadlineInv'
  OBVIOUS
<1>1. CASE UNCHANGED Deadlines!vars
  BY <1>1 DEF Deadlines!vars, DeadlineInv, Instants, Simple, Passed, Deadlines!OnTheGrid,
              Deadlines!SimplePeriodKept
<1> QED
  BY <1>1, InstantsStep, SimpleStep DEF DeadlineInv

(* All timers compute at instants of one grid, from the start on and not   *)
(* before their time, and a SimpleTimer calls back once in its period.     *)
THEOREM PeriodsCorrect == Deadlines!Spec => []PeriodsKept
BY DeadlineInit, DeadlineStep, PeriodsKeptInv, PTL DEF Deadlines!Spec

(* The correction after a callback that took too long leads to the nearest *)
(* instant that is still to come.                                          *)
THEOREM CatchesUpCorrect == Deadlines!Spec => Deadlines!CatchesUp
<1>1. DeadlineInv /\ [Deadlines!Next]_Deadlines!vars
        => [pc = "callback" /\ pc' = "wait" =>
              deadline' > time /\ deadline' <= time + Period]_Deadlines!vars
  <2> SUFFICES ASSUME DeadlineInv, Deadlines!Next, pc = "callback", pc' = "wait"
               PROVE  deadline' > time /\ deadline' <= time + Period
    OBVIOUS
  <2>1. deadline' = Deadlines!NextDeadline(deadline)
    BY DEF Deadlines!Next, Deadlines!Start, Deadlines!Pass, Deadlines!Read, Deadlines!TooEarly,
           Deadlines!Callback, Deadlines!Return
  <2>2. Deadlines!OnGrid(deadline) /\ deadline \in Nat /\ time \in 0 .. LastTime /\ deadline <= time
    BY TimesAssumption DEF DeadlineInv, Instants
  <2>3. deadline' \in Nat /\ time < deadline' /\ deadline' <= time + Period
    BY <2>1, <2>2, NextOnGrid
  <2> QED
    BY <2>2, <2>3
<1> QED
  BY DeadlineInit, DeadlineStep, <1>1, PTL DEF Deadlines!Spec, Deadlines!CatchesUp

-----------------------------------------------------------------------------
(* NewestSample                                                            *)

(* What was removed is older than a valid sample that is still there.      *)
Covered(removed, there, t) ==
  \A r \in removed : \E s \in Samples!Valid(there, t) : s.create_stamp > r.create_stamp

SampleInv ==
  /\ Samples!TypeOK
  /\ \A v \in Vehicle : buffer[v] \subseteq received[v]
  /\ \A v \in Vehicle : Covered(received[v] \ buffer[v], buffer[v], now)
  /\ Samples!NewestIsFound

(* The newest of a set is the newest of what is left when covered samples  *)
(* are removed from it.                                                    *)
LEMMA NewestOfCovered ==
  ASSUME NEW all \in SUBSET Samples!Sample, NEW there \in SUBSET all, NEW t \in Nat,
         Covered(all \ there, there, t)
  PROVE  Samples!Newest(there, t) = Samples!Newest(all, t)
<1>1. ASSUME NEW s \in Samples!Newest(there, t) PROVE s \in Samples!Newest(all, t)
  <2>1. s \in Samples!Valid(all, t)
    BY <1>1 DEF Samples!Newest, Samples!Valid
  <2>2. ASSUME NEW other \in Samples!Valid(all, t)
        PROVE  \/ other.create_stamp < s.create_stamp
               \/ other.create_stamp = s.create_stamp /\ other.nr <= s.nr
    <3>1. CASE other \in there
      BY <1>1, <2>2, <3>1 DEF Samples!Newest, Samples!Valid
    <3>2. CASE other \notin there
      <4>1. PICK n \in Samples!Valid(there, t) : n.create_stamp > other.create_stamp
        BY <2>2, <3>2 DEF Covered, Samples!Valid
      <4>2. n.create_stamp <= s.create_stamp
        BY <1>1, <4>1 DEF Samples!Newest, Samples!Valid, Samples!Sample, Samples!Stamp
      <4> QED
        BY <4>1, <4>2, <1>1, <2>2 DEF Samples!Newest, Samples!Valid, Samples!Sample,
                        Samples!Stamp
    <3> QED
      BY <3>1, <3>2
  <2> QED
    BY <2>1, <2>2 DEF Samples!Newest
<1>2. ASSUME NEW s \in Samples!Newest(all, t) PROVE s \in Samples!Newest(there, t)
  <2>1. s \in there
    <3> SUFFICES ASSUME s \notin there PROVE FALSE
      OBVIOUS
    <3>1. PICK n \in Samples!Valid(there, t) : n.create_stamp > s.create_stamp
      BY <1>2 DEF Covered, Samples!Newest, Samples!Valid
    <3>2. n \in Samples!Valid(all, t)
      BY <3>1 DEF Samples!Valid
    <3> QED
      BY <1>2, <3>1, <3>2 DEF Samples!Newest, Samples!Valid, Samples!Sample, Samples!Stamp
  <2> QED
    BY <1>2, <2>1 DEF Samples!Newest, Samples!Valid
<1> QED
  BY <1>1, <1>2

(* remove_old_msgs keeps everything covered.                               *)
LEMMA RemovingCovers ==
  ASSUME NEW all \in SUBSET Samples!Sample, NEW there \in SUBSET all, NEW t \in Nat,
         Covered(all \ there, there, t)
  PROVE  Covered(all \ Samples!RemoveOld(there, Samples!Newest(there, t)),
                 Samples!RemoveOld(there, Samples!Newest(there, t)), t)
<1> DEFINE newest == Samples!Newest(there, t)
           left == Samples!RemoveOld(there, newest)
<1>1. newest \subseteq Samples!Valid(left, t)
  BY DEF Samples!Newest, Samples!Valid, Samples!RemoveOld, Samples!Sample, Samples!Stamp
<1>2. ASSUME NEW r \in there \ left
      PROVE  \E s \in Samples!Valid(left, t) : s.create_stamp > r.create_stamp
  BY <1>1, <1>2 DEF Samples!RemoveOld, Samples!Newest, Samples!Valid, Samples!Sample,
                  Samples!Stamp
<1>3. ASSUME NEW r \in all \ there
      PROVE  \E s \in Samples!Valid(left, t) : s.create_stamp > r.create_stamp
  <2>1. PICK n \in Samples!Valid(there, t) : n.create_stamp > r.create_stamp
    BY <1>3 DEF Covered
  <2>2. CASE n \in left
    BY <2>1, <2>2 DEF Samples!Valid
  <2>3. CASE n \notin left
    <3>1. PICK s \in Samples!Valid(left, t) : s.create_stamp > n.create_stamp
      BY <1>2, <2>1, <2>3 DEF Samples!Valid
    <3> QED
      BY <2>1, <3>1, <1>3 DEF Samples!Valid, Samples!RemoveOld, Samples!Sample, Samples!Stamp
  <2> QED
    BY <2>2, <2>3
<1> QED
  BY <1>2, <1>3 DEF Covered

(* No sample has arrived.                                                  *)
LEMMA SampleInit == Samples!Init => SampleInv
BY DEF Samples!Init, SampleInv, Samples!TypeOK, Samples!SampleSets, Covered,
       Samples!NewestIsFound, Samples!Newest, Samples!Valid

(* A sample that arrives is not in the buffer yet.                         *)
LEMMA ArriveStep ==
  ASSUME SampleInv, NEW v \in Vehicle, NEW created \in Samples!Stamp, NEW valid \in Samples!Stamp,
         Samples!Arrive(v, created, valid)
  PROVE  SampleInv'
<1> DEFINE s == [create_stamp |-> created, valid_after_stamp |-> valid, nr |-> arrivals + 1]
<1>1. s \in Samples!Sample
  BY DEF Samples!Arrive, SampleInv, Samples!TypeOK, Samples!Sample
<1>2. dds_reader' \in Samples!SampleSets
  BY <1>1 DEF Samples!Arrive, SampleInv, Samples!TypeOK, Samples!SampleSets, Samples!Kept
<1> QED
  BY <1>2 DEF Samples!Arrive, SampleInv, Samples!TypeOK, Samples!NewestIsFound, Covered

(* A call empties the DDS reader into the buffer, chooses, and removes.    *)
LEMMA GetSamplesStep ==
  ASSUME SampleInv, NEW t \in Samples!Stamp, Samples!GetSamples(t)
  PROVE  SampleInv'
<1> DEFINE flushed(v) == buffer[v] \cup dds_reader[v]
           all(v) == received[v] \cup dds_reader[v]
<1>0. t \in Nat /\ now \in Nat /\ now <= t
  BY DEF Samples!Stamp, Samples!GetSamples, SampleInv, Samples!TypeOK
<1>1. ASSUME NEW v \in Vehicle
      PROVE  /\ all(v) \in SUBSET Samples!Sample
             /\ flushed(v) \in SUBSET all(v)
             /\ Covered(all(v) \ flushed(v), flushed(v), t)
  <2>1. all(v) \in SUBSET Samples!Sample /\ flushed(v) \in SUBSET all(v)
    BY <1>1 DEF SampleInv, Samples!TypeOK, Samples!SampleSets
  <2>2. ASSUME NEW r \in all(v) \ flushed(v)
        PROVE  \E s \in Samples!Valid(flushed(v), t) : s.create_stamp > r.create_stamp
    <3>1. r \in received[v] \ buffer[v]
      BY <2>2
    <3>2. PICK s \in Samples!Valid(buffer[v], now) : s.create_stamp > r.create_stamp
      BY <1>1, <3>1 DEF SampleInv, Covered
    <3>3. s \in Samples!Sample /\ s \in flushed(v) /\ s.valid_after_stamp <= now
      BY <1>1, <2>1, <3>2 DEF Samples!Valid
    <3>4. s \in Samples!Valid(flushed(v), t)
      BY <1>0, <3>3 DEF Samples!Valid, Samples!Sample, Samples!Stamp
    <3> QED
      BY <3>2, <3>4
  <2> QED
    BY <2>1, <2>2 DEF Covered
<1>2. /\ now' = t
      /\ sample_out' = [v \in Vehicle |-> Samples!Newest(flushed(v), t)]
      /\ buffer' = [v \in Vehicle |-> Samples!RemoveOld(flushed(v), Samples!Newest(flushed(v), t))]
      /\ received' = [v \in Vehicle |-> all(v)]
      /\ dds_reader' = [v \in Vehicle |-> {}]
      /\ arrivals' = arrivals
  BY DEF Samples!GetSamples
<1>3. ASSUME NEW v \in Vehicle
      PROVE  /\ buffer'[v] \subseteq received'[v]
             /\ Covered(received'[v] \ buffer'[v], buffer'[v], t)
             /\ sample_out'[v] = Samples!Newest(received'[v], t)
  <2>1. /\ received'[v] = all(v)
        /\ buffer'[v] = Samples!RemoveOld(flushed(v), Samples!Newest(flushed(v), t))
        /\ sample_out'[v] = Samples!Newest(flushed(v), t)
    BY <1>2, <1>3
  <2>2. Samples!Newest(flushed(v), t) = Samples!Newest(all(v), t)
    BY <1>0, <1>1, <1>3, NewestOfCovered
  <2>3. Covered(all(v) \ Samples!RemoveOld(flushed(v), Samples!Newest(flushed(v), t)),
                Samples!RemoveOld(flushed(v), Samples!Newest(flushed(v), t)), t)
    BY <1>0, <1>1, <1>3, RemovingCovers
  <2>4. Samples!RemoveOld(flushed(v), Samples!Newest(flushed(v), t)) \subseteq all(v)
    <3> HIDE DEF flushed, all
    <3> QED
      BY <1>1, <1>3 DEF Samples!RemoveOld
  <2> QED
    BY <2>1, <2>2, <2>3, <2>4
<1>4. Samples!TypeOK'
  BY <1>0, <1>1, <1>2
  DEF SampleInv, Samples!TypeOK, Samples!SampleSets, Samples!RemoveOld, Samples!Newest,
      Samples!Valid
<1> QED
  BY <1>2, <1>3, <1>4 DEF SampleInv, Samples!NewestIsFound

(* Every call returns the newest of all samples ever received.             *)
THEOREM SelectionCorrect == Samples!Spec => []NewestIsFound
<1>1. SampleInv /\ [Samples!Next]_Samples!vars => SampleInv'
  <2> SUFFICES ASSUME SampleInv, [Samples!Next]_Samples!vars PROVE SampleInv'
    OBVIOUS
  <2>1. CASE UNCHANGED Samples!vars
    BY <2>1 DEF Samples!vars, SampleInv, Samples!TypeOK, Samples!NewestIsFound, Covered
  <2> QED
    BY <2>1, ArriveStep, GetSamplesStep DEF Samples!Next
<1>2. SampleInv => NewestIsFound
  BY DEF SampleInv, NewestIsFound
<1> QED
  BY SampleInit, <1>1, <1>2, PTL DEF Samples!Spec

-----------------------------------------------------------------------------
(* Parameters                                                              *)

(* Which indices of TypeOrder a thread has still to try.                   *)
Ahead(t, param) == \E k \in DOMAIN TypeOrder : k >= handler[t].at /\ TypeOrder[k] = param.type

Latest(p) == samples[p][Len(samples[p])]

ParamTypes ==
  /\ \A param \in storage : param \in Params!Parameter
  /\ \A a, b \in storage : a = b
  /\ version \in 0 .. Changes
  /\ handler \in [Params!Thread -> {Params!Idle} \cup {Params!Look(i) : i \in DOMAIN TypeOrder}
                                     \cup [pc : {"write"}, param : Params!Parameter]]
  /\ delayed \in BOOLEAN /\ param_requested \in BOOLEAN /\ overlap \in BOOLEAN
  /\ matched \subseteq Program
  /\ samples \in [Program -> Seq(Params!Parameter)]
  /\ cache \in [Program -> [Params!Type -> 0 .. Changes]]
  /\ got \in [Program -> 0 .. Changes]

(* As long as no change came while another thread published: a thread that *)
(* writes writes the current parameter, the GTK thread finds the type, and *)
(* a program that was matched in time has got or will get the parameter.   *)
Current ==
  /\ \A t \in Params!Thread : handler[t].pc = "write" => storage = {handler[t].param}
  /\ handler["gtk"].pc = "look" => \A param \in storage : Ahead("gtk", param)
  /\ handler["gtk"].pc = "idle" =>
       \A p \in Program, param \in storage :
         IF samples[p] = <<>> THEN cache[p][param.type] \in {0, param.value}
         ELSE Latest(p) = param

(* Who is not matched has got nothing.                                     *)
Unmatched ==
  \A p \in Program \ matched : samples[p] = <<>> /\ \A type \in Params!Type : cache[p][type] = 0

ParamInv == ParamTypes /\ Unmatched /\ (~overlap => Current)

(* Nothing is stored, published or matched.                                *)
LEMMA ParamInit == Params!Init => ParamInv
<1> SUFFICES ASSUME Params!Init PROVE ParamInv
  OBVIOUS
<1>1. ParamTypes
  <2>1. Changes \in Nat /\ 0 \in 0 .. Changes
    BY ParameterAssumption
  <2>2. /\ handler = [t \in Params!Thread |-> Params!Idle]
        /\ samples = [p \in Program |-> <<>>] /\ <<>> \in Seq(Params!Parameter)
        /\ cache = [p \in Program |-> [type \in Params!Type |-> 0]]
        /\ got = [p \in Program |-> 0]
    BY DEF Params!Init
  <2>3. handler \in [Params!Thread -> {Params!Idle}] /\ samples \in [Program -> Seq(Params!Parameter)]
    BY <2>2
  <2>4. /\ cache \in [Program -> [Params!Type -> 0 .. Changes]]
        /\ got \in [Program -> 0 .. Changes]
    BY <2>1, <2>2
  <2>5. storage = {} /\ version = 0 /\ delayed = TRUE /\ param_requested = FALSE
        /\ matched = {} /\ overlap = FALSE
    BY DEF Params!Init
  <2> QED
    BY <2>1, <2>3, <2>4, <2>5 DEF ParamTypes
<1>2. Unmatched
  BY DEF Params!Init, Unmatched
<1>3. Current
  BY DEF Params!Init, Current, Params!Idle
<1> QED
  BY <1>1, <1>2, <1>3 DEF ParamInv

(* The three states of a thread.                                           *)
LEMMA HandlerStates ==
  ASSUME ParamTypes, NEW t \in Params!Thread
  PROVE  \/ handler[t] = Params!Idle /\ handler[t].pc = "idle"
         \/ /\ handler[t].pc = "look" /\ handler[t].at \in 1 .. Len(TypeOrder)
            /\ handler[t] # Params!Idle
         \/ /\ handler[t].pc = "write" /\ handler[t].param \in Params!Parameter
            /\ handler[t] # Params!Idle
BY ParameterAssumption DEF ParamTypes, Params!Idle, Params!Look

(* The GTK thread, which does not publish then, changes the storage.       *)
LEMMA StoreStep ==
  ASSUME ParamInv, (\E type \in Params!Type : Params!SetParameter(type)) \/ Params!DeleteParameter
  PROVE  ParamInv'
<1>0. Changes \in Nat /\ DOMAIN TypeOrder = 1 .. Len(TypeOrder) /\ 1 \in DOMAIN TypeOrder
  BY ParameterAssumption
<1>1. "gtk" \in Params!Thread /\ handler["gtk"] = Params!Idle
  BY DEF Params!SetParameter, Params!DeleteParameter, Params!Thread
<1>2. ASSUME NEW type \in Params!Type, Params!SetParameter(type)
      PROVE  ParamInv'
  <2> DEFINE param == [type |-> type, value |-> version + 1]
  <2>1. /\ storage' = {param} /\ version' = version + 1 /\ version < Changes
        /\ handler' = [handler EXCEPT !["gtk"] = Params!Look(1)]
        /\ overlap' = (overlap \/ Params!Publishing)
        /\ UNCHANGED <<delayed, matched, param_requested, samples, cache, got>>
    BY <1>2 DEF Params!SetParameter, Params!StoreValue
  <2>2. param \in Params!Parameter
    BY <1>0, <2>1 DEF ParamInv, ParamTypes, Params!Parameter
  <2>3. ParamTypes'
    <3>1. version' \in 0 .. Changes /\ overlap' \in BOOLEAN
      BY <1>0, <2>1 DEF ParamInv, ParamTypes
    <3>2. Params!Look(1) \in {Params!Look(i) : i \in DOMAIN TypeOrder}
      BY <1>0
    <3> HIDE DEF param
    <3> QED
      BY <2>1, <2>2, <3>1, <3>2 DEF ParamInv, ParamTypes
  <2>4. Unmatched'
    BY <2>1 DEF ParamInv, Unmatched
  <2>5. ASSUME ~overlap' PROVE Current'
    <3>1. \A t \in Params!Thread \ {"gtk"} : handler[t] = Params!Idle
      BY <2>1, <2>5 DEF Params!Publishing, Params!Thread
    <3>2. handler'["gtk"] = Params!Look(1) /\ \A t \in Params!Thread \ {"gtk"} : handler'[t] = Params!Idle
      BY <1>1, <2>1, <3>1 DEF ParamInv, ParamTypes
    <3>3. handler'["gtk"].pc = "look" /\ handler'["gtk"].at = 1
      BY <3>2 DEF Params!Look
    <3>4. \A t \in Params!Thread : handler'[t].pc # "write"
      BY <3>2, <3>3 DEF Params!Idle
    <3>5. PICK k \in DOMAIN TypeOrder : TypeOrder[k] = type
      BY <1>2 DEF Params!Type
    <3>6. \A p \in storage' : Ahead("gtk", p)'
      BY <1>0, <2>1, <3>3, <3>5 DEF Ahead
    <3> QED
      BY <3>3, <3>4, <3>6 DEF Current
  <2> QED
    BY <2>3, <2>4, <2>5 DEF ParamInv
<1>3. CASE Params!DeleteParameter
  <2>1. /\ storage' = {} /\ overlap' = (overlap \/ Params!Publishing)
        /\ UNCHANGED <<version, handler, delayed, matched, param_requested, samples, cache, got>>
    BY <1>3 DEF Params!DeleteParameter
  <2>2. ParamTypes' /\ Unmatched'
    BY <2>1 DEF ParamInv, ParamTypes, Unmatched
  <2>3. ASSUME ~overlap' PROVE Current'
    <3>1. \A t \in Params!Thread : handler'[t] = Params!Idle
      BY <1>1, <2>1, <2>3 DEF Params!Publishing, Params!Thread
    <3>2. \A t \in Params!Thread : handler'[t].pc # "write"
      BY <3>1 DEF Params!Idle
    <3> QED
      BY <2>1, <3>2 DEF Current
  <2> QED
    BY <2>2, <2>3 DEF ParamInv
<1> QED
  BY <1>2, <1>3

(* A thread other than the GTK thread begins to look.                      *)
LEMMA BeginStep ==
  ASSUME ParamInv, Params!TakeRequest \/ Params!ResendAll
  PROVE  ParamInv'
<1>0. DOMAIN TypeOrder = 1 .. Len(TypeOrder) /\ 1 \in DOMAIN TypeOrder
  BY ParameterAssumption
<1>1. PICK t \in {"request", "init"} :
        /\ handler' = handler \/ handler' = [handler EXCEPT ![t] = Params!Look(1)]
        /\ param_requested' \in BOOLEAN /\ delayed' \in BOOLEAN
        /\ UNCHANGED <<storage, version, matched, samples, cache, got, overlap>>
  <2>1. CASE Params!TakeRequest
    BY <2>1 DEF Params!TakeRequest, ParamInv, ParamTypes
  <2>2. CASE Params!ResendAll
    BY <2>2 DEF Params!ResendAll, ParamInv, ParamTypes
  <2> QED
    BY <2>1, <2>2
<1>2. t \in Params!Thread /\ t # "gtk" /\ "gtk" \in Params!Thread
  BY DEF Params!Thread
<1>3. Params!Look(1) \in {Params!Look(i) : i \in DOMAIN TypeOrder} /\ Params!Look(1).pc = "look"
  BY <1>0 DEF Params!Look
<1>4. /\ handler'["gtk"] = handler["gtk"]
      /\ \A u \in Params!Thread : handler'[u] = handler[u] \/ handler'[u].pc = "look"
  BY <1>1, <1>2, <1>3 DEF ParamInv, ParamTypes
<1>5. ParamTypes'
  BY <1>1, <1>2, <1>3 DEF ParamInv, ParamTypes
<1>6. Unmatched'
  BY <1>1 DEF ParamInv, Unmatched
<1>7. ASSUME Current PROVE Current'
  BY <1>1, <1>4, <1>7 DEF Current, Ahead, Latest
<1> QED
  BY <1>1, <1>5, <1>6, <1>7 DEF ParamInv

(* A thread looks for one type after the other.                            *)
LEMMA TryTypeStep ==
  ASSUME ParamInv, NEW t \in Params!Thread, Params!TryType(t)
  PROVE  ParamInv'
<1> DEFINE i == handler[t].at
           found == {p \in storage : p.type = TypeOrder[i]}
<1>0. DOMAIN TypeOrder = 1 .. Len(TypeOrder) /\ Len(TypeOrder) \in Nat
  BY ParameterAssumption
<1>1. i \in 1 .. Len(TypeOrder) /\ handler[t].pc = "look"
  BY HandlerStates DEF Params!TryType, ParamInv, Params!Idle
<1>2. PICK next :
        /\ handler' = [handler EXCEPT ![t] = next]
        /\ \/ \E p \in found : next = [pc |-> "write", param |-> p]
           \/ found = {} /\ i < Len(TypeOrder) /\ next = Params!Look(i + 1)
           \/ found = {} /\ i = Len(TypeOrder) /\ next = Params!Idle
  <2>1. CASE found # {}
    BY <2>1 DEF Params!TryType
  <2>2. CASE found = {} /\ i < Len(TypeOrder)
    BY <2>2 DEF Params!TryType
  <2>3. CASE found = {} /\ ~(i < Len(TypeOrder))
    <3>1. i = Len(TypeOrder)
      BY <1>0, <1>1, <2>3
    <3>2. handler' = [handler EXCEPT ![t] = Params!Idle]
      BY <2>3 DEF Params!TryType
    <3> HIDE DEF i, found
    <3> QED
      BY <2>3, <3>1, <3>2
  <2> QED
    BY <2>1, <2>2, <2>3
<1>3. UNCHANGED <<storage, version, delayed, matched, param_requested, samples, cache, got, overlap>>
  BY DEF Params!TryType
<1>4. /\ handler'[t] = next /\ \A u \in Params!Thread \ {t} : handler'[u] = handler[u]
      /\ handler' \in [Params!Thread -> {handler[u] : u \in Params!Thread} \cup {next}]
  BY <1>2 DEF ParamInv, ParamTypes
<1>5. ParamTypes'
  <2>1. next \in {Params!Idle} \cup {Params!Look(j) : j \in DOMAIN TypeOrder}
                   \cup [pc : {"write"}, param : Params!Parameter]
    <3>1. CASE \E p \in found : next = [pc |-> "write", param |-> p]
      BY <3>1 DEF ParamInv, ParamTypes
    <3>2. CASE i < Len(TypeOrder) /\ next = Params!Look(i + 1)
      BY <1>0, <1>1, <3>2
    <3> QED
      BY <1>2, <3>1, <3>2
  <2> QED
    BY <1>2, <1>3, <2>1 DEF ParamInv, ParamTypes
<1>6. Unmatched'
  BY <1>3 DEF ParamInv, Unmatched
<1>7. ASSUME Current PROVE Current'
  <2>1. \A u \in Params!Thread : handler'[u].pc = "write" => storage = {handler'[u].param}
    <3>1. next.pc = "write" => storage = {next.param}
      BY <1>2 DEF ParamInv, ParamTypes, Params!Look, Params!Idle
    <3> QED
      BY <1>4, <1>7, <3>1 DEF Current
  <2>2. CASE t # "gtk"
    <3>1. handler'["gtk"] = handler["gtk"]
      BY <1>4, <2>2 DEF Params!Thread
    <3> QED
      BY <1>3, <1>7, <2>1, <3>1 DEF Current, Ahead, Latest
  <2>3. CASE t = "gtk"
    <3>1. \A param \in storage : \E k \in DOMAIN TypeOrder : k >= i /\ TypeOrder[k] = param.type
      BY <1>1, <1>7, <2>3 DEF Current, Ahead
    <3>2. CASE \E p \in found : next = [pc |-> "write", param |-> p]
      <4>1. handler'["gtk"].pc = "write"
        BY <1>4, <2>3, <3>2
      <4> QED
        BY <1>3, <2>1, <4>1 DEF Current
    <3>3. CASE found = {} /\ i < Len(TypeOrder) /\ next = Params!Look(i + 1)
      <4>1. \A param \in storage : \E k \in DOMAIN TypeOrder : k >= i + 1 /\ TypeOrder[k] = param.type
        BY <1>0, <1>1, <3>1, <3>3
      <4>2. handler'["gtk"].pc = "look" /\ handler'["gtk"].at = i + 1
        BY <1>4, <2>3, <3>3 DEF Params!Look
      <4> QED
        BY <1>3, <2>1, <4>1, <4>2 DEF Current, Ahead
    <3>4. CASE found = {} /\ i = Len(TypeOrder) /\ next = Params!Idle
      <4>1. storage = {}
        BY <1>0, <1>1, <3>1, <3>4
      <4> QED
        BY <1>3, <2>1, <4>1 DEF Current
    <3> QED
      BY <1>2, <3>2, <3>3, <3>4
  <2> QED
    BY <2>2, <2>3
<1> QED
  BY <1>3, <1>5, <1>6, <1>7 DEF ParamInv

(* What a thread writes becomes the newest sample of all that are matched. *)
LEMMA WriteParameterStep ==
  ASSUME ParamInv, NEW t \in Params!Thread, Params!WriteParameter(t)
  PROVE  ParamInv'
<1> DEFINE param == handler[t].param
<1>1. handler[t].pc = "write" /\ param \in Params!Parameter
  BY HandlerStates DEF Params!WriteParameter, ParamInv
<1>2. /\ samples' = [p \in Program |-> IF p \in matched THEN Params!Put(samples[p], param)
                                       ELSE samples[p]]
      /\ handler' = [handler EXCEPT ![t] = Params!Idle]
      /\ UNCHANGED <<storage, version, delayed, matched, param_requested, cache, got, overlap>>
  BY DEF Params!WriteParameter
<1> HIDE DEF param
<1>3. ASSUME NEW p \in Program, p \in matched
      PROVE  /\ samples'[p] \in Seq(Params!Parameter) /\ samples'[p] # <<>>
             /\ Latest(p)' = param
  <2>1. samples[p] \in Seq(Params!Parameter) /\ samples'[p] = Params!Put(samples[p], param)
    BY <1>2, <1>3 DEF ParamInv, ParamTypes
  <2>2. CASE samples[p] # <<>> /\ samples[p][Len(samples[p])] = param
    BY <2>1, <2>2 DEF Params!Put, Latest
  <2>3. CASE ~(samples[p] # <<>> /\ samples[p][Len(samples[p])] = param)
    <3>1. samples'[p] = Append(samples[p], param)
      BY <2>1, <2>3 DEF Params!Put
    <3> QED
      BY <1>1, <2>1, <3>1 DEF Latest
  <2> QED
    BY <2>2, <2>3
<1>4. ASSUME NEW p \in Program, p \notin matched PROVE samples'[p] = samples[p]
  BY <1>2, <1>4
<1>5. ParamTypes'
  <2>1. samples' \in [Program -> Seq(Params!Parameter)]
    BY <1>2, <1>3, <1>4 DEF ParamInv, ParamTypes
  <2>2. handler' \in [Params!Thread -> {Params!Idle} \cup {Params!Look(i) : i \in DOMAIN TypeOrder}
                                     \cup [pc : {"write"}, param : Params!Parameter]]
    BY <1>2 DEF ParamInv, ParamTypes
  <2> QED
    BY <1>2, <2>1, <2>2 DEF ParamInv, ParamTypes
<1>6. Unmatched'
  BY <1>2, <1>4 DEF ParamInv, ParamTypes, Unmatched
<1>7. ASSUME Current PROVE Current'
  <2>1. storage = {param}
    BY <1>1, <1>7 DEF Current, param
  <2>2. /\ handler'[t] = Params!Idle /\ handler'[t].pc = "idle"
        /\ \A u \in Params!Thread \ {t} : handler'[u] = handler[u]
    BY <1>2 DEF ParamInv, ParamTypes, Params!Idle
  <2>3. \A u \in Params!Thread : handler'[u].pc = "write" => storage' = {handler'[u].param}
    BY <1>2, <1>7, <2>2 DEF Current
  <2>4. handler'["gtk"].pc = "look" => \A p \in storage' : Ahead("gtk", p)'
    BY <1>2, <1>7, <2>2 DEF Current, Ahead, Params!Thread
  <2>5. ASSUME handler'["gtk"].pc = "idle", NEW p \in Program
        PROVE  IF samples'[p] = <<>> THEN cache'[p][param.type] \in {0, param.value}
               ELSE Latest(p)' = param
    <3>1. CASE p \in matched
      BY <1>3, <3>1
    <3>2. CASE p \notin matched
      <4>1. param.type \in Params!Type
        BY <1>1 DEF Params!Parameter
      <4> QED
        BY <1>2, <1>4, <3>2, <4>1 DEF ParamInv, Unmatched
    <3> QED
      BY <3>1, <3>2
  <2> QED
    BY <1>2, <2>1, <2>3, <2>4, <2>5 DEF Current
<1> QED
  BY <1>2, <1>5, <1>6, <1>7 DEF ParamInv

(* The steps of a program, and of the network for it.                      *)
LEMMA ProgramStep ==
  ASSUME ParamInv, NEW p \in Program,
         \/ Params!RequestParam(p) \/ Params!Return(p) \/ Params!Match(p)
         \/ Params!Receive(p) \/ Params!Replace(p)
  PROVE  ParamInv'
<1>1. CASE Params!RequestParam(p) \/ Params!Return(p) \/ Params!Match(p)
  <2>1. UNCHANGED <<storage, version, handler, delayed, samples, cache, overlap>>
    BY <1>1 DEF Params!RequestParam, Params!Return, Params!Match
  <2>2. /\ matched' \subseteq Program /\ matched \subseteq matched'
        /\ param_requested' \in BOOLEAN
    BY <1>1 DEF Params!RequestParam, Params!Return, Params!Match, ParamInv, ParamTypes
  <2>3. got' \in [Program -> 0 .. Changes]
    <3>1. cache[p][Wanted[p]] \in 0 .. Changes
      BY ParameterAssumption DEF ParamInv, ParamTypes
    <3>2. got' = got \/ got' = [got EXCEPT ![p] = cache[p][Wanted[p]]]
      BY <1>1 DEF Params!RequestParam, Params!Return, Params!Match
    <3> QED
      BY <3>1, <3>2 DEF ParamInv, ParamTypes
  <2>4. ParamTypes'
    BY <2>1, <2>2, <2>3 DEF ParamInv, ParamTypes
  <2>5. Unmatched'
    BY <2>1, <2>2 DEF ParamInv, Unmatched
  <2>6. Current => Current'
    BY <2>1 DEF Current, Ahead, Latest
  <2> QED
    BY <2>1, <2>4, <2>5, <2>6 DEF ParamInv
<1>2. CASE Params!Receive(p) \/ Params!Replace(p)
  <2> DEFINE queue == samples[p]
             first == Head(queue)
  <2>1. /\ UNCHANGED <<storage, version, handler, delayed, matched, param_requested, got, overlap>>
        /\ samples' = [samples EXCEPT ![p] = Tail(queue)]
        /\ queue \in Seq(Params!Parameter) /\ queue # <<>>
        /\ p \in matched
    BY <1>2 DEF Params!Receive, Params!Replace, ParamInv, ParamTypes, Unmatched
  <2> HIDE DEF queue
  <2>2. /\ Tail(queue) \in Seq(Params!Parameter) /\ first \in Params!Parameter
        /\ Tail(queue) # <<>> => Tail(queue)[Len(Tail(queue))] = queue[Len(queue)]
        /\ Tail(queue) = <<>> => first = queue[Len(queue)]
    <3>1. Len(queue) \in Nat \ {0} /\ queue \in [1 .. Len(queue) -> Params!Parameter]
      BY <2>1
    <3>2. first \in Params!Parameter /\ first = queue[1]
      BY <2>1, <3>1
    <3>3. /\ Tail(queue) \in Seq(Params!Parameter) /\ Len(Tail(queue)) = Len(queue) - 1
          /\ \A j \in 1 .. Len(queue) - 1 : Tail(queue)[j] = queue[j + 1]
      BY <2>1, <3>1
    <3>4. Tail(queue) = <<>> => Len(queue) = 1
      <4>0. Len(<<>>) = 0
        OBVIOUS
      <4>1. Tail(queue) = <<>> => Len(Tail(queue)) = 0
        BY <4>0, Zenon
      <4> QED
        BY <3>1, <3>3, <4>1
    <3>5. Tail(queue) # <<>> => Len(queue) - 1 \in 1 .. Len(queue) - 1
      <4>1. Tail(queue) # <<>> => Len(Tail(queue)) \in Nat \ {0}
        BY <3>3
      <4> QED
        BY <3>1, <3>3, <4>1
    <3>6. Tail(queue) = <<>> => first = queue[Len(queue)]
      BY <3>2, <3>4
    <3>7. Tail(queue) # <<>> => Tail(queue)[Len(Tail(queue))] = queue[Len(queue)]
      <4>1. Tail(queue) # <<>> => Tail(queue)[Len(queue) - 1] = queue[(Len(queue) - 1) + 1]
        BY <3>3, <3>5
      <4>2. (Len(queue) - 1) + 1 = Len(queue)
        BY <3>1
      <4> QED
        BY <3>3, <4>1, <4>2
    <3> QED
      BY <3>2, <3>3, <3>6, <3>7
  <2>8. first.type \in Params!Type /\ first.value \in 0 .. Changes
    <3>1. first.type \in Params!Type /\ first.value \in 1 .. Changes
      BY <2>2 DEF Params!Parameter
    <3>2. \A value \in 1 .. Changes : value \in 0 .. Changes
      OBVIOUS
    <3> QED
      BY <3>1, <3>2
  <2>3. \/ UNCHANGED cache /\ Tail(queue) # <<>>
        \/ cache' = [cache EXCEPT ![p][first.type] = first.value]
    <3>1. CASE Params!Receive(p)
      BY <3>1 DEF Params!Receive, queue
    <3>2. CASE Params!Replace(p)
      <4>1. Len(queue) > 1 /\ UNCHANGED cache
        BY <3>2 DEF Params!Replace, queue
      <4>2. Len(Tail(queue)) = Len(queue) - 1
        BY <2>1, <4>1
      <4> QED
        BY <2>1, <4>1, <4>2
    <3> QED
      BY <1>2, <3>1, <3>2
  <2>4. /\ samples'[p] = Tail(queue)
        /\ \A q \in Program \ {p} : samples'[q] = samples[q] /\ cache'[q] = cache[q]
    BY <2>1, <2>3 DEF ParamInv, ParamTypes
  <2> HIDE DEF queue, first
  <2>5. ParamTypes'
    <3>1. samples' \in [Program -> Seq(Params!Parameter)]
      BY <2>1, <2>2 DEF ParamInv, ParamTypes
    <3>2. cache' \in [Program -> [Params!Type -> 0 .. Changes]]
      <4>1. /\ cache \in [Program -> [Params!Type -> 0 .. Changes]]
            /\ cache[p] \in [Params!Type -> 0 .. Changes]
        BY DEF ParamInv, ParamTypes
      <4> QED
        BY <2>3, <2>8, <4>1
    <3> QED
      BY <2>1, <3>1, <3>2 DEF ParamInv, ParamTypes
  <2>6. Unmatched'
    BY <2>1, <2>4 DEF ParamInv, Unmatched
  <2>7. ASSUME Current PROVE Current'
    <3>1. \A t \in Params!Thread : handler'[t].pc = "write" => storage' = {handler'[t].param}
      BY <2>1, <2>7 DEF Current
    <3>2. handler'["gtk"].pc = "look" => \A q \in storage' : Ahead("gtk", q)'
      BY <2>1, <2>7 DEF Current, Ahead
    <3>3. ASSUME handler'["gtk"].pc = "idle", NEW q \in Program, NEW param \in storage
          PROVE  IF samples'[q] = <<>> THEN cache'[q][param.type] \in {0, param.value}
                 ELSE Latest(q)' = param
      <4>1. CASE q # p
        BY <2>1, <2>4, <2>7, <3>3, <4>1 DEF Current, Latest
      <4>2. CASE q = p
        <5>1. queue[Len(queue)] = param
          BY <2>1, <2>7, <3>3 DEF Current, Latest, queue
        <5>2. CASE Tail(queue) # <<>>
          BY <2>2, <2>4, <4>2, <5>1, <5>2 DEF Latest
        <5>3. CASE Tail(queue) = <<>>
          <6>1. first = param /\ cache' = [cache EXCEPT ![p][first.type] = first.value]
            BY <2>2, <2>3, <5>1, <5>3
          <6>2. cache'[p][param.type] = param.value
            BY <2>8, <6>1 DEF ParamInv, ParamTypes
          <6> QED
            BY <2>4, <4>2, <5>3, <6>2
        <5> QED
          BY <5>2, <5>3
      <4> QED
        BY <4>1, <4>2
    <3> QED
      BY <2>1, <3>1, <3>2, <3>3 DEF Current
  <2> QED
    BY <2>1, <2>5, <2>6, <2>7 DEF ParamInv
<1> QED
  BY <1>1, <1>2

(* What UpToDate says follows from the invariant.                          *)
LEMMA ParamsUpToDate == ParamInv => UpToDate
<1> SUFFICES ASSUME ParamInv PROVE UpToDate
  OBVIOUS
<1>1. Params!TypeOK
  <2>1. storage \in {{}} \cup {{p} : p \in Params!Parameter}
    BY DEF ParamInv, ParamTypes
  <2>2. \A p \in Program : \A i \in DOMAIN samples[p] : samples[p][i] \in Params!Parameter
    BY DEF ParamInv, ParamTypes
  <2> QED
    BY <2>1, <2>2, Zenon DEF ParamInv, ParamTypes, Params!TypeOK
<1>2. Params!UpToDate
  <2>1. ASSUME Params!Quiet, ~overlap, NEW p \in Program, NEW param \in storage,
               samples[p] = <<>>, cache[p][param.type] # 0
        PROVE  cache[p][param.type] = param.value
    <3>1. handler["gtk"].pc = "idle"
      BY <2>1 DEF Params!Quiet, Params!Thread, Params!Idle
    <3> QED
      BY <2>1, <3>1 DEF ParamInv, Current
  <2> QED
    BY <2>1 DEF Params!UpToDate
<1> QED
  BY <1>1, <1>2 DEF UpToDate

(* Once everything is published and received, a program that has the       *)
(* parameter has its current value, unless a change came while another     *)
(* thread published.                                                       *)
THEOREM ParametersCorrect == Params!Spec => []UpToDate
<1>1. ParamInv /\ [Params!Next]_Params!vars => ParamInv'
  <2> SUFFICES ASSUME ParamInv, [Params!Next]_Params!vars PROVE ParamInv'
    OBVIOUS
  <2>1. CASE UNCHANGED Params!vars
    BY <2>1 DEF Params!vars, ParamInv, ParamTypes, Unmatched, Current, Ahead, Latest
  <2>2. CASE Params!Next
    BY <2>2, StoreStep, BeginStep, TryTypeStep, WriteParameterStep, ProgramStep
    DEF Params!Next, Params!ServerStep
  <2> QED
    BY <2>1, <2>2
<1> QED
  BY ParamInit, <1>1, ParamsUpToDate, PTL DEF Params!Spec

-----------------------------------------------------------------------------
(* RoundTrip                                                               *)

Pending == receive_times \cup reader

(* A message on its way is not older than the counter can tell, at most    *)
(* one answer waits at the mutex, and at most one of those accepted is old *)
(* once the vector was cleared.                                            *)
Answers ==
  /\ \A m \in requests \cup answers : m.round <= round /\ round < m.round + CountMod
  /\ \A m, n \in reader : m = n
  /\ measurer \in {"start", "poll", "settle"} =>
       \A m, n \in Pending : m.round # round /\ n.round # round => m = n

(* Measurements and what is stored of them are of this generation.         *)
Generations ==
  /\ measurer \notin {"off", "loop"} => begun = generation
  /\ \A i \in Rtt!received_ids : last[i] = generation

RttTypes ==
  /\ measurer \in {"off", "loop", "clear", "start", "poll", "settle", "publish"}
  /\ wait_count \in 0 .. MaxWait /\ requested \in BOOLEAN
  /\ round \in 0 .. Rounds /\ (measurer \in {"clear", "start"} => round >= 1)
  /\ receive_times \subseteq Rtt!Message /\ reader \subseteq Rtt!Message
  /\ requests \subseteq Rtt!Message /\ answers \subseteq Rtt!Message
  /\ results \subseteq Id
  /\ run_rtt_thread \in BOOLEAN /\ gtk_pc \in {"idle", "stop", "restart"}

Counters ==
  /\ restarts \in 0 .. Restarts
  /\ begun \in Nat /\ begun <= generation
  /\ generation \in Nat
  /\ generation <= restarts + 1
  /\ gtk_pc = "restart" => generation <= restarts

Statistics ==
  /\ Rtt!received_ids \subseteq Id
  /\ measure_count \in [Rtt!received_ids -> Nat]
  /\ DOMAIN missed_answers = Rtt!received_ids /\ DOMAIN last = Rtt!received_ids
  /\ \A i \in Rtt!received_ids :
       missed_answers[i] \in Nat /\ missed_answers[i] < measure_count[i]

RttInv == RttTypes /\ Counters /\ Statistics /\ Answers /\ Generations

(* No measurement has begun.                                               *)
LEMMA RttInit == Rtt!Init => RttInv
<1> SUFFICES ASSUME Rtt!Init PROVE RttInv
  OBVIOUS
<1>0. MaxWait \in Nat /\ Rounds \in Nat /\ Restarts \in Nat
  BY RoundTripAssumption
<1>1. RttTypes
  <2>1. /\ 0 \in 0 .. MaxWait /\ 0 \in 0 .. Rounds
        /\ measurer = "loop" /\ wait_count = 0 /\ round = 0
    BY <1>0 DEF Rtt!Init
  <2> QED
    BY <2>1 DEF Rtt!Init, RttTypes
<1>4. Counters
  BY <1>0 DEF Rtt!Init, Counters
<1>2. Statistics /\ Generations
  BY DEF Rtt!Init, Rtt!Empty, Rtt!received_ids, Statistics, Generations
<1>3. Answers
  BY DEF Rtt!Init, Answers, Pending
<1> QED
  BY <1>1, <1>2, <1>3, <1>4 DEF RttInv

(* A restart begins the next generation, once for each call.               *)
LEMMA CountersStep == ASSUME RttInv, Rtt!Next PROVE Counters'
<1> USE DEF RttInv, Counters, Rtt!tool, Rtt!network, Rtt!incoming, Rtt!statistics, Rtt!control
<1>0. Restarts \in Nat
  BY RoundTripAssumption
<1>1. CASE Rtt!MeasurerStep
  BY <1>0, <1>1 DEF Rtt!MeasurerStep, Rtt!LoopEnds, Rtt!IncrementCount, Rtt!Clear,
                  Rtt!SendRequest, Rtt!Poll, Rtt!Settle, Rtt!Publish
<1>2. ASSUME NEW m \in Rtt!Message, Rtt!Answer(m) \/ Rtt!Receive(m) \/ Rtt!Lose(m) PROVE Counters'
  BY <1>2 DEF Rtt!Answer, Rtt!Receive, Rtt!Lose
<1>3. CASE Rtt!Store
  BY <1>3 DEF Rtt!Store
<1>4. ASSUME NEW call \in {"stop", "restart"}, Rtt!DestroyThread(call) PROVE Counters'
  BY <1>0, <1>4 DEF Rtt!DestroyThread
<1>5. CASE Rtt!Joined
  <2>1. /\ UNCHANGED <<begun, restarts>> /\ gtk_pc' = "idle"
        /\ \/ generation' = generation
           \/ gtk_pc = "restart" /\ generation' = generation + 1
    BY <1>5 DEF Rtt!Joined, RttTypes
  <2> QED
    BY <1>0, <2>1
<1> QED
  BY <1>1, <1>2, <1>3, <1>4, <1>5 DEF Rtt!Next

(* Every variable keeps its type.                                          *)
LEMMA RttTypesStep == ASSUME RttInv, Rtt!Next PROVE RttTypes'
<1> USE RoundTripAssumption DEF RttInv, RttTypes, Rtt!tool, Rtt!network, Rtt!incoming,
                Rtt!statistics, Rtt!control
<1>1. CASE Rtt!MeasurerStep
  <2>1. CASE Rtt!LoopEnds \/ Rtt!IncrementCount \/ Rtt!Clear \/ Rtt!Poll
    BY <2>1 DEF Rtt!LoopEnds, Rtt!IncrementCount, Rtt!Clear, Rtt!Poll
  <2>2. CASE Rtt!SendRequest
    <3>1. requests' = requests \cup [id : Id, round : {round}] /\ round >= 1
      BY <2>2 DEF Rtt!SendRequest
    <3>2. requests' \subseteq Rtt!Message
      BY <3>1 DEF Rtt!Message
    <3> QED
      BY <2>2, <3>2 DEF Rtt!SendRequest
  <2>3. CASE Rtt!Settle
    BY <2>3 DEF Rtt!Settle, Rtt!Ids, Rtt!Message
  <2>4. CASE Rtt!Publish
    BY <2>4 DEF Rtt!Publish, Rtt!UpdateStatistics
  <2> QED
    BY <1>1, <2>1, <2>2, <2>3, <2>4 DEF Rtt!MeasurerStep
<1>2. ASSUME NEW m \in Rtt!Message, Rtt!Answer(m) \/ Rtt!Receive(m) \/ Rtt!Lose(m) PROVE RttTypes'
  BY <1>2 DEF Rtt!Answer, Rtt!Receive, Rtt!Lose
<1>3. CASE Rtt!Store
  BY <1>3 DEF Rtt!Store
<1>4. ASSUME NEW call \in {"stop", "restart"}, Rtt!DestroyThread(call) PROVE RttTypes'
  BY <1>4 DEF Rtt!DestroyThread
<1>5. CASE Rtt!Joined
  BY <1>5 DEF Rtt!Joined
<1> QED
  BY <1>1, <1>2, <1>3, <1>4, <1>5 DEF Rtt!Next

(* Statistics are updated by measurements of this generation only.         *)
LEMMA StatisticsStep == ASSUME RttInv, Rtt!Next PROVE Statistics' /\ Generations'
<1> USE DEF RttInv, Statistics, Generations, Rtt!tool, Rtt!network, Rtt!incoming,
            Rtt!statistics, Rtt!control, Rtt!received_ids
<1>1. CASE Rtt!MeasurerStep
  <2>1. CASE Rtt!Publish
    <3>1. PICK deleted \in SUBSET (Rtt!received_ids \ results) : Rtt!UpdateStatistics(deleted)
      BY <2>1 DEF Rtt!Publish
    <3> DEFINE ids == (Rtt!received_ids \cup results) \ deleted
    <3>2. /\ measure_count' = [i \in ids |-> IF i \in Rtt!received_ids THEN measure_count[i] + 1 ELSE 1]
          /\ missed_answers' = [i \in ids |->
               IF i \notin Rtt!received_ids THEN 0
               ELSE missed_answers[i] + IF i \in results THEN 0 ELSE 1]
          /\ last' = [i \in ids |-> IF i \in results THEN begun ELSE last[i]]
      BY <3>1 DEF Rtt!UpdateStatistics
    <3>3. ids \subseteq Id
      BY DEF RttTypes
    <3>4. measurer' = "loop" /\ generation' = generation /\ begun' = begun /\ begun = generation
      BY <2>1 DEF Rtt!Publish
    <3>5. ASSUME NEW i \in ids
          PROVE  /\ measure_count'[i] \in Nat /\ missed_answers'[i] \in Nat
                 /\ missed_answers'[i] < measure_count'[i]
                 /\ last'[i] = generation
      BY <3>2, <3>4, <3>5
    <3> HIDE DEF ids
    <3> QED
      BY <3>2, <3>3, <3>4, <3>5
  <2>2. CASE Rtt!LoopEnds \/ Rtt!IncrementCount \/ Rtt!Clear
    BY <2>2 DEF Rtt!LoopEnds, Rtt!IncrementCount, Rtt!Clear
  <2>3. CASE Rtt!SendRequest \/ Rtt!Poll \/ Rtt!Settle
    BY <2>3 DEF Rtt!SendRequest, Rtt!Poll, Rtt!Settle
  <2> QED
    BY <1>1, <2>1, <2>2, <2>3 DEF Rtt!MeasurerStep
<1>2. ASSUME NEW m \in Rtt!Message, Rtt!Answer(m) \/ Rtt!Receive(m) \/ Rtt!Lose(m)
      PROVE  Statistics' /\ Generations'
  BY <1>2 DEF Rtt!Answer, Rtt!Receive, Rtt!Lose
<1>3. CASE Rtt!Store
  BY <1>3 DEF Rtt!Store
<1>4. ASSUME NEW call \in {"stop", "restart"}, Rtt!DestroyThread(call)
      PROVE  Statistics' /\ Generations'
  BY <1>4 DEF Rtt!DestroyThread
<1>5. CASE Rtt!Joined
  BY <1>5 DEF Rtt!Joined, Rtt!Empty
<1> QED
  BY <1>1, <1>2, <1>3, <1>4, <1>5 DEF Rtt!Next

(* The counter tells the answers of this measurement from all others that  *)
(* are still on their way.                                                 *)
LEMMA AnswersStep == ASSUME RttInv, Rtt!Next PROVE Answers'
<1> USE RoundTripAssumption DEF Rtt!tool, Rtt!network, Rtt!incoming, Rtt!statistics, Rtt!control
<1>0. /\ round \in Nat /\ CountMod \in Nat \ {0}
      /\ \A m \in receive_times \cup reader \cup requests \cup answers : m \in Rtt!Message
      /\ \A m \in Rtt!Message : m.round \in Nat /\ m.round >= 1
  BY DEF RttInv, RttTypes, Rtt!Message
<1>1. CASE Rtt!MeasurerStep /\ (Rtt!Travels \/ round' = round)
  <2>1. CASE Rtt!IncrementCount
    BY <1>0, <1>1, <2>1 DEF RttInv, Answers, Pending, Rtt!IncrementCount, Rtt!Travels
  <2>2. CASE Rtt!Clear
    BY <1>0, <2>2 DEF RttInv, Answers, Pending, Rtt!Clear
  <2>3. CASE Rtt!SendRequest
    <3>1. /\ requests' = requests \cup [id : Id, round : {round}]
          /\ \A m \in [id : Id, round : {round}] : m.round = round
          /\ UNCHANGED <<round, answers, receive_times, reader>>
          /\ measurer = "start"
      BY <2>3 DEF Rtt!SendRequest
    <3> QED
      BY <1>0, <3>1 DEF RttInv, Answers, Pending
  <2>4. CASE Rtt!LoopEnds \/ Rtt!Publish
    BY <2>4 DEF RttInv, Answers, Pending, Rtt!LoopEnds, Rtt!Publish
  <2>5. CASE Rtt!Poll \/ Rtt!Settle
    BY <2>5 DEF RttInv, Answers, Pending, Rtt!Poll, Rtt!Settle
  <2> QED
    BY <1>1, <2>1, <2>2, <2>3, <2>4, <2>5 DEF Rtt!MeasurerStep
<1>2. ASSUME NEW m \in Rtt!Message, Rtt!Receive(m) PROVE Answers'
  <2>1. CASE Rtt!Accepted(m)
    <3>1. m.round % CountMod = round % CountMod /\ m.round <= round /\ round < m.round + CountMod
      BY <1>2, <2>1 DEF RttInv, Answers, Rtt!Receive, Rtt!Accepted
    <3>2. m.round = round
      BY <1>0, <3>1, SmallModulus
    <3> QED
      BY <1>2, <2>1, <3>2 DEF RttInv, Answers, Pending, Rtt!Receive
  <2>2. CASE ~Rtt!Accepted(m)
    BY <1>2, <2>2 DEF RttInv, Answers, Pending, Rtt!Receive
  <2> QED
    BY <2>1, <2>2
<1>3. ASSUME NEW m \in Rtt!Message, Rtt!Answer(m) \/ Rtt!Lose(m) PROVE Answers'
  BY <1>3 DEF RttInv, Answers, Pending, Rtt!Answer, Rtt!Lose
<1>4. CASE Rtt!Store
  BY <1>4 DEF RttInv, Answers, Pending, Rtt!Store
<1>5. ASSUME NEW call \in {"stop", "restart"}, Rtt!DestroyThread(call) PROVE Answers'
  BY <1>5 DEF RttInv, Answers, Pending, Rtt!DestroyThread
<1>6. CASE Rtt!Joined
  BY <1>6 DEF RttInv, Answers, Pending, Rtt!Joined
<1> QED
  BY <1>1, <1>2, <1>3, <1>4, <1>5, <1>6 DEF Rtt!Next

(* What MeasurementsFresh says follows from the invariant.                 *)
LEMMA RttFresh == RttInv => MeasurementsFresh
<1> SUFFICES ASSUME RttInv PROVE MeasurementsFresh
  OBVIOUS
<1>1. Rtt!TypeOK
  <2>2. \A i \in Rtt!received_ids : missed_answers[i] \in 0 .. measure_count[i] - 1
    BY DEF RttInv, Statistics
  <2>3. {generation, begun, restarts} \subseteq 0 .. Restarts + 1
    BY RoundTripAssumption DEF RttInv, Counters
  <2> QED
    BY <2>2, <2>3, Zenon DEF RttInv, RttTypes, Counters, Answers, Statistics, Rtt!TypeOK
<1>2. Rtt!AtMostOneStale
  BY DEF RttInv, Answers, Pending, Rtt!AtMostOneStale
<1>3. Rtt!FreshAfterRestart
  BY DEF RttInv, Statistics, Generations, Rtt!FreshAfterRestart
<1> QED
  BY <1>1, <1>2, <1>3 DEF MeasurementsFresh

(* At most one old answer gets into a measurement, and what is stored is   *)
(* of measurements since the last restart.                                 *)
THEOREM RoundTripCorrect == Rtt!Spec => []MeasurementsFresh
<1>1. RttInv /\ [Rtt!Next]_Rtt!vars => RttInv'
  <2> SUFFICES ASSUME RttInv, [Rtt!Next]_Rtt!vars PROVE RttInv'
    OBVIOUS
  <2>1. CASE UNCHANGED Rtt!vars
    BY <2>1 DEF Rtt!vars, Rtt!tool, Rtt!network, Rtt!incoming, Rtt!statistics, Rtt!control,
                RttInv, RttTypes, Counters, Statistics, Answers, Pending, Generations, Rtt!received_ids
  <2> QED
    BY <2>1, RttTypesStep, CountersStep, StatisticsStep, AnswersStep DEF RttInv
<1> QED
  BY RttInit, <1>1, RttFresh, PTL DEF Rtt!Spec

-----------------------------------------------------------------------------
(* LogView                                                                 *)

(* A search is for the text, and nobody has told it to give up, whenever   *)
(* the GTK thread is free; while that waits in kill_search_thread the old  *)
(* search may still finish.                                                *)
SearchInv ==
  /\ \A s \in searches : "filter" \in DOMAIN s
  /\ search_future.state = "ready" =>
       search_future.aborted \in BOOLEAN
       /\ \A l \in search_future.found : l \in Matches[search_future.filter]
  /\ filter_active \in BOOLEAN
  /\ (l_gtk = "free" /\ filter_active) =>
       search_thread_running /\ \A s \in searches : s.filter = text
  /\ l_gtk = "stop" => ~filter_active
  /\ l_gtk \in {"free", "stop", "search"}
  /\ LogList!SearchIsForText

(* Nothing is searched for.                                                *)
LEMMA SearchInit == LogList!Init => SearchInv
<1> SUFFICES ASSUME LogList!Init PROVE SearchInv
  OBVIOUS
<1>1. /\ search_future.state = "pending" /\ searches = {}
      /\ filter_active = FALSE /\ l_gtk = "free"
  BY DEF LogList!Init
<1> QED
  BY <1>1 DEF SearchInv, LogList!SearchIsForText

(* The thread of a search ends with what its filter found, or gives up     *)
(* when it was told to.                                                    *)
LEMMA SearchThreadStep == ASSUME SearchInv, LogList!SearchStep PROVE SearchInv'
<1>1. PICK s \in searches : LogList!Copy(s) \/ LogList!SetValue(s)
  BY DEF LogList!SearchStep
<1>2. UNCHANGED <<search_thread_running, text, filter_active, list, shows, l_gtk>>
  BY DEF LogList!SearchStep, LogList!entry, LogList!view
<1>4. CASE LogList!Copy(s)
  <2> DEFINE copy == [s EXCEPT !.copied = TRUE, !.level = log_level, !.copy = log_storage]
  <2>1. searches' = (searches \ {s}) \cup {copy} /\ UNCHANGED search_future
    BY <1>4 DEF LogList!Copy
  <2>2. "filter" \in DOMAIN copy /\ copy.filter = s.filter
    BY <1>1 DEF SearchInv
  <2> HIDE DEF copy
  <2>3. \A r \in searches' : "filter" \in DOMAIN r
    BY <2>1, <2>2 DEF SearchInv
  <2>4. (\A r \in searches : r.filter = text) => \A r \in searches' : r.filter = text
    BY <1>1, <2>1, <2>2
  <2> QED
    BY <1>2, <2>1, <2>3, <2>4 DEF SearchInv, LogList!SearchIsForText
<1>5. CASE LogList!SetValue(s)
  <2>1. /\ searches' = searches \ {s}
        /\ search_future'.state = "ready" /\ search_future'.filter = s.filter
        /\ search_future'.aborted \in BOOLEAN
        /\ search_future'.aborted => ~search_thread_running
        /\ \A l \in search_future'.found : l \in Matches[s.filter]
    <3>1. \A l \in LogList!Found(s) : l \in Matches[s.filter]
      BY DEF LogList!Found, LogList!Newest
    <3>2. CASE search_future' =
                 [state |-> "ready", filter |-> s.filter, found |-> LogList!Found(s), aborted |-> FALSE]
      BY <1>5, <3>1, <3>2 DEF LogList!SetValue
    <3>3. CASE /\ ~search_thread_running
               /\ search_future' =
                    [state |-> "ready", filter |-> s.filter, found |-> {}, aborted |-> TRUE]
      BY <1>5, <3>3 DEF LogList!SetValue
    <3> QED
      BY <1>5, <3>2, <3>3 DEF LogList!SetValue
  <2> QED
    BY <1>1, <1>2, <2>1 DEF SearchInv, LogList!SearchIsForText
<1> QED
  BY <1>1, <1>4, <1>5

(* The GTK thread handles a click.                                         *)
LEMMA UserStep ==
  ASSUME SearchInv, NEW filter,
         LogList!Type(filter) \/ LogList!StopSearch \/ LogList!OnLogLevelChanged \/ LogList!Reset
  PROVE  SearchInv'
<1> USE DEF LogList!Click, LogList!storage, LogList!view, LogList!search, LogList!entry
<1>1. CASE LogList!Type(filter)
  BY <1>1 DEF LogList!Type, SearchInv, LogList!SearchIsForText
<1>2. CASE LogList!StopSearch
  BY <1>2 DEF LogList!StopSearch, SearchInv, LogList!SearchIsForText
<1>3. CASE LogList!OnLogLevelChanged
  BY <1>3 DEF LogList!OnLogLevelChanged, SearchInv, LogList!SearchIsForText
<1>4. CASE LogList!Reset
  BY <1>4 DEF LogList!Reset, SearchInv, LogList!SearchIsForText
<1> QED
  BY <1>1, <1>2, <1>3, <1>4

(* A new search starts when the last one has ended.                        *)
LEMMA KilledStep == ASSUME SearchInv, LogList!Killed PROVE SearchInv'
<1> USE DEF LogList!storage, LogList!view, LogList!search, LogList!entry
<1>1. CASE l_gtk = "search"
  <2>1. /\ searches' = {[filter |-> text, level |-> 0, copied |-> FALSE, copy |-> {}]}
        /\ search_thread_running' = TRUE /\ search_future' = [state |-> "pending"]
        /\ l_gtk' = "free"
        /\ UNCHANGED <<text, filter_active, list, shows>>
    BY <1>1 DEF LogList!Killed, LogList!JoinSearch
  <2>2. search_future'.state = "pending" /\ \A s \in searches' : s.filter = text'
    BY <2>1
  <2>3. \A s \in searches' : "filter" \in DOMAIN s
    BY <2>1
  <2> QED
    BY <2>1, <2>2, <2>3 DEF SearchInv, LogList!SearchIsForText
<1>2. CASE l_gtk # "search"
  BY <1>2 DEF LogList!Killed, SearchInv, LogList!SearchIsForText
<1> QED
  BY <1>1, <1>2

(* The GTK thread shows something.                                         *)
LEMMA DispatcherStep == ASSUME SearchInv, LogList!DispatcherCallback PROVE SearchInv'
<1>1. /\ UNCHANGED <<searches, search_thread_running, text, filter_active, l_gtk>>
      /\ l_gtk = "free"
  BY DEF LogList!DispatcherCallback, LogList!entry
<1>2. CASE LogList!ShowReset
  <2>1. list' = LogList!Nothing /\ UNCHANGED <<search_future, shows>>
    BY <1>2 DEF LogList!ShowReset
  <2>2. \A l \in LogList!Logs : ~(list'[l] > 0)
    BY <2>1 DEF LogList!Nothing
  <2> QED
    BY <1>1, <2>1, <2>2 DEF SearchInv, LogList!SearchIsForText
<1>3. CASE LogList!ShowLogs
  BY <1>1, <1>3 DEF LogList!ShowLogs, SearchInv, LogList!SearchIsForText
<1>4. CASE LogList!ShowSearch
  <2>1. CASE search_future.state = "invalid" /\ UNCHANGED <<list, shows, search_future>>
    BY <1>1, <2>1 DEF SearchInv, LogList!SearchIsForText
  <2>2. CASE search_future.state = "pending" /\ UNCHANGED search_future
    BY <1>1, <2>2 DEF SearchInv, LogList!SearchIsForText
  <2>3. CASE /\ search_future.state = "ready" /\ search_future' = [state |-> "invalid"]
             /\ list' = LogList!With(search_future.found) /\ shows' = search_future.filter
    <3>1. search_future'.state = "invalid" /\ filter_active
      BY <1>4, <2>3 DEF LogList!ShowSearch
    <3>2. shows' = text
      BY <1>1, <2>3, <3>1 DEF SearchInv, LogList!SearchIsForText
    <3>3. \A l \in LogList!Logs : list'[l] > 0 => l \in Matches[text]
      BY <1>1, <2>3, <3>1 DEF SearchInv, LogList!SearchIsForText, LogList!With
    <3> QED
      BY <1>1, <3>1, <3>2, <3>3 DEF SearchInv, LogList!SearchIsForText
  <2> QED
    BY <1>4, <2>1, <2>2, <2>3 DEF LogList!ShowSearch
<1> QED
  BY <1>2, <1>3, <1>4 DEF LogList!DispatcherCallback

-----------------------------------------------------------------------------
(* The rows of the list                                                    *)

(* The library module that LogView extends is the one of the theorems.     *)
LEMMA SameCardinality == ASSUME NEW S PROVE LogList!Cardinality(S) = Cardinality(S)
BY Zenon DEF LogList!Cardinality, Cardinality

(* The sum over a set of rows, by recursion over its subsets.              *)
IsSum(w, S, f) ==
  /\ \A s \in SUBSET S : s # {} => \E x \in s : w[s] = f[x] + w[s \ {x}]
  /\ w[{}] = 0

(* There is such a function, and what SumFunctionOnSet computes is its     *)
(* value for the whole set.                                                *)
LEMMA SumIs ==
  ASSUME NEW S, IsFiniteSet(S), NEW f, \A x \in S : f[x] \in Nat
  PROVE  \E w : IsSum(w, S, f) /\ LogList!SumFunctionOnSet(f, S) = w[S]
<1> DEFINE choose == [s \in SUBSET S |-> CHOOSE x \in s : TRUE]
           step == [d \in Nat |-> [x \in S |-> f[x] + d]]
           F == CHOOSE g : g = [s \in SUBSET S |->
                  IF s = {} THEN 0
                  ELSE f[CHOOSE x \in s : TRUE] + g[s \ {CHOOSE x \in s : TRUE}]]
<1>1. \A s \in SUBSET S : s # {} => choose[s] \in s
  OBVIOUS
<1>2. \A d \in Nat, x \in S : step[d][x] = f[x] + d
  OBVIOUS
<1>3. \A d \in Nat, x \in S : step[d][x] \in Nat
  <2> HIDE DEF step
  <2> QED
    BY <1>2
<1>4. PICK w : IsFold(w, S, Nat, 0, choose, step)
  <2> HIDE DEF choose, step
  <2>1. 0 \in Nat
    OBVIOUS
  <2> QED
    BY <1>1, <1>3, <2>1, Recursion
<1>5. \A s \in SUBSET S : choose[s] = CHOOSE x \in s : TRUE
  BY Zenon
<1> HIDE DEF choose, step
<1>6. w \in [SUBSET S -> Nat]
  BY <1>4 DEF IsFold
<1>7. \A s \in SUBSET S : s # {} =>
        choose[s] \in s /\ choose[s] \in S /\ s \ {choose[s]} \in SUBSET S
  BY <1>1
<1>8. \A s \in SUBSET S : w[s] = IF s = {} THEN 0 ELSE f[choose[s]] + w[s \ {choose[s]}]
  <2> SUFFICES ASSUME NEW s \in SUBSET S
               PROVE  w[s] = IF s = {} THEN 0 ELSE f[choose[s]] + w[s \ {choose[s]}]
    OBVIOUS
  <2>1. w[s] = IF s = {} THEN 0 ELSE step[w[s \ {choose[s]}]][choose[s]]
    BY <1>4 DEF IsFold
  <2>2. s # {} => step[w[s \ {choose[s]}]][choose[s]] = f[choose[s]] + w[s \ {choose[s]}]
    BY <1>2, <1>6, <1>7
  <2> QED
    BY <2>1, <2>2
<1>9. w = [s \in SUBSET S |->
             IF s = {} THEN 0
             ELSE f[CHOOSE x \in s : TRUE] + w[s \ {CHOOSE x \in s : TRUE}]]
  BY <1>5, <1>6, <1>8, Zenon
<1>10. F = [s \in SUBSET S |->
              IF s = {} THEN 0
              ELSE f[CHOOSE x \in s : TRUE] + F[s \ {CHOOSE x \in s : TRUE}]]
  BY <1>9, Zenon
<1>11. LogList!SumFunctionOnSet(f, S) = F[S]
  BY Zenon DEF LogList!SumFunctionOnSet, LogList!FoldFunctionOnSet, LogList!MapThenFoldSet
<1> HIDE DEF F
<1>12. ASSUME NEW s \in SUBSET S, s # {} PROVE \E x \in s : F[s] = f[x] + F[s \ {x}]
  <2>1. (CHOOSE x \in s : TRUE) \in s
    BY <1>12
  <2>2. F[s] = f[CHOOSE x \in s : TRUE] + F[s \ {CHOOSE x \in s : TRUE}]
    BY <1>10, <1>12, Zenon
  <2> QED
    BY <2>1, <2>2
<1>13. F[{}] = 0
  BY <1>10, {} \in SUBSET S, Zenon
<1> QED
  BY <1>11, <1>12, <1>13, Zenon DEF IsSum

(* The rows of the logs after l fill no more than c times the places that  *)
(* there are for received logs, if none is listed more than c times.       *)
LEMMA SumBound ==
  ASSUME NEW n \in Nat, NEW r \in 0 .. n, NEW l \in 1 .. n, NEW c \in {1, 2}, NEW f,
         \A k \in 1 .. n : f[k] \in Nat /\ f[k] <= c /\ (k > r => f[k] = 0)
  PROVE  LET sum == LogList!SumFunctionOnSet(f, {k \in 1 .. n : k > l})
         IN /\ sum \in Nat
            /\ l <= r => sum <= c * (r - l)
<1> DEFINE S == {k \in 1 .. n : k > l}
           R == 1 .. r
           size(s) == Cardinality(s \cap R)
<1>1. IsFiniteSet(1 .. n)
  BY FS_Interval
<1>2. S \in SUBSET (1 .. n)
  OBVIOUS
<1>3. IsFiniteSet(S)
  <2> HIDE DEF S
  <2> QED
    BY <1>1, <1>2, FS_Subset
<1>4. \A s \in SUBSET S : IsFiniteSet(s) /\ IsFiniteSet(s \cap R)
  <2> SUFFICES ASSUME NEW s \in SUBSET S PROVE IsFiniteSet(s) /\ IsFiniteSet(s \cap R)
    OBVIOUS
  <2>1. IsFiniteSet(s)
    BY <1>3, FS_Subset
  <2> QED
    BY <2>1, FS_Intersection
<1>5. \A x \in S : f[x] \in Nat
  OBVIOUS
<1>6. PICK w : IsSum(w, S, f) /\ LogList!SumFunctionOnSet(f, S) = w[S]
  <2> HIDE DEF S
  <2> QED
    BY <1>3, <1>5, SumIs
<1> DEFINE Good == {k \in Nat : \A s \in SUBSET S :
                      Cardinality(s) = k => w[s] \in Nat /\ w[s] <= c * size(s)}
<1>7. 0 \in Good
  <2> SUFFICES ASSUME NEW s \in SUBSET S, Cardinality(s) = 0
               PROVE  w[s] \in Nat /\ w[s] <= c * size(s)
    OBVIOUS
  <2>1. s = {}
    BY <1>4, FS_EmptySet
  <2>2. w[s] = 0
    BY <1>6, <2>1 DEF IsSum
  <2>3. s \cap R = {}
    BY <2>1
  <2>4. size(s) = 0
    BY <2>3, FS_EmptySet
  <2> QED
    BY <2>2, <2>4
<1>8. ASSUME NEW k \in Nat, k \in Good PROVE k + 1 \in Good
  <2> SUFFICES ASSUME NEW s \in SUBSET S, Cardinality(s) = k + 1
               PROVE  w[s] \in Nat /\ w[s] <= c * size(s)
    OBVIOUS
  <2>1. s # {}
    <3>1. s = {} => Cardinality(s) = 0
      BY FS_EmptySet
    <3> QED
      BY <3>1
  <2>2. PICK x \in s : w[s] = f[x] + w[s \ {x}]
    BY <1>6, <2>1 DEF IsSum
  <2> DEFINE rest == s \ {x}
  <2>3. rest \in SUBSET S /\ Cardinality(rest) = k
    <3>1. Cardinality(s \ {x}) = Cardinality(s) - 1
      BY <1>4, FS_RemoveElement
    <3> QED
      BY <3>1
  <2>4. w[rest] \in Nat /\ w[rest] <= c * size(rest)
    BY <1>8, <2>3
  <2>5. x \in 1 .. n /\ f[x] \in Nat /\ f[x] <= c /\ (x \notin R => f[x] = 0)
    OBVIOUS
  <2>6. rest \cap R = (s \cap R) \ {x}
    OBVIOUS
  <2>7. size(rest) = IF x \in R THEN size(s) - 1 ELSE size(s)
    <3>1. Cardinality((s \cap R) \ {x}) =
            IF x \in s \cap R THEN Cardinality(s \cap R) - 1 ELSE Cardinality(s \cap R)
      BY <1>4, FS_RemoveElement
    <3> QED
      BY <2>6, <3>1
  <2>8. size(s) \in Nat /\ size(rest) \in Nat
    <3>1. rest \in SUBSET S
      BY <2>3
    <3> QED
      BY <1>4, <3>1, FS_CardinalityType
  <2> HIDE DEF size, rest
  <2>9. w[s] = f[x] + w[rest]
    BY <2>2 DEF rest
  <2> QED
    BY <2>4, <2>5, <2>7, <2>8, <2>9
<1>9. IsFiniteSet(S) /\ Cardinality(S) \in Nat /\ S \in SUBSET S
  BY <1>3, FS_CardinalityType
<1>10. w[S] \in Nat /\ w[S] <= c * size(S)
  <2>1. Cardinality(S) \in Good
    <3> HIDE DEF Good, S
    <3> QED
      BY <1>7, <1>8, <1>9, Induct
  <2> HIDE DEF S, size
  <2> QED
    BY <1>9, <2>1
<1>11. l <= r => size(S) = r - l
  <2> SUFFICES ASSUME l <= r PROVE size(S) = r - l
    OBVIOUS
  <2>1. S \cap R = l + 1 .. r
    OBVIOUS
  <2>2. Cardinality(l + 1 .. r) = IF l + 1 > r THEN 0 ELSE r - (l + 1) + 1
    BY FS_Interval
  <2>3. Cardinality(l + 1 .. r) = r - l
    BY <2>2
  <2> QED
    BY <2>1, <2>3
<1> HIDE DEF size
<1> QED
  BY <1>6, <1>10, <1>11

(* The newest of an interval of logs.                                      *)
LEMMA NewestOf ==
  ASSUME NEW a \in Nat, NEW r \in Nat, NEW count \in Nat
  PROVE  LogList!Newest(a + 1 .. r, count) = {l \in a + 1 .. r : r - l < count}
<1>1. ASSUME NEW l \in a + 1 .. r PROVE Cardinality({k \in a + 1 .. r : k > l}) = r - l
  <2>1. {k \in a + 1 .. r : k > l} = l + 1 .. r
    OBVIOUS
  <2>2. Cardinality(l + 1 .. r) = IF l + 1 > r THEN 0 ELSE r - (l + 1) + 1
    BY FS_Interval
  <2>3. Cardinality(l + 1 .. r) = r - l
    BY <2>2
  <2> QED
    BY <2>1, <2>3, Zenon
<1>2. LogList!Newest(a + 1 .. r, count) =
        {l \in a + 1 .. r : Cardinality({k \in a + 1 .. r : k > l}) < count}
  BY SameCardinality, Zenon DEF LogList!Newest
<1> QED
  BY <1>1, <1>2

(* What is among the newest of some logs is among the newest of fewer.     *)
LEMMA NewestOfFewer ==
  ASSUME NEW logs, IsFiniteSet(logs), logs \subseteq Nat, NEW few \in SUBSET logs, NEW count \in Nat,
         NEW l \in few, l \in LogList!Newest(logs, count)
  PROVE  l \in LogList!Newest(few, count)
<1> DEFINE after(s) == {k \in s : k > l}
<1>1. after(few) \in SUBSET after(logs)
  OBVIOUS
<1>2. IsFiniteSet(after(logs))
  BY FS_Subset
<1>3. /\ Cardinality(after(few)) <= Cardinality(after(logs))
      /\ Cardinality(after(few)) \in Nat /\ Cardinality(after(logs)) \in Nat
  <2>1. IsFiniteSet(after(few))
    BY <1>1, <1>2, FS_Subset
  <2> HIDE DEF after
  <2> QED
    BY <1>1, <1>2, <2>1, FS_Subset, FS_CardinalityType
<1>4. Cardinality(after(logs)) < count
  BY SameCardinality, Zenon DEF LogList!Newest
<1>5. Cardinality(after(few)) < count
  BY <1>3, <1>4
<1> QED
  BY <1>5, SameCardinality, Zenon DEF LogList!Newest

(* The rows that stay of a log: some if there are any and room for them.   *)
LEMMA RowsThatStay ==
  ASSUME NEW x \in Nat, NEW y \in Int
  PROVE  LET z == LogList!Max({0, LogList!Min({x, y})})
         IN z \in Nat /\ z <= x /\ (x > 0 /\ y > 0 => z > 0)
<1>1. LogList!Min({x, y}) = IF x <= y THEN x ELSE y
  BY DEF LogList!Min
<1> DEFINE m == LogList!Min({x, y})
<1>2. m \in Int
  BY <1>1
<1> HIDE DEF m
<1>3. LogList!Max({0, m}) = IF m > 0 THEN m ELSE 0
  BY <1>2 DEF LogList!Max
<1> QED
  BY <1>1, <1>2, <1>3 DEF m

-----------------------------------------------------------------------------
(* The list                                                                *)

(* The search entry is empty.                                              *)
NoText == ""

(* Types, with the logs that a search has looked at among those received.  *)
LogTypes ==
  /\ l_received \in 0 .. Len(LevelOf) /\ old \in 0 .. l_received
  /\ log_level \in LogList!Level
  /\ text \in LogList!Filter \cup {NoText} /\ (l_gtk = "search" => text \in LogList!Filter)
  /\ filter_active \in BOOLEAN /\ search_reset \in BOOLEAN /\ reset_logs \in BOOLEAN
  /\ l_gtk \in {"free", "stop", "search"} /\ search_thread_running \in BOOLEAN
  /\ searches \subseteq [filter : LogList!Filter, level : LogList!Level \cup {0},
                         copied : BOOLEAN, copy : SUBSET (1 .. l_received)]
  /\ search_future \in [state : {"invalid", "pending"}]
       \cup [state : {"ready"}, filter : LogList!Filter, found : SUBSET (1 .. l_received),
             aborted : BOOLEAN]
  /\ list \in [LogList!Logs -> Nat] /\ shows \in {"logs", "searching"} \cup LogList!Filter
  /\ clicks \in 0 .. Clicks /\ renewed \in BOOLEAN

(* The logs after the a-th are stored, and those after the b-th have still *)
(* to be listed; of these a reset has left only what came after it.        *)
Kept(a, b) ==
  /\ a \in old .. l_received /\ b \in a .. l_received
  /\ log_storage = a + 1 .. l_received /\ log_buffer = b + 1 .. l_received
  /\ l_received - a <= MaxStorage /\ l_received - b <= MaxBuffer
  /\ reset_logs => b = a \/ l_received - b = MaxBuffer

(* The list is of the newest logs, and of the level.                       *)
Plain == ~filter_active /\ ~search_reset
Times == IF renewed THEN 2 ELSE 1
Rows ==
  /\ \A l \in LogList!Logs : list[l] <= Times /\ (l > l_received => list[l] = 0)
  /\ Plain => shows = "logs"
  /\ LogList!OldLogsGone

(* What has still to be listed may be listed once more; what has not, and  *)
(* is among the newest, is listed.                                         *)
Room == IF renewed THEN max_log_amount \div 2 ELSE max_log_amount
Complete(a, b) ==
  /\ \A l \in b + 1 .. l_received :
       (renewed => list[l] <= 1) /\ (~renewed /\ Plain => list[l] = 0)
  /\ Plain /\ ~reset_logs =>
       \A l \in a + 1 .. b : LevelOf[l] <= log_level /\ l_received - l < Room => list[l] > 0

LogInv == LogTypes /\ SearchInv /\ Rows /\ \E a \in Nat, b \in Nat : Kept(a, b) /\ Complete(a, b)

(* The logs are numbers.                                                   *)
LEMMA LogsAre ==
  /\ Len(LevelOf) \in Nat /\ LogList!Logs = 1 .. Len(LevelOf)
  /\ LogList!Cardinality(LogList!Logs) = Len(LevelOf)
<1>1. Len(LevelOf) \in Nat /\ LogList!Logs = 1 .. Len(LevelOf)
  BY LogAssumption DEF LogList!Logs
<1>2. Cardinality(1 .. Len(LevelOf)) = IF 1 > Len(LevelOf) THEN 0 ELSE Len(LevelOf) - 1 + 1
  BY <1>1, FS_Interval
<1>3. Cardinality(1 .. Len(LevelOf)) = Len(LevelOf)
  BY <1>1, <1>2
<1>4. LogList!Cardinality(LogList!Logs) = Cardinality(LogList!Logs)
  BY SameCardinality
<1> QED
  BY <1>1, <1>3, <1>4

(* Nothing has been received.                                              *)
LEMMA LogInit == LogList!Init => LogInv
<1> SUFFICES ASSUME LogList!Init PROVE LogInv
  OBVIOUS
<1>0. /\ l_received = 0 /\ log_storage = {} /\ log_buffer = {} /\ log_level = 1
      /\ filter_active = FALSE /\ search_reset = FALSE /\ reset_logs = FALSE
      /\ text = NoText /\ l_gtk = "free" /\ searches = {} /\ search_thread_running = FALSE
      /\ search_future = [state |-> "pending"] /\ list = LogList!Nothing /\ shows = "logs"
      /\ clicks = 0 /\ old = 0 /\ renewed = FALSE
  BY Zenon DEF LogList!Init, NoText
<1>4. search_future \in [state : {"invalid", "pending"}]
  BY <1>0
<1>1. LogTypes
  <2>1. log_level \in LogList!Level
    BY <1>0 DEF LogList!Level
  <2>2. list \in [LogList!Logs -> Nat]
    BY <1>0 DEF LogList!Nothing
  <2>3. l_received \in 0 .. Len(LevelOf) /\ clicks \in 0 .. Clicks
    BY <1>0, LogsAre, LogAssumption
  <2>4. old \in 0 .. l_received
    BY <1>0
  <2>5. searches \subseteq [filter : LogList!Filter, level : LogList!Level \cup {0},
                            copied : BOOLEAN, copy : SUBSET (1 .. l_received)]
    BY <1>0
  <2>6. /\ text \in LogList!Filter \cup {NoText} /\ l_gtk = "free"
        /\ filter_active \in BOOLEAN /\ search_reset \in BOOLEAN /\ reset_logs \in BOOLEAN
        /\ search_thread_running \in BOOLEAN /\ renewed \in BOOLEAN
        /\ shows \in {"logs", "searching"} \cup LogList!Filter
    BY <1>0
  <2> QED
    BY <1>4, <2>1, <2>2, <2>3, <2>4, <2>5, <2>6 DEF LogTypes
<1>2. Rows
  BY <1>0, LogsAre, LogAssumption DEF Rows, Times, Plain, LogList!OldLogsGone, LogList!Nothing
<1>3. Kept(0, 0) /\ Complete(0, 0)
  BY <1>0, LogAssumption DEF Kept, Complete
<1> QED
  BY <1>1, <1>2, <1>3, SearchInit DEF LogInv

(* Steps that change neither logs nor list.                                *)
LEMMA OtherStep ==
  ASSUME LogTypes, Rows, NEW a \in Nat, NEW b \in Nat, Kept(a, b), Complete(a, b),
         UNCHANGED <<l_received, log_storage, log_buffer, list, shows, renewed, reset_logs, old>>,
         Plain' => Plain /\ log_level' = log_level
  PROVE  Rows' /\ Kept(a, b)' /\ Complete(a, b)'
<1>1. Rows'
  BY DEF Rows, Times, LogList!OldLogsGone
<1>2. Kept(a, b)'
  BY DEF Kept
<1>3. Complete(a, b)'
  BY DEF Complete, Room
<1> QED
  BY <1>1, <1>2, <1>3

(* A log is received: if the buffer is full the oldest log in it is        *)
(* dropped, which is not among those to be shown.                          *)
LEMMA CallbackStep ==
  ASSUME LogTypes, Rows, NEW a \in Nat, NEW b \in Nat, Kept(a, b), Complete(a, b),
         LogList!LogCallback
  PROVE  LogTypes' /\ Rows' /\ \E c \in Nat, d \in Nat : Kept(c, d)' /\ Complete(c, d)'
<1>0. l_received \in Nat
  BY LogsAre DEF LogTypes
<1>11. PICK r \in Nat, c \in Nat, d \in Nat :
         /\ r = l_received
         /\ c = IF r + 1 - a <= MaxStorage THEN a ELSE a + 1
         /\ d = IF r + 1 - b <= MaxBuffer THEN b ELSE b + 1
  BY <1>0
<1>1. /\ l_received' = r + 1 /\ r < Len(LevelOf)
      /\ log_storage' = LogList!Newest(log_storage \cup {r + 1}, MaxStorage)
      /\ log_buffer' = LogList!Newest(log_buffer \cup {r + 1}, MaxBuffer)
      /\ UNCHANGED <<list, shows, renewed, reset_logs, old, log_level, filter_active, search_reset>>
      /\ UNCHANGED <<searches, search_thread_running, search_future, text, l_gtk, clicks>>
  BY <1>11, LogsAre DEF LogList!LogCallback, LogList!search, LogList!entry, LogList!view
<1>2. /\ r \in Nat /\ a \in old .. r /\ b \in a .. r /\ old \in Nat
      /\ r - a <= MaxStorage /\ r - b <= MaxBuffer
      /\ MaxStorage \in Nat /\ MaxBuffer \in Nat /\ MaxBuffer <= MaxStorage
      /\ max_log_amount \in Nat /\ max_log_amount <= MaxBuffer
  BY <1>11, LogAssumption, LogsAre DEF LogTypes, Kept
<1>3. log_storage \cup {r + 1} = a + 1 .. r + 1 /\ log_buffer \cup {r + 1} = b + 1 .. r + 1
  BY <1>2, <1>11 DEF Kept
<1>12. r + 1 \in Nat /\ MaxStorage \in Nat /\ MaxBuffer \in Nat
  BY <1>2
<1>4. log_storage' = {l \in a + 1 .. r + 1 : (r + 1) - l < MaxStorage}
  <2>1. LogList!Newest(a + 1 .. r + 1, MaxStorage) =
          {l \in a + 1 .. r + 1 : (r + 1) - l < MaxStorage}
    BY <1>12, NewestOf
  <2> QED
    BY <1>1, <1>3, <2>1, Zenon
<1>5. log_buffer' = {l \in b + 1 .. r + 1 : (r + 1) - l < MaxBuffer}
  <2>1. LogList!Newest(b + 1 .. r + 1, MaxBuffer) =
          {l \in b + 1 .. r + 1 : (r + 1) - l < MaxBuffer}
    BY <1>12, NewestOf
  <2> QED
    BY <1>1, <1>3, <2>1, Zenon
<1>6. log_storage' = c + 1 .. r + 1 /\ log_buffer' = d + 1 .. r + 1
  <2>1. {l \in a + 1 .. r + 1 : (r + 1) - l < MaxStorage} = c + 1 .. r + 1
    BY <1>2, <1>11
  <2>2. {l \in b + 1 .. r + 1 : (r + 1) - l < MaxBuffer} = d + 1 .. r + 1
    BY <1>2, <1>11
  <2> QED
    BY <1>4, <1>5, <2>1, <2>2
<1>7. Kept(c, d)'
  <2>1. /\ c \in old .. r + 1 /\ d \in c .. r + 1
        /\ (r + 1) - c <= MaxStorage /\ (r + 1) - d <= MaxBuffer
        /\ (b = a \/ r - b = MaxBuffer) => (d = c \/ (r + 1) - d = MaxBuffer)
    BY <1>2, <1>11
  <2> QED
    BY <1>1, <1>6, <1>11, <2>1 DEF Kept
<1>8. Rows'
  BY <1>1, <1>2, <1>11, LogsAre DEF Rows, Times, Plain, LogList!OldLogsGone
<1>9. Complete(c, d)'
  <2>1. (Plain' <=> Plain) /\ Room' = Room
    BY <1>1 DEF Room, Plain
  <2>2. Room \in Nat /\ Room <= max_log_amount
    BY <1>2 DEF Room
  <2>3. ASSUME NEW l \in d + 1 .. r + 1
        PROVE  (renewed => list[l] <= 1) /\ (~renewed /\ Plain => list[l] = 0)
    <3>1. l \in b + 1 .. r \/ l = r + 1
      BY <1>2, <1>11
    <3>2. list[r + 1] = 0
      BY <1>1, <1>2, <1>11, LogsAre DEF Rows
    <3> QED
      BY <1>11, <3>1, <3>2 DEF Complete
  <2>4. ASSUME Plain, ~reset_logs, NEW l \in c + 1 .. d, LevelOf[l] <= log_level, (r + 1) - l < Room
        PROVE  list[l] > 0
    <3>1. l \in a + 1 .. b /\ r - l < Room
      BY <1>2, <2>2, <2>4, <1>11
    <3> QED
      BY <1>11, <2>4, <3>1 DEF Complete
  <2> QED
    BY <1>1, <2>1, <2>3, <2>4 DEF Complete
<1>10. LogTypes'
  <2>1. l_received' \in 0 .. Len(LevelOf) /\ old' \in 0 .. l_received'
    BY <1>1, <1>2, <1>11, LogsAre DEF LogTypes
  <2>2. 1 .. r \subseteq 1 .. r + 1
    BY <1>2
  <2>3. searches' \subseteq [filter : LogList!Filter, level : LogList!Level \cup {0},
                            copied : BOOLEAN, copy : SUBSET (1 .. l_received')]
    <3>1. \A s \in searches : s \in [filter : LogList!Filter, level : LogList!Level \cup {0},
                                     copied : BOOLEAN, copy : SUBSET (1 .. r)]
      BY <1>11 DEF LogTypes
    <3> QED
      BY <1>1, <2>2, <3>1
  <2>4. search_future' \in [state : {"invalid", "pending"}]
          \cup [state : {"ready"}, filter : LogList!Filter, found : SUBSET (1 .. l_received'),
                aborted : BOOLEAN]
    BY <1>1, <1>11, <2>2 DEF LogTypes
  <2> QED
    BY <1>1, <2>1, <2>3, <2>4 DEF LogTypes, LogList!Level
<1> QED
  BY <1>7, <1>8, <1>9, <1>10

(* A thread of a search.                                                   *)
LEMMA SearchTypes == ASSUME LogTypes, \E a \in Nat, b \in Nat : Kept(a, b), LogList!SearchStep PROVE LogTypes'
<1>1. PICK s \in searches : LogList!Copy(s) \/ LogList!SetValue(s)
  BY DEF LogList!SearchStep
<1>2. UNCHANGED <<l_received, old, log_level, text, filter_active, search_reset, reset_logs, l_gtk,
                  search_thread_running, list, shows, clicks, renewed>>
  BY DEF LogList!SearchStep, LogList!storage, LogList!entry, LogList!view
<1> DEFINE Record == [filter : LogList!Filter, level : LogList!Level \cup {0},
                      copied : BOOLEAN, copy : SUBSET (1 .. l_received)]
<1>3. /\ searches \subseteq Record /\ s \in Record /\ l_received \in Nat
  BY <1>1, LogsAre DEF LogTypes
<1>4. searches' \subseteq Record
  <2>1. CASE LogList!Copy(s)
    <3>1. log_storage \subseteq 1 .. l_received
      <4>1. PICK a \in Nat, b \in Nat : Kept(a, b)
        OBVIOUS
      <4> QED
        BY <4>1, <1>3 DEF Kept
    <3>2. [s EXCEPT !.copied = TRUE, !.level = log_level, !.copy = log_storage] \in Record
      BY <1>3, <3>1 DEF LogTypes
    <3> HIDE DEF Record
    <3> QED
      BY <1>3, <2>1, <3>2 DEF LogList!Copy
  <2>2. CASE LogList!SetValue(s)
    BY <1>3, <2>2 DEF LogList!SetValue
  <2> QED
    BY <1>1, <2>1, <2>2
<1> DEFINE Future == [state : {"invalid", "pending"}]
       \cup [state : {"ready"}, filter : LogList!Filter, found : SUBSET (1 .. l_received),
             aborted : BOOLEAN]
<1>5. search_future' \in Future
  <2>1. CASE LogList!Copy(s)
    BY <2>1 DEF LogList!Copy, LogTypes
  <2>2. CASE LogList!SetValue(s)
    <3>1. LogList!Found(s) \subseteq 1 .. l_received
      BY <1>3 DEF LogList!Found, LogList!Newest
    <3>2. \/ search_future' = [state |-> "ready", filter |-> s.filter, found |-> LogList!Found(s),
                               aborted |-> FALSE]
          \/ search_future' = [state |-> "ready", filter |-> s.filter, found |-> {}, aborted |-> TRUE]
      BY <2>2 DEF LogList!SetValue
    <3>3. LogList!Found(s) \in SUBSET (1 .. l_received) /\ {} \in SUBSET (1 .. l_received)
          /\ s.filter \in LogList!Filter
      BY <1>3, <3>1
    <3>4. ASSUME NEW x \in SUBSET (1 .. l_received), NEW y \in BOOLEAN
          PROVE  [state |-> "ready", filter |-> s.filter, found |-> x, aborted |-> y] \in Future
      BY <3>3
    <3> HIDE DEF Record, Future
    <3> QED
      BY <3>2, <3>3, <3>4
  <2> QED
    BY <1>1, <2>1, <2>2
<1> QED
  BY <1>2, <1>4, <1>5 DEF LogTypes, LogList!Level

(* The user.                                                               *)
LEMMA UserTypes ==
  ASSUME LogTypes,
         \/ \E filter \in LogList!Filter : LogList!Type(filter)
         \/ LogList!StopSearch \/ LogList!OnLogLevelChanged
  PROVE  /\ LogTypes' /\ ~Plain'
         /\ UNCHANGED <<l_received, log_storage, log_buffer, list, shows, renewed, reset_logs, old>>
<1> USE DEF LogList!Click, LogList!storage, LogList!view
<1>1. clicks + 1 \in 0 .. Clicks \/ ~(clicks < Clicks)
  BY LogAssumption DEF LogTypes
<1>2. ASSUME NEW filter \in LogList!Filter, LogList!Type(filter) PROVE LogTypes' /\ ~Plain'
  BY <1>1, <1>2 DEF LogList!Type, LogTypes, LogList!Level, Plain
<1>3. CASE LogList!StopSearch
  <2>1. /\ text' = NoText /\ filter_active' = FALSE /\ search_reset' = TRUE /\ l_gtk' = "stop"
        /\ search_thread_running' = FALSE /\ clicks < Clicks /\ clicks' = clicks + 1
        /\ UNCHANGED <<log_level, reset_logs, old>>
        /\ UNCHANGED <<l_received, log_storage, log_buffer, searches, search_future, list, shows,
                       renewed>>
    BY <1>3, Zenon DEF LogList!StopSearch, LogList!NewList, NoText
  <2> QED
    BY <1>1, <2>1 DEF LogTypes, LogList!Level, Plain
<1>4. CASE LogList!OnLogLevelChanged
  BY <1>1, <1>4 DEF LogList!OnLogLevelChanged, LogList!NewList, LogTypes, LogList!Level, Plain
<1>5. UNCHANGED <<l_received, log_storage, log_buffer, list, shows, renewed, reset_logs, old>>
  <2>1. ASSUME NEW filter \in LogList!Filter, LogList!Type(filter)
        PROVE  UNCHANGED <<l_received, log_storage, log_buffer, list, shows, renewed, reset_logs, old>>
    BY <2>1 DEF LogList!Type
  <2>2. LogList!StopSearch =>
          UNCHANGED <<l_received, log_storage, log_buffer, list, shows, renewed, reset_logs, old>>
    BY Zenon DEF LogList!StopSearch
  <2>3. LogList!OnLogLevelChanged =>
          UNCHANGED <<l_received, log_storage, log_buffer, list, shows, renewed, reset_logs, old>>
    BY DEF LogList!OnLogLevelChanged
  <2> QED
    BY <2>1, <2>2, <2>3
<1> QED
  BY <1>2, <1>3, <1>4, <1>5

(* kill_search_thread ends.                                                *)
LEMMA KilledTypes == ASSUME LogTypes, LogList!Killed PROVE LogTypes'
<1>1. /\ UNCHANGED <<l_received, old, log_level, text, filter_active, search_reset, reset_logs,
                     list, shows, clicks, renewed>>
      /\ l_gtk' = "free"
  BY DEF LogList!Killed, LogList!storage, LogList!entry, LogList!view
<1>2. CASE l_gtk = "search"
  <2>1. [filter |-> text, level |-> 0, copied |-> FALSE, copy |-> {}]
          \in [filter : LogList!Filter, level : LogList!Level \cup {0},
               copied : BOOLEAN, copy : SUBSET (1 .. l_received)]
    BY <1>2 DEF LogTypes
  <2>2. /\ search_thread_running' = TRUE /\ search_future' = [state |-> "pending"]
        /\ searches' = searches \cup {[filter |-> text, level |-> 0, copied |-> FALSE, copy |-> {}]}
    BY <1>2 DEF LogList!Killed
  <2> QED
    BY <1>1, <2>1, <2>2 DEF LogTypes, LogList!Level
<1>3. CASE l_gtk # "search"
  BY <1>1, <1>3 DEF LogList!Killed, LogList!search, LogTypes, LogList!Level
<1> QED
  BY <1>2, <1>3

(* A simulation starts: the logs are forgotten, and with the next call of  *)
(* the dispatcher the list, too.                                           *)
LEMMA ResetStep ==
  ASSUME LogTypes, Rows, NEW a \in Nat, NEW b \in Nat, Kept(a, b), LogList!Reset
  PROVE  LogTypes' /\ Rows' /\ Kept(l_received, l_received)' /\ Complete(l_received, l_received)'
<1>1. /\ clicks' = clicks + 1 /\ clicks < Clicks /\ reset_logs' = TRUE /\ old' = l_received
      /\ log_storage' = {} /\ log_buffer' = {}
      /\ UNCHANGED <<l_received, searches, search_thread_running, search_future, text,
                     filter_active, log_level, list, shows, renewed, search_reset, l_gtk>>
  BY DEF LogList!Reset, LogList!search, LogList!entry, LogList!view
<1>2. l_received \in Nat
  BY LogsAre DEF LogTypes
<1>3. LogTypes'
  BY <1>1, <1>2, LogAssumption DEF LogTypes, LogList!Level
<1>4. Rows'
  BY <1>1 DEF Rows, Times, Plain, LogList!OldLogsGone
<1>5. Kept(l_received, l_received)'
  BY <1>1, <1>2, LogAssumption DEF Kept
<1>6. Complete(l_received, l_received)'
  BY <1>1, <1>2 DEF Complete
<1> QED
  BY <1>3, <1>4, <1>5, <1>6

(* A list in which no log occurs twice.                                    *)
LEMMA WithIs ==
  ASSUME NEW logs
  PROVE  /\ LogList!With(logs) \in [LogList!Logs -> Nat]
         /\ \A l \in LogList!Logs : /\ LogList!With(logs)[l] <= 1
                                    /\ LogList!With(logs)[l] > 0 <=> l \in logs
                                    /\ l \notin logs => LogList!With(logs)[l] = 0
BY DEF LogList!With

(* The dispatcher after a reset: the list is empty, and what has come      *)
(* since is in the buffer or not among the newest.                         *)
LEMMA ShowResetStep ==
  ASSUME LogTypes, Rows, NEW a \in Nat, NEW b \in Nat, Kept(a, b), Complete(a, b),
         LogList!DispatcherCallback, LogList!ShowReset
  PROVE  LogTypes' /\ Rows' /\ Kept(a, b)' /\ Complete(a, b)'
<1>1. /\ reset_logs /\ reset_logs' = FALSE /\ list' = LogList!Nothing
      /\ UNCHANGED <<log_buffer, search_future, search_reset, shows, renewed>>
      /\ UNCHANGED <<l_received, log_storage, searches, search_thread_running, text,
                     filter_active, log_level, l_gtk, clicks, old>>
  BY DEF LogList!ShowReset, LogList!DispatcherCallback, LogList!entry
<1>2. list' \in [LogList!Logs -> Nat] /\ \A l \in LogList!Logs : list'[l] = 0
  BY <1>1 DEF LogList!Nothing
<1>3. /\ l_received \in Nat /\ l_received <= Len(LevelOf) /\ old \in Nat /\ old <= l_received
      /\ a \in old .. l_received /\ b \in a .. l_received
      /\ \A l \in 1 .. l_received : l \in LogList!Logs
  BY LogsAre DEF LogTypes, Kept
<1>4. LogTypes'
  BY <1>1, <1>2 DEF LogTypes, LogList!Level
<1>5. Rows'
  BY <1>1, <1>2, <1>3 DEF Rows, Times, Plain, LogList!OldLogsGone
<1>6. Kept(a, b)'
  BY <1>1 DEF Kept
<1>7. Complete(a, b)'
  <2>1. b = a \/ l_received - b = MaxBuffer
    BY <1>1 DEF Kept
  <2>2. Room' = Room /\ Room \in Nat /\ Room <= MaxBuffer
    BY <1>1, LogAssumption DEF Room
  <2>3. \A l \in a + 1 .. b : ~(l_received - l < Room)
    BY <1>3, <2>1, <2>2, LogAssumption
  <2>4. \A l \in b + 1 .. l_received : list'[l] = 0
    BY <1>2, <1>3
  <2> QED
    BY <1>1, <2>2, <2>3, <2>4 DEF Complete
<1> QED
  BY <1>4, <1>5, <1>6, <1>7

(* The list is made anew: the newest logs of the level.                    *)
LEMMA RenewStep ==
  ASSUME LogTypes, Rows, NEW a \in Nat, NEW b \in Nat, Kept(a, b), Complete(a, b),
         LogList!DispatcherCallback, LogList!ShowLogs, search_reset
  PROVE  LogTypes' /\ Rows' /\ Kept(a, b)' /\ Complete(a, b)'
<1>1. /\ ~reset_logs /\ ~filter_active /\ shows' = "logs"
      /\ list' = LogList!With(LogList!RecentLogs) /\ search_reset' = FALSE /\ renewed' = TRUE
      /\ UNCHANGED <<log_buffer, reset_logs, search_future>>
      /\ UNCHANGED <<l_received, log_storage, searches, search_thread_running, text,
                     filter_active, log_level, l_gtk, clicks, old>>
  BY DEF LogList!ShowLogs, LogList!DispatcherCallback, LogList!entry
<1>2. /\ l_received \in Nat /\ l_received <= Len(LevelOf) /\ old \in Nat /\ old <= l_received
      /\ a \in old .. l_received /\ b \in a .. l_received
      /\ \A l \in 1 .. l_received : l \in LogList!Logs
      /\ LogList!Logs = 1 .. Len(LevelOf) /\ Len(LevelOf) \in Nat
  BY LogsAre DEF LogTypes, Kept
<1>3. /\ list' \in [LogList!Logs -> Nat]
      /\ \A l \in LogList!Logs : /\ list'[l] <= 1
                                 /\ list'[l] > 0 <=> l \in LogList!RecentLogs
                                 /\ l \notin LogList!RecentLogs => list'[l] = 0
  BY <1>1, WithIs
<1>4. LogList!RecentLogs \subseteq log_storage /\ log_storage = a + 1 .. l_received
  BY DEF LogList!RecentLogs, LogList!UpToLevel, LogList!Newest, Kept
<1>5. LogTypes'
  BY <1>1, <1>3 DEF LogTypes, LogList!Level
<1>6. Rows'
  <2>1. \A l \in LogList!Logs : l > l_received \/ l <= old => list'[l] = 0
    <3> SUFFICES ASSUME NEW l \in LogList!Logs, l > l_received \/ l <= old PROVE list'[l] = 0
      OBVIOUS
    <3>1. l \notin log_storage
      BY <1>2, <1>4
    <3> QED
      BY <1>3, <1>4, <3>1
  <2>2. \A l \in 1 .. old : l \in LogList!Logs /\ l <= old
    BY <1>2
  <2>3. \A l \in LogList!Logs : list'[l] <= 2
    BY <1>3
  <2> QED
    BY <1>1, <2>1, <2>2, <2>3 DEF Rows, Times, Plain, LogList!OldLogsGone
<1>7. Kept(a, b)'
  BY <1>1 DEF Kept
<1>8. ASSUME NEW l \in a + 1 .. b, LevelOf[l] <= log_level, l_received - l < max_log_amount \div 2
      PROVE  list'[l] > 0
  <2>1. l \in log_storage /\ l \in LogList!UpToLevel(log_storage) /\ l \in LogList!Logs
    BY <1>2, <1>4, <1>8 DEF LogList!UpToLevel
  <2>2. l_received - l < max_log_amount
    BY <1>2, <1>8, LogAssumption
  <2>3. l \in LogList!Newest(log_storage, max_log_amount)
    <3>1. LogList!Newest(a + 1 .. l_received, max_log_amount) =
            {k \in a + 1 .. l_received : l_received - k < max_log_amount}
      BY <1>2, LogAssumption, NewestOf
    <3> QED
      BY <1>4, <2>1, <2>2, <3>1
  <2>4. IsFiniteSet(log_storage) /\ log_storage \subseteq Nat
    BY <1>2, <1>4, FS_Interval
  <2>5. LogList!UpToLevel(log_storage) \in SUBSET log_storage
    BY DEF LogList!UpToLevel
  <2>6. l \in LogList!Newest(LogList!UpToLevel(log_storage), max_log_amount)
    BY <2>1, <2>3, <2>4, <2>5, NewestOfFewer, LogAssumption
  <2> QED
    BY <1>3, <2>1, <2>6 DEF LogList!RecentLogs
<1>9. Complete(a, b)'
  <2>1. \A l \in b + 1 .. l_received : list'[l] <= 1
    BY <1>2, <1>3
  <2>2. Room' = max_log_amount \div 2 /\ renewed'
    BY <1>1 DEF Room
  <2> QED
    BY <1>1, <1>8, <2>1, <2>2 DEF Complete
<1> QED
  BY <1>5, <1>6, <1>7, <1>9

(* What has come is added to the list, from which the oldest rows go; the  *)
(* newest logs keep theirs, as those after them do not fill the room.      *)
LEMMA AddStep ==
  ASSUME LogTypes, Rows, NEW a \in Nat, NEW b \in Nat, Kept(a, b), Complete(a, b),
         LogList!DispatcherCallback, LogList!ShowLogs, ~search_reset
  PROVE  LogTypes' /\ Rows' /\ Kept(a, l_received)' /\ Complete(a, l_received)'
<1>1. /\ ~reset_logs /\ ~filter_active /\ shows' = "logs"
      /\ list' = LogList!Added(LogList!NewestRows) /\ log_buffer' = {}
      /\ UNCHANGED <<search_reset, renewed, reset_logs, search_future>>
      /\ UNCHANGED <<l_received, log_storage, searches, search_thread_running, text,
                     filter_active, log_level, l_gtk, clicks, old>>
  BY DEF LogList!ShowLogs, LogList!DispatcherCallback, LogList!entry, LogList!BufferTaken
<1>2. /\ l_received \in Nat /\ l_received <= Len(LevelOf) /\ old \in Nat /\ old <= l_received
      /\ a \in old .. l_received /\ b \in a .. l_received
      /\ \A l \in 1 .. l_received : l \in LogList!Logs
      /\ LogList!Logs = 1 .. Len(LevelOf) /\ Len(LevelOf) \in Nat
  BY LogsAre DEF LogTypes, Kept
<1> DEFINE sum(l) == LogList!SumFunctionOnSet(list, {k \in LogList!Logs : k > l})
           stay(l) == LogList!Max({0, LogList!Min({list[l], max_log_amount - sum(l)})})
           new(l) == IF l \in LogList!UpToLevel(log_buffer) THEN 1 ELSE 0
<1>3. \A l \in LogList!Logs : list[l] \in Nat /\ list[l] <= Times /\ (l > l_received => list[l] = 0)
  BY DEF LogTypes, Rows
<1>4. \A l \in LogList!Logs :
        sum(l) \in Nat /\ (l <= l_received => sum(l) <= Times * (l_received - l))
  <2> SUFFICES ASSUME NEW l \in LogList!Logs
               PROVE  sum(l) \in Nat /\ (l <= l_received => sum(l) <= Times * (l_received - l))
    OBVIOUS
  <2>1. Times \in {1, 2} /\ l_received \in 0 .. Len(LevelOf) /\ l \in 1 .. Len(LevelOf)
    BY <1>2 DEF Times
  <2> HIDE DEF Times
  <2>2. LET s == LogList!SumFunctionOnSet(list, {k \in 1 .. Len(LevelOf) : k > l})
        IN s \in Nat /\ (l <= l_received => s <= Times * (l_received - l))
    BY <1>2, <1>3, <2>1, SumBound
  <2> QED
    BY <1>2, <2>2
<1>5. \A l \in LogList!Logs :
        /\ stay(l) \in Nat /\ stay(l) <= list[l]
        /\ list[l] > 0 /\ max_log_amount - sum(l) > 0 => stay(l) > 0
  <2> SUFFICES ASSUME NEW l \in LogList!Logs
               PROVE  /\ stay(l) \in Nat /\ stay(l) <= list[l]
                      /\ list[l] > 0 /\ max_log_amount - sum(l) > 0 => stay(l) > 0
    OBVIOUS
  <2> HIDE DEF sum
  <2>1. list[l] \in Nat /\ max_log_amount - sum(l) \in Int
    BY <1>3, <1>4, LogAssumption
  <2> QED
    BY <2>1, RowsThatStay
<1>6. list' = [l \in LogList!Logs |-> stay(l) + new(l)]
  BY <1>1, Zenon DEF LogList!Added, LogList!NewestRows
<1> HIDE DEF sum, stay
<1>7. log_buffer = b + 1 .. l_received /\ b + 1 > old
  BY <1>2 DEF Kept
<1>8. \A l \in LogList!Logs :
        /\ new(l) \in {0, 1}
        /\ new(l) = 1 <=> (l \in b + 1 .. l_received /\ LevelOf[l] <= log_level)
  BY <1>7 DEF LogList!UpToLevel
<1> HIDE DEF new
<1>9. list' \in [LogList!Logs -> Nat] /\ \A l \in LogList!Logs : list'[l] = stay(l) + new(l)
  BY <1>5, <1>6, <1>8
<1>10. LogTypes'
  BY <1>1, <1>9 DEF LogTypes, LogList!Level
<1>11. \A l \in LogList!Logs : list'[l] <= Times /\ (l > l_received => list'[l] = 0)
  <2> SUFFICES ASSUME NEW l \in LogList!Logs
               PROVE  list'[l] <= Times /\ (l > l_received => list'[l] = 0)
    OBVIOUS
  <2>1. l \in b + 1 .. l_received => list[l] <= Times - 1
    BY <1>1, <1>3 DEF Complete, Times, Plain
  <2>2. Times \in Nat /\ l \in Nat
    BY <1>2 DEF Times
  <2>3. l > l_received => l \notin b + 1 .. l_received
    BY <1>2, <2>2
  <2> QED
    BY <1>3, <1>5, <1>8, <1>9, <2>1, <2>2, <2>3
<1>12. \A l \in 1 .. old : list'[l] = 0
  <2> SUFFICES ASSUME NEW l \in 1 .. old PROVE list'[l] = 0
    OBVIOUS
  <2>1. l \in LogList!Logs /\ l \notin b + 1 .. l_received
    BY <1>2, <1>7
  <2>2. list[l] = 0
    BY <1>1 DEF Rows, Plain, LogList!OldLogsGone
  <2> QED
    BY <1>5, <1>8, <1>9, <2>1, <2>2
<1>13. Rows'
  <2>1. Times' = Times
    BY <1>1 DEF Times
  <2> QED
    BY <1>1, <1>11, <1>12, <2>1 DEF Rows, LogList!OldLogsGone
<1>14. Kept(a, l_received)'
  BY <1>1, <1>2, LogAssumption DEF Kept
<1>15. ASSUME NEW l \in a + 1 .. l_received, LevelOf[l] <= log_level, l_received - l < Room
       PROVE  list'[l] > 0
  <2>1. l \in LogList!Logs
    BY <1>2
  <2>2. CASE l \in b + 1 .. l_received
    BY <1>5, <1>8, <1>9, <1>15, <2>1, <2>2
  <2>3. CASE l \in a + 1 .. b
    <3>1. list[l] > 0
      BY <1>1, <1>15, <2>3 DEF Complete, Plain
    <3>2. Times * (l_received - l) < max_log_amount
      BY <1>2, <1>15, LogAssumption DEF Times, Room
    <3>3. sum(l) < max_log_amount /\ sum(l) \in Nat
      <4>1. Times * (l_received - l) \in Int
        BY <1>2 DEF Times
      <4>2. sum(l) \in Nat /\ sum(l) <= Times * (l_received - l)
        BY <1>2, <1>4, <2>1
      <4> QED
        BY <3>2, <4>1, <4>2, LogAssumption
    <3>4. stay(l) > 0
      BY <1>5, <2>1, <3>1, <3>3, LogAssumption
    <3> QED
      BY <1>5, <1>8, <1>9, <2>1, <3>4
  <2> QED
    BY <1>2, <2>2, <2>3
<1>16. Complete(a, l_received)'
  <2>1. Room' = Room /\ l_received + 1 .. l_received = {}
    BY <1>1, <1>2 DEF Room
  <2> QED
    BY <1>1, <1>15, <2>1 DEF Complete
<1> QED
  BY <1>10, <1>13, <1>14, <1>16

(* The result of a search is shown, or that it is not ready.               *)
LEMMA ShowSearchStep ==
  ASSUME LogTypes, Rows, NEW a \in Nat, NEW b \in Nat, Kept(a, b), Complete(a, b),
         LogList!DispatcherCallback, LogList!ShowSearch
  PROVE  LogTypes' /\ Rows' /\ Kept(a, b)' /\ Complete(a, b)'
<1>1. /\ ~reset_logs /\ filter_active
      /\ UNCHANGED <<log_buffer, search_reset, reset_logs, renewed>>
      /\ UNCHANGED <<l_received, log_storage, searches, search_thread_running, text,
                     filter_active, log_level, l_gtk, clicks, old>>
  BY DEF LogList!ShowSearch, LogList!DispatcherCallback, LogList!entry
<1>2. \/ UNCHANGED <<list, shows, search_future>>
      \/ list' = LogList!Nothing /\ shows' = "searching" /\ UNCHANGED search_future
      \/ /\ search_future.state = "ready" /\ search_future' = [state |-> "invalid"]
         /\ list' = LogList!With(search_future.found) /\ shows' = search_future.filter
  BY DEF LogList!ShowSearch
<1>3. /\ l_received \in Nat /\ l_received <= Len(LevelOf)
      /\ b \in Nat /\ \A l \in b + 1 .. l_received : l \in LogList!Logs
      /\ LogList!Logs = 1 .. Len(LevelOf) /\ Len(LevelOf) \in Nat
  BY LogsAre DEF LogTypes
<1>4. Plain = FALSE /\ Plain' = FALSE
  BY <1>1 DEF Plain
<1>5. CASE UNCHANGED <<list, shows, search_future>>
  <2>1. LogTypes'
    BY <1>1, <1>5 DEF LogTypes, LogList!Level
  <2> QED
    BY <1>1, <1>4, <1>5, <2>1, OtherStep
<1>6. ASSUME list' \in [LogList!Logs -> Nat], shows' \in {"searching"} \cup LogList!Filter,
             \A l \in LogList!Logs : list'[l] <= 1 /\ (l > l_received => list'[l] = 0)
      PROVE  Rows' /\ Kept(a, b)' /\ Complete(a, b)'
  <2>1. shows' # "logs"
    BY <1>6, LogAssumption DEF LogList!Filter
  <2>2. Rows'
    BY <1>1, <1>3, <1>4, <1>6, <2>1 DEF Rows, Times, LogList!OldLogsGone
  <2>3. Kept(a, b)'
    BY <1>1 DEF Kept
  <2>4. Complete(a, b)'
    BY <1>1, <1>3, <1>4, <1>6 DEF Complete
  <2> QED
    BY <2>2, <2>3, <2>4
<1>7. CASE list' = LogList!Nothing /\ shows' = "searching" /\ UNCHANGED search_future
  <2>1. list' \in [LogList!Logs -> Nat] /\ \A l \in LogList!Logs : list'[l] = 0
    BY <1>7 DEF LogList!Nothing
  <2>2. LogTypes'
    BY <1>1, <1>7, <2>1 DEF LogTypes, LogList!Level
  <2>3. Rows' /\ Kept(a, b)' /\ Complete(a, b)'
    BY <1>6, <1>7, <2>1
  <2> QED
    BY <2>2, <2>3
<1>8. CASE /\ search_future.state = "ready" /\ search_future' = [state |-> "invalid"]
           /\ list' = LogList!With(search_future.found) /\ shows' = search_future.filter
  <2>1. search_future.found \subseteq 1 .. l_received /\ search_future.filter \in LogList!Filter
    BY <1>8 DEF LogTypes
  <2>2. /\ list' \in [LogList!Logs -> Nat]
        /\ \A l \in LogList!Logs : list'[l] <= 1 /\ (l > l_received => list'[l] = 0)
    <3>1. \A l \in LogList!Logs : l > l_received => l \notin search_future.found
      BY <1>3, <2>1
    <3> QED
      BY <1>8, <3>1, WithIs
  <2>3. LogTypes'
    BY <1>1, <1>8, <2>1, <2>2 DEF LogTypes, LogList!Level
  <2>4. Rows' /\ Kept(a, b)' /\ Complete(a, b)'
    BY <1>6, <1>8, <2>1, <2>2
  <2> QED
    BY <2>3, <2>4
<1> QED
  BY <1>2, <1>5, <1>7, <1>8

(* The invariant implies the properties.                                   *)
LEMMA LogsSafe == LogInv => LogsShown
<1> SUFFICES ASSUME LogInv PROVE LogsShown
  OBVIOUS
<1>1. PICK a \in Nat, b \in Nat : Kept(a, b) /\ Complete(a, b)
  BY DEF LogInv
<1>2. LogTypes /\ Rows /\ LogList!SearchIsForText
  BY DEF LogInv, SearchInv
<1>3. /\ l_received \in Nat /\ l_received <= Len(LevelOf) /\ old \in Nat /\ old <= l_received
      /\ a \in old .. l_received /\ b \in a .. l_received
      /\ \A l \in 1 .. l_received : l \in LogList!Logs
      /\ LogList!Logs = 1 .. Len(LevelOf) /\ Len(LevelOf) \in Nat
  BY <1>1, <1>2, LogsAre DEF LogTypes, Kept
<1>4. /\ log_storage = a + 1 .. l_received /\ log_buffer = b + 1 .. l_received
  BY <1>1 DEF Kept
<1>8. text \in LogList!Filter \cup {""}
  BY <1>2, Zenon DEF LogTypes, NoText
<1>5. LogList!TypeOK
  <2>1. /\ log_storage \subseteq 1 .. l_received /\ log_buffer \subseteq log_storage
    BY <1>3, <1>4
  <2>2. Cardinality(log_storage) <= MaxStorage /\ Cardinality(log_buffer) <= MaxBuffer
    <3>1. ASSUME NEW c \in 0 .. l_received PROVE Cardinality(c + 1 .. l_received) = l_received - c
      <4>1. Cardinality(c + 1 .. l_received) =
              IF c + 1 > l_received THEN 0 ELSE l_received - (c + 1) + 1
        BY <1>3, FS_Interval
      <4> QED
        BY <1>3, <4>1
    <3>2. a \in 0 .. l_received /\ b \in 0 .. l_received
      BY <1>3
    <3>3. Cardinality(log_storage) = l_received - a /\ Cardinality(log_buffer) = l_received - b
      BY <1>4, <3>1, <3>2, Zenon
    <3> QED
      BY <1>1, <3>3, Zenon DEF Kept
  <2>3. l_received \in 0 .. LogList!Cardinality(LogList!Logs) /\ old \in 0 .. l_received
    BY <1>2, LogsAre DEF LogTypes
  <2>4. \A s \in searches : s.filter \in LogList!Filter /\ s.copy \subseteq LogList!Logs
    BY <1>2, <1>3 DEF LogTypes
  <2>5. search_future \in LogList!Future
    <3>1. 1 .. l_received \subseteq LogList!Logs
      BY <1>3
    <3> QED
      BY <1>2, <3>1 DEF LogTypes, LogList!Future
  <2> QED
    BY <1>2, <1>8, <2>1, <2>2, <2>3, <2>4, <2>5, SameCardinality, Zenon
       DEF LogList!TypeOK, LogTypes
<1>6. LogList!NothingMissed
  <2> SUFFICES ASSUME Plain, ~reset_logs,
                      NEW l \in LogList!UpToLevel(LogList!Visible \ log_buffer)
               PROVE  list[l] > 0
    BY DEF LogList!NothingMissed, LogList!Listed, Plain
  <2>1. Room \in Nat
    BY LogAssumption DEF Room
  <2>2. LogList!Visible = {k \in a + 1 .. l_received : l_received - k < Room}
    <3>1. LogList!Visible = LogList!Newest(a + 1 .. l_received, Room)
      BY <1>4 DEF LogList!Visible, Room
    <3> HIDE DEF Room
    <3> QED
      BY <1>3, <2>1, <3>1, NewestOf
  <2>3. l \in a + 1 .. b /\ LevelOf[l] <= log_level /\ l_received - l < Room
    BY <1>3, <1>4, <2>2 DEF LogList!UpToLevel
  <2> QED
    BY <1>1, <2>3 DEF Complete
<1>7. LogList!NeverMoreThanTwice /\ LogList!OldLogsGone
  BY <1>2 DEF Rows, Times, LogList!NeverMoreThanTwice
<1> QED
  BY <1>2, <1>5, <1>6, <1>7 DEF LogsShown

(* No list is of another search or level than the user chose, none misses  *)
(* a log that is among the newest, repeats one more than once, or has one  *)
(* from before a reset, for any logs, levels, filters and buffers.         *)
THEOREM LogsCorrect == LogList!Spec => []LogsShown
<1>1. LogInv /\ [LogList!Next]_LogList!vars => LogInv'
  <2> SUFFICES ASSUME LogInv, [LogList!Next]_LogList!vars PROVE LogInv'
    OBVIOUS
  <2>1. SearchInv'
    <3>1. CASE UNCHANGED LogList!vars
      BY <3>1 DEF LogList!vars, LogInv, SearchInv, LogList!SearchIsForText
    <3>2. CASE LogList!LogCallback
      BY <3>2 DEF LogList!LogCallback, LogList!search, LogList!entry, LogList!view, LogInv, SearchInv,
                  LogList!SearchIsForText
    <3> QED
      BY <3>1, <3>2, SearchThreadStep, UserStep, KilledStep, DispatcherStep DEF LogInv, LogList!Next
  <2>2. LogTypes /\ Rows
    BY DEF LogInv
  <2>3. PICK a \in Nat, b \in Nat : Kept(a, b) /\ Complete(a, b)
    BY DEF LogInv
  <2> DEFINE Goal == LogTypes' /\ Rows' /\ \E c \in Nat, d \in Nat : Kept(c, d)' /\ Complete(c, d)'
  <2>4. CASE UNCHANGED LogList!vars
    <3>1. LogTypes'
      BY <2>2, <2>4 DEF LogList!vars, LogTypes, LogList!Level
    <3>2. Rows' /\ Kept(a, b)' /\ Complete(a, b)'
      BY <2>2, <2>3, <2>4, OtherStep DEF LogList!vars, Plain
    <3> QED
      BY <2>1, <3>1, <3>2 DEF LogInv
  <2>5. CASE LogList!LogCallback
    BY <2>1, <2>2, <2>3, <2>5, CallbackStep DEF LogInv
  <2>6. CASE LogList!SearchStep
    <3>1. LogTypes'
      BY <2>2, <2>3, <2>6, SearchTypes
    <3>2. Rows' /\ Kept(a, b)' /\ Complete(a, b)'
      BY <2>2, <2>3, <2>6, OtherStep DEF LogList!SearchStep, LogList!storage, LogList!entry,
                                         LogList!view, Plain
    <3> QED
      BY <2>1, <3>1, <3>2 DEF LogInv
  <2>7. CASE \/ \E filter \in LogList!Filter : LogList!Type(filter)
             \/ LogList!StopSearch \/ LogList!OnLogLevelChanged
    <3>1. /\ LogTypes' /\ ~Plain'
          /\ UNCHANGED <<l_received, log_storage, log_buffer, list, shows, renewed, reset_logs, old>>
      BY <2>2, <2>7, UserTypes
    <3>2. Rows' /\ Kept(a, b)' /\ Complete(a, b)'
      BY <2>2, <2>3, <3>1, OtherStep
    <3> QED
      BY <2>1, <3>1, <3>2 DEF LogInv
  <2>8. CASE LogList!Killed
    <3>1. LogTypes'
      BY <2>2, <2>8, KilledTypes
    <3>2. Rows' /\ Kept(a, b)' /\ Complete(a, b)'
      BY <2>2, <2>3, <2>8, OtherStep DEF LogList!Killed, LogList!storage, LogList!entry,
                                         LogList!view, Plain
    <3> QED
      BY <2>1, <3>1, <3>2 DEF LogInv
  <2>9. CASE LogList!Reset
    <3>1. l_received \in Nat
      BY <2>2, LogsAre DEF LogTypes
    <3>2. LogTypes' /\ Rows' /\ Kept(l_received, l_received)' /\ Complete(l_received, l_received)'
      BY <2>2, <2>3, <2>9, ResetStep
    <3>3. l_received' = l_received
      BY <2>9 DEF LogList!Reset
    <3> QED
      BY <2>1, <3>1, <3>2, <3>3 DEF LogInv
  <2>10. CASE LogList!DispatcherCallback
    <3>1. CASE LogList!ShowReset
      BY <2>1, <2>2, <2>3, <2>10, <3>1, ShowResetStep DEF LogInv
    <3>2. CASE LogList!ShowLogs /\ search_reset
      BY <2>1, <2>2, <2>3, <2>10, <3>2, RenewStep DEF LogInv
    <3>3. CASE LogList!ShowLogs /\ ~search_reset
      <4>1. l_received \in Nat
        BY <2>2, LogsAre DEF LogTypes
      <4> QED
        <5>1. LogTypes' /\ Rows' /\ Kept(a, l_received)' /\ Complete(a, l_received)'
          BY <2>2, <2>3, <2>10, <3>3, AddStep
        <5>2. l_received' = l_received
          BY <2>10 DEF LogList!DispatcherCallback
        <5> QED
          BY <2>1, <4>1, <5>1, <5>2 DEF LogInv
    <3>4. CASE LogList!ShowSearch
      BY <2>1, <2>2, <2>3, <2>10, <3>4, ShowSearchStep DEF LogInv
    <3> QED
      BY <2>10, <3>1, <3>2, <3>3, <3>4 DEF LogList!DispatcherCallback
  <2> QED
    BY <2>4, <2>5, <2>6, <2>7, <2>8, <2>9, <2>10 DEF LogList!Next
<1> QED
  BY LogInit, <1>1, LogsSafe, PTL DEF LogList!Spec

-----------------------------------------------------------------------------
(* TimerThread: any number of threads that call stop(), either timer and    *)
(* every use of the stop callback                                          *)


(* Init and every step keep the types; a joinable thread exists.           *)
LEMMA TypeInit == Init => TypeOK
<1> SUFFICES ASSUME Init PROVE TypeOK
  OBVIOUS
<1>1. stop_pc \in [Caller -> CallPc]
  BY DEF Init, CallPc
<1>2. QED
  BY <1>1 DEF Init, TypeOK, RunnerPc, Sample

LEMMA RunnerTypes == TypeOK /\ RunnerStep => TypeOK'
<1> SUFFICES ASSUME TypeOK, RunnerStep
             PROVE  TypeOK'
  OBVIOUS
<1> USE DEF TypeOK, RunnerAt, flags, thread
<1>1. CASE Enter
  BY <1>1, ModeAssumption DEF Enter, RunnerPc
<1>2. CASE Activate
  BY <1>2 DEF Activate, RunnerPc
<1>3. CASE CheckCancelled
  BY <1>3 DEF CheckCancelled, RunnerPc
<1>4. CASE Announce
  BY <1>4 DEF Announce, RunnerPc
<1>5. CASE FirstTimeout
  BY <1>5 DEF FirstTimeout, RunnerPc
<1>6. CASE LoopTest
  BY <1>6 DEF LoopTest, RunnerPc
<1>7. CASE HandleInstant
  BY <1>7 DEF HandleInstant, Take, RunnerPc, Sample
<1>8. CASE HandleStop
  BY <1>8 DEF HandleStop, ReactToStop, Take, RunnerPc, Sample
<1>9. CASE ReceiveStart
  BY <1>9 DEF ReceiveStart, Take, RunnerPc, Sample
<1>10. CASE ReceiveStop
  BY <1>10 DEF ReceiveStop, Take, RunnerPc, Sample
<1>11. CASE Expire
  BY <1>11 DEF Expire, RunnerPc
<1>12. CASE Poll
  BY <1>12 DEF Poll, ReactToStop, RunnerPc, Sample
<1>13. CASE EndCallback
  BY <1>13 DEF EndCallback, RunnerPc
<1>14. CASE EndStopCallback
  BY <1>14 DEF EndStopCallback, RunnerPc, CallPc, Caller
<1>15. QED
  BY <1>1, <1>2, <1>3, <1>4, <1>5, <1>6, <1>7, <1>8, <1>9, <1>10, <1>11, <1>12,
     <1>13, <1>14 DEF RunnerStep

LEMMA CallerTypes ==
  ASSUME NEW c \in Caller, TypeOK, CallStop(c) \/ StopStep(c)
  PROVE  TypeOK'
<1> USE DEF TypeOK, At, flags, thread
<1>1. CASE CallStop(c)
  BY <1>1 DEF CallStop, CallPc
<1>2. CASE Lock(c)
  BY <1>2 DEF Lock, CallPc
<1>3. CASE Cancel(c)
  BY <1>3 DEF Cancel, CallPc
<1>4. CASE Deactivate(c)
  BY <1>4 DEF Deactivate, CallPc
<1>5. CASE Join(c)
  BY <1>5 DEF Join, CallPc, RunnerPc
<1>6. CASE Clear(c)
  BY <1>6 DEF Clear, CallPc
<1>7. QED
  BY <1>1, <1>2, <1>3, <1>4, <1>5, <1>6 DEF StopStep

LEMMA TypeStep == TypeOK /\ [Next]_vars => TypeOK'
<1> SUFFICES ASSUME TypeOK, [Next]_vars
             PROVE  TypeOK'
  OBVIOUS
<1>1. CASE StartAsync
  BY <1>1 DEF StartAsync, TypeOK, flags, RunnerPc, CallPc
<1>2. CASE Start
  BY <1>2 DEF Start, TypeOK, flags, thread, RunnerPc
<1>3. ASSUME NEW sample \in Sample \ {"none"}, Receive(sample)
      PROVE  TypeOK'
  BY <1>3 DEF Receive, TypeOK, flags, thread, Sample
<1>4. CASE RunnerStep
  BY <1>4, RunnerTypes
<1>5. ASSUME NEW c \in Caller, CallStop(c) \/ StopStep(c)
      PROVE  TypeOK'
  BY <1>5, CallerTypes
<1>6. CASE UNCHANGED vars
  BY <1>6 DEF TypeOK, vars, flags, thread
<1>7. QED
  BY <1>1, <1>2, <1>3, <1>4, <1>5, <1>6 DEF Next

(* The variables keep their types, and a joinable handle has a thread.     *)
THEOREM TypeCorrect == Spec => []TypeOK
BY TypeInit, TypeStep, PTL DEF Spec

-----------------------------------------------------------------------------
(* The mutex is held by the thread that is between the flags.              *)
Guarded == \A c \in Caller : stop_pc[c] \in Stopping <=> join_mutex = c

(* The thread calls stop() only from its stop callback.                    *)
FromCallback ==
  stop_pc[Runner] # "idle" => StopCallback = "stop" /\ runner = "stop_callback"

(* The thread of start_async exists as long as its handle is joinable, and *)
(* whoever is past the join has seen its end; a start() has no handle.     *)
OneThread ==
  /\ Async => /\ joinable <=> runner # "none"
              /\ \A c \in Caller : stop_pc[c] \in {"clear", "returned"} => runner = "none"
  /\ ~Async => ~joinable

IInv == TypeOK /\ Guarded /\ FromCallback /\ OneThread

LEMMA IInvInit == Init => IInv
<1> SUFFICES ASSUME Init PROVE IInv
  OBVIOUS
<1>1. TypeOK
  BY TypeInit
<1>2. Guarded
  BY NobodyAssumption DEF Init, Guarded, Stopping, Caller
<1>3. OneThread /\ FromCallback
  BY DEF Init, OneThread, FromCallback, Caller
<1>4. QED BY <1>1, <1>2, <1>3 DEF IInv

(* The thread itself never touches the mutex or the handle.                *)
LEMMA RunnerInv ==
  ASSUME IInv, RunnerStep
  PROVE  Guarded' /\ FromCallback' /\ OneThread'
<1>0. /\ UNCHANGED <<joinable, join_mutex>>
      /\ runner # "none" /\ runner' # "none"
  BY DEF RunnerStep, Enter, Activate, CheckCancelled, Announce, FirstTimeout, LoopTest,
     HandleInstant, HandleStop, ReceiveStart, ReceiveStop, Expire, Poll, EndCallback,
     EndStopCallback, ReactToStop, RunnerAt, thread
<1>1. CASE EndStopCallback
  <2>1. /\ stop_pc' = [stop_pc EXCEPT ![Runner] = "idle"]
        /\ stop_pc \in [Caller -> CallPc] /\ Runner \in Caller
    BY <1>1 DEF EndStopCallback, IInv, TypeOK, Caller
  <2>2. stop_pc[Runner] \notin Stopping
    BY <1>1 DEF EndStopCallback, IInv, FromCallback, Stopping
  <2>3. Guarded'
    BY <1>0, <2>1, <2>2 DEF IInv, Guarded, Stopping
  <2>4. FromCallback' /\ OneThread'
    BY <1>0, <2>1, <2>2 DEF IInv, FromCallback, OneThread
  <2>5. QED BY <2>3, <2>4
<1>2. CASE ~EndStopCallback
  <2>1. UNCHANGED stop_pc /\ runner # "stop_callback"
    BY <1>2 DEF RunnerStep, Enter, Activate, CheckCancelled, Announce, FirstTimeout,
       LoopTest, HandleInstant, HandleStop, ReceiveStart, ReceiveStop, Expire, Poll,
       EndCallback, RunnerAt
  <2>2. QED
    BY <1>0, <2>1 DEF IInv, Guarded, FromCallback, OneThread
<1>3. QED BY <1>1, <1>2

(* Calling stop(), taking the mutex, joining and releasing it.             *)
LEMMA CallerInv ==
  ASSUME IInv, NEW c \in Caller, CallStop(c) \/ StopStep(c)
  PROVE  Guarded' /\ FromCallback' /\ OneThread'
<1> USE DEF At, Stopping, flags, thread
<1>0. stop_pc \in [Caller -> CallPc] /\ Runner \in Caller /\ Nobody \notin Caller
  BY NobodyAssumption DEF IInv, TypeOK, Caller
<1>1. CASE CallStop(c)
  <2>1. Guarded'
    BY <1>0, <1>1 DEF CallStop, IInv, Guarded
  <2>2. FromCallback' /\ OneThread'
    BY <1>0, <1>1 DEF CallStop, IInv, FromCallback, OneThread
  <2>3. QED BY <2>1, <2>2
<1>2. CASE Lock(c)
  <2>1. Guarded'
    BY <1>0, <1>2 DEF Lock, IInv, Guarded
  <2>2. FromCallback' /\ OneThread'
    BY <1>0, <1>2 DEF Lock, IInv, FromCallback, OneThread
  <2>3. QED BY <2>1, <2>2
<1>3. CASE Cancel(c) \/ Deactivate(c)
  <2>1. Guarded'
    BY <1>0, <1>3 DEF Cancel, Deactivate, IInv, Guarded
  <2>2. FromCallback' /\ OneThread'
    BY <1>0, <1>3 DEF Cancel, Deactivate, IInv, FromCallback, OneThread
  <2>3. QED BY <2>1, <2>2
<1>4. CASE Join(c)
  <2>1. Guarded'
    BY <1>0, <1>4 DEF Join, IInv, Guarded
  <2>2. FromCallback'
    BY <1>0, <1>4 DEF Join, IInv, FromCallback
  <2>3. OneThread'
    BY <1>0, <1>4 DEF Join, IInv, OneThread
  <2>4. QED BY <2>1, <2>2, <2>3
<1>5. CASE Clear(c)
  <2>1. Guarded'
    BY <1>0, <1>5 DEF Clear, IInv, Guarded
  <2>2. FromCallback' /\ OneThread'
    BY <1>0, <1>5 DEF Clear, IInv, FromCallback, OneThread
  <2>3. QED BY <2>1, <2>2
<1>6. QED
  BY <1>1, <1>2, <1>3, <1>4, <1>5 DEF StopStep

LEMMA IInvStep == IInv /\ [Next]_vars => IInv'
<1> SUFFICES ASSUME IInv, [Next]_vars
             PROVE  Guarded' /\ FromCallback' /\ OneThread'
  BY TypeStep DEF IInv
<1>0. stop_pc \in [Caller -> CallPc] /\ Runner \in Caller /\ Stopper \subseteq Caller
  BY DEF IInv, TypeOK, Caller
<1>1. CASE StartAsync
  <2>1. runner = "none" /\ \A c \in Caller : stop_pc[c] \notin Stopping
    BY <1>1 DEF StartAsync, IInv, OneThread, FromCallback, Stopping, Caller
  <2>2. /\ stop_pc' = [c \in Caller |-> "idle"]
        /\ joinable' /\ runner' = "entry" /\ Async /\ UNCHANGED join_mutex
    BY <1>1 DEF StartAsync
  <2>3. Guarded'
    BY <2>1, <2>2 DEF IInv, Guarded, Stopping
  <2>4. FromCallback' /\ OneThread'
    BY <1>0, <2>2 DEF FromCallback, OneThread
  <2>5. QED BY <2>3, <2>4
<1>2. CASE Start
  BY <1>2 DEF Start, IInv, Guarded, FromCallback, OneThread, thread
<1>3. ASSUME NEW sample \in Sample \ {"none"}, Receive(sample)
      PROVE  Guarded' /\ FromCallback' /\ OneThread'
  BY <1>3 DEF Receive, IInv, Guarded, FromCallback, OneThread, thread
<1>4. CASE RunnerStep
  BY <1>4, RunnerInv
<1>5. ASSUME NEW c \in Caller, CallStop(c) \/ StopStep(c)
      PROVE  Guarded' /\ FromCallback' /\ OneThread'
  BY <1>5, CallerInv
<1>6. CASE UNCHANGED vars
  BY <1>6 DEF vars, thread, IInv, Guarded, FromCallback, OneThread
<1>7. QED
  BY <1>1, <1>2, <1>3, <1>4, <1>5, <1>6 DEF Next

LEMMA Inductive == Spec => []IInv
BY IInvInit, IInvStep, PTL DEF Spec

(* Whoever has returned from stop() leaves no thread behind.               *)
THEOREM QuietCorrect == Spec => []QuietAfterStop
<1>1. IInv => QuietAfterStop
  BY DEF IInv, OneThread, QuietAfterStop, Caller
<1>2. QED BY <1>1, Inductive, PTL

(* At most one thread joins at a time.                                     *)
THEOREM JoinCorrect == Spec => []JoinIsExclusive
<1>1. IInv => JoinIsExclusive
  BY DEF IInv, Guarded, JoinIsExclusive
<1>2. QED BY <1>1, Inductive, PTL
=============================================================================
