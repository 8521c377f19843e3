-------------------------- MODULE LoopScheduleProofs --------------------------
(***************************************************************************)
(* Proofs about LoopSchedule for every requested interval and every length *)
(* of the day, with no bound on the clock but MaxTime, which the proofs do *)
(* not use.  The lemmas on remainders are what the grid of the starts      *)
(* rests on.                                                               *)
(***************************************************************************)
EXTENDS LoopSchedule, TLAPS

-----------------------------------------------------------------------------
\* A number written as a multiple and a rest has that rest as remainder.
LEMMA Remainder ==
  ASSUME NEW x \in Int, NEW n \in Nat \ {0}, NEW q \in Int, NEW r \in 0..(n - 1),
         x = q * n + r
  PROVE  x % n = r
  OBVIOUS

LEMMA MultipleOf ==
  ASSUME NEW x \in Int, NEW n \in Nat \ {0}
  PROVE  \E q \in Int, r \in 0..(n - 1) : x = q * n + r
<1> DEFINE q == x \div n
<1> DEFINE r == x - q * n
<1>1. q \in Int /\ x >= q * n /\ x < q * n + n
  OBVIOUS
<1> HIDE DEF q
<1>2. q * n \in Int
  BY <1>1
<1>3. r \in 0..(n - 1) /\ x = q * n + r
  BY <1>1, <1>2
<1> QED BY <1>1, <1>3

LEMMA NextMultiple ==
  ASSUME NEW q \in Int, NEW n \in Nat \ {0}
  PROVE  (q * n + n) % n = 0
<1>1. q * n + n = (q + 1) * n + 0
  OBVIOUS
<1> QED BY <1>1, Remainder

\* What FirstDelay adds leads to a multiple.
LEMMA FirstUp ==
  ASSUME NEW x \in Int, NEW n \in Nat \ {0}
  PROVE  (x + (n - (x % n))) % n = 0
<1>1. PICK q \in Int, r \in 0..(n - 1) : x = q * n + r
  BY MultipleOf
<1>2. x % n = r
  BY <1>1, Remainder
<1>3. x + (n - r) = q * n + n
  BY <1>1
<1> QED BY <1>2, <1>3, NextMultiple

\* A multiple and one interval more is a multiple.
LEMMA Shift ==
  ASSUME NEW x \in Int, NEW n \in Nat \ {0}, x % n = 0
  PROVE  (x + n) % n = 0
<1>1. PICK q \in Int, r \in 0..(n - 1) : x = q * n + r
  BY MultipleOf
<1>2. r = 0
  BY <1>1, Remainder
<1>3. x + n = q * n + n
  BY <1>1, <1>2
<1> QED BY <1>3, NextMultiple

LEMMA RemainderBelow ==
  ASSUME NEW x \in Nat, NEW n \in Nat \ {0}
  PROVE  x % n \in 0..(n - 1) /\ x % n <= x
<1>1. x % n \in 0..(n - 1)
  OBVIOUS
<1>2. CASE x < n
  <2>1. x = 0 * n + x /\ x \in 0..(n - 1)
    BY <1>2
  <2> QED BY <1>1, <2>1, Remainder
<1>3. CASE x >= n
  BY <1>1, <1>3
<1> QED BY <1>2, <1>3

-----------------------------------------------------------------------------
\* The start of the current turn lies in the past; the sleep that follows a
\* turn ends an interval after its start or later, and on the grid of
\* multiples of the interval unless the process has once been late.
Schedule ==
  /\ lastStart <= now
  /\ pc = "turn" => loopStart = lastStart
  /\ pc = "sleep" /\ started => wake >= lastStart + requestedInterval
  /\ pc = "sleep" /\ ~late => (wake - dayStart) % requestedInterval = 0
  /\ OnGrid

LEMMA ScheduleInit == Init => TypeOK /\ Schedule
<1>1. Init => started \in BOOLEAN /\ late \in BOOLEAN
  BY Zenon DEF Init
<1>2. Init => /\ pc \in {"outside", "sleep", "turn"} /\ now \in Nat
              /\ dayStart \in Nat /\ loopStart \in Nat /\ wake \in Nat
              /\ delay \in 1..requestedInterval /\ lastStart \in Nat
  BY ScheduleAssumption DEF Init
<1>3. Init => Schedule
  BY ScheduleAssumption DEF Init, Schedule, OnGrid
<1> QED BY <1>1, <1>2, <1>3 DEF TypeOK

LEMMA ScheduleStep == TypeOK /\ Schedule /\ [Next]_vars => (TypeOK /\ Schedule)'
<1> SUFFICES ASSUME TypeOK, Schedule, [Next]_vars PROVE TypeOK' /\ Schedule'
  OBVIOUS
<1> USE ScheduleAssumption
<1>1. CASE Tick
  BY <1>1 DEF Tick, TypeOK, Schedule, OnGrid
<1>2. CASE FirstSchedule
  <2> DEFINE e == now - dayStart'
  <2>1. dayStart' \in Nat /\ e \in Nat /\ now = dayStart' + e
    <3>1. now % DayLength \in 0..(DayLength - 1) /\ now % DayLength <= now
      BY RemainderBelow DEF TypeOK
    <3>2. dayStart' = now - (now % DayLength)
      BY <1>2 DEF FirstSchedule
    <3> QED BY <3>1, <3>2 DEF TypeOK
  <2>2. e % requestedInterval \in 0..(requestedInterval - 1)
    BY <2>1, RemainderBelow
  <2>3. /\ delay' = requestedInterval - (e % requestedInterval)
        /\ wake' = now + delay'
    BY <1>2 DEF FirstSchedule, FirstDelay
  <2> HIDE DEF e
  <2>4. delay' \in 1..requestedInterval /\ wake' \in Nat
    BY <2>2, <2>3 DEF TypeOK
  <2>5. (e + (requestedInterval - (e % requestedInterval)))
          % requestedInterval = 0
    BY <2>1, FirstUp
  <2>6. wake' - dayStart' = e + (requestedInterval - (e % requestedInterval))
    BY <2>1, <2>2, <2>3 DEF TypeOK
  <2>7. TypeOK'
    BY <1>2, <2>1, <2>4 DEF FirstSchedule, TypeOK
  <2>8. pc' = "sleep" /\ ~started' /\ lastStart' <= now'
    BY <1>2 DEF FirstSchedule, Schedule
  <2>9. (wake' - dayStart') % requestedInterval = 0
    BY <2>5, <2>6
  <2> QED BY <2>7, <2>8, <2>9 DEF Schedule, OnGrid
<1>3. CASE StartTurn
  <2>1. ~late' => ~late /\ now = wake
    <3>1. ~late' => ~late /\ ~(now > wake)
      BY <1>3, Zenon DEF StartTurn
    <3>2. now >= wake
      BY <1>3 DEF StartTurn
    <3> QED BY <3>1, <3>2 DEF TypeOK
  <2>2. TypeOK'
    BY <1>3 DEF StartTurn, TypeOK
  <2> QED BY <1>3, <2>1, <2>2 DEF StartTurn, TypeOK, Schedule, OnGrid
<1>4. CASE EndTurn
  <2>1. /\ loopStart = lastStart /\ now - loopStart \in Nat
        /\ now - loopStart < requestedInterval
    BY <1>4 DEF EndTurn, KeepsUp, TypeOK, Schedule
  <2>2. /\ delay' \in 1..requestedInterval
        /\ wake' = loopStart + requestedInterval
    BY <1>4, <2>1 DEF EndTurn, NextDelay, TypeOK
  <2>3. TypeOK'
    BY <1>4, <2>2 DEF EndTurn, TypeOK
  <2>4. ~late => (wake' - dayStart) % requestedInterval = 0
    <3>1. ~late => (loopStart - dayStart) % requestedInterval = 0
      BY <1>4 DEF EndTurn, Schedule, OnGrid
    <3>2. wake' - dayStart = (loopStart - dayStart) + requestedInterval
      BY <2>2 DEF TypeOK
    <3>3. loopStart - dayStart \in Int
      BY DEF TypeOK
    <3> QED BY <3>1, <3>2, <3>3, Shift
  <2> QED BY <1>4, <2>1, <2>2, <2>3, <2>4 DEF EndTurn, TypeOK, Schedule, OnGrid
<1>5. CASE Overrun
  <2>1. TypeOK'
    BY <1>5 DEF Overrun, TypeOK
  <2> QED BY <1>5, <2>1 DEF Overrun, KeepsUp, TypeOK, Schedule, OnGrid
<1>6. CASE Leave
  BY <1>6 DEF Leave, TypeOK, Schedule, OnGrid
<1>7. CASE UNCHANGED vars
  BY <1>7 DEF vars, TypeOK, Schedule, OnGrid
<1> QED BY <1>1, <1>2, <1>3, <1>4, <1>5, <1>6, <1>7 DEF Next

\* For every interval: the argument of a sleep is never zero, never negative
\* and never longer than the interval, and turns start on the grid as long as
\* nothing made them late.
THEOREM ScheduleCorrect == Spec => [](TypeOK /\ OnGrid)
<1>1. Schedule => OnGrid
  BY DEF Schedule
<1> QED BY <1>1, ScheduleInit, ScheduleStep, PTL DEF Spec

\* For every interval: each sleep (logger.c:157, 205) lasts from one second to the interval.
THEOREM TypeCorrect == Spec => []TypeOK
  BY ScheduleCorrect, PTL

\* For every interval: two turns of one call of logValues are never closer
\* together than the interval.
THEOREM NeverEarlyCorrect == Spec => NeverEarly
<1>1. TypeOK /\ Schedule /\ [Next]_vars =>
        [pc = "sleep" /\ pc' = "turn" /\ started
           => loopStart' - lastStart >= requestedInterval]_vars
  <2> SUFFICES ASSUME TypeOK, Schedule, [Next]_vars,
                      pc = "sleep", pc' = "turn", started
               PROVE  loopStart' - lastStart >= requestedInterval
    OBVIOUS
  <2>1. StartTurn
    BY DEF Next, Tick, FirstSchedule, EndTurn, Overrun, Leave, vars
  <2> QED
    BY <2>1, ScheduleAssumption DEF StartTurn, TypeOK, Schedule
<1> QED
  BY <1>1, ScheduleInit, ScheduleStep, PTL DEF Spec, NeverEarly
=============================================================================
