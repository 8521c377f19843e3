----------------------------- MODULE LoopSchedule -----------------------------
(***************************************************************************)
(* When the turns of the logging loop start: the scheduling half of        *)
(* logValues in scripts/datalogger/logger.c.  DataLogger has what a turn   *)
(* does; here a turn only takes time.                                      *)
(*                                                                         *)
(* now is what time(NULL) returns, in seconds of local time, 0 being some  *)
(* midnight.  sleep(n) lasts at least n seconds, and nothing bounds how    *)
(* much later the process runs again.  A turn lasts as long as its reads   *)
(* and insertions (with their reconnections) do: any time at all.          *)
(***************************************************************************)
EXTENDS Integers

CONSTANTS
  requestedInterval,  \* seconds between the starts of two turns
  DayLength,          \* seconds from one midnight to the next
  MaxTime             \* bound on now

ASSUME ScheduleAssumption ==
  /\ requestedInterval \in Nat \ {0}
  /\ DayLength \in Nat \ {0}
  /\ MaxTime \in Nat

VARIABLES
  pc,         \* "outside" logValues, in "sleep" or in the "turn"
  now,        \* the clock
  dayStart,   \* the midnight before logValues was called
  loopStart,  \* local variable: start of the turn, or of the next one
  delay,      \* local variable: the argument of the latest sleep
  wake,       \* earliest end of that sleep
  lastStart,  \* history: start of the latest turn
  started,    \* history: this call of logValues has started a turn
  late        \* history: in this call a sleep ended late or a turn overran

vars ==
  <<pc, now, dayStart, loopStart, delay, wake, lastStart, started, late>>

-----------------------------------------------------------------------------
\* The delay is never assigned before its first use: any valid value will do.
Init ==
  /\ pc = "outside"
  /\ now \in 0..(DayLength - 1)
  /\ dayStart = 0
  /\ loopStart = 0
  /\ delay = requestedInterval
  /\ wake = 0
  /\ lastStart = 0
  /\ started = FALSE
  /\ late = FALSE

Tick ==
  /\ now < MaxTime
  /\ now' = now + 1
  /\ UNCHANGED <<pc, dayStart, loopStart, delay, wake, lastStart, started, late>>

\* Mutant: a whole interval passes before the first turn.
WholeInterval(elapsedSecs) == requestedInterval

\* Seconds to the next multiple of the interval after midnight.
FirstDelay(elapsedSecs) ==
  requestedInterval - (elapsedSecs % requestedInterval)

\* logValues is called: "Determine first schedule", and sleep until then.
FirstSchedule ==
  /\ pc = "outside"
  /\ dayStart' = now - (now % DayLength)
  /\ delay' = FirstDelay(now - dayStart')
  /\ wake' = now + delay'
  /\ started' = FALSE
  /\ late' = FALSE
  /\ pc' = "sleep"
  /\ UNCHANGED <<now, loopStart, lastStart>>

\* while (loop): loopStart = time(NULL).
StartTurn ==
  /\ pc = "sleep"
  /\ now >= wake
  /\ loopStart' = now
  /\ lastStart' = now
  /\ started' = TRUE
  /\ late' = (late \/ now > wake)
  /\ pc' = "turn"
  /\ UNCHANGED <<now, dayStart, delay, wake>>

\* Mutant: the boundary of the comparison.
KeepsUpOrEqual(elapsedSecs) == elapsedSecs <= requestedInterval

\* The turn took less than the interval.
KeepsUp(elapsedSecs) == elapsedSecs < requestedInterval

\* Mutant: a second too short.
NextDelayShort(elapsedSecs) == requestedInterval - elapsedSecs - 1

NextDelay(elapsedSecs) == requestedInterval - elapsedSecs

\* The turn ends in time: loopStart becomes the theoretic start of the next
\* turn (which only StartTurn would read, and it overwrites it), and the rest
\* of the interval is slept.
EndTurn ==
  /\ pc = "turn"
  /\ KeepsUp(now - loopStart)
  /\ delay' = NextDelay(now - loopStart)
  /\ loopStart' = loopStart + requestedInterval
  /\ wake' = now + delay'
  /\ pc' = "sleep"
  /\ UNCHANGED <<now, dayStart, lastStart, started, late>>

\* "Can't keep up": the next turn starts without a sleep.
Overrun ==
  /\ pc = "turn"
  /\ ~KeepsUp(now - loopStart)
  /\ loopStart' = now
  /\ wake' = now
  /\ late' = TRUE
  /\ pc' = "sleep"
  /\ UNCHANGED <<now, dayStart, delay, lastStart, started>>

\* A read failed, or the process was killed: logValues is called again after
\* the devices have been detected, by this process or by a new one.
Leave ==
  /\ pc # "outside"
  /\ pc' = "outside"
  /\ UNCHANGED <<now, dayStart, loopStart, delay, wake, lastStart, started, late>>

Next == Tick \/ FirstSchedule \/ StartTurn \/ EndTurn \/ Overrun \/ Leave

Spec == Init /\ [][Next]_vars

-----------------------------------------------------------------------------
\* The argument of every sleep is positive and no longer than the interval:
\* sleep takes an unsigned number, and a negative delay would be for ever.
TypeOK ==
  /\ pc \in {"outside", "sleep", "turn"}
  /\ now \in Nat
  /\ dayStart \in Nat
  /\ loopStart \in Nat
  /\ delay \in 1..requestedInterval
  /\ wake \in Nat
  /\ lastStart \in Nat
  /\ started \in BOOLEAN
  /\ late \in BOOLEAN

\* Two turns of one call of logValues never start closer together than the
\* interval, however long the turns and the sleeps really last: after a turn
\* that overran there is no burst of turns to catch up.
NeverEarly ==
  [][pc = "sleep" /\ pc' = "turn" /\ started
       => loopStart' - lastStart >= requestedInterval]_vars

\* As long as every sleep ended on the second and no turn overran, the turns
\* start at the multiples of the interval since midnight.
OnGrid ==
  pc = "turn" /\ ~late => (loopStart - dayStart) % requestedInterval = 0
=============================================================================
