---------------------------- MODULE ChargingProfile ----------------------------
(***************************************************************************)
(* scripts/charging-profile.js: a script that a host evaluates whenever it *)
(* likes, on its readings of the day, and that chooses the mode of the     *)
(* charge, a short equalization, float or absorb, at ten o'clock and gives *)
(* its commands by setting variables of the host.  What it remembers, from *)
(* one evaluation to the next, is in those variables.                      *)
(*                                                                         *)
(* The host, the charger and the weather are external: the host may        *)
(* evaluate the script often within the hour or not at all on a day, and   *)
(* signals deep discharges.  Time counts in equal parts of a day.          *)
(***************************************************************************)
EXTENDS Integers

CONSTANTS
  DAYSBETWEENSHORTEQ, DAYSBETWEENABSBORB,
  Parts, Ten,      \* parts of a day, and the one in which it is ten o'clock
  MaxTime          \* bound: the time at which a behaviour stops

ASSUME ProfileAssumption ==
  /\ DAYSBETWEENSHORTEQ \in Nat /\ DAYSBETWEENABSBORB \in Nat
  /\ Parts \in Nat \ {0} /\ Ten \in 0..(Parts - 1) /\ MaxTime \in Nat

VARIABLES
  now,
  mode, forceFloat, shortEQ, deepDischarge,   \* the variables of the host
  lastShortEQ, lastAbsorb,                    \* and its dates
  discharged   \* history: a deep discharge was signalled after the last short EQ

vars == <<now, mode, forceFloat, shortEQ, deepDischarge, lastShortEQ, lastAbsorb, discharged>>

Modes == {"SHORTEQ", "FLOAT", "ABSORB"}

\* The readings of an evaluation: the current is at most 0, or below ENDAMPS, or below
\* PULSEENDAMPS, or above both; soc and the voltage are above their limits or not.
Readings ==
  [forecast : {"clear", "partlycloudy", "other"}, soc : BOOLEAN,
   current : {"none", "endamps", "pulse", "high"}, battVoltage : BOOLEAN,
   stage : {0, 3, 4, 5, 6}]

\* The longest time of interest before now.
Before == -((DAYSBETWEENSHORTEQ + DAYSBETWEENABSBORB + 1) * Parts)

Init ==
  /\ now = 0 /\ mode = "ABSORB" /\ forceFloat = FALSE /\ shortEQ = FALSE
  /\ deepDischarge \in BOOLEAN /\ discharged = deepDischarge
  /\ lastShortEQ \in Before..0 /\ lastAbsorb \in Before..0

isTen == now % Parts = Ten

shortEQDue == now - lastShortEQ > DAYSBETWEENSHORTEQ * Parts

absorbRecent == now - lastAbsorb < DAYSBETWEENABSBORB * Parts

\* "Determine what mode to put go into once a day at 10am".
decided(r) ==
  IF ~isTen THEN mode
  ELSE IF (shortEQDue \/ deepDischarge) /\ r.forecast = "clear" /\ r.soc THEN "SHORTEQ"
  ELSE IF r.soc /\ absorbRecent /\ r.forecast \in {"clear", "partlycloudy"} THEN "FLOAT"
  ELSE "ABSORB"

\* End amps in mode ABSORB.
endAmps(r) ==
  decided(r) = "ABSORB" /\ r.stage = 3 /\ r.current = "endamps" /\ r.battVoltage

\* The short EQ is given, on a current that may be 0 or below as well.
startShortEQ(r) ==
  decided(r) = "SHORTEQ" /\ r.stage = 3 /\ r.current # "high"

\* Mutant: float is forced at any hour.
holdFloatAllDay(r) == decided(r) = "FLOAT" /\ r.stage \notin {5, 6, 0}

holdFloat(r) == isTen /\ decided(r) = "FLOAT" /\ r.stage \notin {5, 6, 0}

\* Mutant: the mode stays.
modeAfterStays(r) == decided(r)

modeAfter(r) == IF startShortEQ(r) THEN "ABSORB" ELSE decided(r)

\* Mutant: the deep discharge is not taken back.
deepDischargeStays(r) == deepDischarge

deepDischargeAfter(r) == deepDischarge /\ ~startShortEQ(r)

\* One evaluation of the script.
Evaluate(r) ==
  /\ mode' = modeAfter(r)
  /\ forceFloat' = IF decided(r) = "ABSORB" THEN endAmps(r) ELSE forceFloat \/ holdFloat(r)
  /\ lastAbsorb' = IF endAmps(r) THEN now ELSE lastAbsorb
  /\ shortEQ' = (shortEQ \/ startShortEQ(r))
  /\ lastShortEQ' = IF startShortEQ(r) THEN now ELSE lastShortEQ
  /\ deepDischarge' = deepDischargeAfter(r)
  /\ discharged' = (discharged /\ ~startShortEQ(r))
  /\ UNCHANGED now

\* The host performs the short EQ and takes its variable back.
TakeShortEQ ==
  /\ shortEQ /\ shortEQ' = FALSE
  /\ UNCHANGED <<now, mode, forceFloat, deepDischarge, lastShortEQ, lastAbsorb, discharged>>

Discharge ==
  /\ deepDischarge' = TRUE /\ discharged' = TRUE
  /\ UNCHANGED <<now, mode, forceFloat, shortEQ, lastShortEQ, lastAbsorb>>

Tick ==
  /\ now < MaxTime /\ now' = now + 1
  /\ UNCHANGED <<mode, forceFloat, shortEQ, deepDischarge, lastShortEQ, lastAbsorb, discharged>>

Next == (\E r \in Readings : Evaluate(r)) \/ TakeShortEQ \/ Discharge \/ Tick

Spec == Init /\ [][Next]_vars

----------------------------------------------------------------------------
(* Properties *)

\* The variables keep their sets, the dates lie in the past, and a deep discharge stays
\* signalled until a short EQ answers it.
TypeOK ==
  /\ now \in Nat /\ mode \in Modes
  /\ forceFloat \in BOOLEAN /\ shortEQ \in BOOLEAN
  /\ deepDischarge \in BOOLEAN /\ discharged = deepDischarge
  /\ lastShortEQ \in Int /\ lastShortEQ <= now
  /\ lastAbsorb \in Int /\ lastAbsorb <= now

\* However often and whenever the script is evaluated, and however long the mode waits for
\* the charger, two short EQs are more than DAYSBETWEENSHORTEQ days apart, unless there was
\* a deep discharge between them.
ShortEQSpaced ==
  [][(shortEQ' /\ ~shortEQ) \/ lastShortEQ' # lastShortEQ
       => now - lastShortEQ > DAYSBETWEENSHORTEQ * Parts \/ discharged]_vars

\* Float is forced anew only at the end of an absorb, or less than DAYSBETWEENABSBORB days
\* after the last one, although the mode is kept over days without an evaluation at ten.
FloatEarned ==
  [][forceFloat' /\ ~forceFloat
       => lastAbsorb' = now \/ now - lastAbsorb < DAYSBETWEENABSBORB * Parts]_vars
=============================================================================
