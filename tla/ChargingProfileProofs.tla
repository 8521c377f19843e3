------------------------- MODULE ChargingProfileProofs -------------------------
(***************************************************************************)
(* Proofs about ChargingProfile, for all numbers of days and all parts of  *)
(* a day.  The spacing of the short EQs rests on one fact: a mode SHORTEQ  *)
(* that waits for the charger was decided on a reason that still holds.    *)
(***************************************************************************)
EXTENDS ChargingProfile, TLAPS

Gap == DAYSBETWEENSHORTEQ * Parts

\* A short EQ that is decided, or waits, is due.
Waiting == mode = "SHORTEQ" => now - lastShortEQ > Gap \/ discharged

IInv == TypeOK /\ Waiting

\* The day's intervals are natural numbers.
LEMMA GapNat == Gap \in Nat /\ DAYSBETWEENABSBORB * Parts \in Nat /\ Before \in Int
BY ProfileAssumption DEF Gap, Before

\* What is decided is a mode, and a short EQ is decided on the date or on a discharge.
LEMMA DecidedFits ==
  ASSUME IInv, NEW r \in Readings
  PROVE  /\ decided(r) \in Modes
         /\ decided(r) = "SHORTEQ" => now - lastShortEQ > Gap \/ discharged
BY DEF IInv, TypeOK, Waiting, decided, shortEQDue, Gap, Modes

\* An evaluation keeps the invariant, and a short EQ it gives was due.
LEMMA EvaluateStep ==
  ASSUME IInv, NEW r \in Readings, Evaluate(r)
  PROVE  /\ IInv'
         /\ startShortEQ(r) => now - lastShortEQ > Gap \/ discharged
<1> DEFINE given == startShortEQ(r)
<1>1. decided(r) \in Modes /\ (decided(r) = "SHORTEQ" => now - lastShortEQ > Gap \/ discharged)
  BY DecidedFits
<1>2. given => decided(r) = "SHORTEQ"
  BY DEF startShortEQ
<1>3. /\ now' = now /\ mode' = (IF given THEN "ABSORB" ELSE decided(r))
      /\ lastShortEQ' = (IF given THEN now ELSE lastShortEQ)
      /\ lastAbsorb' = (IF endAmps(r) THEN now ELSE lastAbsorb)
  BY DEF Evaluate, modeAfter
<1>4. /\ deepDischarge' = (deepDischarge /\ ~given)
      /\ discharged' = (discharged /\ ~given)
      /\ shortEQ' = (shortEQ \/ given)
      /\ forceFloat' \in BOOLEAN
  <2>1. forceFloat' = IF decided(r) = "ABSORB" THEN endAmps(r) ELSE forceFloat \/ holdFloat(r)
    BY DEF Evaluate
  <2>2. endAmps(r) \in BOOLEAN /\ (forceFloat \/ holdFloat(r)) \in BOOLEAN
    BY DEF endAmps, holdFloat
  <2> QED  BY <2>1, <2>2 DEF Evaluate, deepDischargeAfter
<1>5. TypeOK'
  <2>1. deepDischarge' \in BOOLEAN /\ shortEQ' \in BOOLEAN /\ discharged' = deepDischarge'
    BY <1>4, Zenon DEF IInv, TypeOK
  <2>2. now' \in Nat /\ mode' \in Modes
    BY <1>1, <1>3 DEF IInv, TypeOK, Modes
  <2>3. lastShortEQ' \in Int /\ lastShortEQ' <= now' /\ lastAbsorb' \in Int /\ lastAbsorb' <= now'
    BY <1>3 DEF IInv, TypeOK
  <2> QED  BY <1>4, <2>1, <2>2, <2>3 DEF TypeOK
<1>6. Waiting'
  <2>1. CASE given
    BY <1>3, <2>1 DEF Waiting
  <2>2. CASE ~given
    <3>1. discharged' = discharged
      BY <1>4, <2>2 DEF IInv, TypeOK
    <3> QED  BY <1>1, <1>3, <2>2, <3>1 DEF Waiting
  <2> QED  BY <2>1, <2>2
<1> QED  BY <1>1, <1>2, <1>5, <1>6 DEF IInv

\* The invariant holds at first.
LEMMA InitInv == Init => IInv
<1> SUFFICES ASSUME Init PROVE IInv
  OBVIOUS
<1>1. mode \in Modes /\ mode # "SHORTEQ"
  BY DEF Init, Modes
<1>2. forceFloat \in BOOLEAN /\ shortEQ \in BOOLEAN /\ deepDischarge \in BOOLEAN
        /\ discharged = deepDischarge
  BY Zenon DEF Init
<1>3. lastShortEQ \in Before..0 /\ lastAbsorb \in Before..0 /\ now = 0
  BY DEF Init
<1> QED  BY <1>1, <1>2, <1>3, GapNat DEF IInv, TypeOK, Waiting

\* Every step keeps it.
LEMMA NextInv == IInv /\ [Next]_vars => IInv'
<1> SUFFICES ASSUME IInv, [Next]_vars PROVE IInv'
  OBVIOUS
<1>1. CASE \E r \in Readings : Evaluate(r)
  BY <1>1, EvaluateStep
<1>2. CASE TakeShortEQ
  BY <1>2 DEF TakeShortEQ, IInv, TypeOK, Waiting
<1>3. CASE Discharge
  <2>1. /\ deepDischarge' = TRUE /\ discharged' = TRUE
        /\ UNCHANGED <<now, mode, forceFloat, shortEQ, lastShortEQ, lastAbsorb>>
    BY <1>3 DEF Discharge
  <2> QED  BY <2>1 DEF IInv, TypeOK, Waiting
<1>4. CASE Tick
  <2>1. now' = now + 1 /\ Gap \in Nat
    BY <1>4, GapNat DEF Tick
  <2>2. UNCHANGED <<mode, forceFloat, shortEQ, deepDischarge, lastShortEQ, lastAbsorb, discharged>>
    BY <1>4 DEF Tick
  <2>3. TypeOK'
    BY <2>1, <2>2 DEF IInv, TypeOK
  <2>4. Waiting'
    BY <2>1, <2>2 DEF IInv, TypeOK, Waiting
  <2> QED  BY <2>3, <2>4 DEF IInv
<1>5. CASE UNCHANGED vars
  BY <1>5 DEF vars, IInv, TypeOK, Waiting
<1> QED  BY <1>1, <1>2, <1>3, <1>4, <1>5 DEF Next

\* The variables of the profile keep their sets (charging-profile.js:8-52), a deep discharge
\* stays signalled until a short EQ answers it, and a waiting short EQ is due.
THEOREM ProfileCorrect == Spec => [](TypeOK /\ Waiting)
<1>1. Init => IInv  BY InitInv
<1>2. IInv /\ [Next]_vars => IInv'  BY NextInv
<1> QED  BY <1>1, <1>2, PTL DEF Spec, IInv

\* Two short EQs are more than DAYSBETWEENSHORTEQ days apart, or a deep discharge lies
\* between them, whenever the script is evaluated.
THEOREM ShortEQSpacedCorrect == Spec => ShortEQSpaced
<1> DEFINE Gives == (shortEQ' /\ ~shortEQ) \/ lastShortEQ' # lastShortEQ
           Due == now - lastShortEQ > DAYSBETWEENSHORTEQ * Parts \/ discharged
<1>1. IInv /\ [Next]_vars => [Gives => Due]_vars
  <2> SUFFICES ASSUME IInv, [Next]_vars, Gives PROVE Due
    OBVIOUS
  <2>1. CASE \E r \in Readings : Evaluate(r)
    <3>1. PICK r \in Readings : Evaluate(r)
      BY <2>1
    <3>2. startShortEQ(r)
      BY <3>1 DEF Evaluate
    <3> QED  BY <3>1, <3>2, EvaluateStep DEF Gap
  <2>2. CASE TakeShortEQ
    BY <2>2 DEF TakeShortEQ
  <2>3. CASE Discharge \/ Tick \/ UNCHANGED vars
    BY <2>3 DEF Discharge, Tick, vars
  <2> QED  BY <2>1, <2>2, <2>3 DEF Next
<1>2. Init => IInv  BY InitInv
<1>3. IInv /\ [Next]_vars => IInv'  BY NextInv
<1> QED  BY <1>1, <1>2, <1>3, PTL DEF Spec, ShortEQSpaced

\* Float is forced anew only at the end of an absorb or within DAYSBETWEENABSBORB days of one.
THEOREM FloatEarnedCorrect == Spec => FloatEarned
<1> DEFINE Earned == lastAbsorb' = now \/ now - lastAbsorb < DAYSBETWEENABSBORB * Parts
           Forces == forceFloat' /\ ~forceFloat
<1>1. [Next]_vars => [Forces => Earned]_vars
  <2> SUFFICES ASSUME [Next]_vars, Forces PROVE Earned
    OBVIOUS
  <2>1. CASE \E r \in Readings : Evaluate(r)
    <3>1. PICK r \in Readings : Evaluate(r)
      BY <2>1
    <3>2. CASE decided(r) = "ABSORB"
      <4>1. endAmps(r)
        BY <3>1, <3>2 DEF Evaluate
      <4> QED  BY <3>1, <4>1 DEF Evaluate
    <3>3. CASE decided(r) # "ABSORB"
      <4>1. holdFloat(r)
        BY <3>1, <3>3 DEF Evaluate
      <4>2. isTen /\ decided(r) = "FLOAT"
        BY <4>1 DEF holdFloat
      <4>3. absorbRecent
        BY <4>2 DEF decided
      <4> QED  BY <4>3 DEF absorbRecent
    <3> QED  BY <3>2, <3>3
  <2>2. CASE TakeShortEQ \/ Discharge \/ Tick \/ UNCHANGED vars
    BY <2>2 DEF TakeShortEQ, Discharge, Tick, vars
  <2> QED  BY <2>1, <2>2 DEF Next
<1> QED  BY <1>1, PTL DEF Spec, FloatEarned
=============================================================================
