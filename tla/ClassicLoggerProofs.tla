------------------------- MODULE ClassicLoggerProofs -------------------------
(***************************************************************************)
(* Proofs about ClassicLogger: the types, and that no failed read ever     *)
(* leads to a command.                                                     *)
(***************************************************************************)
EXTENDS ClassicLogger, TLAPS

\* The charge stage is the high byte of its register, whatever the low byte.
LEMMA HighByte ==
  ASSUME NEW msb \in Nat, NEW lsb \in 0..255
  PROVE  readChargeStage(convertBytes(msb, lsb)) = msb
  BY DEF readChargeStage, convertBytes

\* A register that could not be read gives stage 0.
LEMMA NullStage == readChargeStage(Null) = 0
  BY DEF readChargeStage, Null

LEMMA StagesAreNumbers == Stages \subseteq Nat /\ 0 \in Stages /\ Float \in Stages
  BY DEF Stages, Absorb, Float

-----------------------------------------------------------------------------
\* Every variable keeps its type.
THEOREM TypeCorrect == Spec => []TypeOK
<1> USE ClassicAssumption, StagesAreNumbers
<1>1. Init => TypeOK
  BY DEF Init, TypeOK, Null, Rows
<1>2. TypeOK /\ [Next]_vars => TypeOK'
  <2> SUFFICES ASSUME TypeOK, [Next]_vars PROVE TypeOK'
    OBVIOUS
  <2> USE DEF settings, readings, dates, classic, history
  <2>1. CASE Begin
    <3> PICK s \in {"low", "enough", "none"} : Start(s)
      BY <2>1 DEF Begin
    <3>1. high' \in BOOLEAN
      BY Zenon DEF Start
    <3> QED BY <3>1 DEF TypeOK, Start, Null
  <2>2. CASE ReadStage
    <3>1. \A lsb \in LowBytes : readChargeStage(convertBytes(stage, lsb)) = stage
      BY HighByte DEF TypeOK
    <3>2. chargeStage' \in {stage, 0}
      BY <2>2, <3>1, NullStage DEF ReadStage
    <3>3. chargeStage' \in Stages
      BY <3>2 DEF TypeOK
    <3>4. good' \subseteq {"stage", "volts"}
      BY <2>2 DEF ReadStage, TypeOK
    <3> QED BY <2>2, <3>3, <3>4 DEF TypeOK, ReadStage
  <2>3. CASE ReadVolts
    <3>1. high' \in BOOLEAN
      BY <2>3, Zenon DEF ReadVolts, TypeOK
    <3> QED BY <2>3, <3>1 DEF TypeOK, ReadVolts
  <2>4. CASE UpdateCharger
    BY <2>4 DEF TypeOK, UpdateCharger
  <2>5. CASE Decide
    BY <2>5 DEF TypeOK, Decide
  <2>6. CASE Rest
    <3> USE DEF TypeOK, Write
    <3>1. CASE NoEndAmps BY <3>1 DEF NoEndAmps
    <3>2. CASE AboveEndAmps BY <3>2 DEF AboveEndAmps
    <3>3. CASE \E rows \in Rows : EndAmpsFloat(rows)
      <4> PICK rows \in Rows : EndAmpsFloat(rows)
        BY <3>3
      <4>1. amps' \in {"unread", "above"} \union Rows /\ pc' = "stop"
        BY DEF EndAmpsFloat, EndAmpsReached
      <4>2. said' \subseteq {"end amps reached", "starting destratification EQ"}
        BY DEF EndAmpsFloat
      <4>3. /\ sent' \subseteq {"float", "limit"} /\ did' \subseteq {"float", "limit", "row"}
            /\ stage' \in Stages /\ volts' \in BOOLEAN
        BY DEF EndAmpsFloat
      <4> QED BY <4>1, <4>2, <4>3 DEF EndAmpsFloat
    <3>4. CASE \E rows \in Rows : PerformEQ(rows)
      <4> PICK rows \in Rows : PerformEQ(rows)
        BY <3>4
      <4>1. amps' \in {"unread", "above"} \union Rows /\ pc' = "idle"
        BY DEF PerformEQ, EndAmpsReached
      <4>2. said' \subseteq {"end amps reached", "starting destratification EQ"}
        BY DEF PerformEQ
      <4> QED BY <4>1, <4>2 DEF PerformEQ
    <3>5. CASE GoOn BY <3>5 DEF GoOn
    <3>6. CASE StopLimit BY <3>6 DEF StopLimit
    <3>7. CASE StopFloat BY <3>7 DEF StopFloat
    <3>8. CASE StopSave BY <3>8 DEF StopSave
    <3> QED
      BY <2>6, <3>1, <3>2, <3>3, <3>4, <3>5, <3>6, <3>7, <3>8, Zenon DEF Rest
  <2>7. CASE Drift
    BY <2>7 DEF TypeOK, Drift
  <2>8. CASE TimePasses
    <3>1. intervalOver' \in BOOLEAN /\ maxTimeOver' \in BOOLEAN
      BY <2>8, Zenon DEF TimePasses, TypeOK
    <3> QED BY <2>8, <3>1 DEF TypeOK, TimePasses
  <2>9. CASE Kill
    BY <2>9 DEF TypeOK, Kill
  <2>10. CASE UNCHANGED vars
    <3>1. /\ remembers' \in BOOLEAN /\ high' \in BOOLEAN /\ volts' \in BOOLEAN
          /\ intervalOver' \in BOOLEAN /\ maxTimeOver' \in BOOLEAN
      BY <2>10, Zenon DEF TypeOK, vars
    <3> QED BY <2>10, <3>1 DEF TypeOK, vars
  <2> QED
    BY <2>1, <2>2, <2>3, <2>4, <2>5, <2>6, <2>7, <2>8, <2>9, <2>10 DEF Next
<1> QED BY <1>1, <1>2, PTL DEF Spec

-----------------------------------------------------------------------------
\* What a decision rests on was read in this run; null is neither.
Grounded ==
  /\ chargeStage = Absorb => "stage" \in good
  /\ high => "volts" \in good
  /\ pc \in {"stop float", "stop save"} => high
  /\ pc \in {"stage", "volts", "record", "decide", "amps"} => sent = {}

\* A command rests on a reading this run has got, whatever subset of the
\* reads fails.
THEOREM NoBlindCommandCorrect == Spec => []NoBlindCommand
<1> DEFINE Inv == Grounded /\ NoBlindCommand
<1>1. Init => Inv
  BY DEF Init, Grounded, NoBlindCommand, Null, Absorb
<1>2. Inv /\ TypeOK /\ [Next]_vars => Inv'
  <2> SUFFICES ASSUME Inv, TypeOK, [Next]_vars PROVE Inv'
    OBVIOUS
  <2> USE DEF Grounded, NoBlindCommand, settings, readings, dates, classic, history
  <2>1. CASE Begin
    BY <2>1 DEF Begin, Start, Null, Absorb
  <2>2. CASE ReadStage
    BY <2>2, NullStage DEF ReadStage, Absorb
  <2>3. CASE ReadVolts
    BY <2>3 DEF ReadVolts
  <2>4. CASE UpdateCharger \/ Decide
    <3>1. CASE UpdateCharger BY <3>1 DEF UpdateCharger
    <3>2. CASE Decide BY <3>2 DEF Decide
    <3> QED BY <2>4, <3>1, <3>2, Zenon
  <2>5. CASE Rest
    <3> USE DEF Write
    <3>1. CASE NoEndAmps BY <3>1 DEF NoEndAmps
    <3>2. CASE AboveEndAmps BY <3>2 DEF AboveEndAmps
    <3>3. CASE \E rows \in Rows : EndAmpsFloat(rows)
      <4>1. chargeStage' = Absorb /\ "stage" \in good'
        BY <3>3 DEF EndAmpsFloat, EndAmpsReached
      <4>2. high' = high /\ good' = good /\ pc' = "stop"
        BY <3>3 DEF EndAmpsFloat, EndAmpsReached
      <4> QED BY <4>1, <4>2
    <3>4. CASE \E rows \in Rows : PerformEQ(rows)
      <4>1. /\ chargeStage' = chargeStage /\ high' = high /\ good' = good
            /\ sent' = sent /\ pc' = "idle"
        BY <3>4 DEF PerformEQ, EndAmpsReached
      <4> QED BY <4>1
    <3>5. CASE GoOn BY <3>5 DEF GoOn
    <3>6. CASE StopLimit BY <3>6 DEF StopLimit, StopDue
    <3>7. CASE StopFloat BY <3>7 DEF StopFloat
    <3>8. CASE StopSave BY <3>8 DEF StopSave
    <3> QED
      BY <2>5, <3>1, <3>2, <3>3, <3>4, <3>5, <3>6, <3>7, <3>8, Zenon DEF Rest
  <2>6. CASE Drift \/ TimePasses \/ Kill \/ UNCHANGED vars
    <3>1. CASE Drift BY <3>1 DEF Drift
    <3>2. CASE TimePasses BY <3>2 DEF TimePasses
    <3>3. CASE Kill BY <3>3 DEF Kill
    <3>4. CASE UNCHANGED vars BY <3>4 DEF vars
    <3> QED BY <2>6, <3>1, <3>2, <3>3, <3>4, Zenon
  <2> QED BY <2>1, <2>2, <2>3, <2>4, <2>5, <2>6 DEF Next
<1>3. Inv => NoBlindCommand
  OBVIOUS
<1> QED BY <1>1, <1>2, <1>3, TypeCorrect, PTL DEF Spec
=============================================================================
