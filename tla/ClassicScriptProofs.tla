-------------------------- MODULE ClassicScriptProofs --------------------------
(***************************************************************************)
(* Proofs about ClassicScript, for all voltages, times, limits and counts. *)
(* The invariant says, step by step, which of the command's writes the     *)
(* registers already show.                                                 *)
(***************************************************************************)
EXTENDS ClassicScript, TLAPS

Names == Charges \union {"forceeq", "limit", "forcefloat", "forcebulk"}

\* The session in which each step can be.
Sessions ==
  /\ final => command.name \in Charges
  /\ pc = "limit" => command.name \in Charges \union {"limit"}
  /\ pc \in {"volts", "time"} => force = "EQ"
  /\ pc = "sleep" => command.name \in Charges
  /\ pc = "done" /\ command.name \in Charges => final

\* The volts and the time of this command are written when EQ is.
EQWritten ==
  /\ pc = "time" => registers.volts = eqVolts
  /\ pc = "stage" /\ force = "EQ" => registers.volts = eqVolts /\ registers.time = command.time

\* So is its limit, unless the other client has written it since.
LimitWritten ==
  command.name \in Charges /\ ~other
    /\ (pc \in {"volts", "time", "stage"} \/ (final /\ pc \in {"close", "done"}))
  => registers.limit = limitCurrent

\* A final session forces bulk before it closes.
BulkForced == final /\ pc \in {"close", "done"} => registers.stage # "EQ"

Inv == Sessions /\ EQWritten /\ LimitWritten /\ BulkForced
IInv == TypeOK /\ Inv

\* The parts of a command.
LEMMA CommandFits ==
  ASSUME NEW c \in Commands \union {Command("forcefloat", 0, 0, 0, 0)}
  PROVE  /\ c.name \in Names
         /\ c.volts \in Nat /\ c.time \in Nat /\ c.amps \in Nat /\ c.count \in Nat
BY ScriptAssumption DEF Commands, Command, Names, Charges

\* The words written are naturals, and those for the volts fit the volts asked for.
LEMMA WordsFit ==
  ASSUME TypeOK
  PROVE  /\ eqVolts \in Nat /\ FitsVolts(eqVolts)
         /\ limitCurrent \in Nat /\ force \in Stages
<1>1. /\ command.name \in Names
      /\ command.volts \in Nat /\ command.time \in Nat /\ command.amps \in Nat
  BY CommandFits DEF TypeOK
<1>2. eqVolts \in Nat /\ FitsVolts(eqVolts)
  BY <1>1 DEF eqVolts, FitsVolts
<1>3. limitCurrent \in Nat
  BY <1>1 DEF limitCurrent, LIMIT
<1>4. force \in Stages
  BY DEF force, Stages
<1> QED  BY <1>2, <1>3, <1>4

\* The lowered and the raised limits.
LEMMA LimitsFit ==
  ASSUME command.name \in Charges
  PROVE  /\ final => limitCurrent \in {800, 860}
         /\ ~final => limitCurrent \in {300, 310}
BY DEF limitCurrent, Charges, LIMIT

\* A performed write keeps the registers well formed and changes the one it names.
LEMMA WriteFits ==
  ASSUME TypeOK, pc \in Writes, Performed
  PROVE  /\ registers' \in [limit : Nat, volts : Nat, time : Nat, stage : Stages]
         /\ other' \in BOOLEAN
         /\ registers'.limit = (IF pc = "limit" THEN limitCurrent ELSE registers.limit)
         /\ registers'.volts = (IF pc = "volts" THEN eqVolts ELSE registers.volts)
         /\ registers'.time = (IF pc = "time" THEN command.time ELSE registers.time)
         /\ registers'.stage = (IF pc = "stage" THEN force ELSE registers.stage)
<1>1. command.time \in Nat
  BY CommandFits DEF TypeOK
<1>2. registers' = Written(pc) /\ other' = (IF pc = "limit" THEN FALSE ELSE other)
  BY DEF Performed
<1>3. other' \in BOOLEAN
  BY <1>2, Zenon DEF TypeOK
<1>4. CASE pc = "unlock"
  BY <1>2, <1>3, <1>4 DEF TypeOK, Written
<1>5. CASE pc = "limit"
  BY <1>2, <1>3, <1>5, WordsFit DEF TypeOK, Written
<1>6. CASE pc = "volts"
  BY <1>2, <1>3, <1>6, WordsFit DEF TypeOK, Written
<1>7. CASE pc = "time"
  BY <1>1, <1>2, <1>3, <1>7 DEF TypeOK, Written
<1>8. CASE pc = "stage"
  BY <1>2, <1>3, <1>8, WordsFit DEF TypeOK, Written
<1> QED  BY <1>4, <1>5, <1>6, <1>7, <1>8 DEF Writes

\* A command keeps its words as long as its session does not change.
LEMMA WordsKept ==
  ASSUME UNCHANGED <<command, final>>
  PROVE  UNCHANGED <<eqVolts, limitCurrent, force>>
BY DEF eqVolts, limitCurrent, force

\* What was cut off has nothing to keep but its types.
LEMMA CutOff ==
  ASSUME Inv, pc' = "cut", UNCHANGED <<command, final>>
  PROVE  Inv'
BY DEF Inv, Sessions, EQWritten, LimitWritten, BulkForced

\* The invariant holds at first.
LEMMA InitInv == Init => IInv
<1> SUFFICES ASSUME Init PROVE IInv
  OBVIOUS
<1>1. TypeOK
  <2>1. registers \in [limit : Nat, volts : Nat, time : Nat, stage : Stages]
    BY DEF Init, Stages
  <2>2. final \in BOOLEAN /\ other \in BOOLEAN
    BY Zenon DEF Init
  <2>3. command \in Commands \union {Command("forcefloat", 0, 0, 0, 0)}
    BY Zenon DEF Init
  <2>4. pc = "done" /\ pulse = 1
    BY DEF Init
  <2> QED  BY <2>1, <2>2, <2>3, <2>4 DEF TypeOK
<1>2. Inv
  BY DEF Init, Command, Charges, Inv, Sessions, EQWritten, LimitWritten, BulkForced
<1> QED  BY <1>1, <1>2 DEF IInv

\* A write that is answered keeps it.
LEMMA WriteOkStep == ASSUME IInv, WriteOk PROVE IInv'
<1>1. TypeOK /\ Inv /\ pc \in Writes /\ Performed /\ pc' = After(pc)
  BY DEF IInv, WriteOk
<1>2. UNCHANGED <<command, pulse, final>> /\ other' = (IF pc = "limit" THEN FALSE ELSE other)
  BY <1>1 DEF Performed
<1>3. UNCHANGED <<eqVolts, limitCurrent, force>>
  BY <1>2, WordsKept
<1>4. pc' \in Writes \union {"close"}
  BY <1>1 DEF Writes, After, AfterUnlock, AfterLimit
<1>5. TypeOK'
  BY <1>1, <1>2, <1>4, WriteFits DEF TypeOK
<1>6. CASE pc = "unlock"
  <2>1. pc' = AfterUnlock
    BY <1>1, <1>6 DEF After
  <2>2. UNCHANGED registers /\ UNCHANGED other
    BY <1>1, <1>6 DEF Performed, Written
  <2>3. pc' \in {"limit", "volts", "stage"} /\ (command.name \in Charges => pc' = "limit")
          /\ (pc' = "limit" => final \/ command.name \in Charges \union {"limit"})
          /\ (pc' = "volts" => force = "EQ") /\ (pc' = "stage" => force # "EQ")
    BY <2>1 DEF AfterUnlock
  <2> QED  BY <1>1, <1>2, <1>3, <1>5, <2>2, <2>3
           DEF IInv, Inv, Sessions, EQWritten, LimitWritten, BulkForced
<1>7. CASE pc = "limit"
  <2>1. pc' = AfterLimit
    BY <1>1, <1>7 DEF After
  <2>2. registers'.limit = limitCurrent
    BY <1>1, <1>7, WriteFits
  <2>3. /\ final => pc' = "stage" /\ force # "EQ"
        /\ pc' = "close" => ~final
        /\ pc' \in {"stage", "close", "volts"}
        /\ pc' = "stage" => final
    BY <2>1 DEF AfterLimit, force
  <2>4. pc' = "volts" => force = "EQ"
    <3>1. command.name \in Names
      BY <1>1, CommandFits DEF TypeOK
    <3>2. command.name \notin {"forcefloat", "forcebulk"}
      BY <1>1, <1>7 DEF Inv, Sessions, Charges
    <3> QED  BY <2>1, <3>1, <3>2 DEF AfterLimit, force, Names, Charges
  <2> QED  BY <1>1, <1>2, <1>3, <1>5, <2>2, <2>3, <2>4
           DEF IInv, Inv, Sessions, EQWritten, LimitWritten, BulkForced
<1>8. CASE pc = "volts"
  <2>1. pc' = "time" /\ registers'.volts = eqVolts /\ registers'.limit = registers.limit
    BY <1>1, <1>8, WriteFits DEF After
  <2> QED  BY <1>1, <1>2, <1>3, <1>5, <1>8, <2>1
           DEF IInv, Inv, Sessions, EQWritten, LimitWritten, BulkForced
<1>9. CASE pc = "time"
  <2>1. /\ pc' = "stage" /\ registers'.time = command.time
        /\ registers'.volts = registers.volts /\ registers'.limit = registers.limit
    BY <1>1, <1>9, WriteFits DEF After
  <2> QED  BY <1>1, <1>2, <1>3, <1>5, <1>9, <2>1
           DEF IInv, Inv, Sessions, EQWritten, LimitWritten, BulkForced
<1>10. CASE pc = "stage"
  <2>1. pc' = "close" /\ registers'.stage = force /\ registers'.limit = registers.limit
    BY <1>1, <1>10, WriteFits DEF After
  <2>2. final => force # "EQ"
    BY DEF force
  <2> QED  BY <1>1, <1>2, <1>3, <1>5, <1>10, <2>1, <2>2
           DEF IInv, Inv, Sessions, EQWritten, LimitWritten, BulkForced
<1> QED  BY <1>1, <1>6, <1>7, <1>8, <1>9, <1>10 DEF Writes

\* Every step keeps it.
LEMMA NextInv == IInv /\ [Next]_vars => IInv'
<1> SUFFICES ASSUME IInv, [Next]_vars PROVE IInv'
  OBVIOUS
<1> USE DEF IInv
<1>1. ASSUME NEW c \in Commands, Start(c) PROVE IInv'
  <2>1. /\ command' = c /\ pc' = "connect" /\ pulse' = 1
        /\ final' = (c.name = "pulseeq" /\ c.count <= 1) /\ UNCHANGED <<registers, other>>
    BY <1>1 DEF Start
  <2>2. final' \in BOOLEAN /\ (final' => c.name \in Charges)
    BY <2>1 DEF Charges
  <2>3. TypeOK'
    BY <2>1, <2>2 DEF TypeOK
  <2> QED  BY <2>1, <2>2, <2>3 DEF Inv, Sessions, EQWritten, LimitWritten, BulkForced
<1>2. CASE Connect
  <2>1. pc' = "unlock" /\ UNCHANGED <<command, pulse, final, registers, other>>
    BY <1>2 DEF Connect
  <2> QED  BY <2>1 DEF TypeOK, Writes, Inv, Sessions, EQWritten, LimitWritten, BulkForced
<1>3. CASE WriteOk
  BY <1>3, WriteOkStep
<1>4. CASE AnswerLost
  <2>1. pc \in Writes /\ Performed /\ pc' = "cut" /\ UNCHANGED <<command, pulse, final>>
    BY <1>4 DEF AnswerLost, Performed
  <2>2. TypeOK'
    BY <2>1, WriteFits DEF TypeOK
  <2> QED  BY <2>1, <2>2, CutOff
<1>5. CASE WriteFails \/ Kill
  <2>1. pc' = "cut" /\ UNCHANGED <<command, pulse, final, registers, other>>
    BY <1>5 DEF WriteFails, Kill
  <2>2. TypeOK'
    BY <2>1 DEF TypeOK
  <2> QED  BY <2>1, <2>2, CutOff
<1>6. CASE Close
  <2>1. /\ pc = "close" /\ UNCHANGED <<command, pulse, final, registers, other>>
        /\ pc' = IF command.name \in Charges /\ ~final THEN "sleep" ELSE "done"
    BY <1>6 DEF Close
  <2>2. UNCHANGED <<eqVolts, limitCurrent, force>>
    BY <2>1, WordsKept
  <2> QED  BY <2>1, <2>2 DEF TypeOK, Inv, Sessions, EQWritten, LimitWritten, BulkForced
<1>7. CASE Sleep
  <2> DEFINE more == command.name = "pulseeq" /\ MorePulses(pulse + 1)
  <2>1. /\ pc = "sleep" /\ pc' = "connect" /\ UNCHANGED <<command, registers, other>>
        /\ pulse' = (IF more THEN pulse + 1 ELSE pulse) /\ final' = ~more
    BY <1>7 DEF Sleep
  <2>2. command.count \in Nat
    BY CommandFits DEF TypeOK
  <2>3. pulse' \in Nat /\ (pulse' = 1 \/ pulse' < command.count)
    BY <2>1, <2>2 DEF TypeOK, MorePulses
  <2>4. final' \in BOOLEAN
    BY <2>1
  <2>5. TypeOK'
    BY <2>1, <2>3, <2>4 DEF TypeOK
  <2> QED  BY <2>1, <2>5 DEF Inv, Sessions, EQWritten, LimitWritten, BulkForced
<1>8. CASE Drift \/ OtherFloat
  <2>1. UNCHANGED <<command, pc, pulse, final, other>>
    BY <1>8 DEF Drift, OtherFloat
  <2>2. /\ registers' \in [limit : Nat, volts : Nat, time : Nat, stage : Stages]
        /\ registers'.limit = registers.limit /\ registers'.volts = registers.volts
        /\ registers'.time = registers.time /\ registers'.stage # "EQ"
    BY <1>8 DEF Drift, OtherFloat, TypeOK, Stages
  <2>3. UNCHANGED <<eqVolts, limitCurrent, force>>
    BY <2>1, WordsKept
  <2>4. TypeOK'
    BY <2>1, <2>2 DEF TypeOK
  <2> QED  BY <2>1, <2>2, <2>3, <2>4 DEF Inv, Sessions, EQWritten, LimitWritten, BulkForced
<1>9. CASE OtherLimit
  <2>1. UNCHANGED <<command, pc, pulse, final>> /\ other' = TRUE
    BY <1>9 DEF OtherLimit
  <2>2. /\ registers' \in [limit : Nat, volts : Nat, time : Nat, stage : Stages]
        /\ registers'.volts = registers.volts /\ registers'.time = registers.time
        /\ registers'.stage = registers.stage
    BY <1>9 DEF OtherLimit, TypeOK
  <2>3. UNCHANGED <<eqVolts, limitCurrent, force>>
    BY <2>1, WordsKept
  <2>4. TypeOK'
    BY <2>1, <2>2 DEF TypeOK
  <2> QED  BY <2>1, <2>2, <2>3, <2>4 DEF Inv, Sessions, EQWritten, LimitWritten, BulkForced
<1>10. CASE UNCHANGED vars
  <2>1. UNCHANGED <<command, pc, pulse, final, registers, other>>
    BY <1>10 DEF vars
  <2>2. UNCHANGED <<eqVolts, limitCurrent, force>>
    BY <2>1, WordsKept
  <2> QED  BY <2>1, <2>2 DEF TypeOK, Inv, Sessions, EQWritten, LimitWritten, BulkForced
<1> QED  BY <1>1, <1>2, <1>3, <1>4, <1>5, <1>6, <1>7, <1>8, <1>9, <1>10 DEF Next, Script

\* The variables of the script keep their sets, for any arguments (classic.py:122-167).
THEOREM TypeCorrect == Spec => []TypeOK
<1>1. IInv => TypeOK  BY DEF IInv
<1> QED  BY <1>1, InitInv, NextInv, PTL DEF Spec

\* A pulseeq or finishcharge that came to its end leaves no EQ on and the limit raised.
THEOREM ChargeEndedCorrect == Spec => []ChargeEnded
<1>1. IInv => ChargeEnded
  <2> SUFFICES ASSUME IInv, pc = "done", command.name \in Charges
               PROVE  registers.stage # "EQ" /\ (~other => registers.limit \in {800, 860})
    BY DEF ChargeEnded
  <2>1. final
    BY DEF IInv, Inv, Sessions
  <2> QED  BY <2>1, LimitsFit DEF IInv, Inv, LimitWritten, BulkForced
<1> QED  BY <1>1, InitInv, NextInv, PTL DEF Spec

\* EQ is forced only with the volts and the time of the command that forces it, and by
\* pulseeq and finishcharge under their lowered limit, unless the other client raised it.
THEOREM EQForcedSafelyCorrect == Spec => EQForcedSafely
<1> DEFINE Forces == registers'.stage = "EQ" /\ registers.stage # "EQ"
           Safe == /\ FitsVolts(registers.volts) /\ registers.time = command.time
                   /\ command.name \in Charges /\ ~other => registers.limit \in {300, 310}
<1>1. IInv /\ [Next]_vars => [Forces => Safe]_vars
  <2> SUFFICES ASSUME IInv, [Next]_vars, Forces PROVE Safe
    OBVIOUS
  <2>1. CASE WriteOk \/ AnswerLost
    <3>1. pc \in Writes /\ Performed /\ TypeOK /\ Inv
      BY <2>1 DEF WriteOk, AnswerLost, IInv
    <3>2. pc = "stage" /\ force = "EQ"
      BY <3>1, WriteFits
    <3>3. ~final
      BY <3>2 DEF force
    <3>4. FitsVolts(eqVolts) /\ registers.volts = eqVolts /\ registers.time = command.time
      BY <3>1, <3>2, WordsFit DEF Inv, EQWritten
    <3>5. command.name \in Charges /\ ~other => registers.limit \in {300, 310}
      BY <3>1, <3>2, <3>3, LimitsFit DEF Inv, LimitWritten
    <3> QED  BY <3>4, <3>5
  <2>2. CASE Drift \/ OtherFloat \/ OtherLimit
    BY <2>2 DEF Drift, OtherFloat, OtherLimit, IInv, TypeOK, Stages
  <2>3. CASE UNCHANGED registers
    BY <2>3
  <2> QED  BY <2>1, <2>2, <2>3
           DEF Next, Script, Start, Connect, WriteFails, Close, Sleep, Kill, vars
<1> QED  BY <1>1, InitInv, NextInv, PTL DEF Spec, EQForcedSafely
=============================================================================
