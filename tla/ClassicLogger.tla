----------------------------- MODULE ClassicLogger -----------------------------
(***************************************************************************)
(* www/classic/classiclogger.php: a script started again and again that    *)
(* reads the Midnite Classic, stores the reading, and steers destratifying *)
(* equalization (DSEQ).  All it keeps from run to run is the charge phase  *)
(* in its settings.  MidniteClassic catches every exception of the Modbus  *)
(* master: a failed read yields null, which counts as 0, and a failed      *)
(* write goes unnoticed.                                                   *)
(*                                                                         *)
(* The Classic, the rows of the data logger and the class Settings are     *)
(* external.  The dates of the last and the started DSEQ are only saved    *)
(* behind a fatal error (see PerformEQ), so whether their intervals have   *)
(* passed is a flag that time sets once and for all.                       *)
(***************************************************************************)
EXTENDS Integers

CONSTANTS
  useRealEndAmps,   \* settings
  LowBytes          \* bound: low bytes of the charge stage register

ASSUME ClassicAssumption ==
  /\ useRealEndAmps \in BOOLEAN
  /\ LowBytes \subseteq 0..255

VARIABLES
  pc,             \* "idle" between runs, or the step of the run
  savedPhase,     \* chargePhase as stored: 1 from the decision for a DSEQ on
  phase,          \* $settings->chargePhase in the running script
  remembers,      \* saveChargePhase sets the property as well as the store
  soc,            \* BatSoc of the latest row against DSEQSoC, or "none"
  chargeStage,    \* as read in this run
  high,           \* battVoltage, as read, lies above absorbVoltage*24+1
  intervalOver,   \* more than DSEQInterval since lastDateDSEQ
  maxTimeOver,    \* more than DSEQMaxTime since dateStartedDSEQ
  stage, volts,   \* the Classic: charge stage, and whether the voltage is high
  good,           \* history: the readings that succeeded in this run
  amps,           \* history: what the end amps rows of this run showed
  said,           \* history: what this run has logged
  sent,           \* history: the commands this run has tried to send
  did             \* history: those that reached the Classic, and "row" for the database

vars == <<pc, savedPhase, phase, remembers, soc, chargeStage, high, intervalOver,
          maxTimeOver, stage, volts, good, amps, said, sent, did>>

settings == <<savedPhase, phase, remembers>>
readings == <<soc, chargeStage, high>>
dates == <<intervalOver, maxTimeOver>>
classic == <<stage, volts>>
history == <<good, amps, said, sent, did>>

Absorb == 3
Float == 5
\* Resting, absorb, bulk, float and EQ; the other codes act like these here.
Stages == {0, Absorb, 4, Float, 7}

\* PHP's null, in arithmetic and comparisons with numbers.
Null == 0

convertBytes(msb, lsb) == msb * 256 + lsb

\* Mutant: the low byte of the register.
LowByte(reg) == reg % 256

readChargeStage(reg) == reg \div 256

-----------------------------------------------------------------------------
Init ==
  /\ pc = "idle"
  /\ savedPhase = 0 /\ phase = 0
  /\ remembers \in BOOLEAN
  /\ soc = "none" /\ chargeStage = Null /\ high = FALSE
  /\ intervalOver \in BOOLEAN /\ maxTimeOver \in BOOLEAN
  /\ stage \in Stages /\ volts \in BOOLEAN
  /\ good = {} /\ amps = "unread" /\ said = {} /\ sent = {} /\ did = {}

\* A run begins: the settings and the latest row of the inverter are read.
Start(s) ==
  /\ pc = "idle"
  /\ phase' = savedPhase
  /\ soc' = s
  /\ chargeStage' = Null /\ high' = FALSE
  /\ good' = {} /\ amps' = "unread" /\ said' = {} /\ sent' = {} /\ did' = {}
  /\ pc' = "stage"
  /\ UNCHANGED <<savedPhase, remembers, dates, classic>>

\* readKeyValues, register by register: the two that decide anything.
ReadStage ==
  /\ pc = "stage"
  /\ \/ \E lsb \in LowBytes :
          /\ chargeStage' = readChargeStage(convertBytes(stage, lsb))
          /\ good' = good \union {"stage"}
     \/ chargeStage' = readChargeStage(Null) /\ good' = good
  /\ pc' = "volts"
  /\ UNCHANGED <<settings, soc, high, dates, classic, amps, said, sent, did>>

ReadVolts ==
  /\ pc = "volts"
  /\ \/ high' = volts /\ good' = good \union {"volts"}
     \/ high' = FALSE /\ good' = good
  /\ pc' = "record"
  /\ UNCHANGED <<settings, soc, chargeStage, dates, classic, amps, said, sent, did>>

\* updateCharger: the row is stored, with 0 for what was not read, or the
\* query fails and the script goes on.
UpdateCharger ==
  /\ pc = "record"
  /\ did' \in {did, did \union {"row"}}
  /\ pc' = "decide"
  /\ UNCHANGED <<settings, readings, dates, classic, good, amps, said, sent>>

\* Mutant: one reason is not enough.
DSEQDueBoth == phase = 0 /\ intervalOver /\ soc # "enough"

\* A missing row has no BatSoc, and null is below every DSEQSoC.
DSEQDue == phase = 0 /\ (intervalOver \/ soc # "enough")

\* isUpToDate() is always true; a DSEQ that is due starts charge phase 1.
Decide ==
  /\ pc = "decide"
  /\ savedPhase' = IF DSEQDue THEN 1 ELSE savedPhase
  /\ phase' = IF DSEQDue /\ remembers THEN 1 ELSE phase
  /\ pc' = "amps"
  /\ UNCHANGED <<remembers, readings, dates, classic, history>>

-----------------------------------------------------------------------------
\* A command is written to a register, or the write fails unnoticed.
Write(command) ==
  /\ sent' = sent \union {command}
  /\ \/ /\ did' = did \union {command}
        /\ stage' = IF command = "float" THEN Float ELSE stage
     \/ UNCHANGED <<did, stage>>
  /\ UNCHANGED volts

\* The end amps test does not apply.
NoEndAmps ==
  /\ pc = "amps"
  /\ ~(useRealEndAmps /\ chargeStage = Absorb)
  /\ pc' = "stop"
  /\ UNCHANGED <<settings, readings, dates, classic, history>>

\* One of the latest ENDAMPSCOUNT rows shows a charge current above endAmps.
AboveEndAmps ==
  /\ pc = "amps"
  /\ useRealEndAmps /\ chargeStage = Absorb
  /\ amps' = "above"
  /\ pc' = "stop"
  /\ UNCHANGED <<settings, readings, dates, classic, good, said, sent, did>>

\* None does; a row that is not there has no TotBatCur, current 0.
EndAmpsReached(rows) ==
  /\ pc = "amps"
  /\ useRealEndAmps /\ chargeStage = Absorb
  /\ amps' = rows

EndAmpsFloat(rows) ==
  /\ EndAmpsReached(rows)
  /\ phase = 0
  /\ said' = said \union {"end amps reached"}
  /\ Write("float")
  /\ pc' = "stop"
  /\ UNCHANGED <<settings, readings, dates, good>>

\* performEQ uses $classic and $settings, which a PHP function does not see:
\* a method call on null is a fatal error, and the script ends.
PerformEQ(rows) ==
  /\ EndAmpsReached(rows)
  /\ phase = 1
  /\ said' = said \union {"starting destratification EQ"}
  /\ pc' = "idle"
  /\ UNCHANGED <<settings, readings, dates, classic, good, sent, did>>

\* Mutant: the voltage is not tested.
StopDueAnyVolts == phase = 1 /\ maxTimeOver

StopDue == phase = 1 /\ high /\ maxTimeOver

GoOn ==
  /\ pc = "stop"
  /\ ~StopDue
  /\ pc' = "idle"
  /\ UNCHANGED <<settings, readings, dates, classic, history>>

\* setCurrentLimit(90), forceFloat, saveChargePhase(0): one after the other.
StopLimit ==
  /\ pc = "stop"
  /\ StopDue
  /\ Write("limit")
  /\ pc' = "stop float"
  /\ UNCHANGED <<settings, readings, dates, good, amps, said>>

StopFloat ==
  /\ pc = "stop float"
  /\ Write("float")
  /\ pc' = "stop save"
  /\ UNCHANGED <<settings, readings, dates, good, amps, said>>

StopSave ==
  /\ pc = "stop save"
  /\ savedPhase' = 0
  /\ phase' = IF remembers THEN 0 ELSE phase
  /\ pc' = "idle"
  /\ UNCHANGED <<remembers, readings, dates, classic, history>>

-----------------------------------------------------------------------------
\* The Classic goes its own way, and so do its other clients.
Drift ==
  /\ stage' \in Stages
  /\ volts' \in BOOLEAN
  /\ UNCHANGED <<pc, settings, readings, dates, history>>

TimePasses ==
  /\ intervalOver' \in {intervalOver, TRUE}
  /\ maxTimeOver' \in {maxTimeOver, TRUE}
  /\ UNCHANGED <<pc, settings, readings, classic, history>>

Kill ==
  /\ pc # "idle"
  /\ pc' = "idle"
  /\ UNCHANGED <<settings, readings, dates, classic, history>>

Rows == {"reached", "missing"}

Begin == \E s \in {"low", "enough", "none"} : Start(s)

Rest ==
  \/ NoEndAmps \/ AboveEndAmps
  \/ \E rows \in Rows : EndAmpsFloat(rows) \/ PerformEQ(rows)
  \/ GoOn \/ StopLimit \/ StopFloat \/ StopSave

Next ==
  \/ Begin \/ ReadStage \/ ReadVolts \/ UpdateCharger \/ Decide \/ Rest
  \/ Drift \/ TimePasses \/ Kill

Spec == Init /\ [][Next]_vars

\* The script is started again and again and a run goes on until it ends or
\* is killed; now and then one gets to its decision.
FairSpec ==
  /\ Spec
  /\ WF_vars(Begin) /\ WF_vars(Rest)
  /\ SF_vars(ReadStage) /\ SF_vars(ReadVolts) /\ SF_vars(UpdateCharger)
  /\ SF_vars(Decide)

-----------------------------------------------------------------------------
TypeOK ==
  /\ pc \in {"idle", "stage", "volts", "record", "decide", "amps", "stop",
             "stop float", "stop save"}
  /\ savedPhase \in {0, 1} /\ phase \in {0, 1} /\ remembers \in BOOLEAN
  /\ soc \in {"low", "enough", "none"}
  /\ chargeStage \in Stages /\ high \in BOOLEAN
  /\ intervalOver \in BOOLEAN /\ maxTimeOver \in BOOLEAN
  /\ stage \in Stages /\ volts \in BOOLEAN
  /\ good \subseteq {"stage", "volts"}
  /\ amps \in {"unread", "above"} \union Rows
  /\ said \subseteq {"end amps reached", "starting destratification EQ"}
  /\ sent \subseteq {"float", "limit"}
  /\ did \subseteq {"float", "limit", "row"}

\* Whatever subset of the reads fails, the charger is commanded only on a
\* reading this run has really got: absorb for the end amps, a high voltage
\* for the stop.
NoBlindCommand ==
  sent # {} => \/ "stage" \in good /\ chargeStage = Absorb
               \/ "volts" \in good /\ high

\* A DSEQ whose interval is over is started, whatever fails in the runs.
DSEQStarts == intervalOver ~> savedPhase = 1

\* "starting destratification EQ" (classiclogger.php): the run that says so
\* forces it.
EQForced ==
  pc = "idle" /\ "starting destratification EQ" \in said => "EQ" \in did

\* "Forcing float because end amps reached" (classiclogger.php): the rows have
\* shown it.
EndAmpsShown == "end amps reached" \in said => amps = "reached"
=============================================================================
