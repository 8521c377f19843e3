----------------------------- MODULE ClassicScript -----------------------------
(***************************************************************************)
(* scripts/classic.py: the operator's commands to the Midnite Classic.     *)
(* Each is one or more sessions of connect, unlock, register writes and    *)
(* close; pulseeq and finishcharge sleep between their sessions.  Every    *)
(* write is followed by an assertion, so that a refused write, or one      *)
(* whose answer is lost after the Classic has performed it, ends the       *)
(* script with the registers as they are; so does a kill at any step.      *)
(* readall and monitor write nothing and are left out.                     *)
(*                                                                         *)
(* The Classic is external, and so is its other client, the classic logger *)
(* (www/classic/classiclogger.php), of which only the two commands it      *)
(* sends matter here.  The Classic ends an equalization by itself at some  *)
(* time and starts none.                                                   *)
(***************************************************************************)
EXTENDS Integers

CONSTANTS
  Volts,       \* EQ voltages asked for, in tenths of a volt
  Times,       \* EQ times asked for
  Amps,        \* limits asked for
  Counts       \* counts of pulses asked for

ASSUME ScriptAssumption ==
  /\ Volts \subseteq Nat /\ Times \subseteq Nat
  /\ Amps \subseteq Nat /\ Counts \subseteq Nat

VARIABLES
  command,     \* the command given
  pc,          \* its step, or "done", or "cut" when it did not get to its end
  pulse,       \* i of pulsedEQ
  final,       \* in the session that ends pulseeq and finishcharge
  registers,   \* the Classic: current limit, EQ volts and time, charge stage
  other        \* history: the limit was last written by the other client

vars == <<command, pc, pulse, final, registers, other>>

LIMIT == 30

Command(name, volts, time, amps, count) ==
  [name |-> name, volts |-> volts, time |-> time, amps |-> amps, count |-> count]

Commands ==
  {Command("forceeq", v, t, 0, 0) : v \in Volts, t \in Times}
    \union {Command("pulseeq", v, t, 0, c) : v \in Volts, t \in Times, c \in Counts}
    \union {Command("finishcharge", v, t, 0, 0) : v \in Volts, t \in Times}
    \union {Command("limit", 0, 0, a, 0) : a \in Amps}
    \union {Command(name, 0, 0, 0, 0) : name \in {"forcefloat", "forcebulk"}}

Charges == {"pulseeq", "finishcharge"}

\* The words written, in tenths where the Classic counts in tenths.  finishcharge drops
\* the fraction of the volts before they are multiplied.
limitCurrent ==
  CASE command.name = "limit" -> command.amps * 10
    [] command.name = "pulseeq" -> IF final THEN 800 ELSE 310
    [] OTHER -> IF final THEN 860 ELSE LIMIT * 10

eqVolts == IF command.name = "finishcharge" THEN (command.volts \div 10) * 10 ELSE command.volts

force ==
  CASE command.name = "forcefloat" -> "float"
    [] command.name = "forcebulk" \/ final -> "bulk"
    [] OTHER -> "EQ"

\* Mutant: one pulse for each count, and one more.
MorePulsesInclusive(i) == i <= command.count

\* for i in range(1, count)
MorePulses(i) == i < command.count

\* Mutant: only pulseeq lowers the limit before it forces EQ.
AfterUnlockForgets ==
  IF final \/ command.name \in {"limit", "pulseeq"} THEN "limit"
  ELSE IF force = "EQ" THEN "volts" ELSE "stage"

AfterUnlock ==
  IF final \/ command.name \in Charges \union {"limit"} THEN "limit"
  ELSE IF force = "EQ" THEN "volts" ELSE "stage"

\* Mutant: the final session only raises the limit.
AfterLimitForgets ==
  IF final \/ command.name = "limit" THEN "close" ELSE "volts"

AfterLimit ==
  IF final THEN "stage" ELSE IF command.name = "limit" THEN "close" ELSE "volts"

Writes == {"unlock", "limit", "volts", "time", "stage"}

\* The step after a write.
After(step) ==
  CASE step = "unlock" -> AfterUnlock
    [] step = "limit" -> AfterLimit
    [] step = "volts" -> "time"
    [] step = "time" -> "stage"
    [] step = "stage" -> "close"

\* The registers after a write.
Written(step) ==
  CASE step = "unlock" -> registers
    [] step = "limit" -> [registers EXCEPT !.limit = limitCurrent]
    [] step = "volts" -> [registers EXCEPT !.volts = eqVolts]
    [] step = "time" -> [registers EXCEPT !.time = command.time]
    [] step = "stage" -> [registers EXCEPT !.stage = force]

Stages == {"EQ", "bulk", "float"}

Init ==
  /\ command = Command("forcefloat", 0, 0, 0, 0) /\ pc = "done"
  /\ pulse = 1 /\ final = FALSE
  /\ registers = [limit |-> 900, volts |-> 0, time |-> 0, stage |-> "float"]
  /\ other = FALSE

----------------------------------------------------------------------------
(* The script. *)

\* main takes the command; pulseeq with no pulse to do goes to its final session.
Start(c) ==
  /\ pc \in {"done", "cut"}
  /\ command' = c /\ pc' = "connect" /\ pulse' = 1
  /\ final' = (c.name = "pulseeq" /\ c.count <= 1)
  /\ UNCHANGED <<registers, other>>

\* connect tries every ten seconds until the Classic answers.
Connect ==
  /\ pc = "connect" /\ pc' = "unlock"
  /\ UNCHANGED <<command, pulse, final, registers, other>>

\* The Classic performs the write.
Performed ==
  /\ registers' = Written(pc)
  /\ other' = IF pc = "limit" THEN FALSE ELSE other
  /\ UNCHANGED <<command, pulse, final>>

WriteOk == pc \in Writes /\ Performed /\ pc' = After(pc)

\* It has performed the write, but the answer is lost: the assertion ends the script.
AnswerLost == pc \in Writes /\ Performed /\ pc' = "cut"

\* The write is refused or lost.
WriteFails ==
  /\ pc \in Writes /\ pc' = "cut"
  /\ UNCHANGED <<command, pulse, final, registers, other>>

\* pulseeq and finishcharge are not over with a session that was not the final one.
Close ==
  /\ pc = "close"
  /\ pc' = IF command.name \in Charges /\ ~final THEN "sleep" ELSE "done"
  /\ UNCHANGED <<command, pulse, final, registers, other>>

\* After the sleep, the next pulse or the final session.
Sleep ==
  /\ pc = "sleep" /\ pc' = "connect"
  /\ LET more == command.name = "pulseeq" /\ MorePulses(pulse + 1) IN
     /\ pulse' = IF more THEN pulse + 1 ELSE pulse
     /\ final' = ~more
  /\ UNCHANGED <<command, registers, other>>

Kill ==
  /\ pc \notin {"done", "cut"} /\ pc' = "cut"
  /\ UNCHANGED <<command, pulse, final, registers, other>>

----------------------------------------------------------------------------
(* The Classic and its other client, external. *)

\* The stages follow one another; an equalization ends.
Drift ==
  /\ \E s \in Stages \ {"EQ"} : registers' = [registers EXCEPT !.stage = s]
  /\ UNCHANGED <<command, pc, pulse, final, other>>

\* setCurrentLimit(90) of the classic logger.
OtherLimit ==
  /\ registers' = [registers EXCEPT !.limit = 900]
  /\ other' = TRUE
  /\ UNCHANGED <<command, pc, pulse, final>>

\* forceFloat of the classic logger.
OtherFloat ==
  /\ registers' = [registers EXCEPT !.stage = "float"]
  /\ UNCHANGED <<command, pc, pulse, final, other>>

Script == Connect \/ WriteOk \/ AnswerLost \/ WriteFails \/ Close \/ Sleep

Next ==
  \/ \E c \in Commands : Start(c)
  \/ Script \/ Kill \/ Drift \/ OtherLimit \/ OtherFloat

Spec == Init /\ [][Next]_vars

----------------------------------------------------------------------------
(* Properties *)

\* The variables keep their sets, and a pulse is counted below the count asked for.
TypeOK ==
  /\ command \in Commands \union {Command("forcefloat", 0, 0, 0, 0)}
  /\ pc \in Writes \union {"connect", "close", "sleep", "done", "cut"}
  /\ pulse \in Nat /\ (pulse = 1 \/ pulse < command.count)
  /\ final \in BOOLEAN /\ other \in BOOLEAN
  /\ registers \in [limit : Nat, volts : Nat, time : Nat, stage : Stages]

\* A word for the volts is at most what was asked for, and less than a volt below it.
FitsVolts(word) == word <= command.volts /\ command.volts < word + 10

\* Whatever earlier commands left in the registers, cut off at any of their steps, EQ is
\* forced only with the volts and the time of the command that forces it, and by pulseeq
\* and finishcharge only under their lowered limit, unless the other client raised it.
EQForcedSafely ==
  [][registers'.stage = "EQ" /\ registers.stage # "EQ"
       => /\ FitsVolts(registers.volts) /\ registers.time = command.time
          /\ command.name \in Charges /\ ~other => registers.limit \in {300, 310}]_vars

\* A pulseeq or finishcharge that came to its end, however many commands before it were cut
\* off, leaves no EQ on, and the limit raised, unless the other client has written it.
ChargeEnded ==
  pc = "done" /\ command.name \in Charges =>
    /\ registers.stage # "EQ"
    /\ ~other => registers.limit \in {800, 860}
=============================================================================
