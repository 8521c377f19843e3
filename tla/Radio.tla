--------------------------------- MODULE Radio ---------------------------------
(***************************************************************************)
(* scripts/pump.py: the thermostat and the pump program, which switch the  *)
(* relays of a radio node by LLAP messages over a serial port.  A request  *)
(* clears the input buffer, writes its message, sleeps a second and takes  *)
(* the first message of the buffer for its answer.  It is never repeated   *)
(* (every caller sets retry to 1), and the answers to the switching        *)
(* commands are not looked at.                                             *)
(*                                                                         *)
(* Radio and node are external.  Messages keep their order, but any may be *)
(* late or lost, others are foreign or garbled, and the node announces     *)
(* itself with STARTED, its relays off, when its power comes back.  A      *)
(* message is not under way for longer than the thermostat sleeps between  *)
(* two readings, nor from one program to the next.  The temperature report *)
(* that the thermostat sends in the node's name changes nothing.           *)
(***************************************************************************)
EXTENDS Integers, Sequences

CONSTANTS
  p,           \* readings of one run of the thermostat
  MaxQueue     \* bound: messages on their way, each way, and in the buffer

ASSUME RadioAssumption == p \in Nat /\ MaxQueue \in Nat \ {0}

VARIABLES
  prog,        \* the program: "thermostat" or "pump"
  step,        \* the request or the sleep it has come to
  waiting,     \* the request is written: sleep(1)
  n,           \* readings taken
  heater,      \* what the thermostat takes its relay for
  last,        \* history: the last reading it could use
  toNode,      \* requests on their way
  fromNode,    \* messages on their way to the serial port
  buffer,      \* the input buffer of the port
  relay,       \* node: its relays
  disturbed    \* history: relays with a command lost, or reset, since the last they got

program == <<prog, step, waiting, n, heater, last>>
channels == <<toNode, fromNode, buffer>>
node == <<relay, disturbed>>
vars == <<program, channels, node>>

Relays == {"heater", "pump"}
Usable == {"cold", "warm"}            \* below tempd, or not
Temperatures == Usable \union {"broken"}  \* Thermistor raises: ANA is 0, or 2048 and more

\* The relay a request switches, and to what.
Switches == [OUTA0 |-> <<"heater", FALSE>>, OUTA1 |-> <<"heater", TRUE>>,
             RELAYBON |-> <<"pump", TRUE>>, RELAYBOFF |-> <<"pump", FALSE>>]

\* Mutant: the command to turn the pump off goes out without its state.
RequestWithoutState ==
  [HELLO |-> "HELLO", DEVTYPE |-> "DEVTYPE", init |-> "OUTA0",
   ANAA |-> "ANAA", turnOff |-> "OUTA0", turnOn |-> "OUTA1", exit |-> "OUTA0",
   pumpOn |-> "RELAYBON", pumpOff |-> "RELAYB", relayState |-> "RELAYB"]

\* The request of each step.
Request == [HELLO |-> "HELLO", DEVTYPE |-> "DEVTYPE", init |-> "OUTA0",
            ANAA |-> "ANAA", turnOff |-> "OUTA0", turnOn |-> "OUTA1", exit |-> "OUTA0",
            pumpOn |-> "RELAYBON", pumpOff |-> "RELAYBOFF", relayState |-> "RELAYB"]

Steps == DOMAIN Request \union {"getstarted", "sleep", "pumping", "END", "dead"}

\* Messages: from the node, with the temperature and the reading it was asked for, or foreign.
Message(is, temp, during) == [is |-> is, temp |-> temp, during |-> during]
Own(is) == Message(is, "none", 0)
Messages == [is : {"HELLO", "RLY", "ANAA", "STARTED", "other", "foreign"},
             temp : Temperatures \union {"none"}, during : 0..p]

Init ==
  /\ prog = "thermostat" /\ step = "dead" /\ waiting = FALSE
  /\ n = 0 /\ heater = FALSE /\ last = "none"
  /\ toNode = <<>> /\ fromNode = <<>> /\ buffer = <<>>
  /\ relay = [r \in Relays |-> FALSE] /\ disturbed = {}

----------------------------------------------------------------------------
(* The program. *)

\* No request of an earlier reading, or of an earlier program, is under way, nor its answer.
Quiet == toNode = <<>> /\ \A i \in DOMAIN fromNode : fromNode[i].is = "STARTED"

\* A program starts: from the Python shell or from the command line; the port is opened anew.
Start(name) ==
  /\ step \in {"END", "dead"} /\ Quiet
  /\ prog' = name /\ step' = "HELLO" /\ waiting' = FALSE
  /\ n' = 0 /\ heater' = FALSE /\ last' = "none"
  /\ buffer' = <<>>
  /\ UNCHANGED <<toNode, fromNode, node>>

\* Mutant: the buffer is not cleared before a request.
Unflushed(b) == b
flushInput(b) == <<>>

\* request: the buffer is cleared and the message written.
Ask ==
  /\ step \in DOMAIN Request /\ ~waiting /\ Len(toNode) < MaxQueue
  /\ buffer' = flushInput(buffer)
  /\ toNode' = Append(toNode, Request[step])
  /\ waiting' = TRUE
  /\ UNCHANGED <<prog, step, n, heater, last, fromNode, node>>

Answered(is) == buffer # <<>> /\ Head(buffer).is = is

\* getresponse takes a message of the node out of the buffer; a foreign head stays in
\* part and spoils the alignment of what follows it.
Rest == IF buffer = <<>> \/ Answered("foreign") THEN buffer ELSE Tail(buffer)

\* The second of a request is over: its answer is the head of the buffer, if there is one.
Proceed(from, to) ==
  /\ waiting /\ step = from /\ step' = to
  /\ waiting' = FALSE
  /\ buffer' = Rest
  /\ UNCHANGED <<prog, n, toNode, fromNode, node>>

HelloAnswered ==
  /\ Proceed("HELLO", IF Answered("HELLO") THEN "DEVTYPE" ELSE "getstarted")
  /\ UNCHANGED <<heater, last>>

\* A pass of getstarted: whatever else is in the buffer is thrown away, STARTED too
\* when it is not at its head.
PollStarted ==
  /\ step = "getstarted"
  /\ step' = IF Answered("STARTED") THEN "DEVTYPE" ELSE "getstarted"
  /\ buffer' = <<>>
  /\ UNCHANGED <<prog, waiting, n, heater, last, toNode, fromNode, node>>

\* An answer other than RLY is an invalid device: exit().
DevtypeAnswered ==
  /\ Proceed("DEVTYPE", IF ~Answered("RLY") THEN "dead"
                        ELSE IF prog = "pump" THEN "pumpOn" ELSE "init")
  /\ UNCHANGED <<heater, last>>

\* Mutant: one reading too many.
LoopOnceMore(readings) == IF readings <= p THEN "ANAA" ELSE "exit"

\* The loop of the thermostat goes on for p readings, then heating is turned off.
Loop(readings) == IF readings < p THEN "ANAA" ELSE "exit"

\* "ensure heating is off": before the loop, with heater = 0.
HeatingOff == Proceed("init", Loop(0)) /\ UNCHANGED <<heater, last>>

Decide(temp) ==
  IF temp = "warm" /\ heater THEN "turnOff"
  ELSE IF temp = "cold" /\ ~heater THEN "turnOn" ELSE "sleep"

\* A usable reading is compared with tempd and with what the thermostat believes.
UseReading ==
  /\ Answered("ANAA") /\ Head(buffer).temp \in Usable
  /\ Proceed("ANAA", Decide(Head(buffer).temp))
  /\ last' = Head(buffer).temp
  /\ UNCHANGED heater

\* float, the division or log raises: the program ends as the relays are.
ReadingRaises ==
  /\ Answered("ANAA") /\ Head(buffer).temp = "broken"
  /\ Proceed("ANAA", "dead")
  /\ UNCHANGED <<heater, last>>

InvalidReading ==
  /\ ~Answered("ANAA")
  /\ Proceed("ANAA", "sleep")
  /\ UNCHANGED <<heater, last>>

\* Mutant: heater is set only when the heating is turned on.
RememberOn(from) == IF from = "turnOn" THEN TRUE ELSE heater
Remember(from) == from = "turnOn"

\* The command may be lost: heater is set all the same.
Switched(from) ==
  /\ from \in {"turnOn", "turnOff"}
  /\ Proceed(from, "sleep")
  /\ heater' = Remember(from) /\ UNCHANGED last

\* Mutant: an invalid reading does not count.
CountUsable == IF last = "none" THEN n ELSE n + 1
Count == n + 1

\* sleep(reportfreq) is longer than a message is under way.
Sleep ==
  /\ step = "sleep" /\ Quiet
  /\ n' = Count
  /\ step' = Loop(n')
  /\ UNCHANGED <<prog, waiting, heater, last, channels, node>>

HeatingOffAtExit == Proceed("exit", "END") /\ heater' = FALSE /\ UNCHANGED last

\* pumpOnForSeconds
PumpOn == Proceed("pumpOn", "pumping") /\ UNCHANGED <<heater, last>>

Pumping ==
  /\ step = "pumping" /\ step' = "pumpOff"
  /\ UNCHANGED <<prog, waiting, n, heater, last, channels, node>>

PumpOff == Proceed("pumpOff", "relayState") /\ UNCHANGED <<heater, last>>
RelayState == Proceed("relayState", "END") /\ UNCHANGED <<heater, last>>

Kill ==
  /\ step \notin {"END", "dead"}
  /\ step' = "dead" /\ waiting' = FALSE
  /\ UNCHANGED <<prog, n, heater, last, channels, node>>

Run ==
  \/ Ask \/ HelloAnswered \/ PollStarted \/ DevtypeAnswered
  \/ HeatingOff \/ UseReading \/ ReadingRaises \/ InvalidReading
  \/ \E from \in {"turnOn", "turnOff"} : Switched(from)
  \/ Sleep \/ HeatingOffAtExit \/ PumpOn \/ Pumping \/ PumpOff \/ RelayState

----------------------------------------------------------------------------
(* The radio and the node, external. *)

Reply(request, temp) ==
  CASE request = "HELLO" -> Own("HELLO")
    [] request = "DEVTYPE" -> Own("RLY")
    [] request = "ANAA" -> Message("ANAA", temp, n)
    [] OTHER -> Own("other")

Perform ==
  /\ toNode # <<>> /\ Len(fromNode) < MaxQueue
  /\ LET request == Head(toNode) IN
     /\ \E temp \in Temperatures : fromNode' = Append(fromNode, Reply(request, temp))
     /\ IF request \in DOMAIN Switches
        THEN /\ relay' = [relay EXCEPT ![Switches[request][1]] = Switches[request][2]]
             /\ disturbed' = disturbed \ {Switches[request][1]}
        ELSE UNCHANGED node
  /\ toNode' = Tail(toNode)
  /\ UNCHANGED <<program, buffer>>

LoseRequest ==
  /\ toNode # <<>>
  /\ toNode' = Tail(toNode)
  /\ disturbed' = disturbed \union
       {Switches[request][1] : request \in {Head(toNode)} \intersect DOMAIN Switches}
  /\ UNCHANGED <<program, fromNode, buffer, relay>>

LoseMessage ==
  /\ fromNode # <<>>
  /\ fromNode' = Tail(fromNode)
  /\ UNCHANGED <<program, toNode, buffer, node>>

Deliver ==
  /\ fromNode # <<>> /\ Len(buffer) < MaxQueue
  /\ buffer' = Append(buffer, Head(fromNode))
  /\ fromNode' = Tail(fromNode)
  /\ UNCHANGED <<program, toNode, node>>

Foreign ==
  /\ Len(buffer) < MaxQueue
  /\ buffer' = Append(buffer, Own("foreign"))
  /\ UNCHANGED <<program, toNode, fromNode, node>>

PowerCycle ==
  /\ Len(fromNode) < MaxQueue
  /\ relay' = [r \in Relays |-> FALSE] /\ disturbed' = Relays
  /\ fromNode' = Append(fromNode, Own("STARTED"))
  /\ UNCHANGED <<program, toNode, buffer>>

Air == Perform \/ LoseRequest \/ LoseMessage \/ Deliver \/ Foreign \/ PowerCycle

Next == (\E name \in {"thermostat", "pump"} : Start(name)) \/ Run \/ Kill \/ Air

Spec == Init /\ [][Next]_vars

\* The program goes on unless it is killed, and what is under way arrives or is lost.
FairSpec ==
  /\ Spec
  /\ WF_vars(Run)
  /\ WF_vars(Perform \/ LoseRequest)
  /\ WF_vars(LoseMessage \/ Deliver)

----------------------------------------------------------------------------
(* Properties *)

\* Every variable stays in its set; the queues keep their bound.
TypeOK ==
  /\ prog \in {"thermostat", "pump"} /\ step \in Steps /\ waiting \in BOOLEAN
  /\ n \in 0..p /\ heater \in BOOLEAN /\ last \in Usable \union {"none"}
  /\ toNode \in Seq({Request[s] : s \in DOMAIN Request}) /\ Len(toNode) <= MaxQueue
  /\ fromNode \in Seq(Messages) /\ Len(fromNode) <= MaxQueue
  /\ buffer \in Seq(Messages) /\ Len(buffer) <= MaxQueue
  /\ relay \in [Relays -> BOOLEAN] /\ disturbed \subseteq Relays

\* No command for a relay is under way, and none was lost, nor the relay reset,
\* since the last it got.
Settled(r) ==
  /\ r \notin disturbed
  /\ \A i \in DOMAIN toNode :
       toNode[i] \in DOMAIN Switches => Switches[toNode[i]][1] # r

\* Where nothing was lost, the heating follows the last usable reading while the
\* thermostat sleeps, whatever an earlier program left and although a command is sent
\* only when the thermostat believes it changes something; and it is off at the end.
HeatingFollows ==
  prog = "thermostat" /\ Settled("heater") =>
    /\ step = "sleep" => relay["heater"] = (last = "cold")
    /\ step = "END" => ~relay["heater"]

\* Where nothing was lost, the pump runs for the seconds asked for and no longer.
PumpFollows ==
  prog = "pump" /\ Settled("pump") =>
    /\ step = "pumping" => relay["pump"]
    /\ step \in {"relayState", "END"} => ~relay["pump"]

\* The heating is switched only by a reading that the node took for this request, never by
\* one of an earlier request whose answer came late and was left in the buffer.
SwitchedByFresh ==
  [][waiting /\ step = "ANAA" /\ step' \in {"turnOn", "turnOff"}
       => Head(buffer).during = n]_vars

\* Whatever answers are lost, late or invalid, a thermostat that reads goes on to its
\* end, where it turns the heating off, unless it dies of a reading or is killed.
RunEnds == (step = "ANAA") ~> (step \in {"END", "dead"})
=============================================================================
