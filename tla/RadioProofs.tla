------------------------------- MODULE RadioProofs -------------------------------
(***************************************************************************)
(* Proofs about Radio for every number of readings and every bound on the  *)
(* queues: the types, that the heating follows the readings and the pump   *)
(* its program wherever no command was lost, and that the heating is       *)
(* switched only by the answer to the request just made.                   *)
(***************************************************************************)
EXTENDS Radio, TLAPS

-----------------------------------------------------------------------------
\* The request q switches the relay r.
Concerns(q, r) == q \in DOMAIN Switches /\ Switches[q][1] = r

Requests == {Request[s] : s \in DOMAIN Request}

\* A relay will have the state v when what is under way has been performed: the
\* last command for it says v, and without one it is in v unless it was disturbed.
Follows(r, v) ==
  /\ \A i \in 1..Len(toNode) :
       Concerns(toNode[i], r) /\ (\A j \in i + 1..Len(toNode) : ~Concerns(toNode[j], r))
         => Switches[toNode[i]][2] = v
  /\ r \notin disturbed /\ (\A i \in 1..Len(toNode) : ~Concerns(toNode[i], r))
       => relay[r] = v

\* The steps of each program.
Heating == {"init", "ANAA", "turnOff", "turnOn", "sleep", "exit"}
Watering == {"pumpOn", "pumping", "pumpOff", "relayState"}

Phases ==
  /\ step \in Heating => prog = "thermostat"
  /\ step \in Watering => prog = "pump"
  /\ waiting => step \in DOMAIN Request

\* The readings counted: none before the loop, one still to take within it.
Counted ==
  /\ step \in {"HELLO", "getstarted", "DEVTYPE", "init"} => n = 0 /\ heater = FALSE /\ last = "none"
  /\ step \in {"ANAA", "turnOff", "turnOn", "sleep"} => n < p

\* What the thermostat takes its relay for answers the last usable reading, once the
\* command it has decided on is sent.
Believes ==
  /\ step \in {"ANAA", "sleep"} => heater = (last = "cold")
  /\ step = "turnOn" => last = "cold"
  /\ step = "turnOff" => last = "warm"
  /\ step \in Watering \union {"END"} => heater = FALSE

\* The state the program has last asked for: of the heater from the first command on ...
HeaterAsked ==
  IF waiting /\ step \in {"turnOn", "turnOff", "exit"} THEN step = "turnOn" ELSE heater

HeaterInHand ==
  prog = "thermostat" /\ (step \in Heating \union {"END"}) /\ (step = "init" => waiting)

\* ... and of the pump.
PumpAsked == step \in {"pumpOn", "pumping"} \/ (step = "pumpOff" /\ ~waiting)

PumpInHand ==
  prog = "pump" /\ (step \in Watering \union {"END"}) /\ (step = "pumpOn" => waiting)

Commanded ==
  /\ HeaterInHand => \A v \in BOOLEAN : v = HeaterAsked => Follows("heater", v)
  /\ PumpInHand => \A v \in BOOLEAN : v = PumpAsked => Follows("pump", v)

\* An answer to ANAA answers the request of this reading, on its way and, while a
\* request waits, in the buffer.
FreshIn(q) == \A i \in 1..Len(q) : q[i].is = "ANAA" => q[i].during = n

Fresh == FreshIn(fromNode) /\ (waiting => FreshIn(buffer))

-----------------------------------------------------------------------------
LEMMA SwitchFacts ==
  /\ DOMAIN Switches = {"OUTA0", "OUTA1", "RELAYBON", "RELAYBOFF"}
  /\ Switches["OUTA0"][1] = "heater" /\ Switches["OUTA0"][2] = FALSE
  /\ Switches["OUTA1"][1] = "heater" /\ Switches["OUTA1"][2] = TRUE
  /\ Switches["RELAYBON"][1] = "pump" /\ Switches["RELAYBON"][2] = TRUE
  /\ Switches["RELAYBOFF"][1] = "pump" /\ Switches["RELAYBOFF"][2] = FALSE
  BY DEF Switches

LEMMA SwitchTypes ==
  \A q \in DOMAIN Switches : Switches[q][1] \in Relays /\ Switches[q][2] \in BOOLEAN
  BY SwitchFacts DEF Relays

LEMMA RequestFacts ==
  /\ DOMAIN Request = {"HELLO", "DEVTYPE", "init", "ANAA", "turnOff", "turnOn", "exit",
                       "pumpOn", "pumpOff", "relayState"}
  /\ Request["HELLO"] = "HELLO" /\ Request["DEVTYPE"] = "DEVTYPE" /\ Request["ANAA"] = "ANAA"
  /\ Request["init"] = "OUTA0" /\ Request["turnOff"] = "OUTA0" /\ Request["exit"] = "OUTA0"
  /\ Request["turnOn"] = "OUTA1" /\ Request["pumpOn"] = "RELAYBON"
  /\ Request["pumpOff"] = "RELAYBOFF" /\ Request["relayState"] = "RELAYB"
  BY DEF Request

LEMMA AppendFacts ==
  ASSUME NEW T, NEW q \in Seq(T), NEW m \in T
  PROVE  /\ Append(q, m) \in Seq(T) /\ Len(Append(q, m)) = Len(q) + 1 /\ Len(q) \in Nat
         /\ \A i \in 1..Len(q) : Append(q, m)[i] = q[i]
         /\ Append(q, m)[Len(q) + 1] = m
  OBVIOUS

LEMMA TailFacts ==
  ASSUME NEW T, NEW q \in Seq(T), q # <<>>
  PROVE  /\ Tail(q) \in Seq(T) /\ Len(Tail(q)) = Len(q) - 1 /\ Len(q) \in Nat \ {0}
         /\ \A i \in 1..Len(q) - 1 : Tail(q)[i] = q[i + 1]
         /\ Head(q) = q[1] /\ q[1] \in T
  OBVIOUS

LEMMA MessageTypes ==
  /\ \A is \in {"HELLO", "RLY", "other", "STARTED", "foreign"} : Own(is) \in Messages
  /\ \A temp \in Temperatures : n \in 0..p => Message("ANAA", temp, n) \in Messages
  BY RadioAssumption DEF Own, Message, Messages

-----------------------------------------------------------------------------
\* What a step of a program does to what is under way, apart from the request it sends.
LEMMA ProgramChannels ==
  ASSUME TypeOK, (\E name \in {"thermostat", "pump"} : Start(name)) \/ Run \/ Kill, ~Ask
  PROVE  /\ toNode' = toNode /\ fromNode' = fromNode /\ node' = node
         /\ buffer' = buffer \/ buffer' = <<>> \/ (buffer # <<>> /\ buffer' = Tail(buffer))
<1> USE DEF program, channels, node
<1>1. CASE \E name \in {"thermostat", "pump"} : Start(name)
  BY <1>1 DEF Start
<1>2. CASE Kill
  BY <1>2 DEF Kill
<1>3. ASSUME NEW from, NEW to, Proceed(from, to)
      PROVE  /\ toNode' = toNode /\ fromNode' = fromNode /\ node' = node
             /\ buffer' = buffer \/ (buffer # <<>> /\ buffer' = Tail(buffer))
  BY <1>3 DEF Proceed, Rest
<1>4. CASE Run
  BY <1>3, <1>4 DEF Run, HelloAnswered, PollStarted, DevtypeAnswered, HeatingOff,
     UseReading, ReadingRaises, InvalidReading, Switched, Sleep, HeatingOffAtExit,
     PumpOn, Pumping, PumpOff, RelayState
<1> QED BY <1>1, <1>2, <1>4

\* What the radio and the node do to the queues.
LEMMA AirQueues ==
  ASSUME TypeOK, Air
  PROVE  /\ program' = program
         /\ toNode' = toNode \/ (toNode # <<>> /\ toNode' = Tail(toNode))
         /\ \/ fromNode' = fromNode
            \/ fromNode # <<>> /\ fromNode' = Tail(fromNode)
            \/ \E m \in Messages :
                 /\ fromNode' = Append(fromNode, m) /\ Len(fromNode) < MaxQueue
                 /\ m.is = "ANAA" => m.during = n
         /\ \/ buffer' = buffer
            \/ \E m \in Messages :
                 /\ buffer' = Append(buffer, m) /\ Len(buffer) < MaxQueue
                 /\ m.is = "foreign" \/ (fromNode # <<>> /\ m = fromNode[1])
<1> USE DEF program, channels, node
<1>1. CASE Perform
  <2>1. \A q : \A temp \in Temperatures :
          LET m == Reply(q, temp) IN m \in Messages /\ (m.is = "ANAA" => m.during = n)
    <3> SUFFICES ASSUME NEW q, NEW temp \in Temperatures
                 PROVE  LET m == Reply(q, temp) IN m \in Messages /\ (m.is = "ANAA" => m.during = n)
      OBVIOUS
    <3>1. Own("HELLO") \in Messages /\ Own("HELLO").is # "ANAA"
      BY MessageTypes DEF Own, Message
    <3>2. Own("RLY") \in Messages /\ Own("RLY").is # "ANAA"
      BY MessageTypes DEF Own, Message
    <3>3. Own("other") \in Messages /\ Own("other").is # "ANAA"
      BY MessageTypes DEF Own, Message
    <3>4. Message("ANAA", temp, n) \in Messages /\ Message("ANAA", temp, n).during = n
      BY MessageTypes DEF Message, TypeOK
    <3> QED BY <3>1, <3>2, <3>3, <3>4 DEF Reply
  <2>2. PICK temp \in Temperatures : fromNode' = Append(fromNode, Reply(Head(toNode), temp))
    BY <1>1 DEF Perform
  <2>3. Reply(Head(toNode), temp) \in Messages
        /\ (Reply(Head(toNode), temp).is = "ANAA" => Reply(Head(toNode), temp).during = n)
    BY <2>1
  <2> QED BY <1>1, <2>2, <2>3 DEF Perform
<1>2. CASE LoseRequest \/ LoseMessage
  BY <1>2 DEF LoseRequest, LoseMessage
<1>3. CASE Deliver
  <2>1. fromNode[1] \in Messages /\ Head(fromNode) = fromNode[1]
    BY <1>3, TailFacts DEF Deliver, TypeOK
  <2> QED BY <1>3, <2>1 DEF Deliver
<1>4. CASE Foreign
  <2>1. Own("foreign") \in Messages /\ Own("foreign").is = "foreign"
    BY MessageTypes DEF Own, Message
  <2> QED BY <1>4, <2>1 DEF Foreign
<1>5. CASE PowerCycle
  <2>1. Own("STARTED") \in Messages /\ Own("STARTED").is # "ANAA"
    BY MessageTypes DEF Own, Message
  <2> QED BY <1>5, <2>1 DEF PowerCycle
<1> QED BY <1>1, <1>2, <1>3, <1>4, <1>5 DEF Air

-----------------------------------------------------------------------------
\* The types and the control of the programs.
Control == Phases /\ Counted /\ Believes

LEMMA InitTypes == Init => TypeOK
<1> SUFFICES ASSUME Init PROVE TypeOK
  OBVIOUS
<1>1. toNode = <<>> /\ fromNode = <<>> /\ buffer = <<>> /\ Len(<<>>) <= MaxQueue
  BY RadioAssumption DEF Init
<1>2. relay \in [Relays -> BOOLEAN] /\ disturbed \subseteq Relays
  BY DEF Init
<1>3. prog \in {"thermostat", "pump"} /\ step \in Steps /\ last \in Usable \union {"none"}
  BY DEF Init, Steps
<1>4. waiting \in BOOLEAN /\ heater \in BOOLEAN
  BY Zenon DEF Init
<1>5. n \in 0..p
  BY RadioAssumption DEF Init
<1>6. \A T : <<>> \in Seq(T)
  OBVIOUS
<1> QED BY <1>1, <1>2, <1>3, <1>4, <1>5, <1>6, Zenon DEF TypeOK

LEMMA QueueTypes ==
  TypeOK /\ [Next]_vars =>
    /\ toNode' \in Seq(Requests) /\ Len(toNode') <= MaxQueue
    /\ fromNode' \in Seq(Messages) /\ Len(fromNode') <= MaxQueue
    /\ buffer' \in Seq(Messages) /\ Len(buffer') <= MaxQueue
<1> SUFFICES ASSUME TypeOK, [Next]_vars
             PROVE  /\ toNode' \in Seq(Requests) /\ Len(toNode') <= MaxQueue
                    /\ fromNode' \in Seq(Messages) /\ Len(fromNode') <= MaxQueue
                    /\ buffer' \in Seq(Messages) /\ Len(buffer') <= MaxQueue
  OBVIOUS
<1>1. /\ toNode \in Seq(Requests) /\ Len(toNode) <= MaxQueue
      /\ fromNode \in Seq(Messages) /\ Len(fromNode) <= MaxQueue
      /\ buffer \in Seq(Messages) /\ Len(buffer) <= MaxQueue
  BY DEF TypeOK, Requests
<1>2. /\ <<>> \in Seq(Messages) /\ Len(<<>>) <= MaxQueue /\ MaxQueue \in Nat
  BY RadioAssumption
<1>3. CASE Ask
  <2>1. Request[step] \in Requests
    BY <1>3 DEF Ask, Requests
  <2>2. Append(toNode, Request[step]) \in Seq(Requests)
        /\ Len(Append(toNode, Request[step])) = Len(toNode) + 1 /\ Len(toNode) \in Nat
    BY <1>1, <2>1, AppendFacts
  <2> QED BY <1>1, <1>2, <1>3, <2>2 DEF Ask, flushInput
<1>4. CASE ((\E name \in {"thermostat", "pump"} : Start(name)) \/ Run \/ Kill) /\ ~Ask
  <2>1. /\ toNode' = toNode /\ fromNode' = fromNode
        /\ buffer' = buffer \/ buffer' = <<>> \/ (buffer # <<>> /\ buffer' = Tail(buffer))
    BY <1>4, ProgramChannels
  <2>2. CASE buffer # <<>> /\ buffer' = Tail(buffer)
    <3>1. Tail(buffer) \in Seq(Messages) /\ Len(Tail(buffer)) = Len(buffer) - 1
          /\ Len(buffer) \in Nat
      BY <1>1, <2>2, TailFacts
    <3>2. Len(Tail(buffer)) <= MaxQueue
      BY <1>1, <1>2, <3>1
    <3> QED BY <1>1, <2>1, <2>2, <3>1, <3>2, Zenon
  <2> QED BY <1>1, <1>2, <2>1, <2>2
<1>5. CASE Air
  <2>1. toNode' \in Seq(Requests) /\ Len(toNode') <= MaxQueue
    <3>1. CASE toNode # <<>> /\ toNode' = Tail(toNode)
      <4>1. Tail(toNode) \in Seq(Requests) /\ Len(Tail(toNode)) = Len(toNode) - 1
            /\ Len(toNode) \in Nat
        BY <1>1, <3>1, TailFacts
      <4> QED BY <1>1, <1>2, <3>1, <4>1
    <3> QED BY <1>1, <1>5, <3>1, AirQueues
  <2>2. fromNode' \in Seq(Messages) /\ Len(fromNode') <= MaxQueue
    <3>1. CASE fromNode # <<>> /\ fromNode' = Tail(fromNode)
      <4>1. Tail(fromNode) \in Seq(Messages) /\ Len(Tail(fromNode)) = Len(fromNode) - 1
            /\ Len(fromNode) \in Nat
        BY <1>1, <3>1, TailFacts
      <4> QED BY <1>1, <1>2, <3>1, <4>1
    <3>2. ASSUME NEW m \in Messages, fromNode' = Append(fromNode, m), Len(fromNode) < MaxQueue
          PROVE  fromNode' \in Seq(Messages) /\ Len(fromNode') <= MaxQueue
      BY <1>1, <1>2, <3>2, AppendFacts
    <3>3. \/ fromNode' = fromNode
          \/ fromNode # <<>> /\ fromNode' = Tail(fromNode)
          \/ \E m \in Messages : fromNode' = Append(fromNode, m) /\ Len(fromNode) < MaxQueue
      BY <1>5, AirQueues
    <3> QED BY <1>1, <3>1, <3>2, <3>3, Zenon
  <2>3. buffer' \in Seq(Messages) /\ Len(buffer') <= MaxQueue
    <3>1. ASSUME NEW m \in Messages, buffer' = Append(buffer, m), Len(buffer) < MaxQueue
          PROVE  buffer' \in Seq(Messages) /\ Len(buffer') <= MaxQueue
      BY <1>1, <1>2, <3>1, AppendFacts
    <3> QED BY <1>1, <1>5, <3>1, AirQueues, Zenon
  <2> QED BY <2>1, <2>2, <2>3
<1>6. CASE UNCHANGED vars
  BY <1>1, <1>6 DEF vars, channels
<1> QED BY <1>3, <1>4, <1>5, <1>6 DEF Next

LEMMA NodeTypes == TypeOK /\ [Next]_vars => relay' \in [Relays -> BOOLEAN] /\ disturbed' \subseteq Relays
<1> SUFFICES ASSUME TypeOK, [Next]_vars
             PROVE  relay' \in [Relays -> BOOLEAN] /\ disturbed' \subseteq Relays
  OBVIOUS
<1> USE DEF node, TypeOK
<1>1. CASE (\E name \in {"thermostat", "pump"} : Start(name)) \/ Run \/ Kill
  <2>1. CASE Ask
    BY <2>1 DEF Ask
  <2> QED BY <1>1, <2>1, ProgramChannels
<1>2. CASE Perform
  BY <1>2, SwitchTypes DEF Perform
<1>3. CASE LoseRequest
  BY <1>3, SwitchTypes DEF LoseRequest
<1>4. CASE LoseMessage \/ Deliver \/ Foreign
  BY <1>4 DEF LoseMessage, Deliver, Foreign
<1>5. CASE PowerCycle
  BY <1>5 DEF PowerCycle
<1>6. CASE UNCHANGED vars
  BY <1>6 DEF vars
<1> QED BY <1>1, <1>2, <1>3, <1>4, <1>5, <1>6 DEF Next, Air

\* The types of what the programs keep.
ProgramTypes ==
  /\ prog \in {"thermostat", "pump"} /\ step \in Steps /\ waiting \in BOOLEAN
  /\ n \in 0..p /\ heater \in BOOLEAN /\ last \in Usable \union {"none"}

LEMMA ControlStep == TypeOK /\ Control /\ [Next]_vars => ProgramTypes' /\ Control'
<1> SUFFICES ASSUME TypeOK, Control, [Next]_vars PROVE ProgramTypes' /\ Control'
  OBVIOUS
<1>1. ProgramTypes /\ p \in Nat
  BY RadioAssumption DEF TypeOK, ProgramTypes
<1>2. DOMAIN Request = {"HELLO", "DEVTYPE", "init", "ANAA", "turnOff", "turnOn", "exit",
                        "pumpOn", "pumpOff", "relayState"}
  BY RequestFacts
<1> USE <1>1, <1>2 DEF Control, Phases, Counted, Believes, Heating, Watering, ProgramTypes, Steps,
        Usable
<1>3. CASE \E name \in {"thermostat", "pump"} : Start(name)
  <2> PICK name \in {"thermostat", "pump"} : Start(name)
    BY <1>3
  <2>1. prog' = name /\ step' = "HELLO" /\ waiting' = FALSE
        /\ n' = 0 /\ heater' = FALSE /\ last' = "none"
    BY DEF Start
  <2>2. heater' \in BOOLEAN /\ waiting' \in BOOLEAN
    BY <2>1, Zenon
  <2> QED BY <2>1, <2>2
<1>4. CASE Ask
  BY <1>4 DEF Ask
<1>5. CASE HelloAnswered
  BY <1>5 DEF HelloAnswered, Proceed
<1>6. CASE PollStarted
  BY <1>6 DEF PollStarted
<1>7. CASE DevtypeAnswered
  BY <1>7 DEF DevtypeAnswered, Proceed
<1>8. CASE HeatingOff
  BY <1>8 DEF HeatingOff, Proceed, Loop
<1>9. CASE UseReading
  BY <1>9 DEF UseReading, Proceed, Decide
<1>10. CASE ReadingRaises
  BY <1>10 DEF ReadingRaises, Proceed
<1>11. CASE InvalidReading
  BY <1>11 DEF InvalidReading, Proceed
<1>12. CASE \E from \in {"turnOn", "turnOff"} : Switched(from)
  BY <1>12 DEF Switched, Proceed, Remember
<1>13. CASE Sleep
  BY <1>13 DEF Sleep, Count, Loop
<1>14. CASE HeatingOffAtExit
  BY <1>14 DEF HeatingOffAtExit, Proceed
<1>15. CASE PumpOn
  BY <1>15 DEF PumpOn, Proceed
<1>16. CASE Pumping
  BY <1>16 DEF Pumping
<1>17. CASE PumpOff
  BY <1>17 DEF PumpOff, Proceed
<1>18. CASE RelayState
  BY <1>18 DEF RelayState, Proceed
<1>19. CASE Kill
  BY <1>19 DEF Kill
<1>20. CASE Air
  BY <1>20, AirQueues DEF program
<1>21. CASE UNCHANGED vars
  BY <1>21 DEF vars, program
<1> QED
  BY <1>3, <1>4, <1>5, <1>6, <1>7, <1>8, <1>9, <1>10, <1>11, <1>12, <1>13, <1>14, <1>15,
     <1>16, <1>17, <1>18, <1>19, <1>20, <1>21 DEF Next, Run

LEMMA TypesAndControl == Spec => [](TypeOK /\ Control)
<1>1. Init => TypeOK /\ Control
  <2>1. Init => Control
    BY DEF Init, Control, Phases, Counted, Believes, Heating, Watering
  <2> QED BY <2>1, InitTypes
<1>2. TypeOK /\ Control /\ [Next]_vars => (TypeOK /\ Control)'
  <2> SUFFICES ASSUME TypeOK, Control, [Next]_vars PROVE TypeOK' /\ Control'
    OBVIOUS
  <2>1. ProgramTypes' /\ Control'
    BY ControlStep
  <2>2. TypeOK'
    BY <2>1, QueueTypes, NodeTypes DEF TypeOK, ProgramTypes, Requests
  <2> QED BY <2>1, <2>2
<1> QED BY <1>1, <1>2, PTL DEF Spec

\* Every variable keeps its type.
THEOREM TypeCorrect == Spec => []TypeOK
  BY TypesAndControl, PTL

-----------------------------------------------------------------------------
\* What a relay will be set to, step by step.
LEMMA FollowsKept ==
  ASSUME NEW r, NEW v, Follows(r, v), toNode' = toNode, node' = node
  PROVE  Follows(r, v)'
  BY DEF Follows, node

\* The command just sent is the last.
LEMMA AskFollows ==
  ASSUME TypeOK, Ask, NEW r, NEW v, Concerns(Request[step], r), Switches[Request[step]][2] = v
  PROVE  Follows(r, v)'
<1> DEFINE k == Len(toNode) + 1
<1>1. /\ toNode' = Append(toNode, Request[step]) /\ Len(toNode') = k /\ k \in 1..Len(toNode')
      /\ toNode'[k] = Request[step]
      /\ \A i \in 1..Len(toNode') : i # k => k \in i + 1..Len(toNode')
  BY AppendFacts DEF Ask, TypeOK
<1>2. \A i \in 1..Len(toNode') :
        Concerns(toNode'[i], r) /\ (\A j \in i + 1..Len(toNode') : ~Concerns(toNode'[j], r))
          => Switches[toNode'[i]][2] = v
  <2> SUFFICES ASSUME NEW i \in 1..Len(toNode'),
                      \A j \in i + 1..Len(toNode') : ~Concerns(toNode'[j], r)
               PROVE  Switches[toNode'[i]][2] = v
    OBVIOUS
  <2>1. i = k
    BY <1>1
  <2> QED BY <1>1, <2>1
<1>3. ~(\A i \in 1..Len(toNode') : ~Concerns(toNode'[i], r))
  BY <1>1
<1> QED BY <1>2, <1>3 DEF Follows, Concerns

\* A request that is no command for the relay.
LEMMA AskKeeps ==
  ASSUME TypeOK, Ask, NEW r, NEW v, ~Concerns(Request[step], r), Follows(r, v)
  PROVE  Follows(r, v)'
<1> DEFINE k == Len(toNode) + 1
<1>1. /\ Len(toNode') = k /\ toNode'[k] = Request[step] /\ Len(toNode) \in Nat
      /\ \A i \in 1..Len(toNode) : toNode'[i] = toNode[i]
  BY AppendFacts DEF Ask, TypeOK
<1>2. \A i \in 1..k : i \in 1..Len(toNode) \/ i = k
  BY <1>1
<1>3. \A i \in 1..Len(toNode') : Concerns(toNode'[i], r) =>
        i \in 1..Len(toNode) /\ toNode'[i] = toNode[i]
  BY <1>1, <1>2
<1>4. \A i \in 1..Len(toNode) : i \in 1..Len(toNode') /\ toNode'[i] = toNode[i]
  BY <1>1
<1>5. ASSUME NEW i \in 1..Len(toNode'), Concerns(toNode'[i], r),
             \A j \in i + 1..Len(toNode') : ~Concerns(toNode'[j], r)
      PROVE  Switches[toNode'[i]][2] = v
  <2>1. i \in 1..Len(toNode) /\ toNode'[i] = toNode[i]
    BY <1>3, <1>5
  <2>2. ASSUME NEW j \in i + 1..Len(toNode) PROVE ~Concerns(toNode[j], r)
    <3>1. j \in 1..Len(toNode) /\ j \in i + 1..Len(toNode')
      BY <1>1, <2>1
    <3> QED BY <1>1, <1>5, <3>1
  <2> QED BY <1>5, <2>1, <2>2 DEF Follows
<1>6. (\A i \in 1..Len(toNode') : ~Concerns(toNode'[i], r))
        => \A i \in 1..Len(toNode) : ~Concerns(toNode[i], r)
  BY <1>4
<1>7. relay' = relay /\ disturbed' = disturbed
  BY DEF Ask, node
<1> QED BY <1>5, <1>6, <1>7 DEF Follows, Concerns

\* A request leaves the queue: what is left stands in the same order.
LEMMA TailKeeps ==
  ASSUME TypeOK, NEW r, NEW v, Follows(r, v), toNode # <<>>, toNode' = Tail(toNode)
  PROVE  /\ \A i \in 1..Len(toNode') :
              Concerns(toNode'[i], r) /\ (\A j \in i + 1..Len(toNode') : ~Concerns(toNode'[j], r))
                => Switches[toNode'[i]][2] = v
         /\ (\A i \in 1..Len(toNode') : ~Concerns(toNode'[i], r)) =>
              /\ Concerns(toNode[1], r) => Switches[toNode[1]][2] = v
              /\ ~Concerns(toNode[1], r) => \A i \in 1..Len(toNode) : ~Concerns(toNode[i], r)
<1>1. /\ Len(toNode') = Len(toNode) - 1 /\ Len(toNode) \in Nat \ {0}
      /\ \A i \in 1..Len(toNode) - 1 : toNode'[i] = toNode[i + 1]
  BY TailFacts DEF TypeOK
<1>2. \A j \in 2..Len(toNode) : j - 1 \in 1..Len(toNode') /\ toNode[j] = toNode'[j - 1]
  <2> TAKE j \in 2..Len(toNode)
  <2>1. j - 1 \in 1..Len(toNode) - 1 /\ (j - 1) + 1 = j
    BY <1>1
  <2>2. toNode'[j - 1] = toNode[(j - 1) + 1]
    BY <1>1, <2>1
  <2> QED BY <1>1, <2>1, <2>2
<1>3. ASSUME NEW i \in 1..Len(toNode'), Concerns(toNode'[i], r),
             \A j \in i + 1..Len(toNode') : ~Concerns(toNode'[j], r)
      PROVE  Switches[toNode'[i]][2] = v
  <2>1. i + 1 \in 1..Len(toNode) /\ toNode'[i] = toNode[i + 1]
    BY <1>1
  <2>2. ASSUME NEW j \in (i + 1) + 1..Len(toNode) PROVE ~Concerns(toNode[j], r)
    <3>1. j \in 2..Len(toNode) /\ j - 1 \in i + 1..Len(toNode')
      BY <1>1
    <3> QED BY <1>2, <1>3, <3>1
  <2> QED BY <1>3, <2>1, <2>2 DEF Follows
<1>4. ASSUME \A i \in 1..Len(toNode') : ~Concerns(toNode'[i], r)
      PROVE  \A j \in 2..Len(toNode) : ~Concerns(toNode[j], r)
  BY <1>2, <1>4
<1>5. 1 \in 1..Len(toNode) /\ \A i \in 1..Len(toNode) : i = 1 \/ i \in 2..Len(toNode)
  BY <1>1
<1>6. ASSUME \A i \in 1..Len(toNode') : ~Concerns(toNode'[i], r), Concerns(toNode[1], r)
      PROVE  Switches[toNode[1]][2] = v
  <2>1. \A j \in 1 + 1..Len(toNode) : ~Concerns(toNode[j], r)
    BY <1>4, <1>6
  <2> QED BY <1>5, <1>6, <2>1 DEF Follows
<1> QED BY <1>3, <1>4, <1>5, <1>6

LEMMA FollowsNext ==
  ASSUME NEW r, NEW v,
         \A i \in 1..Len(toNode') :
           Concerns(toNode'[i], r) /\ (\A j \in i + 1..Len(toNode') : ~Concerns(toNode'[j], r))
             => Switches[toNode'[i]][2] = v,
         r \notin disturbed' /\ (\A i \in 1..Len(toNode') : ~Concerns(toNode'[i], r))
           => relay'[r] = v
  PROVE  Follows(r, v)'
  BY Zenon DEF Follows, Concerns

LEMMA AirKeeps ==
  ASSUME TypeOK, Air, NEW r \in Relays, NEW v \in BOOLEAN, Follows(r, v)
  PROVE  Follows(r, v)'
<1> USE DEF program, channels, node
<1>1. CASE Perform
  <2>1. /\ toNode # <<>> /\ toNode' = Tail(toNode)
        /\ Head(toNode) = toNode[1]
    BY <1>1, TailFacts DEF Perform, TypeOK
  <2>2. CASE Concerns(toNode[1], r)
    <3>1. relay'[r] = Switches[toNode[1]][2]
      BY <1>1, <2>1, <2>2 DEF Perform, Concerns, TypeOK
    <3>2. (\A i \in 1..Len(toNode') : ~Concerns(toNode'[i], r)) => relay'[r] = v
      BY <2>1, <2>2, <3>1, TailKeeps
    <3> QED BY <2>1, <3>2, TailKeeps, FollowsNext
  <2>3. CASE ~Concerns(toNode[1], r)
    <3>1. relay'[r] = relay[r] /\ (r \in disturbed <=> r \in disturbed')
      BY <1>1, <2>1, <2>3 DEF Perform, Concerns, TypeOK
    <3>2. r \notin disturbed' /\ (\A i \in 1..Len(toNode') : ~Concerns(toNode'[i], r))
            => relay'[r] = v
      <4> SUFFICES ASSUME r \notin disturbed', \A i \in 1..Len(toNode') : ~Concerns(toNode'[i], r)
                   PROVE  relay[r] = v
        BY <3>1
      <4>1. \A i \in 1..Len(toNode) : ~Concerns(toNode[i], r)
        BY <2>1, <2>3, TailKeeps
      <4> QED BY <3>1, <4>1 DEF Follows
    <3> QED BY <2>1, <3>2, TailKeeps, FollowsNext
  <2> QED BY <2>2, <2>3
<1>2. CASE LoseRequest
  <2>1. /\ toNode # <<>> /\ toNode' = Tail(toNode) /\ relay' = relay
        /\ Head(toNode) = toNode[1]
    BY <1>2, TailFacts DEF LoseRequest, TypeOK
  <2>2. disturbed \subseteq disturbed' /\ (Concerns(toNode[1], r) => r \in disturbed')
    BY <1>2, <2>1 DEF LoseRequest, Concerns
  <2>3. r \notin disturbed' /\ (\A i \in 1..Len(toNode') : ~Concerns(toNode'[i], r))
          => relay'[r] = v
    <3> SUFFICES ASSUME r \notin disturbed', \A i \in 1..Len(toNode') : ~Concerns(toNode'[i], r)
                 PROVE  relay[r] = v
      BY <2>1
    <3>1. \A i \in 1..Len(toNode) : ~Concerns(toNode[i], r)
      BY <2>1, <2>2, TailKeeps
    <3> QED BY <2>2, <3>1 DEF Follows
  <2> QED BY <2>1, <2>3, TailKeeps, FollowsNext
<1>3. CASE LoseMessage \/ Deliver \/ Foreign
  BY <1>3, FollowsKept DEF LoseMessage, Deliver, Foreign
<1>4. CASE PowerCycle
  BY <1>4 DEF PowerCycle, Follows, Concerns
<1> QED BY <1>1, <1>2, <1>3, <1>4 DEF Air

\* What is in hand and asked for moves with the program; only a step that sends a command
\* for the relay, or takes it in hand, changes what it is asked for.
LEMMA InHandStep ==
  ASSUME TypeOK, Control, (\E name \in {"thermostat", "pump"} : Start(name)) \/ Run \/ Kill, ~Ask
  PROVE  /\ HeaterInHand' => HeaterInHand /\ HeaterAsked' = HeaterAsked
         /\ PumpInHand' => PumpInHand /\ PumpAsked' = PumpAsked
<1> USE RequestFacts DEF HeaterInHand, HeaterAsked, PumpInHand, PumpAsked, Heating, Watering,
        Control, Phases, Counted, Believes
<1>1. CASE \E name \in {"thermostat", "pump"} : Start(name)
  BY <1>1 DEF Start
<1>2. CASE Kill
  BY <1>2 DEF Kill
<1>3. CASE HelloAnswered
  BY <1>3 DEF HelloAnswered, Proceed
<1>4. CASE PollStarted
  BY <1>4 DEF PollStarted
<1>5. CASE DevtypeAnswered
  BY <1>5 DEF DevtypeAnswered, Proceed
<1>6. CASE HeatingOff
  BY <1>6 DEF HeatingOff, Proceed, Loop
<1>7. CASE UseReading
  BY <1>7 DEF UseReading, Proceed, Decide
<1>8. CASE ReadingRaises
  BY <1>8 DEF ReadingRaises, Proceed
<1>9. CASE InvalidReading
  BY <1>9 DEF InvalidReading, Proceed
<1>10. CASE \E from \in {"turnOn", "turnOff"} : Switched(from)
  BY <1>10 DEF Switched, Proceed, Remember
<1>11. CASE Sleep
  BY <1>11 DEF Sleep, Loop
<1>12. CASE HeatingOffAtExit
  BY <1>12 DEF HeatingOffAtExit, Proceed
<1>13. CASE PumpOn
  BY <1>13 DEF PumpOn, Proceed
<1>14. CASE Pumping
  BY <1>14 DEF Pumping
<1>15. CASE PumpOff
  BY <1>15 DEF PumpOff, Proceed
<1>16. CASE RelayState
  BY <1>16 DEF RelayState, Proceed
<1> QED
  BY <1>1, <1>2, <1>3, <1>4, <1>5, <1>6, <1>7, <1>8, <1>9, <1>10, <1>11, <1>12, <1>13,
     <1>14, <1>15, <1>16 DEF Run

\* A request that is sent is the command asked for, or it is none for the relay in hand.
LEMMA AskInHand ==
  ASSUME TypeOK, Control, Ask
  PROVE  /\ HeaterInHand' =>
              \/ Concerns(Request[step], "heater") /\ Switches[Request[step]][2] = HeaterAsked'
              \/ /\ ~Concerns(Request[step], "heater")
                 /\ HeaterInHand /\ HeaterAsked' = HeaterAsked
         /\ PumpInHand' =>
              \/ Concerns(Request[step], "pump") /\ Switches[Request[step]][2] = PumpAsked'
              \/ /\ ~Concerns(Request[step], "pump")
                 /\ PumpInHand /\ PumpAsked' = PumpAsked
<1>1. /\ step' = step /\ prog' = prog /\ heater' = heater /\ ~waiting /\ waiting'
      /\ step \in DOMAIN Request
  BY DEF Ask
<1>2. step = "init" => heater = FALSE
  BY DEF Control, Counted
<1>3. ASSUME HeaterInHand'
      PROVE  \/ Concerns(Request[step], "heater") /\ Switches[Request[step]][2] = HeaterAsked'
             \/ /\ ~Concerns(Request[step], "heater")
                /\ HeaterInHand /\ HeaterAsked' = HeaterAsked
  <2>1. prog = "thermostat" /\ step \in {"init", "ANAA", "turnOff", "turnOn", "exit"}
    BY <1>1, <1>3, RequestFacts DEF HeaterInHand, Heating
  <2>2. CASE step = "ANAA"
    <3>1. Request[step] \notin DOMAIN Switches
      BY <2>2, RequestFacts, SwitchFacts
    <3>2. HeaterInHand /\ HeaterAsked' = HeaterAsked
      BY <1>1, <2>1, <2>2 DEF HeaterInHand, HeaterAsked, Heating
    <3> QED BY <3>1, <3>2 DEF Concerns
  <2>3. CASE step \in {"init", "turnOff", "exit"}
    <3>1. HeaterAsked' = FALSE
      BY <1>1, <1>2, <2>3, Zenon DEF HeaterAsked
    <3>2. Request[step] = "OUTA0"
      BY <2>3, RequestFacts
    <3> QED BY <3>1, <3>2, SwitchFacts DEF Concerns
  <2>4. CASE step = "turnOn"
    <3>1. HeaterAsked' = TRUE
      BY <1>1, <2>4, Zenon DEF HeaterAsked
    <3> QED BY <2>4, <3>1, RequestFacts, SwitchFacts DEF Concerns
  <2> QED BY <2>1, <2>2, <2>3, <2>4
<1>4. ASSUME PumpInHand'
      PROVE  \/ Concerns(Request[step], "pump") /\ Switches[Request[step]][2] = PumpAsked'
             \/ /\ ~Concerns(Request[step], "pump")
                /\ PumpInHand /\ PumpAsked' = PumpAsked
  <2>1. prog = "pump" /\ step \in {"pumpOn", "pumpOff", "relayState"}
    BY <1>1, <1>4, RequestFacts DEF PumpInHand, Watering
  <2>2. CASE step = "pumpOn"
    <3>1. PumpAsked' = TRUE
      BY <1>1, <2>2, Zenon DEF PumpAsked
    <3> QED BY <2>2, <3>1, RequestFacts, SwitchFacts DEF Concerns
  <2>3. CASE step = "pumpOff"
    <3>1. PumpAsked' = FALSE
      BY <1>1, <2>3 DEF PumpAsked
    <3> QED BY <2>3, <3>1, RequestFacts, SwitchFacts DEF Concerns
  <2>4. CASE step = "relayState"
    <3>1. Request[step] \notin DOMAIN Switches
      BY <2>4, RequestFacts, SwitchFacts
    <3>2. PumpInHand /\ PumpAsked' = PumpAsked
      BY <1>1, <2>1, <2>4 DEF PumpInHand, PumpAsked, Watering
    <3> QED BY <3>1, <3>2 DEF Concerns
  <2> QED BY <2>1, <2>2, <2>3, <2>4
<1> QED BY <1>3, <1>4

LEMMA CommandedStep == TypeOK /\ Control /\ Commanded /\ [Next]_vars => Commanded'
<1> SUFFICES ASSUME TypeOK, Control, Commanded, [Next]_vars PROVE Commanded'
  OBVIOUS
<1>1. CASE Ask
  <2>1. ASSUME HeaterInHand', NEW v \in BOOLEAN, v = HeaterAsked' PROVE Follows("heater", v)'
    <3>1. CASE Concerns(Request[step], "heater")
      BY <1>1, <2>1, <3>1, AskInHand, AskFollows
    <3>2. CASE ~Concerns(Request[step], "heater")
      <4>1. Follows("heater", v)
        BY <1>1, <2>1, <3>2, AskInHand DEF Commanded
      <4> QED BY <1>1, <3>2, <4>1, AskKeeps
    <3> QED BY <3>1, <3>2
  <2>2. ASSUME PumpInHand', NEW v \in BOOLEAN, v = PumpAsked' PROVE Follows("pump", v)'
    <3>1. CASE Concerns(Request[step], "pump")
      BY <1>1, <2>2, <3>1, AskInHand, AskFollows
    <3>2. CASE ~Concerns(Request[step], "pump")
      <4>1. Follows("pump", v)
        BY <1>1, <2>2, <3>2, AskInHand DEF Commanded
      <4> QED BY <1>1, <3>2, <4>1, AskKeeps
    <3> QED BY <3>1, <3>2
  <2> QED BY <2>1, <2>2 DEF Commanded
<1>2. CASE ((\E name \in {"thermostat", "pump"} : Start(name)) \/ Run \/ Kill) /\ ~Ask
  <2>1. toNode' = toNode /\ node' = node
    BY <1>2, ProgramChannels
  <2>2. ASSUME HeaterInHand', NEW v \in BOOLEAN, v = HeaterAsked' PROVE Follows("heater", v)'
    <3>1. Follows("heater", v)
      BY <1>2, <2>2, InHandStep DEF Commanded
    <3> QED BY <2>1, <3>1, FollowsKept
  <2>3. ASSUME PumpInHand', NEW v \in BOOLEAN, v = PumpAsked' PROVE Follows("pump", v)'
    <3>1. Follows("pump", v)
      BY <1>2, <2>3, InHandStep DEF Commanded
    <3> QED BY <2>1, <3>1, FollowsKept
  <2> QED BY <2>2, <2>3 DEF Commanded
<1>3. CASE Air
  <2>1. /\ HeaterInHand' <=> HeaterInHand /\ HeaterAsked' = HeaterAsked
        /\ PumpInHand' <=> PumpInHand /\ PumpAsked' = PumpAsked
    BY <1>3, AirQueues DEF program, HeaterInHand, HeaterAsked, PumpInHand, PumpAsked
  <2>2. ASSUME HeaterInHand', NEW v \in BOOLEAN, v = HeaterAsked' PROVE Follows("heater", v)'
    <3>1. Follows("heater", v)
      BY <2>1, <2>2 DEF Commanded
    <3> QED BY <1>3, <3>1, AirKeeps DEF Relays
  <2>3. ASSUME PumpInHand', NEW v \in BOOLEAN, v = PumpAsked' PROVE Follows("pump", v)'
    <3>1. Follows("pump", v)
      BY <2>1, <2>3 DEF Commanded
    <3> QED BY <1>3, <3>1, AirKeeps DEF Relays
  <2> QED BY <2>2, <2>3 DEF Commanded
<1>4. CASE UNCHANGED vars
  <2>1. toNode' = toNode /\ node' = node
    BY <1>4 DEF vars, channels
  <2>2. /\ HeaterInHand' <=> HeaterInHand /\ HeaterAsked' = HeaterAsked
        /\ PumpInHand' <=> PumpInHand /\ PumpAsked' = PumpAsked
    BY <1>4 DEF vars, program, HeaterInHand, HeaterAsked, PumpInHand, PumpAsked
  <2> QED BY <2>1, <2>2, FollowsKept DEF Commanded
<1> QED BY <1>1, <1>2, <1>3, <1>4 DEF Next

LEMMA CommandedCorrect == Spec => []Commanded
<1>1. Init => Commanded
  BY DEF Init, Commanded, HeaterInHand, PumpInHand, Heating, Watering
<1> QED BY <1>1, CommandedStep, TypesAndControl, PTL DEF Spec

\* A relay for which nothing was lost and nothing is under way is as it was asked to be.
LEMMA SettledFollows ==
  ASSUME NEW r, NEW v, Settled(r), Follows(r, v) PROVE relay[r] = v
  BY DEF Settled, Follows, Concerns

\* Where nothing was lost, the heating follows the last usable reading while the
\* thermostat sleeps, and it is off at the end, however its programs were cut off
\* before, whatever was late, foreign or garbled.
THEOREM HeatingFollowsCorrect == Spec => []HeatingFollows
<1>1. TypeOK /\ Control /\ Commanded => HeatingFollows
  <2> SUFFICES ASSUME TypeOK, Control, Commanded, prog = "thermostat", Settled("heater"),
                      step \in {"sleep", "END"}
               PROVE  relay["heater"] = heater /\ heater = (step = "sleep" /\ last = "cold")
    BY Zenon DEF HeatingFollows
  <2>1. HeaterInHand /\ HeaterAsked = heater /\ heater \in BOOLEAN
    BY DEF HeaterInHand, HeaterAsked, Heating, TypeOK
  <2>2. relay["heater"] = heater
    BY <2>1, SettledFollows DEF Commanded
  <2>3. heater = (step = "sleep" /\ last = "cold")
    BY DEF Control, Believes
  <2> QED BY <2>2, <2>3
<1> QED BY <1>1, TypesAndControl, CommandedCorrect, PTL

\* Where nothing was lost, the pump runs while the program sleeps its seconds, and it
\* has stopped when the program ends.
THEOREM PumpFollowsCorrect == Spec => []PumpFollows
<1>1. TypeOK /\ Control /\ Commanded => PumpFollows
  <2> SUFFICES ASSUME TypeOK, Control, Commanded, prog = "pump", Settled("pump"),
                      step \in {"pumping", "relayState", "END"}
               PROVE  relay["pump"] = (step = "pumping")
    BY Zenon DEF PumpFollows
  <2>1. PumpInHand /\ PumpAsked = (step = "pumping")
    BY DEF PumpInHand, PumpAsked, Watering
  <2>2. PumpAsked \in BOOLEAN
    BY Zenon DEF PumpAsked
  <2>3. relay["pump"] = PumpAsked
    BY <2>1, <2>2, SettledFollows DEF Commanded
  <2> QED BY <2>1, <2>3
<1> QED BY <1>1, TypesAndControl, CommandedCorrect, PTL

-----------------------------------------------------------------------------
\* No answer of an earlier reading.
LEMMA QuietIsFresh ==
  ASSUME TypeOK, Quiet
  PROVE  \A i \in 1..Len(fromNode) : fromNode[i].is # "ANAA"
  BY DEF TypeOK, Quiet

\* After every step of a program but a request nothing is waited for, and the number of
\* readings only changes when nothing of the last one is under way.
LEMMA CountChanges ==
  ASSUME TypeOK, Phases, (\E name \in {"thermostat", "pump"} : Start(name)) \/ Run \/ Kill, ~Ask
  PROVE  ~waiting' /\ (n' = n \/ Quiet)
<1>1. /\ step \in {"sleep", "getstarted", "pumping"} => ~waiting
      /\ waiting \in BOOLEAN
  BY RequestFacts DEF Phases, TypeOK
<1>2. CASE \E name \in {"thermostat", "pump"} : Start(name)
  BY <1>2 DEF Start
<1>3. CASE Kill
  BY <1>3 DEF Kill
<1>4. CASE Run
  BY <1>1, <1>4 DEF Run, HelloAnswered, PollStarted, DevtypeAnswered, HeatingOff, UseReading,
     ReadingRaises, InvalidReading, Switched, Sleep, HeatingOffAtExit, PumpOn, Pumping, PumpOff,
     RelayState, Proceed
<1> QED BY <1>2, <1>3, <1>4

LEMMA FreshStep == TypeOK /\ Phases /\ Fresh /\ [Next]_vars => Fresh'
<1> SUFFICES ASSUME TypeOK, Phases, Fresh, [Next]_vars PROVE Fresh'
  OBVIOUS
<1>1. CASE Ask
  BY <1>1 DEF Ask, Fresh, FreshIn, flushInput
<1>2. CASE ((\E name \in {"thermostat", "pump"} : Start(name)) \/ Run \/ Kill) /\ ~Ask
  <2>1. fromNode' = fromNode /\ ~waiting' /\ (n' = n \/ Quiet)
    BY <1>2, ProgramChannels, CountChanges
  <2>2. \A i \in 1..Len(fromNode) : fromNode[i].is = "ANAA" => fromNode[i].during = n'
    BY <2>1, QuietIsFresh DEF Fresh, FreshIn
  <2> QED BY <2>1, <2>2 DEF Fresh, FreshIn
<1>3. CASE Air
  <2>1. n' = n /\ waiting' = waiting
    BY <1>3, AirQueues DEF program
  <2>2. FreshIn(fromNode)'
    <3>1. CASE fromNode # <<>> /\ fromNode' = Tail(fromNode)
      <4>1. /\ Len(Tail(fromNode)) = Len(fromNode) - 1 /\ Len(fromNode) \in Nat
            /\ \A i \in 1..Len(fromNode) - 1 : Tail(fromNode)[i] = fromNode[i + 1]
        BY <3>1, TailFacts DEF TypeOK
      <4>2. ASSUME NEW i \in 1..Len(fromNode')
            PROVE  i + 1 \in 1..Len(fromNode) /\ fromNode'[i] = fromNode[i + 1]
        BY <3>1, <4>1
      <4> QED BY <2>1, <4>2 DEF Fresh, FreshIn
    <3>2. ASSUME NEW m \in Messages, fromNode' = Append(fromNode, m),
                 m.is = "ANAA" => m.during = n
          PROVE  FreshIn(fromNode)'
      <4>1. ASSUME NEW i \in 1..Len(fromNode')
            PROVE  fromNode'[i] = m \/ (i \in 1..Len(fromNode) /\ fromNode'[i] = fromNode[i])
        BY <3>2, AppendFacts DEF TypeOK
      <4> QED BY <2>1, <3>2, <4>1 DEF Fresh, FreshIn
    <3>3. CASE fromNode' = fromNode
      BY <2>1, <3>3 DEF Fresh, FreshIn
    <3> QED BY <1>3, <3>1, <3>2, <3>3, AirQueues
  <2>3. waiting => FreshIn(buffer)'
    <3> SUFFICES ASSUME waiting PROVE FreshIn(buffer)'
      OBVIOUS
    <3>1. ASSUME NEW m \in Messages, buffer' = Append(buffer, m),
                 m.is = "foreign" \/ (fromNode # <<>> /\ m = fromNode[1])
          PROVE  FreshIn(buffer)'
      <4>1. m.is = "ANAA" => m.during = n
        <5>1. fromNode # <<>> => 1 \in 1..Len(fromNode)
          BY DEF TypeOK
        <5> QED BY <3>1, <5>1 DEF Fresh, FreshIn
      <4>2. ASSUME NEW i \in 1..Len(buffer')
            PROVE  buffer'[i] = m \/ (i \in 1..Len(buffer) /\ buffer'[i] = buffer[i])
        BY <3>1, AppendFacts DEF TypeOK
      <4> QED BY <2>1, <4>1, <4>2 DEF Fresh, FreshIn
    <3>2. CASE buffer' = buffer
      BY <2>1, <3>2 DEF Fresh, FreshIn
    <3> QED BY <1>3, <3>1, <3>2, AirQueues
  <2> QED BY <2>1, <2>2, <2>3 DEF Fresh
<1>4. CASE UNCHANGED vars
  BY <1>4 DEF vars, program, channels, Fresh, FreshIn
<1> QED BY <1>1, <1>2, <1>3, <1>4 DEF Next

\* The heating is switched only by a temperature that the node took for the request just
\* made, never by one that came late or was left in the buffer.
THEOREM SwitchedByFreshCorrect == Spec => SwitchedByFresh
<1>1. Init => Fresh
  BY DEF Init, Fresh, FreshIn
<1>2. TypeOK /\ Fresh /\ [Next]_vars =>
        [waiting /\ step = "ANAA" /\ step' \in {"turnOn", "turnOff"}
           => Head(buffer).during = n]_vars
  <2> SUFFICES ASSUME TypeOK, Fresh, Next, waiting, step = "ANAA",
                      step' \in {"turnOn", "turnOff"}
               PROVE  Head(buffer).during = n
    BY DEF vars
  <2>1. CASE UseReading
    <3>1. buffer # <<>> /\ Head(buffer).is = "ANAA"
      BY <2>1 DEF UseReading, Answered
    <3>2. Head(buffer) = buffer[1] /\ 1 \in 1..Len(buffer)
      BY <3>1, TailFacts DEF TypeOK
    <3> QED BY <3>1, <3>2 DEF Fresh, FreshIn
  <2>2. CASE Air \/ Kill \/ \E name \in {"thermostat", "pump"} : Start(name)
    BY <2>2, AirQueues DEF program, Kill, Start
  <2>3. CASE Run /\ ~UseReading
    BY <2>3 DEF Run, Ask, HelloAnswered, PollStarted, DevtypeAnswered, HeatingOff,
       ReadingRaises, InvalidReading, Switched, Sleep, HeatingOffAtExit, PumpOn, Pumping,
       PumpOff, RelayState, Proceed
  <2> QED BY <2>1, <2>2, <2>3 DEF Next
<1>3. Spec => []Fresh
  BY <1>1, FreshStep, TypesAndControl, PTL DEF Spec, Control
<1> QED BY <1>2, <1>3, TypesAndControl, PTL DEF Spec, SwitchedByFresh
=============================================================================
