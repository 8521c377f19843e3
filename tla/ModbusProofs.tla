------------------------------ MODULE ModbusProofs ------------------------------
(***************************************************************************)
(* Proofs about ModbusMaster and ModbusExchange, for every timeout, length *)
(* of reply, number of calls, set of operations and device memory.         *)
(*                                                                         *)
(* Of ModbusMaster: the types, the time the watchdog keeps, and that a     *)
(* success rests on the device's answer to that very request.              *)
(*                                                                         *)
(* Of ModbusExchange: it implements ModbusMaster, whose theorems it        *)
(* inherits; a write reported as done is never overtaken by a later one;   *)
(* every request can be taken apart; a write lands as it is meant; a read  *)
(* returns what the device has read out, and values come back from it;     *)
(* and altogether it implements RegisterAccess.                            *)
(*                                                                         *)
(* The packets are followed byte by byte, through the builders, the device *)
(* and the parsers.  What FlattenSeq joins is followed by induction, over  *)
(* the least number that lacks a property.                                 *)
(***************************************************************************)
EXTENDS ModbusExchange, TLAPS, WellFoundedInduction

-----------------------------------------------------------------------------
LEMMA PacketType ==
  /\ Null \in Packets
  /\ NoResult \in [is : {"none", "ok", "error"}, packet : Packets]
  BY DEF Null, NoResult, Packets

LEMMA FirstSegment ==
  \A q \in Seq(Segment) : q # <<>> =>
    /\ Head(q) = q[1] /\ 1 \in 1..Len(q)
    /\ Head(q) \in Segment
    /\ Tail(q) \in Seq(Segment)
    /\ \A i \in 1..Len(Tail(q)) : Tail(q)[i] = q[i + 1] /\ i + 1 \in 1..Len(q)
  OBVIOUS

\* The connection in use is the current call's own.
SocketOwn ==
  /\ pc \in {"connect", "send", "rec", "parse"} => call \in Calls
  /\ pc \in {"send", "rec", "parse"} => sock = call

\* The types, inductive together with the place of the connection: rec and
\* send index the connections with sock.
LEMMA TypesAndSocket == Spec => [](TypeOK /\ SocketOwn)
<1> USE ModbusAssumption DEF Calls
<1>1. Init => TypeOK
  <2>1. Init => packet \in Packets /\ result \in [is : {"none", "ok", "error"}, packet : Packets]
    BY PacketType DEF Init
  <2>2. Init => incoming \in [Calls -> Seq(Segment)]
    BY DEF Init
  <2> QED BY <2>1, <2>2 DEF Init, TypeOK
<1>2. TypeOK /\ SocketOwn /\ [Next]_vars => TypeOK'
  <2> SUFFICES ASSUME TypeOK, SocketOwn, [Next]_vars PROVE TypeOK'
    OBVIOUS
  <2> USE DEF request, device
  <2>1. CASE \E k \in {"read", "write"} : Call(k)
    BY <2>1, PacketType DEF TypeOK, Call
  <2>2. CASE ConnectOk
    BY <2>2 DEF TypeOK, ConnectOk, NewSocket
  <2>3. CASE ConnectFails
    BY <2>3, PacketType DEF TypeOK, ConnectFails, NewSocket, Throw
  <2>4. CASE Send
    BY <2>4 DEF TypeOK, SocketOwn, Send
  <2>5. CASE RecvData
    <3>1. Head(incoming[sock]) \in Packets /\ Tail(incoming[sock]) \in Seq(Segment)
      BY <2>5, FirstSegment DEF TypeOK, SocketOwn, RecvData, Packets
    <3> QED BY <2>5, <3>1 DEF TypeOK, SocketOwn, RecvData
  <2>6. CASE RecvNothing
    BY <2>6 DEF TypeOK, RecvNothing
  <2>7. CASE WaitMore
    BY <2>7 DEF TypeOK, WaitMore, vars
  <2>8. CASE Watchdog
    BY <2>8, PacketType DEF TypeOK, Watchdog, Throw
  <2>9. CASE SelectFails
    BY <2>9, PacketType DEF TypeOK, SelectFails
  <2>10. CASE ParseFails
    BY <2>10, PacketType DEF TypeOK, ParseFails, Throw
  <2>11. CASE ParseOk
    BY <2>11 DEF TypeOK, ParseOk
  <2>12. CASE \E r \in requests, s \in Segment : Reply(r, s)
    <3> PICK r \in requests, s \in Segment : Reply(r, s)
      BY <2>12
    <3>1. Append(incoming[r.sock], s) \in Seq(Segment)
      BY DEF TypeOK
    <3>2. incoming' \in [Calls -> Seq(Segment)]
      BY <3>1 DEF TypeOK, Reply
    <3>3. applied' \subseteq Calls
      BY DEF TypeOK, Reply
    <3> QED BY <3>2, <3>3 DEF TypeOK, Reply
  <2>13. CASE \E c \in Calls : PeerCloses(c)
    BY <2>13 DEF TypeOK, PeerCloses
  <2>14. CASE Tick
    BY <2>14 DEF TypeOK, Tick, WatchdogDue
  <2>15. CASE Stop
    BY <2>15 DEF TypeOK, Stop
  <2>16. CASE UNCHANGED vars
    BY <2>16 DEF TypeOK, vars
  <2> QED
    BY <2>1, <2>2, <2>3, <2>4, <2>5, <2>6, <2>7, <2>8, <2>9, <2>10, <2>11,
       <2>12, <2>13, <2>14, <2>15, <2>16 DEF Next, InCall, Device
<1>3. Init => SocketOwn
  BY DEF Init, SocketOwn
<1>4. TypeOK /\ SocketOwn /\ [Next]_vars => SocketOwn'
  <2> SUFFICES ASSUME TypeOK, SocketOwn, [Next]_vars PROVE SocketOwn'
    OBVIOUS
  <2> USE DEF TypeOK, SocketOwn, request, device
  <2>1. CASE \E k \in {"read", "write"} : Call(k)
    BY <2>1 DEF Call
  <2>2. CASE InCall
    BY <2>2 DEF InCall, ConnectOk, ConnectFails, NewSocket, Send, RecvData,
       RecvNothing, WaitMore, Watchdog, SelectFails, ParseFails, ParseOk, Throw, vars
  <2>3. CASE Device \/ Tick \/ Stop \/ UNCHANGED vars
    BY <2>3 DEF Device, Reply, PeerCloses, Tick, Stop, vars
  <2> QED BY <2>1, <2>2, <2>3 DEF Next
<1> QED BY <1>1, <1>2, <1>3, <1>4, PTL DEF Spec

\* Every variable keeps its type.
THEOREM TypeCorrect == Spec => []TypeOK
  BY TypesAndSocket, PTL

-----------------------------------------------------------------------------
\* lastAccess is as old as the wait, as long as the peer has not closed.
Timed == pc = "rec" /\ sock \notin closed => waited = idle

\* The watchdog keeps its time unless the peer closes the connection.
THEOREM WaitBoundedCorrect == Spec => []WaitBounded
<1> USE ModbusAssumption DEF Calls
<1>1. Init => Timed
  BY DEF Init, Timed
<1>2. Timed /\ TypeOK /\ [Next]_vars => Timed'
  <2> SUFFICES ASSUME Timed, TypeOK, [Next]_vars PROVE Timed'
    OBVIOUS
  <2> USE DEF Timed, request, device
  <2>1. CASE \E k \in {"read", "write"} : Call(k)
    BY <2>1 DEF Call
  <2>2. CASE InCall
    BY <2>2 DEF InCall, ConnectOk, ConnectFails, Send, RecvData, RecvNothing,
       WaitMore, Watchdog, SelectFails, ParseFails, ParseOk, Throw, vars
  <2>3. CASE Device
    BY <2>3 DEF Device, Reply, PeerCloses
  <2>4. CASE Tick
    BY <2>4 DEF Tick
  <2>5. CASE Stop \/ UNCHANGED vars
    BY <2>5 DEF Stop, vars
  <2> QED BY <2>1, <2>2, <2>3, <2>4, <2>5 DEF Next
<1>3. Timed /\ TypeOK => WaitBounded
  BY DEF Timed, TypeOK, WaitBounded
<1> QED BY <1>1, <1>2, <1>3, TypeCorrect, PTL DEF Spec

-----------------------------------------------------------------------------
\* The device knows of requests of calls made, each by its own connection.
RequestsOwn ==
  \A r \in requests :
    r.sock = r.call /\ r.call <= call /\ (r.call = call => r.kind = kind)

\* What p says of the call it answers is true.
Truthful(p) == p.call = call /\ kind = "write" /\ p.reply = "normal" => call \in applied

\* A connection carries replies to its own call only.
IncomingOwn ==
  \A c \in Calls : \A i \in 1..Len(incoming[c]) :
    incoming[c][i].call = c /\ c <= call /\ Truthful(incoming[c][i])

\* What is parsed has come in on the connection of this call.
PacketOwn == pc = "parse" /\ packet # Null => packet.call = call /\ Truthful(packet)

\* The result of the previous call is gone while a call runs.
ResultFresh == pc \in {"connect", "send", "rec", "parse"} => result = NoResult

Own == SocketOwn /\ RequestsOwn /\ IncomingOwn /\ PacketOwn /\ ResultFresh /\ SuccessIsOwn

LEMMA OwnStep == Own /\ TypeOK /\ [Next]_vars => Own'
<1> SUFFICES ASSUME Own, TypeOK, [Next]_vars PROVE Own'
  OBVIOUS
<1> USE ModbusAssumption DEF Calls, request, device
<1>1. CASE \E k \in {"read", "write"} : Call(k)
  <2> PICK k \in {"read", "write"} : Call(k)
    BY <1>1
  <2>1. SocketOwn' /\ PacketOwn' /\ ResultFresh' /\ SuccessIsOwn'
    BY DEF Call, SocketOwn, PacketOwn, ResultFresh, SuccessIsOwn, NoResult, TypeOK
  <2>2. RequestsOwn'
    BY DEF Call, Own, RequestsOwn, TypeOK
  <2>3. IncomingOwn'
    <3>1. incoming' = incoming /\ applied' = applied /\ call' = call + 1 /\ call \in Nat
      BY DEF Call, TypeOK
    <3> SUFFICES ASSUME NEW c \in Calls, NEW i \in 1..Len(incoming[c])
                 PROVE  /\ incoming[c][i].call = c /\ c <= call'
                        /\ Truthful(incoming[c][i])'
      BY <3>1 DEF IncomingOwn
    <3>2. incoming[c][i].call = c /\ c <= call
      BY DEF Own, IncomingOwn
    <3>3. c <= call' /\ c # call'
      BY <3>1, <3>2
    <3>4. Truthful(incoming[c][i])'
      BY <3>1, <3>2, <3>3 DEF Truthful
    <3> QED BY <3>2, <3>3, <3>4
  <2> QED BY <2>1, <2>2, <2>3 DEF Own
<1>2. CASE ConnectOk
  BY <1>2 DEF ConnectOk, NewSocket, Own, SocketOwn, RequestsOwn, IncomingOwn,
     PacketOwn, ResultFresh, SuccessIsOwn, Truthful
<1>3. CASE ConnectFails
  BY <1>3 DEF ConnectFails, NewSocket, Throw, Own, SocketOwn, RequestsOwn,
     IncomingOwn, PacketOwn, ResultFresh, SuccessIsOwn, Truthful
<1>4. CASE Send
  <2>1. RequestsOwn'
    BY <1>4 DEF Send, Own, RequestsOwn, SocketOwn, TypeOK
  <2> QED
    BY <1>4, <2>1 DEF Send, Own, SocketOwn, IncomingOwn, PacketOwn,
       ResultFresh, SuccessIsOwn, Truthful
<1>5. CASE RecvData
  <2>1. sock = call /\ sock \in Calls /\ incoming[sock] \in Seq(Segment)
    BY <1>5 DEF RecvData, Own, SocketOwn, TypeOK
  <2>2. PacketOwn'
    BY <1>5, <2>1, FirstSegment DEF RecvData, Own, IncomingOwn, PacketOwn, Truthful
  <2>3. IncomingOwn'
    <3> SUFFICES ASSUME NEW c \in Calls, NEW i \in 1..Len(incoming'[c])
                 PROVE  /\ incoming'[c][i].call = c /\ c <= call'
                        /\ Truthful(incoming[c][i])'
      BY DEF IncomingOwn
    <3>1. CASE c # sock
      BY <1>5, <3>1 DEF RecvData, Own, IncomingOwn, Truthful, TypeOK
    <3>2. CASE c = sock
      <4>1. /\ incoming'[c] = Tail(incoming[c]) /\ incoming[c] # <<>>
            /\ incoming[c] \in Seq(Segment)
        BY <1>5, <2>1, <3>2 DEF RecvData, TypeOK
      <4>2. incoming'[c][i] = incoming[c][i + 1] /\ i + 1 \in 1..Len(incoming[c])
        BY <4>1, FirstSegment
      <4> QED BY <1>5, <4>2 DEF RecvData, Own, IncomingOwn, Truthful
    <3> QED BY <3>1, <3>2
  <2> QED
    BY <1>5, <2>2, <2>3 DEF RecvData, Own, SocketOwn, RequestsOwn, ResultFresh,
       SuccessIsOwn
<1>6. CASE RecvNothing \/ WaitMore \/ Tick \/ Stop \/ UNCHANGED vars
  BY <1>6 DEF RecvNothing, WaitMore, Tick, Stop, vars, Own, SocketOwn,
     RequestsOwn, IncomingOwn, PacketOwn, ResultFresh, SuccessIsOwn, Truthful
<1>7. CASE Watchdog \/ SelectFails \/ ParseFails
  BY <1>7 DEF Watchdog, SelectFails, ParseFails, Throw, Own, SocketOwn,
     RequestsOwn, IncomingOwn, PacketOwn, ResultFresh, SuccessIsOwn, Truthful
<1>8. CASE ParseOk
  <2>1. SuccessIsOwn'
    <3> SUFFICES ASSUME packet.len >= 8
                 PROVE  /\ packet.call = call /\ packet.reply = "normal"
                        /\ kind = "write" => call \in applied
      BY <1>8 DEF ParseOk, SuccessIsOwn
    <3>1. packet # Null
      BY DEF Null
    <3>2. packet.reply = "normal"
      BY <1>8, <3>1 DEF ParseOk, ExceptionCode, CodeSeen, TypeOK, Packets, Segment
    <3> QED BY <1>8, <3>1, <3>2 DEF ParseOk, Own, PacketOwn, Truthful
  <2> QED
    BY <1>8, <2>1 DEF ParseOk, Own, SocketOwn, RequestsOwn, IncomingOwn,
       PacketOwn, ResultFresh, Truthful
<1>9. CASE \E r \in requests, s \in Segment : Reply(r, s)
  <2> PICK r \in requests, s \in Segment : Reply(r, s)
    BY <1>9
  <2>1. r.sock = r.call /\ r.call \in Calls /\ r.call <= call /\ s.call = r.call
    BY DEF Reply, Own, RequestsOwn, TypeOK
  <2>2. applied \subseteq applied'
    BY DEF Reply
  <2>3. Truthful(s)'
    BY <2>1 DEF Reply, Own, RequestsOwn, Truthful
  <2>4. IncomingOwn'
    <3> SUFFICES ASSUME NEW c \in Calls, NEW i \in 1..Len(incoming'[c])
                 PROVE  /\ incoming'[c][i].call = c /\ c <= call'
                        /\ Truthful(incoming[c][i])'
      BY DEF IncomingOwn
    <3>1. CASE i \in 1..Len(incoming[c]) /\ incoming'[c][i] = incoming[c][i]
      BY <2>2, <3>1 DEF Reply, Own, IncomingOwn, Truthful
    <3>2. CASE c = r.sock /\ incoming'[c][i] = s
      BY <2>1, <2>3, <3>2 DEF Reply
    <3>3. \/ incoming'[c] = incoming[c]
          \/ c = r.sock /\ incoming'[c] = Append(incoming[c], s)
      BY <2>1 DEF Reply, TypeOK
    <3>4. incoming[c] \in Seq(Segment)
      BY DEF TypeOK
    <3> QED BY <3>1, <3>2, <3>3, <3>4
  <2> QED
    BY <2>2, <2>4 DEF Reply, Own, SocketOwn, RequestsOwn, PacketOwn, ResultFresh,
       SuccessIsOwn, Truthful
<1>10. CASE \E c \in Calls : PeerCloses(c)
  BY <1>10 DEF PeerCloses, Own, SocketOwn, RequestsOwn, IncomingOwn, PacketOwn,
     ResultFresh, SuccessIsOwn, Truthful
<1> QED
  BY <1>1, <1>2, <1>3, <1>4, <1>5, <1>6, <1>7, <1>8, <1>9, <1>10
     DEF Next, InCall, Device

LEMMA OwnCorrect == Spec => []Own
<1>1. Init => Own
  BY ModbusAssumption DEF Init, Own, SocketOwn, RequestsOwn, IncomingOwn, PacketOwn,
     ResultFresh, SuccessIsOwn, NoResult, Calls
<1> QED BY <1>1, OwnStep, TypeCorrect, PTL DEF Spec

\* A success that rests on a packet long enough to hold a code is the normal
\* reply to this very request, and a write so reported has been performed.
THEOREM SuccessIsOwnCorrect == Spec => []SuccessIsOwn
<1>1. Own => SuccessIsOwn
  BY DEF Own
<1> QED BY <1>1, OwnCorrect, PTL

-----------------------------------------------------------------------------
\* The step of ModbusMaster in a step of ModbusExchange.
LEMMA StepImplements == [XNext]_xvars => [Next]_vars
<1> SUFFICES ASSUME [XNext]_xvars PROVE [Next]_vars
  OBVIOUS
<1>1. CASE \E op \in Operations : XCall(op)
  BY <1>1 DEF XCall, Kind, Next
<1>2. CASE \E r \in requests, s \in Segment : XReply(r, s)
  BY <1>2 DEF XReply, Next, Device
<1>3. CASE XParseOk
  BY <1>3 DEF XParseOk, Next, InCall
<1>4. CASE XRest
  BY <1>4 DEF XRest, Next, InCall, Device
<1>5. CASE UNCHANGED xvars
  BY <1>5 DEF xvars
<1> QED BY <1>1, <1>2, <1>3, <1>4, <1>5 DEF XNext

\* The calls with their packets are calls of ModbusMaster: what the connection,
\* the watchdog and the response code promise holds whatever is in the packets.
THEOREM ExchangeImplements == XSpec => Spec
<1>1. XInit => Init
  BY DEF XInit
<1> QED BY <1>1, StepImplements, PTL DEF XSpec, Spec

-----------------------------------------------------------------------------
\* A call is written at most once, and not while its request is pending.
Once ==
  /\ written \in Seq(Calls)
  /\ \A i, j \in 1..Len(written) : written[i] = written[j] => i = j
  /\ \A i \in 1..Len(written) : written[i] <= call
  /\ \A r, q \in requests : r.call = q.call => r = q
  /\ \A r \in requests : \A i \in 1..Len(written) : written[i] # r.call

\* Nothing is known of a call that has not sent its request.
Unsent ==
  pc \in {"connect", "send"} =>
    /\ \A r \in requests : r.call < call
    /\ \A i \in 1..Len(written) : written[i] < call

\* What the device has applied it has written.
AppliedWritten == \A c \in applied : \E j \in 1..Len(written) : written[j] = c

Ordered == Once /\ Unsent /\ AppliedWritten /\ ConfirmedInOrder

LEMMA OrderedStep == Ordered /\ Own /\ TypeOK /\ [XNext]_xvars => Ordered'
<1> SUFFICES ASSUME Ordered, Own, TypeOK, [XNext]_xvars PROVE Ordered'
  OBVIOUS
<1> USE ModbusAssumption DEF Calls, request, device, Ordered
<1>1. CASE \E op \in Operations : XCall(op)
  <2> PICK op \in Operations : XCall(op)
    BY <1>1
  <2>1. /\ call \in Nat /\ call' = call + 1 /\ requests' = requests /\ written' = written
        /\ applied' = applied /\ confirmed' = confirmed /\ pc' = "connect"
    BY DEF XCall, Call, TypeOK
  <2>2. \A r \in requests : r.call <= call /\ r.call \in Nat
    BY DEF Own, RequestsOwn, TypeOK
  <2>3. Once' /\ Unsent'
    BY <2>1, <2>2 DEF Once, Unsent
  <2> QED BY <2>1, <2>3 DEF AppliedWritten, ConfirmedInOrder
<1>2. CASE \E r \in requests, s \in Segment : XReply(r, s)
  <2> PICK r \in requests, s \in Segment : XReply(r, s)
    BY <1>2
  <2>1. /\ r.call \in Calls /\ r.call <= call
        /\ requests' = requests \ {r} /\ call' = call /\ pc' = pc /\ confirmed' = confirmed
    BY DEF XReply, Reply, Own, RequestsOwn, TypeOK
  <2>2. CASE s.reply = "normal" /\ r.kind = "write"
    <3>1. written' = Append(written, r.call) /\ applied' = applied \union {r.call}
      BY <2>2 DEF XReply, Reply
    <3>2. /\ Len(written') = Len(written) + 1 /\ written' \in Seq(Calls)
          /\ \A i \in 1..Len(written) : written'[i] = written[i]
          /\ written'[Len(written) + 1] = r.call
          /\ Len(written) \in Nat
      BY <2>1, <3>1 DEF Once
    <3>3. Once'
      <4>1. \A q \in requests' : q \in requests /\ q.call # r.call
        BY <2>1 DEF Once
      <4>2. \A i \in 1..Len(written') : i \in 1..Len(written) \/ i = Len(written) + 1
        BY <3>2
      <4>3. \A i \in 1..Len(written) : written[i] # r.call
        BY DEF Once
      <4>4. \A i, j \in 1..Len(written') : written'[i] = written'[j] => i = j
        BY <3>2, <4>2, <4>3 DEF Once
      <4>5. \A q \in requests' : \A i \in 1..Len(written') : written'[i] # q.call
        BY <3>2, <4>1, <4>2 DEF Once
      <4>6. \A i \in 1..Len(written') : written'[i] <= call'
        BY <2>1, <3>2, <4>2 DEF Once
      <4> QED BY <2>1, <3>2, <4>4, <4>5, <4>6 DEF Once
    <3>4. Unsent'
      BY <2>1, <3>2 DEF Unsent
    <3>5. AppliedWritten'
      BY <3>1, <3>2 DEF AppliedWritten
    <3>6. ConfirmedInOrder'
      <4> SUFFICES ASSUME NEW c \in confirmed
                   PROVE  \E j \in DOMAIN written' :
                            written'[j] = c /\ \A i \in 1..j - 1 : written'[i] < c
        BY <2>1 DEF ConfirmedInOrder
      <4>1. PICK j \in DOMAIN written : written[j] = c /\ \A i \in 1..j - 1 : written[i] < c
        BY DEF ConfirmedInOrder
      <4>2. j \in 1..Len(written) /\ 1..j - 1 \subseteq 1..Len(written)
        BY <4>1 DEF Once
      <4>3. j \in DOMAIN written'
        BY <3>2, <4>2
      <4>4. written'[j] = c
        BY <3>2, <4>1, <4>2
      <4>5. \A i \in 1..j - 1 : written'[i] < c
        <5> TAKE i \in 1..j - 1
        <5>1. i \in 1..Len(written)
          BY <4>2
        <5>2. written'[i] = written[i]
          BY <3>2, <5>1
        <5> QED BY <4>1, <5>2
      <4> QED BY <4>3, <4>4, <4>5, Zenon
    <3> QED BY <3>3, <3>4, <3>5, <3>6
  <2>3. CASE ~(s.reply = "normal" /\ r.kind = "write")
    <3>1. written' = written /\ applied' = applied
      BY <2>3 DEF XReply, Reply
    <3> QED
      BY <2>1, <3>1 DEF Once, Unsent, AppliedWritten, ConfirmedInOrder
  <2> QED BY <2>2, <2>3
<1>3. CASE XParseOk
  <2>1. /\ written' = written /\ requests' = requests /\ applied' = applied
        /\ call' = call /\ pc' = "idle"
    BY <1>3 DEF XParseOk, ParseOk
  <2>2. ConfirmedInOrder'
    <3>1. CASE kind = "write" /\ CodeSeen
      <4>1. call \in applied
        <5>1. packet # Null
          BY <3>1 DEF CodeSeen, Null
        <5>2. packet.reply = "normal"
          BY <1>3, <3>1, <5>1 DEF XParseOk, ParseOk, ExceptionCode, TypeOK, Packets, Segment
        <5> QED BY <1>3, <3>1, <5>1, <5>2 DEF XParseOk, ParseOk, Own, PacketOwn, Truthful
      <4>2. PICK j \in 1..Len(written) : written[j] = call
        BY <4>1 DEF AppliedWritten
      <4>3. \A i \in 1..j - 1 : written[i] < call
        <5> TAKE i \in 1..j - 1
        <5>1. i \in 1..Len(written) /\ i # j
          BY <4>2 DEF Once
        <5>2. written[i] # call /\ written[i] <= call /\ written[i] \in Nat /\ call \in Nat
          BY <4>2, <5>1 DEF Once, TypeOK
        <5> QED BY <5>2
      <4>4. confirmed' = confirmed \union {call}
        BY <1>3, <3>1 DEF XParseOk
      <4> QED BY <2>1, <4>2, <4>3, <4>4 DEF ConfirmedInOrder, Once
    <3>2. CASE ~(kind = "write" /\ CodeSeen)
      BY <1>3, <2>1, <3>2 DEF XParseOk, ConfirmedInOrder
    <3> QED BY <3>1, <3>2
  <2> QED BY <2>1, <2>2 DEF Once, Unsent, AppliedWritten
<1>4. CASE XRest
  <2>1. written' = written /\ confirmed' = confirmed
    BY <1>4 DEF XRest, data
  <2>2. CASE Send
    <3>1. /\ call' = call /\ applied' = applied /\ pc' = "rec"
          /\ \A i \in 1..Len(written) : written[i] < call
          /\ \A r \in requests : r.call < call
          /\ \A r \in requests' : r \in requests \/ r = [call |-> call, kind |-> kind, sock |-> sock]
      BY <2>2 DEF Send, Unsent
    <3>2. Once'
      <4>1. call \in Nat /\ \A i \in 1..Len(written) : written[i] \in Nat
        BY DEF TypeOK, Once
      <4>2. \A r \in requests : r.call # call
        BY <3>1, <4>1 DEF TypeOK
      <4>3. \A r, q \in requests' : r.call = q.call => r = q
        BY <3>1, <4>2 DEF Once
      <4>4. \A r \in requests' : \A i \in 1..Len(written) : written[i] # r.call
        BY <3>1, <4>1 DEF Once
      <4> QED BY <2>1, <3>1, <4>3, <4>4 DEF Once
    <3> QED BY <2>1, <3>1, <3>2 DEF Unsent, AppliedWritten, ConfirmedInOrder
  <2>3. CASE ~Send
    <3>1. /\ requests' = requests /\ call' = call /\ applied' = applied
          /\ pc' \in {"connect", "send"} => pc \in {"connect", "send"}
      BY <1>4, <2>3 DEF XRest, ConnectOk, ConnectFails, Throw, RecvData, RecvNothing,
         WaitMore, Watchdog, SelectFails, ParseFails, Tick, Stop, PeerCloses, vars
    <3> QED
      BY <2>1, <3>1 DEF Once, Unsent, AppliedWritten, ConfirmedInOrder
  <2> QED BY <2>2, <2>3
<1>5. CASE UNCHANGED xvars
  BY <1>5 DEF xvars, vars, data, Once, Unsent, AppliedWritten, ConfirmedInOrder
<1> QED BY <1>1, <1>2, <1>3, <1>4, <1>5 DEF XNext

LEMMA OrderedCorrect == XSpec => []Ordered
<1>1. XInit => Ordered
  BY DEF XInit, Init, Ordered, Once, Unsent, AppliedWritten, ConfirmedInOrder
<1>2. XSpec => [](Own /\ TypeOK)
  BY ExchangeImplements, OwnCorrect, TypeCorrect, PTL
<1> QED BY <1>1, <1>2, OrderedStep, PTL DEF XSpec

\* A write reported as done is in the device, and no write of a later call has
\* been performed before it: a late one can only be of a call that has failed.
THEOREM ConfirmedInOrderCorrect == XSpec => []ConfirmedInOrder
<1>1. Ordered => ConfirmedInOrder
  BY DEF Ordered
<1> QED BY <1>1, OrderedCorrect, PTL

-----------------------------------------------------------------------------
\* Induction, and what FlattenSeq makes: by steps, one joined member each.

\* Numbers have a least one.
LEMMA NatMin == ASSUME NEW T, T \subseteq Nat, T # {} PROVE \E x \in T : \A y \in T : ~(y < x)
<1> DEFINE R == OpToRel(<, Nat)
<1>1. IsWellFoundedOn(R, Nat)
  BY NatLessThanWellFounded
<1>2. \E x \in T : \A y \in T : ~(<<y, x>> \in R)
  BY <1>1, WFMin
<1> QED BY <1>2 DEF OpToRel

\* Induction, with the property as a set.
LEMMA Induct == ASSUME NEW S, 0 \in S, \A n \in Nat : n \in S => n+1 \in S PROVE Nat \subseteq S
<1> SUFFICES ASSUME Nat \ S # {} PROVE FALSE
  OBVIOUS
<1>1. PICK m \in Nat \ S : \A k \in Nat \ S : ~(k < m)
  <2> DEFINE T == Nat \ S
  <2>1. T \subseteq Nat /\ T # {}
    OBVIOUS
  <2> HIDE DEF T
  <2>2. \E x \in T : \A y \in T : ~(y < x)
    BY <2>1, NatMin
  <2> QED BY <2>2 DEF T
<1>2. m # 0 /\ m - 1 \in Nat
  BY <1>1
<1>3. m - 1 \in S
  BY <1>1, <1>2
<1> QED BY <1>1, <1>2, <1>3

\* f joins the members of s, one after the other.
Joins(f, s, m) == f = [i \in 1..m |-> IF i = 1 THEN s[i] ELSE f[i - 1] \o s[i]]

\* That function exists: FlattenSeq chooses it.
LEMMA JoinsExist == ASSUME NEW s PROVE \A m \in Nat : \E f : Joins(f, s, m)
<1> DEFINE S == {m \in Nat : \E f : Joins(f, s, m)}
<1>1. 0 \in S
  <2>1. Joins([i \in 1..0 |-> 0], s, 0)
    BY DEF Joins
  <2> QED BY <2>1
<1>2. ASSUME NEW m \in Nat, m \in S PROVE m + 1 \in S
  <2>1. PICK f : Joins(f, s, m)
    BY <1>2
  <2> DEFINE g == [i \in 1..m + 1 |-> IF i = 1 THEN s[i] ELSE f[i - 1] \o s[i]]
  <2>2. \A i \in 1..m : g[i] = f[i]
    <3> DEFINE h == [i \in 1..m |-> IF i = 1 THEN s[i] ELSE f[i - 1] \o s[i]]
    <3>1. f = h
      BY <2>1 DEF Joins
    <3>2. ASSUME NEW i \in 1..m PROVE h[i] = g[i]
      <4>1. i \in 1..m + 1
        OBVIOUS
      <4> QED BY <4>1
    <3> HIDE DEF h, g
    <3> QED BY <3>1, <3>2
  <2>3. ASSUME NEW i \in 1..m + 1 PROVE g[i] = IF i = 1 THEN s[i] ELSE g[i - 1] \o s[i]
    <3>1. i # 1 => i - 1 \in 1..m
      OBVIOUS
    <3> QED BY <2>2, <3>1
  <2>4. Joins(g, s, m + 1)
    <3> HIDE DEF g
    <3>1. g = [i \in 1..m + 1 |-> g[i]]
      BY DEF g
    <3> QED BY <3>1, <2>3 DEF Joins
  <2> QED BY <2>4
<1> HIDE DEF S
<1>3. Nat \subseteq S
  BY <1>1, <1>2, Induct
<1> QED BY <1>3 DEF S

\* c is a followed by b.
Follows(c, a, b, T) ==
  /\ a \in Seq(T) /\ b \in Seq(T) /\ c \in Seq(T)
  /\ Len(a) \in Nat /\ Len(b) \in Nat /\ Len(c) = Len(a) + Len(b)
  /\ \A i \in 1..Len(a) : c[i] = a[i]
  /\ \A i \in 1..Len(b) : c[Len(a) + i] = b[i]

LEMMA ConcatFollows ==
  ASSUME NEW T, NEW a \in Seq(T), NEW b \in Seq(T) PROVE Follows(a \o b, a, b, T)
  BY DEF Follows

\* What FlattenSeq joins, from nothing to the whole.
Joined(f, s, T) ==
  /\ f \in [0..Len(s) -> Seq(T)]
  /\ f[0] = <<>>
  /\ \A n \in 0..Len(s) - 1 : Follows(f[n + 1], f[n], s[n + 1], T)
  /\ FlattenSeq(s) = f[Len(s)]

\* FlattenSeq is the last of those joins.
LEMMA FlattenJoined ==
  ASSUME NEW T, NEW s \in Seq(Seq(T)) PROVE \E f : Joined(f, s, T)
<1>1. Len(s) \in Nat /\ \A i \in 1..Len(s) : s[i] \in Seq(T)
  OBVIOUS
<1>2. CASE Len(s) = 0
  <2> DEFINE f == [i \in 0..0 |-> <<>>]
  <2>1. FlattenSeq(s) = <<>>
    BY <1>2 DEF FlattenSeq
  <2>2. f \in [0..Len(s) -> Seq(T)]
    BY <1>2
  <2>3. Joined(f, s, T)
    BY <1>2, <2>1, <2>2 DEF Joined
  <2> QED BY <2>3
<1>3. CASE Len(s) # 0
  <2> DEFINE g == CHOOSE g : g = [i \in 1..Len(s) |-> IF i = 1 THEN s[i] ELSE g[i - 1] \o s[i]]
             f == [i \in 0..Len(s) |-> IF i = 0 THEN <<>> ELSE g[i]]
  <2>1. Joins(g, s, Len(s))
    BY <1>1, JoinsExist DEF Joins
  <2>2. FlattenSeq(s) = g[Len(s)]
    BY <1>3 DEF FlattenSeq
  <2> HIDE DEF g
  <2>3. \A i \in 1..Len(s) : (i = 1 => g[i] = s[i]) /\ (i # 1 => g[i] = g[i - 1] \o s[i])
    <3> DEFINE h == [i \in 1..Len(s) |-> IF i = 1 THEN s[i] ELSE g[i - 1] \o s[i]]
    <3>1. g = h
      BY <2>1 DEF Joins
    <3>2. ASSUME NEW i \in 1..Len(s)
          PROVE  (i = 1 => h[i] = s[i]) /\ (i # 1 => h[i] = g[i - 1] \o s[i])
      OBVIOUS
    <3> HIDE DEF h
    <3> QED BY <3>1, <3>2
  <2>4. /\ f[0] = <<>>
        /\ f = [i \in 0..Len(s) |-> f[i]]
        /\ \A i \in 1..Len(s) : f[i] = g[i]
    BY <1>1
  <2> HIDE DEF f
  <2>5. ASSUME NEW n \in 0..Len(s) - 1
        PROVE  f[n + 1] = f[n] \o s[n + 1] /\ s[n + 1] \in Seq(T)
    <3>0. n + 1 \in 1..Len(s)
      BY <1>1
    <3>1. n + 1 \in 1..Len(s) /\ f[n + 1] = g[n + 1] /\ s[n + 1] \in Seq(T)
      BY <1>1, <2>4, <3>0, Zenon
    <3>2. CASE n = 0
      <4>1. f[n + 1] = s[n + 1] /\ f[n] = <<>>
        <5>1. n + 1 = 1
          BY <3>2
        <5> QED BY <2>3, <2>4, <3>1, <3>2, <5>1, Zenon
      <4>2. <<>> \o s[n + 1] = s[n + 1]
        BY <3>1
      <4> QED BY <3>1, <4>1, <4>2, Zenon
    <3>3. CASE n # 0
      <4>1. n \in 1..Len(s) /\ n + 1 # 1 /\ n + 1 - 1 = n
        BY <1>1, <3>3
      <4>2. g[n + 1] = g[n] \o s[n + 1]
        <5> DEFINE i == n + 1
        <5>0. i \in 1..Len(s) /\ i # 1 /\ i - 1 = n
          BY <3>1, <4>1
        <5> HIDE DEF i
        <5>2. g[i] = g[i - 1] \o s[i]
          BY <2>3, <5>0, Zenon
        <5>3. g[i] = g[n] \o s[i]
          BY <5>0, <5>2, Zenon
        <5>1. g[n + 1] = g[n] \o s[n + 1]
          BY <5>3, Zenon DEF i
        <5> QED BY <5>1
      <4> QED BY <2>4, <3>1, <4>1, <4>2, Zenon
    <3> QED BY <3>2, <3>3
  <2>6. \A n \in 0..Len(s) : f[n] \in Seq(T)
    <3> DEFINE S == {n \in Nat : n <= Len(s) => f[n] \in Seq(T)}
    <3>1. <<>> \in Seq(T)
      OBVIOUS
    <3>2. 0 \in S
      BY <2>4, <3>1, Zenon
    <3>3. ASSUME NEW n \in Nat, n \in S PROVE n + 1 \in S
      <4> SUFFICES ASSUME n + 1 <= Len(s) PROVE f[n + 1] \in Seq(T)
        OBVIOUS
      <4>1. n \in 0..Len(s) - 1 /\ f[n] \in Seq(T)
        BY <1>1, <3>3
      <4>2. f[n + 1] = f[n] \o s[n + 1] /\ s[n + 1] \in Seq(T)
        BY <2>5, <4>1, Zenon
      <4>3. f[n] \o s[n + 1] \in Seq(T)
        BY <4>1, <4>2
      <4> QED BY <4>2, <4>3, Zenon
    <3> HIDE DEF S
    <3>4. Nat \subseteq S
      BY <3>2, <3>3, Induct
    <3> QED BY <1>1, <3>4 DEF S
  <2>7. f \in [0..Len(s) -> Seq(T)]
    BY <2>4, <2>6
  <2>8. FlattenSeq(s) = f[Len(s)]
    <3>1. Len(s) \in 1..Len(s)
      BY <1>1, <1>3
    <3> QED BY <2>2, <2>4, <3>1, Zenon
  <2>9. ASSUME NEW n \in 0..Len(s) - 1 PROVE Follows(f[n + 1], f[n], s[n + 1], T)
    <3>1. n \in 0..Len(s)
      BY <1>1
    <3>2. f[n] \in Seq(T) /\ s[n + 1] \in Seq(T) /\ f[n + 1] = f[n] \o s[n + 1]
      BY <2>5, <2>6, <3>1
    <3> QED BY <3>2, ConcatFollows
  <2>10. Joined(f, s, T)
    BY <2>4, <2>7, <2>8, <2>9 DEF Joined
  <2> QED BY <2>10
<1> QED BY <1>2, <1>3

\* Of a single word.
LEMMA FlattenOne == ASSUME NEW x PROVE FlattenSeq(<<<<x>>>>) = <<x>>
<1> DEFINE T == {x}
           s == <<<<x>>>>
<1>1. s \in Seq(Seq(T)) /\ Len(s) = 1 /\ s[1] = <<x>> /\ 0 \in 0..1 - 1 /\ 0 + 1 = 1
  OBVIOUS
<1> HIDE DEF s
<1>2. PICK f : Joined(f, s, T)
  BY <1>1, FlattenJoined
<1>3. f[0] = <<>> /\ Follows(f[1], f[0], <<x>>, T) /\ FlattenSeq(s) = f[1]
  BY <1>1, <1>2 DEF Joined
<1>4. f[1] = <<x>>
  BY <1>3 DEF Follows
<1> QED BY <1>3, <1>4 DEF s

\* The induction over what is joined.
LEMMA JoinedInduct ==
  ASSUME NEW T, NEW s, Len(s) \in Nat, NEW f, Joined(f, s, T), NEW S,
         0 \in S,
         \A n \in 0..Len(s) - 1 :
           Follows(f[n + 1], f[n], s[n + 1], T) => (n \in S => n + 1 \in S)
  PROVE  Len(s) \in S /\ FlattenSeq(s) = f[Len(s)] /\ f[Len(s)] \in Seq(T)
<1>1. /\ \A n \in 0..Len(s) : f[n] \in Seq(T)
      /\ \A n \in 0..Len(s) - 1 : Follows(f[n + 1], f[n], s[n + 1], T)
      /\ FlattenSeq(s) = f[Len(s)]
  BY DEF Joined
<1> DEFINE R == {n \in Nat : n <= Len(s) => n \in S}
<1>2. 0 \in R
  OBVIOUS
<1>3. ASSUME NEW n \in Nat, n \in R PROVE n + 1 \in R
  <2> SUFFICES ASSUME n + 1 <= Len(s) PROVE n + 1 \in S
    OBVIOUS
  <2>1. n \in 0..Len(s) - 1 /\ n \in S
    BY <1>3
  <2> QED BY <1>1, <2>1, Zenon
<1> HIDE DEF R
<1>4. Nat \subseteq R
  BY <1>2, <1>3, Induct
<1>5. Len(s) \in S
  BY <1>4 DEF R
<1> QED BY <1>1, <1>5

\* The first n pairs of s are in c.
PairsIn(c, s, n) ==
  /\ Len(c) = 2 * n
  /\ \A i \in 1..n : c[2 * i - 1] = s[i][1] /\ c[2 * i] = s[i][2]

\* One pair more.
LEMMA PairsGrow ==
  ASSUME NEW T, NEW s, NEW n \in Nat, NEW a, NEW c, Follows(c, a, s[n + 1], T),
         PairsIn(a, s, n), Len(s[n + 1]) = 2
  PROVE  PairsIn(c, s, n + 1)
<1>1. /\ Len(a) = 2 * n /\ Len(c) = 2 * n + 2
      /\ \A j \in 1..2 * n : c[j] = a[j]
  BY DEF Follows, PairsIn
<1>2. c[2 * n + 1] = s[n + 1][1] /\ c[2 * n + 2] = s[n + 1][2]
  BY <1>1 DEF Follows
<1>3. ASSUME NEW i \in 1..n + 1 PROVE c[2 * i - 1] = s[i][1] /\ c[2 * i] = s[i][2]
  <2>1. CASE i = n + 1
    BY <1>2, <2>1
  <2>2. CASE i # n + 1
    <3>1. i \in 1..n /\ 2 * i - 1 \in 1..2 * n /\ 2 * i \in 1..2 * n
      BY <2>2
    <3> QED BY <1>1, <3>1 DEF PairsIn
  <2> QED BY <2>1, <2>2
<1> QED BY <1>1, <1>3 DEF PairsIn

\* Pairs make twice as many members, each pair in its place.
LEMMA FlattenPairs ==
  ASSUME NEW T, NEW s \in Seq(Seq(T)), \A i \in 1..Len(s) : Len(s[i]) = 2
  PROVE  FlattenSeq(s) \in Seq(T) /\ PairsIn(FlattenSeq(s), s, Len(s))
<1>0. Len(s) \in Nat
  OBVIOUS
<1>1. PICK f : Joined(f, s, T)
  BY FlattenJoined
<1> DEFINE S == {n \in Nat : PairsIn(f[n], s, n)}
<1>2. 0 \in S
  <2>1. f[0] = <<>>
    BY <1>1, Zenon DEF Joined
  <2>2. PairsIn(<<>>, s, 0)
    BY DEF PairsIn
  <2> QED BY <2>1, <2>2
<1>3. ASSUME NEW n \in 0..Len(s) - 1, Follows(f[n + 1], f[n], s[n + 1], T), n \in S
      PROVE  n + 1 \in S
  <2>1. n \in Nat /\ n + 1 \in Nat /\ Len(s[n + 1]) = 2 /\ PairsIn(f[n], s, n)
    BY <1>3
  <2>2. PairsIn(f[n + 1], s, n + 1)
    BY <1>3, <2>1, PairsGrow, Zenon
  <2> QED BY <2>1, <2>2, Zenon
<1> HIDE DEF S
<1>4. Len(s) \in S /\ FlattenSeq(s) = f[Len(s)] /\ f[Len(s)] \in Seq(T)
  BY <1>0, <1>1, <1>2, <1>3, JoinedInduct
<1> QED BY <1>4 DEF S

-----------------------------------------------------------------------------
\* Numbers of two bytes, and the head of a packet.

Byte == 0..255

\* A number is its quotient and its rest.
LEMMA DivMod256 ==
  ASSUME NEW v \in Int, NEW q, NEW r, q = v \div 256, r = v % 256
  PROVE  q \in Int /\ r \in Int /\ v = q * 256 + r /\ 0 <= r /\ r < 256
<1>1. q \in Int /\ r \in Int
  OBVIOUS
<1> QED BY <1>1

LEMMA ModWord ==
  ASSUME NEW v \in Int, NEW p \in Int, NEW x \in Int, 0 <= x, x < 65536, v = 65536 * p + x
  PROVE  v % 65536 = x
  OBVIOUS

\* The two low bytes of a number.
LEMMA TwoBytes ==
  ASSUME NEW v \in Int, NEW q, NEW r, NEW p, NEW s,
         q = v \div 256, r = v % 256, p = q \div 256, s = q % 256
  PROVE  s * 256 + r = v % 65536 /\ s \in Byte /\ r \in Byte
<1>1. v = q * 256 + r /\ 0 <= r /\ r < 256 /\ q \in Int /\ r \in Int
  BY DivMod256
<1>2. q = p * 256 + s /\ 0 <= s /\ s < 256 /\ p \in Int /\ s \in Int
  BY DivMod256, <1>1
<1>3. /\ v = 65536 * p + (s * 256 + r) /\ s * 256 + r \in Int
      /\ 0 <= s * 256 + r /\ s * 256 + r < 65536
  BY <1>1, <1>2
<1>4. v % 65536 = s * 256 + r
  BY <1>2, <1>3, ModWord
<1> QED BY <1>1, <1>2, <1>4 DEF Byte

\* Two bytes make a number, of 16 bits.
Makes(s, r, v) == s * 256 + r = v % 65536

Short(n) == n \in Nat /\ n < 65536

\* A number of 16 bits is what its bytes make.
LEMMA ShortMakes == \A n, s, r : Short(n) /\ Makes(s, r, n) => s * 256 + r = n
  BY DEF Short, Makes

\* The two bytes of a number make the number again.
LEMMA IntBytes ==
  ASSUME NEW v \in Int
  PROVE  \E s, r \in Byte : iecINT(v) = <<s, r>> /\ Makes(s, r, v)
<1> DEFINE q == v \div 256
           r == v % 256
           p == q \div 256
           s == q % 256
<1>1. iecINT(v) = <<s, r>>
  BY DEF iecINT, iecBYTE
<1>2. s * 256 + r = v % 65536 /\ s \in Byte /\ r \in Byte
  BY TwoBytes
<1> HIDE DEF s, r
<1> QED BY <1>1, <1>2 DEF Makes

\* The members of a sequence written as a chain of short ones: the head of
\* a packet, and the bodies of the requests.
LEMMA Head7 ==
  ASSUME NEW T, NEW a \in T, NEW b \in T, NEW c \in T, NEW d \in T, NEW e \in T,
         NEW g \in T, NEW u \in T, NEW body \in Seq(T)
  PROVE  LET p == <<a, b>> \o <<c, d>> \o <<e, g>> \o <<u>> \o body
         IN  /\ p \in Seq(T) /\ Len(p) = 7 + Len(body)
             /\ p[3] = c /\ p[4] = d /\ p[5] = e /\ p[6] = g /\ p[7] = u
             /\ \A i \in 1..Len(body) : p[7 + i] = body[i]
  OBVIOUS

LEMMA Head5 ==
  ASSUME NEW T, NEW a \in T, NEW b \in T, NEW c \in T, NEW d \in T, NEW e \in T
  PROVE  LET p == <<a>> \o <<b, c>> \o <<d, e>>
         IN  /\ p \in Seq(T) /\ Len(p) = 5
             /\ p[1] = a /\ p[2] = b /\ p[3] = c /\ p[4] = d /\ p[5] = e
  OBVIOUS

LEMMA Head6 ==
  ASSUME NEW T, NEW a \in T, NEW b \in T, NEW c \in T, NEW d \in T, NEW e \in T,
         NEW g \in T, NEW s \in Seq(T)
  PROVE  LET p == <<a>> \o <<b, c>> \o <<d, e>> \o <<g>> \o s
         IN  /\ p \in Seq(T) /\ Len(p) = 6 + Len(s)
             /\ p[1] = a /\ p[2] = b /\ p[3] = c /\ p[4] = d /\ p[5] = e /\ p[6] = g
             /\ \A i \in 1..Len(s) : p[6 + i] = s[i]
  OBVIOUS

\* f is a packet around a body whose length it takes for n.
Laid(f, n, body) ==
  /\ f \in Seq(Byte) /\ Len(f) = 7 + Len(body)
  /\ word(f, 3) = 0 /\ word(f, 5) = n + 1 /\ f[7] = unitId
  /\ \A i \in 1..Len(body) : f[7 + i] = body[i]

\* The length that Packet counts is that of its bytes.
LEMMA PacketLaid ==
  ASSUME NEW t \in Int, NEW n, Short(n + 1), NEW body \in Seq(Byte)
  PROVE  Laid(Packet(t, n, body), n, body)
<1>1. PICK a, b \in Byte : iecINT(t) = <<a, b>>
  BY IntBytes
<1>2. PICK c, d \in Byte : iecINT(0) = <<c, d>> /\ Makes(c, d, 0)
  BY IntBytes
<1>3. PICK e, g \in Byte : iecINT(n + 1) = <<e, g>> /\ Makes(e, g, n + 1)
  BY IntBytes DEF Short
<1>4. c * 256 + d = 0 /\ e * 256 + g = n + 1
  <2>1. Short(0)
    BY DEF Short
  <2> QED BY <1>2, <1>3, <2>1, ShortMakes
<1>5. iecBYTE(unitId) = unitId /\ unitId \in Byte
  BY ExchangeAssumption DEF iecBYTE, Byte
<1> DEFINE f == Packet(t, n, body)
<1>6. f = iecINT(t) \o iecINT(0) \o iecINT(n + 1) \o <<iecBYTE(unitId)>> \o body
  BY Zenon DEF Packet
<1>7. f = <<a, b>> \o <<c, d>> \o <<e, g>> \o <<unitId>> \o body
  BY <1>1, <1>2, <1>3, <1>5, <1>6, Zenon
<1> HIDE DEF f
<1>8. /\ f \in Seq(Byte) /\ Len(f) = 7 + Len(body)
      /\ f[3] = c /\ f[4] = d /\ f[5] = e /\ f[6] = g /\ f[7] = unitId
      /\ \A i \in 1..Len(body) : f[7 + i] = body[i]
  BY <1>5, <1>7, Head7
<1>9. word(f, 3) = 0 /\ word(f, 5) = n + 1
  BY <1>2, <1>3, <1>4, <1>8 DEF word
<1>10. Laid(f, n, body)
  BY <1>8, <1>9 DEF Laid
<1> QED BY <1>10 DEF f

\* c is the bytes of the words w.
WordsOf(c, w) ==
  Len(c) = 2 * Len(w) /\ \A i \in 1..Len(w) : c[2 * i - 1] * 256 + c[2 * i] = w[i]

\* More words.
LEMMA WordsGrow ==
  ASSUME NEW S, NEW T, NEW a, NEW b, NEW c, NEW u, NEW v, NEW w,
         Follows(c, a, b, S), Follows(w, u, v, T), WordsOf(a, u), WordsOf(b, v)
  PROVE  WordsOf(c, w)
<1>1. /\ Len(u) \in Nat /\ Len(v) \in Nat /\ Len(w) = Len(u) + Len(v)
      /\ Len(a) = 2 * Len(u) /\ Len(b) = 2 * Len(v) /\ Len(c) = Len(a) + Len(b)
  BY DEF Follows, WordsOf
<1>2. ASSUME NEW i \in 1..Len(w) PROVE c[2 * i - 1] * 256 + c[2 * i] = w[i]
  <2>1. CASE i <= Len(u)
    <3>1. i \in 1..Len(u) /\ 2 * i - 1 \in 1..Len(a) /\ 2 * i \in 1..Len(a)
      BY <1>1, <2>1
    <3>2. c[2 * i - 1] = a[2 * i - 1] /\ c[2 * i] = a[2 * i] /\ w[i] = u[i]
      BY <3>1 DEF Follows
    <3>3. a[2 * i - 1] * 256 + a[2 * i] = u[i]
      BY <3>1 DEF WordsOf
    <3> QED BY <3>2, <3>3
  <2>2. CASE ~(i <= Len(u))
    <3>1. PICK j \in 1..Len(v) : i = Len(u) + j
      <4>1. i - Len(u) \in 1..Len(v) /\ i = Len(u) + (i - Len(u))
        BY <1>1, <2>2
      <4> QED BY <4>1
    <3>2. /\ 2 * j - 1 \in 1..Len(b) /\ 2 * j \in 1..Len(b)
          /\ 2 * i - 1 = Len(a) + (2 * j - 1) /\ 2 * i = Len(a) + 2 * j
      BY <1>1, <3>1
    <3>3. c[2 * i - 1] = b[2 * j - 1] /\ c[2 * i] = b[2 * j] /\ w[i] = v[j]
      BY <3>1, <3>2 DEF Follows
    <3>4. b[2 * j - 1] * 256 + b[2 * j] = v[j]
      BY <3>1 DEF WordsOf
    <3> QED BY <3>3, <3>4
  <2> QED BY <2>1, <2>2
<1> QED BY <1>1, <1>2 DEF WordsOf

\* Bytes joined and words joined stay each other's.
LEMMA FlattenWords ==
  ASSUME NEW S, NEW T, NEW s \in Seq(Seq(S)), NEW u \in Seq(Seq(T)), Len(u) = Len(s),
         \A i \in 1..Len(s) : WordsOf(s[i], u[i])
  PROVE  /\ FlattenSeq(s) \in Seq(S) /\ FlattenSeq(u) \in Seq(T)
         /\ WordsOf(FlattenSeq(s), FlattenSeq(u))
<1>0. Len(s) \in Nat
  OBVIOUS
<1>1. PICK f : Joined(f, s, S)
  BY FlattenJoined
<1>2. PICK g : Joined(g, u, T)
  BY FlattenJoined
<1>3. /\ f[0] = <<>> /\ g[0] = <<>>
      /\ \A n \in 0..Len(s) - 1 : Follows(g[n + 1], g[n], u[n + 1], T)
      /\ FlattenSeq(u) = g[Len(s)] /\ g \in [0..Len(s) -> Seq(T)]
  BY <1>1, <1>2, Zenon DEF Joined
<1> DEFINE R == {n \in Nat : WordsOf(f[n], g[n])}
<1>4. 0 \in R
  <2>1. WordsOf(<<>>, <<>>)
    BY DEF WordsOf
  <2> QED BY <1>3, <2>1
<1>5. ASSUME NEW n \in 0..Len(s) - 1, Follows(f[n + 1], f[n], s[n + 1], S), n \in R
      PROVE  n + 1 \in R
  <2>1. n + 1 \in Nat /\ n + 1 \in 1..Len(s) /\ WordsOf(f[n], g[n])
    BY <1>5
  <2>2. WordsOf(s[n + 1], u[n + 1])
    BY <2>1, Zenon
  <2>3. WordsOf(f[n + 1], g[n + 1])
    BY <1>3, <1>5, <2>1, <2>2, WordsGrow, Zenon
  <2> QED BY <2>1, <2>3, Zenon
<1> HIDE DEF R
<1>6. Len(s) \in R /\ FlattenSeq(s) = f[Len(s)] /\ f[Len(s)] \in Seq(S)
  BY <1>0, <1>1, <1>4, <1>5, JoinedInduct
<1>7. WordsOf(f[Len(s)], g[Len(s)]) /\ g[Len(s)] \in Seq(T)
  BY <1>0, <1>3, <1>6 DEF R
<1> QED BY <1>3, <1>6, <1>7

-----------------------------------------------------------------------------
\* The bytes of the items are the words that are meant.

\* The numbers of 16 bits.
Half == {n \in Nat : Short(n)}

\* The halves of a double word are numbers of 16 bits.
LEMMA DWordHalves ==
  ASSUME NEW v \in Int PROVE DWord(v).lo \in Half /\ DWord(v).hi \in Half
<1>1. \A x \in Int : x % 65536 \in Half
  BY DEF Half, Short
<1>2. v \div 65536 \in Int
  OBVIOUS
<1> QED BY <1>1, <1>2 DEF DWord

\* The bytes of such a number make it.
LEMMA WordBytes ==
  ASSUME NEW n \in Half
  PROVE  \E s, r \in Byte : iecINT(n) = <<s, r>> /\ s * 256 + r = n
<1>1. n \in Int /\ Short(n)
  BY DEF Half
<1>2. PICK s, r \in Byte : iecINT(n) = <<s, r>> /\ Makes(s, r, n)
  BY <1>1, IntBytes
<1> QED BY <1>1, <1>2, ShortMakes

\* Two words, one after the other.
LEMMA PairWords ==
  ASSUME NEW m \in Half, NEW n \in Half
  PROVE  /\ iecINT(m) \o iecINT(n) \in Seq(Byte) /\ <<m, n>> \in Seq(Half)
         /\ WordsOf(iecINT(m) \o iecINT(n), <<m, n>>)
<1>1. PICK a, b \in Byte : iecINT(m) = <<a, b>> /\ a * 256 + b = m
  BY WordBytes
<1>2. PICK c, d \in Byte : iecINT(n) = <<c, d>> /\ c * 256 + d = n
  BY WordBytes
<1> DEFINE p == <<a, b>> \o <<c, d>>
           w == <<m, n>>
<1>3. p \in Seq(Byte) /\ Len(p) = 4 /\ p[1] = a /\ p[2] = b /\ p[3] = c /\ p[4] = d
  OBVIOUS
<1>4. w \in Seq(Half) /\ Len(w) = 2 /\ w[1] = m /\ w[2] = n
  OBVIOUS
<1> HIDE DEF p, w
<1>5. WordsOf(p, w)
  <2> SUFFICES ASSUME NEW i \in 1..2 PROVE p[2 * i - 1] * 256 + p[2 * i] = w[i]
    BY <1>3, <1>4 DEF WordsOf
  <2>1. i = 1 \/ i = 2
    OBVIOUS
  <2>2. CASE i = 1
    BY <1>1, <1>3, <1>4, <2>2
  <2>3. CASE i = 2
    BY <1>2, <1>3, <1>4, <2>3
  <2> QED BY <2>1, <2>2, <2>3
<1>6. iecINT(m) \o iecINT(n) = p
  BY <1>1, <1>2, Zenon DEF p
<1> QED BY <1>3, <1>4, <1>5, <1>6 DEF w

\* An INT, or the value that function 6 writes.
LEMMA SingleWord ==
  ASSUME NEW v \in Int
  PROVE  /\ iecINT(v) \in Seq(Byte) /\ <<DWord(v).lo>> \in Seq(Half)
         /\ WordsOf(iecINT(v), <<DWord(v).lo>>)
<1>1. PICK a, b \in Byte : iecINT(v) = <<a, b>> /\ Makes(a, b, v)
  BY IntBytes
<1>2. a * 256 + b = DWord(v).lo
  BY <1>1 DEF Makes, DWord
<1>3. DWord(v).lo \in Half
  BY DWordHalves
<1> DEFINE m == DWord(v).lo
<1> HIDE DEF m
<1>4. WordsOf(<<a, b>>, <<m>>)
  BY <1>2 DEF WordsOf, m
<1> QED BY <1>1, <1>3, <1>4 DEF m

\* An item of any type, with either endianness.
LEMMA ItemWords ==
  ASSUME NEW item, item.value \in Int
  PROVE  /\ itemBytes(item) \in Seq(Byte) /\ Words(item) \in Seq(Half)
         /\ WordsOf(itemBytes(item), Words(item))
<1> DEFINE w == DWord(item.value)
<1>1. w.lo \in Half /\ w.hi \in Half
  BY DWordHalves
<1>2. CASE item.type \in {"DINT", "REAL"}
  <2>1. itemBytes(item) = endianness(item.value, Endianness)
    BY <1>2 DEF itemBytes, iecDINT, iecREAL
  <2>2. CASE Endianness = 0
    <3>1. itemBytes(item) = iecINT(w.lo) \o iecINT(w.hi)
      BY <2>1, <2>2 DEF endianness
    <3>2. Words(item) = <<w.lo, w.hi>>
      BY <1>2, <2>2 DEF Words
    <3> QED BY <1>1, <3>1, <3>2, PairWords
  <2>3. CASE Endianness # 0
    <3>1. itemBytes(item) = iecINT(w.hi) \o iecINT(w.lo)
      BY <2>1, <2>3 DEF endianness
    <3>2. Words(item) = <<w.hi, w.lo>>
      BY <1>2, <2>3 DEF Words
    <3> QED BY <1>1, <3>1, <3>2, PairWords
  <2> QED BY <2>2, <2>3
<1>3. CASE item.type \notin {"DINT", "REAL"}
  <2>1. itemBytes(item) = iecINT(item.value)
    BY <1>3 DEF itemBytes
  <2>2. Words(item) = <<w.lo>>
    BY <1>3 DEF Words
  <2> QED BY <2>1, <2>2, SingleWord
<1> QED BY <1>2, <1>3

\* The words that the items are meant to fill, and the bytes sent for them.
DataWords(items) == FlattenSeq([k \in DOMAIN items |-> Words(items[k])])

\* All the items.
LEMMA DataLaid ==
  ASSUME NEW T, NEW items \in Seq(T), \A x \in T : x.value \in Int
  PROVE  /\ dataBytes(items) \in Seq(Byte) /\ DataWords(items) \in Seq(Half)
         /\ WordsOf(dataBytes(items), DataWords(items))
<1> DEFINE s == [k \in DOMAIN items |-> itemBytes(items[k])]
           u == [k \in DOMAIN items |-> Words(items[k])]
<1>1. /\ DOMAIN items = 1..Len(items) /\ Len(items) \in Nat
      /\ \A k \in 1..Len(items) : items[k] \in T
  OBVIOUS
<1>2. \A k \in 1..Len(items) :
        /\ itemBytes(items[k]) \in Seq(Byte) /\ Words(items[k]) \in Seq(Half)
        /\ WordsOf(itemBytes(items[k]), Words(items[k]))
  BY <1>1, ItemWords
<1>3. /\ s \in Seq(Seq(Byte)) /\ Len(s) = Len(items)
      /\ u \in Seq(Seq(Half)) /\ Len(u) = Len(items)
  BY <1>1, <1>2
<1>4. \A k \in 1..Len(s) : WordsOf(s[k], u[k])
  BY <1>1, <1>2, <1>3
<1> HIDE DEF s, u
<1>5. /\ FlattenSeq(s) \in Seq(Byte) /\ FlattenSeq(u) \in Seq(Half)
      /\ WordsOf(FlattenSeq(s), FlattenSeq(u))
  BY <1>3, <1>4, FlattenWords
<1> QED BY <1>5 DEF s, u, dataBytes, DataWords

-----------------------------------------------------------------------------
\* Requests laid out byte by byte.

\* f begins as the requests of every function do.
Begins(f, fc, first, number) ==
  /\ f \in Seq(Byte) /\ Len(f) \in Nat
  /\ word(f, 3) = 0 /\ Len(f) = 6 + word(f, 5) /\ f[7] = unitId
  /\ f[8] = fc /\ word(f, 9) = first /\ word(f, 11) = number

\* A request with two numbers, and nothing else.
LEMMA ShortLaid ==
  ASSUME NEW t \in Int, NEW fc \in Byte, NEW first \in Half, NEW a \in Byte, NEW b \in Byte
  PROVE  LET f == Packet(t, 5, <<fc>> \o iecINT(first) \o <<a, b>>)
         IN Begins(f, fc, first, a * 256 + b) /\ Len(f) = 12
<1>1. PICK c, d \in Byte : iecINT(first) = <<c, d>> /\ c * 256 + d = first
  BY WordBytes
<1> DEFINE p == <<fc>> \o <<c, d>> \o <<a, b>>
           f == Packet(t, 5, p)
<1>2. p \in Seq(Byte) /\ Len(p) = 5 /\ p[1] = fc /\ p[2] = c /\ p[3] = d /\ p[4] = a /\ p[5] = b
  BY Head5
<1>3. Short(5 + 1)
  BY DEF Short
<1> HIDE DEF p
<1>4. Laid(f, 5, p)
  BY <1>2, <1>3, PacketLaid
<1> HIDE DEF f
<1>5. /\ f \in Seq(Byte) /\ Len(f) = 12
      /\ word(f, 3) = 0 /\ word(f, 5) = 6 /\ f[7] = unitId
      /\ f[7 + 1] = fc /\ f[7 + 2] = c /\ f[7 + 3] = d /\ f[7 + 4] = a /\ f[7 + 5] = b
  BY <1>2, <1>4 DEF Laid
<1>6. Begins(f, fc, first, a * 256 + b) /\ Len(f) = 12
  BY <1>1, <1>5 DEF Begins, word
<1>7. f = Packet(t, 5, <<fc>> \o iecINT(first) \o <<a, b>>)
  BY <1>1 DEF f, p
<1> QED BY <1>6, <1>7

\* The requests that count the bytes they carry.
CountedRequest(f, t, fc, first, number, k, s) ==
  f = Packet(t, Len(s) + 6, <<fc>> \o iecINT(first) \o iecINT(number) \o <<k>> \o s)

ReadWriteRequest(f, t, fc, first, number, to, count, k, s) ==
  f = Packet(t, Len(s) + 10,
             <<fc>> \o iecINT(first) \o iecINT(number)
               \o iecINT(to) \o iecINT(count) \o <<k>> \o s)

\* What a request for counted bytes is made of.
Countable(first, number, k, s, n) ==
  /\ first \in Half /\ number \in Half /\ k \in Byte /\ s \in Seq(Byte)
  /\ Short(Len(s) + n + 1)

\* k and the bytes s follow the first n bytes of f.
Carries(f, n, k, s) ==
  /\ Len(f) = n + 1 + Len(s) /\ f[n + 1] = k
  /\ \A i \in 1..Len(s) : f[n + 1 + i] = s[i]

\* Functions 15 and 16.
LEMMA CountedLaid ==
  ASSUME NEW t \in Int, NEW fc \in Byte, NEW first, NEW number, NEW k, NEW s, NEW f,
         Countable(first, number, k, s, 6),
         CountedRequest(f, t, fc, first, number, k, s)
  PROVE  Begins(f, fc, first, number) /\ Carries(f, 12, k, s)
<1>0. /\ first \in Half /\ number \in Half /\ k \in Byte /\ s \in Seq(Byte)
      /\ Short(Len(s) + 6 + 1)
  BY DEF Countable
<1>1. PICK c, d \in Byte : iecINT(first) = <<c, d>> /\ c * 256 + d = first
  BY <1>0, WordBytes
<1>2. PICK a, b \in Byte : iecINT(number) = <<a, b>> /\ a * 256 + b = number
  BY <1>0, WordBytes
<1> DEFINE p == <<fc>> \o <<c, d>> \o <<a, b>> \o <<k>> \o s
           n == Len(s) + 6
<1>3. /\ p \in Seq(Byte) /\ Len(p) = 6 + Len(s)
      /\ p[1] = fc /\ p[2] = c /\ p[3] = d /\ p[4] = a /\ p[5] = b /\ p[6] = k
      /\ \A i \in 1..Len(s) : p[6 + i] = s[i]
  BY <1>0, Head6
<1>4. Short(n + 1) /\ n \in Nat /\ Len(s) \in Nat /\ n = Len(s) + 6
  BY <1>0
<1>9. f = Packet(t, n, p)
  BY <1>1, <1>2, Zenon DEF CountedRequest
<1> HIDE DEF p, n
<1>5. Laid(f, n, p)
  BY <1>3, <1>4, <1>9, PacketLaid
<1>6. /\ f \in Seq(Byte) /\ Len(f) = 13 + Len(s)
      /\ word(f, 3) = 0 /\ word(f, 5) = Len(s) + 7 /\ f[7] = unitId
      /\ f[7 + 1] = fc /\ f[7 + 2] = c /\ f[7 + 3] = d
      /\ f[7 + 4] = a /\ f[7 + 5] = b /\ f[7 + 6] = k
  BY <1>3, <1>4, <1>5 DEF Laid
<1>7. ASSUME NEW i \in 1..Len(s) PROVE f[13 + i] = s[i]
  <2>1. 6 + i \in 1..Len(p) /\ 7 + (6 + i) = 13 + i
    BY <1>3, <1>4
  <2>2. f[7 + (6 + i)] = p[6 + i]
    BY <1>5, <2>1 DEF Laid
  <2> QED BY <1>3, <2>1, <2>2
<1>8. Begins(f, fc, first, number) /\ f[13] = k
  BY <1>1, <1>2, <1>4, <1>6 DEF Begins, word
<1>10. Carries(f, 12, k, s)
  BY <1>6, <1>7, <1>8 DEF Carries
<1> QED BY <1>8, <1>10

\* Function 23.
LEMMA ReadWriteLaid ==
  ASSUME NEW t \in Int, NEW fc \in Byte, NEW first \in Half, NEW number \in Half,
         NEW to, NEW count, NEW k, NEW s, NEW f, Countable(to, count, k, s, 10),
         ReadWriteRequest(f, t, fc, first, number, to, count, k, s)
  PROVE  /\ Begins(f, fc, first, number) /\ Carries(f, 16, k, s)
         /\ word(f, 13) = to /\ word(f, 15) = count
<1>0. /\ to \in Half /\ count \in Half /\ k \in Byte /\ s \in Seq(Byte)
      /\ Short(Len(s) + 10 + 1)
  BY DEF Countable
<1>1. PICK c, d \in Byte : iecINT(first) = <<c, d>> /\ c * 256 + d = first
  BY <1>0, WordBytes
<1>2. PICK a, b \in Byte : iecINT(number) = <<a, b>> /\ a * 256 + b = number
  BY <1>0, WordBytes
<1>3. PICK e, g \in Byte : iecINT(to) = <<e, g>> /\ e * 256 + g = to
  BY <1>0, WordBytes
<1>4. PICK x, y \in Byte : iecINT(count) = <<x, y>> /\ x * 256 + y = count
  BY <1>0, WordBytes
<1> DEFINE p == <<fc>> \o <<c, d>> \o <<a, b>> \o <<e, g>> \o <<x, y>> \o <<k>> \o s
           n == Len(s) + 10
<1>5. /\ p \in Seq(Byte) /\ Len(p) = 10 + Len(s)
      /\ p[1] = fc /\ p[2] = c /\ p[3] = d /\ p[4] = a /\ p[5] = b
      /\ p[6] = e /\ p[7] = g /\ p[8] = x /\ p[9] = y /\ p[10] = k
      /\ \A i \in 1..Len(s) : p[10 + i] = s[i]
  BY <1>0
<1>6. Short(n + 1) /\ n \in Nat /\ Len(s) \in Nat /\ n = Len(s) + 10
  BY <1>0
<1>13. f = Packet(t, n, p)
  BY <1>1, <1>2, <1>3, <1>4, Zenon DEF ReadWriteRequest
<1> HIDE DEF p, n
<1>7. Laid(f, n, p)
  BY <1>5, <1>6, <1>13, PacketLaid
<1>8. /\ f \in Seq(Byte) /\ Len(f) = 17 + Len(s)
      /\ word(f, 3) = 0 /\ word(f, 5) = Len(s) + 11 /\ f[7] = unitId
      /\ f[7 + 1] = fc /\ f[7 + 2] = c /\ f[7 + 3] = d /\ f[7 + 4] = a /\ f[7 + 5] = b
  <2>1. Len(p) = 10 + Len(s) /\ \A i \in 1..10 : i \in 1..Len(p)
    BY <1>5, <1>6
  <2>2. \A i \in 1..10 : f[7 + i] = p[i]
    BY <1>7, <2>1 DEF Laid
  <2>3. /\ f \in Seq(Byte) /\ Len(f) = 17 + Len(s)
        /\ word(f, 3) = 0 /\ word(f, 5) = Len(s) + 11 /\ f[7] = unitId
    BY <1>6, <1>7, <2>1 DEF Laid
  <2> QED BY <1>5, <2>2, <2>3
<1>9. /\ f[7 + 6] = e /\ f[7 + 7] = g /\ f[7 + 8] = x /\ f[7 + 9] = y /\ f[7 + 10] = k
  BY <1>5, <1>6, <1>7 DEF Laid
<1>10. ASSUME NEW i \in 1..Len(s) PROVE f[17 + i] = s[i]
  <2>1. 10 + i \in 1..Len(p) /\ 7 + (10 + i) = 17 + i
    BY <1>5, <1>6
  <2>2. f[7 + (10 + i)] = p[10 + i]
    BY <1>7, <2>1 DEF Laid
  <2> QED BY <1>5, <2>1, <2>2
<1>11. Begins(f, fc, first, number)
  BY <1>1, <1>2, <1>6, <1>8 DEF Begins, word
<1>12. word(f, 13) = to /\ word(f, 15) = count /\ f[17] = k
  BY <1>3, <1>4, <1>9 DEF word
<1>14. Carries(f, 16, k, s)
  BY <1>8, <1>10, <1>12 DEF Carries
<1> QED BY <1>11, <1>12, <1>14

-----------------------------------------------------------------------------
\* Bits in an octet.

\* Eight bits.
Bits(b) == \A i \in 0..7 : b[i] = 0 \/ b[i] = 1

LEMMA Twos ==
  /\ 2 ^ 0 = 1 /\ 2 ^ 1 = 2 /\ 2 ^ 2 = 4 /\ 2 ^ 3 = 8
  /\ 2 ^ 4 = 16 /\ 2 ^ 5 = 32 /\ 2 ^ 6 = 64 /\ 2 ^ 7 = 128
  OBVIOUS

\* Each bit of an octet is where it was put.
LEMMA OctetBit ==
  ASSUME NEW b, Bits(b)
  PROVE  octet(b) \in Byte /\ \A i \in 0..7 : bit(octet(b), i) = b[i]
<1> DEFINE x == octet(b)
<1>1. PICK c0, c1, c2, c3, c4, c5, c6, c7 \in {0, 1} :
        /\ b[0] = c0 /\ b[1] = c1 /\ b[2] = c2 /\ b[3] = c3
        /\ b[4] = c4 /\ b[5] = c5 /\ b[6] = c6 /\ b[7] = c7
  BY DEF Bits
<1>2. x = c0 + 2 * c1 + 4 * c2 + 8 * c3 + 16 * c4 + 32 * c5 + 64 * c6 + 128 * c7
  BY <1>1 DEF octet
<1> HIDE DEF x
<1>3. x \in Byte
  BY <1>2 DEF Byte
<1>4. bit(x, 0) = c0
  <2> DEFINE q == c0 + 2 * c1 + 4 * c2 + 8 * c3 + 16 * c4 + 32 * c5 + 64 * c6 + 128 * c7
  <2>1. x \div 1 = q
    BY <1>2
  <2>2. q % 2 = c0
    OBVIOUS
  <2> HIDE DEF q
  <2> QED BY <2>1, <2>2, Twos DEF bit
<1>5. bit(x, 1) = c1
  <2> DEFINE q == c1 + 2 * c2 + 4 * c3 + 8 * c4 + 16 * c5 + 32 * c6 + 64 * c7
  <2>1. x \div 2 = q
    BY <1>2
  <2>2. q % 2 = c1
    OBVIOUS
  <2> HIDE DEF q
  <2> QED BY <2>1, <2>2, Twos DEF bit
<1>6. bit(x, 2) = c2
  <2> DEFINE q == c2 + 2 * c3 + 4 * c4 + 8 * c5 + 16 * c6 + 32 * c7
  <2>1. x \div 4 = q
    BY <1>2
  <2>2. q % 2 = c2
    OBVIOUS
  <2> HIDE DEF q
  <2> QED BY <2>1, <2>2, Twos DEF bit
<1>7. bit(x, 3) = c3
  <2> DEFINE q == c3 + 2 * c4 + 4 * c5 + 8 * c6 + 16 * c7
  <2>1. x \div 8 = q
    BY <1>2
  <2>2. q % 2 = c3
    OBVIOUS
  <2> HIDE DEF q
  <2> QED BY <2>1, <2>2, Twos DEF bit
<1>8. bit(x, 4) = c4
  <2> DEFINE q == c4 + 2 * c5 + 4 * c6 + 8 * c7
  <2>1. x \div 16 = q
    BY <1>2
  <2>2. q % 2 = c4
    OBVIOUS
  <2> HIDE DEF q
  <2> QED BY <2>1, <2>2, Twos DEF bit
<1>9. bit(x, 5) = c5
  <2> DEFINE q == c5 + 2 * c6 + 4 * c7
  <2>1. x \div 32 = q
    BY <1>2
  <2>2. q % 2 = c5
    OBVIOUS
  <2> HIDE DEF q
  <2> QED BY <2>1, <2>2, Twos DEF bit
<1>10. bit(x, 6) = c6
  <2> DEFINE q == c6 + 2 * c7
  <2>1. x \div 64 = q
    BY <1>2
  <2>2. q % 2 = c6
    OBVIOUS
  <2> HIDE DEF q
  <2> QED BY <2>1, <2>2, Twos DEF bit
<1>11. bit(x, 7) = c7
  <2> DEFINE q == c7
  <2>1. x \div 128 = q
    BY <1>2
  <2>2. q % 2 = c7
    OBVIOUS
  <2> HIDE DEF q
  <2> QED BY <2>1, <2>2, Twos DEF bit
<1>12. \A i \in 0..7 : bit(x, i) = b[i]
  <2> TAKE i \in 0..7
  <2>1. i = 0 \/ i = 1 \/ i = 2 \/ i = 3 \/ i = 4 \/ i = 5 \/ i = 6 \/ i = 7
    OBVIOUS
  <2> QED BY <1>1, <1>4, <1>5, <1>6, <1>7, <1>8, <1>9, <1>10, <1>11, <2>1
<1> QED BY <1>3, <1>12 DEF x

-----------------------------------------------------------------------------
\* What the builder of each function makes.

\* The parts of an operation.
LEMMA OperationParts ==
  ASSUME NEW op \in Operation
  PROVE  /\ op.fc \in FunctionCodes
         /\ op.reference \in Half /\ op.quantity \in Half /\ op.referenceWrite \in Half
         /\ op.data \in Seq(DataItem) /\ op.coils \in Seq(BOOLEAN)
<1>1. \A n \in Word16 : n \in Half
  BY DEF Half, Short, Word16
<1>2. op.reference \in Word16 /\ op.quantity \in Word16 /\ op.referenceWrite \in Word16
  BY DEF Operation
<1>3. op.fc \in FunctionCodes /\ op.data \in Seq(DataItem) /\ op.coils \in Seq(BOOLEAN)
  BY DEF Operation
<1> QED BY <1>1, <1>2, <1>3

\* Functions 1, 2 and 3.
LEMMA ReadFrame ==
  ASSUME NEW t \in Int, NEW op \in Operation, op.fc \in {1, 2, 3}
  PROVE  LET f == packetBuilder(t, op)
         IN  Begins(f, op.fc, op.reference, op.quantity) /\ Len(f) = 12
<1>1. op.reference \in Half /\ op.quantity \in Half
  BY OperationParts
<1>2. PICK a, b \in Byte : iecINT(op.quantity) = <<a, b>> /\ a * 256 + b = op.quantity
  BY <1>1, WordBytes
<1>3. packetBuilder(t, op) = readRequest(op.fc, t, op)
  BY DEF packetBuilder, readCoilsPacketBuilder, readInputDiscretesPacketBuilder,
     readMultipleRegistersPacketBuilder
<1>4. iecBYTE(op.fc) = op.fc /\ op.fc \in Byte
  BY DEF iecBYTE, Byte
<1>5. packetBuilder(t, op) = Packet(t, 5, <<op.fc>> \o iecINT(op.reference) \o <<a, b>>)
  BY <1>2, <1>3, <1>4 DEF readRequest
<1> QED BY <1>1, <1>2, <1>4, <1>5, ShortLaid

\* Function 6: the word written is the item's low half.
LEMMA SingleFrame ==
  ASSUME NEW t \in Int, NEW op \in Operation, op.fc = 6, Fits(op)
  PROVE  LET f == packetBuilder(t, op)
         IN  /\ Begins(f, 6, op.reference, word(f, 11)) /\ Len(f) = 12
             /\ word(f, 11) \in Half /\ word(f, 11) = DWord(op.data[1].value).lo
<1>1. op.reference \in Half /\ op.data \in Seq(DataItem)
  BY OperationParts
<1>2. Len(op.data) = 1 /\ op.data # <<>> /\ op.data[1].value \in Int
  <2>1. Len(op.data) = 1
    BY DEF Fits
  <2>2. op.data # <<>> /\ op.data[1] \in DataItem
    BY <1>1, <2>1
  <2> QED BY <2>1, <2>2 DEF DataItem
<1> DEFINE v == op.data[1].value
<1>3. PICK a, b \in Byte : iecINT(v) = <<a, b>> /\ Makes(a, b, v)
  BY <1>2, IntBytes
<1>4. packetBuilder(t, op) = writeSingleRegisterPacketBuilder(t, op)
  BY DEF packetBuilder
<1>5. iecBYTE(6) = 6 /\ 6 \in Byte
  BY DEF iecBYTE, Byte
<1>6. Len(<<a, b>>) + 3 = 5
  OBVIOUS
<1> DEFINE f == Packet(t, 5, <<6>> \o iecINT(op.reference) \o <<a, b>>)
<1>7. packetBuilder(t, op) = f
  BY <1>2, <1>3, <1>4, <1>5, <1>6 DEF writeSingleRegisterPacketBuilder
<1>8. Begins(f, 6, op.reference, a * 256 + b) /\ Len(f) = 12
  BY <1>1, <1>5, ShortLaid
<1> HIDE DEF f, v
<1>9. a * 256 + b = DWord(v).lo
  BY <1>3 DEF Makes, DWord
<1>10. word(f, 11) = a * 256 + b
  BY <1>8 DEF Begins
<1>11. DWord(v).lo \in Half
  BY <1>2, DWordHalves DEF v
<1>12. /\ Begins(f, 6, op.reference, word(f, 11)) /\ Len(f) = 12
       /\ word(f, 11) \in Half /\ word(f, 11) = DWord(v).lo
  BY <1>8, <1>9, <1>10, <1>11
<1> QED BY <1>7, <1>12 DEF v

\* Bytes for n coils.
CoilBytes(n) == (n + 7) \div 8

CoilStream(coils) == [i \in 1..CoilBytes(Len(coils)) |-> coilByte(coils, i - 1)]

\* Function 15: the coils are in the stream, and its length is counted.
LEMMA CoilsFrame ==
  ASSUME NEW t \in Int, NEW op \in Operation, op.fc = 15, Fits(op)
  PROVE  LET f == packetBuilder(t, op)
             count == Len(op.coils)
             k == CoilBytes(count)
         IN  /\ Begins(f, 15, op.reference, count) /\ Carries(f, 12, k, CoilStream(op.coils))
             /\ k \in Nat /\ k = Len(CoilStream(op.coils)) /\ 8 * k >= count
<1> DEFINE count == Len(op.coils)
           k == CoilBytes(count)
           s == [i \in 1..k |-> coilByte(op.coils, i - 1)]
<1>1. op.reference \in Half
  BY OperationParts
<1>2. count \in Nat /\ 1 <= count /\ count <= 2040
  <2>1. op.coils \in Seq(BOOLEAN) /\ op.coils # <<>> /\ Len(op.coils) <= 8 * 255
    BY OperationParts DEF Fits
  <2> QED BY <2>1
<1> HIDE DEF count
<1>3. k \in Nat /\ 1 <= k /\ k <= 255 /\ 8 * k >= count
  BY <1>2 DEF CoilBytes
<1>4. \A i \in 1..k : coilByte(op.coils, i - 1) \in Byte
  <2> TAKE i \in 1..k
  <2> DEFINE b == [n \in 0..7 |-> IF 8 * (i - 1) + n < Len(op.coils) /\ op.coils[8 * (i - 1) + n + 1]
                                    THEN 1 ELSE 0]
  <2>1. Bits(b)
    BY DEF Bits
  <2> HIDE DEF b
  <2>2. octet(b) \in Byte
    BY <2>1, OctetBit
  <2> QED BY <2>2 DEF b, coilByte
<1>5. /\ count \in Half /\ Short(k + 6 + 1) /\ k \in Byte
      /\ iecBYTE(k) = k /\ iecBYTE(15) = 15 /\ 15 \in Byte
  BY <1>2, <1>3 DEF Half, Short, Byte, iecBYTE
<1>6. s \in Seq(Byte) /\ Len(s) = k /\ \A i \in 1..k : s[i] = coilByte(op.coils, i - 1)
  BY <1>3, <1>4
<1>7. packetBuilder(t, op) = Packet(t, Len(s) + 6,
        <<15>> \o iecINT(op.reference) \o iecINT(count) \o <<k>> \o s)
  <2>1. packetBuilder(t, op) = writeMultipleCoilsPacketBuilder(t, op)
    BY DEF packetBuilder
  <2>2. iecBYTE((count + 7) \div 8) = k /\ count # 0
    BY <1>2, <1>5 DEF CoilBytes
  <2>3. s = [i \in 1..(IF count = 0 THEN 1 ELSE (count + 7) \div 8) |-> coilByte(op.coils, i - 1)]
    BY <2>2 DEF CoilBytes
  <2> HIDE DEF s
  <2> QED BY <1>5, <2>1, <2>2, <2>3 DEF writeMultipleCoilsPacketBuilder, count
<1> HIDE DEF s, k
<1> DEFINE f == Packet(t, Len(s) + 6,
                  <<15>> \o iecINT(op.reference) \o iecINT(count) \o <<k>> \o s)
<1> HIDE DEF f
<1>11. CountedRequest(f, t, 15, op.reference, count, k, s)
  BY Zenon DEF f, CountedRequest
<1>8. Countable(op.reference, count, k, s, 6)
  BY <1>1, <1>5, <1>6 DEF Countable
<1>9. Begins(f, 15, op.reference, count) /\ Carries(f, 12, k, s)
  BY <1>5, <1>8, <1>11, CountedLaid, Zenon
<1>12. k \in Nat /\ k = Len(s) /\ 8 * k >= count
  BY <1>3, <1>6
<1>10. packetBuilder(t, op) = f
  BY <1>7, Zenon DEF f
<1> QED BY <1>9, <1>10, <1>12, Zenon DEF k, count, s, CoilStream

\* The items of an operation, as bytes and as words.
LEMMA DataBytesLaid ==
  ASSUME NEW op \in Operation
  PROVE  LET d == dataBytes(op.data)
             w == DataWords(op.data)
         IN  /\ d \in Seq(Byte) /\ w \in Seq(Half) /\ WordsOf(d, w)
             /\ Len(w) \in Nat /\ Len(d) = 2 * Len(w) /\ Len(d) \div 2 = Len(w)
<1> DEFINE d == dataBytes(op.data)
           w == DataWords(op.data)
<1>1. op.data \in Seq(DataItem) /\ \A x \in DataItem : x.value \in Int
  BY OperationParts DEF DataItem
<1>2. d \in Seq(Byte) /\ w \in Seq(Half) /\ WordsOf(d, w)
  BY <1>1, DataLaid
<1> HIDE DEF d, w
<1>3. Len(w) \in Nat /\ Len(d) = 2 * Len(w)
  BY <1>2 DEF WordsOf
<1>4. Len(d) \div 2 = Len(w)
  BY <1>3
<1> QED BY <1>2, <1>3, <1>4 DEF d, w

\* What fits in one packet.
LEMMA Counted ==
  ASSUME NEW n \in Nat, NEW l, l = 2 * n, l <= 255
  PROVE  /\ n \in Half /\ l \in Byte /\ iecBYTE(l) = l
         /\ Short(l + 6 + 1) /\ Short(l + 10 + 1)
<1>1. l \in Nat /\ n <= 255
  OBVIOUS
<1>2. l % 256 = l
  BY <1>1
<1> QED BY <1>1, <1>2 DEF Half, Short, Byte, iecBYTE

\* Function 16: the items are there, and counted.
LEMMA RegistersFrame ==
  ASSUME NEW t \in Int, NEW op \in Operation, op.fc = 16, Fits(op)
  PROVE  LET f == packetBuilder(t, op)
             d == dataBytes(op.data)
         IN  /\ Begins(f, 16, op.reference, Len(DataWords(op.data)))
             /\ Carries(f, 12, Len(d), d)
<1> DEFINE d == dataBytes(op.data)
           n == Len(DataWords(op.data))
<1>1. op.reference \in Half
  BY OperationParts
<1>2. d \in Seq(Byte) /\ n \in Nat /\ Len(d) = 2 * n /\ Len(d) \div 2 = n
  BY DataBytesLaid
<1>3. Len(d) <= 255
  BY DEF Fits
<1> HIDE DEF n
<1>4. packetBuilder(t, op) = Packet(t, Len(d) + 6,
        <<iecBYTE(16)>> \o iecINT(op.reference) \o iecINT(Len(d) \div 2)
          \o <<iecBYTE(Len(d))>> \o d)
  BY DEF packetBuilder, writeMultipleRegisterPacketBuilder
<1> HIDE DEF d
<1>9. n \in Half /\ Short(Len(d) + 6 + 1) /\ Len(d) \in Byte /\ iecBYTE(Len(d)) = Len(d)
  BY <1>2, <1>3, Counted
<1>10. iecBYTE(16) = 16 /\ 16 \in Byte
  BY DEF iecBYTE, Byte
<1>5. /\ n \in Half /\ Short(Len(d) + 6 + 1) /\ Len(d) \in Byte /\ iecBYTE(Len(d)) = Len(d)
      /\ iecBYTE(16) = 16 /\ 16 \in Byte
  BY <1>9, <1>10
<1> DEFINE f == Packet(t, Len(d) + 6,
                  <<16>> \o iecINT(op.reference) \o iecINT(n) \o <<Len(d)>> \o d)
<1> HIDE DEF f
<1>7. CountedRequest(f, t, 16, op.reference, n, Len(d), d)
  BY Zenon DEF f, CountedRequest
<1>11. Countable(op.reference, n, Len(d), d, 6)
  BY <1>1, <1>2, <1>9 DEF Countable
<1>6. Begins(f, 16, op.reference, n) /\ Carries(f, 12, Len(d), d)
  BY <1>10, <1>11, <1>7, CountedLaid, Zenon
<1>8. packetBuilder(t, op) = f
  BY <1>2, <1>4, <1>5, Zenon DEF f
<1> QED BY <1>6, <1>8 DEF d, n

\* Function 23: what to read and what to write.
LEMMA ReadWriteFrame ==
  ASSUME NEW t \in Int, NEW op \in Operation, op.fc = 23, Fits(op)
  PROVE  LET f == packetBuilder(t, op)
             d == dataBytes(op.data)
         IN  /\ Begins(f, op.fc, op.reference, op.quantity)
             /\ word(f, 13) = op.referenceWrite /\ word(f, 15) = Len(DataWords(op.data))
             /\ Carries(f, 16, Len(d), d)
<1> DEFINE d == dataBytes(op.data)
           n == Len(DataWords(op.data))
<1>1. op.reference \in Half /\ op.quantity \in Half /\ op.referenceWrite \in Half
  BY OperationParts
<1>2. d \in Seq(Byte) /\ n \in Nat /\ Len(d) = 2 * n /\ Len(d) \div 2 = n
  BY DataBytesLaid
<1>3. Len(d) <= 255
  BY DEF Fits
<1> HIDE DEF n
<1>4. packetBuilder(t, op) = Packet(t, Len(d) + 10,
        <<iecBYTE(23)>> \o iecINT(op.reference) \o iecINT(op.quantity)
          \o iecINT(op.referenceWrite) \o iecINT(Len(d) \div 2) \o <<iecBYTE(Len(d))>> \o d)
  BY DEF packetBuilder, readWriteRegistersPacketBuilder
<1> HIDE DEF d
<1>9. n \in Half /\ Short(Len(d) + 10 + 1) /\ Len(d) \in Byte /\ iecBYTE(Len(d)) = Len(d)
  BY <1>2, <1>3, Counted
<1>10. iecBYTE(23) = op.fc /\ op.fc \in Byte
  BY DEF iecBYTE, Byte
<1>5. /\ n \in Half /\ Short(Len(d) + 10 + 1) /\ Len(d) \in Byte /\ iecBYTE(Len(d)) = Len(d)
      /\ iecBYTE(23) = op.fc /\ op.fc \in Byte
  BY <1>9, <1>10
<1> DEFINE f == Packet(t, Len(d) + 10,
                  <<op.fc>> \o iecINT(op.reference) \o iecINT(op.quantity)
                    \o iecINT(op.referenceWrite) \o iecINT(n) \o <<Len(d)>> \o d)
<1> HIDE DEF f
<1>7. ReadWriteRequest(f, t, op.fc, op.reference, op.quantity, op.referenceWrite, n, Len(d), d)
  BY Zenon DEF f, ReadWriteRequest
<1>11. Countable(op.referenceWrite, n, Len(d), d, 10)
  BY <1>1, <1>2, <1>9 DEF Countable
<1>6. /\ Begins(f, op.fc, op.reference, op.quantity) /\ Carries(f, 16, Len(d), d)
      /\ word(f, 13) = op.referenceWrite /\ word(f, 15) = n
  BY <1>1, <1>10, <1>11, <1>7, ReadWriteLaid, SMT
<1>8. packetBuilder(t, op) = f
  BY <1>2, <1>4, <1>5, Zenon DEF f
<1> QED BY <1>6, <1>8 DEF d, n

-----------------------------------------------------------------------------
\* The device can take every request apart.

\* A request without a count of bytes.
LEMMA UnderstoodShort ==
  ASSUME NEW f, word(f, 3) = 0, Len(f) = 6 + word(f, 5), f[7] = unitId,
         f[8] \in {1, 2, 3, 6}, Len(f) = 12
  PROVE  Understood(f)
<1>1. (CASE f[8] \in {1, 2, 3, 6} -> Len(f) = 12
         [] f[8] = 15 -> Len(f) = 13 + f[13] /\ f[13] = (word(f, 11) + 7) \div 8
         [] f[8] = 16 -> Len(f) = 13 + f[13] /\ f[13] = 2 * word(f, 11)
         [] f[8] = 23 -> Len(f) = 17 + f[17] /\ f[17] = 2 * word(f, 15)) = (Len(f) = 12)
  OBVIOUS
<1> QED BY <1>1, Zenon DEF Understood

\* Lengths and counts agree, in the request of every operation.
LEMMA UnderstoodRequest ==
  ASSUME NEW t \in Int, NEW op \in Operation, Fits(op)
  PROVE  Understood(packetBuilder(t, op))
<1> DEFINE f == packetBuilder(t, op)
<1>1. op.fc \in {1, 2, 3} \/ op.fc = 6 \/ op.fc = 15 \/ op.fc = 16 \/ op.fc = 23
  BY OperationParts DEF FunctionCodes
<1>2. CASE op.fc \in {1, 2, 3}
  <2>1. Begins(f, op.fc, op.reference, op.quantity) /\ Len(f) = 12
    BY <1>2, ReadFrame
  <2> HIDE DEF f
  <2>2. Understood(f)
    <3>1. /\ word(f, 3) = 0 /\ Len(f) = 6 + word(f, 5) /\ f[7] = unitId
          /\ f[8] \in {1, 2, 3, 6} /\ Len(f) = 12
      BY <1>2, <2>1 DEF Begins
    <3> QED BY <3>1, UnderstoodShort
  <2> QED BY <2>2 DEF f
<1>3. CASE op.fc = 6
  <2>1. Begins(f, 6, op.reference, word(f, 11)) /\ Len(f) = 12
    BY <1>3, SingleFrame
  <2> HIDE DEF f
  <2>2. Understood(f)
    <3>1. /\ word(f, 3) = 0 /\ Len(f) = 6 + word(f, 5) /\ f[7] = unitId
          /\ f[8] \in {1, 2, 3, 6} /\ Len(f) = 12
      BY <2>1 DEF Begins
    <3> QED BY <3>1, UnderstoodShort
  <2> QED BY <2>2 DEF f
<1>4. CASE op.fc = 15
  <2> DEFINE k == CoilBytes(Len(op.coils))
             s == CoilStream(op.coils)
  <2>1. /\ Begins(f, 15, op.reference, Len(op.coils))
        /\ Carries(f, 12, k, s) /\ k = Len(s)
    BY <1>4, CoilsFrame
  <2>2. k = (Len(op.coils) + 7) \div 8
    BY DEF CoilBytes
  <2> HIDE DEF f, k, s
  <2>3. Understood(f)
    <3>1. /\ word(f, 3) = 0 /\ Len(f) = 6 + word(f, 5) /\ f[7] = unitId
          /\ f[8] = 15 /\ word(f, 11) = Len(op.coils)
      BY <2>1 DEF Begins
    <3>2. Len(f) = 13 + k /\ f[13] = k
      BY <2>1 DEF Carries
    <3>3. f[13] = (word(f, 11) + 7) \div 8 /\ Len(f) = 13 + f[13]
      BY <2>2, <3>1, <3>2
    <3> QED BY <3>1, <3>3 DEF Understood
  <2> QED BY <2>3 DEF f
<1>5. CASE op.fc = 16
  <2> DEFINE d == dataBytes(op.data)
             n == Len(DataWords(op.data))
  <2>1. Begins(f, 16, op.reference, n) /\ Carries(f, 12, Len(d), d)
    BY <1>5, RegistersFrame
  <2>2. n \in Nat /\ Len(d) = 2 * n
    BY DataBytesLaid
  <2> HIDE DEF f, d, n
  <2>3. Understood(f)
    <3>1. /\ word(f, 3) = 0 /\ Len(f) = 6 + word(f, 5) /\ f[7] = unitId
          /\ f[8] = 16 /\ word(f, 11) = n
      BY <2>1 DEF Begins
    <3>2. Len(f) = 13 + Len(d) /\ f[13] = Len(d)
      BY <2>1 DEF Carries
    <3> QED BY <2>2, <3>1, <3>2 DEF Understood
  <2> QED BY <2>3 DEF f
<1>6. CASE op.fc = 23
  <2> DEFINE d == dataBytes(op.data)
             n == Len(DataWords(op.data))
  <2>1. /\ Begins(f, op.fc, op.reference, op.quantity)
        /\ word(f, 15) = n /\ Carries(f, 16, Len(d), d)
    BY <1>6, ReadWriteFrame
  <2>2. n \in Nat /\ Len(d) = 2 * n
    BY DataBytesLaid
  <2> HIDE DEF f, d, n
  <2>3. Understood(f)
    <3>1. /\ word(f, 3) = 0 /\ Len(f) = 6 + word(f, 5) /\ f[7] = unitId
          /\ f[8] = 23 /\ word(f, 15) = n
      BY <1>6, <2>1 DEF Begins
    <3>2. Len(f) = 17 + Len(d) /\ f[17] = Len(d)
      BY <2>1 DEF Carries
    <3> QED BY <2>2, <3>1, <3>2 DEF Understood
  <2> QED BY <2>3 DEF f
<1> QED BY <1>1, <1>2, <1>3, <1>4, <1>5, <1>6

-----------------------------------------------------------------------------
\* What the device performs is what is meant.

\* m with the words w in its registers, from first on.
Filled(m, first, w) ==
  [m EXCEPT !.register =
     [a \in Registers |-> IF a - first + 1 \in DOMAIN w THEN w[a - first + 1] ELSE @[a]]]

\* From byte i on, the words of f are those of w.
WordsFrom(f, i, w) == \A j \in 1..Len(w) : word(f, i + 2 * (j - 1)) = w[j]

\* Registers stored from those bytes take those words.
LEMMA StoreFills ==
  ASSUME NEW f, NEW m, NEW first \in Nat, NEW i \in Nat, NEW w \in Seq(Half), WordsFrom(f, i, w)
  PROVE  Store(f, m, first, Len(w), i) = Filled(m, first, w)
<1>1. Len(w) \in Nat /\ DOMAIN w = 1..Len(w)
  OBVIOUS
<1> DEFINE G(a) == IF a \in first..first + Len(w) - 1
                     THEN word(f, i + 2 * (a - first)) ELSE m.register[a]
           H(a) == IF a - first + 1 \in DOMAIN w THEN w[a - first + 1] ELSE m.register[a]
<1>2. ASSUME NEW a \in Registers PROVE G(a) = H(a)
  <2>1. a \in Nat
    BY ExchangeAssumption
  <2>2. CASE a \in first..first + Len(w) - 1
    <3>1. PICK j \in 1..Len(w) : j = a - first + 1 /\ j - 1 = a - first
      BY <1>1, <2>1, <2>2
    <3>2. word(f, i + 2 * (j - 1)) = w[j]
      BY <3>1, Zenon DEF WordsFrom
    <3>3. G(a) = word(f, i + 2 * (a - first))
      BY <2>2
    <3>4. H(a) = w[a - first + 1]
      BY <1>1, <3>1
    <3> QED BY <3>1, <3>2, <3>3, <3>4, Zenon
  <2>3. CASE a \notin first..first + Len(w) - 1
    <3>1. a - first + 1 \notin 1..Len(w)
      BY <1>1, <2>1, <2>3
    <3> QED BY <1>1, <2>3, <3>1
  <2> QED BY <2>2, <2>3
<1>3. Store(f, m, first, Len(w), i) = [m EXCEPT !.register = [a \in Registers |-> G(a)]]
  BY Zenon DEF Store
<1>4. Filled(m, first, w) = [m EXCEPT !.register = [a \in Registers |-> H(a)]]
  BY Zenon DEF Filled
<1>5. [a \in Registers |-> G(a)] = [a \in Registers |-> H(a)]
  <2> HIDE DEF G, H
  <2> QED BY <1>2
<1> HIDE DEF G, H
<1> QED BY <1>3, <1>4, <1>5, Zenon

\* The bytes that a request carries are its words.
LEMMA CarriedWords ==
  ASSUME NEW f, NEW n \in Nat, NEW k, NEW d, NEW w, Len(w) \in Nat,
         Carries(f, n, k, d), WordsOf(d, w)
  PROVE  WordsFrom(f, n + 2, w)
<1>1. Len(d) = 2 * Len(w)
  BY DEF WordsOf
<1>2. ASSUME NEW j \in 1..Len(w) PROVE word(f, n + 2 + 2 * (j - 1)) = w[j]
  <2>1. 2 * j - 1 \in 1..Len(d) /\ 2 * j \in 1..Len(d)
    BY <1>1
  <2>2. f[n + 1 + (2 * j - 1)] = d[2 * j - 1] /\ f[n + 1 + 2 * j] = d[2 * j]
    BY <2>1 DEF Carries
  <2>3. /\ n + 1 + (2 * j - 1) = n + 2 + 2 * (j - 1)
        /\ n + 1 + 2 * j = n + 2 + 2 * (j - 1) + 1
    OBVIOUS
  <2>4. d[2 * j - 1] * 256 + d[2 * j] = w[j]
    BY DEF WordsOf
  <2> QED BY <2>2, <2>3, <2>4 DEF word
<1> QED BY <1>2 DEF WordsFrom

\* The coils as they are meant.
CoilsSet(m, op) ==
  [m EXCEPT !.coil = [a \in Coils |->
             IF a - op.reference + 1 \in DOMAIN op.coils
             THEN IF op.coils[a - op.reference + 1] THEN 1 ELSE 0
             ELSE @[a]]]

\* Each coil is in the bit where the device looks for it.
LEMMA CoilBit ==
  ASSUME NEW coils \in Seq(BOOLEAN), NEW n \in 0..Len(coils) - 1
  PROVE  bit(coilByte(coils, n \div 8), n % 8) = IF coils[n + 1] THEN 1 ELSE 0
<1> DEFINE k == n \div 8
           i == n % 8
           b == [x \in 0..7 |-> IF 8 * k + x < Len(coils) /\ coils[8 * k + x + 1] THEN 1 ELSE 0]
<1>1. n \in Nat /\ n < Len(coils)
  OBVIOUS
<1>2. i \in 0..7 /\ 8 * k + i = n
  BY <1>1
<1>3. Bits(b)
  BY DEF Bits
<1>4. coilByte(coils, k) = octet(b)
  BY DEF coilByte
<1>5. b[i] = IF coils[n + 1] THEN 1 ELSE 0
  <2> HIDE DEF k, i
  <2> QED BY <1>1, <1>2
<1> HIDE DEF b, k, i
<1>6. bit(octet(b), i) = b[i]
  BY <1>2, <1>3, OctetBit
<1>7. bit(coilByte(coils, k), i) = IF coils[n + 1] THEN 1 ELSE 0
  BY <1>4, <1>5, <1>6, Zenon
<1> QED BY <1>7 DEF k, i

LEMMA CoilBytesNat == \A n \in Nat : CoilBytes(n) \in Nat
  BY DEF CoilBytes

\* The coils of the stream land where they are meant.
LEMMA CoilsLand ==
  ASSUME NEW f, NEW m, NEW op, op.reference \in Nat, op.coils \in Seq(BOOLEAN),
         f[8] = 15, word(f, 9) = op.reference, word(f, 11) = Len(op.coils),
         Carries(f, 12, CoilBytes(Len(op.coils)), CoilStream(op.coils))
  PROVE  Performed(f, m) = CoilsSet(m, op)
<1> DEFINE count == Len(op.coils)
           s == CoilStream(op.coils)
<1>1. count \in Nat /\ DOMAIN op.coils = 1..count
  OBVIOUS
<1>2. Len(s) = CoilBytes(count) /\ \A i \in 1..CoilBytes(count) : s[i] = coilByte(op.coils, i - 1)
  <2> DEFINE k == CoilBytes(count)
  <2>1. k \in Nat
    BY <1>1, CoilBytesNat, Zenon
  <2> HIDE DEF k
  <2>2. s = [i \in 1..k |-> coilByte(op.coils, i - 1)]
    BY Zenon DEF CoilStream, k
  <2> HIDE DEF s
  <2>3. Len(s) = k /\ \A i \in 1..k : s[i] = coilByte(op.coils, i - 1)
    BY <2>1, <2>2
  <2> QED BY <2>3 DEF k
<1> DEFINE G(a) == LET n == a - op.reference
                   IN  IF n \in 0..count - 1 THEN bit(f[14 + n \div 8], n % 8) ELSE m.coil[a]
           H(a) == IF a - op.reference + 1 \in DOMAIN op.coils
                   THEN IF op.coils[a - op.reference + 1] THEN 1 ELSE 0
                   ELSE m.coil[a]
<1>3. ASSUME NEW a \in Coils PROVE G(a) = H(a)
  <2> DEFINE n == a - op.reference
  <2>1. n \in Int
    BY ExchangeAssumption
  <2> HIDE DEF count, s, n
  <2>2. CASE n \in 0..count - 1
    <3> DEFINE k == n \div 8
    <3>1. k \in Nat /\ k + 1 \in 1..CoilBytes(count) /\ k + 1 - 1 = k /\ 12 + 1 + (k + 1) = 14 + k
      BY <1>1, <2>2 DEF CoilBytes
    <3> HIDE DEF k
    <3>2. f[14 + k] = s[k + 1]
      BY <1>2, <3>1 DEF Carries, s, count
    <3>3. s[k + 1] = coilByte(op.coils, k)
      BY <1>2, <3>1
    <3>4. bit(coilByte(op.coils, n \div 8), n % 8) = IF op.coils[n + 1] THEN 1 ELSE 0
      BY <2>2, CoilBit DEF count
    <3>5. bit(f[14 + n \div 8], n % 8) = IF op.coils[n + 1] THEN 1 ELSE 0
      BY <3>2, <3>3, <3>4, Zenon DEF k
    <3>6. n + 1 \in DOMAIN op.coils
      BY <1>1, <2>2
    <3>7. G(a) = bit(f[14 + n \div 8], n % 8)
      BY <2>2, Zenon DEF n
    <3>8. H(a) = IF op.coils[n + 1] THEN 1 ELSE 0
      BY <3>6, Zenon DEF n
    <3> QED BY <3>5, <3>7, <3>8, Zenon
  <2>3. CASE n \notin 0..count - 1
    <3>1. n + 1 \notin DOMAIN op.coils
      BY <1>1, <2>1, <2>3
    <3> QED BY <2>3, <3>1, Zenon DEF n
  <2> QED BY <2>2, <2>3
<1>4. Performed(f, m) = [m EXCEPT !.coil = [a \in Coils |-> G(a)]]
  <2>1. Performed(f, m) =
         [m EXCEPT !.coil =
            [a \in Coils |-> LET n == a - word(f, 9)
                             IN IF n \in 0..word(f, 11) - 1
                                  THEN bit(f[14 + n \div 8], n % 8) ELSE @[a]]]
    BY DEF Performed
  <2> QED BY <2>1, Zenon
<1>5. CoilsSet(m, op) = [m EXCEPT !.coil = [a \in Coils |-> H(a)]]
  BY Zenon DEF CoilsSet
<1>6. [a \in Coils |-> G(a)] = [a \in Coils |-> H(a)]
  <2> HIDE DEF G, H
  <2> QED BY <1>3
<1> HIDE DEF G, H
<1> QED BY <1>4, <1>5, <1>6, Zenon

\* The words that a write is meant to leave.
WrittenWords(op) ==
  IF op.fc = 6 THEN <<DWord(op.data[1].value).lo>> ELSE DataWords(op.data)

\* Of the registers, what is meant is the words written.
LEMMA MeantWords ==
  ASSUME NEW m, NEW op \in Operation, Fits(op), op.fc # 15
  PROVE  Meant(op, m) =
           Filled(m, IF op.fc = 23 THEN op.referenceWrite ELSE op.reference, WrittenWords(op))
<1> DEFINE w == FlattenSeq([k \in DOMAIN op.data |->
                  IF op.fc = 6 THEN <<DWord(op.data[k].value).lo>> ELSE Words(op.data[k])])
           first == IF op.fc = 23 THEN op.referenceWrite ELSE op.reference
<1>1. Meant(op, m) = [m EXCEPT !.register = [a \in Registers |->
             IF a - first + 1 \in DOMAIN w THEN w[a - first + 1] ELSE @[a]]]
  BY Zenon DEF Meant
<1>2. w = WrittenWords(op)
  <2>1. CASE op.fc = 6
    <3> DEFINE x == DWord(op.data[1].value).lo
    <3>1. Len(op.data) = 1 /\ op.data \in Seq(DataItem)
      BY <2>1, OperationParts DEF Fits
    <3>2. DOMAIN op.data = 1..1
      BY <3>1
    <3>3. w = FlattenSeq([k \in 1..1 |-> <<DWord(op.data[k].value).lo>>])
      BY <2>1, <3>2, Zenon
    <3>4. [k \in 1..1 |-> <<DWord(op.data[k].value).lo>>] = <<<<x>>>>
      OBVIOUS
    <3>5. FlattenSeq(<<<<x>>>>) = <<x>>
      <4> HIDE DEF x
      <4> QED BY FlattenOne
    <3> QED BY <2>1, <3>3, <3>4, <3>5, Zenon DEF WrittenWords
  <2>2. CASE op.fc # 6
    BY <2>2, Zenon DEF WrittenWords, DataWords
  <2> QED BY <2>1, <2>2
<1> HIDE DEF w, first
<1>3. Meant(op, m) = Filled(m, first, w)
  BY <1>1, Zenon DEF Filled
<1> QED BY <1>2, <1>3, Zenon DEF first

\* A request for a read leaves the memory alone.
LEMMA ReadsLeave ==
  ASSUME NEW t \in Int, NEW op \in Operation, op.fc \in {1, 2, 3}, NEW m
  PROVE  Performed(packetBuilder(t, op), m) = m
<1> DEFINE f == packetBuilder(t, op)
<1>1. f[8] = op.fc
  BY ReadFrame DEF Begins
<1> HIDE DEF f
<1>2. Performed(f, m) = m
  BY <1>1 DEF Performed
<1> QED BY <1>2 DEF f

\* Whatever a write asks for, the bytes sent for it say.
LEMMA WriteLands ==
  ASSUME NEW t \in Int, NEW op \in Operation, Fits(op), op.fc \notin {1, 2, 3}, NEW m
  PROVE  Performed(packetBuilder(t, op), m) = Meant(op, m)
<1> DEFINE f == packetBuilder(t, op)
           w == WrittenWords(op)
<1>1. op.fc = 6 \/ op.fc = 15 \/ op.fc = 16 \/ op.fc = 23
  BY OperationParts DEF FunctionCodes
<1>2. op.reference \in Nat /\ op.referenceWrite \in Nat
  BY OperationParts DEF Half
<1>3. CASE op.fc = 6
  <2> DEFINE x == DWord(op.data[1].value).lo
  <2>1. Begins(f, 6, op.reference, word(f, 11)) /\ word(f, 11) \in Half /\ word(f, 11) = x
    BY <1>3, SingleFrame
  <2>2. w = <<x>>
    BY <1>3 DEF WrittenWords
  <2>3. Meant(op, m) = Filled(m, op.reference, w)
    BY <1>3, MeantWords
  <2> HIDE DEF f, x, w
  <2>4. f[8] = 6 /\ word(f, 9) = op.reference /\ word(f, 11) \in Half
    BY <2>1 DEF Begins
  <2>5. w \in Seq(Half) /\ Len(w) = 1 /\ w[1] = word(f, 11)
    BY <2>1, <2>2, <2>4
  <2>6. WordsFrom(f, 11, w)
    <3> SUFFICES ASSUME NEW j \in 1..1 PROVE word(f, 11 + 2 * (j - 1)) = w[j]
      BY <2>5 DEF WordsFrom
    <3>1. j = 1 /\ 11 + 2 * (j - 1) = 11
      OBVIOUS
    <3> QED BY <2>5, <3>1
  <2>7. Performed(f, m) = Store(f, m, op.reference, 1, 11)
    BY <2>4 DEF Performed
  <2>8. Store(f, m, op.reference, Len(w), 11) = Filled(m, op.reference, w)
    <3>1. w \in Seq(Half)
      BY <2>5
    <3> QED BY <1>2, <2>6, <3>1, StoreFills
  <2> QED BY <2>3, <2>5, <2>7, <2>8, Zenon DEF f
<1>4. CASE op.fc = 15
  <2>1. /\ Begins(f, 15, op.reference, Len(op.coils))
        /\ Carries(f, 12, CoilBytes(Len(op.coils)), CoilStream(op.coils))
    BY <1>4, CoilsFrame
  <2>2. op.coils \in Seq(BOOLEAN)
    BY OperationParts
  <2>3. Meant(op, m) = CoilsSet(m, op)
    BY <1>4, Zenon DEF Meant, CoilsSet
  <2> HIDE DEF f
  <2>4. f[8] = 15 /\ word(f, 9) = op.reference /\ word(f, 11) = Len(op.coils)
    BY <2>1 DEF Begins
  <2>5. Performed(f, m) = CoilsSet(m, op)
    BY <1>2, <2>1, <2>2, <2>4, CoilsLand
  <2> QED BY <2>3, <2>5 DEF f
<1>5. CASE op.fc = 16
  <2> DEFINE d == dataBytes(op.data)
  <2>1. w = DataWords(op.data)
    BY <1>5 DEF WrittenWords
  <2>2. w \in Seq(Half) /\ WordsOf(d, w) /\ Len(w) \in Nat
    BY <2>1, DataBytesLaid
  <2>3. Begins(f, 16, op.reference, Len(w)) /\ Carries(f, 12, Len(d), d)
    BY <1>5, <2>1, RegistersFrame
  <2>4. Meant(op, m) = Filled(m, op.reference, w)
    BY <1>5, MeantWords
  <2> HIDE DEF f, d, w
  <2>5. f[8] = 16 /\ word(f, 9) = op.reference /\ word(f, 11) = Len(w)
    BY <2>3 DEF Begins
  <2>6. WordsFrom(f, 12 + 2, w)
    BY <2>2, <2>3, CarriedWords
  <2>7. Performed(f, m) = Store(f, m, op.reference, Len(w), 12 + 2)
    BY <2>5 DEF Performed
  <2>8. Store(f, m, op.reference, Len(w), 12 + 2) = Filled(m, op.reference, w)
    BY <1>2, <2>2, <2>6, StoreFills
  <2> QED BY <2>4, <2>7, <2>8 DEF f
<1>6. CASE op.fc = 23
  <2> DEFINE d == dataBytes(op.data)
  <2>1. w = DataWords(op.data)
    BY <1>6 DEF WrittenWords
  <2>2. w \in Seq(Half) /\ WordsOf(d, w) /\ Len(w) \in Nat
    BY <2>1, DataBytesLaid
  <2>3. /\ Begins(f, op.fc, op.reference, op.quantity) /\ Carries(f, 16, Len(d), d)
        /\ word(f, 13) = op.referenceWrite /\ word(f, 15) = Len(w)
    BY <1>6, <2>1, ReadWriteFrame
  <2>4. Meant(op, m) = Filled(m, op.referenceWrite, w)
    BY <1>6, MeantWords
  <2> HIDE DEF f, d, w
  <2>5. f[8] = 23
    BY <1>6, <2>3 DEF Begins
  <2>6. WordsFrom(f, 16 + 2, w)
    BY <2>2, <2>3, CarriedWords
  <2>7. Performed(f, m) = Store(f, m, op.referenceWrite, Len(w), 16 + 2)
    BY <2>3, <2>5 DEF Performed
  <2>8. Store(f, m, op.referenceWrite, Len(w), 16 + 2) = Filled(m, op.referenceWrite, w)
    BY <1>2, <2>2, <2>6, StoreFills
  <2> QED BY <2>4, <2>7, <2>8 DEF f
<1> QED BY <1>1, <1>3, <1>4, <1>5, <1>6

-----------------------------------------------------------------------------
\* The calls and their operations.

\* The operations are those of the calls made.
Called ==
  /\ operations \in Seq(Operations) /\ Len(operations) = call
  /\ pc \in {"connect", "send", "rec", "parse"} => kind = Kind(operations[call])
  /\ \A r \in requests : r.call \in 1..call /\ r.kind = Kind(operations[r.call])

\* One member more leaves the others.
LEMMA OneMore ==
  ASSUME NEW T, NEW s \in Seq(T), NEW x \in T
  PROVE  /\ Append(s, x) \in Seq(T) /\ Len(Append(s, x)) = Len(s) + 1
         /\ Append(s, x)[Len(s) + 1] = x
         /\ \A i \in 1..Len(s) : Append(s, x)[i] = s[i]
  OBVIOUS

\* No step but a call changes the operations, and a request keeps its kind.
LEMMA CalledStep == Called /\ TypeOK /\ SocketOwn /\ [XNext]_xvars => Called'
<1> SUFFICES ASSUME Called, TypeOK, SocketOwn, [XNext]_xvars PROVE Called'
  OBVIOUS
<1> USE DEF request, device, data
<1>0. call \in Nat
  BY ModbusAssumption DEF TypeOK
<1>1. CASE \E op \in Operations : XCall(op)
  <2> PICK op \in Operations : XCall(op)
    BY <1>1
  <2>1. /\ call' = call + 1 /\ kind' = Kind(op) /\ requests' = requests
        /\ operations' = Append(operations, op)
    BY DEF XCall, Call
  <2>2. /\ operations' \in Seq(Operations) /\ Len(operations') = call + 1
        /\ operations'[call + 1] = op
        /\ \A i \in 1..call : operations'[i] = operations[i]
    BY <2>1, OneMore DEF Called
  <2>3. \A r \in requests' : r.call \in 1..call' /\ r.kind = Kind(operations'[r.call])
    BY <1>0, <2>1, <2>2 DEF Called
  <2>4. kind' = Kind(operations'[call'])
    BY <2>1, <2>2
  <2> QED BY <2>1, <2>2, <2>3, <2>4 DEF Called
<1>2. CASE \E r \in requests, s \in Segment : XReply(r, s)
  BY <1>2 DEF XReply, Reply, Called
<1>3. CASE XParseOk
  BY <1>3 DEF XParseOk, ParseOk, Called
<1>4. CASE XRest
  <2>1. CASE Send
    <3> DEFINE q == [call |-> call, kind |-> kind, sock |-> sock]
    <3>1. q.call = call /\ q.kind = kind /\ call \in 1..call
      BY <1>0, <2>1, ModbusAssumption DEF Send, SocketOwn, Calls
    <3>2. /\ operations' = operations /\ call' = call /\ kind' = kind
          /\ requests' = requests \/ requests' = requests \union {q}
          /\ kind = Kind(operations[call])
      BY <1>4, <2>1 DEF XRest, Send, Called
    <3> HIDE DEF q
    <3> QED BY <3>1, <3>2 DEF Called
  <2>2. CASE \E c \in Calls : PeerCloses(c)
    BY <1>4, <2>2 DEF XRest, PeerCloses, Called
  <2>3. CASE Tick \/ Stop
    BY <1>4, <2>3 DEF XRest, Tick, Stop, Called
  <2>4. CASE ConnectOk \/ ConnectFails \/ ParseFails
    BY <1>4, <2>4 DEF XRest, ConnectOk, ConnectFails, ParseFails, Throw, Called
  <2>5. CASE RecvData \/ RecvNothing \/ WaitMore \/ Watchdog \/ SelectFails
    BY <1>4, <2>5 DEF XRest, RecvData, RecvNothing, WaitMore, Watchdog, SelectFails,
       Throw, vars, Called
  <2> QED BY <1>4, <2>1, <2>2, <2>3, <2>4, <2>5 DEF XRest
<1>5. CASE UNCHANGED xvars
  BY <1>5 DEF xvars, vars, Called
<1> QED BY <1>1, <1>2, <1>3, <1>4, <1>5 DEF XNext

LEMMA CalledCorrect == XSpec => []Called
<1>1. XInit => Called
  BY DEF XInit, Init, Called
<1>2. XSpec => [](TypeOK /\ SocketOwn)
  BY ExchangeImplements, TypesAndSocket, PTL
<1> QED BY <1>1, <1>2, CalledStep, PTL DEF XSpec

\* The operation of a call that has been made.
LEMMA CallFits ==
  ASSUME Called, NEW c \in 1..call
  PROVE  operations[c] \in Operation /\ Fits(operations[c])
<1>1. operations[c] \in Operations
  BY DEF Called
<1> QED BY <1>1, ExchangeAssumption

\* Every request can be taken apart by its own counts.
THEOREM RequestsUnderstoodCorrect == XSpec => []RequestsUnderstood
<1>1. Called => RequestsUnderstood
  <2> SUFFICES ASSUME Called, NEW r \in requests PROVE Understood(Frame(r.call))
    BY DEF RequestsUnderstood
  <2>1. r.call \in 1..call
    BY DEF Called
  <2>2. r.call \in Int
    BY <2>1
  <2>3. operations[r.call] \in Operation /\ Fits(operations[r.call])
    BY <2>1, CallFits
  <2> QED BY <2>2, <2>3, UnderstoodRequest DEF Frame
<1> QED BY <1>1, CalledCorrect, PTL

\* The device does what the caller has asked for, and nothing else.
THEOREM WritesLandCorrect == XSpec => WritesLand
<1>1. Called /\ Once /\ [XNext]_xvars =>
        (memory' # memory \/ written' # written =>
           memory' = Meant(operations[Last(written')], memory))
  <2> SUFFICES ASSUME Called, Once, [XNext]_xvars, memory' # memory \/ written' # written
               PROVE  memory' = Meant(operations[Last(written')], memory)
    OBVIOUS
  <2>1. \E r \in requests, s \in Segment : XReply(r, s)
    BY DEF XNext, XCall, XParseOk, XRest, xvars, data
  <2> PICK r \in requests, s \in Segment : XReply(r, s)
    BY <2>1
  <2> DEFINE c == r.call
             op == operations[c]
  <2>2. /\ memory' = Performed(Frame(c), memory)
        /\ written' = IF r.kind = "write" THEN Append(written, c) ELSE written
    BY DEF XReply
  <2>3. c \in 1..call /\ r.kind = Kind(op)
    BY DEF Called
  <2>4. op \in Operation /\ Fits(op)
    BY <2>3, CallFits
  <2>5. c \in Int
    BY <2>3
  <2>6. CASE op.fc \in {1, 2, 3}
    <3>1. r.kind = "read"
      BY <2>3, <2>6 DEF Kind
    <3>2. Performed(packetBuilder(c, op), memory) = memory
      BY <2>4, <2>5, <2>6, ReadsLeave
    <3> QED BY <2>2, <3>1, <3>2 DEF Frame
  <2>7. CASE op.fc \notin {1, 2, 3}
    <3>1. r.kind = "write"
      BY <2>3, <2>7 DEF Kind
    <3>2. Performed(packetBuilder(c, op), memory) = Meant(op, memory)
      BY <2>4, <2>5, <2>7, WriteLands
    <3>3. Last(Append(written, c)) = c
      <4>1. written \in Seq(Calls)
        BY DEF Once
      <4> HIDE DEF c
      <4> QED BY <4>1 DEF Last
    <3>4. Last(written') = c
      BY <2>2, <3>1, <3>3
    <3> QED BY <2>2, <3>2, <3>4, Zenon DEF Frame
  <2> QED BY <2>6, <2>7
<1>2. XSpec => []Once
  <2>1. Ordered => Once
    BY DEF Ordered
  <2> QED BY <2>1, OrderedCorrect, PTL
<1> QED BY <1>1, <1>2, CalledCorrect, PTL DEF XSpec, WritesLand

-----------------------------------------------------------------------------
\* Replies laid out byte by byte.

\* What the device reads out for an operation: numbers of two bytes, or bits.
Cells(op, h) ==
  /\ h \in Seq(Half) /\ Len(h) = op.quantity
  /\ op.fc \in {1, 2} => \A i \in 1..Len(h) : h[i] = 0 \/ h[i] = 1

DataLength(op) == IF op.fc \in {1, 2} THEN CoilBytes(op.quantity) ELSE 2 * op.quantity

\* Where bytes of f with the same head d: 9 bytes, the last of them the length of d.
Heads(p, d) ==
  /\ Len(p) = 9 + Len(d) /\ p[9] = Len(d)
  /\ \A i \in 1..Len(d) : p[9 + i] = d[i]

\* A head of 8 bytes, a count and what is counted.
LEMMA HeadedBy ==
  ASSUME NEW T, NEW h \in Seq(T), Len(h) = 8, NEW l \in T, NEW d \in Seq(T), l = Len(d)
  PROVE  h \o <<l>> \o d \in Seq(T) /\ Heads(h \o <<l>> \o d, d)
<1> DEFINE o == <<l>>
           g == h \o o
           p == g \o d
<1>1. o \in Seq(T) /\ Len(o) = 1 /\ o[1] = l
  OBVIOUS
<1> HIDE DEF o
<1>2. Follows(g, h, o, T)
  BY <1>1, ConcatFollows
<1> HIDE DEF g
<1>3. g \in Seq(T) /\ Len(g) = 9 /\ g[9] = l
  <2>1. 1 \in 1..Len(o) /\ Len(h) + 1 = 9
    BY <1>1
  <2> QED BY <1>1, <1>2, <2>1 DEF Follows
<1>4. Follows(p, g, d, T)
  BY <1>3, ConcatFollows
<1> HIDE DEF p
<1>5. p[9] = g[9]
  <2>1. 9 \in 1..Len(g)
    BY <1>3
  <2> QED BY <1>4, <2>1 DEF Follows
<1>6. Heads(p, d)
  BY <1>3, <1>4, <1>5 DEF Heads, Follows
<1>7. p \in Seq(T)
  BY <1>4 DEF Follows
<1> QED BY <1>6, <1>7 DEF p, g, o

\* The head: of the request, with another length.
LEMMA EightBytes ==
  ASSUME NEW T, NEW f \in Seq(T), Len(f) >= 12, NEW a \in T, NEW b \in T
  PROVE  LET h == SubSeq(f, 1, 4) \o <<a, b>> \o SubSeq(f, 7, 8)
         IN  h \in Seq(T) /\ Len(h) = 8
<1> DEFINE u == SubSeq(f, 1, 4)
           v == SubSeq(f, 7, 8)
<1>1. u \in Seq(T) /\ Len(u) = 4 /\ v \in Seq(T) /\ Len(v) = 2
  OBVIOUS
<1> HIDE DEF u, v
<1> DEFINE w == <<a, b>>
           x == u \o w
           y == x \o v
<1>2. w \in Seq(T) /\ Len(w) = 2
  OBVIOUS
<1> HIDE DEF w
<1>3. Follows(x, u, w, T)
  BY <1>1, <1>2, ConcatFollows
<1>4. x \in Seq(T) /\ Len(x) = 6
  BY <1>1, <1>2, <1>3 DEF Follows
<1> HIDE DEF x
<1>5. Follows(y, x, v, T)
  BY <1>1, <1>4, ConcatFollows
<1> HIDE DEF y
<1>6. y \in Seq(T) /\ Len(y) = 8
  BY <1>1, <1>4, <1>5 DEF Follows
<1> QED BY <1>6 DEF y, x, w, u, v

\* The reply to a read is such a sequence.
LEMMA ReplyHeads ==
  ASSUME NEW f \in Seq(Int), Len(f) >= 12, f[8] \notin {6, 15, 16}, NEW h,
         DataBytes(f, h) \in Seq(Int)
  PROVE  ReplyBytes(f, h) \in Seq(Int) /\ Heads(ReplyBytes(f, h), DataBytes(f, h))
<1> DEFINE d == DataBytes(f, h)
<1>1. ReplyBytes(f, h) =
        SubSeq(f, 1, 4) \o iecINT(3 + Len(d)) \o SubSeq(f, 7, 8) \o <<Len(d)>> \o d
  BY Zenon DEF ReplyBytes
<1> HIDE DEF d
<1>2. d \in Seq(Int) /\ Len(d) \in Int
  BY DEF d
<1>3. PICK a, b \in Byte : iecINT(3 + Len(d)) = <<a, b>>
  BY <1>2, IntBytes
<1>4. a \in Int /\ b \in Int
  BY DEF Byte
<1> DEFINE e == SubSeq(f, 1, 4) \o <<a, b>> \o SubSeq(f, 7, 8)
<1>5. e \in Seq(Int) /\ Len(e) = 8
  BY <1>4, EightBytes
<1>6. ReplyBytes(f, h) = e \o <<Len(d)>> \o d
  BY <1>1, <1>3, Zenon
<1> HIDE DEF e
<1>7. e \o <<Len(d)>> \o d \in Seq(Int) /\ Heads(e \o <<Len(d)>> \o d, d)
  BY <1>2, <1>5, HeadedBy
<1> QED BY <1>6, <1>7, Zenon DEF d

\* The request of a read, of any of the four functions.
LEMMA FrameHead ==
  ASSUME NEW t \in Int, NEW op \in Operation, Fits(op), op.fc \in {1, 2, 3, 23}
  PROVE  LET f == packetBuilder(t, op)
         IN Begins(f, op.fc, op.reference, op.quantity) /\ Len(f) \in Nat /\ Len(f) >= 12
<1> DEFINE f == packetBuilder(t, op)
<1>1. CASE op.fc \in {1, 2, 3}
  <2>1. Begins(f, op.fc, op.reference, op.quantity) /\ Len(f) = 12
    BY <1>1, ReadFrame
  <2> QED BY <2>1
<1>2. CASE op.fc = 23
  <2>1. /\ Begins(f, op.fc, op.reference, op.quantity)
        /\ Carries(f, 16, Len(dataBytes(op.data)), dataBytes(op.data))
    BY <1>2, ReadWriteFrame
  <2>2. Len(dataBytes(op.data)) \in Nat
    BY DataBytesLaid
  <2> HIDE DEF f
  <2>3. Len(f) \in Nat /\ Len(f) >= 12
    BY <2>1, <2>2 DEF Carries
  <2> QED BY <2>1, <2>3 DEF f
<1> QED BY <1>1, <1>2

-----------------------------------------------------------------------------
\* What the parsers make of a reply.

\* A reply that has come in part: zeros at its end.
LEMMA CutAt ==
  ASSUME NEW r \in Seq(Int), NEW len \in Nat, len <= Len(r), NEW i \in Nat
  PROVE  at(SubSeq(r, 1, len), i) = IF i < len THEN r[i + 1] ELSE 0
<1> DEFINE p == SubSeq(r, 1, len)
<1>1. Len(p) = len /\ \A j \in 1..len : p[j] = r[j]
  OBVIOUS
<1> HIDE DEF p
<1>2. at(p, i) = IF i < len THEN r[i + 1] ELSE 0
  BY <1>1 DEF at
<1> QED BY <1>2 DEF p

\* What the parser of the registers makes of the first len bytes of a reply.
LEMMA Parsed ==
  ASSUME NEW r \in Seq(Int), NEW d \in Seq(Int), Heads(r, d),
         NEW len \in Nat, len >= 9, len <= Len(r)
  PROVE  readMultipleRegistersParser(SubSeq(r, 1, len)) =
           [i \in 1..Len(d) |-> IF i > len - 9 THEN 0 ELSE d[i]]
<1> DEFINE p == SubSeq(r, 1, len)
           G(i) == at(p, 8 + i)
           H(i) == IF i > len - 9 THEN 0 ELSE d[i]
<1>1. at(p, 8) = Len(d)
  <2>1. at(p, 8) = IF 8 < len THEN r[8 + 1] ELSE 0
    BY CutAt
  <2>2. r[9] = Len(d)
    BY DEF Heads
  <2> HIDE DEF p
  <2> QED BY <2>1, <2>2
<1>2. ASSUME NEW i \in 1..Len(d) PROVE G(i) = H(i)
  <2>1. 8 + i \in Nat
    OBVIOUS
  <2>2. at(p, 8 + i) = IF 8 + i < len THEN r[8 + i + 1] ELSE 0
    BY <2>1, CutAt
  <2>3. r[9 + i] = d[i] /\ 8 + i + 1 = 9 + i
    BY DEF Heads
  <2> HIDE DEF p
  <2> QED BY <2>2, <2>3
<1>3. readMultipleRegistersParser(p) = [i \in 1..at(p, 8) |-> G(i)]
  BY Zenon DEF readMultipleRegistersParser
<1>4. [i \in 1..Len(d) |-> G(i)] = [i \in 1..Len(d) |-> H(i)]
  <2> HIDE DEF G, H
  <2> QED BY <1>2
<1> QED BY <1>1, <1>3, <1>4, Zenon

\* Without its count, nothing.
LEMMA ParsedNothing ==
  ASSUME NEW r \in Seq(Int), 8 <= Len(r)
  PROVE  readMultipleRegistersParser(SubSeq(r, 1, 8)) = <<>>
<1> DEFINE p == SubSeq(r, 1, 8)
<1>1. at(p, 8) = 0
  BY CutAt
<1> HIDE DEF p
<1>2. readMultipleRegistersParser(p) = <<>>
  BY <1>1 DEF readMultipleRegistersParser
<1> QED BY <1>2 DEF p

\* d is the bytes of the words of h.
Split(d, h) ==
  /\ d \in Seq(Int) /\ Len(d) = 2 * Len(h)
  /\ \A i \in 1..Len(h) : d[2 * i - 1] = h[i] \div 256 /\ d[2 * i] = h[i] % 256

\* The bytes of the registers read out.
LEMMA WordPairs ==
  ASSUME NEW h \in Seq(Half)
  PROVE  Split(FlattenSeq([k \in DOMAIN h |-> <<h[k] \div 256, h[k] % 256>>]), h)
<1> DEFINE hi(k) == h[k] \div 256
           lo(k) == h[k] % 256
           s == [k \in DOMAIN h |-> <<hi(k), lo(k)>>]
<1>1. Len(h) \in Nat /\ DOMAIN h = 1..Len(h) /\ \A k \in 1..Len(h) : h[k] \in Int
  BY DEF Half
<1>2. \A k \in 1..Len(h) : hi(k) \in Int /\ lo(k) \in Int
  BY <1>1
<1> HIDE DEF hi, lo
<1>3. s \in Seq(Seq(Int)) /\ Len(s) = Len(h) /\ \A k \in 1..Len(h) : s[k] = <<hi(k), lo(k)>>
  BY <1>1, <1>2
<1> HIDE DEF s
<1>4. \A k \in 1..Len(s) : Len(s[k]) = 2
  <2>1. \A x, y : Len(<<x, y>>) = 2
    OBVIOUS
  <2> QED BY <1>3, <2>1, Zenon
<1>5. FlattenSeq(s) \in Seq(Int) /\ PairsIn(FlattenSeq(s), s, Len(h))
  <2>1. FlattenSeq(s) \in Seq(Int) /\ PairsIn(FlattenSeq(s), s, Len(s))
    BY <1>3, <1>4, FlattenPairs
  <2> QED BY <1>3, <2>1
<1> DEFINE d == FlattenSeq(s)
<1> HIDE DEF d
<1>6. Len(d) = 2 * Len(h) /\ \A i \in 1..Len(h) : d[2 * i - 1] = hi(i) /\ d[2 * i] = lo(i)
  <2>1. PairsIn(d, s, Len(h))
    BY <1>5 DEF d
  <2>2. \A i \in 1..Len(h) : d[2 * i - 1] = s[i][1] /\ d[2 * i] = s[i][2]
    BY <2>1, Zenon DEF PairsIn
  <2>3. \A i \in 1..Len(h) : s[i][1] = hi(i) /\ s[i][2] = lo(i)
    BY <1>3
  <2> QED BY <2>1, <2>2, <2>3, Zenon DEF PairsIn
<1> QED BY <1>5, <1>6, Zenon DEF d, s, hi, lo, Split

\* Bits eight to a byte, the last byte filled with 0.
Octets(h) ==
  [k \in 1..CoilBytes(Len(h)) |->
     octet([n \in 0..7 |-> IF 8 * k - 7 + n <= Len(h) THEN h[8 * k - 7 + n] ELSE 0])]

BitsOnly(h) == \A i \in 1..Len(h) : h[i] = 0 \/ h[i] = 1

\* Each bit is where the parser looks for it.
LEMMA OctetsBits ==
  ASSUME NEW h \in Seq(Half), BitsOnly(h)
  PROVE  LET d == Octets(h)
         IN  /\ d \in Seq(Int) /\ Len(d) = CoilBytes(Len(h))
             /\ \A i \in 0..Len(h) - 1 : bit(d[i \div 8 + 1], i % 8) = h[i + 1]
<1> DEFINE K == CoilBytes(Len(h))
           b(k) == [n \in 0..7 |-> IF 8 * k - 7 + n <= Len(h) THEN h[8 * k - 7 + n] ELSE 0]
           o(k) == octet(b(k))
           d == [k \in 1..K |-> o(k)]
<1>0. Len(h) \in Nat
  OBVIOUS
<1>1. K \in Nat
  BY <1>0, CoilBytesNat, Zenon
<1>2. ASSUME NEW k \in 1..K
      PROVE  o(k) \in Byte /\ \A n \in 0..7 : bit(o(k), n) = b(k)[n]
  <2> HIDE DEF K
  <2>1. Bits(b(k))
    <3> SUFFICES ASSUME NEW n \in 0..7 PROVE b(k)[n] = 0 \/ b(k)[n] = 1
      BY Zenon DEF Bits
    <3>1. 8 * k - 7 + n \in Int /\ 8 * k - 7 + n >= 1
      BY <1>1
    <3>2. 8 * k - 7 + n <= Len(h) => h[8 * k - 7 + n] = 0 \/ h[8 * k - 7 + n] = 1
      BY <1>0, <3>1 DEF BitsOnly
    <3> QED BY <3>2
  <2> HIDE DEF b
  <2> QED BY <2>1, OctetBit
<1> HIDE DEF K
<1>3. d \in Seq(Int) /\ Len(d) = K /\ \A k \in 1..K : d[k] = o(k)
  <2> HIDE DEF o
  <2>1. \A k \in 1..K : o(k) \in Int
    <3>1. \A x \in Byte : x \in Int
      BY DEF Byte
    <3> QED BY <1>2, <3>1, Zenon
  <2> QED BY <1>1, <2>1
<1>4. ASSUME NEW i \in 0..Len(h) - 1 PROVE bit(d[i \div 8 + 1], i % 8) = h[i + 1]
  <2> DEFINE k == i \div 8 + 1
             n == i % 8
  <2>1. k \in 1..K /\ n \in 0..7 /\ 8 * k - 7 + n = i + 1
    BY <1>0 DEF K, CoilBytes
  <2>2. i + 1 <= Len(h)
    BY <1>0
  <2> HIDE DEF d, k, n
  <2>3. d[k] = o(k)
    BY <1>3, <2>1
  <2>4. bit(o(k), n) = b(k)[n]
    BY <1>2, <2>1, Zenon
  <2>5. b(k)[n] = h[i + 1]
    BY <2>1, <2>2
  <2>6. bit(d[k], n) = h[i + 1]
    BY <2>3, <2>4, <2>5, Zenon
  <2> QED BY <2>6 DEF k, n
<1>5. Octets(h) = d
  BY Zenon DEF Octets, K
<1> HIDE DEF d
<1> QED BY <1>3, <1>4, <1>5, Zenon DEF K

\* What a reply carries for what has been read out.
LEMMA DataOfCoils ==
  ASSUME NEW f, NEW h, f[8] \in {1, 2}
  PROVE  DataBytes(f, h) = Octets(h)
  BY Zenon DEF DataBytes, Octets, CoilBytes

LEMMA DataOfRegisters ==
  ASSUME NEW f, NEW h, f[8] \notin {1, 2}
  PROVE  DataBytes(f, h) = FlattenSeq([k \in DOMAIN h |-> <<h[k] \div 256, h[k] % 256>>])
  BY Zenon DEF DataBytes

\* What a read is to return of h when len bytes of the reply have come.
Expected(op, h, len) ==
  IF len < 9 THEN <<>>
  ELSE IF op.fc \in {1, 2}
  THEN [i \in 1..op.quantity |-> IF (i + 7) \div 8 <= len - 9 THEN h[i] ELSE 0]
  ELSE [i \in 1..2 * op.quantity |->
          IF i > len - 9 THEN 0
          ELSE IF i % 2 = 1 THEN h[(i + 1) \div 2] \div 256 ELSE h[i \div 2] % 256]

LEMMA OddHalf ==
  ASSUME NEW i \in Int, i % 2 = 1
  PROVE  (i + 1) \div 2 \in Int /\ 2 * ((i + 1) \div 2) - 1 = i
<1> DEFINE q == i \div 2
<1>1. q \in Int /\ i = 2 * q + 1
  OBVIOUS
<1> HIDE DEF q
<1>2. (i + 1) \div 2 = q + 1
  BY <1>1
<1> QED BY <1>1, <1>2

\* Registers come back as their bytes, as far as the reply has come.
LEMMA RegistersBack ==
  ASSUME NEW r \in Seq(Int), NEW h \in Seq(Half), NEW q, q = Len(h),
         NEW d, Split(d, h), Heads(r, d), NEW len \in Nat, len >= 9, len <= Len(r)
  PROVE  readMultipleRegistersParser(SubSeq(r, 1, len)) =
           [i \in 1..2 * q |->
              IF i > len - 9 THEN 0
              ELSE IF i % 2 = 1 THEN h[(i + 1) \div 2] \div 256 ELSE h[i \div 2] % 256]
<1>1. /\ d \in Seq(Int) /\ Len(d) = 2 * q
      /\ \A i \in 1..q : d[2 * i - 1] = h[i] \div 256 /\ d[2 * i] = h[i] % 256
  BY DEF Split
<1>2. q \in Nat
  OBVIOUS
<1> DEFINE G(i) == IF i > len - 9 THEN 0 ELSE d[i]
           O(i) == h[(i + 1) \div 2] \div 256
           E(i) == h[i \div 2] % 256
           H(i) == IF i > len - 9 THEN 0 ELSE IF i % 2 = 1 THEN O(i) ELSE E(i)
<1>3. ASSUME NEW i \in 1..2 * q PROVE d[i] = IF i % 2 = 1 THEN O(i) ELSE E(i)
  <2>1. CASE i % 2 = 1
    <3> DEFINE j == (i + 1) \div 2
    <3>1. j \in 1..q /\ 2 * j - 1 = i
      <4>1. j \in Int /\ 2 * j - 1 = i
        BY <2>1, OddHalf
      <4> HIDE DEF j
      <4> QED BY <1>2, <4>1
    <3> HIDE DEF j
    <3>2. d[i] = h[j] \div 256
      BY <1>1, <3>1, Zenon
    <3> QED BY <2>1, <3>2, Zenon DEF j
  <2>2. CASE i % 2 # 1
    <3> DEFINE j == i \div 2
    <3>1. j \in 1..q /\ 2 * j = i
      BY <1>2, <2>2
    <3> HIDE DEF j
    <3>2. d[i] = h[j] % 256
      BY <1>1, <3>1, Zenon
    <3> QED BY <2>2, <3>2, Zenon DEF j
  <2> QED BY <2>1, <2>2
<1> HIDE DEF O, E
<1>4. ASSUME NEW i \in 1..2 * q PROVE G(i) = H(i)
  <2>1. d[i] = IF i % 2 = 1 THEN O(i) ELSE E(i)
    BY <1>3
  <2>2. CASE i > len - 9
    BY <2>2, Zenon
  <2>3. CASE ~(i > len - 9)
    <3>1. G(i) = d[i]
      BY <2>3, Zenon
    <3>2. H(i) = IF i % 2 = 1 THEN O(i) ELSE E(i)
      BY <2>3, Zenon
    <3> QED BY <2>1, <3>1, <3>2, Zenon
  <2> QED BY <2>2, <2>3
<1>5. readMultipleRegistersParser(SubSeq(r, 1, len)) =
        [i \in 1..Len(d) |-> IF i > len - 9 THEN 0 ELSE d[i]]
  <2>1. d \in Seq(Int)
    BY <1>1
  <2> HIDE DEF G, H
  <2> QED BY <2>1, Parsed
<1> HIDE DEF G, H
<1>6. [i \in 1..2 * q |-> G(i)] = [i \in 1..2 * q |-> H(i)]
  BY <1>4
<1>7. readMultipleRegistersParser(SubSeq(r, 1, len)) = [i \in 1..2 * q |-> G(i)]
  <2>1. Len(d) = 2 * q
    BY <1>1
  <2> QED BY <1>5, <2>1, Zenon DEF G
<1>8. readMultipleRegistersParser(SubSeq(r, 1, len)) = [i \in 1..2 * q |-> H(i)]
  BY <1>6, <1>7, Zenon
<1> QED BY <1>8 DEF H, O, E

\* A byte that has not come has no bits.
LEMMA NoBits == \A n \in 0..7 : bit(0, n) = 0
<1> DEFINE b == [n \in 0..7 |-> 0]
<1>1. Bits(b) /\ octet(b) = 0
  BY DEF Bits, octet
<1>2. \A n \in 0..7 : b[n] = 0
  OBVIOUS
<1> HIDE DEF b
<1> QED BY <1>1, <1>2, OctetBit

\* Coils come back, as far as the reply has come.
LEMMA CoilsBack ==
  ASSUME NEW r \in Seq(Int), NEW h \in Seq(Half), BitsOnly(h), NEW q, q = Len(h),
         Heads(r, Octets(h)), NEW len \in Nat, len >= 9, len <= Len(r)
  PROVE  readCoilsParser(SubSeq(r, 1, len), q) =
           [i \in 1..q |-> IF (i + 7) \div 8 <= len - 9 THEN h[i] ELSE 0]
<1> DEFINE d == Octets(h)
           p == SubSeq(r, 1, len)
           x == readMultipleRegistersParser(p)
           G(i) == coilBit(x, i - 1)
           H(i) == IF (i + 7) \div 8 <= len - 9 THEN h[i] ELSE 0
<1>1. d \in Seq(Int) /\ Len(d) = CoilBytes(q)
  BY OctetsBits
<1>2. \A i \in 0..q - 1 : bit(d[i \div 8 + 1], i % 8) = h[i + 1]
  BY OctetsBits
<1>3. q \in Nat
  OBVIOUS
<1>4. CoilBytes(q) \in Nat /\ 8 * CoilBytes(q) >= q
  BY <1>3 DEF CoilBytes
<1>5. x = [i \in 1..Len(d) |-> IF i > len - 9 THEN 0 ELSE d[i]]
  BY <1>1, Parsed
<1> DEFINE K == CoilBytes(q)
<1>6. x = [i \in 1..K |-> IF i > len - 9 THEN 0 ELSE d[i]]
  BY <1>1, <1>5, Zenon
<1> HIDE DEF d, x, p, K
<1>7. Len(x) = K /\ \A i \in 1..K : x[i] = IF i > len - 9 THEN 0 ELSE d[i]
  BY <1>4, <1>6 DEF K
<1>8. Min({q, 8 * Len(x)}) = q
  <2>1. 8 * Len(x) \in Nat /\ q <= 8 * Len(x)
    BY <1>4, <1>7 DEF K
  <2> DEFINE y == 8 * Len(x)
  <2> HIDE DEF y
  <2>2. Min({q, y}) = q
    BY <1>3, <2>1 DEF Min, y
  <2> QED BY <2>2 DEF y
<1>9. ASSUME NEW i \in 1..q PROVE G(i) = H(i)
  <2> DEFINE k == (i - 1) \div 8 + 1
             n == (i - 1) % 8
  <2>1. k \in 1..K /\ n \in 0..7 /\ k = (i + 7) \div 8 /\ i - 1 \in 0..q - 1 /\ i - 1 + 1 = i
    BY <1>3 DEF K, CoilBytes
  <2>2. G(i) = bit(x[k], n)
    BY Zenon DEF coilBit
  <2>3. bit(d[k], n) = h[i]
    BY <1>2, <2>1
  <2> HIDE DEF k, n, G
  <2>4. x[k] = IF k > len - 9 THEN 0 ELSE d[k]
    BY <1>7, <2>1
  <2>5. CASE k > len - 9
    <3>1. H(i) = 0
      BY <2>1, <2>5
    <3>2. x[k] = 0 /\ bit(0, n) = 0
      BY <2>1, <2>4, <2>5, NoBits
    <3> QED BY <2>2, <3>1, <3>2, Zenon
  <2>6. CASE ~(k > len - 9)
    <3>1. H(i) = h[i]
      BY <2>1, <2>6
    <3>2. x[k] = d[k]
      BY <2>4, <2>6
    <3> QED BY <2>2, <2>3, <3>1, <3>2, Zenon
  <2> QED BY <2>5, <2>6
<1>10. readCoilsParser(p, q) = [i \in 1..q |-> G(i)]
  BY <1>8, Zenon DEF readCoilsParser, x
<1>11. [i \in 1..q |-> G(i)] = [i \in 1..q |-> H(i)]
  <2> HIDE DEF G, H
  <2> QED BY <1>9
<1> QED BY <1>10, <1>11, Zenon DEF p

-----------------------------------------------------------------------------
\* A reply goes through and comes back.

LEMMA BytesAreNumbers == \A s \in Seq(Byte) : s \in Seq(Int)
<1>1. \A x \in Byte : x \in Int
  BY DEF Byte
<1> QED BY <1>1

\* The reply to a read is long enough for its data and holds them.
LEMMA ReplyLaid ==
  ASSUME NEW t \in Int, NEW op \in Operation, Fits(op), op.fc \in {1, 2, 3, 23},
         NEW h, Cells(op, h)
  PROVE  LET f == packetBuilder(t, op)
             d == DataBytes(f, h)
         IN  /\ f[8] = op.fc /\ d \in Seq(Int) /\ Heads(ReplyBytes(f, h), d)
             /\ op.fc \in {1, 2} => d = Octets(h) /\ BitsOnly(h)
             /\ op.fc \notin {1, 2} => Split(d, h)
             /\ Len(ReplyBytes(f, h)) = 9 + DataLength(op)
             /\ ReplyBytes(f, h) \in Seq(Int)
<1> DEFINE f == packetBuilder(t, op)
           d == DataBytes(f, h)
           r == ReplyBytes(f, h)
<1>1. Begins(f, op.fc, op.reference, op.quantity) /\ Len(f) >= 12
  BY FrameHead
<1>2. h \in Seq(Half) /\ Len(h) = op.quantity /\ op.quantity \in Nat
  BY OperationParts DEF Cells, Half
<1> HIDE DEF f
<1>3. f[8] = op.fc /\ f \in Seq(Int)
  <2>1. f[8] = op.fc /\ f \in Seq(Byte)
    BY <1>1, Zenon DEF Begins
  <2> QED BY <2>1, BytesAreNumbers
<1>4. ASSUME op.fc \in {1, 2}
      PROVE  d \in Seq(Int) /\ Len(d) = DataLength(op) /\ d = Octets(h) /\ BitsOnly(h)
  <2>1. BitsOnly(h)
    BY <1>4 DEF Cells, BitsOnly
  <2>2. d = Octets(h)
    BY <1>3, <1>4, DataOfCoils
  <2>3. Octets(h) \in Seq(Int) /\ Len(Octets(h)) = CoilBytes(Len(h))
    BY <1>2, <2>1, OctetsBits
  <2>4. Len(d) = DataLength(op)
    BY <1>2, <1>4, <2>2, <2>3, Zenon DEF DataLength
  <2>5. d \in Seq(Int)
    BY <2>2, <2>3, Zenon
  <2> QED BY <2>1, <2>2, <2>4, <2>5
<1>5. ASSUME op.fc \notin {1, 2}
      PROVE  d \in Seq(Int) /\ Len(d) = DataLength(op) /\ Split(d, h)
  <2>1. d = FlattenSeq([k \in DOMAIN h |-> <<h[k] \div 256, h[k] % 256>>])
    BY <1>3, <1>5, DataOfRegisters
  <2>2. Split(d, h)
    BY <1>2, <2>1, WordPairs, Zenon
  <2> HIDE DEF d
  <2>3. Len(d) = 2 * Len(h) /\ d \in Seq(Int)
    BY <2>2, Zenon DEF Split
  <2>4. DataLength(op) = 2 * op.quantity
    BY <1>5, Zenon DEF DataLength
  <2>5. Len(d) = DataLength(op)
    BY <1>2, <2>3, <2>4, Zenon
  <2> QED BY <2>2, <2>3, <2>5
<1>6. d \in Seq(Int) /\ Len(d) = DataLength(op)
  BY <1>4, <1>5
<1>7. r \in Seq(Int) /\ Heads(r, d)
  <2>1. f[8] \notin {6, 15, 16}
    BY <1>3
  <2>2. Len(f) >= 12
    BY <1>1
  <2> QED BY <1>3, <1>6, <2>1, <2>2, ReplyHeads
<1>9. Len(r) = 9 + DataLength(op)
  BY <1>6, <1>7, Zenon DEF Heads
<1> HIDE DEF d, r
<1> QED BY <1>3, <1>4, <1>5, <1>6, <1>7, <1>9, Zenon DEF f, d, r

\* Without bytes there are no coils.
LEMMA NoCoils ==
  ASSUME NEW p, NEW q \in Nat, readMultipleRegistersParser(p) = <<>>
  PROVE  readCoilsParser(p, q) = <<>>
<1> DEFINE x == readMultipleRegistersParser(p)
           m == Min({q, 8 * Len(x)})
<1>1. 8 * Len(x) = 0
  BY SMT
<1>2. Min({q, 0}) = 0
  BY DEF Min
<1>3. m = 0
  BY <1>1, <1>2, Zenon
<1>4. readCoilsParser(p, q) = [di \in 1..m |-> coilBit(x, di - 1)]
  BY Zenon DEF readCoilsParser
<1> HIDE DEF m, x
<1> QED BY <1>3, <1>4

\* What has been read out comes back from the parser.
LEMMA ReadBack ==
  ASSUME NEW t \in Int, NEW op \in Operation, Fits(op), op.fc \in {1, 2, 3, 23},
         NEW h, Cells(op, h), NEW len \in Nat, len >= 8, len <= 9 + DataLength(op)
  PROVE  parser(SubSeq(ReplyBytes(packetBuilder(t, op), h), 1, len), op) =
           Expected(op, h, len)
<1> DEFINE f == packetBuilder(t, op)
           d == DataBytes(f, h)
           r == ReplyBytes(f, h)
           p == SubSeq(r, 1, len)
<1>1. /\ d \in Seq(Int) /\ Heads(r, d) /\ r \in Seq(Int) /\ Len(r) = 9 + DataLength(op)
      /\ op.fc \in {1, 2} => d = Octets(h) /\ BitsOnly(h)
      /\ op.fc \notin {1, 2} => Split(d, h)
  BY ReplyLaid
<1>2. h \in Seq(Half) /\ Len(h) = op.quantity /\ op.quantity \in Nat
  BY OperationParts DEF Cells, Half
<1> HIDE DEF f, d, r
<1>3. op.fc \in {1, 2} => parser(p, op) = readCoilsParser(p, op.quantity)
  BY DEF parser, readInputDiscretesParser
<1>4. op.fc \notin {1, 2} => parser(p, op) = readMultipleRegistersParser(p)
  BY DEF parser, readWriteRegistersParser
<1>5. CASE len < 9
  <2>1. len = 8 /\ 8 <= Len(r)
    BY <1>1, <1>5
  <2>2. readMultipleRegistersParser(p) = <<>>
    BY <1>1, <2>1, ParsedNothing
  <2> HIDE DEF p
  <2>3. readCoilsParser(p, op.quantity) = <<>>
    BY <1>2, <2>2, NoCoils
  <2>4. Expected(op, h, len) = <<>>
    BY <1>5, Zenon DEF Expected
  <2>5. parser(p, op) = <<>>
    BY <1>3, <1>4, <2>2, <2>3, Zenon
  <2> QED BY <2>4, <2>5, Zenon DEF p, r, f
<1>6. CASE ~(len < 9)
  <2>0. len >= 9 /\ len <= Len(r)
    BY <1>1, <1>6
  <2>1. CASE op.fc \in {1, 2}
    <3>1. Heads(r, Octets(h)) /\ BitsOnly(h)
      BY <1>1, <2>1, Zenon
    <3>2. readCoilsParser(p, op.quantity) =
            [i \in 1..op.quantity |-> IF (i + 7) \div 8 <= len - 9 THEN h[i] ELSE 0]
      BY <1>1, <1>2, <2>0, <3>1, CoilsBack
    <3>3. Expected(op, h, len) =
            [i \in 1..op.quantity |-> IF (i + 7) \div 8 <= len - 9 THEN h[i] ELSE 0]
      BY <1>6, <2>1, Zenon DEF Expected
    <3> QED BY <1>3, <2>1, <3>2, <3>3, Zenon DEF p, r, f
  <2>2. CASE op.fc \notin {1, 2}
    <3> DEFINE w == [i \in 1..2 * op.quantity |->
                       IF i > len - 9 THEN 0
                       ELSE IF i % 2 = 1 THEN h[(i + 1) \div 2] \div 256 ELSE h[i \div 2] % 256]
    <3>1. Split(d, h)
      BY <1>1, <2>2, Zenon
    <3>2. readMultipleRegistersParser(p) = w
      BY <1>1, <1>2, <2>0, <3>1, RegistersBack
    <3>3. Expected(op, h, len) = w
      BY <1>6, <2>2 DEF Expected
    <3> HIDE DEF w
    <3> QED BY <1>4, <2>2, <3>2, <3>3, Zenon DEF p, r, f
  <2> QED BY <2>1, <2>2
<1> QED BY <1>5, <1>6

-----------------------------------------------------------------------------
\* The device's memory, and what it reads out.

\* The memories that the device can have.
Bit == {0, 1}
CoilCells == [Coils -> Bit]
RegisterCells == [Registers -> Half]
Memory == [coil : CoilCells, register : RegisterCells]

\* The words written are numbers of 16 bits.
LEMMA WordsTyped ==
  ASSUME NEW op \in Operation, Fits(op)
  PROVE  WrittenWords(op) \in Seq(Half)
<1>1. CASE op.fc = 6
  <2> DEFINE x == DWord(op.data[1].value).lo
  <2>1. x \in Half
    <3>1. LET f == packetBuilder(0, op)
          IN  word(f, 11) \in Half /\ word(f, 11) = DWord(op.data[1].value).lo
      BY <1>1, SingleFrame
    <3> QED BY <3>1
  <2>2. WrittenWords(op) = <<x>>
    BY <1>1 DEF WrittenWords
  <2> HIDE DEF x
  <2> QED BY <2>1, <2>2
<1>2. CASE op.fc # 6
  BY <1>2, DataBytesLaid DEF WrittenWords
<1> QED BY <1>1, <1>2

\* A write leaves a memory.
LEMMA MeantTyped ==
  ASSUME NEW m \in Memory, NEW op \in Operation, Fits(op)
  PROVE  Meant(op, m) \in Memory
<1>0. m.coil \in CoilCells /\ m.register \in RegisterCells
  BY DEF Memory
<1>1. CASE op.fc = 15
  <2> DEFINE c == [a \in Coils |->
             IF a - op.reference + 1 \in DOMAIN op.coils
             THEN IF op.coils[a - op.reference + 1] THEN 1 ELSE 0
             ELSE m.coil[a]]
  <2>1. Meant(op, m) = [m EXCEPT !.coil = c]
    BY <1>1, Zenon DEF Meant
  <2>2. c \in CoilCells
    BY <1>0 DEF CoilCells, Bit
  <2> HIDE DEF c
  <2> QED BY <2>1, <2>2 DEF Memory
<1>2. CASE op.fc # 15
  <2> DEFINE first == IF op.fc = 23 THEN op.referenceWrite ELSE op.reference
             w == WrittenWords(op)
             c == [a \in Registers |-> IF a - first + 1 \in DOMAIN w THEN w[a - first + 1]
                                       ELSE m.register[a]]
  <2>1. Meant(op, m) = Filled(m, first, w)
    BY <1>2, MeantWords
  <2>2. w \in Seq(Half)
    BY WordsTyped
  <2> HIDE DEF w, first
  <2>3. Filled(m, first, w) = [m EXCEPT !.register = c]
    BY Zenon DEF Filled
  <2>4. c \in RegisterCells
    BY <1>0, <2>2 DEF RegisterCells
  <2> HIDE DEF c
  <2>5. [m EXCEPT !.register = c] \in Memory
    BY <2>4 DEF Memory
  <2> QED BY <2>1, <2>3, <2>5, Zenon
<1> QED BY <1>1, <1>2

\* A range of cells that there are.
LEMMA CellsRead ==
  ASSUME NEW A, NEW T, NEW cells \in [A -> T], NEW first \in Nat, NEW n \in Nat,
         first..first + n - 1 \subseteq A
  PROVE  LET h == [i \in 1..n |-> cells[first + i - 1]]
         IN  h \in Seq(T) /\ Len(h) = n
<1>1. ASSUME NEW i \in 1..n PROVE cells[first + i - 1] \in T
  <2>1. first + i - 1 \in first..first + n - 1
    OBVIOUS
  <2>2. first + i - 1 \in A
    BY <2>1
  <2> QED BY <2>2
<1> QED BY <1>1

\* What the device reads out is cells of its memory, as many as asked for.
LEMMA ReadOutCells ==
  ASSUME NEW t \in Int, NEW op \in Operation, Fits(op), op.fc \in {1, 2, 3, 23},
         Has(packetBuilder(t, op)), NEW m \in Memory
  PROVE  Cells(op, ReadOut(packetBuilder(t, op), m))
<1> DEFINE f == packetBuilder(t, op)
           q == op.quantity
           h == ReadOut(f, m)
           from(cells) == [i \in 1..q |-> cells[op.reference + i - 1]]
<1>0. m.coil \in CoilCells /\ m.register \in RegisterCells
  BY DEF Memory
<1>1. op.reference \in Nat /\ q \in Nat
  BY OperationParts DEF Half
<1>2. Begins(f, op.fc, op.reference, q)
  BY FrameHead
<1> HIDE DEF f, h
<1>3. f[8] = op.fc /\ word(f, 9) = op.reference /\ word(f, 11) = q
  BY <1>2 DEF Begins
<1>4. Has(f)
  BY DEF f
<1>5. CASE op.fc \in {1, 2}
  <2>1. op.reference..op.reference + q - 1 \subseteq Coils
    BY <1>3, <1>4, <1>5 DEF Has
  <2>2. h = from(m.coil)
    <3>1. f[8] \in {1, 2}
      BY <1>3, <1>5
    <3>2. ReadOut(f, m) = [i \in 1..word(f, 11) |-> m.coil[word(f, 9) + i - 1]]
      BY <3>1 DEF ReadOut
    <3> QED BY <1>3, <3>2, Zenon DEF h
  <2>3. h \in Seq(Bit) /\ Len(h) = q
    <3> HIDE DEF q
    <3>1. m.coil \in [Coils -> Bit]
      BY <1>0 DEF CoilCells
    <3>2. from(m.coil) \in Seq(Bit) /\ Len(from(m.coil)) = q
      BY <1>1, <2>1, <3>1, CellsRead
    <3> QED BY <2>2, <3>2, Zenon
  <2>4. \A b \in Bit : b \in Half /\ (b = 0 \/ b = 1)
    BY DEF Bit, Half, Short
  <2>5. h \in Seq(Half) /\ \A i \in 1..Len(h) : h[i] = 0 \/ h[i] = 1
    BY <2>3, <2>4
  <2> QED BY <2>3, <2>5 DEF Cells, h, f
<1>6. CASE op.fc \notin {1, 2}
  <2>1. op.reference..op.reference + q - 1 \subseteq Registers
    BY <1>3, <1>4, <1>6 DEF Has
  <2>2. h = from(m.register)
    BY <1>3, <1>6 DEF ReadOut, h
  <2>3. h \in Seq(Half) /\ Len(h) = q
    <3> HIDE DEF q
    <3>1. m.register \in [Registers -> Half]
      BY <1>0 DEF RegisterCells
    <3>2. from(m.register) \in Seq(Half) /\ Len(from(m.register)) = q
      BY <1>1, <2>1, <3>1, CellsRead
    <3> QED BY <2>2, <3>2, Zenon
  <2> QED BY <1>6, <2>3 DEF Cells, h, f
<1> QED BY <1>5, <1>6

-----------------------------------------------------------------------------
\* What every answer tells, wherever it is.

\* The functions that read.
ReadCodes == {1, 2, 3, 23}

\* What p, as an answer, has of the operations ops and the reads h.
Tells(p, ops, h) ==
  p.reply = "normal" =>
    /\ p.call \in 1..Len(ops) /\ p.call \in DOMAIN h
    /\ ops[p.call].fc \in ReadCodes =>
         Cells(ops[p.call], h[p.call]) /\ p.len <= 9 + DataLength(ops[p.call])

\* A later call, or a later reading, changes no answer.
Grows(ops, h, opsNext, hNext) ==
  /\ Len(ops) \in Nat /\ Len(opsNext) \in Nat /\ Len(ops) <= Len(opsNext)
  /\ \A c \in 1..Len(ops) :
       /\ opsNext[c] = ops[c]
       /\ c \in DOMAIN h =>
            /\ c \in DOMAIN hNext
            /\ hNext[c] = h[c] \/ (ops[c].fc \in ReadCodes => Cells(ops[c], hNext[c]))

\* What an answer tells stays true.
LEMMA TellsOn ==
  ASSUME NEW ops, NEW h, NEW opsNext, NEW hNext, Grows(ops, h, opsNext, hNext),
         NEW p, Tells(p, ops, h)
  PROVE  Tells(p, opsNext, hNext)
<1> SUFFICES ASSUME p.reply = "normal"
             PROVE  /\ p.call \in 1..Len(opsNext) /\ p.call \in DOMAIN hNext
                    /\ opsNext[p.call].fc \in ReadCodes =>
                         /\ Cells(opsNext[p.call], hNext[p.call])
                         /\ p.len <= 9 + DataLength(opsNext[p.call])
  BY Zenon DEF Tells
<1> DEFINE c == p.call
<1>1. c \in DOMAIN h /\ c \in 1..Len(ops) /\ Len(ops) \in Nat /\ Len(opsNext) \in Nat /\ Len(ops) <= Len(opsNext)
  BY DEF Tells, Grows
<1>2. ops[c].fc \in ReadCodes => Cells(ops[c], h[c]) /\ p.len <= 9 + DataLength(ops[c])
  BY Zenon DEF Tells
<1>3. /\ opsNext[c] = ops[c] /\ c \in DOMAIN hNext
      /\ hNext[c] = h[c] \/ (ops[c].fc \in ReadCodes => Cells(ops[c], hNext[c]))
  BY <1>1, Zenon DEF Grows
<1>4. c \in 1..Len(opsNext)
  BY <1>1
<1> HIDE DEF c
<1>5. opsNext[c].fc \in ReadCodes =>
        Cells(opsNext[c], hNext[c]) /\ p.len <= 9 + DataLength(opsNext[c])
  BY <1>2, <1>3, Zenon
<1> QED BY <1>3, <1>4, <1>5, Zenon DEF c

\* What the device has read out, with one call more.
ReadFor(c, out) == [d \in DOMAIN held \union {c} |-> IF d = c THEN out ELSE held[d]]

\* The device's memory is one, and what is on its way or has been taken tells
\* what was read out for its call.
Answers ==
  /\ memory \in Memory
  /\ \A c \in Calls : \A i \in 1..Len(incoming[c]) : Tells(incoming[c][i], operations, held)
  /\ Tells(packet, operations, held)
  /\ Tells(result.packet, operations, held)

LEMMA NothingTold == \A ops, h : Tells(Null, ops, h)
  BY DEF Tells, Null

\* One conjunct at a time: the memory, the segments on their way, the packet
\* taken and the result.
LEMMA AnswersStep ==
  ASSUME Answers, Called, TypeOK, SocketOwn, [XNext]_xvars
  PROVE  Answers'
<1> USE DEF request, device, data
<1>0. call \in Nat /\ Len(operations) = call /\ operations \in Seq(Operations)
  BY ModbusAssumption DEF TypeOK, Called
<1>1. ASSUME NEW r \in requests, NEW s \in Segment, XReply(r, s), s.reply = "normal"
      PROVE  LET op == operations[r.call]
                 now == Performed(Frame(r.call), memory)
                 out == ReadOut(Frame(r.call), now)
             IN  /\ r.call \in 1..call /\ r.call \in Calls
                 /\ memory' = now /\ now \in Memory
                 /\ held' = ReadFor(r.call, out)
                 /\ op.fc \in ReadCodes => Cells(op, out) /\ s.len <= 9 + DataLength(op)
  <2> DEFINE c == r.call
             op == operations[c]
             f == packetBuilder(c, op)
             now == Performed(f, memory)
             out == ReadOut(f, now)
  <2>1. /\ Has(f) /\ s.len <= Len(ReplyBytes(f, out)) /\ memory' = now
        /\ held' = ReadFor(c, out)
    BY <1>1 DEF XReply, Frame, ReadFor
  <2>2. c \in 1..call /\ c \in Calls /\ c \in Int
    BY <1>0 DEF Called, TypeOK
  <2>3. op \in Operation /\ Fits(op)
    BY <2>2, CallFits
  <2>4. now \in Memory
    <3>1. memory \in Memory
      BY DEF Answers
    <3>2. CASE op.fc \in {1, 2, 3}
      BY <2>2, <2>3, <3>1, <3>2, ReadsLeave
    <3>3. CASE op.fc \notin {1, 2, 3}
      <4>1. now = Meant(op, memory)
        BY <2>2, <2>3, <3>3, WriteLands
      <4> HIDE DEF now
      <4> QED BY <2>3, <3>1, <4>1, MeantTyped
    <3> QED BY <3>2, <3>3
  <2>5. ASSUME op.fc \in {1, 2, 3, 23} PROVE Cells(op, out) /\ s.len <= 9 + DataLength(op)
    <3> HIDE DEF now, op
    <3>1. Cells(op, out)
      BY <2>1, <2>2, <2>3, <2>4, <2>5, ReadOutCells
    <3> HIDE DEF out
    <3>2. Len(ReplyBytes(f, out)) = 9 + DataLength(op)
      BY <2>2, <2>3, <2>5, <3>1, ReplyLaid
    <3> QED BY <2>1, <3>1, <3>2, Zenon
  <2> HIDE DEF c
  <2> QED BY <2>1, <2>2, <2>4, <2>5, Zenon DEF ReadCodes, Frame, c
<1>2. Grows(operations, held, operations', held')
  <2>1. CASE \E op \in Operations : XCall(op)
    <3> PICK op \in Operations : XCall(op)
      BY <2>1
    <3>1. operations' = Append(operations, op) /\ held' = held
      BY DEF XCall
    <3>2. /\ Len(operations') = Len(operations) + 1
          /\ \A i \in 1..Len(operations) : operations'[i] = operations[i]
      BY <1>0, <3>1, OneMore
    <3> QED BY <1>0, <3>1, <3>2 DEF Grows
  <2>2. CASE \E r \in requests, s \in Segment : XReply(r, s)
    <3> PICK r \in requests, s \in Segment : XReply(r, s)
      BY <2>2
    <3>1. operations' = operations
      BY DEF XReply
    <3>2. CASE s.reply # "normal"
      <4>1. held' = held
        BY <3>2 DEF XReply
      <4> QED BY <1>0, <3>1, <4>1 DEF Grows
    <3>3. CASE s.reply = "normal"
      <4> DEFINE out == ReadOut(Frame(r.call), Performed(Frame(r.call), memory))
      <4>1. /\ r.call \in Calls /\ held' = ReadFor(r.call, out)
            /\ operations[r.call].fc \in ReadCodes => Cells(operations[r.call], out)
        BY <1>1, <3>3
      <4> HIDE DEF out
      <4>2. ASSUME NEW c \in 1..call, c \in DOMAIN held
            PROVE  c \in DOMAIN held' /\
                   \/ held'[c] = held[c]
                   \/ operations[c].fc \in ReadCodes => Cells(operations[c], held'[c])
        <5>1. c \in DOMAIN held'
          BY <4>1, <4>2 DEF ReadFor
        <5>2. CASE c = r.call
          <6>1. held'[c] = out
            BY <4>1, <5>2 DEF ReadFor
          <6> QED BY <4>1, <5>1, <5>2, <6>1, Zenon
        <5>3. CASE c # r.call
          BY <4>1, <4>2, <5>1, <5>3 DEF ReadFor
        <5> QED BY <5>2, <5>3
      <4> QED BY <1>0, <3>1, <4>2 DEF Grows
    <3> QED BY <3>2, <3>3
  <2>3. CASE XParseOk \/ XRest \/ UNCHANGED xvars
    <3>1. operations' = operations /\ held' = held
      BY <2>3 DEF XParseOk, XRest, xvars
    <3> QED BY <1>0, <3>1 DEF Grows
  <2> QED BY <2>1, <2>2, <2>3 DEF XNext
<1>3. \A p : Tells(p, operations, held) => Tells(p, operations', held')
  BY <1>2, TellsOn
<1>4. memory' \in Memory
  <2>1. CASE \E r \in requests, s \in Segment : XReply(r, s)
    <3> PICK r \in requests, s \in Segment : XReply(r, s)
      BY <2>1
    <3>1. CASE s.reply = "normal"
      BY <1>1, <3>1
    <3>2. CASE s.reply # "normal"
      BY <3>2 DEF XReply, Answers
    <3> QED BY <3>1, <3>2
  <2>2. CASE ~(\E r \in requests, s \in Segment : XReply(r, s))
    BY <2>2 DEF XNext, XCall, XParseOk, XRest, xvars, Answers
  <2> QED BY <2>1, <2>2
<1>5. ASSUME NEW c \in Calls, NEW i \in 1..Len(incoming'[c])
      PROVE  Tells(incoming'[c][i], operations', held')
  <2>0. incoming[c] \in Seq(Segment) /\ incoming \in [Calls -> Seq(Segment)]
    BY DEF TypeOK
  <2>1. CASE \E r \in requests, s \in Segment : XReply(r, s)
    <3> PICK r \in requests, s \in Segment : XReply(r, s)
      BY <2>1
    <3>1. CASE incoming'[c] = incoming[c]
      BY <1>3, <3>1 DEF Answers
    <3>2. CASE incoming'[c] # incoming[c]
      <4>1. incoming' = [incoming EXCEPT ![r.sock] = Append(@, s)] /\ s.call = r.call
        BY <3>2 DEF XReply, Reply
      <4>2. r.sock = c /\ incoming'[c] = Append(incoming[c], s)
        BY <2>0, <3>2, <4>1
      <4>3. CASE i \in 1..Len(incoming[c])
        <5>1. incoming'[c][i] = incoming[c][i]
          BY <2>0, <4>2, <4>3, OneMore
        <5> QED BY <1>3, <4>3, <5>1 DEF Answers
      <4>4. CASE i \notin 1..Len(incoming[c])
        <5>1. incoming'[c][i] = s
          BY <2>0, <4>2, <4>4
        <5>2. CASE s.reply # "normal"
          BY <5>1, <5>2 DEF Tells
        <5>3. CASE s.reply = "normal"
          <6> DEFINE out == ReadOut(Frame(r.call), Performed(Frame(r.call), memory))
          <6>1. /\ r.call \in 1..call /\ r.call \in Calls
                /\ held' = ReadFor(r.call, out)
                /\ operations[r.call].fc \in ReadCodes =>
                     Cells(operations[r.call], out) /\ s.len <= 9 + DataLength(operations[r.call])
            BY <1>1, <5>3
          <6> HIDE DEF out
          <6>2. operations' = operations
            BY DEF XReply
          <6>3. r.call \in DOMAIN held' /\ held'[r.call] = out
            BY <6>1 DEF ReadFor
          <6>4. s.call \in 1..Len(operations') /\ s.call \in DOMAIN held'
            BY <1>0, <4>1, <6>1, <6>2, <6>3
          <6>5. operations'[s.call].fc \in ReadCodes =>
                  /\ Cells(operations'[s.call], held'[s.call])
                  /\ s.len <= 9 + DataLength(operations'[s.call])
            BY <4>1, <6>1, <6>2, <6>3, Zenon
          <6> QED BY <5>1, <6>4, <6>5, Zenon DEF Tells
        <5> QED BY <5>2, <5>3
      <4> QED BY <4>3, <4>4
    <3> QED BY <3>1, <3>2
  <2>2. CASE RecvData
    <3>1. incoming' = [incoming EXCEPT ![sock] = Tail(@)] /\ incoming[sock] # <<>>
      BY <2>2 DEF RecvData
    <3>2. CASE c # sock
      <4>1. incoming'[c] = incoming[c]
        BY <2>0, <3>1, <3>2
      <4> QED BY <1>3, <4>1 DEF Answers
    <3>3. CASE c = sock
      <4>1. incoming'[c] = Tail(incoming[c])
        BY <2>0, <3>1, <3>3
      <4>2. incoming'[c][i] = incoming[c][i + 1] /\ i + 1 \in 1..Len(incoming[c])
        BY <2>0, <3>1, <3>3, <4>1, FirstSegment
      <4> QED BY <1>3, <4>2 DEF Answers
    <3> QED BY <3>2, <3>3
  <2>3. CASE ~(\E r \in requests, s \in Segment : XReply(r, s)) /\ ~RecvData
    <3>1. incoming' = incoming
      BY <2>3 DEF XNext, XCall, Call, XParseOk, ParseOk, XRest, ConnectOk, ConnectFails, Send,
         RecvNothing, WaitMore, Watchdog, SelectFails, ParseFails, Throw, Tick, Stop,
         PeerCloses, xvars, vars
    <3> QED BY <1>3, <3>1 DEF Answers
  <2> QED BY <2>1, <2>2, <2>3
<1>6. Tells(packet', operations', held')
  <2>1. packet' = packet \/ packet' = Null \/ RecvData
    BY DEF XNext, XCall, Call, XReply, Reply, XParseOk, ParseOk, XRest, ConnectOk, ConnectFails,
       Send, RecvNothing, WaitMore, Watchdog, SelectFails, ParseFails, Throw, Tick, Stop,
       PeerCloses, xvars, vars
  <2>2. CASE RecvData
    <3>1. sock \in Calls /\ packet' = Head(incoming[sock]) /\ incoming[sock] # <<>>
      BY <2>2 DEF RecvData, SocketOwn
    <3>2. packet' = incoming[sock][1] /\ 1 \in 1..Len(incoming[sock])
      BY <3>1, FirstSegment DEF TypeOK
    <3> QED BY <1>3, <3>1, <3>2 DEF Answers
  <2> QED BY <1>3, <2>1, <2>2, NothingTold DEF Answers
<1>7. Tells(result'.packet, operations', held')
  <2>1. result'.packet = result.packet \/ result'.packet = Null \/ result'.packet = packet
    <3>1. ASSUME NEW r, NEW s, XReply(r, s) PROVE result' = result
      BY <3>1 DEF XReply, Reply
    <3> QED BY <3>1 DEF XNext, XCall, Call, XParseOk, ParseOk, XRest, ConnectOk, ConnectFails,
       Send, RecvData, RecvNothing, WaitMore, Watchdog, SelectFails, ParseFails, Throw, Tick, Stop,
       PeerCloses, xvars, vars, NoResult
  <2> QED BY <1>3, <2>1, NothingTold DEF Answers
<1> QED BY <1>4, <1>5, <1>6, <1>7 DEF Answers

LEMMA AnswersCorrect == XSpec => []Answers
<1>1. XInit => Answers
  <2> SUFFICES ASSUME XInit PROVE Answers
    OBVIOUS
  <2>1. memory \in Memory
    <3> DEFINE c == [a \in Coils |-> 0]
               g == [a \in Registers |-> 0]
    <3>1. c \in CoilCells /\ g \in RegisterCells
      BY DEF CoilCells, RegisterCells, Bit, Half, Short
    <3>2. memory = [coil |-> c, register |-> g]
      BY DEF XInit
    <3> HIDE DEF c, g
    <3> QED BY <3>1, <3>2 DEF Memory
  <2>2. /\ incoming = [c \in Calls |-> <<>>]
        /\ packet = Null /\ result.packet = Null
    BY DEF XInit, Init, NoResult
  <2>3. \A c \in Calls : \A i \in 1..Len(incoming[c]) : Tells(incoming[c][i], operations, held)
    BY <2>2
  <2> QED BY <2>1, <2>2, <2>3, NothingTold DEF Answers
<1>2. XSpec => [](TypeOK /\ SocketOwn)
  BY ExchangeImplements, TypesAndSocket, PTL
<1> QED BY <1>1, <1>2, CalledCorrect, AnswersStep, PTL DEF XSpec

\* What a read returns is what the device has read out for it.
LEMMA ReadReturned ==
  ASSUME Answers, Called, TypeOK, SuccessIsOwn, ReadDone
  PROVE  /\ operations[Answered] \in Operation /\ Cells(operations[Answered], held[Answered])
         /\ result.packet.len \in Nat
         /\ Returned = Expected(operations[Answered], held[Answered], result.packet.len)
<1> DEFINE c == Answered
           op == operations[c]
           h == held[c]
           len == result.packet.len
<1>1. result.is = "ok" /\ len >= 8 /\ op.fc \in ReadCodes
  BY DEF ReadDone, ReadCodes
<1>2. c = call /\ result.packet.reply = "normal"
  BY <1>1 DEF SuccessIsOwn, Answered
<1>3. c \in 1..call /\ Cells(op, h) /\ len <= 9 + DataLength(op)
  <2>1. Tells(result.packet, operations, held) /\ Len(operations) = call
    BY DEF Answers, Called
  <2> HIDE DEF len
  <2>2. c \in 1..Len(operations) /\ Cells(op, h) /\ result.packet.len <= 9 + DataLength(op)
    BY <1>1, <1>2, <2>1, Zenon DEF Tells, Answered
  <2> QED BY <2>1, <2>2 DEF len
<1>4. op \in Operation /\ Fits(op) /\ c \in Int
  BY <1>3, CallFits
<1>5. len \in Nat
  <2>1. result.packet \in Packets
    BY DEF TypeOK
  <2>2. \A p \in Packets : p.len \in Nat
    <3>1. \A p \in Segment : p.len \in Lengths
      BY DEF Segment
    <3>2. \A n \in Lengths : n \in Nat
      BY ModbusAssumption
    <3>3. Null.len \in Nat
      BY DEF Null
    <3> QED BY <3>1, <3>2, <3>3, Zenon DEF Packets
  <2> QED BY <2>1, <2>2
<1>6. parser(SubSeq(ReplyBytes(packetBuilder(c, op), h), 1, len), op) = Expected(op, h, len)
  <2> HIDE DEF c, op, h, len
  <2>1. op.fc \in {1, 2, 3, 23}
    BY <1>1 DEF ReadCodes
  <2> QED BY <1>1, <1>3, <1>4, <1>5, <2>1, ReadBack
<1> QED BY <1>3, <1>4, <1>5, <1>6 DEF Returned, Frame

\* A read that succeeds returns what the device has read out.
THEOREM ReadsRightCorrect == XSpec => []ReadsRight
<1>1. Answers /\ Called /\ TypeOK /\ SuccessIsOwn => ReadsRight
  <2> SUFFICES ASSUME Answers, Called, TypeOK, SuccessIsOwn, ReadDone
               PROVE  Returned = Expected(operations[Answered], held[Answered], result.packet.len)
    BY Zenon DEF ReadsRight, Expected
  <2> QED BY ReadReturned
<1>2. XSpec => [](TypeOK /\ SuccessIsOwn)
  BY ExchangeImplements, TypeCorrect, SuccessIsOwnCorrect, PTL
<1> QED BY <1>1, <1>2, AnswersCorrect, CalledCorrect, PTL

-----------------------------------------------------------------------------
\* The values: strings and numbers made of what has been read.

\* Numbers up to N have a largest one.
LEMMA Largest ==
  ASSUME NEW N \in Nat, NEW S, S \subseteq 0..N, 0 \in S
  PROVE  \E n \in S : \A k \in S : k <= n
<1> DEFINE T == {N - n : n \in S}
<1>1. T \subseteq Nat /\ T # {}
  BY SMT
<1> HIDE DEF T
<1>2. PICK x \in T : \A y \in T : ~(y < x)
  BY <1>1, NatMin
<1>3. PICK n \in S : x = N - n
  BY <1>2 DEF T
<1>4. ASSUME NEW k \in S PROVE k <= n
  <2>1. N - k \in T
    BY DEF T
  <2>2. ~(N - k < N - n)
    BY <1>2, <1>3, <2>1
  <2> QED BY <2>2
<1> QED BY <1>4

\* A string ends before the first zero byte.
LEMMA StringEnds ==
  ASSUME NEW v \in Seq(Int)
  PROVE  LET string == bytes2string(v, 1)
         IN  /\ IsPrefix(string, v) /\ \A i \in DOMAIN string : string[i] # 0
             /\ string # v => v[Len(string) + 1] = 0
<1> DEFINE ends == {n \in 0..Len(v) : \A i \in 1..n : v[i] # 0}
           m == CHOOSE n \in ends : \A k \in ends : k <= n
           string == bytes2string(v, 1)
           place(i) == IF 1 # 0 THEN i ELSE IF i % 2 = 1 THEN i + 1 ELSE i - 1
           char == [i \in 1..Len(v) |-> IF place(i) \in DOMAIN v THEN v[place(i)] ELSE 0]
<1>1. Len(v) \in Nat /\ DOMAIN v = 1..Len(v)
  OBVIOUS
<1>2. char = v
  <2>1. \A i : place(i) = i
    OBVIOUS
  <2> HIDE DEF place
  <2> QED BY <1>1, <2>1
<1>3. string = SubSeq(char, 1, CHOOSE n \in {x \in 0..Len(v) : \A i \in 1..x : char[i] # 0} :
                 \A k \in {x \in 0..Len(v) : \A i \in 1..x : char[i] # 0} : k <= n)
  BY Zenon DEF bytes2string
<1> HIDE DEF char
<1>4. string = SubSeq(v, 1, m)
  BY <1>2, <1>3, Zenon
<1>5. ends \subseteq 0..Len(v) /\ 0 \in ends
  BY <1>1
<1>6. m \in ends /\ \A k \in ends : k <= m
  <2> HIDE DEF ends
  <2>1. \E n \in ends : \A k \in ends : k <= n
    BY <1>1, <1>5, Largest
  <2> QED BY <2>1, Zenon
<1> HIDE DEF m, string
<1>7. m \in 0..Len(v) /\ \A i \in 1..m : v[i] # 0
  BY <1>6
<1>8. Len(string) = m /\ string \in Seq(Int) /\ \A i \in 1..m : string[i] = v[i]
  BY <1>4, <1>7
<1>9. IsPrefix(string, v)
  <2>1. \A s \in Seq(Int) : SubSeq(s, 1, Len(s)) = s
    OBVIOUS
  <2>2. SubSeq(string, 1, Len(string)) = SubSeq(v, 1, Len(string))
    BY <1>4, <1>8, <2>1, Zenon
  <2>3. Len(string) <= Len(v)
    BY <1>1, <1>7, <1>8
  <2> QED BY <2>2, <2>3, Zenon DEF IsPrefix
<1>10. \A i \in DOMAIN string : string[i] # 0
  <2>1. DOMAIN string = 1..m
    BY <1>8
  <2> QED BY <1>7, <1>8, <2>1, Zenon
<1>11. ASSUME string # v PROVE v[m + 1] = 0
  <2>1. m # Len(v)
    BY <1>4, <1>11
  <2>2. m + 1 \in 0..Len(v) /\ m + 1 \notin ends
    BY <1>6, <1>7, <2>1
  <2>3. PICK i \in 1..m + 1 : v[i] = 0
    BY <2>2
  <2>4. i = m + 1
    BY <1>7, <2>3
  <2> QED BY <2>3, <2>4
<1> QED BY <1>8, <1>9, <1>10, <1>11 DEF string

\* The number of 16 bits that a word stands for.
LEMMA SignedWord ==
  ASSUME NEW v \in Int, -32768 <= v, v <= 32767, NEW w, w = v % 65536
  PROVE  w \in Int /\ 0 <= w /\ v = IF w >= 32768 THEN w - 65536 ELSE w
<1>1. CASE v >= 0
  <2>1. v % 65536 = v
    BY <1>1
  <2> QED BY <1>1, <2>1
<1>2. CASE v < 0
  <2>1. v % 65536 = v + 65536
    BY <1>2
  <2> QED BY <1>2, <2>1
<1> QED BY <1>1, <1>2

\* A number cut in two, at the bytes or at the words.
ByteCut(n, a, b) == n \in Int /\ a = n \div 256 /\ b = n % 256

LEMMA BytesJoin == ASSUME NEW n, NEW a, NEW b, ByteCut(n, a, b) PROVE a * 256 + b = n
<1>1. n \in Int /\ a = n \div 256 /\ b = n % 256
  BY DEF ByteCut
<1> QED BY <1>1

HalfCut(n, a, b) == n \in Int /\ a = n \div 65536 /\ b = n % 65536

LEMMA HalvesJoin == ASSUME NEW n, NEW a, NEW b, HalfCut(n, a, b) PROVE a * 65536 + b = n
<1>1. n \in Int /\ a = n \div 65536 /\ b = n % 65536
  BY DEF HalfCut
<1> QED BY <1>1

\* v is the bytes of n numbers of 16 bits.
LEMMA SplitWord ==
  ASSUME NEW v, NEW h \in Seq(Half), Split(v, h), NEW i \in 1..Len(h)
  PROVE  v[2 * i - 1] * 256 + v[2 * i] = h[i]
<1>1. h[i] \in Int
  BY DEF Half
<1>2. v[2 * i - 1] = h[i] \div 256 /\ v[2 * i] = h[i] % 256
  BY DEF Split
<1> DEFINE n == h[i]
           a == v[2 * i - 1]
           b == v[2 * i]
<1>3. n \in Int /\ a = n \div 256 /\ b = n % 256
  BY <1>1, <1>2
<1> HIDE DEF n, a, b
<1>4. ByteCut(n, a, b)
  BY <1>3 DEF ByteCut
<1>5. a * 256 + b = n
  BY <1>4, BytesJoin
<1> QED BY <1>5 DEF n, a, b

\* The bytes v are those of the word w, or of the words lo and hi.
OneWord(v, w) == v \in Seq(Int) /\ Len(v) = 2 /\ v[1] * 256 + v[2] = w

TwoWords(v, lo, hi) ==
  v \in Seq(Int) /\ Len(v) = 4 /\ v[1] * 256 + v[2] = lo /\ v[3] * 256 + v[4] = hi

\* Two bytes are filled up to the word they make.
LEMMA Padded ==
  ASSUME NEW v, NEW w, OneWord(v, w)
  PROVE  checkData(v) = v \o <<0, 0>> /\ combineBytes(checkData(v), 0) = [hi |-> 0, lo |-> w]
<1>1. v \in Seq(Int) /\ Len(v) = 2 /\ v[1] * 256 + v[2] = w
  BY DEF OneWord
<1> DEFINE z == <<0, 0>>
           d == v \o z
<1>2. checkData(v) = d
  BY <1>1 DEF checkData
<1>3. z \in Seq(Int) /\ Len(z) = 2 /\ z[1] = 0 /\ z[2] = 0
  OBVIOUS
<1> HIDE DEF z
<1>4. Follows(d, v, z, Int)
  BY <1>1, <1>3, ConcatFollows
<1> HIDE DEF d
<1>5. /\ \A i \in 1..Len(v) : d[i] = v[i]
      /\ \A i \in 1..Len(z) : d[Len(v) + i] = z[i]
  BY <1>4, Zenon DEF Follows
<1>6. d[1] = v[1] /\ d[2] = v[2] /\ d[3] = 0 /\ d[4] = 0
  BY <1>1, <1>3, <1>5
<1>7. combineBytes(d, 0) = [hi |-> d[3] * 256 + d[4], lo |-> d[1] * 256 + d[2]]
  BY DEF combineBytes
<1>8. d[3] * 256 + d[4] = 0 /\ d[1] * 256 + d[2] = w
  BY <1>1, <1>6
<1>9. combineBytes(d, 0) = [hi |-> 0, lo |-> w]
  BY <1>7, <1>8
<1> QED BY <1>2, <1>9, Zenon DEF d, z

\* An INT comes back from its word, with its sign.
LEMMA IntBack ==
  ASSUME NEW v, NEW x \in Int, -32768 <= x, x <= 32767, OneWord(v, DWord(x).lo)
  PROVE  bytes2signedInt(v, 0) = x
<1> DEFINE w == DWord(x).lo
           c == combineBytes(checkData(v), 0)
<1>1. w \in Int /\ 0 <= w /\ x = IF w >= 32768 THEN w - 65536 ELSE w
  <2>1. w = x % 65536
    BY DEF DWord
  <2> HIDE DEF w
  <2> QED BY <2>1, SignedWord
<1> HIDE DEF w
<1>2. c = [hi |-> 0, lo |-> w]
  BY Padded DEF w
<1>3. Len(v) = 2
  BY DEF OneWord
<1> HIDE DEF c
<1>4. CASE w >= 32768
  <2>1. bytes2signedInt(v, 0) = dword2signedInt([hi |-> 65535, lo |-> w])
    BY <1>2, <1>3, <1>4 DEF bytes2signedInt, c
  <2>2. dword2signedInt([hi |-> 65535, lo |-> w]) = w - 65536
    BY <1>1 DEF dword2signedInt
  <2> QED BY <1>1, <1>4, <2>1, <2>2
<1>5. CASE ~(w >= 32768)
  <2>1. bytes2signedInt(v, 0) = dword2signedInt([hi |-> 0, lo |-> w])
    BY <1>1, <1>2, <1>5 DEF bytes2signedInt, c
  <2>2. dword2signedInt([hi |-> 0, lo |-> w]) = w
    BY <1>1 DEF dword2signedInt
  <2> QED BY <1>1, <1>5, <2>1, <2>2
<1> QED BY <1>4, <1>5

\* Four bytes are combined, low word first.
LEMMA Combined ==
  ASSUME NEW v, NEW lo, NEW hi, TwoWords(v, lo, hi)
  PROVE  checkData(v) = v /\ combineBytes(v, 0) = [hi |-> hi, lo |-> lo] /\ Len(v) # 2
<1>1. Len(v) = 4 /\ v[1] * 256 + v[2] = lo /\ v[3] * 256 + v[4] = hi
  BY DEF TwoWords
<1>2. combineBytes(v, 0) = [hi |-> v[3] * 256 + v[4], lo |-> v[1] * 256 + v[2]]
  BY DEF combineBytes
<1>3. combineBytes(v, 0) = [hi |-> hi, lo |-> lo]
  BY <1>1, <1>2
<1> QED BY <1>1, <1>3 DEF checkData

\* A DINT or a REAL comes back from its two words.
LEMMA DIntBack ==
  ASSUME NEW v, NEW x \in Int, -32768 <= x \div 65536, x \div 65536 <= 32767,
         TwoWords(v, DWord(x).lo, DWord(x).hi)
  PROVE  bytes2signedInt(v, 0) = x /\ bytes2unsignedInt(v, 0) = DWord(x)
<1> DEFINE q == x \div 65536
           lo == DWord(x).lo
           hi == DWord(x).hi
           c == combineBytes(checkData(v), 0)
<1>1. q \in Int /\ hi = q % 65536 /\ lo = x % 65536 /\ DWord(x) = [hi |-> hi, lo |-> lo]
  BY DEF DWord
<1>2. -32768 <= q /\ q <= 32767
  OBVIOUS
<1>3. c = [hi |-> hi, lo |-> lo] /\ Len(v) # 2
  BY Combined
<1> HIDE DEF lo, hi, c
<1>4. q * 65536 + lo = x
  <2>1. HalfCut(x, q, lo)
    BY <1>1 DEF HalfCut
  <2> HIDE DEF q
  <2> QED BY <2>1, HalvesJoin
<1> HIDE DEF q
<1>5. hi \in Int /\ 0 <= hi /\ q = IF hi >= 32768 THEN hi - 65536 ELSE hi
  BY <1>1, <1>2, SignedWord
<1>6. bytes2signedInt(v, 0) = dword2signedInt([hi |-> hi, lo |-> lo])
  BY <1>3 DEF bytes2signedInt, c
<1>7. dword2signedInt([hi |-> hi, lo |-> lo]) = q * 65536 + lo
  BY <1>5 DEF dword2signedInt
<1>8. bytes2unsignedInt(v, 0) = c
  BY DEF bytes2unsignedInt, c
<1>9. bytes2signedInt(v, 0) = x
  BY <1>4, <1>6, <1>7
<1>10. DWord(x) = [hi |-> hi, lo |-> lo]
  BY <1>1
<1>11. c = DWord(x)
  BY <1>3, <1>10
<1> QED BY <1>8, <1>9, <1>11

\* All the bytes of the registers read are there.
LEMMA AllBytes ==
  ASSUME NEW op, NEW h, op.quantity \in Nat, Cells(op, h), op.fc \in {3, 23},
         NEW v, v = Expected(op, h, 9 + 2 * op.quantity)
  PROVE  v \in Seq(Int) /\ Split(v, h)
<1> DEFINE q == op.quantity
           G(i) == IF i % 2 = 1 THEN h[(i + 1) \div 2] \div 256 ELSE h[i \div 2] % 256
<1>1. q \in Nat /\ h \in Seq(Half) /\ Len(h) = q
  BY DEF Cells
<1>2. v = [i \in 1..2 * q |-> G(i)]
  <2> DEFINE len == 9 + 2 * q
             E(i) == IF i > len - 9 THEN 0 ELSE G(i)
  <2>1. Expected(op, h, len) = [i \in 1..2 * q |-> E(i)]
    <3>1. ~(len < 9) /\ op.fc \notin {1, 2}
      BY <1>1
    <3> HIDE DEF len
    <3> QED BY <3>1, Zenon DEF Expected
  <2>2. \A i \in 1..2 * q : ~(i > len - 9)
    BY <1>1
  <2>3. \A i \in 1..2 * q : E(i) = G(i)
    <3> HIDE DEF G
    <3> QED BY <2>2, Zenon
  <2>4. [i \in 1..2 * q |-> E(i)] = [i \in 1..2 * q |-> G(i)]
    <3> HIDE DEF E, G
    <3> QED BY <2>3, Zenon
  <2> QED BY <2>1, <2>4, Zenon
<1>3. ASSUME NEW i \in 1..2 * q PROVE G(i) \in Int
  <2>1. \A j \in 1..q : h[j] \in Int
    BY <1>1 DEF Half, Short
  <2>2. CASE i % 2 = 1
    <3>1. (i + 1) \div 2 \in 1..q
      <4>1. (i + 1) \div 2 \in Int /\ 2 * ((i + 1) \div 2) - 1 = i
        BY <2>2, OddHalf
      <4> DEFINE j == (i + 1) \div 2
      <4>2. j \in Int /\ 2 * j - 1 = i
        BY <4>1
      <4> HIDE DEF j
      <4>3. j \in 1..q
        BY <1>1, <4>2
      <4> QED BY <4>3 DEF j
    <3> QED BY <2>1, <2>2, <3>1
  <2>3. CASE i % 2 # 1
    <3>1. i \div 2 \in 1..q
      BY <1>1, <2>3
    <3> QED BY <2>1, <2>3, <3>1
  <2> QED BY <2>2, <2>3
<1>4. v \in Seq(Int) /\ Len(v) = 2 * q /\ \A i \in 1..2 * q : v[i] = G(i)
  <2> HIDE DEF G, q
  <2>1. Len(v) = 2 * q /\ \A i \in 1..2 * q : v[i] = G(i)
    BY <1>1, <1>2
  <2>2. \A i \in 1..2 * q : G(i) \in Int
    BY <1>3
  <2>3. v \in Seq(Int)
    BY <1>1, <1>2, <2>2
  <2> QED BY <2>1, <2>3
<1>5. ASSUME NEW i \in 1..q PROVE v[2 * i - 1] = h[i] \div 256 /\ v[2 * i] = h[i] % 256
  <2>1. /\ 2 * i - 1 \in 1..2 * q /\ 2 * i \in 1..2 * q
        /\ (2 * i - 1) % 2 = 1 /\ (2 * i) % 2 # 1
        /\ (2 * i - 1 + 1) \div 2 = i /\ (2 * i) \div 2 = i
    BY <1>1
  <2>2. G(2 * i - 1) = h[i] \div 256 /\ G(2 * i) = h[i] % 256
    BY <2>1, Zenon
  <2> HIDE DEF G
  <2> QED BY <1>4, <2>1, <2>2
<1> QED BY <1>1, <1>4, <1>5 DEF Split

\* A number that fits its type, in whole words.
LEMMA FittingInt ==
  ASSUME NEW item, Fitting(item), item.type = "INT"
  PROVE  -32768 <= item.value /\ item.value <= 32767
<1>1. IsInt16(item.value)
  BY DEF Fitting
<1> QED BY <1>1 DEF IsInt16

LEMMA FittingDInt ==
  ASSUME NEW item, Fitting(item), item.type # "INT"
  PROVE  -32768 <= item.value \div 65536 /\ item.value \div 65536 <= 32767
<1> DEFINE n == item.value \div 65536
<1>1. IsInt16(n)
  BY DEF Fitting
<1> HIDE DEF n
<1>2. -32768 <= n /\ n <= 32767
  BY <1>1 DEF IsInt16
<1> QED BY <1>2 DEF n

\* A number read back from the registers that hold its words.
LEMMA ItemBack ==
  ASSUME Endianness = 0, NEW item \in DataItem, Fitting(item),
         NEW v \in Seq(Int), NEW h \in Seq(Half), Split(v, h), Words(item) = h
  PROVE  /\ bytes2signedInt(v, 0) = item.value
         /\ item.type # "INT" => bytes2unsignedInt(v, 0) = DWord(item.value)
<1> DEFINE x == item.value
           lo == DWord(x).lo
           hi == DWord(x).hi
<1>1. x \in Int /\ item.type \in {"INT", "DINT", "REAL"}
  BY DEF DataItem
<1>2. /\ Len(v) = 2 * Len(h)
      /\ \A i \in 1..Len(h) : v[2 * i - 1] * 256 + v[2 * i] = h[i]
  <2>1. Len(v) = 2 * Len(h)
    BY Zenon DEF Split
  <2>2. ASSUME NEW i \in 1..Len(h) PROVE v[2 * i - 1] * 256 + v[2 * i] = h[i]
    BY SplitWord
  <2> QED BY <2>1, <2>2
<1>3. CASE item.type = "INT"
  <2>1. h = <<lo>>
    BY <1>3 DEF Words
  <2>2. OneWord(v, lo)
    <3> HIDE DEF lo
    <3>1. Len(h) = 1 /\ h[1] = lo
      BY <2>1
    <3>2. v[2 * 1 - 1] * 256 + v[2 * 1] = h[1]
      BY <1>2, <3>1
    <3> QED BY <1>2, <3>1, <3>2 DEF OneWord
  <2>3. -32768 <= x /\ x <= 32767
    BY <1>3, FittingInt
  <2>4. bytes2signedInt(v, 0) = x
    BY <1>1, <2>2, <2>3, IntBack
  <2> QED BY <1>3, <2>4
<1>4. CASE item.type # "INT"
  <2>1. h = <<lo, hi>>
    BY <1>1, <1>4 DEF Words
  <2>2. TwoWords(v, lo, hi)
    <3> HIDE DEF lo, hi
    <3>1. Len(h) = 2 /\ h[1] = lo /\ h[2] = hi
      BY <2>1
    <3>2. v[2 * 1 - 1] * 256 + v[2 * 1] = h[1] /\ v[2 * 2 - 1] * 256 + v[2 * 2] = h[2]
      BY <1>2, <3>1
    <3> QED BY <1>2, <3>1, <3>2 DEF TwoWords
  <2>3. -32768 <= x \div 65536 /\ x \div 65536 <= 32767
    BY <1>4, FittingDInt
  <2>4. bytes2signedInt(v, 0) = x /\ bytes2unsignedInt(v, 0) = DWord(x)
    <3>1. x \in Int /\ -32768 <= x \div 65536 /\ x \div 65536 <= 32767
             /\ TwoWords(v, DWord(x).lo, DWord(x).hi)
      BY <1>1, <2>2, <2>3
    <3> HIDE DEF x
    <3> QED BY <3>1, DIntBack
  <2> QED BY <2>4
<1> QED BY <1>3, <1>4

\* Values come back, with the words in the order of endianness 0.
THEOREM ValuesReturnCorrect == ASSUME Endianness = 0 PROVE XSpec => []ValuesReturn
<1>1. Answers /\ Called /\ TypeOK /\ SuccessIsOwn => ValuesReturn
  <2> DEFINE o == operations[Answered]
             h == held[Answered]
             v == Returned
  <2> SUFFICES ASSUME Answers, Called, TypeOK, SuccessIsOwn, ReadDone, o.fc \in {3, 23},
                      result.packet.len = 9 + 2 * o.quantity
               PROVE  /\ \A op \in Operations : \A k \in DOMAIN op.data :
                           LET item == op.data[k] IN
                           Fitting(item) /\ Words(item) = h =>
                             /\ bytes2signedInt(v, Endianness) = item.value
                             /\ item.type # "INT" =>
                                  bytes2unsignedInt(v, Endianness) = DWord(item.value)
                      /\ LET string == bytes2string(v, 1) IN
                           /\ IsPrefix(string, v) /\ \A i \in DOMAIN string : string[i] # 0
                           /\ string # v => v[Len(string) + 1] = 0
    BY Zenon DEF ValuesReturn
  <2>1. o \in Operation /\ Cells(o, h) /\ v = Expected(o, h, 9 + 2 * o.quantity)
    BY ReadReturned
  <2>2. h \in Seq(Half)
    BY <2>1 DEF Cells
  <2>3. o.quantity \in Nat
    BY <2>1, OperationParts DEF Half, Short
  <2> HIDE DEF o, h, v
  <2>4. v \in Seq(Int) /\ Split(v, h)
    BY <2>1, <2>3, AllBytes
  <2>5. ASSUME NEW op \in Operations, NEW k \in DOMAIN op.data,
               Fitting(op.data[k]), Words(op.data[k]) = h
        PROVE  /\ bytes2signedInt(v, Endianness) = op.data[k].value
               /\ op.data[k].type # "INT" =>
                    bytes2unsignedInt(v, Endianness) = DWord(op.data[k].value)
    <3>1. op.data[k] \in DataItem
      <4>1. op \in Operation
        BY ExchangeAssumption
      <4>2. op.data \in Seq(DataItem)
        BY <4>1 DEF Operation
      <4> QED BY <4>2
    <3>2. /\ bytes2signedInt(v, 0) = op.data[k].value
          /\ op.data[k].type # "INT" => bytes2unsignedInt(v, 0) = DWord(op.data[k].value)
      BY <2>2, <2>4, <2>5, <3>1, ItemBack
    <3> QED BY <3>2
  <2>6. LET string == bytes2string(v, 1) IN
          /\ IsPrefix(string, v) /\ \A i \in DOMAIN string : string[i] # 0
          /\ string # v => v[Len(string) + 1] = 0
    BY <2>4, StringEnds
  <2> QED BY <2>5, <2>6, Zenon
<1>2. XSpec => [](TypeOK /\ SuccessIsOwn)
  BY ExchangeImplements, TypeCorrect, SuccessIsOwnCorrect, PTL
<1> QED BY <1>1, <1>2, AnswersCorrect, CalledCorrect, PTL

-----------------------------------------------------------------------------
\* Calls as RegisterAccess has them.

\* What an operation finds in the memory it leaves is what the device, by the
\* bytes of its request, reads out.
LEMMA ReadOutShown ==
  ASSUME NEW t \in Int, NEW op \in Operation, Fits(op), NEW m
  PROVE  Shown(op, ReadOut(packetBuilder(t, op), m)) = Reads(op, m)
<1> DEFINE f == packetBuilder(t, op)
           q == op.quantity
           cells == IF op.fc \in {1, 2} THEN m.coil ELSE m.register
           h == [i \in 1..q |-> cells[op.reference + i - 1]]
<1>1. CASE op.fc \in {1, 2, 3, 23}
  <2>1. Begins(f, op.fc, op.reference, q)
    BY <1>1, FrameHead
  <2> HIDE DEF f, q
  <2>2. f[8] = op.fc /\ word(f, 9) = op.reference /\ word(f, 11) = q
    BY <2>1 DEF Begins
  <2>3. CASE op.fc \in {1, 2}
    <3>1. ReadOut(f, m) = [i \in 1..word(f, 11) |-> m.coil[word(f, 9) + i - 1]]
      BY <2>2, <2>3 DEF ReadOut
    <3>2. cells = m.coil
      BY <2>3
    <3> QED BY <2>2, <3>1, <3>2, Zenon DEF Reads, f, q
  <2>4. CASE op.fc \notin {1, 2}
    <3>1. ReadOut(f, m) = [i \in 1..word(f, 11) |-> m.register[word(f, 9) + i - 1]]
      BY <1>1, <2>2, <2>4 DEF ReadOut
    <3>2. cells = m.register
      BY <2>4
    <3> QED BY <2>2, <3>1, <3>2, Zenon DEF Reads, f, q
  <2> QED BY <2>3, <2>4
<1>2. CASE op.fc \notin {1, 2, 3, 23}
  <2>1. \A x : Shown(op, x) = <<>>
    BY <1>2 DEF Shown
  <2> QED BY <2>1 DEF Reads
<1> QED BY <1>1, <1>2

\* A reply cut off shows the beginning of what was read out.
LEMMA ExpectedBegun ==
  ASSUME NEW op \in Operation, op.fc \in ReadCodes, NEW h, Cells(op, h),
         NEW len \in Nat, len >= 9
  PROVE  \E n \in 0..Len(Shown(op, h)) : Expected(op, h, len) = Access!Begun(Shown(op, h), n)
<1> DEFINE q == op.quantity
           s == Shown(op, h)
           Cut(v, n) == [i \in DOMAIN v |-> IF i <= n THEN v[i] ELSE 0]
<1>1. q \in Nat /\ h \in Seq(Half) /\ Len(h) = q
  BY OperationParts DEF Cells, Half, Short
<1> HIDE DEF q
<1>2. CASE op.fc \in {1, 2}
  <2> DEFINE n == IF 8 * (len - 9) <= q THEN 8 * (len - 9) ELSE q
  <2>1. s = h
    BY <1>2 DEF Shown
  <2> HIDE DEF s
  <2>2. Expected(op, h, len) = [i \in 1..q |-> IF (i + 7) \div 8 <= len - 9 THEN h[i] ELSE 0]
    BY <1>2 DEF Expected, q
  <2>3. \A i \in 1..q : (i + 7) \div 8 <= len - 9 <=> i <= 8 * (len - 9)
    OBVIOUS
  <2>4. \A i \in 1..q : (i + 7) \div 8 <= len - 9 <=> i <= n
    BY <1>1, <2>3
  <2>5. n \in 0..Len(s) /\ DOMAIN s = 1..q
    BY <1>1, <2>1
  <2> HIDE DEF n
  <2>6. Expected(op, h, len) = Cut(s, n)
    BY <2>1, <2>2, <2>4, <2>5
  <2> QED BY <2>5, <2>6, Zenon DEF Access!Begun, s
<1>3. CASE op.fc \notin {1, 2}
  <2> DEFINE n == IF len - 9 <= 2 * q THEN len - 9 ELSE 2 * q
             byte(i) == IF i % 2 = 1 THEN h[(i + 1) \div 2] \div 256 ELSE h[i \div 2] % 256
  <2>1. s = [i \in 1..2 * q |-> byte(i)]
    BY <1>1, <1>3 DEF Shown, ReadCodes
  <2>2. Expected(op, h, len) = [i \in 1..2 * q |-> IF i > len - 9 THEN 0 ELSE byte(i)]
    BY <1>3 DEF Expected, q
  <2> HIDE DEF s, byte
  <2>3. DOMAIN s = 1..2 * q /\ Len(s) = 2 * q /\ \A i \in 1..2 * q : s[i] = byte(i)
    BY <1>1, <2>1
  <2>4. n \in 0..Len(s)
    BY <1>1, <2>3
  <2>5. \A i \in 1..2 * q : i <= n <=> ~(i > len - 9)
    BY <1>1
  <2> HIDE DEF n
  <2>6. Expected(op, h, len) = Cut(s, n)
    BY <2>2, <2>3, <2>5
  <2> QED BY <2>4, <2>6, Zenon DEF Access!Begun, s
<1> QED BY <1>2, <1>3

\* A call is read out once, after it has been sent; and a call that is over has
\* a result.
HeldOnce ==
  /\ DOMAIN held \subseteq 1..call
  /\ \A r \in requests : r.call \notin DOMAIN held
  /\ pc \in {"connect", "send"} => call \notin DOMAIN held

Over == pc \in {"idle", "stopped"} /\ call > 0 => result.is # "none"

LEMMA HeldOnceStep ==
  ASSUME HeldOnce, Called, Once, Unsent, TypeOK, SocketOwn, [XNext]_xvars
  PROVE  HeldOnce'
<1> USE DEF request, device, data
<1>0. call \in Nat
  BY ModbusAssumption DEF TypeOK
<1>1. CASE \E op \in Operations : XCall(op)
  BY <1>0, <1>1 DEF XCall, Call, Called, HeldOnce
<1>2. CASE \E r \in requests, s \in Segment : XReply(r, s)
  <2> PICK r \in requests, s \in Segment : XReply(r, s)
    BY <1>2
  <2>1. requests' = requests \ {r} /\ pc' = pc /\ call' = call
    BY DEF XReply, Reply
  <2>2. DOMAIN held' = DOMAIN held \/ DOMAIN held' = DOMAIN held \union {r.call}
    BY DEF XReply
  <2>3. r.call \in 1..call /\ \A q \in requests' : q \in requests /\ q.call # r.call
    BY <2>1 DEF Called, Once
  <2>4. pc \in {"connect", "send"} => r.call # call
    BY <1>0, <2>3 DEF Unsent
  <2> QED BY <2>1, <2>2, <2>3, <2>4 DEF HeldOnce
<1>3. CASE XParseOk
  BY <1>3 DEF XParseOk, ParseOk, HeldOnce
<1>4. CASE XRest
  <2>1. held' = held
    BY <1>4 DEF XRest
  <2>2. CASE Send
    <3>1. /\ call' = call /\ pc' = "rec" /\ call \notin DOMAIN held
          /\ \A r \in requests' : r \in requests \/ r = [call |-> call, kind |-> kind, sock |-> sock]
      BY <2>2 DEF Send, HeldOnce
    <3> QED BY <2>1, <3>1 DEF HeldOnce
  <2>3. CASE ~Send
    <3>1. /\ requests' = requests /\ call' = call
          /\ pc' \in {"connect", "send"} => pc \in {"connect", "send"}
      BY <1>4, <2>3 DEF XRest, ConnectOk, ConnectFails, Throw, RecvData, RecvNothing,
         WaitMore, Watchdog, SelectFails, ParseFails, Tick, Stop, PeerCloses, vars
    <3> QED BY <2>1, <3>1 DEF HeldOnce
  <2> QED BY <2>2, <2>3
<1>5. CASE UNCHANGED xvars
  BY <1>5 DEF xvars, vars, HeldOnce
<1> QED BY <1>1, <1>2, <1>3, <1>4, <1>5 DEF XNext

LEMMA OverStep == ASSUME Over, TypeOK, [XNext]_xvars PROVE Over'
<1> USE DEF request, device, data
<1>1. ASSUME NEW r, NEW s, XReply(r, s) PROVE pc' = pc /\ call' = call /\ result' = result
  BY <1>1 DEF XReply, Reply
<1> QED BY <1>1 DEF Over, XNext, XCall, Call, XParseOk, ParseOk, XRest, ConnectOk, ConnectFails,
     Send, RecvData, RecvNothing, WaitMore, Watchdog, SelectFails, ParseFails, Throw, Tick,
     Stop, PeerCloses, xvars, vars

LEMMA HeldOnceCorrect == XSpec => [](HeldOnce /\ Over)
<1>1. XInit => HeldOnce /\ Over
  BY DEF XInit, Init, HeldOnce, Over
<1>2. XSpec => [](TypeOK /\ SocketOwn)
  BY ExchangeImplements, TypesAndSocket, PTL
<1>3. Ordered => Once /\ Unsent
  BY DEF Ordered
<1> QED BY <1>1, <1>2, <1>3, OrderedCorrect, CalledCorrect, HeldOnceStep, OverStep, PTL DEF XSpec

\* Nothing but the results, the operations and what has been read out counts.
LEMMA SameOutcome ==
  ASSUME result' = result, operations' = operations, held' = held
  PROVE  Outcome' = Outcome /\ Value' = Value /\ Found' = Found
  BY Zenon DEF Outcome, Value, Found, Vouched, ReadDone, Answered, Returned, Frame

\* A result that has values is that of a call that has been read out.
LEMMA AnsweredHeld ==
  ASSUME Answers, SuccessIsOwn, result.is = "ok", result.packet.len >= 8
  PROVE  Answered = call /\ Answered \in DOMAIN held
<1>1. result.packet.call = call /\ result.packet.reply = "normal"
  BY DEF SuccessIsOwn
<1>2. Tells(result.packet, operations, held)
  BY DEF Answers
<1> QED BY <1>1, <1>2 DEF Tells, Answered

\* The results of one more call read out are those of the others.
LEMMA OutcomeStays ==
  ASSUME Answers, SuccessIsOwn, result' = result, operations' = operations,
         \A c \in DOMAIN held : held'[c] = held[c]
  PROVE  Outcome' = Outcome /\ Value' = Value
<1>1. Vouched' = Vouched /\ ReadDone' = ReadDone
  BY Zenon DEF Vouched, ReadDone, Answered
<1>2. Outcome' = Outcome
  BY <1>1, Zenon DEF Outcome
<1>3. Value' = Value
  <2>1. CASE ReadDone
    <3>1. Answered \in DOMAIN held
      BY <2>1, AnsweredHeld DEF ReadDone
    <3>2. held'[Answered] = held[Answered]
      BY <3>1
    <3>3. Returned' = Returned
      BY <3>2, Zenon DEF Returned, Answered, Frame
    <3> QED BY <1>1, <3>3, Zenon DEF Value
  <2>2. CASE ~ReadDone
    BY <1>1, <2>2, Zenon DEF Value
  <2> QED BY <2>1, <2>2
<1> QED BY <1>2, <1>3

\* A call is invoked.
LEMMA CallInvokes ==
  ASSUME HeldOnce, Over, Called, TypeOK, NEW op \in Operations, XCall(op)
  PROVE  Access!Invoke(op)
<1>0. call \in Nat /\ Len(operations) = call /\ operations \in Seq(Operations)
  BY ModbusAssumption DEF TypeOK, Called
<1>1. /\ pc = "idle" /\ pc' = "connect" /\ call' = call + 1 /\ result' = NoResult
      /\ requests' = requests /\ operations' = Append(operations, op)
      /\ memory' = memory /\ held' = held
  BY DEF XCall, Call, device
<1>2. ~Access!Busy
  <2>1. Access!now > 0 => result.is # "none"
    BY <1>0, <1>1 DEF Over, Access!now
  <2>2. result.is # "none" => Outcome # "none"
    BY DEF Outcome
  <2> QED BY <2>1, <2>2 DEF Access!Busy
<1>3. Pending' = Pending \union {Access!now + 1}
  BY <1>0, <1>1 DEF Pending, Access!now
<1>4. Outcome' = "none" /\ Value' = <<>>
  <2>1. result'.is = "none"
    BY <1>1 DEF NoResult
  <2> QED BY <2>1 DEF Outcome, Value, Vouched
<1>5. Found' = Found
  <2>1. \A c \in DOMAIN held : operations'[c] = operations[c]
    BY <1>0, <1>1, OneMore DEF HeldOnce
  <2> QED BY <1>1, <2>1 DEF Found
<1> QED BY <1>1, <1>2, <1>3, <1>4, <1>5 DEF Access!Invoke

\* A normal reply is the moment in which the operation is performed.
LEMMA ReplyPerforms ==
  ASSUME Answers, HeldOnce, Once, Unsent, Called, TypeOK, SuccessIsOwn,
         NEW r \in requests, NEW s \in Segment, XReply(r, s), s.reply = "normal"
  PROVE  r.call \in Pending /\ Access!Perform(r.call)
<1> DEFINE c == r.call
           op == operations[c]
           f == packetBuilder(c, op)
           out == ReadOut(f, memory')
<1>1. /\ requests' = requests \ {r} /\ pc' = pc /\ call' = call /\ result' = result
      /\ operations' = operations /\ memory' = Performed(f, memory)
      /\ held' = ReadFor(c, out)
  BY DEF XReply, Reply, Frame, ReadFor, request
<1>2. c \in 1..call /\ r.kind = Kind(op) /\ c \in Int /\ op \in Operation /\ Fits(op)
  BY CallFits DEF Called
<1>3. memory' = Effect(op, memory)
  <2>1. CASE op.fc \in {1, 2, 3}
    BY <1>1, <1>2, <2>1, ReadsLeave DEF Effect, Kind
  <2>2. CASE op.fc \notin {1, 2, 3}
    <3>1. memory' = Meant(op, memory)
      BY <1>1, <1>2, <2>2, WriteLands
    <3>2. Effect(op, memory) = Meant(op, memory)
      BY <2>2 DEF Effect, Kind
    <3> QED BY <3>1, <3>2, Zenon
  <2> QED BY <2>1, <2>2
<1>4. c \in Pending /\ Pending' = Pending \ {c}
  <2>1. \A q \in requests : q.call = c => q = r
    BY DEF Once
  <2>2. pc \in {"connect", "send"} => c # call
    BY <1>2 DEF Unsent
  <2> HIDE DEF c
  <2>3. {q.call : q \in requests'} = {q.call : q \in requests} \ {c}
    BY <1>1, <2>1 DEF c
  <2>4. c \in {q.call : q \in requests}
    BY DEF c
  <2> QED BY <1>1, <2>2, <2>3, <2>4 DEF Pending
<1>5. Found' = [d \in DOMAIN Found \union {c} |->
                  IF d = c THEN Reads(op, memory') ELSE Found[d]]
  <2> HIDE DEF c, out, op
  <2>1. DOMAIN held' = DOMAIN held \union {c} /\ held'[c] = out
    BY <1>1 DEF ReadFor
  <2>2. \A d \in DOMAIN held : d # c => held'[d] = held[d]
    BY <1>1 DEF ReadFor
  <2>3. Shown(op, out) = Reads(op, memory')
    BY <1>2, ReadOutShown DEF out
  <2>4. DOMAIN Found = DOMAIN held /\ \A d \in DOMAIN held : Found[d] = Shown(operations[d], held[d])
    BY DEF Found
  <2>5. Found' = [d \in DOMAIN held' |-> Shown(operations[d], held'[d])]
    BY <1>1 DEF Found
  <2>6. Shown(operations[c], held'[c]) = Reads(op, memory')
    BY <2>1, <2>3 DEF op
  <2>7. \A d \in DOMAIN held' : Shown(operations[d], held'[d]) =
                                IF d = c THEN Reads(op, memory') ELSE Found[d]
    BY <2>1, <2>2, <2>4, <2>6
  <2> QED BY <2>1, <2>4, <2>5, <2>7
<1>6. Outcome' = Outcome /\ Value' = Value
  <2>1. \A d \in DOMAIN held : held'[d] = held[d]
    <3>1. c \notin DOMAIN held
      BY DEF HeldOnce
    <3> HIDE DEF c, out
    <3> QED BY <1>1, <3>1 DEF ReadFor
  <2> QED BY <1>1, <2>1, OutcomeStays
<1> HIDE DEF c, f, out
<1>7. Access!Perform(c)
  BY <1>1, <1>3, <1>4, <1>5, <1>6, Zenon DEF Access!Perform, op
<1> QED BY <1>4, <1>7 DEF c

\* An exception: the request is gone.
LEMMA ReplyRefuses ==
  ASSUME Once, Unsent, Called, TypeOK,
         NEW r \in requests, NEW s \in Segment, XReply(r, s), s.reply # "normal"
  PROVE  r.call \in Pending /\ Access!Lose(r.call)
<1>1. /\ requests' = requests \ {r} /\ pc' = pc /\ call' = call /\ result' = result
      /\ operations' = operations /\ memory' = memory /\ held' = held
  BY DEF XReply, Reply, request
<1>2. r.call \in Pending /\ Pending' = Pending \ {r.call}
  <2>1. \A q \in requests : q.call = r.call => q = r
    BY DEF Once
  <2>2. pc \in {"connect", "send"} => r.call # call
    BY DEF Unsent, Called
  <2>3. {q.call : q \in requests'} = {q.call : q \in requests} \ {r.call}
    BY <1>1, <2>1
  <2>4. r.call \in {q.call : q \in requests}
    OBVIOUS
  <2> QED BY <1>1, <2>2, <2>3, <2>4 DEF Pending
<1> QED BY <1>1, <1>2, SameOutcome DEF Access!Lose

\* While a call runs it has no result.
LEMMA RunsBusy ==
  ASSUME ResultFresh, Called, TypeOK, SocketOwn, pc \in {"connect", "send", "rec", "parse"}
  PROVE  Access!Busy /\ Access!now = call /\ Outcome = "none" /\ Value = <<>>
<1>1. result.is = "none"
  BY DEF ResultFresh, NoResult
<1>2. Outcome = "none" /\ Value = <<>>
  BY <1>1 DEF Outcome, Value, Vouched
<1>3. Len(operations) = call /\ call > 0
  BY ModbusAssumption DEF Called, SocketOwn, Calls
<1> QED BY <1>2, <1>3 DEF Access!Busy, Access!now

\* The packets have lengths.
LEMMA PacketLength == \A p \in Packets : p.len \in Nat
<1>1. \A p \in Segment : p.len \in Lengths
  BY DEF Segment
<1>2. \A n \in Lengths : n \in Nat
  BY ModbusAssumption
<1>3. Null.len \in Nat
  BY DEF Null
<1> QED BY <1>1, <1>2, <1>3, Zenon DEF Packets

\* ReadReturned as an invariant.
Faithful ==
  ReadDone =>
    /\ Cells(operations[Answered], held[Answered])
    /\ Returned = Expected(operations[Answered], held[Answered], result.packet.len)

\* Returning is returning what was found, or returning blindly.
LEMMA ParseReturns ==
  ASSUME Answers', TypeOK', SuccessIsOwn', Faithful', ResultFresh, Called, TypeOK, SocketOwn,
         XParseOk
  PROVE  Access!ReturnValue \/ Access!ReturnBlindly
<1>1. /\ pc = "parse" /\ pc' = "idle" /\ result'.is = "ok" /\ call' = call
      /\ requests' = requests /\ operations' = operations /\ memory' = memory /\ held' = held
  BY DEF XParseOk, ParseOk, request, device
<1>2. Pending' = Pending
  BY <1>1 DEF Pending
<1>3. Found' = Found
  BY <1>1 DEF Found
<1>4. Access!Busy /\ Access!now = call /\ Value = <<>>
  BY <1>1, RunsBusy
<1>5. CASE Vouched'
  <2> DEFINE h == held[call]
             op == operations[call]
  <2>1. result'.packet.len \in Nat /\ result'.packet.len >= 8
    <3>1. result'.packet.len >= IF ReadDone' THEN 9 ELSE 8
      BY <1>5 DEF Vouched, Header
    <3>2. result'.packet \in Packets
      BY DEF TypeOK
    <3> QED BY <3>1, <3>2, PacketLength
  <2>2. Answered' = call /\ call \in DOMAIN held
    <3>1. result'.packet.call = call /\ result'.packet.reply = "normal"
      BY <1>1, <2>1 DEF SuccessIsOwn
    <3>2. Tells(result'.packet, operations, held)
      BY <1>1 DEF Answers
    <3> QED BY <3>1, <3>2 DEF Tells, Answered
  <2>3. Found[call] = Shown(op, h) /\ call \in DOMAIN Found
    BY <2>2 DEF Found
  <2>4. op \in Operation
    BY <1>4, CallFits DEF Access!Busy, Called, Access!now
  <2>5. \E n \in 0..Len(Shown(op, h)) : Value' = Access!Begun(Shown(op, h), n)
    <3>1. CASE ReadDone'
      <4>1. Returned' = Expected(op, h, result'.packet.len) /\ Cells(op, h)
        BY <1>1, <2>2, <3>1 DEF Faithful
      <4>2. Value' = Returned' /\ result'.packet.len >= 9 /\ op.fc \in ReadCodes
        BY <1>1, <1>5, <2>2, <3>1 DEF Value, Vouched, Header, ReadDone, ReadCodes
      <4> QED BY <2>1, <2>4, <4>1, <4>2, ExpectedBegun
    <3>2. CASE ~ReadDone'
      <4>1. op.fc \notin {1, 2, 3, 23}
        BY <1>1, <2>1, <2>2, <3>2 DEF ReadDone
      <4>2. Shown(op, h) = <<>>
        BY <4>1 DEF Shown
      <4>3. Value' = <<>>
        BY <3>2 DEF Value
      <4>4. Access!Begun(<<>>, 0) = <<>>
        BY DEF Access!Begun
      <4> QED BY <4>2, <4>3, <4>4
    <3> QED BY <3>1, <3>2
  <2>6. Outcome' = "value"
    BY <1>1, <1>5 DEF Outcome
  <2> HIDE DEF h, op
  <2>7. Access!ReturnValue
    BY <1>1, <1>2, <1>3, <1>4, <2>3, <2>5, <2>6 DEF Access!ReturnValue
  <2> QED BY <2>7
<1>6. CASE ~Vouched'
  <2>1. Outcome' = "blind" /\ Value' = <<>>
    BY <1>1, <1>6 DEF Outcome, Value
  <2> QED BY <1>1, <1>2, <1>3, <1>4, <2>1 DEF Access!ReturnBlindly
<1> QED BY <1>5, <1>6

\* What becomes of a call between the invocation and the return, and the ways
\* for it to fail.
LEMMA RestAccess ==
  ASSUME ResultFresh, HeldOnce, Unsent, Called, TypeOK, SocketOwn, XRest
  PROVE  [Access!Next]_(Access!vars)
<1> USE DEF request, device
<1>1. operations' = operations /\ memory' = memory /\ held' = held
  BY DEF XRest, data
<1>2. Found' = Found
  BY <1>1 DEF Found
<1>3. result' = result => Outcome' = Outcome /\ Value' = Value
  BY <1>1, SameOutcome
<1>4. ASSUME result' = result, Pending' = Pending PROVE UNCHANGED Access!vars
  BY <1>1, <1>2, <1>3, <1>4 DEF Access!vars
<1>5. ASSUME Throw, pc \in {"connect", "rec", "parse"},
             Pending' = Pending \/ Pending' = Pending \ {call}
      PROVE  Access!Fail
  <2>1. result'.is = "error"
    BY <1>5 DEF Throw
  <2>2. Outcome' = "error" /\ Value' = <<>>
    BY <2>1 DEF Outcome, Value, Vouched
  <2>3. Access!Busy /\ Access!now = call /\ Value = <<>>
    BY <1>5, RunsBusy
  <2> QED BY <1>1, <1>2, <1>5, <2>2, <2>3 DEF Access!Fail
<1>6. CASE ConnectOk
  BY <1>4, <1>6 DEF ConnectOk, Pending
<1>7. CASE ConnectFails
  <2>1. Pending' = Pending \ {call}
    <3>1. \A r \in requests : r.call # call
      BY <1>7 DEF ConnectFails, Unsent, Called
    <3> QED BY <1>7, <3>1 DEF ConnectFails, Throw, Pending
  <2>2. Access!Fail
    BY <1>5, <1>7, <2>1 DEF ConnectFails
  <2> QED BY <2>2 DEF Access!Next
<1>8. CASE Send
  <2> DEFINE q == [call |-> call, kind |-> kind, sock |-> sock]
  <2>1. /\ pc = "send" /\ pc' = "rec" /\ call' = call /\ result' = result
        /\ requests' = requests \/ requests' = requests \union {q}
    BY <1>8 DEF Send
  <2>2. q.call = call
    OBVIOUS
  <2> HIDE DEF q
  <2>3. CASE requests' = requests \union {q}
    <3>1. Pending' = Pending
      BY <2>1, <2>2, <2>3 DEF Pending
    <3> QED BY <1>4, <2>1, <3>1
  <2>4. CASE requests' = requests
    <3>1. \A r \in requests : r.call # call
      BY <2>1 DEF Unsent, Called
    <3>2. call \in Pending /\ Pending' = Pending \ {call}
      BY <2>1, <2>4, <3>1 DEF Pending
    <3>3. Access!Lose(call)
      BY <1>1, <1>2, <1>3, <2>1, <3>2 DEF Access!Lose
    <3> QED BY <3>2, <3>3 DEF Access!Next
  <2> QED BY <2>1, <2>3, <2>4
<1>9. CASE Watchdog \/ ParseFails
  <2>1. Throw /\ pc \in {"rec", "parse"} /\ Pending' = Pending
    BY <1>9 DEF Watchdog, ParseFails, Throw, Pending
  <2>2. Access!Fail
    BY <1>5, <2>1
  <2> QED BY <2>2 DEF Access!Next
<1>10. CASE \/ RecvData \/ RecvNothing \/ WaitMore \/ SelectFails \/ Tick \/ Stop
            \/ \E c \in Calls : PeerCloses(c)
  <2>1. result' = result /\ Pending' = Pending
    BY <1>10 DEF RecvData, RecvNothing, WaitMore, SelectFails, Tick, Stop, PeerCloses,
       vars, Pending
  <2> QED BY <1>4, <2>1
<1> QED BY <1>6, <1>7, <1>8, <1>9, <1>10 DEF XRest

\* However late, lost or cut off the packets are, for any operations, memory,
\* lengths and number of calls: the calls act on one memory, each at most once
\* and in one moment, and what a call returns is what it has found there.
THEOREM AccessImplemented == XSpec => ImplementsAccess
<1>1. XInit => Access!Init
  BY DEF XInit, Init, NoResult, Access!Init, Pending, Found, Outcome, Value, Vouched
<1> DEFINE Inv == /\ Answers /\ HeldOnce /\ Over /\ Once /\ Unsent /\ Called /\ TypeOK
                  /\ SocketOwn /\ ResultFresh /\ SuccessIsOwn /\ Faithful
<1>2. Inv /\ Inv' /\ [XNext]_xvars => [Access!Next]_(Access!vars)
  <2> SUFFICES ASSUME Inv, Inv', [XNext]_xvars PROVE [Access!Next]_(Access!vars)
    OBVIOUS
  <2>1. CASE \E op \in Operations : XCall(op)
    BY <2>1, CallInvokes DEF Access!Next
  <2>2. CASE \E r \in requests, s \in Segment : XReply(r, s)
    BY <2>2, ReplyPerforms, ReplyRefuses DEF Access!Next
  <2>3. CASE XParseOk
    BY <2>3, ParseReturns DEF Access!Next
  <2>4. CASE XRest
    BY <2>4, RestAccess
  <2>5. CASE UNCHANGED xvars
    <3>1. UNCHANGED <<requests, pc, call, result, operations, memory, held>>
      BY <2>5 DEF xvars, vars, data
    <3>2. Pending' = Pending
      BY <3>1 DEF Pending
    <3> QED BY <3>1, <3>2, SameOutcome DEF Access!vars
  <2> QED BY <2>1, <2>2, <2>3, <2>4, <2>5 DEF XNext
<1>3. Answers /\ Called /\ TypeOK /\ SuccessIsOwn => Faithful
  <2> SUFFICES ASSUME Answers, Called, TypeOK, SuccessIsOwn PROVE Faithful
    OBVIOUS
  <2> QED BY ReadReturned DEF Faithful
<1>4. XSpec => [](TypeOK /\ SocketOwn)
  BY ExchangeImplements, TypesAndSocket, PTL
<1>5. XSpec => [](ResultFresh /\ SuccessIsOwn)
  <2>1. Own => ResultFresh /\ SuccessIsOwn
    BY DEF Own
  <2> QED BY <2>1, ExchangeImplements, OwnCorrect, PTL
<1>6. XSpec => [](Once /\ Unsent)
  <2>1. Ordered => Once /\ Unsent
    BY DEF Ordered
  <2> QED BY <2>1, OrderedCorrect, PTL
<1>7. XSpec => []Inv
  BY <1>3, <1>4, <1>5, <1>6, AnswersCorrect, CalledCorrect, HeldOnceCorrect, PTL
<1> HIDE DEF Inv
<1> QED BY <1>1, <1>2, <1>7, PTL DEF XSpec, ImplementsAccess, Access!Spec
=============================================================================
