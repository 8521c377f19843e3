--------------------------- MODULE DataLoggerProofs ---------------------------
(***************************************************************************)
(* Proofs about DataLogger for every number of devices and channels.  The  *)
(* inductive invariant comes in layers, each proved from the one below:    *)
(* TypeOK; Control (the flags, the handles and the place where the process *)
(* stands agree); Buffers (what channelValues[] and the query hold during  *)
(* a pass, hence what the rows hold); Order (where the stored rows and the *)
(* failures stand relative to the current position).                       *)
(***************************************************************************)
EXTENDS DataLogger, TLAPS

-----------------------------------------------------------------------------
\* Indices, readings and rows.
LEMMA NatDevice == Device \subseteq Nat /\ Channel \subseteq Nat
  BY DEF Device, Channel, Log!Device, Log!Channel

LEMMA FirstIndex == 1 \in Device /\ 1 \in Channel
  BY DataLoggerAssumption DEF Device, Channel, Log!Device, Log!Channel

LEMMA NextIndex ==
  /\ \A d \in Device : d < DeviceCount => d + 1 \in Device
  /\ \A ch \in Channel : ch < ChannelCount => ch + 1 \in Channel
  BY DataLoggerAssumption DEF Device, Channel, Log!Device, Log!Channel

LEMMA SampleType ==
  \A c \in Nat, d \in Device, ch \in Channel : Log!Sample(c, d, ch) \in Reading
  BY DEF Log!Sample, Reading, Device, Channel, Log!Device, Log!Channel

LEMMA GarbageType ==
  /\ Garbage \in Reading
  /\ [ch \in Channel |-> Garbage] \in [Channel -> Reading]
  /\ NoRow \in Row
<1>1. Garbage \in Reading
  BY DEF Garbage, Log!Sample, Reading
<1>2. [ch \in Channel |-> Garbage] \in [Channel -> Reading]
  BY <1>1
<1>3. NoRow \in Row
  BY <1>2 DEF NoRow, Row
<1> QED BY <1>1, <1>2, <1>3

-----------------------------------------------------------------------------
\* Every variable keeps its type, for every number of devices and channels:
\* the loop indices of logValues never leave their arrays.
THEOREM TypeCorrect == Spec => []TypeOK
<1> USE DataLoggerAssumption
<1> USE DEF Labels, InTurn, Handles
<1>1. Init => TypeOK
  <2>1. <<>> \in Seq(Row)
    OBVIOUS
  <2>2. Init => channelValues \in [Channel -> Reading] /\ query \in Row
    BY GarbageType DEF Init
  <2>3. Init => /\ pc \in Labels
                /\ deviceHandles \in Handles /\ channelHandles \in Handles
                /\ turn \in Nat
    BY DEF Init
  <2>4. Init => deviceNr \in Device /\ channelNr \in Channel
    BY FirstIndex DEF Init
  <2>5. Init => table \in Seq(Row)
    BY <2>1 DEF Init
  <2>6. Init => failed \subseteq Nat \X Device
    BY Zenon DEF Init
  <2>7. Init => loop \in BOOLEAN /\ readOK \in BOOLEAN
    BY Zenon DEF Init
  <2> QED BY <2>2, <2>3, <2>4, <2>5, <2>6, <2>7 DEF TypeOK
<1>2. TypeOK /\ [Next]_vars => TypeOK'
  <2> SUFFICES ASSUME TypeOK, [Next]_vars PROVE TypeOK'
    OBVIOUS
  <2> USE DEF handles, flags, position, buffers, stored
  <2>1. CASE DetectNotAll BY <2>1 DEF TypeOK, DetectNotAll
  <2>2. CASE DetectAgain BY <2>2 DEF TypeOK, DetectAgain
  <2>3. CASE DetectError BY <2>3 DEF TypeOK, DetectError, Exit
  <2>4. CASE DetectOk BY <2>4 DEF TypeOK, DetectOk
  <2>5. CASE GetHandles BY <2>5 DEF TypeOK, GetHandles
  <2>6. CASE GetHandlesError BY <2>6 DEF TypeOK, GetHandlesError, Exit
  <2>7. CASE ResolveChannels
    BY <2>7, GarbageType DEF TypeOK, ResolveChannels
  <2>8. CASE ResolveError BY <2>8 DEF TypeOK, ResolveError, Exit
  <2>9. CASE StartTurn BY <2>9, FirstIndex DEF TypeOK, StartTurn, StartPass
  <2>10. CASE ReadChannel
    <3>1. Log!Sample(turn, deviceNr, channelNr) \in Reading
      BY SampleType DEF TypeOK
    <3>2. channelValues' \in [Channel -> Reading]
      BY <2>10, <3>1 DEF TypeOK, ReadChannel
    <3>3. channelNr' \in Channel
      BY <2>10, NextIndex DEF TypeOK, ReadChannel
    <3> QED BY <2>10, <3>2, <3>3 DEF TypeOK, ReadChannel
  <2>11. CASE ReadFails
    <3>1. <<turn, deviceNr>> \in Nat \X Device
      BY DEF TypeOK
    <3>2. failed' \subseteq Nat \X Device
      BY <2>11, <3>1 DEF TypeOK, ReadFails
    <3> QED BY <2>11, <3>2 DEF TypeOK, ReadFails, StopLogging
  <2>12. CASE BuildQuery
    <3>1. query' \in Row
      BY <2>12, NatDevice DEF TypeOK, BuildQuery, Row
    <3> QED BY <2>12, <3>1 DEF TypeOK, BuildQuery
  <2>13. CASE SkipInsert BY <2>13 DEF TypeOK, SkipInsert
  <2>14. CASE QueryOk
    <3>1. table' \in Seq(Row)
      BY <2>14 DEF TypeOK, QueryOk
    <3> QED BY <2>14, <3>1 DEF TypeOK, QueryOk
  <2>15. CASE QueryFails BY <2>15 DEF TypeOK, QueryFails
  <2>16. CASE ReplyLost
    <3>1. table' \in Seq(Row)
      BY <2>16 DEF TypeOK, ReplyLost
    <3> QED BY <2>16, <3>1 DEF TypeOK, ReplyLost
  <2>17. CASE ReconnectRetries BY <2>17 DEF TypeOK, ReconnectRetries
  <2>18. CASE ReconnectForgets BY <2>18 DEF TypeOK, ReconnectForgets
  <2>19. CASE ReconnectError BY <2>19 DEF TypeOK, ReconnectError, Exit
  <2>20. CASE NextDevice
    BY <2>20, FirstIndex, NextIndex
    DEF TypeOK, NextDevice, MoreDevices, StartPass
  <2>21. CASE EndTurn BY <2>21 DEF TypeOK, EndTurn
  <2>22. CASE Kill BY <2>22 DEF TypeOK, Kill, Exit
  <2>23. CASE Restart BY <2>23 DEF TypeOK, Restart
  <2>24. CASE UNCHANGED vars BY <2>24 DEF TypeOK, vars
  <2> QED
    BY <2>1, <2>2, <2>3, <2>4, <2>5, <2>6, <2>7, <2>8, <2>9, <2>10, <2>11,
       <2>12, <2>13, <2>14, <2>15, <2>16, <2>17, <2>18, <2>19, <2>20, <2>21,
       <2>22, <2>23, <2>24 DEF Next, Process
<1> QED BY <1>1, <1>2, PTL DEF Spec

-----------------------------------------------------------------------------
\* The flags say the same; a turn or an insertion is due only while they say
\* yes, and then with the handles of the latest detection.
Control ==
  /\ loop <=> readOK
  /\ pc \in {"sleep", "insert", "reconnect"} => readOK
  /\ pc = "logValues" => deviceHandles = "current"
  /\ pc = "sleep" => channelHandles = "current"
  /\ pc \in InTurn /\ readOK => channelHandles = "current"
  /\ pc # "shutdown"

\* Inside a pass channelValues[] holds readings of this pass up to the
\* channel the loop has come to, and the query holds nothing but them.
Buffers ==
  /\ pc = "read" =>
       \A ch \in Channel :
         ch < channelNr => channelValues[ch] = Log!Sample(turn, deviceNr, ch)
  /\ pc = "endPass" /\ readOK =>
       channelValues = [ch \in Channel |-> Log!Sample(turn, deviceNr, ch)]
  /\ pc \in {"insert", "reconnect"} => query = Log!Entry(turn, deviceNr)
  /\ RowsUnmixed

\* No row and no failure is younger than the current turn, no row of the
\* current turn is of a device still to come, and while the turn is good no
\* failure is recorded for it.
Order ==
  /\ \A i \in 1..Len(table) : table[i].turn <= turn
  /\ \A i \in 1..Len(table) :
       table[i].turn = turn => table[i].device <= deviceNr
  /\ pc \in {"read", "endPass"} =>
       \A i \in 1..Len(table) :
         table[i].turn = turn => table[i].device < deviceNr
  /\ \A c \in Nat, e \in Device : <<c, e>> \in failed => c <= turn
  /\ pc \in InTurn /\ readOK => \A e \in Device : <<turn, e>> \notin failed
  /\ NoRowPastFailure

\* The rows are in the order of turns and, within a turn, of devices: a row
\* sent again after a reconnection never lands behind a younger one.
RowsOrdered ==
  \A i, j \in 1..Len(table) :
    i < j => \/ table[i].turn < table[j].turn
             \/ /\ table[i].turn = table[j].turn
                /\ table[i].device <= table[j].device

-----------------------------------------------------------------------------
LEMMA ControlInit == Init => Control
  BY DEF Init, Control, InTurn

LEMMA ControlStep == TypeOK /\ Control /\ [Next]_vars => Control'
<1> SUFFICES ASSUME TypeOK, Control, [Next]_vars PROVE Control'
  OBVIOUS
<1> USE DEF Control, InTurn, handles, flags, position, buffers, stored
<1>1. CASE DetectNotAll BY <1>1 DEF DetectNotAll
<1>2. CASE DetectAgain BY <1>2 DEF DetectAgain
<1>3. CASE DetectError BY <1>3 DEF DetectError, Exit
<1>4. CASE DetectOk BY <1>4 DEF DetectOk
<1>5. CASE GetHandles BY <1>5 DEF GetHandles
<1>6. CASE GetHandlesError BY <1>6 DEF GetHandlesError, Exit
<1>7. CASE ResolveChannels BY <1>7 DEF ResolveChannels
<1>8. CASE ResolveError BY <1>8 DEF ResolveError, Exit
<1>9. CASE StartTurn BY <1>9 DEF StartTurn, StartPass
<1>10. CASE ReadChannel BY <1>10 DEF ReadChannel
<1>11. CASE ReadFails BY <1>11 DEF ReadFails, StopLogging
<1>12. CASE BuildQuery BY <1>12 DEF BuildQuery
<1>13. CASE SkipInsert BY <1>13 DEF SkipInsert
<1>14. CASE QueryOk BY <1>14 DEF QueryOk
<1>15. CASE QueryFails BY <1>15 DEF QueryFails
<1>16. CASE ReplyLost BY <1>16 DEF ReplyLost
<1>17. CASE ReconnectRetries BY <1>17 DEF ReconnectRetries
<1>18. CASE ReconnectForgets BY <1>18 DEF ReconnectForgets
<1>19. CASE ReconnectError BY <1>19 DEF ReconnectError, Exit
<1>20. CASE NextDevice BY <1>20 DEF NextDevice, MoreDevices, StartPass
<1>21. CASE EndTurn BY <1>21 DEF EndTurn, MoreDevices
<1>22. CASE Kill BY <1>22 DEF Kill, Exit
<1>23. CASE Restart BY <1>23 DEF Restart
<1>24. CASE UNCHANGED vars BY <1>24 DEF vars
<1> QED
  BY <1>1, <1>2, <1>3, <1>4, <1>5, <1>6, <1>7, <1>8, <1>9, <1>10, <1>11,
     <1>12, <1>13, <1>14, <1>15, <1>16, <1>17, <1>18, <1>19, <1>20, <1>21,
     <1>22, <1>23, <1>24 DEF Next, Process

\* The handles of every due turn and insertion are those of the latest
\* detection, and the shutdown at the end of main is never reached.
THEOREM ControlCorrect == Spec => [](HandlesCurrent /\ NeverShutsDown)
<1>1. Control => HandlesCurrent /\ NeverShutsDown
  BY DEF Control, HandlesCurrent, NeverShutsDown, InTurn
<1> QED
  BY <1>1, TypeCorrect, ControlInit, ControlStep, PTL DEF Spec

\* logValues always leads back to the detection (logger.c:195-217, 224-280): the shutdown at
\* the end of main is never reached.
THEOREM NeverShutsDownCorrect == Spec => []NeverShutsDown
  BY ControlCorrect, PTL

-----------------------------------------------------------------------------
\* Rows.
LEMMA EntryFields ==
  \A c, d : Log!Entry(c, d).turn = c /\ Log!Entry(c, d).device = d
  BY DEF Log!Entry

LEMMA AppendedRow ==
  ASSUME NEW s \in Seq(Row), NEW r \in Row,
         NEW i \in 1..Len(Append(s, r))
  PROVE  \/ i \in 1..Len(s) /\ Append(s, r)[i] = s[i]
         \/ i = Len(s) + 1 /\ Append(s, r)[i] = r
  OBVIOUS

LEMMA RowFields ==
  TypeOK =>
    \A i \in 1..Len(table) :
      table[i] \in Row /\ table[i].turn \in Nat /\ table[i].device \in Nat
<1>1. \A r \in Row : r.turn \in Nat /\ r.device \in Nat
  BY DEF Row
<1>2. TypeOK => \A i \in 1..Len(table) : table[i] \in Row
  BY DEF TypeOK
<1> QED BY <1>1, <1>2

-----------------------------------------------------------------------------
LEMMA BuffersInit == Init => Buffers
  BY DEF Init, Buffers, RowsUnmixed

LEMMA BuffersStep == TypeOK /\ Buffers /\ [Next]_vars => Buffers'
<1> SUFFICES ASSUME TypeOK, Buffers, [Next]_vars PROVE Buffers'
  OBVIOUS
<1> USE DEF handles, flags, position, buffers, stored
<1>1. CASE DetectNotAll BY <1>1 DEF Buffers, RowsUnmixed, DetectNotAll
<1>2. CASE DetectAgain BY <1>2 DEF Buffers, RowsUnmixed, DetectAgain
<1>3. CASE DetectError BY <1>3 DEF Buffers, RowsUnmixed, DetectError, Exit
<1>4. CASE DetectOk BY <1>4 DEF Buffers, RowsUnmixed, DetectOk
<1>5. CASE GetHandles BY <1>5 DEF Buffers, RowsUnmixed, GetHandles
<1>6. CASE GetHandlesError
  BY <1>6 DEF Buffers, RowsUnmixed, GetHandlesError, Exit
<1>7. CASE ResolveChannels
  BY <1>7 DEF Buffers, RowsUnmixed, ResolveChannels
<1>8. CASE ResolveError
  BY <1>8 DEF Buffers, RowsUnmixed, ResolveError, Exit
<1>9. CASE StartTurn
  <2>1. \A ch \in Channel : ~(ch < 1)
    BY DEF Channel, Log!Channel
  <2> QED BY <1>9, <2>1 DEF Buffers, RowsUnmixed, StartTurn, StartPass
<1>10. CASE ReadChannel
  <2>1. channelValues \in [Channel -> Reading] /\ channelNr \in Channel
    BY DEF TypeOK
  <2>2. \A ch \in Channel :
          ch < channelNr + 1 =>
            channelValues'[ch] = Log!Sample(turn, deviceNr, ch)
    BY <1>10, <2>1, NatDevice DEF Buffers, ReadChannel
  <2>3. CASE channelNr < ChannelCount
    <3>1. pc' = "read" /\ channelNr' = channelNr + 1
      BY <1>10, <2>3, <2>1, DataLoggerAssumption
      DEF ReadChannel, Channel, Log!Channel
    <3> QED
      BY <1>10, <2>2, <3>1 DEF Buffers, RowsUnmixed, ReadChannel
  <2>4. CASE channelNr = ChannelCount
    <3>1. \A ch \in Channel : ch < channelNr + 1
      BY <2>4, DataLoggerAssumption DEF Channel, Log!Channel
    <3>2. channelValues' \in [Channel -> Reading]
      BY <1>10, <2>1, SampleType DEF TypeOK, ReadChannel
    <3>3. channelValues' = [ch \in Channel |-> Log!Sample(turn, deviceNr, ch)]
      BY <2>2, <3>1, <3>2
    <3> QED
      BY <1>10, <2>4, <3>3 DEF Buffers, RowsUnmixed, ReadChannel
  <2> QED BY <1>10, <2>3, <2>4 DEF ReadChannel
<1>11. CASE ReadFails
  BY <1>11 DEF Buffers, RowsUnmixed, ReadFails, StopLogging
<1>12. CASE BuildQuery
  BY <1>12 DEF Buffers, RowsUnmixed, BuildQuery, Log!Entry, Channel
<1>13. CASE SkipInsert BY <1>13 DEF Buffers, RowsUnmixed, SkipInsert
<1>14. CASE QueryOk
  <2>1. /\ table \in Seq(Row) /\ query \in Row
        /\ query = Log!Entry(turn, deviceNr)
        /\ table' = Append(table, query)
    BY <1>14 DEF QueryOk, TypeOK, Buffers
  <2>2. \A i \in 1..Len(table') :
          table'[i] = Log!Entry(table'[i].turn, table'[i].device)
    BY <2>1, EntryFields, AppendedRow DEF TypeOK, Buffers, RowsUnmixed
  <2> QED BY <1>14, <2>2 DEF Buffers, RowsUnmixed, QueryOk
<1>15. CASE QueryFails BY <1>15 DEF Buffers, RowsUnmixed, QueryFails
<1>16. CASE ReplyLost
  <2>1. /\ table \in Seq(Row) /\ query \in Row
        /\ query = Log!Entry(turn, deviceNr)
        /\ table' = Append(table, query)
    BY <1>16 DEF ReplyLost, TypeOK, Buffers
  <2>2. \A i \in 1..Len(table') :
          table'[i] = Log!Entry(table'[i].turn, table'[i].device)
    BY <2>1, EntryFields, AppendedRow DEF TypeOK, Buffers, RowsUnmixed
  <2> QED BY <1>16, <2>2 DEF Buffers, RowsUnmixed, ReplyLost
<1>17. CASE ReconnectRetries
  BY <1>17 DEF Buffers, RowsUnmixed, ReconnectRetries
<1>18. CASE ReconnectForgets
  BY <1>18 DEF Buffers, RowsUnmixed, ReconnectForgets
<1>19. CASE ReconnectError
  BY <1>19 DEF Buffers, RowsUnmixed, ReconnectError, Exit
<1>20. CASE NextDevice
  <2>1. \A ch \in Channel : ~(ch < 1)
    BY DEF Channel, Log!Channel
  <2> QED
    BY <1>20, <2>1 DEF Buffers, RowsUnmixed, NextDevice, StartPass
<1>21. CASE EndTurn BY <1>21 DEF Buffers, RowsUnmixed, EndTurn, MoreDevices
<1>22. CASE Kill BY <1>22 DEF Buffers, RowsUnmixed, Kill, Exit
<1>23. CASE Restart BY <1>23 DEF Buffers, RowsUnmixed, Restart
<1>24. CASE UNCHANGED vars BY <1>24 DEF Buffers, RowsUnmixed, vars
<1> QED
  BY <1>1, <1>2, <1>3, <1>4, <1>5, <1>6, <1>7, <1>8, <1>9, <1>10, <1>11,
     <1>12, <1>13, <1>14, <1>15, <1>16, <1>17, <1>18, <1>19, <1>20, <1>21,
     <1>22, <1>23, <1>24 DEF Next, Process

\* A row never mixes readings of two passes, for any number of devices and
\* channels, although one buffer serves them all.
THEOREM RowsUnmixedCorrect == Spec => []RowsUnmixed
<1>1. Buffers => RowsUnmixed
  BY DEF Buffers
<1> QED
  BY <1>1, TypeCorrect, BuffersInit, BuffersStep, PTL DEF Spec

-----------------------------------------------------------------------------
LEMMA OrderInit == Init => Order
  BY DEF Init, Order, NoRowPastFailure, InTurn

LEMMA OrderStep ==
  TypeOK /\ Control /\ Buffers /\ Order /\ [Next]_vars => Order'
<1> SUFFICES ASSUME TypeOK, Control, Buffers, Order, [Next]_vars PROVE Order'
  OBVIOUS
<1> USE DEF handles, flags, position, buffers, stored
<1>1. CASE DetectNotAll
  BY <1>1 DEF Order, NoRowPastFailure, InTurn, DetectNotAll
<1>2. CASE DetectAgain
  BY <1>2 DEF Order, NoRowPastFailure, InTurn, DetectAgain
<1>3. CASE DetectError
  BY <1>3 DEF Order, NoRowPastFailure, InTurn, DetectError, Exit
<1>4. CASE DetectOk BY <1>4 DEF Order, NoRowPastFailure, InTurn, DetectOk
<1>5. CASE GetHandles
  BY <1>5 DEF Order, NoRowPastFailure, InTurn, GetHandles
<1>6. CASE GetHandlesError
  BY <1>6 DEF Order, NoRowPastFailure, InTurn, GetHandlesError, Exit
<1>7. CASE ResolveChannels
  BY <1>7 DEF Order, NoRowPastFailure, InTurn, ResolveChannels
<1>8. CASE ResolveError
  BY <1>8 DEF Order, NoRowPastFailure, InTurn, ResolveError, Exit
<1>9. CASE StartTurn
  <2>1. /\ \A i \in 1..Len(table) : table[i].turn < turn'
        /\ \A i \in 1..Len(table) : table[i].turn # turn'
        /\ \A e \in Device : <<turn', e>> \notin failed
    BY <1>9, RowFields DEF TypeOK, Order, StartTurn
  <2>2. \A c \in Nat, e \in Device : <<c, e>> \in failed => c <= turn'
    BY <1>9 DEF TypeOK, Order, StartTurn
  <2> QED BY <1>9, <2>1, <2>2, RowFields
    DEF Order, NoRowPastFailure, StartTurn, StartPass, TypeOK
<1>10. CASE ReadChannel
  BY <1>10 DEF Order, NoRowPastFailure, InTurn, ReadChannel
<1>11. CASE ReadFails
  <2>1. \A c \in Nat, e \in Device :
          <<c, e>> \in failed' =>
            <<c, e>> \in failed \/ (c = turn /\ e = deviceNr)
    BY <1>11 DEF ReadFails
  <2>2. \A c \in Nat, e \in Device : <<c, e>> \in failed' => c <= turn
    BY <2>1 DEF Order, TypeOK
  <2>3. NoRowPastFailure'
    BY <1>11, <2>1, RowFields DEF Order, NoRowPastFailure, ReadFails
  <2> QED BY <1>11, <2>2, <2>3 DEF Order, ReadFails, StopLogging
<1>12. CASE BuildQuery
  BY <1>12 DEF Order, NoRowPastFailure, InTurn, BuildQuery
<1>13. CASE SkipInsert
  BY <1>13 DEF Order, NoRowPastFailure, InTurn, SkipInsert
<1>14. CASE QueryOk
  <2>1. /\ table \in Seq(Row) /\ query \in Row
        /\ query = Log!Entry(turn, deviceNr)
        /\ table' = Append(table, query)
    BY <1>14 DEF QueryOk, TypeOK, Buffers
  <2>2. query.turn = turn /\ query.device = deviceNr
    BY <2>1, EntryFields
  <2>3. readOK /\ pc \in InTurn /\ deviceNr \in Nat /\ turn \in Nat
    BY <1>14, NatDevice DEF QueryOk, Control, TypeOK, InTurn
  <2>4. /\ \A i \in 1..Len(table') : table'[i].turn <= turn
        /\ \A i \in 1..Len(table') :
             table'[i].turn = turn => table'[i].device <= deviceNr
    BY <2>1, <2>2, <2>3, AppendedRow DEF Order
  <2>5. \A i \in 1..Len(table'), e \in Device :
          <<table'[i].turn, e>> \in failed => table'[i].device < e
    BY <2>1, <2>2, <2>3, AppendedRow DEF Order, NoRowPastFailure
  <2> QED BY <1>14, <2>4, <2>5
    DEF Order, NoRowPastFailure, InTurn, QueryOk
<1>15. CASE QueryFails
  BY <1>15 DEF Order, NoRowPastFailure, InTurn, QueryFails
<1>16. CASE ReplyLost
  <2>1. /\ table \in Seq(Row) /\ query \in Row
        /\ query = Log!Entry(turn, deviceNr)
        /\ table' = Append(table, query)
    BY <1>16 DEF ReplyLost, TypeOK, Buffers
  <2>2. query.turn = turn /\ query.device = deviceNr
    BY <2>1, EntryFields
  <2>3. readOK /\ pc \in InTurn /\ deviceNr \in Nat /\ turn \in Nat
    BY <1>16, NatDevice DEF ReplyLost, Control, TypeOK, InTurn
  <2>4. /\ \A i \in 1..Len(table') : table'[i].turn <= turn
        /\ \A i \in 1..Len(table') :
             table'[i].turn = turn => table'[i].device <= deviceNr
    BY <2>1, <2>2, <2>3, AppendedRow DEF Order
  <2>5. \A i \in 1..Len(table'), e \in Device :
          <<table'[i].turn, e>> \in failed => table'[i].device < e
    BY <2>1, <2>2, <2>3, AppendedRow DEF Order, NoRowPastFailure
  <2> QED BY <1>16, <2>4, <2>5
    DEF Order, NoRowPastFailure, InTurn, ReplyLost
<1>17. CASE ReconnectRetries
  BY <1>17 DEF Order, NoRowPastFailure, InTurn, ReconnectRetries
<1>18. CASE ReconnectForgets
  BY <1>18 DEF Order, NoRowPastFailure, InTurn, ReconnectForgets
<1>19. CASE ReconnectError
  BY <1>19 DEF Order, NoRowPastFailure, InTurn, ReconnectError, Exit
<1>20. CASE NextDevice
  <2>1. \A i \in 1..Len(table) :
          table[i].turn = turn => table[i].device < deviceNr + 1
    BY NatDevice, RowFields DEF TypeOK, Order
  <2>2. \A i \in 1..Len(table) :
          table[i].turn = turn => table[i].device <= deviceNr + 1
    BY <2>1, NatDevice, RowFields DEF TypeOK
  <2> QED BY <1>20, <2>1, <2>2
    DEF Order, NoRowPastFailure, InTurn, NextDevice, StartPass
<1>21. CASE EndTurn
  BY <1>21 DEF Order, NoRowPastFailure, InTurn, EndTurn, MoreDevices
<1>22. CASE Kill BY <1>22 DEF Order, NoRowPastFailure, InTurn, Kill, Exit
<1>23. CASE Restart BY <1>23 DEF Order, NoRowPastFailure, InTurn, Restart
<1>24. CASE UNCHANGED vars
  BY <1>24 DEF Order, NoRowPastFailure, InTurn, vars
<1> QED
  BY <1>1, <1>2, <1>3, <1>4, <1>5, <1>6, <1>7, <1>8, <1>9, <1>10, <1>11,
     <1>12, <1>13, <1>14, <1>15, <1>16, <1>17, <1>18, <1>19, <1>20, <1>21,
     <1>22, <1>23, <1>24 DEF Next, Process

\* After a failed read nothing of the rest of the turn is stored, for any
\* number of devices, although the device loop reads on.
THEOREM NoRowPastFailureCorrect == Spec => []NoRowPastFailure
<1>1. Order => NoRowPastFailure
  BY DEF Order
<1> QED
  BY <1>1, TypeCorrect, ControlInit, ControlStep, BuffersInit, BuffersStep,
     OrderInit, OrderStep, PTL DEF Spec

-----------------------------------------------------------------------------
\* The order of the rows.

LEMMA OrderedStep ==
  TypeOK /\ Control /\ Buffers /\ Order /\ RowsOrdered /\ [Next]_vars
    => RowsOrdered'
<1> SUFFICES ASSUME TypeOK, Control, Buffers, Order, RowsOrdered, [Next]_vars
             PROVE  RowsOrdered'
  OBVIOUS
<1>1. CASE QueryOk \/ ReplyLost
  <2>1. /\ table \in Seq(Row) /\ query \in Row
        /\ query = Log!Entry(turn, deviceNr)
        /\ table' = Append(table, query)
    BY <1>1 DEF QueryOk, ReplyLost, TypeOK, Buffers
  <2>2. query.turn = turn /\ query.device = deviceNr
    BY <2>1, EntryFields
  <2>3. deviceNr \in Nat /\ turn \in Nat
    BY NatDevice DEF TypeOK
  <2> SUFFICES ASSUME NEW i \in 1..Len(table'), NEW j \in 1..Len(table'), i < j
               PROVE  \/ table'[i].turn < table'[j].turn
                      \/ /\ table'[i].turn = table'[j].turn
                         /\ table'[i].device <= table'[j].device
    BY DEF RowsOrdered
  <2>4. i \in 1..Len(table) /\ table'[i] = table[i]
    BY <2>1
  <2>5. CASE j \in 1..Len(table)
    <3>1. table'[j] = table[j]
      BY <2>1, <2>5
    <3> QED BY <2>4, <2>5, <3>1 DEF RowsOrdered
  <2>6. CASE j = Len(table) + 1
    <3>1. table'[j] = query
      BY <2>1, <2>6
    <3>2. table[i].turn \in Nat /\ table[i].device \in Nat
      BY <2>4, RowFields
    <3>3. /\ table[i].turn <= turn
          /\ table[i].turn = turn => table[i].device <= deviceNr
      BY <2>4 DEF Order
    <3> QED BY <2>2, <2>3, <2>4, <3>1, <3>2, <3>3
  <2> QED BY <2>1, <2>5, <2>6
<1>2. CASE UNCHANGED table
  BY <1>2 DEF RowsOrdered
<1>3. QueryOk \/ ReplyLost \/ UNCHANGED table
  BY DEF Next, Process, vars, handles, flags, position, buffers, stored, Exit,
     DetectNotAll, DetectAgain, DetectError, DetectOk, GetHandles,
     GetHandlesError, ResolveChannels, ResolveError, StartTurn, ReadChannel,
     ReadFails, BuildQuery, SkipInsert, QueryFails, ReconnectRetries,
     ReconnectForgets, ReconnectError, NextDevice, EndTurn, Kill, Restart
<1> QED BY <1>1, <1>2, <1>3

\* Rows are stored in the order of turns and devices: retries after a
\* reconnection duplicate or lose a row, they never reorder the table.
THEOREM RowsOrderedCorrect == Spec => []RowsOrdered
<1>1. Init => RowsOrdered
  BY DEF Init, RowsOrdered
<1> QED
  BY <1>1, TypeCorrect, ControlInit, ControlStep, BuffersInit, BuffersStep,
     OrderInit, OrderStep, OrderedStep, PTL DEF Spec

-----------------------------------------------------------------------------
\* The logger implements the log that the readers of the table rely on.

LEMMA LogStep ==
  TypeOK /\ Control /\ Buffers /\ [Next]_vars => [Log!Next]_(Log!vars)
<1> SUFFICES ASSUME TypeOK, Control, Buffers, [Next]_vars
             PROVE  Log!Next \/ UNCHANGED Log!vars
  OBVIOUS
<1> USE DEF Phase, InTurn, Log!Next, handles, flags, position, buffers, stored
<1>1. CASE DetectNotAll BY <1>1 DEF DetectNotAll, Log!Lose
<1>2. CASE DetectAgain BY <1>2 DEF DetectAgain, Log!Lose
<1>3. CASE DetectError BY <1>3 DEF DetectError, Log!Lose, Exit
<1>4. CASE DetectOk BY <1>4 DEF DetectOk, Log!Lose
<1>5. CASE GetHandles BY <1>5 DEF GetHandles, Log!Lose
<1>6. CASE GetHandlesError BY <1>6 DEF GetHandlesError, Log!Lose, Exit
<1>7. CASE ResolveChannels BY <1>7 DEF ResolveChannels, Log!Recover
<1>8. CASE ResolveError BY <1>8 DEF ResolveError, Log!Lose, Exit
<1>9. CASE StartTurn
  BY <1>9 DEF StartTurn, StartPass, Control, Log!NewTurn
<1>10. CASE ReadChannel BY <1>10 DEF ReadChannel, Log!vars
<1>11. CASE ReadFails BY <1>11 DEF ReadFails, Log!Lose, StopLogging
<1>12. CASE BuildQuery BY <1>12 DEF BuildQuery, Log!vars
<1>13. CASE SkipInsert BY <1>13 DEF SkipInsert, Log!Lose
<1>14. CASE QueryOk
  <2>1. Phase = "logging" /\ Phase' = "logging"
    BY <1>14 DEF QueryOk, Control
  <2> QED BY <1>14, <2>1 DEF QueryOk, Buffers, Log!Store
<1>15. CASE QueryFails BY <1>15 DEF QueryFails, Log!vars
<1>16. CASE ReplyLost
  <2>1. Phase = "logging" /\ Phase' = "logging"
    BY <1>16 DEF ReplyLost, Control
  <2> QED BY <1>16, <2>1 DEF ReplyLost, Buffers, Log!Store
<1>17. CASE ReconnectRetries BY <1>17 DEF ReconnectRetries, Log!vars
<1>18. CASE ReconnectForgets BY <1>18 DEF ReconnectForgets, Log!vars
<1>19. CASE ReconnectError BY <1>19 DEF ReconnectError, Log!Lose, Exit
<1>20. CASE NextDevice
  BY <1>20 DEF NextDevice, MoreDevices, StartPass, Log!Advance
<1>21. CASE EndTurn
  <2>1. deviceNr = DeviceCount
    BY <1>21, DataLoggerAssumption
    DEF EndTurn, MoreDevices, TypeOK, Device, Log!Device
  <2>2. CASE loop
    BY <1>21, <2>1, <2>2 DEF EndTurn, Control, Log!EndTurn
  <2>3. CASE ~loop
    BY <1>21, <2>3 DEF EndTurn, Control, Log!Lose
  <2> QED BY <2>2, <2>3
<1>22. CASE Kill BY <1>22 DEF Kill, Log!Lose, Exit
<1>23. CASE Restart BY <1>23 DEF Restart, Log!Lose
<1>24. CASE UNCHANGED vars BY <1>24 DEF vars, Log!vars
<1> QED
  BY <1>1, <1>2, <1>3, <1>4, <1>5, <1>6, <1>7, <1>8, <1>9, <1>10, <1>11,
     <1>12, <1>13, <1>14, <1>15, <1>16, <1>17, <1>18, <1>19, <1>20, <1>21,
     <1>22, <1>23, <1>24 DEF Next, Process

\* Whatever the numbers of devices and channels, every step of the logger is a
\* step of the abstract log or leaves the log as it is.
THEOREM LogImplemented == Spec => ImplementsSampleLog
<1>1. Init => Log!Init
  BY DEF Init, Log!Init, Phase, InTurn
<1> QED
  BY <1>1, TypeCorrect, ControlInit, ControlStep, BuffersInit, BuffersStep,
     LogStep, PTL DEF Spec, ImplementsSampleLog, Log!Spec
=============================================================================
