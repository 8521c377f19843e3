------------------------------ MODULE DataLogger ------------------------------
(***************************************************************************)
(* The logging half of scripts/datalogger: startDeviceLogging and          *)
(* logValues of logger.c, insertValues and reconnect of db.c, and the      *)
(* table logged_values they fill.  The process polls every device for      *)
(* every channel, stores one row per device and turn, detects the devices  *)
(* again after a failed read, and can be killed and started again at any   *)
(* point.  The table survives; everything else is the memory of the        *)
(* process.                                                                *)
(*                                                                         *)
(* YASDI (device detection, handles, channel reads) and the MySQL client   *)
(* are external: each of their calls is a choice among the outcomes the    *)
(* code distinguishes.  Time is abstracted: module LoopSchedule has it.    *)
(*                                                                         *)
(* Devices and channels are numbered from 1, where the C arrays start at 0.*)
(***************************************************************************)
EXTENDS Naturals, Sequences

CONSTANTS
  DeviceCount,    \* deviceCount of yasdi.ini
  ChannelCount,   \* length of channelNames[]
  MaxTurns,       \* bound: turns of while (loop) started, all processes
  MaxRows         \* bound: a reply is lost only below this table length

ASSUME DataLoggerAssumption ==
  /\ DeviceCount \in Nat \ {0}
  /\ ChannelCount \in Nat \ {0}
  /\ MaxTurns \in Nat
  /\ MaxRows \in Nat

VARIABLES
  pc,              \* where the process stands
  deviceHandles,   \* what deviceHandles[] holds
  channelHandles,  \* what channelHandles[][] holds
  turn,            \* history: turns of while (loop) started so far
  deviceNr,        \* device loop index
  channelNr,       \* channel loop index
  channelValues,   \* channelValues[]: the reading each entry holds
  loop,            \* flag: go on with another turn
  readOK,          \* flag: no read has failed since detection
  query,           \* the row in the INSERT text insertValues built
  table,           \* logged_values, in the order of insertion
  failed           \* history: <<turn, device>> of each failed read

vars == <<pc, deviceHandles, channelHandles, turn, deviceNr, channelNr,
          channelValues, loop, readOK, query, table, failed>>

handles == <<deviceHandles, channelHandles>>
flags == <<loop, readOK>>
position == <<turn, deviceNr, channelNr>>
buffers == <<channelValues, query>>
stored == <<table, failed>>

-----------------------------------------------------------------------------
\* The labels inside a turn of while (loop).
InTurn == {"read", "endPass", "insert", "reconnect", "passDone"}

\* The logger as the reader of the table sees it.
Phase ==
  CASE pc = "sleep" -> "waiting"
    [] pc \in InTurn /\ readOK -> "logging"
    [] OTHER -> "lost"

Log == INSTANCE SampleLog WITH log <- table, at <- deviceNr, phase <- Phase

Device == Log!Device

Channel == Log!Channel

\* An entry of channelValues[] that this call of logValues has not written
\* (the array is a local variable without initialiser).
Garbage == Log!Sample(0, 0, 0)

NoRow == [turn |-> 0, device |-> 0, values |-> [ch \in Channel |-> Garbage]]

Reading == [turn : Nat, device : Nat, channel : Nat]

Row == [turn : Nat, device : Nat, values : [Channel -> Reading]]

Handles == {"unset",     \* never obtained by this process
            "suspect",   \* obtained before a loss or a new detection
            "current"}   \* obtained from the latest detection

Labels == InTurn \union
  {"detect", "detectSleep", "getHandles", "logValues", "sleep", "shutdown",
   "exited"}

-----------------------------------------------------------------------------
Init ==
  /\ pc = "detect"
  /\ deviceHandles = "unset"
  /\ channelHandles = "unset"
  /\ turn = 0
  /\ deviceNr = 1
  /\ channelNr = 1
  /\ channelValues = [ch \in Channel |-> Garbage]
  /\ loop = FALSE
  /\ readOK = FALSE
  /\ query = NoRow
  /\ table = <<>>
  /\ failed = {}

\* exit(code), from wherever an error is fatal.
Exit ==
  /\ pc' = "exited"
  /\ UNCHANGED <<handles, position, buffers, flags, stored>>

-----------------------------------------------------------------------------
\* startDeviceLogging: detect until every device is found.

\* YE_NOT_ALL_DEVS_FOUND: sleep(requestedInterval) and detect again.
DetectNotAll ==
  /\ pc = "detect"
  /\ pc' = "detectSleep"
  /\ UNCHANGED <<handles, position, buffers, flags, stored>>

DetectAgain ==
  /\ pc = "detectSleep"
  /\ pc' = "detect"
  /\ UNCHANGED <<handles, position, buffers, flags, stored>>

\* YE_DEV_DETECT_IN_PROGRESS and unknown codes: exit(-40), exit(-41).
DetectError ==
  /\ pc = "detect"
  /\ Exit

\* Mutant: the handles of the previous detection are taken to be still good.
DetectOkKeepsHandles ==
  /\ pc = "detect"
  /\ pc' = "logValues"
  /\ UNCHANGED <<handles, position, buffers, flags, stored>>

\* YE_OK: handles of an earlier detection may no longer name the devices.
DetectOk ==
  /\ pc = "detect"
  /\ pc' = "getHandles"
  /\ deviceHandles' = IF deviceHandles = "unset" THEN "unset" ELSE "suspect"
  /\ channelHandles' = IF channelHandles = "unset" THEN "unset" ELSE "suspect"
  /\ UNCHANGED <<position, buffers, flags, stored>>

\* GetDeviceHandles fills deviceHandles[] for all deviceCount devices.
GetHandles ==
  /\ pc = "getHandles"
  /\ deviceHandles' = "current"
  /\ pc' = "logValues"
  /\ UNCHANGED <<channelHandles, position, buffers, flags, stored>>

\* devCount != deviceCount: exit(-42).
GetHandlesError ==
  /\ pc = "getHandles"
  /\ Exit

-----------------------------------------------------------------------------
\* logValues.

\* Every channel name is resolved on every device; the flags are set; the
\* process sleeps until its first scheduled turn.
ResolveChannels ==
  /\ pc = "logValues"
  /\ channelHandles' = deviceHandles
  /\ channelValues' = [ch \in Channel |-> Garbage]
  /\ loop' = TRUE
  /\ readOK' = TRUE
  /\ pc' = "sleep"
  /\ UNCHANGED <<deviceHandles, position, query, stored>>

\* A channel name a device does not know: exit(-50).
ResolveError ==
  /\ pc = "logValues"
  /\ Exit

\* Mutant: the channel loop goes on from where the previous one ended.
StartPassMidway(d) ==
  /\ deviceNr' = d
  /\ UNCHANGED channelNr

\* The device loop enters its body for device d.
StartPass(d) ==
  /\ deviceNr' = d
  /\ channelNr' = 1

\* The sleep is over, or the previous turn overran: a new turn begins.
StartTurn ==
  /\ pc = "sleep"
  /\ turn < MaxTurns
  /\ turn' = turn + 1
  /\ StartPass(1)
  /\ pc' = "read"
  /\ UNCHANGED <<handles, buffers, flags, stored>>

\* GetChannelValue returned 0: the reading is copied into channelValues[].
ReadChannel ==
  /\ pc = "read"
  /\ channelValues' = [channelValues EXCEPT ![channelNr] =
                         Log!Sample(turn, deviceNr, channelNr)]
  /\ \/ /\ channelNr < ChannelCount
        /\ channelNr' = channelNr + 1
        /\ UNCHANGED pc
     \/ /\ channelNr = ChannelCount
        /\ pc' = "endPass"
        /\ UNCHANGED channelNr
  /\ UNCHANGED <<handles, turn, deviceNr, query, flags, stored>>

\* Mutant: only the loop is told of the failure, not the insertion.
StopLoopOnly ==
  /\ loop' = FALSE
  /\ UNCHANGED readOK

\* Mutant: only the insertion is told of the failure, not the loop.
StopInsertsOnly ==
  /\ readOK' = FALSE
  /\ UNCHANGED loop

\* The flags after a failed read.
StopLogging ==
  /\ readOK' = FALSE
  /\ loop' = FALSE

\* GetChannelValue failed: "connection with at least one device was lost".
\* The break leaves the channel loop only; the device loop goes on.
ReadFails ==
  /\ pc = "read"
  /\ StopLogging
  /\ channelHandles' = "suspect"
  /\ failed' = failed \union {<<turn, deviceNr>>}
  /\ pc' = "endPass"
  /\ UNCHANGED <<deviceHandles, position, buffers, table>>

\* if (readOK) insertValues(...): the INSERT text is built from channelValues[].
BuildQuery ==
  /\ pc = "endPass"
  /\ readOK
  /\ query' = [turn |-> turn, device |-> deviceNr, values |-> channelValues]
  /\ pc' = "insert"
  /\ UNCHANGED <<handles, position, channelValues, flags, stored>>

\* Mutant: the device that failed is read again until it answers.
SkipInsertRetries ==
  /\ pc = "endPass"
  /\ ~readOK
  /\ pc' = "read"
  /\ UNCHANGED <<handles, position, buffers, flags, stored>>

\* A read failed in this pass or earlier in this turn: nothing is inserted.
SkipInsert ==
  /\ pc = "endPass"
  /\ ~readOK
  /\ pc' = "passDone"
  /\ UNCHANGED <<handles, position, buffers, flags, stored>>

-----------------------------------------------------------------------------
\* insertValues: while (errno != 0) { mysql_query; on error reconnect }.

\* mysql_query returned 0.
QueryOk ==
  /\ pc = "insert"
  /\ table' = Append(table, query)
  /\ pc' = "passDone"
  /\ UNCHANGED <<handles, position, buffers, flags, failed>>

\* mysql_query failed before the server stored anything.
QueryFails ==
  /\ pc = "insert"
  /\ pc' = "reconnect"
  /\ UNCHANGED <<handles, position, buffers, flags, stored>>

\* The server stored the row, and the connection broke before its reply.
ReplyLost ==
  /\ pc = "insert"
  /\ Len(table) < MaxRows
  /\ table' = Append(table, query)
  /\ pc' = "reconnect"
  /\ UNCHANGED <<handles, position, buffers, flags, failed>>

\* reconnect() succeeded; sleep(1); errno still differs from 0: send again.
ReconnectRetries ==
  /\ pc = "reconnect"
  /\ pc' = "insert"
  /\ UNCHANGED <<handles, position, buffers, flags, stored>>

\* reconnect() succeeded; sleep(1); but the errno the loop tests is 0.  The
\* "int errno" of insertValues declares no variable: errno is a macro, and the
\* loop reads the errno of the thread, which the successful calls made by
\* reconnect() may have left at any value.
ReconnectForgets ==
  /\ pc = "reconnect"
  /\ pc' = "passDone"
  /\ UNCHANGED <<handles, position, buffers, flags, stored>>

\* No connection structure, or no connection: exit(-10), exit(-11).
ReconnectError ==
  /\ pc = "reconnect"
  /\ Exit

-----------------------------------------------------------------------------
\* Mutant: the device loop runs one device too far.
MoreDevicesOffByOne == deviceNr <= DeviceCount

\* The condition of the device loop, after its increment.
MoreDevices == deviceNr < DeviceCount

NextDevice ==
  /\ pc = "passDone"
  /\ MoreDevices
  /\ StartPass(deviceNr + 1)
  /\ pc' = "read"
  /\ UNCHANGED <<handles, turn, buffers, flags, stored>>

\* After the last device: sleep until the next turn, or return readOK to
\* startDeviceLogging, which detects again when it is false and else returns
\* to main, where the drivers and the database are shut down.
EndTurn ==
  /\ pc = "passDone"
  /\ ~MoreDevices
  /\ pc' = IF loop THEN "sleep" ELSE IF readOK THEN "shutdown" ELSE "detect"
  /\ UNCHANGED <<handles, position, buffers, flags, stored>>

-----------------------------------------------------------------------------
\* A signal, a crash or a power cut.
Kill ==
  /\ pc # "exited"
  /\ Exit

\* start-daemon.sh starts a new process.  Its local variables are written
\* before they are read, so what they hold here is of no consequence.
Restart ==
  /\ pc = "exited"
  /\ pc' = "detect"
  /\ deviceHandles' = "unset"
  /\ channelHandles' = "unset"
  /\ UNCHANGED <<position, buffers, flags, stored>>

Process ==
  \/ DetectNotAll \/ DetectAgain \/ DetectError \/ DetectOk
  \/ GetHandles \/ GetHandlesError
  \/ ResolveChannels \/ ResolveError
  \/ StartTurn \/ ReadChannel \/ ReadFails \/ BuildQuery \/ SkipInsert
  \/ QueryOk \/ QueryFails \/ ReplyLost
  \/ ReconnectRetries \/ ReconnectForgets \/ ReconnectError
  \/ NextDevice \/ EndTurn

Next == Process \/ Kill \/ Restart

Spec == Init /\ [][Next]_vars

\* The process runs until it exits or is killed; and devices that keep being
\* looked for are found some day.  Nobody promises to start a new process.
FairSpec == Spec /\ WF_vars(Process) /\ SF_vars(DetectOk)

-----------------------------------------------------------------------------
TypeOK ==
  /\ pc \in Labels
  /\ deviceHandles \in Handles
  /\ channelHandles \in Handles
  /\ turn \in Nat
  /\ deviceNr \in Device
  /\ channelNr \in Channel
  /\ channelValues \in [Channel -> Reading]
  /\ loop \in BOOLEAN
  /\ readOK \in BOOLEAN
  /\ query \in Row
  /\ table \in Seq(Row)
  /\ failed \subseteq Nat \X Device

\* Every stored row consists of readings of its own device taken in its own
\* turn, one per channel: the buffer that logValues reuses for all devices
\* and all turns never lets the reading of another pass into a row.
RowsUnmixed ==
  \A i \in 1..Len(table) :
    table[i] = Log!Entry(table[i].turn, table[i].device)

\* No row of a turn comes from a device at or behind the one whose read
\* failed in that turn, although the device loop goes on after the failure.
NoRowPastFailure ==
  \A i \in 1..Len(table) : \A e \in Device :
    <<table[i].turn, e>> \in failed => table[i].device < e

\* Between a loss and the next turn lies a detection whose handles that turn
\* uses: neither a turn nor an insertion is ever due with suspect handles.
HandlesCurrent ==
  pc \in {"sleep", "insert", "reconnect"} => channelHandles = "current"

\* logValues returns only false, so startDeviceLogging never returns and the
\* shutdown at the end of main is never reached.
NeverShutsDown == pc # "shutdown"

\* The logger implements the log its readers rely on.
ImplementsSampleLog == Log!Spec

\* After a failed read the process is eventually back at waiting for a turn
\* with no failure on record, unless it exits or is killed first.
LossIsRecovered == ~readOK ~> (pc = "exited" \/ (readOK /\ pc = "sleep"))

\* The process comes to the sleep between turns again and again, unless it
\* ends or stays for ever in the loop of insertValues, where a row that the
\* server never accepts is sent again and again: no other loop can hold it.
TurnsGoOn ==
  \/ []<>(pc \in {"sleep", "exited"})
  \/ <>[](pc \in {"insert", "reconnect"})

LeavesInsert == pc \in {"insert", "reconnect"} /\ pc' = "passDone"

\* "Insert row" (logger.c): a complete pass leaves insertValues only with its
\* row in the table, unless the process ends.
EveryPassStored ==
  [][LeavesInsert => \E i \in 1..Len(table') : (table'[i] = query)]_vars
=============================================================================
