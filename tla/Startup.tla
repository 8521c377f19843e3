------------------------------- MODULE Startup -------------------------------
(***************************************************************************)
(* From main to the first device detection: main and checkArrayConsistency *)
(* of scripts/datalogger/logger.c, dbInit of db.c, and what the MySQL      *)
(* server keeps between two starts.  Every failure is an exit with a code  *)
(* of its own, a start can be killed between any two steps, and the next   *)
(* start finds whatever the last one left in the server.                   *)
(*                                                                         *)
(* YASDI and MySQL are external.  An answer of the server follows from     *)
(* what it keeps (ConnectAnswer), or the server cannot be reached.         *)
(***************************************************************************)
EXTENDS Integers

CONSTANTS
  DriverCount,    \* drivers listed in yasdi.ini
  MaxArrayLen,    \* bound: length of the three arrays of logger.c
  DeviceCounts    \* bound: what [Plant] deviceCount of yasdi.ini may be read as

ASSUME StartupAssumption ==
  /\ DriverCount \in Nat
  /\ MaxArrayLen \in Nat \ {0}
  /\ DeviceCounts \subseteq Int

VARIABLES
  pc,            \* where the process stands
  exitCode,      \* the code of the latest exit; 0 for a kill
  unreachable,   \* history: the latest exit was for want of an answer
  lens,          \* lengths of channelNames[], dbColumns[], dbTypes[]
  deviceCount,   \* [Plant] deviceCount of yasdi.ini; -1 when it is missing
  online,        \* drivers switched on by this process
  rootValid,     \* root_username/root_password of yasdi.ini are valid
  dbExists,      \* server: the database
  user,          \* server: the user, as seen from username/password
  granted,       \* server: the user's rights on the database
  tableExists,   \* server: logged_values
  congratulated, \* history: some start has printed its success
  tampered       \* history: the operator changed the server or the password

config == <<lens, deviceCount>>
server == <<dbExists, user, granted, tableExists>>
operator == <<rootValid, congratulated, tampered>>
outcome == <<exitCode, unreachable>>
vars == <<pc, outcome, config, online, server, operator>>

Labels == {"yasdi", "drivers", "arrays", "connect", "rootConnect", "createDb",
           "createUser", "grant", "reinit", "reconnect", "createTable",
           "devices", "logging", "exited"}

-----------------------------------------------------------------------------
\* The program has been built and yasdi.ini written; the server is new but
\* may already have a user of that name, with another password.
Init ==
  /\ pc = "yasdi"
  /\ exitCode = 0
  /\ unreachable = FALSE
  /\ lens \in [{"channel", "column", "type"} -> 1..MaxArrayLen]
  /\ deviceCount \in DeviceCounts
  /\ online = 0
  /\ rootValid \in BOOLEAN
  /\ dbExists = FALSE
  /\ user \in {"absent", "other"}
  /\ granted = FALSE
  /\ tableExists = FALSE
  /\ congratulated = FALSE
  /\ tampered = FALSE

\* exit(code).
Exit(code, noAnswer) ==
  /\ pc' = "exited"
  /\ exitCode' = code
  /\ unreachable' = noAnswer
  /\ UNCHANGED <<config, online, server, operator>>

\* On to the next step of the process.
Goto(label) == pc' = label /\ UNCHANGED outcome

-----------------------------------------------------------------------------
\* main

YasdiInit ==
  /\ pc = "yasdi"
  /\ \/ Exit(-1, FALSE)
     \/ /\ Goto("drivers")
        /\ UNCHANGED <<config, online, server, operator>>

\* Mutant: the driver loop runs one driver too far.
MoreDriversOffByOne == online <= DriverCount

\* The condition of the driver loop.
MoreDrivers == online < DriverCount

\* A driver that does not go online is fatal.
DriverOnline ==
  /\ pc = "drivers"
  /\ MoreDrivers
  /\ \/ Exit(-2, FALSE)
     \/ /\ online' = online + 1
        /\ UNCHANGED <<pc, outcome, config, server, operator>>

DriversDone ==
  /\ pc = "drivers"
  /\ ~MoreDrivers
  /\ IF online = 0
       THEN Exit(-3, FALSE)
       ELSE /\ Goto("arrays")
            /\ UNCHANGED <<config, online, server, operator>>

\* Mutant: the types are not looked at.
ColumnsOnly ==
  IF lens["channel"] # lens["column"] THEN -20 ELSE 0

\* What checkArrayConsistency exits with, 0 if it returns.
ArraysError ==
  IF lens["channel"] # lens["column"] THEN -20
  ELSE IF lens["column"] # lens["type"] THEN -21 ELSE 0

CheckArrays ==
  /\ pc = "arrays"
  /\ IF ArraysError # 0
       THEN Exit(ArraysError, FALSE)
       ELSE /\ Goto("connect")
            /\ UNCHANGED <<config, online, server, operator>>

-----------------------------------------------------------------------------
\* dbInit

\* The server's answer to a connection of the user to the database: 0, or
\* the error number of mysqld_error.h.  Rights come before existence.
ConnectAnswer ==
  CASE user # "current" -> 1045
    [] user = "current" /\ ~granted -> 1044
    [] user = "current" /\ granted /\ ~dbExists -> 1049
    [] OTHER -> 0

\* Mutant: only a missing database starts the setup.
BadDbOnly == {1049}

\* The answers that start the one-shot setup.
SetupAnswers == {1049, 1045}

Connect ==
  /\ pc = "connect"
  /\ \/ Exit(-10, TRUE)    \* mysql_init
     \/ Exit(-11, TRUE)    \* the server cannot be reached
     \/ /\ ConnectAnswer \notin SetupAnswers \union {0}
        /\ Exit(-11, FALSE)
     \/ /\ ConnectAnswer \in SetupAnswers
        /\ Goto("rootConnect")
        /\ UNCHANGED <<config, online, server, operator>>
     \/ /\ ConnectAnswer = 0
        /\ Goto("createTable")
        /\ UNCHANGED <<config, online, server, operator>>

RootConnect ==
  /\ pc = "rootConnect"
  /\ \/ Exit(-12, TRUE)
     \/ ~rootValid /\ Exit(-12, FALSE)
     \/ /\ rootValid
        /\ Goto("createDb")
        /\ UNCHANGED <<config, online, server, operator>>

\* create database if not exists
CreateDb ==
  /\ pc = "createDb"
  /\ \/ Exit(-13, TRUE)
     \/ /\ dbExists' = TRUE
        /\ Goto("createUser")
        /\ UNCHANGED <<config, online, user, granted, tableExists, operator>>

\* create user; its failure is reported and ignored (exit(-14) is commented
\* out), whether the user is there already or the server did not answer.
CreateUser ==
  /\ pc = "createUser"
  /\ \/ user = "absent" /\ user' = "current"
     \/ UNCHANGED user
  /\ Goto("grant")
  /\ UNCHANGED <<config, online, dbExists, granted, tableExists, operator>>

\* GRANT ALL PRIVILEGES.  For a user that does not exist the server refuses,
\* or creates it without a password, as its sql_mode says.
Grant ==
  /\ pc = "grant"
  /\ \/ Exit(-15, TRUE)
     \/ user = "absent" /\ Exit(-15, FALSE)
     \/ /\ granted' = TRUE
        /\ user' = IF user = "absent" THEN "other" ELSE user
        /\ Goto("reinit")
        /\ UNCHANGED <<config, online, dbExists, tableExists, operator>>

\* mysql_close and mysql_init again.
Reinit ==
  /\ pc = "reinit"
  /\ \/ Exit(-16, TRUE)
     \/ /\ Goto("reconnect")
        /\ UNCHANGED <<config, online, server, operator>>

\* Mutant: the success is announced without a look at the answer.
AnyAnswer == TRUE

Accepted == ConnectAnswer = 0

\* The user connects to the new database; the success is printed, and 20
\* seconds pass.
Reconnect ==
  /\ pc = "reconnect"
  /\ \/ Exit(-17, TRUE)
     \/ ~Accepted /\ Exit(-17, FALSE)
     \/ /\ Accepted
        /\ congratulated' = TRUE
        /\ Goto("createTable")
        /\ UNCHANGED <<config, online, server, rootValid, tampered>>

\* CREATE TABLE IF NOT EXISTS logged_values
CreateTable ==
  /\ pc = "createTable"
  /\ \/ Exit(-18, TRUE)
     \/ /\ tableExists' = TRUE
        /\ Goto("devices")
        /\ UNCHANGED <<config, online, dbExists, user, granted, operator>>

\* Back in main: [Plant] deviceCount, then startDeviceLogging.  Only the
\* default of a missing entry is refused.  With any other negative number the
\* size of deviceHandles[] is undefined behaviour: the process crashes (Kill)
\* or goes on.
CheckDevices ==
  /\ pc = "devices"
  /\ IF deviceCount = -1
       THEN Exit(-4, FALSE)
       ELSE /\ Goto("logging")
            /\ UNCHANGED <<config, online, server, operator>>

-----------------------------------------------------------------------------
\* A signal, a crash or a power cut; or an exit of the logging loop.
Kill ==
  /\ pc # "exited"
  /\ Exit(0, FALSE)

Restart ==
  /\ pc = "exited"
  /\ Goto("yasdi")
  /\ online' = 0
  /\ UNCHANGED <<config, server, operator>>

\* While the process is down the operator may follow the advice printed with
\* the success, ...
RemoveRoot ==
  /\ pc = "exited"
  /\ congratulated
  /\ rootValid' = FALSE
  /\ UNCHANGED <<pc, outcome, config, online, server, congratulated, tampered>>

\* ... change the password in yasdi.ini but not in the server, ...
ChangePassword ==
  /\ pc = "exited"
  /\ user = "current"
  /\ user' = "other"
  /\ tampered' = TRUE
  /\ UNCHANGED <<pc, outcome, config, online, dbExists, granted, tableExists,
                 rootValid, congratulated>>

\* ... or drop the database; rights on it outlive it.
DropDatabase ==
  /\ pc = "exited"
  /\ dbExists
  /\ dbExists' = FALSE
  /\ tableExists' = FALSE
  /\ tampered' = TRUE
  /\ UNCHANGED <<pc, outcome, config, online, user, granted, rootValid,
                 congratulated>>

Start ==
  \/ YasdiInit \/ DriverOnline \/ DriversDone \/ CheckArrays
  \/ Connect \/ RootConnect \/ CreateDb \/ CreateUser \/ Grant \/ Reinit
  \/ Reconnect \/ CreateTable \/ CheckDevices

Operator == RemoveRoot \/ ChangePassword \/ DropDatabase

Next == Start \/ Kill \/ Restart \/ Operator

Spec == Init /\ [][Next]_vars

-----------------------------------------------------------------------------
TypeOK ==
  /\ pc \in Labels
  /\ exitCode \in -50..0
  /\ unreachable \in BOOLEAN
  /\ lens \in [{"channel", "column", "type"} -> 1..MaxArrayLen]
  /\ deviceCount \in DeviceCounts
  /\ online \in 0..DriverCount
  /\ rootValid \in BOOLEAN
  /\ dbExists \in BOOLEAN
  /\ user \in {"absent", "current", "other"}
  /\ granted \in BOOLEAN
  /\ tableExists \in BOOLEAN
  /\ congratulated \in BOOLEAN
  /\ tampered \in BOOLEAN

\* When main calls startDeviceLogging (logger.c:349), drivers, arrays of one
\* length, a connection the server accepts and the table are there, whatever
\* earlier starts did and where they were cut off.  A positive deviceCount is
\* not: CheckDevices lets 0 and negative numbers through.
LoggingReady ==
  pc = "logging" =>
    /\ online = DriverCount /\ online > 0
    /\ \A a, b \in DOMAIN lens : lens[a] = lens[b]
    /\ ConnectAnswer = 0
    /\ tableExists

\* The advice printed with the success is sound: as long as the operator
\* leaves server and password alone, no later start needs root again.
RootRemovable ==
  congratulated /\ ~tampered =>
    pc \notin {"rootConnect", "createDb", "createUser", "grant"}

\* A server that answers makes the first connection fatal in one case only:
\* an earlier start was cut off after it created the user and before it
\* granted the rights.
OnlyHalfSetupIsFatal ==
  exitCode = -11 /\ ~unreachable /\ pc = "exited" /\ ~tampered =>
    user = "current" /\ ~granted
=============================================================================
