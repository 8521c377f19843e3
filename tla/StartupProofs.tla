---------------------------- MODULE StartupProofs ----------------------------
(***************************************************************************)
(* Proofs about Startup for every number of drivers, every length of the   *)
(* arrays and every set of device counts.                                  *)
(***************************************************************************)
EXTENDS Startup, TLAPS

\* Every variable keeps its type.
LEMMA TypeInit == Init => TypeOK
<1>1. Init => /\ pc \in Labels /\ exitCode \in -50..0
              /\ lens \in [{"channel", "column", "type"} -> 1..MaxArrayLen]
              /\ deviceCount \in DeviceCounts /\ online \in 0..DriverCount
              /\ user \in {"absent", "current", "other"}
  BY StartupAssumption DEF Init, Labels
<1>2. Init => /\ unreachable \in BOOLEAN /\ rootValid \in BOOLEAN
              /\ dbExists \in BOOLEAN /\ granted \in BOOLEAN
              /\ tableExists \in BOOLEAN /\ congratulated \in BOOLEAN
              /\ tampered \in BOOLEAN
  BY Zenon DEF Init
<1> QED BY <1>1, <1>2 DEF TypeOK

\* How far a start has come says what it has found to be in order; and once
\* the success has been announced the server accepts the user until the
\* operator interferes.
Progress ==
  /\ pc \notin {"yasdi", "drivers", "exited"} =>
       online = DriverCount /\ online > 0
  /\ pc \notin {"yasdi", "drivers", "arrays", "exited"} => ArraysError = 0
  /\ pc \in {"createTable", "devices", "logging"} => ConnectAnswer = 0
  /\ pc \in {"devices", "logging"} => tableExists
  /\ congratulated /\ ~tampered => ConnectAnswer = 0
  /\ RootRemovable
  /\ OnlyHalfSetupIsFatal

LEMMA ProgressInit == Init => Progress
  BY DEF Init, Progress, RootRemovable, OnlyHalfSetupIsFatal

\* TypeOK in two parts: the flags and the rest.
Flags ==
  /\ unreachable \in BOOLEAN /\ rootValid \in BOOLEAN /\ dbExists \in BOOLEAN
  /\ granted \in BOOLEAN /\ tableExists \in BOOLEAN
  /\ congratulated \in BOOLEAN /\ tampered \in BOOLEAN

Ranges ==
  /\ pc \in Labels /\ exitCode \in -50..0
  /\ lens \in [{"channel", "column", "type"} -> 1..MaxArrayLen]
  /\ deviceCount \in DeviceCounts /\ online \in 0..DriverCount
  /\ user \in {"absent", "current", "other"}

LEMMA FlagsStep == Flags /\ [Next]_vars => Flags'
<1> SUFFICES ASSUME Flags, [Next]_vars PROVE Flags'
  OBVIOUS
<1> USE Zenon DEF Flags, Goto, Exit, config, server, operator, outcome
<1>1. CASE YasdiInit BY <1>1 DEF YasdiInit
<1>2. CASE DriverOnline BY <1>2 DEF DriverOnline, MoreDrivers
<1>3. CASE DriversDone BY <1>3 DEF DriversDone, MoreDrivers
<1>4. CASE CheckArrays BY <1>4 DEF CheckArrays
<1>5. CASE Connect BY <1>5 DEF Connect
<1>6. CASE RootConnect BY <1>6 DEF RootConnect
<1>7. CASE CreateDb BY <1>7 DEF CreateDb
<1>8. CASE CreateUser BY <1>8 DEF CreateUser
<1>9. CASE Grant BY <1>9 DEF Grant
<1>10. CASE Reinit BY <1>10 DEF Reinit
<1>11. CASE Reconnect BY <1>11 DEF Reconnect, Accepted
<1>12. CASE CreateTable BY <1>12 DEF CreateTable
<1>13. CASE CheckDevices BY <1>13 DEF CheckDevices
<1>14. CASE Kill BY <1>14 DEF Kill
<1>15. CASE Restart BY <1>15 DEF Restart
<1>16. CASE RemoveRoot BY <1>16 DEF RemoveRoot
<1>17. CASE ChangePassword BY <1>17 DEF ChangePassword
<1>18. CASE DropDatabase BY <1>18 DEF DropDatabase
<1>19. CASE UNCHANGED vars BY <1>19 DEF vars
<1> QED
  BY <1>1, <1>2, <1>3, <1>4, <1>5, <1>6, <1>7, <1>8, <1>9, <1>10, <1>11,
     <1>12, <1>13, <1>14, <1>15, <1>16, <1>17, <1>18, <1>19
  DEF Next, Start, Operator

LEMMA RangesStep == Ranges /\ [Next]_vars => Ranges'
<1> SUFFICES ASSUME Ranges, [Next]_vars PROVE Ranges'
  OBVIOUS
<1> USE StartupAssumption
    DEF Ranges, Labels, Goto, Exit, config, server, operator, outcome
<1>1. CASE YasdiInit BY <1>1 DEF YasdiInit
<1>2. CASE DriverOnline BY <1>2 DEF DriverOnline, MoreDrivers
<1>3. CASE DriversDone BY <1>3 DEF DriversDone, MoreDrivers
<1>4. CASE CheckArrays BY <1>4 DEF CheckArrays, ArraysError
<1>5. CASE Connect BY <1>5 DEF Connect, SetupAnswers, ConnectAnswer
<1>6. CASE RootConnect BY <1>6 DEF RootConnect
<1>7. CASE CreateDb BY <1>7 DEF CreateDb
<1>8. CASE CreateUser BY <1>8 DEF CreateUser
<1>9. CASE Grant BY <1>9 DEF Grant
<1>10. CASE Reinit BY <1>10 DEF Reinit
<1>11. CASE Reconnect BY <1>11 DEF Reconnect, Accepted
<1>12. CASE CreateTable BY <1>12 DEF CreateTable
<1>13. CASE CheckDevices BY <1>13 DEF CheckDevices
<1>14. CASE Kill BY <1>14 DEF Kill
<1>15. CASE Restart BY <1>15 DEF Restart
<1>16. CASE RemoveRoot BY <1>16 DEF RemoveRoot
<1>17. CASE ChangePassword BY <1>17 DEF ChangePassword
<1>18. CASE DropDatabase BY <1>18 DEF DropDatabase
<1>19. CASE UNCHANGED vars BY <1>19 DEF vars
<1> QED
  BY <1>1, <1>2, <1>3, <1>4, <1>5, <1>6, <1>7, <1>8, <1>9, <1>10, <1>11,
     <1>12, <1>13, <1>14, <1>15, <1>16, <1>17, <1>18, <1>19
  DEF Next, Start, Operator

LEMMA TypeStep == TypeOK /\ [Next]_vars => TypeOK'
<1>1. TypeOK <=> Flags /\ Ranges
  BY DEF TypeOK, Flags, Ranges
<1>2. TypeOK' <=> Flags' /\ Ranges'
  BY DEF TypeOK, Flags, Ranges
<1> QED BY <1>1, <1>2, FlagsStep, RangesStep

LEMMA ProgressStep == TypeOK /\ Progress /\ [Next]_vars => Progress'
<1> SUFFICES ASSUME TypeOK, Progress, [Next]_vars PROVE Progress'
  OBVIOUS
<1> USE DEF Labels, Goto, Exit, config, server, operator, outcome, Progress,
            RootRemovable, OnlyHalfSetupIsFatal, ArraysError, ConnectAnswer
<1>1. CASE YasdiInit BY <1>1 DEF YasdiInit
<1>2. CASE DriverOnline BY <1>2 DEF DriverOnline, MoreDrivers
<1>3. CASE DriversDone
  <2>1. online = DriverCount
    BY <1>3, StartupAssumption DEF DriversDone, MoreDrivers, TypeOK
  <2>2. CASE online = 0
    BY <1>3, <2>1, <2>2 DEF DriversDone
  <2>3. CASE online # 0
    BY <1>3, <2>1, <2>3, StartupAssumption DEF DriversDone
  <2> QED BY <2>2, <2>3
<1>4. CASE CheckArrays BY <1>4 DEF CheckArrays
<1>5. CASE Connect BY <1>5 DEF Connect, SetupAnswers
<1>6. CASE RootConnect BY <1>6 DEF RootConnect
<1>7. CASE CreateDb BY <1>7 DEF CreateDb
<1>8. CASE CreateUser BY <1>8 DEF CreateUser
<1>9. CASE Grant BY <1>9 DEF Grant
<1>10. CASE Reinit BY <1>10 DEF Reinit
<1>11. CASE Reconnect BY <1>11 DEF Reconnect, Accepted
<1>12. CASE CreateTable BY <1>12 DEF CreateTable
<1>13. CASE CheckDevices
  <2>1. CASE deviceCount = -1
    BY <1>13, <2>1 DEF CheckDevices
  <2>2. CASE deviceCount # -1
    <3>1. pc' = "logging" /\ UNCHANGED <<config, online, server, operator>>
      BY <1>13, <2>2 DEF CheckDevices
    <3>2. ArraysError' = ArraysError /\ ConnectAnswer' = ConnectAnswer
      BY <3>1
    <3> QED BY <1>13, <2>2, <3>1, <3>2 DEF CheckDevices
  <2> QED BY <2>1, <2>2
<1>14. CASE Kill BY <1>14 DEF Kill
<1>15. CASE Restart BY <1>15 DEF Restart
<1>16. CASE RemoveRoot BY <1>16 DEF RemoveRoot
<1>17. CASE ChangePassword BY <1>17 DEF ChangePassword
<1>18. CASE DropDatabase BY <1>18 DEF DropDatabase
<1>19. CASE UNCHANGED vars BY <1>19 DEF vars
<1> QED
  BY <1>1, <1>2, <1>3, <1>4, <1>5, <1>6, <1>7, <1>8, <1>9, <1>10, <1>11,
     <1>12, <1>13, <1>14, <1>15, <1>16, <1>17, <1>18, <1>19
  DEF Next, Start, Operator

\* Whatever the drivers and the arrays: every variable keeps its type.
THEOREM TypeCorrect == Spec => []TypeOK
  BY TypeInit, TypeStep, PTL DEF Spec

\* startDeviceLogging is called only with drivers, arrays of one length, an
\* accepted connection and the table in place, wherever earlier starts were
\* cut off and whatever number yasdi.ini gives for deviceCount.
THEOREM LoggingReadyCorrect == Spec => []LoggingReady
<1>1. TypeOK /\ Progress => LoggingReady
  <2>1. TypeOK => DOMAIN lens = {"channel", "column", "type"}
    BY DEF TypeOK
  <2> QED BY <2>1 DEF Progress, LoggingReady, ArraysError
<1> QED
  BY <1>1, TypeInit, TypeStep, ProgressInit, ProgressStep, PTL DEF Spec

\* After the announced success no later start needs root, and only a setup
\* cut off between user and rights makes a refusal fatal.
THEOREM SetupCorrect == Spec => [](RootRemovable /\ OnlyHalfSetupIsFatal)
<1>1. Progress => RootRemovable /\ OnlyHalfSetupIsFatal
  BY DEF Progress
<1> QED
  BY <1>1, TypeInit, TypeStep, ProgressInit, ProgressStep, PTL DEF Spec

\* A server that answers makes the first connection of dbInit (db.c:51) fatal only when an
\* earlier start was cut off between the user and its rights.
THEOREM OnlyHalfSetupIsFatalCorrect == Spec => []OnlyHalfSetupIsFatal
  BY SetupCorrect, PTL
=============================================================================
