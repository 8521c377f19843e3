# Verification of IslandManager

IslandManager looks after an off-grid house. A C daemon logs an SMA Sunny Island
inverter into MySQL; PHP jobs log and steer a Midnite Classic charge controller
over Modbus/TCP; Python and JavaScript scripts change its settings and switch
heating and pumps over a serial radio; PHP pages draw what was logged. This
directory holds TLA+ specifications of the parts that have logic of their own,
the TLC instances that check them, and TLAPS proofs about them.

    tlc -workers 2 -config DataLogger_loop.cfg MCDataLogger     # one run
    tlapm DataLoggerProofs.tla                                  # one proof module

`PROJECT.json` lists components, runs, mutants, the lines every definition
models, hazards and theorems.

## 1. Inventory

| Component | State it keeps | Operations | What is hard | Correct when |
|---|---|---|---|---|
| **Data logger, loop and storage** `scripts/datalogger/logger.c:98-279`, `db.c:131-223` | handles, `channelValues[]`, the flags `loop` and `readOK`, the INSERT text; the table `logged_values` | detect, get handles, resolve channels, read, insert, reconnect | one buffer reused by all devices and turns; a `break` that leaves one loop of three; retries after a lost reply; kills | rows never mix passes; a failure silences the rest of its turn; no old handle is used; every loss is recovered from |
| **Schedule of the turns** `logger.c:148-215` | `loopStart`, `delay`, the clock | first delay, delay after a turn, overrun | turns and sleeps of any length | turns on the grid since midnight, never in bursts |
| **Start and setup** `logger.c:282-352`, `db.c:16-129`, `start-daemon.sh` | drivers online; in the server: database, user, rights, table | YASDI, drivers, array check, connection, one-shot setup | cut off anywhere, resumed by one error number; failures that are ignored; advice printed before the end | logging begins only with all it needs; the advice is sound |
| **Modbus master** `www/Phpmodbus/ModbusMaster.php` | socket, time of last access | connect, send, receive loop, parse, disconnect | late, short and missing replies; a peer that closes; exceptions that skip the disconnect; lengths and bits counted by hand in every packet | an answer is the answer to this request; requests are well formed; a write lands as meant; a wait ends |
| **Value conversions** `IecType.php`, `PhpType.php` | none | bytes to numbers and back | endianness, sign, width | conversions invert each other |
| **Classic access** `www/classic/midniteclassic.php` | none | registers, commands | every exception swallowed | a failed read decides nothing |
| **Classic logger** `www/classic/classiclogger.php`, `www/db.php`, `start-logger.sh` | stored charge phase; table `solarcharger` | read, store, decide, force | runs after runs, any subset of steps failing | no command without a reading; a DSEQ (destratifying equalization) that is due is started |
| **Classic script** `scripts/classic.py` | none but the registers of the device | unlock, limit, force, pulses | crashes between steps; shares registers with the classic logger | EQ forced with its own volts and time, under the lowered limit; limit restored |
| **Charging profile** `scripts/charging-profile.js` | data points: mode, dates, flags | one evaluation per event | evaluation at any moment of the hour, or at none for days; stale modes and flags | EQs are spaced; float follows an absorb |
| **Pump and thermostat** `scripts/pump.py` | `heater`; serial buffer; the relay of the device | request and reply, wait for STARTED | messages lost, late or at the head of the buffer; exceptions that leave relays on | relays follow the program where nothing was lost; no old answer switches the heating; a run ends |
| **Chart writers** `www/graphs.php`, `drawgraph.php`, `classic/graphs.php` | none | select rows, write a table for the chart | missing days and rows | rows in order, none invented |
| Page parts, cosm upload, string and log helpers, vendored code and data | - | - | - | - |

**How they interact.** `main` runs the setup and then calls the loop, which never
returns: what *Startup* establishes at `pc = "logging"` is what *DataLogger*
starts from, except that *DataLogger* also assumes a positive number of devices, which
`main` does not check (section 4); an `exit` in the loop is a start of *Startup* again.
*DataLogger* and *LoopSchedule* are two views of `logValues`: one has what a turn
does without time, the other when it starts without what it does. Between
daemon and web there is only the table: `classiclogger.php` takes the latest
rows of `logged_values` for the battery's state and current, so what *DataLogger*
promises as *SampleLog* is what its reader can count on (and a table without
rows is possible, which the reader does not expect). The classic logger uses the
Modbus master through `MidniteClassic`, which turns every exception into null;
*ClassicLogger* therefore models a read as a value or null and a write as done
or not, which are the outcomes *ModbusMaster* shows for a call. `classic.py`
writes the same registers from another process: *ClassicScript* has the two
commands of the classic logger as steps of its own. `pump.py` and
`charging-profile.js` share nothing with the rest but the house.

## 2. Modules

| Module | Models | Role |
|---|---|---|
| `SampleLog` | what the table promises its readers | abstract specification |
| `DataLogger`, `MCDataLogger`, `DataLoggerProofs` | loop and storage | implements `SampleLog` |
| `LoopSchedule`, `MCLoopSchedule`, `LoopScheduleProofs` | schedule | |
| `Startup`, `MCStartup`, `StartupProofs` | start, setup, the server over restarts, the operator | |
| `ModbusMaster`, `MCModbusMaster`, `ModbusProofs` | calls over TCP: connection, waiting, outcome | specification that `ModbusExchange` implements |
| `ModbusValues` | `IecType.php`, `PhpType.php` | operators |
| `ModbusFrames` | packet builders and parsers of the seven functions | operators, over `ModbusValues` |
| `ModbusExchange`, `MCModbusExchange`, `ModbusProofs` | the calls with their bytes, and a device that goes by the bytes | composes `ModbusMaster` and `ModbusFrames`, implements `RegisterAccess` |
| `RegisterAccess` | what a caller of the master may rely on | abstract specification, implemented by `ModbusExchange` |
| `ClassicLogger`, `MCClassicLogger`, `ClassicLoggerProofs` | runs of the script, the access class, the device | |
| `ClassicScript`, `MCClassicScript`, `ClassicScriptProofs` | the operator's commands, beside the classic logger's | |
| `ChargingProfile`, `MCChargingProfile`, `ChargingProfileProofs` | evaluations of the profile | |
| `Radio`, `MCRadio`, `RadioProofs` | thermostat, pump program, radio and node | |

Operators whose comment begins with "Mutant" are plausible bugs of the operator
that follows them. No specification uses them; put in its place they make one
property fail, which shows that the property says something about the code.

**DataLogger.** `pc` is the place in `startDeviceLogging`, `logValues` and
`insertValues`; `channelValues`, `loop`, `readOK` are the variables of that name,
with `turn`, `deviceNr`, `channelNr` for the loops; handles are not numbers but
*unset*, *suspect* (older than the latest loss) or *current*. A reading carries
turn, device and channel, so that mixing shows. `StartTurn`, `ReadChannel`,
`ReadFails`, `BuildQuery`/`SkipInsert`, `QueryOk`/`QueryFails`/`ReplyLost`,
`Reconnect...`, `NextDevice`, `EndTurn` follow the control flow one to one. After
a reconnection the retry loop may send the row again or leave without it:
`insertValues` reads the errno of the thread (see findings). `failed` and `turn`
are history.

**SampleLog** knows neither handles nor buffers: an append-only log of complete
passes, turns in order, nothing stored between a loss and the next turn. The
mapping is `log <- table`, `at <- deviceNr` and a `Phase` read off `pc` and `readOK`.

**LoopSchedule.** The clock ticks at any moment, a sleep ends at or after its
time, a turn takes any time. `FirstSchedule`, `StartTurn`, `EndTurn`, `Overrun`
are the branches of the code; `late` remembers what may shift the grid.

**Startup.** One action per call that can fail, each with its exit code; the
answer of the server follows from what it keeps (`ConnectAnswer`: 1045 wrong
password or no user, 1044 no rights, 1049 no database, 0), or none comes. `Kill` and
`Restart` at any step; the operator may remove the root credentials once the
success message has advised it, change the password, or drop the database.

**ModbusMaster.** Connections are named by the call they were made for; requests
are performed late or never; the first segment of a reply has any length; a peer
may close; `socket_select` may fail. `idle` is `time() - lastAccess`. `waited`
and the call number in a reply are history: the code compares no transaction id.

**ModbusExchange** adds to every step of *ModbusMaster* what it leaves out: the
operation called for, the bytes sent, the device's coils and registers, and what it
has read out. Each of the seven public functions is an operation; its packet is made by
the builder of *ModbusFrames*, the device takes it apart by the protocol (`Understood`,
`Performed`, `ReplyBytes`, external) and the first segment of the reply, of any
length, goes through the parser. What a write is meant to do is stated apart from builders and
device (`Meant`). Values are the bytes of *ModbusValues*; a REAL is its 32 bits.
Nothing in `ModbusMaster.php` keeps a request from outgrowing its counts, which are bytes: that
an operation fits one packet (`Fits`, assumed of every operation) is its callers' affair, and
`www/classic` reads and writes a few registers at a time. A device answers a read of what it
does not have with an exception (`Has`). `ValuesReturn` speaks of numbers that fit the type they are
sent as (`Fitting`): `iecINT` drops what a larger one has beyond 16 bits.

**RegisterAccess** knows neither connections nor packets: one memory, one call after the other, and each
operation performed in one moment, at most once, at any time after its call. A call returns the beginning of what
it found there (`ReturnValue`), fails (`Fail`), or returns blindly on an answer that tells nothing (`ReturnBlindly`,
which the caller of a write cannot tell from a success: section 4). A request may be performed after its call has failed
or returned blindly, even after later calls. What an operation makes of a memory (`Effect`) and what it reads there
(`Reads`) are parameters; *ModbusExchange* gives `Meant` for the one and the cells asked for, as bytes, for the other. The
mapping: `pending` are the calls not yet sent or not answered, `found` is what `held` shows, `outcome` and `value` are
read off `result` and its parsed packet. So `ImplementsAccess` is the chain from the caller's arguments over builder,
network, device, reply and parser to what the call returns, in one formula.

**ClassicScript.** `pc` is the step of the session under way; `pulse` is the `i` of
`pulsedEQ`; `final` marks the session that ends `pulseeq` and `finishcharge`. Every write
has three outcomes: answered, performed with its answer lost, and failed; the last two
end the script at the assertion. `OtherLimit` and `OtherFloat` are the classic logger's
commands (`classiclogger.php:90, 100-101`), at any moment; `other` remembers who wrote
the limit last.

**ChargingProfile.** One evaluation is one action, its three parts in the order of the
code (`decided`, then end amps, short EQ and float on what was decided). Time passes in
parts of a day, one of which is ten o'clock; the host evaluates as often as it likes, or not.

**Radio.** `step` names the request or the sleep a program has come to. `Ask` clears
the buffer and writes, and each answer action takes the head of the buffer and goes on to the
next request, so that the whole handler of an answer is one action. Requests and messages
travel in order through `toNode`, `fromNode` and `buffer`. A reading carries the number of
the reading it was asked for. `disturbed` remembers the relays that are not the
program's doing: a command lost, or the node without power, since the last command it got.

**ClassicLogger.** One run follows another; only the stored phase survives. The
class `Settings` is not in the repository, so whether `saveChargePhase` also sets
the property in memory is left open (`remembers`). The device changes stage and voltage
at any moment, which also stands for its other clients. The dates of a DSEQ are
saved behind a fatal error only, so "interval over" and "maximal time over" are
flags that time sets for good.

## 3. Runs

| Run | Configuration | Result |
|---|---|---|
| `logger` | `DataLogger_loop.cfg` | `TypeOK`, `RowsUnmixed`, `NoRowPastFailure`, `HandlesCurrent`, `NeverShutsDown`, refinement `ImplementsSampleLog`, liveness `LossIsRecovered` and `TurnsGoOn` hold |
| `logger_stored` | `DataLogger_stored.cfg` | `EveryPassStored` is violated: finding 1 |
| `schedule` | `LoopSchedule_grid.cfg` | `TypeOK` (every sleep between 1 and the interval), `OnGrid`, `NeverEarly` hold |
| `startup` | `Startup_setup.cfg` | `TypeOK`, `LoggingReady`, `RootRemovable`, `OnlyHalfSetupIsFatal` hold |
| `modbus` | `ModbusExchange_calls.cfg` | `TypeOK`, `SuccessIsOwn`, `WaitBounded` and liveness `WaitEnds` of the calls, `RequestsUnderstood`, `WritesLand`, `ReadsRight`, `ValuesReturn`, `ConfirmedInOrder` of the bytes hold, and `ImplementsAccess`: the calls are those of *RegisterAccess* |
| `modbus_timeout` | `ModbusMaster_timeout.cfg` | `TimeoutHolds` is violated: finding 2 |
| `classic` | `ClassicLogger_runs.cfg` | `TypeOK`, `NoBlindCommand`, liveness `DSEQStarts` hold |
| `classic_eq` | `ClassicLogger_eq.cfg` | `EQForced` is violated: finding 3 |
| `classic_endamps` | `ClassicLogger_endamps.cfg` | `EndAmpsShown` is violated: finding 4 |
| `radio` | `Radio_runs.cfg` | `TypeOK`, `HeatingFollows`, `PumpFollows`, `SwitchedByFresh`, liveness `RunEnds` hold |
| `script` | `ClassicScript_commands.cfg` | `TypeOK`, `ChargeEnded`, `EQForcedSafely` hold |
| `profile` | `ChargingProfile_week.cfg` | `TypeOK`, `ShortEQSpaced`, `FloatEarned` hold |

**Bounds.** *DataLogger*: two devices and two channels give an inner and an outer
boundary to every loop; three turns let a row mix with the pass before it, a loss
lie in the middle, and a turn follow the recovery; `MaxRows = 4` bounds only how often
a stored row is sent again. *LoopSchedule*: an interval of 3 in a day of 8 puts
midnight off the grid; 22 seconds see overruns, late sleeps and two midnights.
*Startup*: two drivers, arrays of length 1 or 2 (equal, longer and shorter in every
place), `deviceCount` -1 (a missing entry, the one value refused), -2, 0 or 1. Kills and restarts are unbounded. *ModbusMaster* and *ModbusExchange*: two calls, so that
the reply to the first can meet the second, and a write the read after it; timeout 2, since with
1 a second that is counted anew is not told from one that is not; `MaxWait` one second above
it. Segments end before the code, at it, and in the middle or at the end of the data; that every
other length does as well is proved (`ReadsRightCorrect`, `AccessImplemented`).
The nine operations have every function, coils over the end of a byte, numbers with a sign, double
words and overlapping addresses; endianness is 0, which the master is set to. Deadlock is not checked here because the calling script ends
(`Stop`). *ClassicLogger* has no bound but the low bytes of the stage register.
*Radio*: three readings turn the heating on, leave it and turn it off; three messages in
each queue let an old answer lie behind another message. Kills, losses and starts are
unbounded. *ClassicScript*: volts with and without a fraction, two times, so that a register
left by one command differs from the next one's; counts of 0, 1 and 3 (no pulse, and two); commands and
cuts are unbounded. *ChargingProfile*: two days between short EQs and one
between absorbs, in six days of three parts, have room for two spacings and for days without an
evaluation at ten.

**Fairness.** *DataLogger*: `WF(Process)`, a process that is not killed goes on,
and `SF(DetectOk)`, devices looked for again and again are found some day. No fairness
on `Restart`: nothing in the repository restarts a daemon that has exited.
*ModbusMaster*: the receive loop runs and time passes; device and network owe nothing.
*ClassicLogger*: the script is started again and again and goes on until it ends or is
killed, and runs do get to their decision now and then (strong fairness of its
first four steps, since a kill may cut any single run short). A call that never
returns (finding 2) is outside this assumption. *Radio*: a program that is not killed goes
on, and a message on its way arrives or is lost; neither an answer nor the end of
`getstarted` is owed. *ClassicScript* and *ChargingProfile* state safety only.

## 4. Findings

1. `db.c:169` declares `int errno`, which is a macro: the retry loop tests the
   errno of the thread after a successful reconnection, and may drop the row.
2. `ModbusMaster.php:159`: after the peer has closed, every pass of the receive loop
   renews `lastAccess` and the timeout of line 47 never acts.
3. `classiclogger.php:40-45`: `performEQ` uses variables a PHP function does not see
   and dies; the equalization that line 93 announces is never forced.
4. `classiclogger.php:78`: missing rows count as a charge current of 0, and float
   is forced "because end amps reached".

Met and not given a run of their own:

* `logger.c:340-344` refuses only the -1 that stands for a missing `deviceCount`. With another
  negative number the size of `deviceHandles[]` (line 346) is undefined behaviour; with 0, if YASDI
  takes it, the loop runs and never stores a row. *Startup* lets both through: `LoggingReady` claims no
  positive `deviceCount`, and no document of the repository promises one.
* A setup cut off between CREATE USER and GRANT is never resumed: the server answers
  1044, and `db.c:51` asks for 1049 or 1045 only. `OnlyHalfSetupIsFatal` says so from the other
  side: this is the one case in which a server that answers makes a start fatal.
* `logger.c:204` computes the "theoretic start of next loop" and `logger.c:163` overwrites it: a
  late sleep shifts all later turns (`OnGrid` holds until something is late).
* The success message of `db.c:102` is printed 20 seconds before the table it announces is created.
* `writeMultipleRegister` returns true for a reply too short to hold a code (`ConfirmedInOrder`
  counts only replies that hold one; `ReturnBlindly` of *RegisterAccess*); "Float forced" is logged whether or not the write worked.
* `$endianness` (`ModbusMaster.php:48`) set to 1: `combineBytes` swaps bytes and words, `endianness` of
  `IecType.php` neither, so that a double word written does not read back.
* `writeMultipleCoils` without coils sends one byte of data and the count 0.
* "ensure heating is off when exiting" (`pump.py:129`): one request without a retry, and not reached
  at all when a reading raises; `getstarted` may throw away the STARTED it waits for.
* "once a day at 10am" (`charging-profile.js:18`): decided at every evaluation of that hour, and not at
  all when there is none. `forceFloat` stays set into mode SHORTEQ.
* `pulsedEQ` with a count of `n` gives `n - 1` pulses; `finishcharge` drops the fraction of the volts.

## 5. Proofs

Assumptions are those on the constants (`DataLoggerAssumption`, ...): positive
counts and intervals, nothing else. All theorems hold for every value of them. For `DeviceCount` of
*DataLogger* and the interval of *LoopSchedule* this takes a sensible `yasdi.ini` for granted: the
code checks neither. `StartupProofs` assumes nothing of `deviceCount` but that it is an integer.

* **DataLoggerProofs.** The invariant comes in layers. `TypeOK`; `Control`: where
  the process stands, the flags and the handles agree (in a turn with `readOK`, the
  handles are current and `loop` holds; only a failure clears the two flags, and
  together), which gives `HandlesCurrent` and `NeverShutsDown`; `Buffers`: at channel
  `n` of a pass that is still good, the entries below `n` are this pass's readings, at its
  end all are, and the query is its entry, which gives `RowsUnmixed`, although
  the buffer really does hold old readings in between; `Order`: rows and
  failures lie behind the current turn and device, which gives `NoRowPastFailure`
  and `RowsOrdered`. `LogImplemented` maps each action to an action of `SampleLog` or
  to a stutter, using `Control` and `Buffers`.
* **LoopScheduleProofs.** Lemmas on `%` (remainder, next multiple, shift by a
  multiple), then `Schedule`: while nothing is late `wake` is a multiple of the interval
  after midnight, and never less than an interval after the latest start.
  Hence `OnGrid`, the range of every sleep, and `NeverEarly`.
* **StartupProofs.** `Progress` says what is established at each step: drivers
  before arrays, a connection that would be accepted before `createTable`, and
  that rights and user outlive kills unless the operator interferes. Hence
  `LoggingReady`, `RootRemovable` and `OnlyHalfSetupIsFatal`.
* **ModbusProofs**, the calls. `TypeOK` needs `SocketOwn` (the connection in use is the
  current call's) to be inductive. `Timed`: unless the peer has closed, `lastAccess` is
  as old as the wait; hence `WaitBounded`. `Own`: requests, segments and the packet
  belong to the call of their connection, and what they say has happened; hence
  `SuccessIsOwn`. `ExchangeImplements`: each action of *ModbusExchange* is one of
  *ModbusMaster* or leaves its variables alone, so that these theorems hold of it.
  `ConfirmedInOrderCorrect` rests on `Ordered`: no request is performed twice, and only those of
  calls that have begun (`Once`); nothing of a call is performed before it is sent (`Unsent`); and
  what the device has applied it has written (`AppliedWritten`).
* **ModbusProofs**, the bytes, for data and memories of any size. Induction is had from the library:
  `NatMin` (a set of numbers has a least one, from the well-foundedness of `<`) gives `Induct`, and
  `JoinedInduct` carries it over what `FlattenSeq` joins. From there the packets are followed
  byte by byte: the bytes of the items are the words meant (`DataLaid`); each builder lays them
  out under a header with the right length (`CountedLaid`, `ReadWriteLaid`); each bit of an octet is where
  it was put (`OctetBit`), so each coil is. `UnderstoodRequest` and `WriteLands` say of one packet what
  `RequestsUnderstood` and `WritesLand` say of all; the invariant `Called` (requests are of calls made,
  with the operation called for) carries them over. For the answers `ReadBack` says that what the device has
  read out goes through the reply, cut anywhere, and the parser, and comes out as `ReadsRight`
  wants it. The invariant `Answers` carries that over: the device's memory stays one (bits, and numbers of 16
  bits), and every normal reply that is under way, has been taken or stands as the result tells what was
  read out for its call, and is no longer than that. `ValuesReturn` adds that a number is had back from its
  words (`IntBack`, `DIntBack`) and that there is a first zero byte (`Largest`). It is proved for endianness 0, to
  which the master is set; with 1 a double word does not come back, as section 4 says.
* **ModbusProofs**, the calls and the bytes together. `AccessImplemented` maps each step of *ModbusExchange* to a
  step of *RegisterAccess* or to a stutter: a normal reply to `Perform` (`ReplyPerforms`: what the request makes of the
  memory, and what the reply has of it, are what the operation means), an exception or a request that was lost to
  `Lose` (`ReplyRefuses`, `RestAccess`), a call that returns to `ReturnValue` or `ReturnBlindly` (`ParseReturns`, with
  `ExpectedBegun`: a reply cut off shows the beginning). It needs every invariant above and one more, `HeldOnce`:
  no call is read out twice, nor before it has been sent.
* **RadioProofs**, for queues of any length. `Control`: the steps belong to their program, readings are counted,
  and `heater` answers the last usable reading once the command decided on is sent. `Commanded`: the last command
  for a relay on its way to the node says what the program has asked for last, and when none is on its way the
  relay is in that state unless it was disturbed. Hence `HeatingFollows` and `PumpFollows`. `Fresh`: an answer to a
  reading, on its way or, while a request waits, in the buffer, is the answer to this reading, because the buffer was
  cleared when it was asked for. Hence `SwitchedByFresh`.
* **ClassicScriptProofs.** The invariant says at each step which of the command's writes the
  registers already show (`EQWritten`, `LimitWritten`, `BulkForced`) and in which sessions the step
  can be (`Sessions`); a cut leaves nothing to show. Hence `EQForcedSafely`, for all volts and
  times, by a lemma on the fraction that is dropped, and `ChargeEnded`.
* **ChargingProfileProofs.** `Waiting`: a mode SHORTEQ that waits was decided on a reason that still
  holds, since time only passes and a discharge stays signalled. Hence `ShortEQSpaced`;
  `FloatEarned` needs no more than the step, as float is forced only by the evaluation that decides it.
* **ClassicLoggerProofs.** The stage is the high byte of its register (`HighByte`);
  `Grounded`: what a decision rests on was read in this run, because null is
  neither absorb nor a high voltage; hence `NoBlindCommand`.

Only model-checked: the liveness properties (`LossIsRecovered`, `TurnsGoOn`,
`WaitEnds`, `DSEQStarts`, `RunEnds`), since liveness under fairness is out of TLAPS's reach here.
Every safety property of a passing run is a theorem.

## 6. Left out, and why

YASDI, MySQL, PHP's sockets, the Classic and the network are external: they appear
as the outcomes the code distinguishes. Not modelled: steps of the clock and daylight
saving; `requestedInterval = 0` (a division by zero nothing prevents), and the loop with a
`deviceCount` of 0 or below (nothing prevents it either); the
text of queries and logs; two commands of `classic.py` at once (*ClassicScript* takes
them one after another, a cut-off one included); two runs of the classic logger at once (nothing in the
repository says how often it is started); PHP's limits on time and memory,
which may end a call that finding 2 keeps waiting; the radio's timing beyond the one assumption
that a message is not under way for longer than the sleep between two readings. Markup, the cosm upload (one
HTTP request without state), `util.c` (trimming and formatting), vendored libraries
and recorded data have no behaviour to check. The chart writers select all rows of a
period with one query and print each of them: they keep no state, take no decision and rely on
nothing but the order in which MySQL returns the rows. Most lines under `src/` are headers of
MySQL (`scripts/datalogger/mysql_incl`), the calendar and the chart libraries, which are third-party code.

## 7. Plan

What is left, in this order:

1. `ClassicLogger` and `ClassicScript` stated over `RegisterAccess` instead of their own reads and
   writes: the values and nulls they meet are its `ReturnValue`, `ReturnBlindly` and `Fail`.
2. `ClassicScript` composed with the whole of `ClassicLogger` instead of its two commands.
