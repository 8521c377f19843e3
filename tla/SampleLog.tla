------------------------------ MODULE SampleLog ------------------------------
(***************************************************************************)
(* What the data logger promises to whoever reads the table logged_values, *)
(* said without detection, handles, buffers, queries or retries: the table *)
(* is an append-only log; every entry is the complete set of channel       *)
(* readings that one device gave in one turn of the logging loop; turns    *)
(* come in order and, within a turn, devices come in order; and once a     *)
(* device is lost nothing is stored until a new turn has begun after the   *)
(* recovery.                                                               *)
(*                                                                         *)
(* A pass may leave no entry, and an entry may be stored more than once:   *)
(* the logger promises neither at most once nor at least once.             *)
(***************************************************************************)
EXTENDS Naturals, Sequences

CONSTANTS
  DeviceCount,   \* devices that are polled
  ChannelCount   \* channels read from each device

VARIABLES
  log,      \* the entries stored so far, oldest first
  turn,     \* the number of the current or latest turn
  at,       \* the device that turn has come to
  phase     \* "waiting" for a turn, "logging" in one, or "lost"

vars == <<log, turn, at, phase>>

Device == 1..DeviceCount

Channel == 1..ChannelCount

\* What device d answered for channel ch in turn c.
Sample(c, d, ch) == [turn |-> c, device |-> d, channel |-> ch]

\* The entry of a complete pass over the channels of device d in turn c.
Entry(c, d) ==
  [turn |-> c, device |-> d, values |-> [ch \in Channel |-> Sample(c, d, ch)]]

Init ==
  /\ log = <<>>
  /\ turn = 0
  /\ at = 1
  /\ phase = "lost"

NewTurn ==
  /\ phase = "waiting"
  /\ phase' = "logging"
  /\ turn' = turn + 1
  /\ at' = 1
  /\ UNCHANGED log

\* The turn goes on to the next device, even when one has been lost.
Advance ==
  /\ phase # "waiting"
  /\ at < DeviceCount
  /\ at' = at + 1
  /\ UNCHANGED <<log, turn, phase>>

Store ==
  /\ phase = "logging"
  /\ log' = Append(log, Entry(turn, at))
  /\ UNCHANGED <<turn, at, phase>>

EndTurn ==
  /\ phase = "logging"
  /\ at = DeviceCount
  /\ phase' = "waiting"
  /\ UNCHANGED <<log, turn, at>>

\* A device, or the logger itself.
Lose ==
  /\ phase' = "lost"
  /\ UNCHANGED <<log, turn, at>>

Recover ==
  /\ phase = "lost"
  /\ phase' = "waiting"
  /\ UNCHANGED <<log, turn, at>>

Next == NewTurn \/ Advance \/ Store \/ EndTurn \/ Lose \/ Recover

Spec == Init /\ [][Next]_vars
=============================================================================
