--------------------------- MODULE RegisterAccess ---------------------------
(***************************************************************************)
(* What the caller of ModbusMaster may rely on, said without connections,  *)
(* packets, response codes or clocks.  The device has one memory.  The     *)
(* caller makes one call after the other.  The operation of a call is      *)
(* performed in one moment, at most once, after the call was made.         *)
(*                                                                         *)
(* A call that returns a value has been performed, and before it returned: *)
(* a read returns what it found, though bytes at the end may be missing,   *)
(* and read as 0.  A call that fails promises nothing: it may have been    *)
(* performed, be performed after any later call, or never.  And a call may *)
(* return blindly, on an answer too short to tell anything: nothing for a  *)
(* read, but for a write the same TRUE as a write that has been performed. *)
(***************************************************************************)
EXTENDS Naturals, Sequences

CONSTANTS
  Operations,     \* what may be called for
  Blank,          \* the memory at first
  Effect(_, _),   \* the memory an operation makes of a memory
  Reads(_, _)     \* the bytes an operation reads in the memory it leaves

VARIABLES
  memory,       \* of the device
  operations,   \* of the calls made so far
  pending,      \* calls whose operation may still be performed
  found,        \* what each call that has been performed has read
  outcome,      \* of the latest call
  value         \* that it has returned, if any

vars == <<memory, operations, pending, found, outcome, value>>

\* The latest call.
now == Len(operations)

Busy == now > 0 /\ outcome = "none"

\* The first n bytes of v.
Begun(v, n) == [i \in DOMAIN v |-> IF i <= n THEN v[i] ELSE 0]

Init ==
  /\ memory = Blank
  /\ operations = <<>>
  /\ pending = {}
  /\ found = [c \in {} |-> <<>>]
  /\ outcome = "none"
  /\ value = <<>>

Invoke(op) ==
  /\ ~Busy
  /\ operations' = Append(operations, op)
  /\ pending' = pending \union {now + 1}
  /\ outcome' = "none"
  /\ value' = <<>>
  /\ UNCHANGED <<memory, found>>

Perform(c) ==
  /\ c \in pending
  /\ pending' = pending \ {c}
  /\ memory' = Effect(operations[c], memory)
  /\ found' = [d \in DOMAIN found \union {c} |->
                 IF d = c THEN Reads(operations[c], memory') ELSE found[d]]
  /\ UNCHANGED <<operations, outcome, value>>

\* The request is lost or refused.
Lose(c) ==
  /\ c \in pending
  /\ pending' = pending \ {c}
  /\ UNCHANGED <<memory, operations, found, outcome, value>>

ReturnValue ==
  /\ Busy
  /\ now \in DOMAIN found
  /\ outcome' = "value"
  /\ \E n \in 0..Len(found[now]) : value' = Begun(found[now], n)
  /\ UNCHANGED <<memory, operations, pending, found>>

ReturnBlindly ==
  /\ Busy
  /\ outcome' = "blind"
  /\ UNCHANGED <<memory, operations, pending, found, value>>

\* What has not been sent when the call fails is not performed later.
Fail ==
  /\ Busy
  /\ outcome' = "error"
  /\ pending' \in {pending, pending \ {now}}
  /\ UNCHANGED <<memory, operations, found, value>>

Next ==
  \/ \E op \in Operations : Invoke(op)
  \/ \E c \in pending : Perform(c) \/ Lose(c)
  \/ ReturnValue \/ ReturnBlindly \/ Fail

Spec == Init /\ [][Next]_vars
=============================================================================
