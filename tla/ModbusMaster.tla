----------------------------- MODULE ModbusMaster -----------------------------
(***************************************************************************)
(* One register access after the other through www/Phpmodbus/              *)
(* ModbusMaster.php, as the Midnite Classic code uses it: over TCP, each   *)
(* call with a connection of its own, a read or a write.  Each call        *)
(* connects, sends one request, waits for the first bytes that come back   *)
(* and takes them for the whole reply.  What is in the packets is left to  *)
(* ModbusExchange.                                                         *)
(*                                                                         *)
(* The device and the network are external: a request is performed late or *)
(* never, the first segment of a reply may be short, the peer may close.   *)
(* Transaction ids are random and never compared; a reply is marked with   *)
(* the call it answers only for the properties.                            *)
(***************************************************************************)
EXTENDS Integers, Sequences

CONSTANTS
  timeout_sec,   \* of ModbusMaster
  Lengths,       \* bound: lengths the first segment of a reply may have
  MaxCalls,      \* bound: calls made
  MaxWait        \* bound: seconds counted in one wait

ASSUME ModbusAssumption ==
  /\ timeout_sec \in Nat \ {0}
  /\ Lengths \subseteq Nat \ {0}
  /\ MaxCalls \in Nat
  /\ MaxWait \in Nat /\ MaxWait > timeout_sec

VARIABLES
  pc,         \* "idle" between calls, "stopped", or the step of the call
  call,       \* history: number of the current call; 0 before the first
  kind,       \* "read" or "write"
  sock,       \* $this->sock: the connection, named by the call it was made for
  idle,       \* seconds since lastAccess
  waited,     \* history: seconds since the request of this call was sent
  packet,     \* what rec returned
  result,     \* what the call returned or threw
  requests,   \* device: requests it has received and not yet answered
  incoming,   \* the segments that have come in on each connection
  closed,     \* connections the peer has closed
  applied     \* device: the calls whose write it has performed

vars == <<pc, call, kind, sock, idle, waited, packet, result, requests,
          incoming, closed, applied>>

request == <<call, kind>>
device == <<requests, incoming, closed, applied>>

Calls == 1..MaxCalls

\* Bytes of a reply before the data, up to and including the byte count.
Header == 9

\* The first len bytes of the reply to a call; an exception reply is no
\* longer than the header.
Segment ==
  {s \in [call : Calls, reply : {"normal", "exception"}, len : Lengths] :
     s.reply = "exception" => s.len <= Header}

\* What rec returns when socket_select fails: the parsers read every byte of
\* NULL, as every missing byte of a short packet, as 0.
Null == [call |-> 0, reply |-> "none", len |-> 0]

NoResult == [is |-> "none", packet |-> Null]

Readable == incoming[sock] # <<>> \/ sock \in closed

\* Mutant: the watchdog tests > where the code tests >=.
WatchdogLate == ~Readable /\ idle > timeout_sec

\* The else branch of rec: nothing to read, and timeout_sec since lastAccess.
WatchdogDue == ~Readable /\ idle >= timeout_sec

-----------------------------------------------------------------------------
Init ==
  /\ pc = "idle"
  /\ call = 0
  /\ kind = "read"
  /\ sock = 0
  /\ idle = 0
  /\ waited = 0
  /\ packet = Null
  /\ result = NoResult
  /\ requests = {}
  /\ incoming = [c \in Calls |-> <<>>]
  /\ closed = {}
  /\ applied = {}

\* readMultipleRegisters or writeMultipleRegister is called.
Call(k) ==
  /\ pc = "idle"
  /\ call < MaxCalls
  /\ call' = call + 1
  /\ kind' = k
  /\ result' = NoResult
  /\ pc' = "connect"
  /\ UNCHANGED <<sock, idle, waited, packet, device>>

\* An exception leaves the call at once; the socket is not closed.
Throw ==
  /\ result' = [is |-> "error", packet |-> Null]
  /\ pc' = "idle"

\* Mutant: a socket that a failed call left open is used again.
KeepSocket == IF sock # 0 THEN sock ELSE call

\* socket_create: an earlier socket is dropped with the last reference to it.
NewSocket == call

ConnectOk ==
  /\ pc = "connect"
  /\ sock' = NewSocket
  /\ pc' = "send"
  /\ UNCHANGED <<request, idle, waited, packet, result, device>>

ConnectFails ==
  /\ pc = "connect"
  /\ sock' = NewSocket
  /\ Throw
  /\ UNCHANGED <<request, idle, waited, packet, device>>

\* The result of socket_write is not looked at: the request may be lost.
Send ==
  /\ pc = "send"
  /\ \/ requests' = requests \union {[call |-> call, kind |-> kind, sock |-> sock]}
     \/ UNCHANGED requests
  /\ idle' = 0
  /\ waited' = 0
  /\ pc' = "rec"
  /\ UNCHANGED <<request, sock, packet, result, incoming, closed, applied>>

-----------------------------------------------------------------------------
\* rec: the loop around socket_select.

\* The first socket_recv that returns bytes ends the loop.
RecvData ==
  /\ pc = "rec"
  /\ incoming[sock] # <<>>
  /\ packet' = Head(incoming[sock])
  /\ incoming' = [incoming EXCEPT ![sock] = Tail(@)]
  /\ pc' = "parse"
  /\ UNCHANGED <<request, sock, idle, waited, result, requests, closed, applied>>

\* The peer has closed: readable, no bytes, lastAccess = time().
RecvNothing ==
  /\ pc = "rec"
  /\ incoming[sock] = <<>>
  /\ sock \in closed
  /\ idle' = 0
  /\ UNCHANGED <<pc, request, sock, waited, packet, result, device>>

\* Mutant: every pass of the loop sets lastAccess.
WaitMoreResets ==
  /\ pc = "rec"
  /\ ~Readable
  /\ ~WatchdogDue
  /\ idle' = 0
  /\ UNCHANGED <<pc, request, sock, waited, packet, result, device>>

\* Nothing within 300 ms, and the watchdog has time left.
WaitMore ==
  /\ pc = "rec"
  /\ ~Readable
  /\ ~WatchdogDue
  /\ UNCHANGED vars

Watchdog ==
  /\ pc = "rec"
  /\ WatchdogDue
  /\ Throw
  /\ UNCHANGED <<request, sock, idle, waited, packet, device>>

\* socket_select returns FALSE: rec returns nothing.
SelectFails ==
  /\ pc = "rec"
  /\ packet' = Null
  /\ pc' = "parse"
  /\ UNCHANGED <<request, sock, idle, waited, result, device>>

-----------------------------------------------------------------------------
\* responseCode: bit 7 of byte 7, which a short packet does not have.
CodeSeen == packet.len >= 8

\* Mutant: a reply that ends with the code is not looked at.
ExceptionCodeLate == packet.len > 8 /\ packet.reply = "exception"

ExceptionCode == CodeSeen /\ packet.reply = "exception"

ParseFails ==
  /\ pc = "parse"
  /\ ExceptionCode
  /\ Throw
  /\ UNCHANGED <<request, sock, idle, waited, packet, device>>

\* The parser returns, the socket is closed, the call returns: true for a
\* write, for a read as many bytes as byte 8 says, absent ones being 0.
ParseOk ==
  /\ pc = "parse"
  /\ ~ExceptionCode
  /\ result' = [is |-> "ok", packet |-> packet]
  /\ sock' = 0
  /\ pc' = "idle"
  /\ UNCHANGED <<request, idle, waited, packet, device>>

-----------------------------------------------------------------------------
\* The device performs a request and replies, with a segment of any length.
Reply(r, s) ==
  /\ r \in requests
  /\ s.call = r.call
  /\ requests' = requests \ {r}
  /\ applied' = IF s.reply = "normal" /\ r.kind = "write"
                  THEN applied \union {r.call} ELSE applied
  /\ incoming' = IF r.sock \in closed THEN incoming
                 ELSE [incoming EXCEPT ![r.sock] = Append(@, s)]
  /\ UNCHANGED <<pc, request, sock, idle, waited, packet, result, closed>>

\* The device closes the connection it knows of.
PeerCloses(c) ==
  /\ c \in Calls \ closed
  /\ c <= call
  /\ closed' = closed \union {c}
  /\ UNCHANGED <<pc, request, sock, idle, waited, packet, result, requests, incoming,
                 applied>>

\* A second passes while the call waits.  The loop looks at the clock every
\* 300 ms: neither a watchdog that is due nor a readable socket waits long.
Tick ==
  /\ pc = "rec"
  /\ ~WatchdogDue
  /\ Readable => idle < timeout_sec
  /\ waited < MaxWait
  /\ idle' = idle + 1
  /\ waited' = waited + 1
  /\ UNCHANGED <<pc, request, sock, packet, result, device>>

\* The script has made its last call.
Stop ==
  /\ pc = "idle"
  /\ pc' = "stopped"
  /\ UNCHANGED <<request, sock, idle, waited, packet, result, device>>

Device ==
  \/ \E r \in requests, s \in Segment : Reply(r, s)
  \/ \E c \in Calls : PeerCloses(c)

InCall ==
  \/ ConnectOk \/ ConnectFails \/ Send
  \/ RecvData \/ RecvNothing \/ WaitMore \/ Watchdog \/ SelectFails
  \/ ParseFails \/ ParseOk

Next == (\E k \in {"read", "write"} : Call(k)) \/ InCall \/ Device \/ Tick \/ Stop

Spec == Init /\ [][Next]_vars

\* The loop of rec runs and time passes.  The device and the network owe
\* nothing, and socket_select need not fail.
FairSpec ==
  Spec /\ WF_vars(RecvData \/ RecvNothing \/ WaitMore \/ Watchdog) /\ WF_vars(Tick)

-----------------------------------------------------------------------------
Packets == Segment \union {Null}

TypeOK ==
  /\ pc \in {"idle", "connect", "send", "rec", "parse", "stopped"}
  /\ call \in 0..MaxCalls
  /\ kind \in {"read", "write"}
  /\ sock \in 0..MaxCalls
  /\ idle \in 0..timeout_sec
  /\ waited \in 0..MaxWait
  /\ packet \in Packets
  /\ result \in [is : {"none", "ok", "error"}, packet : Packets]
  /\ requests \subseteq [call : Calls, kind : {"read", "write"}, sock : Calls]
  /\ incoming \in [Calls -> Seq(Segment)]
  /\ closed \subseteq Calls
  /\ applied \subseteq Calls

\* A success that rests on enough bytes to tell is the device's normal reply
\* to this very request, and a write reported so has been performed: although
\* no transaction id is compared, a late reply to an earlier call is never
\* taken for the answer to a later one.
SuccessIsOwn ==
  result.is = "ok" /\ result.packet.len >= 8 =>
    /\ result.packet.call = call
    /\ result.packet.reply = "normal"
    /\ kind = "write" => call \in applied

\* The watchdog holds its time unless the peer closes: whatever the loop does
\* meanwhile, lastAccess is as old as the wait.
WaitBounded == pc = "rec" /\ waited > timeout_sec => sock \in closed

\* A call that waits gets its bytes, or the watchdog ends it, unless the peer
\* has closed the connection.
WaitEnds == pc = "rec" ~> (pc # "rec" \/ sock \in closed)

\* "Timeout 5 sec" (ModbusMaster.php): no call waits for longer.
TimeoutHolds == pc = "rec" => waited <= timeout_sec
===============================================================================
