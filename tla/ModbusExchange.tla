----------------------------- MODULE ModbusExchange -----------------------------
(***************************************************************************)
(* ModbusMaster with the packets: every public function of the class, the  *)
(* bytes it sends and what it makes of the bytes that come back, and a     *)
(* device that keeps coils and registers and goes by the bytes alone.      *)
(*                                                                         *)
(* The device is external and keeps to the Modbus protocol; its discrete   *)
(* inputs are its coils here.  Every step of ModbusMaster is a step of     *)
(* this module, with the data added.                                       *)
(***************************************************************************)
EXTENDS ModbusMaster, ModbusFrames

CONSTANTS
  Operations,   \* bound: the operations called for
  Coils,        \* the device's coils: 0 to some number
  Registers     \* the device's registers: 0 to some number

FunctionCodes == {1, 2, 3, 6, 15, 16, 23}

\* Numbers of two bytes.
Word16 == 0..65535

DataItem == [type : {"INT", "DINT", "REAL"}, value : Int]

\* The arguments of a public function.
Operation ==
  [fc : FunctionCodes, reference : Word16, quantity : Word16, data : Seq(DataItem),
   coils : Seq(BOOLEAN), referenceWrite : Word16]

\* What fits in one packet, whose counts of bytes are bytes themselves.  Nothing in
\* ModbusMaster checks it; the callers in www/classic stay far below.
Fits(op) ==
  /\ op.fc \in {1, 2} => op.quantity <= 8 * 255
  /\ op.fc \in {3, 23} => 2 * op.quantity <= 255
  /\ op.fc = 6 => Len(op.data) = 1
  /\ op.fc = 15 => op.coils # <<>> /\ Len(op.coils) <= 8 * 255
  /\ op.fc \in {16, 23} => Len(dataBytes(op.data)) <= 255

ASSUME ExchangeAssumption ==
  /\ unitId \in 0..255
  /\ \A op \in Operations : op \in Operation /\ Fits(op)
  /\ Coils \subseteq Nat /\ Registers \subseteq Nat

VARIABLES
  operations,   \* the operations called for so far, in the order of the calls
  memory,       \* device: its coils and registers
  held,         \* history: what the device read out for each call it has performed
  written,      \* history: calls in the order in which their writes were performed
  confirmed     \* history: calls that have reported a write as done

data == <<operations, memory, held, written, confirmed>>

Kind(op) == IF op.fc \in {1, 2, 3} THEN "read" ELSE "write"

\* The transaction id is random and nobody looks at it.
Frame(c) == packetBuilder(c, operations[c])

-----------------------------------------------------------------------------
\* The device, by the protocol: addresses and numbers are two bytes each.
word(f, i) == f[i] * 256 + f[i + 1]

\* Lengths and counts agree, each with the others.
Understood(f) ==
  /\ word(f, 3) = 0 /\ Len(f) = 6 + word(f, 5) /\ f[7] = unitId
  /\ CASE f[8] \in {1, 2, 3, 6} -> Len(f) = 12
       [] f[8] = 15 -> Len(f) = 13 + f[13] /\ f[13] = (word(f, 11) + 7) \div 8
       [] f[8] = 16 -> Len(f) = 13 + f[13] /\ f[13] = 2 * word(f, 11)
       [] f[8] = 23 -> Len(f) = 17 + f[17] /\ f[17] = 2 * word(f, 15)

\* The device has what a request reads; otherwise it answers with an exception.
Has(f) ==
  LET addresses == word(f, 9)..word(f, 9) + word(f, 11) - 1
  IN  /\ f[8] \in {1, 2} => addresses \subseteq Coils
      /\ f[8] \in {3, 23} => addresses \subseteq Registers

\* Registers from first on take the words of f from byte i on.
Store(f, m, first, count, i) ==
  [m EXCEPT !.register =
     [a \in Registers |-> IF a \in first..first + count - 1
                            THEN word(f, i + 2 * (a - first)) ELSE @[a]]]

Performed(f, m) ==
  CASE f[8] = 6 -> Store(f, m, word(f, 9), 1, 11)
    [] f[8] = 15 ->
         [m EXCEPT !.coil =
            [a \in Coils |-> LET n == a - word(f, 9)
                             IN IF n \in 0..word(f, 11) - 1
                                  THEN bit(f[14 + n \div 8], n % 8) ELSE @[a]]]
    [] f[8] = 16 -> Store(f, m, word(f, 9), word(f, 11), 14)
    [] f[8] = 23 -> Store(f, m, word(f, 13), word(f, 15), 18)
    [] OTHER -> m

\* What a read finds, after the write if there is one.
ReadOut(f, m) ==
  LET from(cells) == [i \in 1..word(f, 11) |-> cells[word(f, 9) + i - 1]]
  IN CASE f[8] \in {1, 2} -> from(m.coil)
       [] f[8] \in {3, 23} -> from(m.register)
       [] OTHER -> <<>>

\* Coils eight to a byte, registers as two bytes; a write is echoed.
DataBytes(f, h) ==
  IF f[8] \in {1, 2}
  THEN [k \in 1..((Len(h) + 7) \div 8) |->
          octet([n \in 0..7 |-> IF 8 * k - 7 + n <= Len(h) THEN h[8 * k - 7 + n] ELSE 0])]
  ELSE FlattenSeq([k \in DOMAIN h |-> <<h[k] \div 256, h[k] % 256>>])

ReplyBytes(f, h) ==
  IF f[8] \in {6, 15, 16} THEN SubSeq(f, 1, 12)
  ELSE LET d == DataBytes(f, h)
       IN SubSeq(f, 1, 4) \o iecINT(3 + Len(d)) \o SubSeq(f, 7, 8) \o <<Len(d)>> \o d

-----------------------------------------------------------------------------
XInit ==
  /\ Init
  /\ operations = <<>>
  /\ memory = [coil |-> [a \in Coils |-> 0], register |-> [a \in Registers |-> 0]]
  /\ held = [c \in {} |-> <<>>]
  /\ written = <<>>
  /\ confirmed = {}

\* readCoils to readWriteRegisters.
XCall(op) ==
  /\ Call(Kind(op))
  /\ operations' = Append(operations, op)
  /\ UNCHANGED <<memory, held, written, confirmed>>

\* A normal reply means that the device has understood and performed.
XReply(r, s) ==
  /\ Reply(r, s)
  /\ LET f == Frame(r.call)
         now == Performed(f, memory)
         out == ReadOut(f, now)
     IN IF s.reply = "normal"
        THEN /\ Understood(f) /\ Has(f)
             /\ s.len <= Len(ReplyBytes(f, out))
             /\ memory' = now
             /\ held' = [c \in DOMAIN held \union {r.call} |->
                           IF c = r.call THEN out ELSE held[c]]
             /\ written' = IF r.kind = "write" THEN Append(written, r.call) ELSE written
        ELSE UNCHANGED <<memory, held, written>>
  /\ UNCHANGED <<operations, confirmed>>

\* disconnect, "DONE", return.
XParseOk ==
  /\ ParseOk
  /\ confirmed' = IF kind = "write" /\ CodeSeen THEN confirmed \union {call} ELSE confirmed
  /\ UNCHANGED <<operations, memory, held, written>>

XRest ==
  /\ \/ ConnectOk \/ ConnectFails \/ Send
     \/ RecvData \/ RecvNothing \/ WaitMore \/ Watchdog \/ SelectFails
     \/ ParseFails \/ Tick \/ Stop
     \/ \E c \in Calls : PeerCloses(c)
  /\ UNCHANGED data

XNext ==
  \/ \E op \in Operations : XCall(op)
  \/ \E r \in requests, s \in Segment : XReply(r, s)
  \/ XParseOk
  \/ XRest

xvars == <<vars, data>>

XSpec == XInit /\ [][XNext]_xvars

FairXSpec ==
  /\ XSpec
  /\ WF_vars(RecvData \/ RecvNothing \/ WaitMore \/ Watchdog)
  /\ WF_vars(Tick)

-----------------------------------------------------------------------------
\* The register words an item is meant to fill: a double word takes two, the
\* low one first with endianness 0.
Words(item) ==
  LET w == DWord(item.value) IN
  IF item.type \notin {"DINT", "REAL"} THEN <<w.lo>>
  ELSE IF Endianness = 0 THEN <<w.lo, w.hi>> ELSE <<w.hi, w.lo>>

\* What a write is meant to leave in the memory.
Meant(op, m) ==
  LET words == FlattenSeq([k \in DOMAIN op.data |->
                 IF op.fc = 6 THEN <<DWord(op.data[k].value).lo>> ELSE Words(op.data[k])])
      first == IF op.fc = 23 THEN op.referenceWrite ELSE op.reference
  IN IF op.fc = 15
     THEN [m EXCEPT !.coil = [a \in Coils |->
             IF a - op.reference + 1 \in DOMAIN op.coils
             THEN IF op.coils[a - op.reference + 1] THEN 1 ELSE 0
             ELSE @[a]]]
     ELSE [m EXCEPT !.register = [a \in Registers |->
             IF a - first + 1 \in DOMAIN words THEN words[a - first + 1] ELSE @[a]]]

\* Every request can be taken apart: the length in its header and the counts
\* in its body, which the builders reckon on their own, agree with its bytes.
RequestsUnderstood == \A r \in requests : Understood(Frame(r.call))

\* The device, which goes by the bytes, does what the caller has asked for:
\* coils and registers of the operation, and none other, take its values.
WritesLand ==
  [][memory' # memory \/ written' # written =>
       memory' = Meant(operations[Last(written')], memory)]_xvars

\* The call whose reply the result rests on.
Answered == result.packet.call

Returned ==
  parser(SubSeq(ReplyBytes(Frame(Answered), held[Answered]), 1, result.packet.len),
         operations[Answered])

ReadDone ==
  result.is = "ok" /\ result.packet.len >= 8 /\ operations[Answered].fc \in {1, 2, 3, 23}

\* A read that succeeds returns what the device has read out, in order; what
\* the first segment has not brought is 0, and without its count nothing is
\* returned.
ReadsRight ==
  ReadDone =>
    LET op == operations[Answered]
        h == held[Answered]
        len == result.packet.len
        come == len - 9   \* data bytes that have come
    IN Returned =
         IF len < 9 THEN <<>>
         ELSE IF op.fc \in {1, 2}
         THEN [i \in 1..op.quantity |-> IF (i + 7) \div 8 <= come THEN h[i] ELSE 0]
         ELSE [i \in 1..2 * op.quantity |->
                 IF i > come THEN 0
                 ELSE IF i % 2 = 1 THEN h[(i + 1) \div 2] \div 256 ELSE h[i \div 2] % 256]

IsInt16(n) == -32768 <= n /\ n <= 32767

\* The numbers of 16 or 32 bits with their sign.
Fitting(item) ==
  IsInt16(IF item.type = "INT" THEN item.value ELSE item.value \div 65536)

\* Values come back: an item that fits its type and whose words are found whole
\* in the registers read is the number the caller converts the bytes to, and a
\* string ends before the first zero byte.
ValuesReturn ==
  ReadDone /\ operations[Answered].fc \in {3, 23}
           /\ result.packet.len = 9 + 2 * operations[Answered].quantity =>
    /\ \A op \in Operations : \A k \in DOMAIN op.data :
         LET item == op.data[k] IN
         Fitting(item) /\ Words(item) = held[Answered] =>
           /\ bytes2signedInt(Returned, Endianness) = item.value
           /\ item.type # "INT" =>
                bytes2unsignedInt(Returned, Endianness) = DWord(item.value)
    /\ LET string == bytes2string(Returned, 1) IN
         /\ IsPrefix(string, Returned) /\ \A i \in DOMAIN string : string[i] # 0
         /\ string # Returned => Returned[Len(string) + 1] = 0

\* A write reported as done is in the device, and no write of a later call has
\* been performed before it: only calls that have failed can still be
\* performed when the caller has moved on.
ConfirmedInOrder ==
  \A c \in confirmed :
    \E j \in DOMAIN written : written[j] = c /\ \A i \in 1..j - 1 : written[i] < c

-----------------------------------------------------------------------------
\* Calls as RegisterAccess has them.

Effect(op, m) == IF Kind(op) = "write" THEN Meant(op, m) ELSE m

\* The bytes of what has been read out: registers have two, the high one first.
Shown(op, h) ==
  CASE op.fc \in {1, 2} -> h
    [] op.fc \in {3, 23} ->
         [i \in 1..2 * Len(h) |->
            IF i % 2 = 1 THEN h[(i + 1) \div 2] \div 256 ELSE h[i \div 2] % 256]
    [] OTHER -> <<>>

Reads(op, m) ==
  LET cells == IF op.fc \in {1, 2} THEN m.coil ELSE m.register
  IN Shown(op, [i \in 1..op.quantity |-> cells[op.reference + i - 1]])

\* The result rests on an answer, with its count if it is to bring values.
Vouched ==
  /\ result.is = "ok"
  /\ result.packet.len >= IF ReadDone THEN Header ELSE 8

\* Calls that have not been sent yet or not been answered.
Pending ==
  {r.call : r \in requests} \union IF pc \in {"connect", "send"} THEN {call} ELSE {}

Found == [c \in DOMAIN held |-> Shown(operations[c], held[c])]

Outcome == IF result.is # "ok" THEN result.is ELSE IF Vouched THEN "value" ELSE "blind"

Value == IF Vouched /\ ReadDone THEN Returned ELSE <<>>

Access == INSTANCE RegisterAccess WITH
  Blank <- [coil |-> [a \in Coils |-> 0], register |-> [a \in Registers |-> 0]],
  pending <- Pending, found <- Found, outcome <- Outcome, value <- Value

\* However late, lost or cut off the packets are, the calls act on one memory,
\* each at most once and in one moment: a read returns what the memory held at
\* some moment of the call, a write that is vouched for is in it by then, and
\* only calls that have failed or returned blindly can still be performed.
ImplementsAccess == Access!Spec
=============================================================================
