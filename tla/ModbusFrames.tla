------------------------------ MODULE ModbusFrames ------------------------------
(***************************************************************************)
(* The packet builders and parsers of www/Phpmodbus/ModbusMaster.php.      *)
(*                                                                         *)
(* An operation is a record: fc, the function code; reference and          *)
(* quantity, what is read, or where a write goes; data, a sequence of      *)
(* [type, value] for the registers to write, and coils, a sequence of      *)
(* booleans for the coils; referenceWrite, for function 23 only.           *)
(***************************************************************************)
EXTENDS ModbusValues, SequencesExt

CONSTANTS
  unitId,       \* of the device
  Endianness    \* $endianness of ModbusMaster

-----------------------------------------------------------------------------
\* The length in the header is the dataLen a builder has counted, plus the
\* byte of the unit.
Packet(transaction, dataLen, body) ==
  iecINT(transaction) \o iecINT(0) \o iecINT(dataLen + 1) \o <<iecBYTE(unitId)>> \o body

readRequest(fc, t, op) ==
  Packet(t, 5, <<iecBYTE(fc)>> \o iecINT(op.reference) \o iecINT(op.quantity))

readCoilsPacketBuilder(t, op) == readRequest(1, t, op)
readInputDiscretesPacketBuilder(t, op) == readRequest(2, t, op)
readMultipleRegistersPacketBuilder(t, op) == readRequest(3, t, op)

\* Only the first item is written.
writeSingleRegisterPacketBuilder(t, op) ==
  LET value == IF op.data = <<>> THEN <<>> ELSE iecINT(op.data[1].value)
  IN Packet(t, Len(value) + 3, <<iecBYTE(6)>> \o iecINT(op.reference) \o value)

\* Mutant: the shift is not set back where a byte ends.
coilByteShifted(coils, k) ==
  iecBYTE(SumSet({2 ^ n : n \in {n \in 8 * k..8 * k + 7 : n < Len(coils) /\ coils[n + 1]}}))

\* Eight bits, the first one in the lowest place.
octet(b) ==
  b[0] + 2 * b[1] + 4 * b[2] + 8 * b[3] + 16 * b[4] + 32 * b[5] + 64 * b[6] + 128 * b[7]

\* Byte k: eight coils, or those that are left.
coilByte(coils, k) ==
  octet([n \in 0..7 |-> IF 8 * k + n < Len(coils) /\ coils[8 * k + n + 1] THEN 1 ELSE 0])

\* No coils make one byte all the same.
writeMultipleCoilsPacketBuilder(t, op) ==
  LET count == Len(op.coils)
      stream == [k \in 1..(IF count = 0 THEN 1 ELSE (count + 7) \div 8) |->
                   coilByte(op.coils, k - 1)]
  IN Packet(t, Len(stream) + 6,
            <<iecBYTE(15)>> \o iecINT(op.reference) \o iecINT(count)
              \o <<iecBYTE((count + 7) \div 8)>> \o stream)

\* An unknown type counts as INT.
itemBytes(item) ==
  CASE item.type = "DINT" -> iecDINT(item.value, Endianness)
    [] item.type = "REAL" -> iecREAL(item.value, Endianness)
    [] OTHER -> iecINT(item.value)

dataBytes(data) == FlattenSeq([k \in DOMAIN data |-> itemBytes(data[k])])

writeMultipleRegisterPacketBuilder(t, op) ==
  LET data == dataBytes(op.data)
  IN Packet(t, Len(data) + 6,
            <<iecBYTE(16)>> \o iecINT(op.reference) \o iecINT(Len(data) \div 2)
              \o <<iecBYTE(Len(data))>> \o data)

\* Mutant: dataLen grows by 6, as for function 16.
readWriteRegistersShort(t, op) ==
  LET data == dataBytes(op.data)
  IN Packet(t, Len(data) + 6,
            <<iecBYTE(23)>> \o iecINT(op.reference) \o iecINT(op.quantity)
              \o iecINT(op.referenceWrite) \o iecINT(Len(data) \div 2)
              \o <<iecBYTE(Len(data))>> \o data)

readWriteRegistersPacketBuilder(t, op) ==
  LET data == dataBytes(op.data)
  IN Packet(t, Len(data) + 10,
            <<iecBYTE(23)>> \o iecINT(op.reference) \o iecINT(op.quantity)
              \o iecINT(op.referenceWrite) \o iecINT(Len(data) \div 2)
              \o <<iecBYTE(Len(data))>> \o data)

packetBuilder(t, op) ==
  CASE op.fc = 1 -> readCoilsPacketBuilder(t, op)
    [] op.fc = 2 -> readInputDiscretesPacketBuilder(t, op)
    [] op.fc = 3 -> readMultipleRegistersPacketBuilder(t, op)
    [] op.fc = 6 -> writeSingleRegisterPacketBuilder(t, op)
    [] op.fc = 15 -> writeMultipleCoilsPacketBuilder(t, op)
    [] op.fc = 16 -> writeMultipleRegisterPacketBuilder(t, op)
    [] op.fc = 23 -> readWriteRegistersPacketBuilder(t, op)

-----------------------------------------------------------------------------
\* $packet[i] of a string; past its end there is the null byte.
at(packet, i) == IF i < Len(packet) THEN packet[i + 1] ELSE 0

\* As many bytes as byte 8 says.
readMultipleRegistersParser(packet) ==
  [i \in 1..at(packet, 8) |-> at(packet, 8 + i)]

readWriteRegistersParser(packet) == readMultipleRegistersParser(packet)

bit(value, i) == (value \div 2 ^ i) % 2

\* Mutant: the first coil is looked for in the highest bit.
coilBitReversed(data, di) == bit(data[di \div 8 + 1], 7 - (di % 8))

coilBit(data, di) == bit(data[di \div 8 + 1], di % 8)

\* The bits of the bytes received, until there are quantity.
readCoilsParser(packet, quantity) ==
  LET data == readMultipleRegistersParser(packet)
  IN [di \in 1..Min({quantity, 8 * Len(data)}) |-> coilBit(data, di - 1)]

readInputDiscretesParser(packet, quantity) == readCoilsParser(packet, quantity)

\* The parsers of the writing functions return true.
parser(packet, op) ==
  CASE op.fc = 1 -> readCoilsParser(packet, op.quantity)
    [] op.fc = 2 -> readInputDiscretesParser(packet, op.quantity)
    [] op.fc = 3 -> readMultipleRegistersParser(packet)
    [] op.fc = 23 -> readWriteRegistersParser(packet)
    [] OTHER -> <<>>
=============================================================================
