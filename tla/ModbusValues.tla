------------------------------ MODULE ModbusValues ------------------------------
(***************************************************************************)
(* The conversions of www/Phpmodbus: IecType.php turns numbers into the    *)
(* bytes of a packet, PhpType.php turns bytes back into numbers.           *)
(*                                                                         *)
(* A double word is the pair of its 16-bit halves; the unsigned number it  *)
(* stands for may exceed TLC's integers.  A REAL is given by the integer   *)
(* with its 32 bits, which is what pack and unpack make of it.             *)
(***************************************************************************)
EXTENDS Integers, Sequences

iecBYTE(value) == value % 256

iecINT(value) == <<iecBYTE(value \div 256), iecBYTE(value)>>

DWord(value) == [hi |-> (value \div 65536) % 65536, lo |-> value % 65536]

\* Endianness 0 swaps the words and not the bytes.
endianness(value, e) ==
  LET w == DWord(value) IN
  IF e = 0 THEN iecINT(w.lo) \o iecINT(w.hi) ELSE iecINT(w.hi) \o iecINT(w.lo)

iecDINT(value, e) == endianness(value, e)

iecREAL(value, e) == endianness(value, e)

-----------------------------------------------------------------------------
\* Two bytes are filled up with zeros; other lengths throw and have no value.
checkData(data) ==
  CASE Len(data) = 2 -> data \o <<0, 0>>
    [] Len(data) = 4 -> data

\* Endianness 1 swaps bytes and words: it does not read back what
\* endianness(value, 1) writes.
combineBytes(d, e) ==
  IF e = 0 THEN [hi |-> d[3] * 256 + d[4], lo |-> d[1] * 256 + d[2]]
           ELSE [hi |-> d[4] * 256 + d[3], lo |-> d[2] * 256 + d[1]]

dword2signedInt(w) == (IF w.hi >= 32768 THEN w.hi - 65536 ELSE w.hi) * 65536 + w.lo

\* Mutant: a negative number of two bytes is not extended.
bytes2signedIntPlain(values, e) == dword2signedInt(combineBytes(checkData(values), e))

bytes2signedInt(values, e) ==
  LET int == combineBytes(checkData(values), e) IN
  dword2signedInt(IF Len(values) = 2 /\ int.lo >= 32768
                  THEN [int EXCEPT !.hi = 65535] ELSE int)

\* The word itself stands for the unsigned number, and for the float.
bytes2unsignedInt(values, e) == combineBytes(checkData(values), e)

\* The characters in their order, up to the first zero; a missing one is null,
\* which is 0.
bytes2string(values, e) ==
  LET at(i) == IF i \in DOMAIN values THEN values[i] ELSE 0
      char == [i \in 1..Len(values) |->
                 at(IF e # 0 THEN i ELSE IF i % 2 = 1 THEN i + 1 ELSE i - 1)]
      ends == {n \in 0..Len(values) : \A i \in 1..n : char[i] # 0}
  IN SubSeq(char, 1, CHOOSE n \in ends : \A k \in ends : k <= n)
=============================================================================
