--------------------------- MODULE MCModbusExchange ---------------------------
(* The model-checking instance of ModbusExchange; see the .cfg files. *)
EXTENDS ModbusExchange

\* One operation at least for each function; numbers with a sign, coils over
\* the end of a byte, an item of every type.
Op(fc, reference, quantity, items, bits, referenceWrite) ==
  [fc |-> fc, reference |-> reference, quantity |-> quantity, data |-> items,
   coils |-> bits, referenceWrite |-> referenceWrite]

Item(type, value) == [type |-> type, value |-> value]

MCOperations == {
  Op(1, 1, 9, <<>>, <<>>, 0),
  Op(2, 0, 9, <<>>, <<>>, 0),
  Op(3, 0, 2, <<>>, <<>>, 0),
  Op(3, 2, 1, <<>>, <<>>, 0),
  Op(6, 2, 0, <<Item("INT", -2)>>, <<>>, 0),
  Op(15, 1, 0, <<>>, <<TRUE, FALSE, TRUE, TRUE, FALSE, FALSE, FALSE, FALSE, TRUE>>, 0),
  Op(16, 0, 0, <<Item("DINT", -70000)>>, <<>>, 0),
  Op(16, 0, 0, <<Item("INT", 258), Item("REAL", 1078530011)>>, <<>>, 0),
  Op(23, 0, 2, <<Item("INT", 513)>>, <<>>, 1)}
=============================================================================
