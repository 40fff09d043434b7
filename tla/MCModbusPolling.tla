-------------------------- MODULE MCModbusPolling --------------------------
(***************************************************************************)
(* An instance of ModbusPolling for TLC: three registers, a device that    *)
(* has only some of what they ask for, and one with the number a request   *)
(* for slave -1 goes out with.  The polls use three of the four functions; *)
(* a poll of a coil would begin with one call more, which makes of bits    *)
(* what the call for input bits makes of them.                             *)
(***************************************************************************)
EXTENDS ModbusPolling

MCRegisters == {"status", "holding", "input"}

MCRegType ==
  [r \in MCRegisters |->
     CASE r = "status"  -> ReadDiscreteInputs
       [] r = "holding" -> ReadHoldingRegisters
       [] r = "input"   -> ReadInputRegisters]

MCRegAddress == [r \in MCRegisters |-> IF r = "holding" THEN 1 ELSE 0]

MCTables ==
  [f \in Functions |->
     CASE f \in BitFunctions       -> [a \in {0} |-> 1]
       [] f = ReadHoldingRegisters -> [a \in 0 .. 1 |-> 256 * a + 3]
       [] f = ReadInputRegisters   -> [a \in {1} |-> 7]]
=============================================================================
