------------------------------- MODULE MCModbus -------------------------------
(* Constants of the runs of Modbus that are not single values. *)
EXTENDS Modbus

\* A span of zeros, a dead barometer, and one that uses both bytes of a register.
MCSpans == {<<0, 0>>, <<2, 0>>, <<256, 3>>}
=============================================================================
