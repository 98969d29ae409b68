------------------------------ MODULE MCUplink ------------------------------
(***************************************************************************)
(* Two interval commands, a status request, a set-interval opcode of the   *)
(* wrong length, a frame that is too long for the buffer, and a command on *)
(* another port; readings that separate every rank the allowances cut at.  *)
(***************************************************************************)
EXTENDS Uplink

MCFrames ==
  {[port |-> 10, len |-> 5, op |-> 1, args |-> 900],
   [port |-> 10, len |-> 5, op |-> 1, args |-> 7200],
   [port |-> 10, len |-> 1, op |-> 3, args |-> 0],
   [port |-> 10, len |-> 1, op |-> 1, args |-> 0],
   [port |-> 10, len |-> 70, op |-> 1, args |-> 900],
   [port |-> 2, len |-> 5, op |-> 1, args |-> 900]}

Weather == {"wind_speed", "wind_dir", "air_temp", "humidity", "pressure"}

MCReadings ==
  {{}, {"soc"}, {"batt_volts"}, Weather, Fields, Fields \ {"air_temp"}}
=============================================================================
