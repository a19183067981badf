------------------------------ MODULE MCResync -------------------------------
(* The garbage and the frame of the test, and the same garbage without the   *)
(* SYNC at its end.                                                          *)
EXTENDS Resync

MCReadings == {[seq |-> 1, value |-> 10, fault_id |-> 0]}

MCBursts == {<<165, 0, 255, 126, 99>>, <<165, 0, 255, 126, 99, 126>>}
==============================================================================
