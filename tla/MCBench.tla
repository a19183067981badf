------------------------------ MODULE MCBench -------------------------------
(* Campaigns of three slots for Bench, of the kinds that the numbers and the *)
(* clock show, at the default cadence of 5 ms.                               *)
EXTENDS Bench

MCConfig == [packets |-> 3, cadence_ms |-> 5,
             kinds |-> {FAULT_BITFLIP, FAULT_DROP, FAULT_DELAY, FAULT_REPLAY,
                        FAULT_BURST, FAULT_DUTY}]
=============================================================================
