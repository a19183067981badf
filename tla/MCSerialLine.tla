---------------------------- MODULE MCSerialLine ----------------------------
(* Fields for SerialLine at the ends of their ranges, and some chosen for    *)
(* the check byte of their frame: the reading 130 gives one whose last       *)
(* payload byte equals its check sum, the reading 123 and the fault 2 end in *)
(* the sync byte, the reading 126 contains it.                               *)
EXTENDS SerialLine

Config(packets, cadence, weight) ==
    [seed |-> 305419896, packets |-> packets, cadence_ms |-> cadence,
     weights |-> <<weight, 0, 1, 2, 3, 126, 255>>]
Injected(id, kind, seq) == [fault_id |-> id, kind |-> kind, at_seq |-> seq]
Reading(seq, value, id) == [seq |-> seq, value |-> value, fault_id |-> id]

MCConfigs == {Config(65535, 5, 255), Config(1, 256, 0)}
MCFaults == {Injected(2, 7, 1), Injected(16909060, 3, 258)}
MCReadings ==
    { Reading(1, 130, 0), Reading(4, 123, 0), Reading(126, 126, 126),
      Reading(65535, 149, 2147483647) }
MCTotals == {[packets |-> 1200, faults |-> 258]}
=============================================================================
