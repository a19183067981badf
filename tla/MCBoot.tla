------------------------------- MODULE MCBoot --------------------------------
(* Boards for Boot: main inside or below the guard, calls that reach nothing *)
(* new, the canary of the self-test, or all of RAM; readings on both sides   *)
(* of every limit of the loopback.                                           *)
EXTENDS Boot

MCTestWords == {1024, 1028}

MCVrefCounts == {0, 869, 870, 900, 1098, 1099, 1301, 1302, 1502, 1702, 1703, 4095}
==============================================================================
