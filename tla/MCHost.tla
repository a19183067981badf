------------------------------- MODULE MCHost -------------------------------
(* Host with channels of one chunk and one frame, reads of one or two bytes, *)
(* and traffic of every kind the tasks tell apart.                           *)
EXTENDS Host

MCTraffic == {Silent, Garbage, BadCrc("PONG"), Verified("FAULT"), BadCrc("FAULT"),
              BadCrc("END")}
=============================================================================
