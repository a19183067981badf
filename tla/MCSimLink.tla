----------------------------- MODULE MCSimLink ------------------------------
(* A host for SimLink that starts, restarts, pings and aborts campaigns of   *)
(* up to two slots, over a channel that holds two frames.                    *)
EXTENDS SimLink

Config(packets, kinds) == [packets |-> packets, cadence_ms |-> 5, kinds |-> kinds]

MCConfigs == {Config(1, {FAULT_REPLAY}),
              Config(2, {FAULT_BITFLIP, FAULT_DROP, FAULT_DELAY, FAULT_BURST, FAULT_DUTY})}

MCChunks == {<<Start(c)>> : c \in MCConfigs}
              \cup {<<>>, <<Ping>>, <<Abort>>, <<Ping, Start(Config(1, {})), Ping>>}

\* campaign::run sends the START and then only listens.
OnlyStart == {<<Start(Config(1, {}))>>}
=============================================================================
