------------------------------- MODULE Resync --------------------------------
(* SerialLine's receiver behind a burst of junk: a parser that was just made *)
(* is given the burst and then one whole measurement frame.                  *)
EXTENDS SerialLine

CONSTANT Bursts     \* the junk that may come first, as sequences of bytes

ResyncInit ==
    /\ buf = <<>> /\ got = <<>>
    /\ \E burst \in Bursts, r \in Readings :
          current = Sensor(r) /\ line = burst \o Sensor(r).wire
    /\ wasEmpty = TRUE /\ damaged = FALSE /\ frames = 1

ResyncSpec == ResyncInit /\ [][Receive]_vars

\* "parser should find the frame after garbage", the test
\* parser_resyncs_through_garbage of lib.rs:329-342: the receiver is told of
\* the frame, verified or not. But a SYNC at the end of the junk takes the
\* frame's own SYNC for a length, and both are dropped (lib.rs:265-267).
ResyncsAfterGarbage ==
    line = <<>> =>
        \E r \in DOMAIN got :
            got[r] \in {BadCrc(current.kind), Frame(current.kind, current.payload)}
=============================================================================
