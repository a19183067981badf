------------------------------ MODULE MCScore -------------------------------
(* Lists of up to three injections and detections for Score, on a circle of  *)
(* sixteen sequence numbers, so that -1 is two away from 1. Detections and   *)
(* truths are listed in the order of their times, as the campaign makes them.*)
EXTENDS Score

InTimeOrder(list) == \A i \in 1..(Len(list) - 1) : list[i].at <= list[i + 1].at

Lists(S) == {list \in UNION {[1..n -> S] : n \in 0..3} : InTimeOrder(list)}

MCDetections ==
    Lists({[kind |-> k, seq |-> s, at |-> t] :
              k \in {"Burst", "Crc"}, s \in {1, 15}, t \in {2}}
          \cup {[kind |-> "Gap", seq |-> 4, at |-> 4],
                [kind |-> "Late", seq |-> 4, at |-> 6]})

MCTruths ==
    Lists({[kind |-> k, at_seq |-> 1, at |-> 1] : k \in {2, 6, 7}}
          \cup {[kind |-> k, at_seq |-> 3, at |-> 5] : k \in {1, 3, 4}})
=============================================================================
