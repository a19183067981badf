-------------------------------- MODULE Pipe --------------------------------
(* What a chain of queues, tasks and buffers promises its two ends: one      *)
(* queue. What goes in comes out once and in order; a pipe that may lose     *)
(* something loses one thing at a time. Nothing comes out of a closed one.   *)
EXTENDS Integers, Sequences

CONSTANT MayLose    \* the pipe may lose something on the way

VARIABLES open,     \* there is still somebody to take something out
          put,      \* everything that has gone in
          waiting,  \* what is inside
          taken     \* what has come out

Init == open = TRUE /\ put = <<>> /\ waiting = <<>> /\ taken = <<>>

\* Anything may arrive, behind what is waiting, or at a closed pipe in vain.
Put ==
    /\ Len(put') >= Len(put) /\ SubSeq(put', 1, Len(put)) = put
    /\ waiting' = IF open THEN waiting \o SubSeq(put', Len(put) + 1, Len(put')) ELSE waiting
    /\ UNCHANGED <<open, taken>>

Take ==
    /\ waiting # <<>>
    /\ taken' = Append(taken, Head(waiting)) /\ waiting' = Tail(waiting)
    /\ UNCHANGED <<open, put>>

Lose ==
    /\ MayLose
    /\ \E i \in 1..Len(waiting) :
           waiting' = SubSeq(waiting, 1, i - 1) \o SubSeq(waiting, i + 1, Len(waiting))
    /\ UNCHANGED <<open, put, taken>>

Close ==
    /\ open' = FALSE /\ waiting' = <<>>
    /\ UNCHANGED <<put, taken>>

Next == Put \/ Take \/ Lose \/ Close

Spec == Init /\ [][Next]_<<open, put, waiting, taken>>
=============================================================================
