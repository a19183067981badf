------------------------------- MODULE MCEnds --------------------------------
(* The two ends of a campaign's data in one run: the frames as they are      *)
(* encoded, damaged and read, and the score of what was made of them. The    *)
(* two share no state, and each moves while the other rests: the line before *)
(* its first frame, the scorer with nothing to score.                        *)
EXTENDS MCSerialLine, MCScore

ScoreRests ==
    /\ truths = <<>> /\ detections = <<>>
    /\ cadence = CHOOSE c \in Cadences : TRUE

EndsInit == Init /\ ScoreInit

EndsNext ==
    \/ ScoreRests /\ Next /\ UNCHANGED scoreVars
    \/ Init /\ ScoreNext /\ UNCHANGED vars

EndsSpec == EndsInit /\ [][EndsNext]_<<vars, scoreVars>>
==============================================================================
