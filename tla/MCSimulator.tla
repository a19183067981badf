---------------------------- MODULE MCSimulator -----------------------------
(* The simulator's thread and the FrameParser it gives its bytes to, in one   *)
(* run. SimLink begins behind the parser, with frames that verify: the two   *)
(* share no state, and each moves while the other rests where it starts.     *)
EXTENDS MCFrameParser, MCSimLink

SimulatorInit == Init /\ SimInit

SimulatorNext ==
    \/ SimInit /\ Next /\ UNCHANGED linkVars
    \/ Init /\ SimNext /\ UNCHANGED vars

\* The fairness is SimSpec's: bytes need not arrive.
SimulatorSpec ==
    /\ SimulatorInit /\ [][SimulatorNext]_<<vars, linkVars>>
    /\ WF_linkVars(Sim) /\ WF_linkVars(ParserTakes)
=============================================================================
