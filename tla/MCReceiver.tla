----------------------------- MODULE MCReceiver ------------------------------
(* The tasks of the host and the detector that its campaign gives the frames *)
(* to, in one run. Host keeps the frames that the detector is given, Dut has *)
(* what it makes of any: the two share no state, and each moves while the    *)
(* other rests where it starts.                                              *)
EXTENDS MCHost, Dut

ReceiverInit == Init /\ DutInit

ReceiverNext ==
    \/ DutInit /\ Next /\ UNCHANGED dutVars
    \/ Init /\ DutNext /\ UNCHANGED vars

\* The fairness is Host's. It says nothing of the steps of the detector.
ReceiverSpec == ReceiverInit /\ [][ReceiverNext]_<<vars, dutVars>> /\ Fairness
==============================================================================
