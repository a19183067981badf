---------------------------- MODULE ByteSplitter ----------------------------
(* What a streaming frame parser promises, over the whole input and with no  *)
(* buffer: the input is cut into stretches; each stretch is settled by one   *)
(* verdict, after its last byte; the stretches are next to each other, so no *)
(* byte is lost, used twice or moved; and fewer bytes than one frame are     *)
(* unsettled at any time.                                                    *)
EXTENDS FrameOps

CONSTANT MaxBytes

VARIABLES input,    \* every byte so far
          cut,      \* how many of them are settled
          out       \* the verdict of the last step

Init == input = <<>> /\ cut = 0 /\ out = Nothing

\* A stretch that cannot start a frame: one byte that is not SYNC, or SYNC
\* with a length no payload has. As in the code, that length may be a SYNC in
\* its turn, which is dropped with the first: the frame it starts is lost, and
\* with it what the repository's test of garbage asks for (Resync).
IsJunk(s) ==
    \/ Len(s) = 1 /\ s[1] # SYNC
    \/ Len(s) = 2 /\ s[1] = SYNC /\ s[2] > MAX_PAYLOAD

\* A stretch as long as its length byte says.
IsFramed(s) ==
    Len(s) >= 3 /\ s[1] = SYNC /\ s[2] <= MAX_PAYLOAD /\ Len(s) = 3 + s[2]

\* A prefix that later bytes may still complete.
IsOpen(s) ==
    \/ s = <<>>
    \/ s = <<SYNC>>
    \/ Len(s) > 1 /\ s[1] = SYNC /\ s[2] <= MAX_PAYLOAD /\ Len(s) < 3 + s[2]

\* One byte arrives and either completes the open stretch or leaves it open.
Arrive(b) ==
    LET stretch == Append(SubSeq(input, cut + 1, Len(input)), b)
    IN  /\ Len(input) < MaxBytes
        /\ input' = Append(input, b)
        /\ \/ /\ IsOpen(stretch)
              /\ out' = Nothing /\ cut' = cut
           \/ /\ IsJunk(stretch)
              /\ out' = Garbage /\ cut' = Len(input')
           \/ /\ IsFramed(stretch)
              /\ out' = Verdict(stretch) /\ cut' = Len(input')

Next == \E b \in Byte : Arrive(b)

Spec == Init /\ [][Next]_<<input, cut, out>>
=============================================================================
