---------------------------- MODULE FrameParser ----------------------------
(* FrameParser of src/shared/src/lib.rs as a state machine: bytes arrive     *)
(* one at a time, in any order and of any value, and each push reports at    *)
(* most one outcome.                                                         *)
EXTENDS FrameOps

CONSTANT MaxBytes   \* the bound on the bytes ever pushed

ASSUME MaxBytesAssumption == MaxBytes \in Nat

VARIABLES buf,      \* the bytes held: buf[0..len]
          out,      \* what the last push reported
          input     \* history: every byte pushed

vars == <<buf, out, input>>

Init == buf = <<>> /\ out = Nothing /\ input = <<>>

Push(b) ==
    /\ Len(input) < MaxBytes
    /\ buf' = push(buf, b).buf
    /\ out' = push(buf, b).out
    /\ input' = Append(input, b)

Next == \E b \in Byte : Push(b)

Spec == Init /\ [][Next]_vars

-----------------------------------------------------------------------------
Outcome == {Nothing, Garbage}
             \cup {BadCrc(k) : k \in Byte}
             \cup {Frame(k, p) : k \in Byte, p \in Payload}

\* The variables have their types, and the buffer fits its array.
TypeOK ==
    /\ buf \in Seq(Byte)
    /\ Len(buf) <= MAX_FRAME
    /\ out \in Outcome
    /\ input \in Seq(Byte)

\* Between two calls the buffer is empty or holds an incomplete frame that
\* starts with SYNC and has a plausible length. So the branch of extract that
\* skips junk in front of a sync byte never runs, and the buffer is never so
\* full that push drops the byte it was given.
BufferShape ==
    buf # <<>> =>
        /\ buf[1] = SYNC
        /\ Len(buf) > 1 => buf[2] <= MAX_PAYLOAD /\ Len(buf) < Need(buf)

\* The buffer is the end of what was pushed: no byte between two stretches is
\* lost to the bounded buffer, kept twice, or left behind by copy_within.
HoldsTail ==
    /\ Len(buf) <= Len(input)
    /\ buf = SubSeq(input, Len(input) - Len(buf) + 1, Len(input))

\* push reports one outcome per call, and its callers (parse_stream, the
\* simulator) call it once per byte: no outcome may be left waiting in the
\* buffer for a later byte to flush it out.
NothingOwed == extract(buf) = [buf |-> buf, out |-> Nothing]

-----------------------------------------------------------------------------
\* The parser splits the stream: every byte is settled once, in order, under
\* the verdict that the stretch it belongs to deserves (ByteSplitter). That is
\* less than finding every frame: see IsJunk.
Splitter == INSTANCE ByteSplitter WITH cut <- Len(input) - Len(buf)

SplitsItsInput == Splitter!Spec
=============================================================================
