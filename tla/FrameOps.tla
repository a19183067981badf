------------------------------ MODULE FrameOps ------------------------------
(* The frame format of faultforge-shared and the extraction step of its      *)
(* FrameParser (src/shared/src/lib.rs), as operators over byte sequences.    *)
(* The alphabet, the sync byte, the longest payload and the check sum are    *)
(* parameters: Wire gives them the values of the code, the model-checking    *)
(* modules small ones, the proofs none.                                      *)
EXTENDS Integers, Sequences

CONSTANTS Byte,         \* the values of a byte (u8)
          SYNC,         \* the byte that starts a frame
          MAX_PAYLOAD,  \* the longest payload
          crc8(_)       \* the check byte of a sequence of bytes

ASSUME FrameAssumption ==
    /\ Byte \subseteq Nat
    /\ SYNC \in Byte
    /\ MAX_PAYLOAD \in Nat

MAX_FRAME == 3 + MAX_PAYLOAD + 1

Payload == UNION {[1..n -> Byte] : n \in 0..MAX_PAYLOAD}

-----------------------------------------------------------------------------
\* Decoded: what one call of push may report.

Frame(kind, payload) == [type |-> "Frame", kind |-> kind, payload |-> payload]
BadCrc(kind)         == [type |-> "BadCrc", kind |-> kind]
Garbage              == [type |-> "Garbage"]
Nothing              == [type |-> "Nothing"]

\* The bytes of a frame: the check byte covers the length, kind and payload.
encode(kind, payload) ==
    LET body == <<Len(payload), kind>> \o payload
    IN  <<SYNC>> \o body \o <<crc8(body)>>

-----------------------------------------------------------------------------
\* extract: the bytes that stay buffered, and what is reported.

SyncsIn(s) == {i \in 1..Len(s) : s[i] = SYNC}

\* The length that extract waits for and consumes.
Need(s) == 3 + s[2]

\* Mutant of Verdict: the payload taken from the kind byte on.
VerdictFromKind(s) ==
    IF s[Len(s)] = crc8(SubSeq(s, 2, Len(s)))
    THEN Frame(s[3], SubSeq(s, 3, Len(s)))
    ELSE BadCrc(s[3])

\* The verdict on a stretch of Need bytes. The byte compared with the check
\* sum is the last of the stretch, buf[need - 1].
Verdict(s) ==
    IF s[Len(s)] = crc8(SubSeq(s, 2, Len(s)))
    THEN Frame(s[3], SubSeq(s, 4, Len(s)))
    ELSE BadCrc(s[3])

Keeps(rest, outcome) == [buf |-> rest, out |-> outcome]

\* Mutant of Absurd: the guard admits one length too many.
AbsurdBeyondOne(s) == s[2] > MAX_PAYLOAD + 1

Absurd(s) == s[2] > MAX_PAYLOAD

\* Mutant of Rest: a complete frame leaves its last byte buffered.
RestWithLast(s) == SubSeq(s, Need(s), Len(s))

\* What stays behind a complete frame.
Rest(s) == SubSeq(s, Need(s) + 1, Len(s))

\* Behind a sync byte: too short, absurd length, incomplete, or complete.
FromSync(s) ==
    CASE Len(s) < 2                                     -> Keeps(s, Nothing)
      [] Len(s) >= 2 /\ Absurd(s)                       -> Keeps(<<>>, Garbage)
      [] Len(s) >= 2 /\ ~Absurd(s) /\ Len(s) < Need(s)  -> Keeps(s, Nothing)
      [] Len(s) >= 2 /\ ~Absurd(s) /\ Len(s) >= Need(s) ->
            Keeps(Rest(s), Verdict(SubSeq(s, 1, Need(s))))

\* Mutant of extract: junk without a sync byte is reported and stays.
extractKeepsJunk(s) ==
    LET first == CHOOSE i \in SyncsIn(s) : \A j \in SyncsIn(s) : i <= j
    IN  IF SyncsIn(s) = {}
        THEN Keeps(s, IF s = <<>> THEN Nothing ELSE Garbage)
        ELSE IF s[1] = SYNC THEN FromSync(s)
                            ELSE Keeps(SubSeq(s, first, Len(s)), Garbage)

\* Junk in front of the first sync byte is reported before anything else.
extract(s) ==
    LET first == CHOOSE i \in SyncsIn(s) : \A j \in SyncsIn(s) : i <= j
    IN  IF SyncsIn(s) = {}
        THEN Keeps(<<>>, IF s = <<>> THEN Nothing ELSE Garbage)
        ELSE IF s[1] = SYNC THEN FromSync(s)
                            ELSE Keeps(SubSeq(s, first, Len(s)), Garbage)

\* Mutant of push: room for the frame without its check byte and payload end.
pushShortBuffer(s, b) ==
    extract(IF Len(s) < MAX_FRAME - 2 THEN Append(s, b) ELSE s)

\* push: a byte that finds the buffer full is dropped.
push(s, b) == extract(IF Len(s) < MAX_FRAME THEN Append(s, b) ELSE s)
=============================================================================
