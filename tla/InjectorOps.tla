---------------------------- MODULE InjectorOps ----------------------------
(* The campaign engine SharedCfg of src/host/src/link.rs, as operators: what *)
(* one slot of the cadence emits, and how it moves the engine on. A frame is *)
(* a record of the fields that anybody downstream looks at; the random       *)
(* choices are left to the caller.                                           *)
EXTENDS Integers, Sequences, FiniteSets

FAULT_NONE == 0
FAULT_BITFLIP == 1
FAULT_BYTE == 2
FAULT_DROP == 3
FAULT_DELAY == 4
FAULT_REPLAY == 5
FAULT_BURST == 6
FAULT_DUTY == 7

Sensor(seq, id)      == [type |-> "SENSOR", seq |-> seq, fault_id |-> id]
Notice(id, kind, sq) == [type |-> "FAULT", fault_id |-> id, kind |-> kind, seq |-> sq]
End(packets, faults) == [type |-> "END", packets |-> packets, faults |-> faults]
Pong                 == [type |-> "PONG"]
Junk                 == [type |-> "JUNK"]

-----------------------------------------------------------------------------
\* SharedCfg::from, for a configuration [packets, cadence_ms, kinds], where
\* kinds are those with a weight above zero.
NewCampaign(cfg) ==
    [packets |-> cfg.packets, cadence_ms |-> cfg.cadence_ms, kinds |-> cfg.kinds,
     seq |-> 0, fault_id |-> 0, sent |-> 0]

Exhausted(c) == c.sent >= c.packets

\* What pick may draw: a kind of positive weight, or none if all are zero.
pick(c) == IF c.kinds = {} THEN {FAULT_NONE} ELSE c.kinds

\* The kinds with an arm of their own; DUTY falls through to the clean frame.
IsInjected(kind) == kind \in FAULT_BITFLIP..FAULT_BURST

\* Mutant of AfterSlot: a dropped frame takes no fault id.
AfterSlotDropUncounted(c, kind) ==
    [c EXCEPT !.seq = @ + 1, !.sent = @ + 1,
              !.fault_id = IF IsInjected(kind) /\ kind # FAULT_DROP THEN @ + 1 ELSE @]

\* Mutant of AfterSlot: a dropped frame is not counted as a slot.
AfterSlotDropUnsent(c, kind) ==
    [c EXCEPT !.seq = @ + 1,
              !.sent = IF kind = FAULT_DROP THEN @ ELSE @ + 1,
              !.fault_id = IF IsInjected(kind) THEN @ + 1 ELSE @]

\* The engine after a slot of this kind.
AfterSlot(c, kind) ==
    [c EXCEPT !.seq = @ + 1, !.sent = @ + 1,
              !.fault_id = IF IsInjected(kind) THEN @ + 1 ELSE @]

\* The frames of a slot. A flipped value is flipped before the frame is
\* encoded, so the frame carries a check byte that fits it.
FramesOf(c, kind) ==
    LET clean == Sensor(c.seq, 0)
    IN  CASE kind \in {FAULT_BITFLIP, FAULT_BYTE}       -> <<Sensor(c.seq, c.fault_id + 1)>>
          [] kind = FAULT_DROP                          -> <<>>
          [] kind = FAULT_REPLAY                        -> <<clean, clean>>
          [] kind = FAULT_BURST                         -> <<Junk, clean>>
          [] kind = FAULT_DELAY \/ ~IsInjected(kind)    -> <<clean>>

NoticesOf(c, kind) ==
    IF IsInjected(kind) THEN <<Notice(c.fault_id + 1, kind, c.seq)>> ELSE <<>>

\* Mutant of Emits: the notice goes out ahead of the frames it is about.
EmitsNoticeFirst(c, kind) == NoticesOf(c, kind) \o FramesOf(c, kind)

\* What the slot sends, in order.
Emits(c, kind) == FramesOf(c, kind) \o NoticesOf(c, kind)

\* The sleep in front of what the slot sends; the cadence follows every slot.
PauseBefore(c, kind) == IF kind = FAULT_DELAY THEN 2 * c.cadence_ms ELSE 0
PauseAfter(c) == c.cadence_ms
=============================================================================
