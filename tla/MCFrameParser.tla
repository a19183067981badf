--------------------------- MODULE MCFrameParser ---------------------------
(* A small instance of FrameParser: five byte values, payloads of at most    *)
(* two bytes, one length above that is not SYNC and one that is.             *)
EXTENDS FrameParser, SequencesExt

\* A position-sensitive check byte over the small alphabet.
MCcrc8(s) == FoldLeft(LAMBDA c, b : (2 * c + b) % 5, 1, s)
=============================================================================
