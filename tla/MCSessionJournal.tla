--------------------------- MODULE MCSessionJournal ---------------------------
(* Two processes with the same journal loaded, for TLC.                    *)
EXTENDS SessionJournal

CONSTANTS i1, i2, b1, b2, b3

MCBoth == {i1, i2}
MCFirst == {i1}
MCBatches == {b1, b2, b3}
=============================================================================
