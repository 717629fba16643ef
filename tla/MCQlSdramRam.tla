---------------------------- MODULE MCQlSdramRam ----------------------------
(* Small instances of QlSdramRam: two words of two bytes, and a watchdog     *)
(* just above the slowest transaction that still works.                      *)
EXTENDS QlSdramRam

CONSTANTS a1, a2   \* model values: word addresses

MCAddr == {a1, a2}
MCLane == {"uds", "lds"}
=============================================================================
