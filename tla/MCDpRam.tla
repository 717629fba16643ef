------------------------------- MODULE MCDpRam -------------------------------
(* Small instances of DpRam: two words, two cycles to settle, a refresh      *)
(* every four cycles and up to four cycles in the cache, so that a read is   *)
(* under way longer than an address takes to settle.                        *)
EXTENDS DpRam

CONSTANTS a1, a2   \* model values: word addresses

MCAddr == {a1, a2}
MCContent == [a \in MCAddr |-> 0]
=============================================================================
