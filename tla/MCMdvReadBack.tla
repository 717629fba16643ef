---------------------------- MODULE MCMdvReadBack ----------------------------
(* A small instance of MdvReadBack: two words that differ, two cycles to      *)
(* settle and up to four in the cache, so that a read is under way longer     *)
(* than an address takes to settle; the QL writes nothing.                  *)
EXTENDS MdvReadBack, TLC

CONSTANTS a1, a2   \* model values: word addresses

MCAddr == {a1, a2}
MCContent == (a1 :> 1) @@ (a2 :> 2)
=============================================================================
