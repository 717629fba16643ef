--------------------------- MODULE MCHyperRamPath ---------------------------
(* A small instance of HyperRamPath: a line of four words in front of four,  *)
(* one value for each word and one that is written; the words' FIFO has room *)
(* for a line and no more, that of the requests for two.                    *)
EXTENDS HyperRamPath

MCLane      == {"word"}
MCByte      == 0 .. LastAddr + Line + 2
MCContent   == [a \in MemAddr |-> [l \in Lane |-> a + 1]]
MCWriteData == {[l \in Lane |-> LastAddr + Line + 2]}
=============================================================================
