-------------------------- MODULE MCMdvQniceBridge --------------------------
(* A small instance of MdvQniceBridge: a buffer of two words in a memory of   *)
(* three, whose bytes tell words and halves apart.  Of the two files one is   *)
(* as long as is accepted; the other reaches the bitmap's address, the clear *)
(* register and, past the end of port A's addresses, the buffer again.       *)
EXTENDS MdvQniceBridge

MCImage == [a \in Position |-> IF a \in {0, 3, 5, 7} THEN 1 ELSE 0]
=============================================================================
