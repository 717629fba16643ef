----------------------------- MODULE MCSdramBus -----------------------------
(* A small instance of SdramBus: a word of main RAM and one of the QL-SD     *)
(* buffer, in different rows and columns.                                    *)
EXTENDS SdramBus

MCNobody  == 2
MCMainRam == {0}
MCLane    == {"uds", "lds"}
MCByte    == {0, 1}

At(n)     == [row |-> n, col |-> n]
MCAddr    == {At(0), At(1)}
Both(n)   == [l \in MCLane |-> n]

(* Main RAM strobes one byte, the buffer's bridge the other.                 *)
MCOperand ==
  [m \in {0, 1} |->
     {[a |-> At(m), w |-> Both(1), be |-> IF m = 0 THEN {"lds"} ELSE {"uds"}]}]

(* The chip starts blank.                                                    *)
MCInit == BusInit /\ cells = [a \in MCAddr |-> Both(0)] /\ avm_address = At(0)

MCSpec == MCInit /\ [][BusNext]_busVars /\ WF_busVars(BusNext)
=============================================================================
