------------------------------ MODULE AvmFifo ------------------------------
(***************************************************************************)
(* The crossing between the core's clock and the HyperRAM's                 *)
(* (M2M/vhdl/memory/avm_fifo.vhd): requests wait in one FIFO, read words    *)
(* come back in another.  The first refuses what it has no room for.  The   *)
(* second cannot: its ready output is left open, and it has to be deep      *)
(* enough for all that was asked for.                                       *)
(*                                                                         *)
(* The FIFOs are vendor macros.  What one side puts in shows on the other   *)
(* some clocks later, which the caller's steps allow for: a side may look,  *)
(* or not, at what is there.                                                *)
(***************************************************************************)
EXTENDS Naturals, Sequences

CONSTANTS
  WrDepth,   (* G_WR_DEPTH (16)                                             *)
  RdDepth    (* G_RD_DEPTH (16)                                             *)

VARIABLES
  requests,  (* i_axi_fifo_wr                                               *)
  answers    (* i_axi_fifo_rd                                               *)

vars == <<requests, answers>>

Init == requests = <<>> /\ answers = <<>>

(* Seeded fault: always ready.                                              *)
NeverWaits == FALSE

(* s_avm_waitrequest_o.                                                     *)
s_avm_waitrequest == Len(requests) >= WrDepth

(* An edge of the slave side's clock: what is asked (a sequence of one      *)
(* request or none), lost if there is no room, and whether a word shows,    *)
(* which is taken at once.                                                  *)
SlaveEdge(asks, shown) ==
  /\ shown => answers # <<>>
  /\ requests' = IF Len(requests) < WrDepth THEN requests \o asks ELSE requests
  /\ answers' = IF shown THEN Tail(answers) ELSE answers

(* The master side takes the next request.                                  *)
MasterTakes ==
  /\ requests # <<>>
  /\ requests' = Tail(requests)
  /\ UNCHANGED answers

(* Seeded fault: full one word early.                                       *)
LastPlaceUnused(word) ==
  /\ answers' = IF Len(answers) < RdDepth - 1 THEN Append(answers, word) ELSE answers
  /\ UNCHANGED requests

(* The master side has a word: without room it is lost.                     *)
MasterAnswers(word) ==
  /\ answers' = IF Len(answers) < RdDepth THEN Append(answers, word) ELSE answers
  /\ UNCHANGED requests

(* A reset of the slave side empties the requests' FIFO.  The answers' is   *)
(* reset by the other side.                                                 *)
ResetSlave == requests' = <<>>
=============================================================================
