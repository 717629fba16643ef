----------------------------- MODULE MdvReadBack -----------------------------
(***************************************************************************)
(* Reading the image buffer back while the QL writes it: the read-back side *)
(* of the QNICE bridge (CORE/vhdl/mdv_qnice_bridge.vhd, reader_core) on     *)
(* port A of the buffer (DpRam), in one clock domain.  Port A's address is  *)
(* shared: reader_core's while it is at work, the loader's last one between *)
(* its reads, and the QL's for the clock of a write.  The handshakes with   *)
(* QNICE's domain, which MdvQniceBridge spells out, take any time here.     *)
(***************************************************************************)
EXTENDS DpRam

VARIABLES
  rdcore_state, rd_dl_addr,  (* reader_core's state and the word asked for   *)
  ld_dl_addr                 (* the address of the last word loaded         *)

readBackVars == <<vars, rdcore_state, rd_dl_addr, ld_dl_addr>>

(* Port A's address, but for the clock of a write of the QL.                *)
dl_addr_o == IF rdcore_state = "IDLE" THEN ld_dl_addr ELSE rd_dl_addr

ReadBackInit ==
  /\ Init
  /\ rdcore_state = "IDLE" /\ rd_dl_addr = wraddress /\ ld_dl_addr = wraddress

Goes(from, to) ==
  rdcore_state = from /\ rdcore_state' = to /\ UNCHANGED rd_dl_addr

(* A request comes, is acknowledged, waits for port A's "valid", latches    *)
(* the word in the clock after, and the answer crosses to QNICE.            *)
reader_core ==
  \/ Goes("IDLE", "IDLE")
  \/ /\ rdcore_state = "IDLE" /\ rdcore_state' = "REQ_WAIT_LOW"
     /\ rd_dl_addr' \in Addr
  \/ \E s \in {"REQ_WAIT_LOW", "LATCH1"} : Goes("REQ_WAIT_LOW", s)
  \/ Goes("LATCH1", IF q_a_valid_o THEN "LATCH2" ELSE "LATCH1")
  \/ Goes("LATCH2", "SEND")
  \/ \E s \in {"SEND", "IDLE"} : Goes("SEND", s)

(* mdv.v's mux: a write of the QL has port A's address for its clock.       *)
PortAMux == wren' \/ wraddress' = dl_addr_o'

Step(wait) == UNCHANGED ld_dl_addr /\ reader_core /\ Clock(wait) /\ PortAMux

ReadBackNext == \E wait \in BOOLEAN : Step(wait)

ReadBackSpec == ReadBackInit /\ [][ReadBackNext]_readBackVars

-----------------------------------------------------------------------------
\* The word reader_core latches for QNICE is the last written at the address it
\* asked for: "a_hold_q is KNOWN CORRECT for wraddress RIGHT NOW", which
\* reader_core waits for, promises it.
AnswerIsRight ==
  rdcore_state = "LATCH2" /\ rd_dl_addr \notin lost => a_hold_q = want[rd_dl_addr]
=============================================================================
